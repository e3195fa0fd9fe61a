----------------------------- MODULE WalletSetup -----------------------------
(***************************************************************************)
(* Setting up the mobile wallet: log in or register, choose a PIN, create  *)
(* the wallet or open the one the account has, save its backup             *)
(* (blocktrail-wallet/src/js/modules/setup), over the launch of the app    *)
(* and its storage (AppLaunch).                                            *)
(*                                                                         *)
(* SetupWalletPinCtrl.initWallet is a chain of promises.  The wallet goes  *)
(* down the chain as an argument, the identifier is read again from        *)
(* setupInfoService at every link, and whatever fails is caught once, at   *)
(* the end, by resetting the app.                                          *)
(*                                                                         *)
(* An identifier is random: None stands for one that no wallet has yet.    *)
(* The account on the server, external, has wallets and a main wallet.     *)
(***************************************************************************)
EXTENDS AppLaunch

CONSTANT Slots    \* requests of the login forms that may be under way at once

VARIABLES
    info,             \* setupInfoService: identifier and backupInfo
    wallet,           \* the wallet handed down the chain
    chain,            \* the next link of initWallet
    logins,           \* requests of the login and the register form
    settingsTried,    \* settingsService has tried to load (only once)
    registered,       \* server: the account exists
    wallets, main,    \* server: the account's wallets, and its main one
    created,          \* observer: wallets this app has made
    saved,            \* observer: wallets whose backup the user has saved
    mishaps           \* observer: what has gone wrong

volatile == <<info, wallet, chain, logins, settingsTried>>
server == <<registered, wallets, main>>
observers == <<created, saved, mishaps>>
setupVars == <<volatile, server, observers>>
vars == <<launchVars, setupVars>>

Screens == LaunchScreens \cup
    {"start", "login", "register", "pin", "error", "backup", "profile", "wallet"}
Links == {"idle", "init", "create", "main", "info", "backup", "hallelujah", "steps"}
NoRequest == [state |-> "none", existing |-> None]
NoInfo == [identifier |-> None, backupInfo |-> None]

\* Types; the chain runs on the PIN screen only, and a backup in memory belongs
\* to a wallet that was made.
TypeOK ==
    /\ LaunchTypeOK
    /\ screen \in Screens
    /\ info \in [identifier : Ids \cup {None}, backupInfo : created \cup {None}]
    /\ wallet \in Ids \cup {None}
    /\ chain \in Links
    /\ chain # "idle" => screen = "pin"
    /\ logins \in [Slots -> [state : {"none", "login", "register", "answered"},
                             existing : Ids \cup {None}]]
    /\ settingsTried \in BOOLEAN /\ registered \in BOOLEAN
    /\ wallets \in [Ids -> {"absent", "ours", "otherPassword"}]
    /\ main \in Ids \cup {None}
    /\ created \subseteq Ids /\ saved \subseteq Ids
    /\ mishaps \subseteq {"twice", "thrice", "cut", "erased"}

\* The account may exist, and have a wallet made on another device.
Init ==
    /\ LaunchInit
    /\ info = NoInfo /\ wallet = None /\ chain = "idle"
    /\ logins = [k \in Slots |-> NoRequest] /\ settingsTried = FALSE
    /\ registered \in BOOLEAN /\ (old # {} => registered)
    /\ main \in {None, OldWallet} /\ (main # None => registered)
    /\ ("wallet" \in old => main # None)
    /\ \E password \in {"ours", "otherPassword"} :
         /\ "wallet" \in old => password = "ours"
         /\ wallets = [w \in Ids |-> IF w = main THEN password ELSE "absent"]
    /\ created = {} /\ saved = {} /\ mishaps = {}

Backed(w) == walletBackup # None /\ walletBackup.of = w
Unstored == info.backupInfo # None /\ ~Backed(info.backupInfo)
Note(mishap, happens) == mishaps' = mishaps \cup (IF happens THEN {mishap} ELSE {})

\* What a new page starts with.
Reload ==
    /\ info' = NoInfo /\ wallet' = None /\ chain' = "idle"
    /\ logins' = [k \in Slots |-> NoRequest] /\ settingsTried' = FALSE

-----------------------------------------------------------------------------
(***************************************************************************)
(* SetupLoginCtrl and SetupNewAccountCtrl with their form services         *)
(***************************************************************************)
ChooseForm ==
    /\ screen \in {"start", "login", "register"}
    /\ screen' \in {"login", "register"} \ {screen}
    /\ UNCHANGED <<storage, todo, had, wiped, faults, setupVars>>

\* Requests of the forms that are under way.
Sent == {k \in Slots : logins[k].state # "none"}

\* onSubmitFormLogin, onSubmitFormRegister: isFormSubmit is read, but never set.
SubmitForm(k) ==
    /\ screen \in {"login", "register"}
    /\ logins[k].state = "none"
    /\ mishaps' = mishaps
         \cup (IF Sent # {} THEN {"twice"} ELSE {})
         \cup (IF \E i, j \in Sent : i # j THEN {"thrice"} ELSE {})
    /\ logins' = [logins EXCEPT ![k].state = screen]
    /\ UNCHANGED <<launchVars, info, wallet, chain, settingsTried, server, created, saved>>

\* The server names the main wallet of an account that logs in, and refuses an
\* address that is registered already, or is not.
Answer(k) ==
    /\ logins[k].state \in {"login", "register"}
    /\ registered' = (registered \/ logins[k].state = "register")
    /\ logins' = [logins EXCEPT ![k] =
         CASE logins[k].state = "login" /\ registered ->
                [state |-> "answered", existing |-> main]
           [] logins[k].state = "register" /\ ~registered ->
                [state |-> "answered", existing |-> None]
           [] OTHER -> NoRequest]
    /\ UNCHANGED <<launchVars, info, wallet, chain, settingsTried, wallets, main, observers>>

\* Mutated form: the wallet the account has is not taken over.
LoginSuccessNew(k) ==
    /\ screen \notin LaunchScreens
    /\ logins[k].state = "answered"
    /\ accountInfo' = TRUE
    /\ screen' = "pin"
    /\ logins' = [logins EXCEPT ![k] = NoRequest]
    /\ UNCHANGED <<version, old, walletInfo, walletBackup, localSettings>>
    /\ UNCHANGED <<todo, had, wiped, faults>>
    /\ UNCHANGED <<info, wallet, chain, settingsTried, server, observers>>
\* Mutated form: the account's wallet is taken over also when there is none.
LoginSuccessOverwrites(k) ==
    /\ screen \notin LaunchScreens
    /\ logins[k].state = "answered"
    /\ accountInfo' = TRUE
    /\ info' = [info EXCEPT !.identifier = logins[k].existing]
    /\ screen' = "pin"
    /\ logins' = [logins EXCEPT ![k] = NoRequest]
    /\ UNCHANGED <<version, old, walletInfo, walletBackup, localSettings>>
    /\ UNCHANGED <<todo, had, wiped, faults>>
    /\ UNCHANGED <<wallet, chain, settingsTried, server, observers>>
\* _setAccountInfo and the success handler, on whatever screen the user is by now.
LoginSuccess(k) ==
    /\ screen \notin LaunchScreens
    /\ logins[k].state = "answered"
    /\ accountInfo' = TRUE
    /\ info' = [info EXCEPT !.identifier =
                  IF logins[k].existing # None THEN logins[k].existing ELSE @]
    /\ screen' = "pin"
    /\ logins' = [logins EXCEPT ![k] = NoRequest]
    /\ UNCHANGED <<version, old, walletInfo, walletBackup, localSettings>>
    /\ UNCHANGED <<todo, had, wiped, faults>>
    /\ UNCHANGED <<wallet, chain, settingsTried, server, observers>>

\* The request, its answer or the put of accountInfo fails.
LoginFails(k) ==
    /\ Fault
    /\ logins[k].state # "none"
    /\ logins' = [logins EXCEPT ![k] = NoRequest]
    /\ UNCHANGED <<screen, storage, todo, had, wiped>>
    /\ UNCHANGED <<info, wallet, chain, settingsTried, server, observers>>

-----------------------------------------------------------------------------
(***************************************************************************)
(* SetupWalletPinCtrl                                                      *)
(***************************************************************************)
Unused == {w \in Ids \ {OldWallet} : wallets[w] = "absent"}
OnServer == IF info.identifier = None THEN "absent" ELSE wallets[info.identifier]

\* onSubmitFormPin, createWallet.  The model stops when no identifier is left.
SubmitPin ==
    /\ screen = "pin" /\ chain = "idle"
    /\ Unused # {}
    /\ chain' = "init"
    /\ UNCHANGED <<launchVars, info, wallet, logins, settingsTried, server, observers>>

\* The catch at the end of the chain: an alert.
Caught ==
    /\ screen' = "error" /\ chain' = "idle" /\ wallet' = None

\* sdk.initWallet finds the wallet; upgradeToV3 is part of it.
InitFound ==
    /\ chain = "init" /\ OnServer = "ours"
    /\ wallet' = info.identifier
    /\ chain' = "main"
    /\ UNCHANGED <<launchVars, info, logins, settingsTried, server, observers>>

\* initWalletErrorHandler for a wallet with another password: the message to the
\* log reads $scope.setupInfo, which does not exist, and the exception is caught.
InitOtherPassword ==
    /\ chain = "init" /\ OnServer = "otherPassword"
    /\ Caught
    /\ UNCHANGED <<storage, todo, had, wiped, faults>>
    /\ UNCHANGED <<info, logins, settingsTried, server, observers>>

\* initWalletErrorHandler for a wallet that is not found.
InitMissing ==
    /\ chain = "init" /\ OnServer = "absent"
    /\ chain' = "create"
    /\ UNCHANGED <<launchVars, info, wallet, logins, settingsTried, server, observers>>

\* The server makes the wallet.
MakeWallet(w) ==
    /\ chain = "create" /\ w \in Unused
    /\ wallets' = [wallets EXCEPT ![w] = "ours"]
    /\ created' = created \cup {w}

\* sdk.createNewWallet, and setSetupInfo keeps the backup.  The identifier is left
\* alone: it is the wallet's, unless a late answer to a form has changed it.
Create(w) ==
    /\ MakeWallet(w)
    /\ info' = [identifier |-> IF info.identifier = None THEN w ELSE info.identifier,
                backupInfo |-> w]
    /\ wallet' = w
    /\ chain' = "main"
    /\ UNCHANGED <<launchVars, logins, settingsTried, registered, main, saved, mishaps>>

\* The wallet is made, and the answer lost.
CreateLost(w) ==
    /\ Fault
    /\ MakeWallet(w)
    /\ Caught
    /\ Note("cut", TRUE)
    /\ UNCHANGED <<storage, todo, had, wiped>>
    /\ UNCHANGED <<info, logins, settingsTried, registered, main, saved>>

\* stashWalletSecret, setSdkMainMobileWallet; its answer may be lost.
SetMain ==
    /\ chain = "main"
    /\ main' = info.identifier
    /\ \/ chain' = "info" /\ UNCHANGED <<screen, wallet, faults>>
       \/ Fault /\ Caught
    /\ UNCHANGED <<storage, todo, had, wiped>>
    /\ UNCHANGED <<info, logins, settingsTried, registered, wallets, observers>>

\* setWalletInfo, with the secret of the wallet at hand.
SetWalletInfo ==
    /\ chain = "info"
    /\ walletInfo' = [identifier |-> info.identifier, of |-> wallet]
    /\ chain' = "backup"
    /\ UNCHANGED <<version, old, accountInfo, walletBackup, localSettings>>
    /\ UNCHANGED <<screen, todo, had, wiped, faults>>
    /\ UNCHANGED <<info, wallet, logins, settingsTried, server, observers>>

\* lockWallet, setWalletBackup
SetWalletBackup ==
    /\ chain = "backup"
    /\ walletBackup' = IF info.backupInfo # None
                       THEN [identifier |-> info.identifier, of |-> info.backupInfo]
                       ELSE walletBackup
    /\ chain' = "hallelujah"
    /\ UNCHANGED <<version, old, accountInfo, walletInfo, localSettings>>
    /\ UNCHANGED <<screen, todo, had, wiped, faults>>
    /\ UNCHANGED <<info, wallet, logins, settingsTried, server, observers>>

\* Mutated form: without a backup to save, the next step is not asked for.
HallelujahStalls ==
    /\ chain = "hallelujah" /\ walletBackup # None
    /\ info' = NoInfo /\ wallet' = None
    /\ chain' = "steps"
    /\ UNCHANGED <<launchVars, logins, settingsTried, server, observers>>
\* hallelujah: resetSetupInfo, and setupStepsService asks for the settings.
Hallelujah ==
    /\ chain = "hallelujah"
    /\ info' = NoInfo /\ wallet' = None
    /\ chain' = "steps"
    /\ UNCHANGED <<launchVars, logins, settingsTried, server, observers>>

\* A link of the chain fails.  The settings can only fail the first time.
LinkFails ==
    /\ Fault
    /\ chain \notin {"idle", "hallelujah"}
    /\ chain = "steps" => ~settingsTried
    /\ settingsTried' = (settingsTried \/ chain = "steps")
    /\ Caught
    /\ UNCHANGED <<storage, todo, had, wiped>>
    /\ UNCHANGED <<info, logins, server, observers>>

\* The user closes the alert.
CloseAlert ==
    /\ screen = "error"
    /\ screen' = "reset"
    /\ UNCHANGED <<storage, todo, had, wiped, faults, setupVars>>

-----------------------------------------------------------------------------
(***************************************************************************)
(* setupStepsService.toNextStep, the backup and the profile                *)
(***************************************************************************)
\* From the PIN: to the backup when there is one to save.
StepFromPin ==
    /\ chain = "steps"
    /\ chain' = "idle" /\ settingsTried' = TRUE
    /\ \/ /\ walletBackup # None
          /\ screen' = "backup"
       \/ /\ walletBackup = None
          /\ screen' \in {"profile", "wallet"}
    /\ UNCHANGED <<storage, todo, had, wiped, faults>>
    /\ UNCHANGED <<info, wallet, logins, server, created, saved, mishaps>>

\* onNextStep of the backup, which the user has saved and confirmed.
BackupSaved ==
    /\ screen = "backup"
    /\ saved' = saved \cup {walletBackup.of}
    /\ walletBackup' = None
    /\ screen' \in {"profile", "wallet"}
    /\ UNCHANGED <<version, old, accountInfo, walletInfo, localSettings>>
    /\ UNCHANGED <<todo, had, wiped, faults, volatile, server, created, mishaps>>

\* Mutated form: the backup is cleared although it is put off.
SkipBackupClears ==
    /\ screen = "backup"
    /\ screen' \in {"profile", "wallet"}
    /\ walletBackup' = None
    /\ UNCHANGED <<version, old, accountInfo, walletInfo, localSettings>>
    /\ UNCHANGED <<todo, had, wiped, faults, setupVars>>
\* onSkipBackup: the document stays for SettingsWalletBackupCtrl.
SkipBackup ==
    /\ screen = "backup"
    /\ screen' \in {"profile", "wallet"}
    /\ UNCHANGED <<storage, todo, had, wiped, faults, setupVars>>

\* SetupProfileCtrl.onNextStep
ProfileDone ==
    /\ screen = "profile"
    /\ screen' = "wallet"
    /\ UNCHANGED <<storage, todo, had, wiped, faults, setupVars>>

\* SettingsWalletBackupCtrl.onNextStep
BackupSavedLater ==
    /\ screen = "wallet" /\ walletBackup # None
    /\ saved' = saved \cup {walletBackup.of}
    /\ walletBackup' = None
    /\ UNCHANGED <<version, old, accountInfo, walletInfo, localSettings>>
    /\ UNCHANGED <<screen, todo, had, wiped, faults, volatile, server, created, mishaps>>

\* The user logs out, or checkAPIKeyActive finds the key revoked.
LogOut ==
    /\ screen = "wallet"
    /\ screen' = "reset"
    /\ UNCHANGED <<storage, todo, had, wiped, faults, setupVars>>

-----------------------------------------------------------------------------
\* Reset loads the page again; what was in memory, or erased, is gone.
Launch ==
    /\ \/ Load /\ UNCHANGED <<volatile, mishaps>>
       \/ /\ Reset /\ Reload
          /\ mishaps' = mishaps
               \cup (IF Unstored THEN {"cut"} ELSE {})
               \cup (IF walletBackup # None /\ walletBackup' = None THEN {"erased"} ELSE {})
    /\ UNCHANGED <<server, created, saved>>

Crash ==
    /\ Restart
    /\ Reload
    /\ Note("cut", Unstored)
    /\ UNCHANGED <<server, created, saved>>

Login == \E k \in Slots : SubmitForm(k) \/ Answer(k) \/ LoginSuccess(k) \/ LoginFails(k)
Chain ==
    \/ InitFound \/ InitOtherPassword \/ InitMissing
    \/ \E w \in Ids : Create(w) \/ CreateLost(w)
    \/ SetMain \/ SetWalletInfo \/ SetWalletBackup \/ Hallelujah \/ StepFromPin
    \/ LinkFails
User ==
    \/ ChooseForm \/ SubmitPin \/ CloseAlert
    \/ BackupSaved \/ SkipBackup \/ ProfileDone \/ BackupSavedLater \/ LogOut

Next == Launch \/ Login \/ Chain \/ User \/ Crash

Spec == Init /\ [][Next]_vars

\* Promises settle, one way or the other; the user need not do anything.
FairSpec == Spec /\ WF_vars(Launch) /\ WF_vars(Chain)

-----------------------------------------------------------------------------
(***************************************************************************)
(* Properties                                                              *)
(***************************************************************************)
\* No crash in the middle of the upgrade loses a document: until ResetCtrl is
\* called, it is in the old database, in the new one, or was saved by the user.
UpgradeKeeps ==
    wiped \/ \A d \in had :
      \/ d \in old
      \/ d = "account" /\ accountInfo
      \/ d = "settings" /\ localSettings
      \/ d = "wallet" /\ walletInfo # None
      \/ d = "backup" /\ (walletBackup # None \/ OldWallet \in saved)

\* The identifier stored is that of the wallet whose secret is stored with it,
\* although it is read anew at every link and a late answer to a form that was
\* sent twice may change it.  A form sent a third time is the exception.
KeysMatch ==
    "thrice" \notin mishaps =>
      /\ walletInfo # None => walletInfo.of = walletInfo.identifier
      /\ walletBackup # None => walletBackup.of = walletBackup.identifier

\* A wallet the phone remembers is one the server has, can be opened, and knows
\* as the account's main wallet: after a crash, a lost answer, an upgrade or a
\* second setup.  A login form sent twice is the exception.
RememberedIsMain ==
    walletInfo # None /\ "twice" \notin mishaps =>
      wallets[walletInfo.identifier] = "ours" /\ main = walletInfo.identifier

\* The types, and what the storage remembers is sound: one wallet with its own
\* keys, and the account's main wallet.
RememberedSound == TypeOK /\ KeysMatch /\ RememberedIsMain

\* The backup of a wallet made is in memory, in the storage, or saved by the user,
\* wherever the app is killed and whatever fails, but for what the code does lose:
\* from createNewWallet to setWalletBackup the app is killed, a link fails or the
\* answer is lost ("cut"); ResetCtrl deletes a backup that is stored, because the last
\* link fails, or the user puts it off and logs out, which the app asks twice about,
\* or the key is revoked ("erased"); a form sent twice has a second wallet made, whose
\* backup replaces the first ("twice").
BackupKept ==
    mishaps = {} => \A w \in created : info.backupInfo = w \/ Backed(w) \/ w \in saved

\* An account that has a main wallet is not given another one, also when the
\* setup failed and is done again.  A login form sent twice is the exception; and a
\* wallet made that did not become the main one does not count.
NoSecondWallet ==
    [][main # None /\ "twice" \notin mishaps => UNCHANGED created]_vars

\* The chain ends, and so does the launch: with a screen the user can act on, or
\* in the state without a handler.
SetupEnds ==
    /\ chain # "idle" ~> chain = "idle"
    /\ screen = "launch" ~> screen \in {"start", "wallet", "halted"}
=============================================================================
