------------------------- MODULE WalletSetupProofs -------------------------
(***************************************************************************)
(* Proofs about WalletSetup and the AppLaunch it extends, for any wallets, *)
(* any number of requests of the login forms and any number of failures    *)
(* and crashes: the upgrade of the storage loses nothing, what the storage *)
(* remembers is sound, the backup of a wallet that was made is kept, and   *)
(* an account is not given a second wallet.                                *)
(***************************************************************************)
EXTENDS WalletSetup, TLAPS

\* LaunchCtrl at work: nothing of the setup is in memory.
Launching == LaunchScreens \ {"reset"}

\* A document of version 2 has come over.
Copied(d) ==
    \/ d = "account" /\ accountInfo
    \/ d = "settings" /\ localSettings
    \/ d = "wallet" /\ walletInfo # None
    \/ d = "backup" /\ (walletBackup # None \/ OldWallet \in saved)

\* Until the storage is marked as version 3, and while the upgrade copies, LaunchCtrl
\* is all that has run, and the only backup there may be is that of the old wallet.
BeforeMark ==
    /\ version # "v3" =>
         /\ screen \in LaunchScreens \ {"next"}
         /\ walletBackup # None => walletBackup.of = OldWallet
    /\ todo # {} /\ walletBackup # None => walletBackup.of = OldWallet
    /\ screen \in {"upgrade", "purge"} => version = "v2"

\* What the upgrade has done so far.  Once the old database is deleted, a wallet
\* with a backup is not set up again: nothing can take the place of the backup.
Upgrading ==
    /\ "backup" \in had => had = OldDocs
    /\ ~wiped =>
         /\ \A d \in had : d \in old \/ Copied(d)
         /\ screen = "upgrade" => \A d \in had \ todo : Copied(d)
         /\ screen = "purge" => \A d \in had : Copied(d)
         /\ "backup" \in had \ old =>
              /\ accountInfo /\ walletInfo # None
              /\ walletBackup # None => walletBackup.of = OldWallet
              /\ screen \in LaunchScreens \cup {"wallet"} /\ Sent = {}

-----------------------------------------------------------------------------
\* What the server has never heard of is not in the app's memory either.
ServerKnows ==
    /\ ~registered => /\ main = None /\ screen # "pin"
                      /\ \A k \in Slots : logins[k].state # "answered"
    /\ main # None => wallets[main] # "absent"
    /\ info.identifier # None => wallets[info.identifier] # "absent"
    /\ \A k \in Slots : logins[k].existing # None =>
         logins[k].state = "answered" /\ wallets[logins[k].existing] # "absent"
    /\ wallet # None => wallets[wallet] = "ours"
    /\ \A w \in created : w # OldWallet /\ wallets[w] = "ours"
    /\ chain \in {"main", "info", "backup"} => wallet # None /\ info.identifier # None

\* Requests go out from the login forms only, and one has been answered when the
\* user is past them.
Requests ==
    /\ screen \in Launching \cup {"start"} \/ todo # {} => Sent = {}
    /\ screen \in Launching \cup {"start", "login", "register"} \/ todo # {} => info = NoInfo
    /\ screen \in {"login", "register"} =>
         \A k \in Sent : logins[k].state = "answered" => logins[k].existing = main
    /\ "twice" \notin mishaps =>
         /\ "thrice" \notin mishaps
         /\ \A j, k \in Sent : j = k
         /\ screen \notin {"login", "register"} => Sent = {}
    /\ "thrice" \notin mishaps =>
         /\ \A i, j, k \in Sent : i = j \/ j = k \/ i = k
         /\ screen \notin {"login", "register"} => \A j, k \in Sent : j = k

\* Where the identifier of setupInfoService and the account's main wallet must
\* agree: while the chain runs and a late answer may bring the main wallet.
MainFollows == main \in {None, info.identifier}
Following ==
    /\ "thrice" \notin mishaps /\ Sent # {}
       /\ (info.backupInfo # None \/ (screen = "pin" /\ chain # "steps")) =>
         MainFollows /\ \A k \in Sent : logins[k].existing \in {None, main}
    /\ "twice" \notin mishaps /\ screen = "pin" /\ chain # "steps" => MainFollows

\* The wallet that goes down the chain is the one of the identifier.
KeysFollow ==
    "thrice" \notin mishaps =>
      /\ chain = "create" => info.identifier = None
      /\ chain \in {"main", "info", "backup"} => wallet = info.identifier
      /\ info.backupInfo # None => info.backupInfo = info.identifier

\* What a phone remembers, and what an old installation remembered, is main.
MainRemembered ==
    "twice" \notin mishaps =>
      /\ chain \in {"info", "backup"} => main = info.identifier
      /\ "wallet" \in old => main = OldWallet /\ wallets[OldWallet] = "ours"

\* Nothing has gone wrong: one wallet was made at most, its backup is in memory until
\* it is stored, and it is stored after the wallet became the main one.
BackupFollows ==
    mishaps = {} =>
      /\ \A v, w \in created : v = w
      /\ main = None => \A w \in created : info.backupInfo = w
      /\ chain \in {"info", "backup", "hallelujah"} => main # None
      /\ chain = "hallelujah" /\ info.backupInfo # None => Backed(info.backupInfo)
      /\ walletBackup # None /\ walletBackup.of \in created => main # None

\* The screen of the backup has one to show, and the one there is came with the
\* upgrade or with a wallet that was made.
BackupShown ==
    /\ screen = "backup" => walletBackup # None
    /\ walletBackup # None => walletBackup.of \in created \cup {OldWallet}

SetupInv ==
    /\ TypeOK
    /\ BeforeMark /\ Upgrading
    /\ BackupShown
    /\ ServerKnows
    /\ Requests
    /\ Following
    /\ KeysFollow /\ KeysMatch
    /\ MainRemembered /\ RememberedIsMain
    /\ BackupFollows /\ BackupKept

-----------------------------------------------------------------------------
\* The inductive invariant holds when the app is installed or first started.
LEMMA InitInv == Init => SetupInv
<1> SUFFICES ASSUME Init PROVE SetupInv
  OBVIOUS
<1> USE LaunchAssumption DEF Init, LaunchInit, NoInfo, NoRequest
<1>1. TypeOK
  <2>1. LaunchTypeOK
    <3>1. version \in {"none", "v2", "v3"} /\ old \subseteq OldDocs
      BY DEF OldDocs
    <3>2. /\ had = old /\ todo = {} /\ faults = 0 /\ screen = "launch"
          /\ accountInfo = FALSE /\ localSettings = FALSE /\ wiped = FALSE
          /\ walletInfo = None /\ walletBackup = None
      OBVIOUS
    <3> HIDE DEF Init, LaunchInit
    <3>3. accountInfo \in BOOLEAN /\ localSettings \in BOOLEAN /\ wiped \in BOOLEAN
      BY <3>2, Zenon
    <3>4. walletInfo \in Docs \cup {None} /\ walletBackup \in Docs \cup {None}
      BY <3>2
    <3>5. old \subseteq OldDocs /\ todo \subseteq OldDocs /\ had \subseteq OldDocs
      BY <3>1, <3>2
    <3>6. faults \in 0..MaxFaults /\ (todo # {} => screen \in {"upgrade", "markReset", "reset"})
      BY <3>2
    <3> QED
      BY <3>1, <3>3, <3>4, <3>5, <3>6 DEF LaunchTypeOK
  <2>2. PICK password \in {"ours", "otherPassword"} :
          wallets = [w \in Ids |-> IF w = main THEN password ELSE "absent"]
    OBVIOUS
  <2>3. wallets \in [Ids -> {"absent", "ours", "otherPassword"}]
    BY <2>2
  <2> QED
    BY <2>1, <2>3 DEF TypeOK, Screens, LaunchScreens, Links
<1>2. BeforeMark /\ Upgrading /\ BackupShown
  BY DEF BeforeMark, Upgrading, BackupShown, LaunchScreens, OldDocs
<1>3. ServerKnows /\ Requests /\ Following
  BY DEF ServerKnows, Requests, Following, Sent, Launching, LaunchScreens
<1>4. KeysFollow /\ KeysMatch /\ MainRemembered /\ RememberedIsMain
  BY DEF KeysFollow, KeysMatch, MainRemembered, RememberedIsMain, OldDocs
<1>5. BackupFollows /\ BackupKept
  BY DEF BackupFollows, BackupKept
<1> QED
  BY <1>1, <1>2, <1>3, <1>4, <1>5 DEF SetupInv

\* LaunchCtrl runs before there is a setup: it leaves the setup's state alone, and
\* ends on the first screen, on the wallet's, or in ResetCtrl.
LEMMA LaunchFrame ==
    ASSUME SetupInv, Load, UNCHANGED <<volatile, mishaps>>,
           UNCHANGED <<server, created, saved>>
    PROVE  /\ screen \in Launching \/ (screen = "reset" /\ todo # {})
           /\ screen' \in Launching \cup {"reset", "start", "wallet"}
           /\ Sent = {} /\ Sent' = {} /\ info = NoInfo
           /\ chain = "idle"
           /\ UNCHANGED <<info, wallet, chain, logins, settingsTried, registered, wallets, main,
                          created, saved, mishaps>>
<1>1. UNCHANGED <<info, wallet, chain, logins, settingsTried, registered, wallets, main,
                  created, saved, mishaps>>
  BY DEF volatile, server
<1>2. /\ screen \in Launching \/ (screen = "reset" /\ todo # {})
      /\ screen' \in Launching \cup {"reset", "start", "wallet"}
  BY DEF SetupInv, TypeOK, LaunchTypeOK, Load, CheckStorageVersion, CopyDoc, DeleteOld,
     UpgradeFails, Mark, MarkFails, MarkReset, GotoNextState, Launching, LaunchScreens
<1>3. Sent = {} /\ info = NoInfo
  BY <1>2 DEF SetupInv, Requests
<1>4. chain = "idle"
  BY <1>2 DEF SetupInv, TypeOK, Launching, LaunchScreens
<1> QED
  BY <1>1, <1>2, <1>3, <1>4 DEF Sent

\* The upgrade of the storage, step by step.
LEMMA LaunchCtrlKeepsStorage ==
    ASSUME SetupInv, Load, UNCHANGED <<volatile, mishaps>>,
           UNCHANGED <<server, created, saved>>
    PROVE  (TypeOK /\ BeforeMark /\ Upgrading)'
<1> DEFINE Kept == TypeOK /\ BeforeMark /\ Upgrading
<1> SUFFICES Kept'
  OBVIOUS
<1>0. /\ screen \in Launching \/ (screen = "reset" /\ todo # {})
      /\ screen' \in Launching \cup {"reset", "start", "wallet"}
      /\ Sent = {} /\ Sent' = {} /\ chain = "idle"
      /\ UNCHANGED <<info, wallet, chain, logins, settingsTried, registered, wallets, main,
                     created, saved, mishaps>>
  BY LaunchFrame
<1> USE <1>0, LaunchAssumption
    DEF SetupInv, TypeOK, LaunchTypeOK, BeforeMark, Upgrading, Copied, Launching, LaunchScreens,
        Screens, OldDocs, Docs, storage, Fault
<1>1. CASE CheckStorageVersion
  BY <1>1 DEF CheckStorageVersion
<1>2. ASSUME NEW d \in OldDocs, CopyDoc(d) PROVE Kept'
  <2>1. /\ screen \in {"upgrade", "markReset", "reset"} /\ d \in todo /\ todo' = todo \ {d}
        /\ screen' = IF screen = "upgrade" /\ todo' = {} THEN "purge" ELSE screen
        /\ old' = old \/ (d = "settings" /\ old' = old \ {d})
        /\ UNCHANGED <<version, had, wiped, faults>>
    BY <1>2 DEF CopyDoc
  <2>2. /\ walletInfo' = IF d = "wallet" /\ d \in old
                         THEN [identifier |-> OldWallet, of |-> OldWallet] ELSE walletInfo
        /\ walletBackup' = IF d = "backup" /\ d \in old
                           THEN [identifier |-> OldWallet, of |-> OldWallet] ELSE walletBackup
    BY <1>2 DEF CopyDoc
  <2>3. /\ accountInfo' \in BOOLEAN /\ localSettings' \in BOOLEAN
        /\ accountInfo \/ (d = "account" /\ d \in old) => accountInfo'
        /\ localSettings \/ (d = "settings" /\ d \in old) => localSettings'
    <3> HIDE DEF SetupInv, TypeOK, LaunchTypeOK, BeforeMark, Upgrading
    <3> QED
      BY <1>2, Zenon DEF CopyDoc
  <2>4. (TypeOK)'
    BY <2>1, <2>2, <2>3
  <2>5. (BeforeMark)'
    BY <2>1, <2>2
  <2>6. (Upgrading)'
    <3>1. \A e \in had : Copied(e) => Copied(e)'
      BY <2>2, <2>3
    <3>2. d \in old => Copied(d)'
      BY <2>2, <2>3
    <3> HIDE DEF Copied
    <3> QED
      BY <2>1, <2>2, <2>3, <3>1, <3>2
  <2> QED
    BY <2>4, <2>5, <2>6
<1>3. CASE DeleteOld
  <2>1. /\ screen = "purge" /\ screen' = "mark" /\ old' = old \cap {"settings"}
        /\ UNCHANGED <<version, accountInfo, walletInfo, walletBackup, localSettings>>
        /\ UNCHANGED <<todo, had, wiped, faults>>
    BY <1>3 DEF DeleteOld
  <2>2. (TypeOK)'
    BY <2>1
  <2>3. (BeforeMark)'
    BY <2>1
  <2>4. ~wiped => \A d \in had : Copied(d)
    BY <2>1
  <2>5. ~wiped /\ "backup" \in had => accountInfo /\ walletInfo # None
    BY <2>4
  <2>6. (Upgrading)'
    BY <2>1, <2>4, <2>5
  <2> QED
    BY <2>2, <2>3, <2>6
<1>4. CASE UpgradeFails
  BY <1>4 DEF UpgradeFails
<1>5. CASE Mark
  BY <1>5 DEF Mark
<1>6. CASE MarkFails
  BY <1>6 DEF MarkFails
<1>7. CASE MarkReset
  BY <1>7 DEF MarkReset
<1>8. CASE GotoNextState
  BY <1>8 DEF GotoNextState
<1> HIDE DEF Kept, SetupInv
<1> QED
  BY <1>1, <1>2, <1>3, <1>4, <1>5, <1>6, <1>7, <1>8 DEF Load

\* What LaunchCtrl brings over is the old wallet, and that is the main one.
LEMMA LaunchCtrlKeeps ==
    ASSUME SetupInv, Load, UNCHANGED <<volatile, mishaps>>,
           UNCHANGED <<server, created, saved>>
    PROVE  SetupInv'
<1>1. /\ screen \in Launching \/ (screen = "reset" /\ todo # {})
      /\ screen' \in Launching \cup {"reset", "start", "wallet"}
      /\ Sent = {} /\ Sent' = {} /\ info = NoInfo /\ chain = "idle"
      /\ UNCHANGED <<info, wallet, chain, logins, settingsTried, registered, wallets, main,
                     created, saved, mishaps>>
  BY LaunchFrame
<1>2. /\ old' \subseteq old
      /\ \/ UNCHANGED walletInfo
         \/ "wallet" \in old /\ walletInfo' = [identifier |-> OldWallet, of |-> OldWallet]
      /\ \/ UNCHANGED walletBackup
         \/ (version # "v3" \/ todo # {}) /\ walletBackup' = [identifier |-> OldWallet, of |-> OldWallet]
  BY DEF SetupInv, BeforeMark, Load, CheckStorageVersion, CopyDoc, DeleteOld,
     UpgradeFails, Mark, MarkFails, MarkReset, GotoNextState, storage
<1>3. (ServerKnows /\ Following /\ KeysFollow)'
  BY <1>1 DEF SetupInv, ServerKnows, Following, MainFollows, KeysFollow, Launching, LaunchScreens
<1>4. (Requests /\ BackupShown)'
  <2>1. Requests'
    BY <1>1 DEF SetupInv, Requests, Launching, LaunchScreens
  <2>2. BackupShown'
    BY <1>1, <1>2 DEF SetupInv, BackupShown, Launching, LaunchScreens
  <2> QED
    BY <2>1, <2>2
<1>5. (KeysMatch /\ MainRemembered /\ RememberedIsMain)'
  BY <1>1, <1>2, LaunchAssumption DEF SetupInv, KeysMatch, MainRemembered, RememberedIsMain
<1>6. (BackupFollows /\ BackupKept)'
  <2>1. \A w \in created : Backed(w) => Backed(w)'
    BY <1>1, <1>2 DEF SetupInv, BeforeMark, ServerKnows, Backed
  <2>2. walletBackup' # None /\ walletBackup'.of \in created =>
          walletBackup # None /\ walletBackup.of \in created
    BY <1>1, <1>2 DEF SetupInv, ServerKnows
  <2>3. chain' = "idle" /\ info' = NoInfo
    BY <1>1
  <2> QED
    BY <1>1, <2>1, <2>2, <2>3 DEF SetupInv, BackupFollows, BackupKept
<1> QED
  BY <1>3, <1>4, <1>5, <1>6, LaunchCtrlKeepsStorage DEF SetupInv

\* A page that is loaded again has forgotten what was in memory: a backup that was
\* only there, or that ResetCtrl deletes, is the mishap that is noted.
LEMMA ReloadKeeps ==
    ASSUME SetupInv, Reload, UNCHANGED <<server, created, saved>>,
           screen' = "launch", todo' = {}, UNCHANGED had,
           mishaps \subseteq mishaps', mishaps' \subseteq mishaps \cup {"cut", "erased"},
           Unstored => "cut" \in mishaps',
           faults' \in 0..MaxFaults, accountInfo' \in BOOLEAN, localSettings' \in BOOLEAN,
           version' = version,
           walletInfo' \in {walletInfo, None}, old' \subseteq old,
           walletBackup' = walletBackup
             \/ (walletBackup' = None /\ (walletBackup # None => "erased" \in mishaps')),
           wiped' = TRUE \/ UNCHANGED <<accountInfo, localSettings, walletInfo, walletBackup, old, wiped>>
    PROVE  SetupInv'
<1>1. /\ info' = NoInfo /\ wallet' = None /\ chain' = "idle"
      /\ logins' = [k \in Slots |-> NoRequest] /\ settingsTried' = FALSE
      /\ Sent' = {}
      /\ UNCHANGED <<registered, wallets, main>>
  BY DEF Reload, server, Sent, NoRequest
<1>2. TypeOK'
  BY <1>1 DEF SetupInv, TypeOK, LaunchTypeOK, NoInfo, NoRequest, Screens, LaunchScreens, Links
<1>3. BeforeMark' /\ Upgrading'
  <2>1. CASE wiped' = TRUE
    BY <2>1 DEF SetupInv, BeforeMark, Upgrading, LaunchScreens
  <2>2. CASE UNCHANGED <<accountInfo, localSettings, walletInfo, walletBackup, old, wiped>>
    BY <1>1, <2>2 DEF SetupInv, BeforeMark, Upgrading, Copied, LaunchScreens
  <2> QED
    BY <2>1, <2>2
<1>4. ServerKnows' /\ Requests' /\ Following' /\ BackupShown'
  BY <1>1 DEF SetupInv, ServerKnows, Requests, Following, BackupShown, NoInfo, NoRequest, Launching
<1>5. (KeysFollow /\ KeysMatch /\ MainRemembered /\ RememberedIsMain)'
  BY <1>1 DEF SetupInv, KeysFollow, KeysMatch, MainRemembered, RememberedIsMain, NoInfo
<1>6. (BackupFollows /\ BackupKept)'
  <2>1. SUFFICES ASSUME mishaps' = {} PROVE (BackupFollows /\ BackupKept)'
    BY DEF BackupFollows, BackupKept
  <2>2. mishaps = {} /\ ~Unstored /\ UNCHANGED walletBackup
    BY <2>1
  <2> QED
    BY <1>1, <2>2 DEF SetupInv, BackupFollows, BackupKept, Unstored, Backed, NoInfo
<1> QED
  BY <1>2, <1>3, <1>4, <1>5, <1>6 DEF SetupInv

\* ResetCtrl deletes all databases, or some of them when one deletion fails; and
\* the app may be killed anywhere.
LEMMA LaunchAndCrashKeep == SetupInv /\ (Launch \/ Crash) => SetupInv'
<1>1. ASSUME SetupInv, Load, UNCHANGED <<volatile, mishaps>>,
             UNCHANGED <<server, created, saved>>
      PROVE  SetupInv'
  BY <1>1, LaunchCtrlKeeps
<1>2. ASSUME SetupInv, Launch, Reset, Reload,
             mishaps' = mishaps
               \cup (IF Unstored THEN {"cut"} ELSE {})
               \cup (IF walletBackup # None /\ walletBackup' = None THEN {"erased"} ELSE {})
      PROVE  SetupInv'
  <2>1. Reset
    BY <1>2
  <2>2. Reload /\ UNCHANGED <<server, created, saved>>
    BY <1>2 DEF Launch
  <2>3. mishaps' = mishaps
               \cup (IF Unstored THEN {"cut"} ELSE {})
               \cup (IF walletBackup # None /\ walletBackup' = None THEN {"erased"} ELSE {})
    BY <1>2 DEF Launch
  <2>4. screen' = "launch" /\ wiped' = TRUE /\ todo' = {} /\ UNCHANGED <<version, had>>
    BY <1>2, <2>1 DEF Reset, SetupInv, TypeOK, LaunchTypeOK
  <2>5. /\ old' \subseteq old /\ faults' \in 0..MaxFaults
        /\ walletInfo' \in {walletInfo, None} /\ walletBackup' \in {walletBackup, None}
    <3>1. old' \subseteq old
      BY <2>1 DEF Reset
    <3>2. walletInfo' \in {walletInfo, None} /\ walletBackup' \in {walletBackup, None}
      BY <2>1 DEF Reset
    <3>3. UNCHANGED faults \/ Fault
      BY <2>1 DEF Reset
    <3>4. faults \in 0..MaxFaults
      BY <1>2 DEF SetupInv, TypeOK, LaunchTypeOK
    <3>5. faults' \in 0..MaxFaults
      BY <3>3, <3>4, LaunchAssumption DEF Fault
    <3> QED
      BY <3>1, <3>2, <3>5
  <2>6. accountInfo' \in BOOLEAN /\ localSettings' \in BOOLEAN
    BY <1>2, <2>1 DEF Reset, SetupInv, TypeOK, LaunchTypeOK
  <2>7. /\ mishaps \subseteq mishaps' /\ mishaps' \subseteq mishaps \cup {"cut", "erased"}
        /\ Unstored => "cut" \in mishaps'
        /\ walletBackup' = walletBackup
             \/ (walletBackup' = None /\ (walletBackup # None => "erased" \in mishaps'))
    BY <2>3, <2>5
  <2> QED
    BY <1>2, <2>2, <2>4, <2>5, <2>6, <2>7, ReloadKeeps
<1>3. ASSUME SetupInv, Crash PROVE SetupInv'
  <2>1. /\ Reload /\ UNCHANGED <<server, created, saved>>
        /\ screen' = "launch" /\ todo' = {} /\ UNCHANGED had
        /\ version' = version
        /\ UNCHANGED <<accountInfo, localSettings, walletInfo, walletBackup, old, wiped>>
    BY <1>3 DEF Crash, Restart, storage
  <2>2. mishaps' = mishaps \cup (IF Unstored THEN {"cut"} ELSE {})
    BY <1>3 DEF Crash, Note
  <2>3. faults' \in 0..MaxFaults /\ accountInfo' \in BOOLEAN /\ localSettings' \in BOOLEAN
    BY <1>3, <2>1, LaunchAssumption DEF Crash, Restart, Fault, SetupInv, TypeOK, LaunchTypeOK
  <2> QED
    BY <1>3, <2>1, <2>2, <2>3, ReloadKeeps
<1> QED
  BY <1>1, <1>2, <1>3 DEF Launch

-----------------------------------------------------------------------------
\* The login forms: at most one request is out when the first answer has taken the
\* user to the PIN, as long as the forms were not sent a third time.
LEMMA FormsKeep ==
    ASSUME SetupInv, NEW k \in Slots, SubmitForm(k) \/ Answer(k) \/ LoginFails(k)
    PROVE  SetupInv'
<1>1. ASSUME SubmitForm(k) PROVE SetupInv'
  <2>1. /\ screen \in {"login", "register"}
        /\ logins[k].state = "none" /\ logins' = [logins EXCEPT ![k].state = screen]
        /\ mishaps' = mishaps \cup (IF Sent # {} THEN {"twice"} ELSE {})
                              \cup (IF \E i, j \in Sent : i # j THEN {"thrice"} ELSE {})
        /\ UNCHANGED <<launchVars, info, wallet, chain, settingsTried, server, created, saved>>
    BY <1>1 DEF SubmitForm
  <2>2. Sent' = Sent \cup {k} /\ k \notin Sent
    BY <2>1 DEF SetupInv, TypeOK, Sent
  <2> USE <2>1, <2>2 DEF SetupInv, launchVars, storage, server
  <2>3. TypeOK'
    BY DEF TypeOK, LaunchTypeOK
  <2>4. (BeforeMark /\ Upgrading /\ BackupShown /\ ServerKnows)'
    BY DEF BeforeMark, Upgrading, Copied, BackupShown, ServerKnows, LaunchScreens, TypeOK
  <2>5. Requests'
    BY DEF Requests, Launching, LaunchScreens, TypeOK, LaunchTypeOK
  <2>6. (Following /\ KeysFollow /\ KeysMatch)'
    BY DEF Following, MainFollows, Requests, KeysFollow, KeysMatch, NoInfo
  <2>7. (MainRemembered /\ RememberedIsMain /\ BackupFollows /\ BackupKept)'
    BY DEF MainRemembered, RememberedIsMain, BackupFollows, BackupKept, Backed
  <2> QED
    BY <2>3, <2>4, <2>5, <2>6, <2>7
<1>2. ASSUME Answer(k) \/ LoginFails(k) PROVE SetupInv'
  <2>1. /\ k \in Sent /\ Sent' \subseteq Sent
        /\ registered \in BOOLEAN /\ registered' \in BOOLEAN /\ (registered => registered')
        /\ \/ logins' = [logins EXCEPT ![k] = NoRequest]
           \/ /\ logins' = [logins EXCEPT ![k] = [state |-> "answered", existing |-> main]]
              /\ registered'
        /\ faults' \in 0..MaxFaults
        /\ UNCHANGED <<screen, storage, todo, had, wiped>>
        /\ UNCHANGED <<info, wallet, chain, settingsTried, wallets, main, observers>>
    <3>1. CASE Answer(k)
      BY <3>1 DEF Answer, SetupInv, TypeOK, LaunchTypeOK, ServerKnows, Sent, NoRequest, launchVars
    <3>2. CASE LoginFails(k)
      BY <3>2, LaunchAssumption DEF LoginFails, Fault, SetupInv, TypeOK, LaunchTypeOK, Sent,
         NoRequest, server
    <3> QED
      BY <1>2, <3>1, <3>2
  <2> USE <2>1 DEF SetupInv, storage, observers
  <2>2. TypeOK'
    BY DEF TypeOK, LaunchTypeOK, NoRequest
  <2>3. (BeforeMark /\ Upgrading /\ BackupShown)'
    BY DEF BeforeMark, Upgrading, Copied, BackupShown
  <2>4. ServerKnows'
    BY DEF ServerKnows, TypeOK, NoRequest
  <2>5. \A j \in Sent' : logins'[j] = logins[j] \/ logins'[j].existing \in {None, main}
    BY DEF TypeOK, NoRequest, Sent
  <2>6. \A j \in Sent' : logins'[j].state = "answered" =>
          logins'[j] = logins[j] \/ logins'[j].existing = main
    BY DEF TypeOK, NoRequest, Sent
  <2>7. Requests'
    BY <2>6 DEF Requests
  <2>8. (Following /\ KeysFollow /\ KeysMatch)'
    BY <2>5 DEF Following, MainFollows, KeysFollow, KeysMatch
  <2>9. (MainRemembered /\ RememberedIsMain /\ BackupFollows /\ BackupKept)'
    BY DEF MainRemembered, RememberedIsMain, BackupFollows, BackupKept, Backed
  <2> QED
    BY <2>2, <2>3, <2>4, <2>7, <2>8, <2>9
<1> QED
  BY <1>1, <1>2

\* An answer that takes the user to the PIN, late or not.  While the chain runs it
\* brings the main wallet or none, and the main wallet is the chain's, if any.
LEMMA LoginSuccessKeeps == ASSUME SetupInv, NEW k \in Slots, LoginSuccess(k) PROVE SetupInv'
<1>1. /\ k \in Sent /\ Sent' = Sent \ {k}
      /\ screen \notin LaunchScreens /\ screen' = "pin" /\ screen # "start"
      /\ logins[k].state = "answered" /\ logins' = [logins EXCEPT ![k] = NoRequest]
      /\ accountInfo' \in BOOLEAN /\ accountInfo'
      /\ info' = [info EXCEPT !.identifier =
                    IF logins[k].existing # None THEN logins[k].existing ELSE @]
      /\ UNCHANGED <<version, old, walletInfo, walletBackup, localSettings>>
      /\ UNCHANGED <<todo, had, wiped, faults>>
      /\ UNCHANGED <<wallet, chain, settingsTried, registered, wallets, main>>
      /\ UNCHANGED <<created, saved, mishaps>>
  BY DEF LoginSuccess, SetupInv, TypeOK, Requests, Sent, NoRequest, server, observers
<1>2. \A j \in Sent' : logins'[j] = logins[j]
  BY <1>1 DEF SetupInv, TypeOK, Sent
<1>3. /\ info'.backupInfo = info.backupInfo
      /\ logins[k].existing # None => info'.identifier = logins[k].existing
      /\ logins[k].existing = None => info'.identifier = info.identifier
  BY <1>1 DEF SetupInv, TypeOK
<1>4. screen \in {"login", "register"} => info = NoInfo /\ chain = "idle" /\ logins[k].existing = main
  BY <1>1 DEF SetupInv, TypeOK, Requests
<1>5. TypeOK'
  BY <1>1 DEF SetupInv, TypeOK, LaunchTypeOK, NoRequest, Screens, LaunchScreens
<1>6. (BeforeMark /\ Upgrading /\ BackupShown)'
  BY <1>1 DEF SetupInv, BeforeMark, Upgrading, Copied, BackupShown, LaunchScreens
<1>7. ServerKnows'
  BY <1>1, <1>2, <1>3 DEF SetupInv, ServerKnows, TypeOK, NoRequest
<1>8. Requests'
  BY <1>1 DEF SetupInv, Requests, Launching, LaunchScreens
<1>9. "thrice" \notin mishaps /\ screen \notin {"login", "register"} => Sent' = {}
  BY <1>1 DEF SetupInv, Requests
<1>10. "twice" \notin mishaps => screen \in {"login", "register"}
  BY <1>1 DEF SetupInv, Requests
<1>11. screen \in {"login", "register"} =>
         main \in {None, info'.identifier} /\ \A j \in Sent' : logins'[j].existing \in {None, main}
  BY <1>1, <1>2, <1>3, <1>4 DEF SetupInv, ServerKnows, Requests, NoInfo, Sent
<1>12. Following'
  BY <1>1, <1>9, <1>10, <1>11 DEF Following, MainFollows
<1>13. "thrice" \notin mishaps /\ (info.backupInfo # None \/ (screen = "pin" /\ chain # "steps")) =>
         info'.identifier = info.identifier
         \/ (info'.identifier = main /\ main \in {None, info.identifier})
  BY <1>1, <1>3 DEF SetupInv, Following, MainFollows
<1>14. KeysFollow'
  BY <1>1, <1>3, <1>4, <1>13 DEF SetupInv, TypeOK, KeysFollow, NoInfo
<1>15. (KeysMatch /\ RememberedIsMain)'
  BY <1>1 DEF SetupInv, KeysMatch, RememberedIsMain
<1>16. MainRemembered'
  BY <1>1, <1>4, <1>10 DEF SetupInv, MainRemembered
<1>17. (BackupFollows /\ BackupKept)'
  BY <1>1, <1>3 DEF SetupInv, BackupFollows, BackupKept, Backed
<1> QED
  BY <1>5, <1>6, <1>7, <1>8, <1>12, <1>14, <1>15, <1>16, <1>17 DEF SetupInv

\* What the user does on the screens after the PIN: a backup is cleared only when
\* it has been saved.
LEMMA UserKeeps == SetupInv /\ User => SetupInv'
<1> SUFFICES ASSUME SetupInv, User PROVE SetupInv'
  OBVIOUS
<1>1. /\ UNCHANGED <<version, old, accountInfo, walletInfo, localSettings>>
      /\ UNCHANGED <<todo, had, wiped, faults>>
      /\ UNCHANGED <<info, wallet, logins, settingsTried, registered, wallets, main>>
      /\ UNCHANGED <<created, mishaps>>
      /\ \/ UNCHANGED <<walletBackup, saved>>
         \/ /\ screen \in {"backup", "wallet"}
            /\ walletBackup' = None /\ saved' = saved \cup {walletBackup.of}
            /\ walletBackup # None \/ screen = "backup"
  BY DEF User, ChooseForm, SubmitPin, CloseAlert, BackupSaved, SkipBackup, ProfileDone,
     BackupSavedLater, LogOut, setupVars, volatile, server, observers, launchVars, storage
<1>2. /\ \/ screen \in {"start", "login", "register"} /\ screen' \in {"login", "register"}
         \/ screen = "pin" /\ screen' = "pin"
         \/ screen = "error" /\ screen' = "reset"
         \/ screen \in {"backup", "profile"} /\ screen' \in {"profile", "wallet"}
         \/ screen = "wallet" /\ screen' \in {"reset", "wallet"}
      /\ \/ chain = "idle" /\ chain' = "init" /\ screen = "pin"
         \/ UNCHANGED chain
  BY DEF User, ChooseForm, SubmitPin, CloseAlert, BackupSaved, SkipBackup, ProfileDone,
     BackupSavedLater, LogOut, setupVars, volatile, launchVars
<1>3. walletBackup' # walletBackup => walletBackup \in Docs
  BY <1>1 DEF SetupInv, TypeOK, LaunchTypeOK, BackupShown
<1>4. screen' = "backup" => FALSE
  BY <1>2
<1>5. TypeOK'
  <2>1. LaunchTypeOK'
    BY <1>1, <1>2, <1>3 DEF SetupInv, TypeOK, LaunchTypeOK
  <2>2. saved' \subseteq Ids
    BY <1>1, <1>3 DEF SetupInv, TypeOK, Docs, LaunchTypeOK, BackupShown
  <2>3. screen' \in Screens /\ chain' \in Links /\ (chain' # "idle" => screen' = "pin")
    BY <1>1, <1>2 DEF SetupInv, TypeOK, Screens, LaunchScreens, Links
  <2> QED
    BY <1>1, <2>1, <2>2, <2>3 DEF SetupInv, TypeOK
<1>6. (BeforeMark /\ BackupShown)'
  BY <1>1, <1>2 DEF SetupInv, BeforeMark, BackupShown, LaunchScreens
<1>7. Upgrading'
  <2>1. wiped \/ \A d \in had : d \in old \/ Copied(d)'
    BY <1>1, <1>2, <1>3 DEF SetupInv, Upgrading, Copied
  <2> QED
    BY <1>1, <1>2, <2>1 DEF SetupInv, Upgrading, LaunchScreens, Sent
<1>8. (ServerKnows /\ Requests)'
  BY <1>1, <1>2 DEF SetupInv, ServerKnows, Requests, Sent, Launching, LaunchScreens
<1>9. (Following /\ KeysFollow)'
  BY <1>1, <1>2 DEF SetupInv, Following, MainFollows, KeysFollow, Sent
<1>10. (KeysMatch /\ MainRemembered /\ RememberedIsMain)'
  BY <1>1, <1>2 DEF SetupInv, KeysMatch, MainRemembered, RememberedIsMain
<1>11. (BackupFollows /\ BackupKept)'
  <2>1. chain' = "hallelujah" => UNCHANGED walletBackup
    BY <1>1, <1>2 DEF SetupInv, TypeOK
  <2> QED
    BY <1>1, <1>2, <2>1 DEF SetupInv, BackupFollows, BackupKept, Backed
<1> QED
  BY <1>5, <1>6, <1>7, <1>8, <1>9, <1>10, <1>11 DEF SetupInv

-----------------------------------------------------------------------------
\* Wherever the chain of the PIN is, it leaves the launch of the app, the forms and
\* what the user has saved alone, and it replaces documents by documents.
LEMMA ChainFrame ==
    ASSUME SetupInv, Chain
    PROVE  /\ screen = "pin" /\ chain # "idle" /\ version = "v3"
           /\ screen' \in {"pin", "error", "backup", "profile", "wallet"}
           /\ screen' \in {"pin", "error"} \/ chain = "steps"
           /\ UNCHANGED <<version, old, accountInfo, localSettings, todo, had, wiped>>
           /\ UNCHANGED <<logins, registered, saved, Sent>>
           /\ faults' \in 0..MaxFaults /\ settingsTried' \in BOOLEAN
           /\ mishaps' = mishaps \/ mishaps' = mishaps \cup {"cut"}
           /\ UNCHANGED walletInfo
              \/ (chain = "info" /\ walletInfo' = [identifier |-> info.identifier, of |-> wallet])
           /\ UNCHANGED walletBackup
              \/ (chain = "backup" /\ info.backupInfo # None
                  /\ walletBackup' = [identifier |-> info.identifier, of |-> info.backupInfo])
<1> USE DEF SetupInv, TypeOK, LaunchTypeOK
<1>1. chain # "idle"
  BY DEF Chain, InitFound, InitOtherPassword, InitMissing, Create, CreateLost, MakeWallet, SetMain,
     SetWalletInfo, SetWalletBackup, Hallelujah, StepFromPin, LinkFails
<1>2. screen = "pin" /\ version = "v3"
  BY <1>1 DEF BeforeMark, LaunchScreens
<1>3. /\ screen' \in {"pin", "error", "backup", "profile", "wallet"}
      /\ screen' \in {"pin", "error"} \/ chain = "steps"
  BY <1>2 DEF Chain, InitFound, InitOtherPassword, InitMissing, Create, CreateLost, MakeWallet,
     SetMain, SetWalletInfo, SetWalletBackup, Hallelujah, StepFromPin, LinkFails, Caught, launchVars
<1>4. /\ UNCHANGED <<version, old, accountInfo, localSettings, todo, had, wiped>>
      /\ UNCHANGED <<logins, registered, saved>>
  BY DEF Chain, InitFound, InitOtherPassword, InitMissing, Create, CreateLost, SetMain,
     SetWalletInfo, SetWalletBackup, Hallelujah, StepFromPin, LinkFails, launchVars, storage,
     server, observers
<1>5. UNCHANGED faults \/ Fault
  BY DEF Chain, InitFound, InitOtherPassword, InitMissing, Create, CreateLost, SetMain,
     SetWalletInfo, SetWalletBackup, Hallelujah, StepFromPin, LinkFails, launchVars
<1>6. faults' \in 0..MaxFaults
  BY <1>5, LaunchAssumption DEF Fault
<1>7. settingsTried' \in BOOLEAN
  BY DEF Chain, InitFound, InitOtherPassword, InitMissing, Create, CreateLost, SetMain,
     SetWalletInfo, SetWalletBackup, Hallelujah, StepFromPin, LinkFails
<1>8. mishaps' = mishaps \/ mishaps' = mishaps \cup {"cut"}
  BY DEF Chain, InitFound, InitOtherPassword, InitMissing, Create, CreateLost, SetMain,
     SetWalletInfo, SetWalletBackup, Hallelujah, StepFromPin, LinkFails, Note, observers
<1>9. UNCHANGED walletInfo
      \/ (chain = "info" /\ walletInfo' = [identifier |-> info.identifier, of |-> wallet])
  BY DEF Chain, InitFound, InitOtherPassword, InitMissing, Create, CreateLost, SetMain,
     SetWalletInfo, SetWalletBackup, Hallelujah, StepFromPin, LinkFails, launchVars, storage
<1>10. UNCHANGED walletBackup
       \/ (chain = "backup" /\ info.backupInfo # None
           /\ walletBackup' = [identifier |-> info.identifier, of |-> info.backupInfo])
  BY DEF Chain, InitFound, InitOtherPassword, InitMissing, Create, CreateLost, SetMain,
     SetWalletInfo, SetWalletBackup, Hallelujah, StepFromPin, LinkFails, launchVars, storage
<1> QED
  BY <1>1, <1>2, <1>3, <1>4, <1>6, <1>7, <1>8, <1>9, <1>10 DEF Sent

\* The chain runs after the launch and past the forms.
LEMMA ChainKeepsOthers ==
    ASSUME SetupInv, Chain
    PROVE  BeforeMark' /\ Upgrading' /\ Requests' /\ BackupShown' /\ LaunchTypeOK'
<1>1. /\ screen = "pin" /\ version = "v3"
      /\ screen' \in {"pin", "error", "backup", "profile", "wallet"}
      /\ UNCHANGED <<version, old, accountInfo, localSettings, todo, had, wiped>>
      /\ UNCHANGED <<logins, saved, Sent>>
      /\ faults' \in 0..MaxFaults
      /\ mishaps' = mishaps \/ mishaps' = mishaps \cup {"cut"}
      /\ UNCHANGED walletInfo
         \/ (chain = "info" /\ walletInfo' = [identifier |-> info.identifier, of |-> wallet])
      /\ UNCHANGED walletBackup
         \/ (chain = "backup" /\ info.backupInfo # None
             /\ walletBackup' = [identifier |-> info.identifier, of |-> info.backupInfo])
  BY ChainFrame
<1>2. /\ walletInfo' = walletInfo \/ walletInfo' \in Docs
      /\ walletBackup' = walletBackup \/ walletBackup' \in Docs
  <2>1. chain = "info" => [identifier |-> info.identifier, of |-> wallet] \in Docs
    BY DEF SetupInv, TypeOK, ServerKnows, Docs
  <2>2. chain = "backup" /\ info.backupInfo # None =>
          [identifier |-> info.identifier, of |-> info.backupInfo] \in Docs
    BY DEF SetupInv, TypeOK, ServerKnows, Docs
  <2> QED
    BY <1>1, <2>1, <2>2
<1>3. None \notin Docs
  BY LaunchAssumption DEF Docs
<1>4. LaunchTypeOK'
  BY <1>1, <1>2 DEF SetupInv, TypeOK, LaunchTypeOK
<1>5. (BeforeMark /\ Requests)'
  BY <1>1 DEF SetupInv, TypeOK, LaunchTypeOK, BeforeMark, Requests, Launching, LaunchScreens
<1>6. Upgrading'
  BY <1>1, <1>2, <1>3 DEF SetupInv, TypeOK, Upgrading, Copied, LaunchScreens
<1>7. BackupShown'
  <2>2. created \subseteq created'
    BY DEF Chain, InitFound, InitOtherPassword, InitMissing, Create, CreateLost, MakeWallet,
       SetMain, SetWalletInfo, SetWalletBackup, Hallelujah, StepFromPin, LinkFails, observers
  <2>3. walletBackup' # None => walletBackup'.of \in created \cup {OldWallet}
    BY <1>1 DEF SetupInv, TypeOK, BackupShown
  <2>1. screen' = "backup" => walletBackup # None
    BY <1>1 DEF Chain, InitFound, InitOtherPassword, InitMissing, Create, CreateLost, SetMain,
       SetWalletInfo, SetWalletBackup, Hallelujah, StepFromPin, LinkFails, Caught, launchVars
  <2> QED
    BY <1>2, <1>3, <2>1, <2>2, <2>3 DEF BackupShown
<1> QED
  BY <1>4, <1>5, <1>6, <1>7

\* What the steps of the chain may disturb.
ChainInv ==
    /\ TypeOK
    /\ ServerKnows
    /\ Following
    /\ KeysFollow /\ KeysMatch
    /\ MainRemembered /\ RememberedIsMain
    /\ BackupFollows /\ BackupKept

\* The first link: the wallet is found, found with another password, or missing.
LEMMA InitLinksKeep ==
    ASSUME SetupInv, Chain, InitFound \/ InitOtherPassword \/ InitMissing
    PROVE  ChainInv'
<1>1. /\ UNCHANGED <<old, walletInfo, walletBackup, logins, registered, wallets, main>>
      /\ UNCHANGED <<Sent, info, settingsTried, created, saved, mishaps>>
      /\ \/ chain' = "main" /\ wallet' = info.identifier /\ OnServer = "ours" /\ screen' = "pin"
         \/ chain' = "idle" /\ wallet' = None /\ screen' = "error"
         \/ chain' = "create" /\ UNCHANGED wallet /\ OnServer = "absent" /\ screen' = "pin"
      /\ chain = "init" /\ screen = "pin"
  BY ChainFrame DEF InitFound, InitOtherPassword, InitMissing, Caught, launchVars, storage, server,
     observers, SetupInv, TypeOK
<1>2. /\ chain' = "main" => info.identifier # None /\ wallets[info.identifier] = "ours"
      /\ chain' = "create" => info.identifier = None
  BY <1>1 DEF OnServer, SetupInv, ServerKnows
<1>3. TypeOK'
  BY <1>1, ChainKeepsOthers DEF SetupInv, TypeOK, Screens, Links
<1>4. (ServerKnows /\ Following)'
  BY <1>1, <1>2 DEF SetupInv, ServerKnows, Following, MainFollows
<1>5. (KeysFollow /\ KeysMatch /\ MainRemembered /\ RememberedIsMain)'
  BY <1>1, <1>2 DEF SetupInv, KeysFollow, KeysMatch, MainRemembered, RememberedIsMain
<1>6. (BackupFollows /\ BackupKept)'
  BY <1>1 DEF SetupInv, BackupFollows, BackupKept, Backed
<1> QED
  BY <1>3, <1>4, <1>5, <1>6 DEF ChainInv

\* A wallet is made for an account that has no main wallet, and never a second one
\* before the first has become the main wallet.
LEMMA CreateKeeps ==
    ASSUME SetupInv, Chain, NEW w \in Ids, Create(w) \/ CreateLost(w)
    PROVE  /\ ChainInv'
           /\ "twice" \notin mishaps => main = None
<1>1. /\ UNCHANGED <<old, walletInfo, walletBackup, logins, registered, main>>
      /\ UNCHANGED <<Sent, settingsTried, saved>>
      /\ w # OldWallet /\ wallets[w] = "absent"
      /\ wallets' = [wallets EXCEPT ![w] = "ours"] /\ created' = created \cup {w}
      /\ chain = "create" /\ screen = "pin"
      /\ \/ /\ info' = [identifier |-> IF info.identifier = None THEN w ELSE info.identifier,
                       backupInfo |-> w]
            /\ wallet' = w /\ chain' = "main" /\ screen' = "pin"
            /\ mishaps' = mishaps
         \/ /\ UNCHANGED info
            /\ wallet' = None /\ chain' = "idle" /\ screen' = "error"
            /\ mishaps' = mishaps \cup {"cut"}
  BY ChainFrame DEF Create, CreateLost, MakeWallet, Unused, Caught, Note, launchVars, storage
<1>2. "thrice" \notin mishaps => info.identifier = None /\ info.backupInfo = None
  BY <1>1 DEF SetupInv, KeysFollow
<1>3. "twice" \notin mishaps => main = None
  BY <1>1, <1>2 DEF SetupInv, Requests, Following, MainFollows
<1>4. "thrice" \notin mishaps /\ Sent # {} =>
        main = None /\ \A k \in Sent : logins[k].existing = None
  BY <1>1, <1>2 DEF SetupInv, Following, MainFollows
<1>5. mishaps = {} => created = {}
  BY <1>2, <1>3, LaunchAssumption DEF SetupInv, TypeOK, BackupFollows
<1>6. TypeOK'
  <2>1. info' \in [identifier : Ids \cup {None}, backupInfo : created' \cup {None}]
    BY <1>1 DEF SetupInv, TypeOK
  <2>2. wallets' \in [Ids -> {"absent", "ours", "otherPassword"}]
    BY <1>1 DEF SetupInv, TypeOK
  <2>3. mishaps' \subseteq {"twice", "thrice", "cut", "erased"}
    BY <1>1 DEF SetupInv, TypeOK
  <2>4. LaunchTypeOK' /\ settingsTried' \in BOOLEAN
    BY <1>1, ChainKeepsOthers DEF SetupInv, TypeOK
  <2> QED
    BY <1>1, <2>1, <2>2, <2>3, <2>4 DEF SetupInv, TypeOK, Screens, Links
<1>7. ServerKnows'
  BY <1>1, LaunchAssumption DEF SetupInv, TypeOK, ServerKnows
<1>8. Following'
  <2>1. "thrice" \in mishaps => "thrice" \in mishaps'
    BY <1>1
  <2>2. "twice" \in mishaps => "twice" \in mishaps'
    BY <1>1
  <2> QED
    BY <1>1, <1>2, <1>3, <1>4, <2>1, <2>2 DEF Following, MainFollows
<1>9. (KeysFollow /\ KeysMatch)'
  BY <1>1, <1>2 DEF SetupInv, KeysFollow, KeysMatch
<1>10. (MainRemembered /\ RememberedIsMain)'
  <2>1. "twice" \in mishaps => "twice" \in mishaps'
    BY <1>1
  <2>2. "twice" \notin mishaps => walletInfo = None /\ "wallet" \notin old
    BY <1>3, LaunchAssumption
    DEF SetupInv, TypeOK, LaunchTypeOK, Docs, MainRemembered, RememberedIsMain
  <2> QED
    BY <1>1, <2>1, <2>2 DEF MainRemembered, RememberedIsMain
<1>11. (BackupFollows /\ BackupKept)'
  <2>1. mishaps' = {} => /\ mishaps = {} /\ created' = {w} /\ chain' = "main"
                         /\ info'.backupInfo = w
    BY <1>1, <1>5
  <2>2. walletBackup # None => walletBackup.of # w
    BY <1>1 DEF SetupInv, ServerKnows, BackupShown
  <2> QED
    BY <1>1, <2>1, <2>2 DEF BackupFollows, BackupKept
<1> QED
  BY <1>3, <1>6, <1>7, <1>8, <1>9, <1>10, <1>11 DEF ChainInv

\* The account's main wallet is the one of the identifier, also when the answer of
\* the server is lost.
LEMMA SetMainKeeps == ASSUME SetupInv, Chain, SetMain PROVE ChainInv'
<1>1. /\ UNCHANGED <<old, walletInfo, walletBackup, logins, registered, wallets>>
      /\ UNCHANGED <<Sent, info, settingsTried, created, saved, mishaps>>
      /\ main' = info.identifier
      /\ chain = "main" /\ screen = "pin"
      /\ \/ chain' = "info" /\ screen' = "pin" /\ UNCHANGED wallet
         \/ chain' = "idle" /\ screen' = "error" /\ wallet' = None
  BY ChainFrame DEF SetMain, Caught, storage, observers
<1>2. info.identifier # None /\ wallet # None /\ info.identifier \in Ids
  BY <1>1 DEF SetupInv, TypeOK, ServerKnows
<1>3. TypeOK'
  BY <1>1, <1>2, ChainKeepsOthers DEF SetupInv, TypeOK, Screens, Links
<1>4. ServerKnows'
  BY <1>1, <1>2 DEF SetupInv, ServerKnows
<1>5. ("thrice" \notin mishaps /\ Sent # {}) \/ "twice" \notin mishaps =>
        main \in {None, info.identifier}
  BY <1>1 DEF SetupInv, Following, MainFollows
<1>6. Following'
  BY <1>1, <1>5 DEF SetupInv, Following, MainFollows
<1>7. (KeysFollow /\ KeysMatch)'
  BY <1>1 DEF SetupInv, KeysFollow, KeysMatch
<1>8. (MainRemembered /\ RememberedIsMain)'
  BY <1>1, <1>5, LaunchAssumption
  DEF SetupInv, TypeOK, LaunchTypeOK, Docs, MainRemembered, RememberedIsMain
<1>9. (BackupFollows /\ BackupKept)'
  BY <1>1, <1>2 DEF SetupInv, BackupFollows, BackupKept, Backed
<1> QED
  BY <1>3, <1>4, <1>6, <1>7, <1>8, <1>9 DEF ChainInv

\* setWalletInfo: the identifier is that of the wallet whose secret is stored.
LEMMA SetWalletInfoKeeps == ASSUME SetupInv, Chain, SetWalletInfo PROVE ChainInv'
<1>1. /\ UNCHANGED <<old, walletBackup, logins, registered, wallets, main, screen>>
      /\ UNCHANGED <<Sent, info, wallet, settingsTried, created, saved, mishaps>>
      /\ walletInfo' = [identifier |-> info.identifier, of |-> wallet]
      /\ chain = "info" /\ chain' = "backup" /\ screen = "pin"
  BY ChainFrame DEF SetWalletInfo, server, observers
<1>2. /\ wallet # None /\ wallets[wallet] = "ours"
      /\ "thrice" \notin mishaps => wallet = info.identifier
      /\ "twice" \notin mishaps => main = info.identifier /\ "thrice" \notin mishaps
  BY <1>1 DEF SetupInv, ServerKnows, KeysFollow, MainRemembered, Requests
<1>3. walletInfo'.identifier = info.identifier /\ walletInfo'.of = wallet
  BY <1>1
<1>4. TypeOK'
  BY <1>1, ChainKeepsOthers DEF SetupInv, TypeOK, Links
<1>5. (ServerKnows /\ Following /\ KeysFollow)'
  BY <1>1 DEF SetupInv, ServerKnows, Following, MainFollows, KeysFollow
<1>6. (KeysMatch /\ MainRemembered /\ RememberedIsMain)'
  BY <1>1, <1>2, <1>3 DEF SetupInv, KeysMatch, MainRemembered, RememberedIsMain
<1>7. (BackupFollows /\ BackupKept)'
  BY <1>1 DEF SetupInv, BackupFollows, BackupKept, Backed
<1> QED
  BY <1>4, <1>5, <1>6, <1>7 DEF ChainInv

\* setWalletBackup: the backup is that of the identifier, and takes the place of
\* no other backup of a wallet that was made.
LEMMA SetWalletBackupKeeps == ASSUME SetupInv, Chain, SetWalletBackup PROVE ChainInv'
<1>1. /\ UNCHANGED <<old, walletInfo, logins, registered, wallets, main, screen>>
      /\ UNCHANGED <<Sent, info, wallet, settingsTried, created, saved, mishaps>>
      /\ \/ info.backupInfo = None /\ UNCHANGED walletBackup
         \/ /\ info.backupInfo # None
            /\ walletBackup' = [identifier |-> info.identifier, of |-> info.backupInfo]
      /\ chain = "backup" /\ chain' = "hallelujah" /\ screen = "pin"
  BY ChainFrame DEF SetWalletBackup, server, observers
<1>2. /\ info.backupInfo # None => info.backupInfo \in created
      /\ "thrice" \notin mishaps /\ info.backupInfo # None => info.backupInfo = info.identifier
  BY <1>1 DEF SetupInv, TypeOK, KeysFollow
<1>3. info.backupInfo # None =>
        /\ walletBackup' # None
        /\ walletBackup'.identifier = info.identifier /\ walletBackup'.of = info.backupInfo
  <2>1. info.backupInfo # None => walletBackup' \in Docs
    BY <1>1 DEF SetupInv, TypeOK, ServerKnows, Docs
  <2> QED
    BY <1>1, <2>1, LaunchAssumption DEF Docs
<1>4. TypeOK'
  BY <1>1, ChainKeepsOthers DEF SetupInv, TypeOK, Links
<1>5. (ServerKnows /\ Following /\ KeysFollow)'
  BY <1>1 DEF SetupInv, ServerKnows, Following, MainFollows, KeysFollow
<1>6. (KeysMatch /\ MainRemembered /\ RememberedIsMain)'
  BY <1>1, <1>2, <1>3 DEF SetupInv, KeysMatch, MainRemembered, RememberedIsMain
<1>7. (BackupFollows /\ BackupKept)'
  BY <1>1, <1>2, <1>3 DEF SetupInv, BackupFollows, BackupKept, Backed
<1> QED
  BY <1>4, <1>5, <1>6, <1>7 DEF ChainInv

\* hallelujah forgets the backup, which has been stored, and toNextStep leaves the
\* PIN; a link that fails leaves what was done so far.
LEMMA LastLinksKeep ==
    ASSUME SetupInv, Chain, Hallelujah \/ StepFromPin \/ LinkFails
    PROVE  ChainInv'
<1>1. /\ UNCHANGED <<old, walletInfo, walletBackup, logins, registered, wallets, main>>
      /\ UNCHANGED <<Sent, created, saved, mishaps>>
      /\ screen = "pin" /\ settingsTried' \in BOOLEAN
      /\ \/ /\ chain = "hallelujah" /\ chain' = "steps" /\ screen' = "pin"
            /\ info' = NoInfo /\ wallet' = None
         \/ /\ chain = "steps" /\ chain' = "idle" /\ screen' \in {"backup", "profile", "wallet"}
            /\ UNCHANGED <<info, wallet>>
         \/ /\ chain' = "idle" /\ screen' = "error"
            /\ UNCHANGED info /\ wallet' = None
            /\ chain # "hallelujah"
  BY ChainFrame DEF Hallelujah, StepFromPin, LinkFails, Caught, launchVars, storage, server,
     observers, SetupInv, TypeOK
<1>2. TypeOK'
  BY <1>1, ChainKeepsOthers DEF SetupInv, TypeOK, Screens, LaunchScreens, Links, NoInfo
<1>3. ServerKnows'
  BY <1>1 DEF SetupInv, ServerKnows, NoInfo
<1>4. (Following /\ KeysFollow)'
  BY <1>1 DEF SetupInv, Following, MainFollows, KeysFollow, NoInfo
<1>5. (KeysMatch /\ MainRemembered /\ RememberedIsMain)'
  BY <1>1 DEF SetupInv, KeysMatch, MainRemembered, RememberedIsMain
<1>6. (BackupFollows /\ BackupKept)'
  BY <1>1, LaunchAssumption DEF SetupInv, TypeOK, BackupFollows, BackupKept, Backed, NoInfo
<1> QED
  BY <1>2, <1>3, <1>4, <1>5, <1>6 DEF ChainInv

\* Every link of the chain.
LEMMA ChainKeeps == SetupInv /\ Chain => SetupInv'
<1> SUFFICES ASSUME SetupInv, Chain PROVE SetupInv'
  OBVIOUS
<1>1. ChainInv'
  BY InitLinksKeep, CreateKeeps, SetMainKeeps, SetWalletInfoKeeps, SetWalletBackupKeeps,
     LastLinksKeep DEF Chain
<1>2. BeforeMark' /\ Upgrading' /\ Requests' /\ BackupShown'
  BY ChainKeepsOthers
<1> QED
  BY <1>1, <1>2 DEF ChainInv, SetupInv

-----------------------------------------------------------------------------
\* No step of the launch, the forms, the chain or the user breaks the invariant.
LEMMA SetupInvKept == SetupInv /\ [Next]_vars => SetupInv'
<1> SUFFICES ASSUME SetupInv, [Next]_vars PROVE SetupInv'
  OBVIOUS
<1>1. CASE Launch \/ Crash
  BY <1>1, LaunchAndCrashKeep
<1>2. ASSUME NEW k \in Slots,
             SubmitForm(k) \/ Answer(k) \/ LoginSuccess(k) \/ LoginFails(k)
      PROVE  SetupInv'
  BY <1>2, FormsKeep, LoginSuccessKeeps
<1>3. CASE Chain
  BY <1>3, ChainKeeps
<1>4. CASE User
  BY <1>4, UserKeeps
<1>5. CASE UNCHANGED vars
  <2> USE <1>5 DEF vars, launchVars, storage, setupVars, volatile, server, observers, SetupInv
  <2>1. (TypeOK /\ BeforeMark /\ Upgrading /\ BackupShown)'
    BY DEF TypeOK, LaunchTypeOK, BeforeMark, Upgrading, Copied, BackupShown, Sent
  <2>2. (ServerKnows /\ Requests /\ Following /\ KeysFollow /\ KeysMatch)'
    BY DEF ServerKnows, Requests, Following, MainFollows, KeysFollow, KeysMatch, Sent
  <2>3. (MainRemembered /\ RememberedIsMain /\ BackupFollows /\ BackupKept)'
    BY DEF MainRemembered, RememberedIsMain, BackupFollows, BackupKept, Backed
  <2> QED
    BY <2>1, <2>2, <2>3
<1> QED
  BY <1>1, <1>2, <1>3, <1>4, <1>5 DEF Next, Login

\* The inductive invariant holds in every state.
LEMMA Invariance == Spec => []SetupInv
BY InitInv, SetupInvKept, PTL DEF Spec

\* No crash or failure in the middle of the upgrade of the storage loses a document.
THEOREM UpgradeLosesNothing == Spec => []UpgradeKeeps
<1>1. SetupInv => UpgradeKeeps
  BY DEF SetupInv, Upgrading, Copied, UpgradeKeeps
<1> QED
  BY <1>1, Invariance, PTL

\* What the phone remembers is one wallet with its own keys, that the server has as
\* the account's main wallet.
THEOREM RememberedIsSound == Spec => []RememberedSound
<1>1. SetupInv => RememberedSound
  BY DEF SetupInv, RememberedSound
<1> QED
  BY <1>1, Invariance, PTL

\* The backup of a wallet that was made is in memory, stored, or saved by the user, as
\* long as no mishap has happened: no app killed, link failed or answer lost before it
\* is stored, no reset that deletes it, and no form sent twice.
THEOREM BackupIsKept == Spec => []BackupKept
<1>1. SetupInv => BackupKept
  BY DEF SetupInv
<1> QED
  BY <1>1, Invariance, PTL

\* Wallets are made by createNewWallet only: for an account that has no main wallet,
\* unless a login form was sent twice.
THEOREM NoSecondWalletIsMade == Spec => NoSecondWallet
<1>1. SetupInv /\ [Next]_vars =>
        [main # None /\ "twice" \notin mishaps => UNCHANGED created]_vars
  <2> SUFFICES ASSUME SetupInv, Next, main # None, "twice" \notin mishaps
               PROVE  UNCHANGED created
    OBVIOUS
  <2>1. CASE Launch \/ Crash
    BY <2>1 DEF Launch, Crash
  <2>2. CASE Login
    BY <2>2 DEF Login, SubmitForm, Answer, LoginSuccess, LoginFails, observers
  <2>3. CASE Chain
    <3>1. ~\E w \in Ids : Create(w) \/ CreateLost(w)
      BY <2>3, CreateKeeps
    <3> QED
      BY <2>3, <3>1 DEF Chain, InitFound, InitOtherPassword, InitMissing, SetMain, SetWalletInfo,
         SetWalletBackup, Hallelujah, StepFromPin, LinkFails, observers
  <2>4. CASE User
    BY <2>4 DEF User, ChooseForm, SubmitPin, CloseAlert, BackupSaved, SkipBackup, ProfileDone,
       BackupSavedLater, LogOut, setupVars, observers
  <2> QED
    BY <2>1, <2>2, <2>3, <2>4 DEF Next
<1> QED
  BY <1>1, Invariance, PTL DEF Spec, NoSecondWallet
=============================================================================
