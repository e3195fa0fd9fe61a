------------------------------ MODULE AppLaunch ------------------------------
(***************************************************************************)
(* What the mobile wallet does when it is started, up to its first screen: *)
(* LaunchCtrl (blocktrail-wallet/src/js/modules/launch/controllers/launch/ *)
(* launch.ctrl.js) checks the version of the storage, moves the documents  *)
(* of version 2 to the databases of version 3, and chooses the screen;     *)
(* ResetCtrl deletes the databases and loads the app again.                *)
(*                                                                         *)
(* A document is a record of the wallet it names and the wallet whose keys *)
(* it holds.  Every database may refuse a write, and the app may be killed *)
(* at any time; MaxFaults bounds both.                                     *)
(***************************************************************************)
EXTENDS Naturals, FiniteSets

CONSTANTS
    Ids,          \* identifiers of wallets
    OldWallet,    \* the wallet the account had before this installation
    None,
    MaxFaults     \* bound of the model: failures and crashes

ASSUME LaunchAssumption ==
    /\ OldWallet \in Ids
    /\ None \notin Ids \cup [identifier : Ids, of : Ids]
    /\ MaxFaults \in Nat

VARIABLES
    screen,          \* the state of $state, and how far launch.ctrl is
    version,         \* document STORAGE_VERSION
    old,             \* documents in the databases of version 1 or 2
    accountInfo,     \* storage accountInfo has a key for the API
    walletInfo,      \* storage walletInfo
    walletBackup,    \* storage walletBackup
    localSettings,   \* storage localSettings has been written
    todo,            \* documents the upgrade has still to copy
    had,             \* observer: old as it was installed
    wiped,           \* observer: ResetCtrl has run
    faults

storage == <<version, old, accountInfo, walletInfo, walletBackup, localSettings>>
launchVars == <<screen, storage, todo, had, wiped, faults>>

OldDocs == {"account", "wallet", "backup", "settings"}
Docs == [identifier : Ids, of : Ids]
LaunchScreens == {"launch", "upgrade", "purge", "mark", "markReset", "next", "reset", "halted"}

LaunchTypeOK ==
    /\ version \in {"none", "v2", "v3"}
    /\ old \subseteq OldDocs /\ todo \subseteq OldDocs /\ had \subseteq OldDocs
    /\ accountInfo \in BOOLEAN /\ localSettings \in BOOLEAN /\ wiped \in BOOLEAN
    /\ walletInfo \in Docs \cup {None}
    /\ walletBackup \in Docs \cup {None}
    /\ faults \in 0..MaxFaults
    /\ todo # {} => screen \in {"upgrade", "markReset", "reset"}

\* A new phone, one with version 1, or one with version 2 at any point of its setup.
LaunchInit ==
    /\ screen = "launch"
    /\ \/ version = "none" /\ old \in {{}, {"account"}}
       \/ version = "v2" /\ old \in {{}, {"account", "settings"},
                                    {"account", "wallet", "settings"}, OldDocs}
    /\ accountInfo = FALSE /\ walletInfo = None /\ walletBackup = None
    /\ localSettings = FALSE
    /\ todo = {} /\ had = old /\ wiped = FALSE /\ faults = 0

-----------------------------------------------------------------------------
Fault == faults < MaxFaults /\ faults' = faults + 1

\* checkStorageVersion.  The three databases that are caches are deleted before
\* anything is copied.
CheckStorageVersion ==
    /\ screen = "launch"
    /\ screen' = CASE version = "v3" -> "next"
                   [] version = "v2" -> "upgrade"
                   [] version = "none" /\ "account" \in old -> "markReset"
                   [] OTHER -> "mark"
    /\ todo' = IF version = "v2" THEN OldDocs ELSE {}
    /\ UNCHANGED <<storage, had, wiped, faults>>

\* One of the four copies of upgradeStorageV2toV3, which run side by side, and go on
\* when another has failed until the page is loaded again.  That the old settings are
\* removed is not waited for, and may not happen.
CopyDoc(d) ==
    /\ d \in todo
    /\ todo' = todo \ {d}
    /\ screen' = IF screen = "upgrade" /\ todo' = {} THEN "purge" ELSE screen
    /\ accountInfo' = (accountInfo \/ (d = "account" /\ d \in old))
    /\ walletInfo' = IF d = "wallet" /\ d \in old
                     THEN [identifier |-> OldWallet, of |-> OldWallet] ELSE walletInfo
    /\ walletBackup' = IF d = "backup" /\ d \in old
                       THEN [identifier |-> OldWallet, of |-> OldWallet] ELSE walletBackup
    /\ localSettings' = (localSettings \/ (d = "settings" /\ d \in old))
    /\ old' \in IF d = "settings" THEN {old, old \ {d}} ELSE {old}
    /\ UNCHANGED <<version, had, wiped, faults>>

\* deleteDB('launch')
DeleteOld ==
    /\ screen = "purge"
    /\ screen' = "mark"
    /\ old' = old \cap {"settings"}
    /\ UNCHANGED <<version, accountInfo, walletInfo, walletBackup, localSettings>>
    /\ UNCHANGED <<todo, had, wiped, faults>>

\* Mutated form: the failure is logged, and the old database deleted nevertheless.
UpgradeFailsPurges ==
    /\ Fault
    /\ screen \in {"upgrade", "purge"}
    /\ screen' = "purge" /\ todo' = {}
    /\ UNCHANGED <<storage, had, wiped>>
\* A deletion of the upgrade fails, or one of the copies.  With or without a backup
\* among the data, what the first failure returns counts as false.
UpgradeFails ==
    /\ Fault
    /\ \/ /\ screen = "purge" \/ (screen = "upgrade" /\ todo = OldDocs)
          /\ screen' = "markReset" /\ todo' = {}
       \/ /\ \E d \in todo : todo' = todo \ {d}
          /\ screen' = IF screen = "upgrade" THEN "markReset" ELSE screen
    /\ UNCHANGED <<storage, had, wiped>>

\* updateStorageVersionDoc, when loading can continue.
Mark ==
    /\ screen = "mark"
    /\ version' = "v3" /\ screen' = "next"
    /\ UNCHANGED <<old, accountInfo, walletInfo, walletBackup, localSettings>>
    /\ UNCHANGED <<todo, had, wiped, faults>>

\* The put is refused: nobody handles the rejection, and the app stays where it is.
MarkFails ==
    /\ Fault
    /\ screen = "mark"
    /\ screen' = "halted"
    /\ UNCHANGED <<storage, todo, had, wiped>>

\* updateStorageVersionDocAndReset: the error of the put is caught.
MarkReset ==
    /\ screen = "markReset"
    /\ screen' = "reset"
    /\ \/ version' = "v3" /\ UNCHANGED faults
       \/ Fault /\ UNCHANGED version
    /\ UNCHANGED <<old, accountInfo, walletInfo, walletBackup, localSettings>>
    /\ UNCHANGED <<todo, had, wiped>>

\* resetAll, and the page is loaded again.  Each database is deleted by itself;
\* when one of them fails the others may not be waited for.
Reset ==
    /\ screen = "reset"
    /\ screen' = "launch" /\ wiped' = TRUE
    /\ \/ /\ old' = {} /\ accountInfo' = FALSE /\ localSettings' = FALSE
          /\ walletInfo' = None /\ walletBackup' = None
          /\ UNCHANGED faults
       \/ /\ Fault
          /\ old' \in {{}, old} /\ accountInfo' \in {FALSE, accountInfo}
          /\ localSettings' \in {FALSE, localSettings}
          /\ walletInfo' \in {None, walletInfo}
          /\ walletBackup' \in {None, walletBackup}
    /\ todo' = {}
    /\ UNCHANGED <<version, had>>

\* gotoNextState
GotoNextState ==
    /\ screen = "next"
    /\ screen' = IF accountInfo /\ walletInfo # None THEN "wallet" ELSE "start"
    /\ UNCHANGED <<storage, todo, had, wiped, faults>>

\* LaunchCtrl.
Load ==
    \/ CheckStorageVersion
    \/ \E d \in OldDocs : CopyDoc(d)
    \/ DeleteOld \/ UpgradeFails
    \/ Mark \/ MarkFails \/ MarkReset
    \/ GotoNextState

\* The app is killed and started again.
Restart ==
    /\ Fault
    /\ screen # "launch"
    /\ screen' = "launch" /\ todo' = {}
    /\ UNCHANGED <<storage, had, wiped>>
=============================================================================
