--------------------------- MODULE WalletsManager ---------------------------
(***************************************************************************)
(* WalletsManagerService (blocktrail-wallet/src/js/modules/core/services/  *)
(* wallets-manager/wallets-manager.service.js) switching the active wallet *)
(* over the polling wallets of WalletPolling, as driven by the wallet      *)
(* controller (wallet.ctrl.js) and the route that loads it.                *)
(***************************************************************************)
EXTENDS WalletPolling

CONSTANTS
    Wallets,     \* unique identifiers of the account's wallets
    Home         \* the wallet of launchService.getWalletInfo

ASSUME ManagerAssumption ==
    /\ Home \in Wallets
    /\ None \notin Wallets

VARIABLES
    activeWallet,  \* _activeWallet, a Wallet object
    wallets,       \* _wallets, the buffer: unique identifier -> Wallet object
    owner,         \* the unique identifier a Wallet object was made for
    pending,       \* objects whose initWallet promise _initWallet waits for
    shown,         \* the Wallet object the screen was made with
    selected,      \* wallets whose $timeout of setActiveWalletHandler is set
    reload,        \* $state.transitionTo(..., {reload: true}) is on its way
    mishaps        \* observer: "overlap" of two switches, "failure" of one

managerVars == <<activeWallet, wallets, owner, pending, shown, selected, reload, mishaps>>
vars == <<pollingVars, managerVars>>

ManagerTypeOK ==
    /\ activeWallet \in Instances \cup {None}
    /\ wallets \in [Wallets -> Instances \cup {None}]
    /\ owner \in [Instances -> Wallets \cup {None}]
    /\ pending \in SUBSET Instances
    /\ shown \in Instances \cup {None}
    /\ selected \in SUBSET Wallets
    /\ reload \in BOOLEAN
    /\ mishaps \subseteq {"overlap", "failure"}

\* Types, with those of the wallets.
TypeOK == PollingTypeOK /\ ManagerTypeOK

Init ==
    /\ PollingInit
    /\ activeWallet = None
    /\ wallets = [w \in Wallets |-> None]
    /\ owner = [i \in Instances |-> None]
    /\ pending = {}
    /\ shown = None
    /\ selected = {}
    /\ reload = FALSE
    /\ mishaps = {}

-----------------------------------------------------------------------------
\* _initWallet: walletService.initWallet makes object i for wallet w.
StartInit(w, i) ==
    /\ stage[i] = "absent"
    /\ stage' = [stage EXCEPT ![i] = "sdk"]
    /\ owner' = [owner EXCEPT ![i] = w]
    /\ pending' = pending \cup {i}

\* _setActiveWallet(Home) without an active wallet: the route's first load.
Load ==
    /\ pending = {}
    /\ activeWallet = None
    /\ \E i \in Instances : StartInit(Home, i)
    /\ UNCHANGED <<noPolling, pollPromise, settling, pollTimeout, armed>>
    /\ UNCHANGED <<activeWallet, wallets, shown, selected, reload, mishaps>>

\* setActiveWalletHandler: the user may choose any wallet but the one on the
\* screen, and nothing keeps the user from choosing while a switch is under way.
\* The manager is asked in a $timeout.
Select(w) ==
    /\ shown # None /\ w # owner[shown]
    /\ selected' = selected \cup {w}
    /\ UNCHANGED <<pollingVars, activeWallet, wallets, owner, pending, shown, reload, mishaps>>

\* The $timeout fires; whatever the screen shows by now.
Selected(w) ==
    /\ w \in selected
    /\ selected' = selected \ {w}
    /\ mishaps' = mishaps \cup (IF pending = {} /\ ~reload THEN {} ELSE {"overlap"})

\* _setActiveWallet(w) when w is active already: the promise resolves.
SwitchToActive(w) ==
    /\ Selected(w)
    /\ owner[activeWallet] = w
    /\ reload' = TRUE
    /\ UNCHANGED <<pollingVars, activeWallet, wallets, owner, pending, shown>>

\* Mutated form: the wallet that is left goes on polling.
SwitchToBufferedLeavesOn(w) ==
    /\ Selected(w)
    /\ owner[activeWallet] # w
    /\ wallets[w] # None
    /\ noPolling' = [noPolling EXCEPT ![wallets[w]] = FALSE]
    /\ pollPromise' = [pollPromise EXCEPT ![wallets[w]] = Polled(@)]
    /\ activeWallet' = wallets[w]
    /\ reload' = TRUE
    /\ UNCHANGED <<stage, settling, pollTimeout, armed, wallets, owner, pending, shown>>
\* _setActiveWallet(w) when w is in the buffer: disablePolling on the old,
\* enablePolling on the new active wallet.
SwitchToBuffered(w) ==
    /\ Selected(w)
    /\ owner[activeWallet] # w
    /\ wallets[w] # None
    /\ noPolling' = [noPolling EXCEPT ![activeWallet] = TRUE, ![wallets[w]] = FALSE]
    /\ armed' = [armed EXCEPT ![activeWallet] = Cancelled(activeWallet)]
    /\ pollPromise' = [pollPromise EXCEPT ![wallets[w]] = Polled(@)]
    /\ activeWallet' = wallets[w]
    /\ reload' = TRUE
    /\ UNCHANGED <<stage, settling, pollTimeout, wallets, owner, pending, shown>>

\* _setActiveWallet(w) when w has to be initialised: disablePolling now, the
\* new wallet becomes active when it is ready.
SwitchToNew(w) ==
    /\ Selected(w)
    /\ owner[activeWallet] # w
    /\ wallets[w] = None
    /\ noPolling' = [noPolling EXCEPT ![activeWallet] = TRUE]
    /\ armed' = [armed EXCEPT ![activeWallet] = Cancelled(activeWallet)]
    /\ \E i \in Instances : StartInit(w, i)
    /\ UNCHANGED <<pollPromise, settling, pollTimeout, activeWallet, wallets, shown, reload>>

\* Mutated form: the object becomes active but the buffer keeps the one it had.
ActivateUnbuffered(i) ==
    /\ i \in pending /\ stage[i] = "ready"
    /\ wallets' = [wallets EXCEPT ![owner[i]] = IF @ = None THEN i ELSE @]
    /\ activeWallet' = i
    /\ pending' = pending \ {i}
    /\ reload' = TRUE
    /\ UNCHANGED <<pollingVars, owner, shown, selected, mishaps>>
\* The callback of _initWallet.
Activate(i) ==
    /\ i \in pending /\ stage[i] = "ready"
    /\ wallets' = [wallets EXCEPT ![owner[i]] = i]
    /\ activeWallet' = i
    /\ pending' = pending \ {i}
    /\ reload' = TRUE
    /\ UNCHANGED <<pollingVars, owner, shown, selected, mishaps>>

\* The promise of _initWallet rejects; nobody handles it.
InitRejected(i) ==
    /\ i \in pending /\ stage[i] = "failed"
    /\ pending' = pending \ {i}
    /\ mishaps' = mishaps \cup {"failure"}
    /\ UNCHANGED <<pollingVars, activeWallet, wallets, owner, shown, selected, reload>>

\* The route's getActiveWallet shows the wallet that is active.
Reload ==
    /\ reload
    /\ reload' = FALSE
    /\ shown' = activeWallet
    /\ UNCHANGED <<pollingVars, activeWallet, wallets, owner, pending, selected, mishaps>>

\* onRefreshTransactions polls the wallet the screen was made with, which may be
\* left already; send.ctrl.js polls the manager's active one after a payment.
Refresh ==
    /\ shown # None
    /\ \E i \in {shown, activeWallet} : ForcePolling(i)
    /\ UNCHANGED managerVars

Next ==
    \/ Load
    \/ \E w \in Wallets : Select(w)
    \/ \E w \in Wallets : SwitchToActive(w) \/ SwitchToBuffered(w) \/ SwitchToNew(w)
    \/ \E i \in Instances : Activate(i) \/ InitRejected(i)
    \/ \E i \in Instances : PollingStep(i) /\ UNCHANGED managerVars
    \/ Reload
    \/ Refresh

Spec == Init /\ [][Next]_vars

\* Requests are answered, timers fire and promise callbacks run.  The user is
\* under no obligation.
Fairness ==
    \A i \in Instances :
      /\ WF_vars(InitStep(i) /\ UNCHANGED managerVars)
      /\ WF_vars(PollStep(i) /\ UNCHANGED managerVars)
      /\ WF_vars(Activate(i) \/ InitRejected(i))
FairSpec == Spec /\ Fairness

-----------------------------------------------------------------------------
(***************************************************************************)
(* Properties                                                              *)
(***************************************************************************)
\* With no switch under way, of all the wallets that became ready exactly the
\* active one polls, as long as the user waits for each switch and none fails.
OnlyActivePolls ==
    pending = {} /\ mishaps = {} =>
      \A i \in Instances : stage[i] = "ready" => (noPolling[i] <=> i # activeWallet)

\* A buffered wallet the user has left does not poll, even when the switch to
\* the next one failed or its polls fail: overlapping switches excepted.
BufferedQuiet ==
    "overlap" \notin mishaps =>
      \A w \in Wallets : wallets[w] \notin {None, activeWallet} => noPolling[wallets[w]]

\* The active wallet is the object the buffer holds for its identifier: a later
\* switch to the same wallet cannot produce another one.  This holds although
\* initialisations may overlap and end in any order.
ActiveIsBuffered ==
    activeWallet # None => wallets[owner[activeWallet]] = activeWallet

\* The types, and the buffer is sound: the active wallet is in it, and those the
\* user has left do not poll.
BufferSound == TypeOK /\ ActiveIsBuffered /\ BufferedQuiet

\* Every switch ends: the object becomes active or its promise is rejected.
SwitchEnds == \A i \in Instances : i \in pending ~> i \notin pending
=============================================================================
