---------------------------- MODULE WalletPolling ----------------------------
(***************************************************************************)
(* The life of the Wallet objects of                                       *)
(* blocktrail-wallet/src/js/modules/core/services/wallet/wallet.service.js *)
(* initialisation (WalletService.initWallet, Wallet._initData) and the     *)
(* polling cycle around _pollPromise, _pollTimeout and _noPolling.         *)
(*                                                                         *)
(* A poll is one step that ends well or fails; WalletSync opens it up.     *)
(* The callbacks of one poll, _resetPollPromise and then _setupTimeout,    *)
(* run in one digest: other callbacks may come between them (settling),    *)
(* answers of the network and timers may not.                              *)
(***************************************************************************)
EXTENDS FiniteSets

CONSTANTS
    Instances,     \* Wallet objects that may be created
    Timers,        \* handles of $timeout; one that is no longer armed may return
    None,          \* null
    RequestsFail   \* may a request to the API or to PouchDB fail?

ASSUME PollingAssumption ==
    /\ None \notin Instances \cup Timers
    /\ RequestsFail \in BOOLEAN

VARIABLES
    stage,        \* how far the initialisation of the object is
    noPolling,    \* _noPolling
    pollPromise,  \* _pollPromise: null, pending, or left behind rejected
    settling,     \* _pollPromise is reset, _setupTimeout is still to run
    pollTimeout,  \* _pollTimeout: the last handle, which is never cleared
    armed         \* the $timeouts of the object that have not fired

pollingVars == <<stage, noPolling, pollPromise, settling, pollTimeout, armed>>

Stages == {"absent", "sdk", "balance", "polling", "transactions", "ready", "failed"}
InitStages == {"sdk", "balance", "polling", "transactions"}

\* Types; and an object under construction has not begun to poll.
PollingTypeOK ==
    /\ stage \in [Instances -> Stages]
    /\ noPolling \in [Instances -> BOOLEAN]
    /\ pollPromise \in [Instances -> {"null", "pending", "rejected"}]
    /\ settling \in [Instances -> BOOLEAN]
    /\ pollTimeout \in [Instances -> Timers \cup {None}]
    /\ armed \in [Instances -> SUBSET Timers]
    /\ \A i \in Instances :
         stage[i] \in {"absent", "sdk", "balance"} =>
           /\ pollPromise[i] = "null" /\ ~settling[i]
           /\ armed[i] = {} /\ ~noPolling[i]

PollingInit ==
    /\ stage = [i \in Instances |-> "absent"]
    /\ noPolling = [i \in Instances |-> FALSE]
    /\ pollPromise = [i \in Instances |-> "null"]
    /\ settling = [i \in Instances |-> FALSE]
    /\ pollTimeout = [i \in Instances |-> None]
    /\ armed = [i \in Instances |-> {}]

-----------------------------------------------------------------------------
\* _pollTransactionsAndGetBlockHeight: a promise that is set is returned as it is.
Polled(promise) == IF promise = "null" THEN "pending" ELSE promise

\* Mutated form: no timer is cancelled.
NothingCancelled(i) == armed[i]
\* $timeout.cancel(_pollTimeout)
Cancelled(i) == armed[i] \ {pollTimeout[i]}

-----------------------------------------------------------------------------
(***************************************************************************)
(* WalletService.initWallet, new Wallet(), _initData                       *)
(***************************************************************************)
InitWallet(i) ==
    /\ stage[i] = "absent"
    /\ stage' = [stage EXCEPT ![i] = "sdk"]
    /\ UNCHANGED <<noPolling, pollPromise, settling, pollTimeout, armed>>

\* sdk.initWallet answers: the object exists and _getBalance is under way.
SdkInitWallet(i) ==
    /\ stage[i] = "sdk"
    /\ stage' = [stage EXCEPT ![i] = "balance"]
    /\ UNCHANGED <<noPolling, pollPromise, settling, pollTimeout, armed>>

\* _getBalance is stored, the first poll starts.
InitPoll(i) ==
    /\ stage[i] = "balance"
    /\ stage' = [stage EXCEPT ![i] = "polling"]
    /\ pollPromise' = [pollPromise EXCEPT ![i] = Polled(@)]
    /\ UNCHANGED <<noPolling, settling, pollTimeout, armed>>

\* _getTransactions has filled the list: isReady resolves.
InitReady(i) ==
    /\ stage[i] = "transactions"
    /\ stage' = [stage EXCEPT ![i] = "ready"]
    /\ UNCHANGED <<noPolling, pollPromise, settling, pollTimeout, armed>>

\* sdk.initWallet, the put of the balance or _getTransactions rejects.
InitFails(i) ==
    /\ RequestsFail
    /\ stage[i] \in {"sdk", "balance", "transactions"}
    /\ stage' = [stage EXCEPT ![i] = "failed"]
    /\ UNCHANGED <<noPolling, pollPromise, settling, pollTimeout, armed>>

-----------------------------------------------------------------------------
(***************************************************************************)
(* The polling cycle                                                       *)
(***************************************************************************)
\* $q.all resolves: _resetPollPromise.
PollDone(i) ==
    /\ pollPromise[i] = "pending" /\ ~settling[i]
    /\ pollPromise' = [pollPromise EXCEPT ![i] = "null"]
    /\ settling' = [settling EXCEPT ![i] = TRUE]
    /\ UNCHANGED <<stage, noPolling, pollTimeout, armed>>

\* $q.all rejects: neither callback runs, and _pollPromise keeps the promise.
PollFails(i) ==
    /\ RequestsFail
    /\ pollPromise[i] = "pending" /\ ~settling[i]
    /\ pollPromise' = [pollPromise EXCEPT ![i] = "rejected"]
    /\ stage' = [stage EXCEPT ![i] = IF @ = "polling" THEN "failed" ELSE @]
    /\ UNCHANGED <<noPolling, settling, pollTimeout, armed>>

\* Mutated form: no timer is set although polling is on.
SetupTimeoutForgets(i) ==
    /\ settling[i]
    /\ settling' = [settling EXCEPT ![i] = FALSE]
    /\ stage' = [stage EXCEPT ![i] = IF @ = "polling" THEN "transactions" ELSE @]
    /\ UNCHANGED <<armed, pollTimeout, noPolling, pollPromise>>
\* Mutated form: whoever waits for the poll is not told of its end.
SetupTimeoutUnreturned(i) ==
    /\ settling[i]
    /\ settling' = [settling EXCEPT ![i] = FALSE]
    /\ ~noPolling[i]
    /\ \E t \in Timers \ Cancelled(i) :
         /\ armed' = [armed EXCEPT ![i] = Cancelled(i) \cup {t}]
         /\ pollTimeout' = [pollTimeout EXCEPT ![i] = t]
    /\ UNCHANGED <<stage, noPolling, pollPromise>>
\* Mutated form: _setupTimeout does not look at _noPolling.
SetupTimeoutUnguarded(i) ==
    /\ settling[i]
    /\ settling' = [settling EXCEPT ![i] = FALSE]
    /\ stage' = [stage EXCEPT ![i] = IF @ = "polling" THEN "transactions" ELSE @]
    /\ \E t \in Timers \ Cancelled(i) :
         /\ armed' = [armed EXCEPT ![i] = Cancelled(i) \cup {t}]
         /\ pollTimeout' = [pollTimeout EXCEPT ![i] = t]
    /\ UNCHANGED <<noPolling, pollPromise>>
\* _setupTimeout, and whoever waits for the poll goes on.
SetupTimeout(i) ==
    /\ settling[i]
    /\ settling' = [settling EXCEPT ![i] = FALSE]
    /\ stage' = [stage EXCEPT ![i] = IF @ = "polling" THEN "transactions" ELSE @]
    /\ \/ /\ noPolling[i]
          /\ UNCHANGED <<armed, pollTimeout>>
       \/ /\ ~noPolling[i]
          /\ \E t \in Timers \ Cancelled(i) :
               /\ armed' = [armed EXCEPT ![i] = Cancelled(i) \cup {t}]
               /\ pollTimeout' = [pollTimeout EXCEPT ![i] = t]
    /\ UNCHANGED <<noPolling, pollPromise>>

TimeoutFires(i) ==
    /\ ~settling[i]
    /\ \E t \in armed[i] : armed' = [armed EXCEPT ![i] = @ \ {t}]
    /\ pollPromise' = [pollPromise EXCEPT ![i] = Polled(@)]
    /\ UNCHANGED <<stage, noPolling, settling, pollTimeout>>

-----------------------------------------------------------------------------
(***************************************************************************)
(* The methods others call on a wallet that is ready                       *)
(***************************************************************************)
DisablePolling(i) ==
    /\ stage[i] = "ready"
    /\ armed' = [armed EXCEPT ![i] = Cancelled(i)]
    /\ noPolling' = [noPolling EXCEPT ![i] = TRUE]
    /\ UNCHANGED <<stage, pollPromise, settling, pollTimeout>>

EnablePolling(i) ==
    /\ stage[i] = "ready"
    /\ noPolling' = [noPolling EXCEPT ![i] = FALSE]
    /\ pollPromise' = [pollPromise EXCEPT ![i] = Polled(@)]
    /\ UNCHANGED <<stage, settling, pollTimeout, armed>>

ForcePolling(i) ==
    /\ stage[i] = "ready"
    /\ armed' = [armed EXCEPT ![i] = Cancelled(i)]
    /\ pollPromise' = [pollPromise EXCEPT ![i] = Polled(@)]
    /\ UNCHANGED <<stage, noPolling, settling, pollTimeout>>

-----------------------------------------------------------------------------
\* What happens by itself: answers, callbacks and timers.
InitStep(i) == SdkInitWallet(i) \/ InitPoll(i) \/ InitReady(i) \/ InitFails(i)
PollStep(i) == PollDone(i) \/ PollFails(i) \/ SetupTimeout(i) \/ TimeoutFires(i)
PollingStep(i) == InitStep(i) \/ PollStep(i)

\* What others ask of the wallet.
PollingCall(i) ==
    InitWallet(i) \/ DisablePolling(i) \/ EnablePolling(i) \/ ForcePolling(i)

PollingNext == \E i \in Instances : PollingStep(i) \/ PollingCall(i)

PollingSpec == PollingInit /\ [][PollingNext]_pollingVars

\* Every request is answered (or fails), callbacks run and timers fire.
PollingFairness ==
    \A i \in Instances : WF_pollingVars(InitStep(i)) /\ WF_pollingVars(PollStep(i))
PollingFairSpec == PollingSpec /\ PollingFairness

-----------------------------------------------------------------------------
(***************************************************************************)
(* Properties                                                              *)
(***************************************************************************)
\* A wallet has at most one $timeout under way, the one _pollTimeout names,
\* so that disablePolling and forcePolling can always cancel it.
OneTimer == \A i \in Instances : armed[i] \subseteq {pollTimeout[i]}

\* After disablePolling no timer is left that would poll again, also when a
\* poll was under way at the time of the call.
DisabledIsQuiet == \A i \in Instances : noPolling[i] => armed[i] = {}

\* A wallet with polling on is never forgotten, in whatever order polls end
\* and the methods are called: it polls, is about to set its timer, or has
\* one.  The exception is a wallet whose last poll failed.
NeverForgotten ==
    \A i \in Instances :
      stage[i] = "ready" /\ ~noPolling[i] /\ pollPromise[i] # "rejected" =>
        pollPromise[i] = "pending" \/ settling[i] \/ armed[i] # {}

\* A wallet whose polling stays on, and whose polls do not fail, polls again and
\* again: no order of calls, answers and timers breaks the chain of polls.
KeepsPolling ==
    \A i \in Instances :
      <>[](stage[i] = "ready" /\ ~noPolling[i] /\ pollPromise[i] # "rejected") =>
        []<>(pollPromise[i] = "pending")
=============================================================================
