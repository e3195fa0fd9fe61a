------------------------ MODULE WalletsManagerProofs ------------------------
(***************************************************************************)
(* Proofs about WalletPolling and the WalletsManager that switches such    *)
(* wallets, for any number of wallets, of Wallet objects and of timers: a  *)
(* wallet has one timer at most, a disabled one has none, and one with its *)
(* polling on is never forgotten; the buffer of wallets is sound, and of   *)
(* the wallets that became ready only the active one polls.                *)
(***************************************************************************)
EXTENDS WalletsManager, TLAPS

(***************************************************************************)
(* The life of one wallet: WalletPolling by itself.                        *)
(***************************************************************************)
\* Polling is switched off on wallets that are ready, and those stay ready.
OnUntilReady == \A i \in Instances : stage[i] # "ready" => ~noPolling[i]

\* NeverForgotten, from the end of the first poll on: a wallet that is not ready
\* yet has its timer set by then.
PolledOrTimed ==
    \A i \in Instances :
      stage[i] \in {"transactions", "ready"} /\ ~noPolling[i] /\ pollPromise[i] # "rejected" =>
        pollPromise[i] = "pending" \/ settling[i] \/ armed[i] # {}

IndInv ==
    /\ PollingTypeOK
    /\ OneTimer
    /\ DisabledIsQuiet
    /\ OnUntilReady
    /\ PolledOrTimed

-----------------------------------------------------------------------------
\* The inductive invariant holds when no wallet has been made.
LEMMA InitInv == PollingInit => IndInv
BY DEF PollingInit, IndInv, PollingTypeOK, OneTimer, DisabledIsQuiet, OnUntilReady,
   PolledOrTimed, Stages

\* Types are preserved, and a wallet under construction does not poll.
LEMMA NextType == IndInv /\ [PollingNext]_pollingVars => (PollingTypeOK)'
<1> SUFFICES ASSUME IndInv, [PollingNext]_pollingVars PROVE (PollingTypeOK)'
  OBVIOUS
<1> USE PollingAssumption DEF IndInv, PollingTypeOK, OneTimer, Stages, Polled, Cancelled
<1>1. ASSUME NEW i \in Instances, InitWallet(i) PROVE (PollingTypeOK)'
  BY <1>1 DEF InitWallet
<1>2. ASSUME NEW i \in Instances, SdkInitWallet(i) PROVE (PollingTypeOK)'
  BY <1>2 DEF SdkInitWallet
<1>3. ASSUME NEW i \in Instances, InitPoll(i) PROVE (PollingTypeOK)'
  BY <1>3 DEF InitPoll
<1>4. ASSUME NEW i \in Instances, InitReady(i) PROVE (PollingTypeOK)'
  BY <1>4 DEF InitReady
<1>5. ASSUME NEW i \in Instances, InitFails(i) PROVE (PollingTypeOK)'
  BY <1>5 DEF InitFails
<1>6. ASSUME NEW i \in Instances, PollDone(i) PROVE (PollingTypeOK)'
  BY <1>6 DEF PollDone
<1>7. ASSUME NEW i \in Instances, PollFails(i) PROVE (PollingTypeOK)'
  BY <1>7 DEF PollFails
<1>8. ASSUME NEW i \in Instances, SetupTimeout(i) PROVE (PollingTypeOK)'
  BY <1>8 DEF SetupTimeout
<1>9. ASSUME NEW i \in Instances, TimeoutFires(i) PROVE (PollingTypeOK)'
  BY <1>9 DEF TimeoutFires
<1>10. ASSUME NEW i \in Instances, DisablePolling(i) PROVE (PollingTypeOK)'
  BY <1>10 DEF DisablePolling
<1>11. ASSUME NEW i \in Instances, EnablePolling(i) PROVE (PollingTypeOK)'
  BY <1>11 DEF EnablePolling
<1>12. ASSUME NEW i \in Instances, ForcePolling(i) PROVE (PollingTypeOK)'
  BY <1>12 DEF ForcePolling
<1>13. CASE UNCHANGED pollingVars
  BY <1>13 DEF pollingVars
<1> QED
  BY <1>1, <1>2, <1>3, <1>4, <1>5, <1>6, <1>7, <1>8, <1>9, <1>10, <1>11, <1>12, <1>13
  DEF PollingNext, PollingStep, InitStep, PollStep, PollingCall

\* The one timer of a wallet is the one disablePolling cancels.
LEMMA NextTimers == IndInv /\ [PollingNext]_pollingVars => (OneTimer /\ DisabledIsQuiet)'
<1> SUFFICES ASSUME IndInv, [PollingNext]_pollingVars PROVE (OneTimer /\ DisabledIsQuiet)'
  OBVIOUS
<1> USE PollingAssumption DEF IndInv, PollingTypeOK, OneTimer, DisabledIsQuiet, Cancelled
<1>1. ASSUME NEW i \in Instances, InitWallet(i) PROVE (OneTimer /\ DisabledIsQuiet)'
  BY <1>1 DEF InitWallet
<1>2. ASSUME NEW i \in Instances, SdkInitWallet(i) PROVE (OneTimer /\ DisabledIsQuiet)'
  BY <1>2 DEF SdkInitWallet
<1>3. ASSUME NEW i \in Instances, InitPoll(i) PROVE (OneTimer /\ DisabledIsQuiet)'
  BY <1>3 DEF InitPoll
<1>4. ASSUME NEW i \in Instances, InitReady(i) PROVE (OneTimer /\ DisabledIsQuiet)'
  BY <1>4 DEF InitReady
<1>5. ASSUME NEW i \in Instances, InitFails(i) PROVE (OneTimer /\ DisabledIsQuiet)'
  BY <1>5 DEF InitFails
<1>6. ASSUME NEW i \in Instances, PollDone(i) PROVE (OneTimer /\ DisabledIsQuiet)'
  BY <1>6 DEF PollDone
<1>7. ASSUME NEW i \in Instances, PollFails(i) PROVE (OneTimer /\ DisabledIsQuiet)'
  BY <1>7 DEF PollFails
<1>8. ASSUME NEW i \in Instances, SetupTimeout(i) PROVE (OneTimer /\ DisabledIsQuiet)'
  BY <1>8 DEF SetupTimeout
<1>9. ASSUME NEW i \in Instances, TimeoutFires(i) PROVE (OneTimer /\ DisabledIsQuiet)'
  BY <1>9 DEF TimeoutFires
<1>10. ASSUME NEW i \in Instances, DisablePolling(i) PROVE (OneTimer /\ DisabledIsQuiet)'
  BY <1>10 DEF DisablePolling
<1>11. ASSUME NEW i \in Instances, EnablePolling(i) PROVE (OneTimer /\ DisabledIsQuiet)'
  BY <1>11 DEF EnablePolling
<1>12. ASSUME NEW i \in Instances, ForcePolling(i) PROVE (OneTimer /\ DisabledIsQuiet)'
  BY <1>12 DEF ForcePolling
<1>13. CASE UNCHANGED pollingVars
  BY <1>13 DEF pollingVars
<1> QED
  BY <1>1, <1>2, <1>3, <1>4, <1>5, <1>6, <1>7, <1>8, <1>9, <1>10, <1>11, <1>12, <1>13
  DEF PollingNext, PollingStep, InitStep, PollStep, PollingCall

\* Polling is switched off on ready wallets only.
LEMMA NextOn == IndInv /\ [PollingNext]_pollingVars => (OnUntilReady)'
<1> SUFFICES ASSUME IndInv, [PollingNext]_pollingVars PROVE (OnUntilReady)'
  OBVIOUS
<1> USE PollingAssumption DEF IndInv, PollingTypeOK, OnUntilReady
<1>1. ASSUME NEW i \in Instances, InitWallet(i) PROVE (OnUntilReady)'
  BY <1>1 DEF InitWallet
<1>2. ASSUME NEW i \in Instances, SdkInitWallet(i) PROVE (OnUntilReady)'
  BY <1>2 DEF SdkInitWallet
<1>3. ASSUME NEW i \in Instances, InitPoll(i) PROVE (OnUntilReady)'
  BY <1>3 DEF InitPoll
<1>4. ASSUME NEW i \in Instances, InitReady(i) PROVE (OnUntilReady)'
  BY <1>4 DEF InitReady
<1>5. ASSUME NEW i \in Instances, InitFails(i) PROVE (OnUntilReady)'
  BY <1>5 DEF InitFails
<1>6. ASSUME NEW i \in Instances, PollDone(i) PROVE (OnUntilReady)'
  BY <1>6 DEF PollDone
<1>7. ASSUME NEW i \in Instances, PollFails(i) PROVE (OnUntilReady)'
  BY <1>7 DEF PollFails
<1>8. ASSUME NEW i \in Instances, SetupTimeout(i) PROVE (OnUntilReady)'
  BY <1>8 DEF SetupTimeout
<1>9. ASSUME NEW i \in Instances, TimeoutFires(i) PROVE (OnUntilReady)'
  BY <1>9 DEF TimeoutFires
<1>10. ASSUME NEW i \in Instances, DisablePolling(i) PROVE (OnUntilReady)'
  BY <1>10 DEF DisablePolling
<1>11. ASSUME NEW i \in Instances, EnablePolling(i) PROVE (OnUntilReady)'
  BY <1>11 DEF EnablePolling
<1>12. ASSUME NEW i \in Instances, ForcePolling(i) PROVE (OnUntilReady)'
  BY <1>12 DEF ForcePolling
<1>13. CASE UNCHANGED pollingVars
  BY <1>13 DEF pollingVars
<1> QED
  BY <1>1, <1>2, <1>3, <1>4, <1>5, <1>6, <1>7, <1>8, <1>9, <1>10, <1>11, <1>12, <1>13
  DEF PollingNext, PollingStep, InitStep, PollStep, PollingCall

\* No step leaves a wallet without a poll and without a timer.
LEMMA NextPolled == IndInv /\ [PollingNext]_pollingVars => (PolledOrTimed)'
<1> SUFFICES ASSUME IndInv, [PollingNext]_pollingVars PROVE (PolledOrTimed)'
  OBVIOUS
<1> USE PollingAssumption DEF IndInv, PollingTypeOK, OnUntilReady, PolledOrTimed, Polled,
        Cancelled
<1>1. ASSUME NEW i \in Instances, InitWallet(i) PROVE (PolledOrTimed)'
  BY <1>1 DEF InitWallet
<1>2. ASSUME NEW i \in Instances, SdkInitWallet(i) PROVE (PolledOrTimed)'
  BY <1>2 DEF SdkInitWallet
<1>3. ASSUME NEW i \in Instances, InitPoll(i) PROVE (PolledOrTimed)'
  BY <1>3 DEF InitPoll
<1>4. ASSUME NEW i \in Instances, InitReady(i) PROVE (PolledOrTimed)'
  BY <1>4 DEF InitReady
<1>5. ASSUME NEW i \in Instances, InitFails(i) PROVE (PolledOrTimed)'
  BY <1>5 DEF InitFails
<1>6. ASSUME NEW i \in Instances, PollDone(i) PROVE (PolledOrTimed)'
  BY <1>6 DEF PollDone
<1>7. ASSUME NEW i \in Instances, PollFails(i) PROVE (PolledOrTimed)'
  BY <1>7 DEF PollFails
<1>8. ASSUME NEW i \in Instances, SetupTimeout(i) PROVE (PolledOrTimed)'
  BY <1>8 DEF SetupTimeout
<1>9. ASSUME NEW i \in Instances, TimeoutFires(i) PROVE (PolledOrTimed)'
  BY <1>9 DEF TimeoutFires
<1>10. ASSUME NEW i \in Instances, DisablePolling(i) PROVE (PolledOrTimed)'
  BY <1>10 DEF DisablePolling
<1>11. ASSUME NEW i \in Instances, EnablePolling(i) PROVE (PolledOrTimed)'
  BY <1>11 DEF EnablePolling
<1>12. ASSUME NEW i \in Instances, ForcePolling(i) PROVE (PolledOrTimed)'
  BY <1>12 DEF ForcePolling
<1>13. CASE UNCHANGED pollingVars
  BY <1>13 DEF pollingVars
<1> QED
  BY <1>1, <1>2, <1>3, <1>4, <1>5, <1>6, <1>7, <1>8, <1>9, <1>10, <1>11, <1>12, <1>13
  DEF PollingNext, PollingStep, InitStep, PollStep, PollingCall

\* The inductive invariant holds in every reachable state.
LEMMA Invariance == PollingSpec => []IndInv
<1>1. IndInv /\ [PollingNext]_pollingVars => IndInv'
  BY NextType, NextTimers, NextOn, NextPolled DEF IndInv
<1> QED
  BY <1>1, InitInv, PTL DEF PollingSpec

-----------------------------------------------------------------------------
\* Types; and _initData starts no poll and no timer before the balance is there.
THEOREM TypeCorrect == PollingSpec => []PollingTypeOK
<1>1. IndInv => PollingTypeOK
  BY DEF IndInv
<1> QED
  BY <1>1, Invariance, PTL

\* A Wallet object never has a $timeout that _pollTimeout does not name.
THEOREM TimerUnique == PollingSpec => []OneTimer
<1>1. IndInv => OneTimer
  BY DEF IndInv
<1> QED
  BY <1>1, Invariance, PTL

\* After disablePolling, and until enablePolling, no timer of the wallet is set.
THEOREM DisabledQuiet == PollingSpec => []DisabledIsQuiet
<1>1. IndInv => DisabledIsQuiet
  BY DEF IndInv
<1> QED
  BY <1>1, Invariance, PTL

\* Whatever the order of polls, timers, disablePolling, enablePolling and
\* forcePolling, a wallet with polling on whose poll did not fail polls or will.
THEOREM EnabledRemembered == PollingSpec => []NeverForgotten
<1>1. IndInv => NeverForgotten
  BY DEF IndInv, PolledOrTimed, NeverForgotten
<1> QED
  BY <1>1, Invariance, PTL

-----------------------------------------------------------------------------
(***************************************************************************)
(* The manager, whose steps keep what holds of every wallet it switches.   *)
(***************************************************************************)
\* An object has an owner from the moment it is asked for, and the manager waits
\* for it at least until its initialisation ends.
Owned ==
    \A i \in Instances :
      /\ owner[i] = None <=> stage[i] = "absent"
      /\ i \in pending => stage[i] # "absent"
      /\ stage[i] \in InitStages => i \in pending

\* What is in the buffer is ready, nobody waits for it any more, and it is
\* filed under the identifier it was made for.
Buffered ==
    \A w \in Wallets :
      wallets[w] # None =>
        /\ owner[wallets[w]] = w
        /\ stage[wallets[w]] = "ready"
        /\ wallets[w] \notin pending

\* The active wallet is in the buffer; and before one is active nothing is in the
\* buffer, on the screen or on its way to it, and nothing is selected.  What the
\* screen shows is ready.
ActiveOfBuffer ==
    /\ shown # None => owner[shown] # None /\ stage[shown] = "ready"
    /\ activeWallet # None =>
         /\ owner[activeWallet] # None
         /\ wallets[owner[activeWallet]] = activeWallet
    /\ activeWallet = None =>
         /\ \A w \in Wallets : wallets[w] = None
         /\ shown = None
         /\ selected = {}
         /\ ~reload

\* The polling of an object the manager waits for is never switched off.
PendingOn == \A i \in pending : ~noPolling[i]

\* Without overlapping switches the manager waits for one object, and the wallet
\* that is being left does not poll.
OneSwitch ==
    "overlap" \notin mishaps =>
      /\ \A i, j \in pending : i = j
      /\ pending # {} /\ activeWallet # None => noPolling[activeWallet]

\* OnlyActivePolls, also during a switch: then nobody polls.
PollingFollows ==
    mishaps = {} =>
      \A i \in Instances :
        stage[i] = "ready" /\ i \notin pending =>
          (noPolling[i] <=> i # activeWallet \/ pending # {})

ManagerInv ==
    /\ IndInv
    /\ ManagerTypeOK
    /\ Owned
    /\ Buffered
    /\ ActiveOfBuffer
    /\ PendingOn
    /\ OneSwitch
    /\ BufferedQuiet
    /\ PollingFollows

-----------------------------------------------------------------------------
\* The inductive invariant holds when the app starts.
LEMMA ManagerInit == Init => ManagerInv
<1> SUFFICES ASSUME Init PROVE ManagerInv
  OBVIOUS
<1>1. IndInv
  BY InitInv DEF Init
<1>2. ManagerTypeOK /\ Owned /\ Buffered /\ ActiveOfBuffer
  BY DEF Init, PollingInit, ManagerTypeOK, Owned, Buffered, ActiveOfBuffer, InitStages
<1>3. PendingOn /\ OneSwitch /\ BufferedQuiet /\ PollingFollows
  BY DEF Init, PollingInit, PendingOn, OneSwitch, BufferedQuiet, PollingFollows
<1> QED
  BY <1>1, <1>2, <1>3 DEF ManagerInv

\* What others can see of the steps an object takes by itself: its stage goes on,
\* to the end of its initialisation at most, and polling is not switched.
LEMMA OwnSteps ==
    ASSUME IndInv, NEW i \in Instances, PollingStep(i)
    PROVE  /\ UNCHANGED noPolling
           /\ stage' \in [Instances -> Stages]
           /\ \A j \in Instances \ {i} : stage'[j] = stage[j]
           /\ stage'[i] = "absent" <=> stage[i] = "absent"
           /\ stage[i] = "ready" => stage'[i] = "ready"
           /\ stage'[i] # stage[i] => stage[i] \in InitStages
<1> USE DEF IndInv, PollingTypeOK, Stages, InitStages
<1>1. CASE SdkInitWallet(i)
  BY <1>1 DEF SdkInitWallet
<1>2. CASE InitPoll(i)
  BY <1>2 DEF InitPoll
<1>3. CASE InitReady(i)
  BY <1>3 DEF InitReady
<1>4. CASE InitFails(i)
  BY <1>4 DEF InitFails
<1>5. CASE PollDone(i)
  BY <1>5 DEF PollDone
<1>6. CASE PollFails(i)
  BY <1>6 DEF PollFails
<1>7. CASE SetupTimeout(i)
  BY <1>7 DEF SetupTimeout
<1>8. CASE TimeoutFires(i)
  BY <1>8 DEF TimeoutFires
<1> QED
  BY <1>1, <1>2, <1>3, <1>4, <1>5, <1>6, <1>7, <1>8 DEF PollingStep, InitStep, PollStep

\* What holds of the single wallets holds of them under the manager: its calls
\* come in pairs, the old wallet is disabled with the new one enabled or made.
LEMMA PollingKept == ManagerInv /\ [Next]_vars => IndInv'
<1> SUFFICES ASSUME ManagerInv, [Next]_vars PROVE IndInv'
  OBVIOUS
<1>1. IndInv /\ [PollingNext]_pollingVars => IndInv'
  BY NextType, NextTimers, NextOn, NextPolled DEF IndInv
<1>2. CASE Load
  <2>1. PICK i \in Instances : InitWallet(i)
    BY <1>2 DEF Load, StartInit, InitWallet
  <2> QED
    BY <1>1, <2>1 DEF ManagerInv, PollingNext, PollingCall
<1>3. ASSUME NEW w \in Wallets, SwitchToActive(w) PROVE IndInv'
  BY <1>1, <1>3 DEF ManagerInv, SwitchToActive
<1>4. ASSUME NEW w \in Wallets, SwitchToBuffered(w) PROVE IndInv'
  <2>1. /\ activeWallet \in Instances /\ wallets[w] \in Instances
        /\ stage[activeWallet] = "ready" /\ stage[wallets[w]] = "ready"
        /\ activeWallet # wallets[w]
    BY <1>4 DEF ManagerInv, ManagerTypeOK, Buffered, ActiveOfBuffer, SwitchToBuffered, Selected
  <2> USE PollingAssumption DEF ManagerInv, IndInv, PollingTypeOK
  <2>2. (PollingTypeOK)'
    BY <1>4, <2>1 DEF SwitchToBuffered, Cancelled, Polled, Stages
  <2>3. (OneTimer /\ DisabledIsQuiet)'
    BY <1>4, <2>1 DEF SwitchToBuffered, Cancelled, Polled, OneTimer, DisabledIsQuiet
  <2>4. (OnUntilReady)'
    BY <1>4, <2>1 DEF SwitchToBuffered, OnUntilReady
  <2>5. (PolledOrTimed)'
    BY <1>4, <2>1 DEF SwitchToBuffered, Cancelled, Polled, PolledOrTimed
  <2> QED
    BY <2>2, <2>3, <2>4, <2>5
<1>5. ASSUME NEW w \in Wallets, SwitchToNew(w) PROVE IndInv'
  <2>1. activeWallet \in Instances /\ stage[activeWallet] = "ready"
    BY <1>5 DEF ManagerInv, ManagerTypeOK, Buffered, ActiveOfBuffer, SwitchToNew, Selected
  <2>2. PICK i \in Instances : stage[i] = "absent" /\ stage' = [stage EXCEPT ![i] = "sdk"]
    BY <1>5 DEF SwitchToNew, StartInit
  <2> USE PollingAssumption DEF ManagerInv, IndInv, PollingTypeOK
  <2>3. (PollingTypeOK)'
    BY <1>5, <2>1, <2>2 DEF SwitchToNew, Cancelled, Stages
  <2>4. (OneTimer /\ DisabledIsQuiet)'
    BY <1>5, <2>1 DEF SwitchToNew, Cancelled, OneTimer, DisabledIsQuiet
  <2>5. (OnUntilReady)'
    BY <1>5, <2>1, <2>2 DEF SwitchToNew, OnUntilReady
  <2>6. (PolledOrTimed)'
    BY <1>5, <2>1, <2>2 DEF SwitchToNew, Cancelled, PolledOrTimed
  <2> QED
    BY <2>3, <2>4, <2>5, <2>6
<1>6. ASSUME NEW i \in Instances, Activate(i) \/ InitRejected(i) PROVE IndInv'
  BY <1>1, <1>6 DEF ManagerInv, Activate, InitRejected
<1>7. ASSUME NEW i \in Instances, PollingStep(i) PROVE IndInv'
  BY <1>1, <1>7 DEF ManagerInv, PollingNext
<1>8. CASE Reload
  BY <1>1, <1>8 DEF ManagerInv, Reload
<1>9. CASE Refresh
  <2>1. activeWallet \in Instances /\ shown \in Instances
    BY <1>9 DEF ManagerInv, ManagerTypeOK, ActiveOfBuffer, Refresh
  <2>2. PICK i \in {shown, activeWallet} : ForcePolling(i)
    BY <1>9 DEF Refresh
  <2> QED
    BY <1>1, <2>1, <2>2 DEF ManagerInv, PollingNext, PollingCall
<1>10. CASE UNCHANGED vars
  BY <1>1, <1>10 DEF ManagerInv, vars
<1>11. ASSUME NEW w \in Wallets, Select(w) PROVE IndInv'
  BY <1>1, <1>11 DEF ManagerInv, Select
<1> QED
  BY <1>2, <1>3, <1>4, <1>5, <1>6, <1>7, <1>8, <1>9, <1>10, <1>11 DEF Next

\* The bookkeeping of the manager: types, owners and the buffer.  An object that
\* becomes active replaces an older one of the same wallet, in the buffer and,
\* if that one was active, as the active wallet.
LEMMA BookKept ==
    ManagerInv /\ [Next]_vars => (ManagerTypeOK /\ Owned /\ Buffered /\ ActiveOfBuffer)'
<1> DEFINE Books == ManagerTypeOK /\ Owned /\ Buffered /\ ActiveOfBuffer
<1> SUFFICES ASSUME ManagerInv, [Next]_vars PROVE Books'
  OBVIOUS
<1> USE PollingAssumption, ManagerAssumption
    DEF ManagerInv, ManagerTypeOK, Owned, Buffered, ActiveOfBuffer, InitStages
<1>0. stage \in [Instances -> Stages]
  BY DEF IndInv, PollingTypeOK
<1>1. CASE Load
  BY <1>0, <1>1 DEF Load, StartInit
<1>2. ASSUME NEW w \in Wallets, SwitchToActive(w) PROVE Books'
  BY <1>2 DEF SwitchToActive, Selected, pollingVars
<1>3. ASSUME NEW w \in Wallets, SwitchToBuffered(w) PROVE Books'
  BY <1>3 DEF SwitchToBuffered, Selected
<1>4. ASSUME NEW w \in Wallets, SwitchToNew(w) PROVE Books'
  <2>1. PICK i \in Instances : StartInit(w, i)
    BY <1>4 DEF SwitchToNew
  <2>2. activeWallet # None
    BY <1>4 DEF SwitchToNew, Selected
  <2> QED
    BY <1>0, <1>4, <2>1, <2>2 DEF SwitchToNew, StartInit, Selected
<1>5. ASSUME NEW i \in Instances, Activate(i) PROVE Books'
  <2>1. owner[i] \in Wallets
    BY <1>5 DEF Activate
  <2> QED
    BY <1>5, <2>1 DEF Activate, pollingVars
<1>6. ASSUME NEW i \in Instances, InitRejected(i) PROVE Books'
  BY <1>6 DEF InitRejected, pollingVars
<1>7. ASSUME NEW i \in Instances, PollingStep(i), UNCHANGED managerVars PROVE Books'
  BY <1>7, <1>0, OwnSteps DEF managerVars
<1>8. CASE Reload
  <2>1. owner[activeWallet] # None /\ stage[activeWallet] = "ready"
    BY <1>8 DEF Reload
  <2>2. UNCHANGED <<stage, owner, pending, wallets, activeWallet, selected, mishaps>>
    BY <1>8 DEF Reload, pollingVars
  <2>3. shown' = activeWallet /\ reload' = FALSE /\ activeWallet # None
    BY <1>8 DEF Reload
  <2>4. (ManagerTypeOK /\ Owned /\ Buffered)'
    BY <2>2, <2>3
  <2>5. (ActiveOfBuffer)'
    BY <2>1, <2>2, <2>3
  <2> QED
    BY <2>4, <2>5
<1>9. CASE Refresh
  BY <1>9 DEF Refresh, ForcePolling, managerVars
<1>10. CASE UNCHANGED vars
  BY <1>10 DEF vars, pollingVars, managerVars
<1>11. ASSUME NEW w \in Wallets, Select(w) PROVE Books'
  BY <1>11 DEF Select, pollingVars
<1> QED
  BY <1>1, <1>2, <1>3, <1>4, <1>5, <1>6, <1>7, <1>8, <1>9, <1>10, <1>11 DEF Next

\* Who polls: the object the manager waits for, if any, else the active wallet,
\* and never a wallet the user has left.
LEMMA PollersKept ==
    ManagerInv /\ [Next]_vars => (PendingOn /\ OneSwitch /\ BufferedQuiet /\ PollingFollows)'
<1> DEFINE Pollers == PendingOn /\ OneSwitch /\ BufferedQuiet /\ PollingFollows
<1> SUFFICES ASSUME ManagerInv, [Next]_vars PROVE Pollers'
  OBVIOUS
<1> USE PollingAssumption, ManagerAssumption
    DEF ManagerInv, ManagerTypeOK, Owned, Buffered, ActiveOfBuffer, InitStages,
        PendingOn, OneSwitch, BufferedQuiet, PollingFollows
<1>0. /\ stage \in [Instances -> Stages]
      /\ noPolling \in [Instances -> BOOLEAN]
      /\ \A i \in Instances : stage[i] # "ready" => ~noPolling[i]
  BY DEF IndInv, PollingTypeOK, OnUntilReady
<1>1. CASE Load
  BY <1>0, <1>1 DEF Load, StartInit
<1>2. ASSUME NEW w \in Wallets, SwitchToActive(w) PROVE Pollers'
  BY <1>0, <1>2 DEF SwitchToActive, Selected, pollingVars
<1>3. ASSUME NEW w \in Wallets, SwitchToBuffered(w) PROVE Pollers'
  BY <1>0, <1>3 DEF SwitchToBuffered, Selected
<1>4. ASSUME NEW w \in Wallets, SwitchToNew(w) PROVE Pollers'
  <2>1. PICK i \in Instances : StartInit(w, i)
    BY <1>4 DEF SwitchToNew
  <2>2. activeWallet # None
    BY <1>4 DEF SwitchToNew, Selected
  <2> QED
    BY <1>0, <1>4, <2>1, <2>2 DEF SwitchToNew, StartInit, Selected
<1>5. ASSUME NEW i \in Instances, Activate(i) PROVE Pollers'
  BY <1>0, <1>5 DEF Activate, pollingVars
<1>6. ASSUME NEW i \in Instances, InitRejected(i) PROVE Pollers'
  BY <1>0, <1>6 DEF InitRejected, pollingVars
<1>7. ASSUME NEW i \in Instances, PollingStep(i), UNCHANGED managerVars PROVE Pollers'
  BY <1>7, <1>0, OwnSteps DEF managerVars
<1>8. CASE Reload
  BY <1>0, <1>8 DEF Reload, pollingVars
<1>9. CASE Refresh
  BY <1>0, <1>9 DEF Refresh, ForcePolling, managerVars
<1>10. CASE UNCHANGED vars
  BY <1>10 DEF vars, pollingVars, managerVars
<1>11. ASSUME NEW w \in Wallets, Select(w) PROVE Pollers'
  BY <1>0, <1>11 DEF Select, pollingVars
<1> QED
  BY <1>1, <1>2, <1>3, <1>4, <1>5, <1>6, <1>7, <1>8, <1>9, <1>10, <1>11 DEF Next

\* The inductive invariant holds in every reachable state.
LEMMA ManagerInvariance == Spec => []ManagerInv
<1>1. ManagerInv /\ [Next]_vars => ManagerInv'
  BY PollingKept, BookKept, PollersKept DEF ManagerInv
<1> QED
  BY <1>1, ManagerInit, PTL DEF Spec

-----------------------------------------------------------------------------
\* However initialisations overlap and whatever order they end in, the active
\* wallet is the one of the buffer; and unless the user does not wait for a
\* switch, no wallet of the buffer polls but the active one.
THEOREM BufferIsSound == Spec => []BufferSound
<1>1. ManagerInv => BufferSound
  BY DEF ManagerInv, IndInv, BufferSound, TypeOK, ActiveIsBuffered, ActiveOfBuffer
<1> QED
  BY <1>1, ManagerInvariance, PTL

\* Between switches the active wallet polls and no other one does.
THEOREM ActivePolls == Spec => []OnlyActivePolls
<1>1. ManagerInv => OnlyActivePolls
  BY DEF ManagerInv, PollingFollows, OnlyActivePolls
<1> QED
  BY <1>1, ManagerInvariance, PTL

\* The manager's use of the wallets keeps what WalletPolling promises of each:
\* one timer, none while disabled, and no wallet that polls forgotten.
THEOREM ManagedWalletsPoll == Spec => [](OneTimer /\ DisabledIsQuiet /\ NeverForgotten)
<1>1. ManagerInv => OneTimer /\ DisabledIsQuiet /\ NeverForgotten
  BY DEF ManagerInv, IndInv, PolledOrTimed, NeverForgotten
<1> QED
  BY <1>1, ManagerInvariance, PTL
=============================================================================
