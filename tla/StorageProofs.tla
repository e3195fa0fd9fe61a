--------------------------- MODULE StorageProofs ----------------------------
(***************************************************************************)
(* Proofs about the two components that keep a document in PouchDB, read   *)
(* it and put it back under its revision while other callers do the same.  *)
(*                                                                         *)
(* OfflineAddresses, for any number of callers and any pool size: the type *)
(* invariant, the bound of the pool, that only a refill can make an        *)
(* address be handed out twice, that no address is lost, and that only a   *)
(* spoiled put can leave the flag of a refill set.                         *)
(*                                                                         *)
(* LocalStorage, for any calls, fields and data: it implements             *)
(* UpdateRegister.                                                         *)
(***************************************************************************)
EXTENDS OfflineAddresses, LocalStorage, FiniteSetTheorems, WellFoundedInduction, TLAPS

(***************************************************************************)
(* The pool of offline addresses.                                          *)
(***************************************************************************)
\* A refill is only in flight under its flag, so there is at most one.
RefillFlag == refill.pc # "idle" => isRefilling

\* While the sdk calls are out the pool only shrinks, so it stays within the
\* list the refill started from, and that list has room for the missing ones.
RefillRoom ==
    /\ IsFiniteSet(refill.available)
    /\ refill.pc = "fetching" => refill.missing > 0
    /\ ~misread =>
         /\ refill.pc = "fetching" =>
              Cardinality(refill.available) + refill.missing <= Amount
         /\ refill.pc \in {"rereading", "putting"} =>
              Cardinality(refill.available) <= Amount
         /\ refill.pc \in {"fetching", "rereading"} =>
              doc.available \subseteq refill.available

\* Revision 0 is that of no document.
NoDocument == doc.rev = 0 => doc.available = {}

\* What a writer read is what is stored, as long as its revision is.
RefillRev ==
    refill.pc = "putting" =>
      /\ refill.rev <= doc.rev
      /\ refill.rev = doc.rev => doc.available \subseteq refill.available

CallerRev ==
    \A c \in Callers : caller[c].pc = "putting" =>
      /\ caller[c].rev <= doc.rev
      /\ caller[c].rev = doc.rev =>
           /\ caller[c].address \in doc.available
           /\ caller[c].available = doc.available \ {caller[c].address}

\* A caller only holds addresses the server has issued.
CallerIssued ==
    \A c \in Callers : caller[c].pc = "putting" =>
      caller[c].available \cup {caller[c].address} \subseteq 1 .. issued

PoolFinite == IsFiniteSet(doc.available)

\* An address of the pool that was handed out before has been put back.
PoolFresh == doc.available \cap handed \subseteq restored

IndInv ==
    /\ TypeOK
    /\ RefillFlag
    /\ PoolFinite
    /\ AvailableBounded
    /\ RefillRoom
    /\ NoDocument
    /\ RefillRev
    /\ CallerRev
    /\ CallerIssued
    /\ PoolFresh
    /\ ReuseOnlyByRefill

-----------------------------------------------------------------------------
\* The size a refill asks for fits in the pool and is one of Int.
LEMMA CappedRefillFits ==
  ASSUME NEW n \in Nat
  PROVE  CappedRefill(n) \in Int /\ CappedRefill(n) <= Amount - n
BY OfflineAssumption DEF CappedRefill

\* A refill that starts from a list either ends at once, or has something to ask
\* for and room for it.
LEMMA RefillFromFits ==
  ASSUME NEW available, IsFiniteSet(available), RefillFrom(available)
  PROVE  \/ refill' = IdleRefill /\ isRefilling' = FALSE
         \/ \E missing \in Nat \ {0} :
              /\ refill' = [pc |-> "fetching", rev |-> 0,
                            available |-> available, missing |-> missing]
              /\ Cardinality(available) + missing <= Amount
              /\ isRefilling' = isRefilling
<1> DEFINE missing == CappedRefill(Cardinality(available))
<1>1. Cardinality(available) \in Nat
  BY FS_CardinalityType
<1>2. missing \in Int /\ missing <= Amount - Cardinality(available)
  BY <1>1, CappedRefillFits
<1>3. CASE missing > 0
  <2>1. missing \in Nat \ {0} /\ Cardinality(available) + missing <= Amount
    BY <1>1, <1>2, <1>3, OfflineAssumption
  <2> QED
    BY <1>3, <2>1 DEF RefillFrom
<1>4. CASE ~(missing > 0)
  BY <1>4 DEF RefillFrom
<1> QED
  BY <1>3, <1>4

\* Adding one address makes the list longer by at most one.
LEMMA AddOne ==
  ASSUME NEW S, NEW e, IsFiniteSet(S)
  PROVE  /\ IsFiniteSet(S \cup {e})
         /\ Cardinality(S) \in Nat
         /\ Cardinality(S \cup {e}) \in Nat
         /\ Cardinality(S \cup {e}) <= Cardinality(S) + 1
BY FS_AddElement, FS_CardinalityType

\* The inductive invariant holds of a new wallet, whose document is missing.
LEMMA InitInv == Init => IndInv
<1> SUFFICES ASSUME Init PROVE IndInv
  OBVIOUS
<1> USE OfflineAssumption DEF Init, IdleRefill, IdleCaller
<1>1. TypeOK
  BY DEF TypeOK, Docs, RefillStates, CallerStates
<1>2. IsFiniteSet({}) /\ Cardinality({}) = 0
  BY FS_EmptySet
<1>3. PoolFinite /\ AvailableBounded /\ RefillRoom
  BY <1>2 DEF PoolFinite, AvailableBounded, RefillRoom
<1>4. /\ RefillFlag /\ NoDocument /\ RefillRev /\ CallerRev /\ CallerIssued
      /\ PoolFresh /\ ReuseOnlyByRefill
  BY DEF RefillFlag, NoDocument, RefillRev, CallerRev, CallerIssued, PoolFresh, ReuseOnlyByRefill
<1> QED
  BY <1>1, <1>3, <1>4 DEF IndInv

\* Types are preserved.
LEMMA NextType == IndInv /\ [Next]_vars => TypeOK'
<1> SUFFICES ASSUME IndInv, [Next]_vars PROVE TypeOK'
  OBVIOUS
<1>0. TypeOK
  BY DEF IndInv
<1> USE <1>0, OfflineAssumption
    DEF TypeOK, Docs, RefillStates, CallerStates, observers, IdleRefill, IdleCaller
<1>1. CASE RefillStart
  BY <1>1 DEF RefillStart
<1>2. ASSUME NEW available, IsFiniteSet(available), available \subseteq 1 .. issued,
             RefillFrom(available)
      PROVE  /\ refill' \in RefillStates /\ refill'.available \subseteq 1 .. issued
             /\ isRefilling' \in BOOLEAN
  <2>1. CASE refill' = IdleRefill /\ isRefilling' = FALSE
    BY <2>1
  <2>2. ASSUME NEW missing \in Nat \ {0},
               /\ refill' = [pc |-> "fetching", rev |-> 0,
                             available |-> available, missing |-> missing]
               /\ Cardinality(available) + missing <= Amount
               /\ isRefilling' = isRefilling
        PROVE  /\ refill' \in RefillStates /\ refill'.available \subseteq 1 .. issued
               /\ isRefilling' \in BOOLEAN
    BY <1>2, <2>2
  <2> QED
    BY <1>2, <2>1, <2>2, RefillFromFits
<1>17. CASE RefillRead
  BY <1>2, <1>17 DEF RefillRead, IndInv, PoolFinite
<1>20. CASE RefillReadFails
  <2>1. IsFiniteSet({})
    BY FS_EmptySet
  <2> QED
    BY <1>2, <1>20, <2>1 DEF RefillReadFails
<1>18. CASE RefillRereadFails
  BY <1>18 DEF RefillRereadFails
<1>19. CASE RefillPutFails
  BY <1>19 DEF RefillPutFails
<1>3. CASE RefillFetch
  <2>1. refill.missing > 0
    BY <1>3 DEF IndInv, RefillRoom, RefillFetch
  <2>2. issued' \in Nat /\ 1 .. issued \subseteq 1 .. issued' /\ issued' \in 1 .. issued'
    BY <1>3 DEF RefillFetch, Issue
  <2>3. refill' \in RefillStates
    BY <1>3, <2>1, <2>2 DEF RefillFetch
  <2>4. refill'.available \subseteq 1 .. issued'
    BY <1>3, <2>2 DEF RefillFetch
  <2> QED
    BY <1>3, <2>2, <2>3, <2>4 DEF RefillFetch
<1>4. CASE RefillFetchFails
  <2>1. issued' \in Nat /\ 1 .. issued \subseteq 1 .. issued'
    BY <1>4 DEF RefillFetchFails, Issue
  <2> QED
    BY <1>4, <2>1 DEF RefillFetchFails
<1>5. CASE RefillReread
  BY <1>5 DEF RefillReread
<1>6. CASE RefillPut
  <2>1. doc' \in Docs /\ refill' \in RefillStates
    BY <1>6 DEF RefillPut
  <2>2. doc'.available \cup refill'.available \subseteq 1 .. issued
    BY <1>6 DEF RefillPut
  <2>3. restored' \subseteq 1 .. issued
    BY <1>6 DEF RefillPut
  <2> QED
    BY <1>6, <2>1, <2>2, <2>3, ZenonT(60) DEF RefillPut
<1>7. CASE RefillPutConflict
  BY <1>7 DEF RefillPutConflict
<1>8. ASSUME NEW c \in Callers, TakeStart(c) PROVE TypeOK'
  BY <1>8 DEF TakeStart
<1>9. ASSUME NEW c \in Callers, TakeRead(c) PROVE TypeOK'
  BY <1>9 DEF TakeRead
<1>10. ASSUME NEW c \in Callers, TakeNothing(c) PROVE TypeOK'
  BY <1>10 DEF TakeNothing
<1>11. ASSUME NEW c \in Callers, TakePut(c) PROVE TypeOK'
  <2>1. caller[c].available \cup {caller[c].address} \subseteq 1 .. issued
    BY <1>11 DEF IndInv, CallerIssued, TakePut
  <2> QED
    BY <1>11, <2>1 DEF TakePut, Deliver
<1>12. ASSUME NEW c \in Callers, TakePutFails(c) PROVE TypeOK'
  BY <1>12 DEF TakePutFails
<1>13. ASSUME NEW c \in Callers, TakeOnline(c) PROVE TypeOK'
  <2>1. issued' \in Nat /\ 1 .. issued \subseteq 1 .. issued' /\ issued' \in 1 .. issued'
    BY <1>13 DEF TakeOnline, Issue
  <2> QED
    BY <1>13, <2>1 DEF TakeOnline, Deliver
<1>14. ASSUME NEW c \in Callers, TakeOnlineFails(c) PROVE TypeOK'
  <2>1. issued' \in Nat /\ 1 .. issued \subseteq 1 .. issued'
    BY <1>14 DEF TakeOnlineFails, Issue
  <2> QED
    BY <1>14, <2>1 DEF TakeOnlineFails
<1>15. CASE Restart
  BY <1>15 DEF Restart
<1>16. CASE UNCHANGED vars
  BY <1>16 DEF vars
<1> QED
  BY <1>1, <1>2, <1>3, <1>4, <1>5, <1>6, <1>7, <1>8, <1>9, <1>10, <1>11,
     <1>12, <1>13, <1>14, <1>15, <1>16, <1>17, <1>18, <1>19, <1>20 DEF Next, RefillStep, TakeStep

\* One refill at a time, with room for what it still asks for.
LEMMA NextRefill == IndInv /\ [Next]_vars => RefillFlag' /\ RefillRoom' /\ RefillRev'
<1> SUFFICES ASSUME IndInv, [Next]_vars PROVE RefillFlag' /\ RefillRoom' /\ RefillRev'
  OBVIOUS
<1>0. /\ TypeOK /\ RefillFlag /\ RefillRoom /\ RefillRev /\ PoolFinite /\ CallerRev
      /\ NoDocument
  BY DEF IndInv
<1> USE <1>0, OfflineAssumption DEF RefillFlag, RefillRoom, RefillRev, observers,
          TypeOK, Docs, RefillStates, CallerStates, IdleRefill, IdleCaller
<1>e. IsFiniteSet({})
  BY FS_EmptySet
<1>1. CASE RefillStart
  BY <1>1, <1>e DEF RefillStart
<1>2. CASE RefillRead
  <2>1. RefillFrom(doc.available) /\ isRefilling /\ UNCHANGED <<doc, misread>>
    BY <1>2 DEF RefillRead
  <2>2. CASE refill' = IdleRefill /\ isRefilling' = FALSE
    BY <1>e, <2>1, <2>2
  <2>3. ASSUME NEW missing \in Nat \ {0},
               /\ refill' = [pc |-> "fetching", rev |-> 0,
                             available |-> doc.available, missing |-> missing]
               /\ Cardinality(doc.available) + missing <= Amount
               /\ isRefilling' = isRefilling
        PROVE  RefillFlag' /\ RefillRoom' /\ RefillRev'
    BY <2>1, <2>3 DEF PoolFinite
  <2> QED
    BY <2>1, <2>2, <2>3, RefillFromFits DEF PoolFinite
<1>13. CASE RefillReadFails
  <2>1. RefillFrom({}) /\ isRefilling /\ misread' /\ doc' = doc
    BY <1>13 DEF RefillReadFails
  <2>2. CASE refill' = IdleRefill /\ isRefilling' = FALSE
    BY <1>e, <2>1, <2>2
  <2>3. ASSUME NEW missing \in Nat \ {0},
               /\ refill' = [pc |-> "fetching", rev |-> 0,
                             available |-> {}, missing |-> missing]
               /\ Cardinality({}) + missing <= Amount
               /\ isRefilling' = isRefilling
        PROVE  RefillFlag' /\ RefillRoom' /\ RefillRev'
    BY <1>e, <2>1, <2>3
  <2> QED
    BY <1>e, <2>1, <2>2, <2>3, RefillFromFits
<1>14. CASE RefillRereadFails
  <2>1. /\ refill' = [refill EXCEPT !.pc = "putting", !.rev = 0]
        /\ refill.pc = "rereading" /\ isRefilling
        /\ UNCHANGED <<doc, isRefilling, misread>>
    BY <1>14 DEF RefillRereadFails
  <2> QED
    BY <2>1 DEF NoDocument
<1>15. CASE RefillPutFails
  BY <1>15, <1>e DEF RefillPutFails
<1>3. CASE RefillFetch
  <2>1. /\ IsFiniteSet(refill'.available)
        /\ Cardinality(refill.available) \in Nat
        /\ Cardinality(refill'.available) \in Nat
        /\ Cardinality(refill'.available) <= Cardinality(refill.available) + 1
    BY <1>3, AddOne DEF RefillFetch
  <2>2. /\ refill.missing > 0 /\ isRefilling
        /\ misread \/ Cardinality(refill.available) + refill.missing <= Amount
    BY <1>3 DEF RefillFetch
  <2>3. /\ refill'.pc = IF refill.missing = 1 THEN "rereading" ELSE "fetching"
        /\ refill'.missing = refill.missing - 1
        /\ doc' = doc /\ isRefilling' = isRefilling /\ misread' = misread
        /\ misread \/ doc.available \subseteq refill'.available
    BY <1>3 DEF RefillFetch
  <2>4. CASE refill.missing = 1
    BY <2>1, <2>2, <2>3, <2>4
  <2>5. CASE refill.missing > 1
    BY <2>1, <2>2, <2>3, <2>5
  <2> QED
    BY <2>2, <2>4, <2>5
<1>4. CASE RefillFetchFails
  BY <1>4, <1>e DEF RefillFetchFails
<1>5. CASE RefillReread
  <2>1. misread \/ doc.available \subseteq refill.available
    BY <1>5 DEF RefillReread
  <2>2. refill'.available = doc.available \cup refill.available
        /\ refill'.pc = "putting" /\ refill'.rev = doc.rev
        /\ UNCHANGED <<doc, isRefilling, misread>> /\ isRefilling
    BY <1>5 DEF RefillReread
  <2>3. misread \/ refill'.available = refill.available
    BY <2>1, <2>2
  <2>4. /\ IsFiniteSet(refill.available) /\ IsFiniteSet(doc.available)
        /\ misread \/ Cardinality(refill.available) <= Amount
    BY <1>5 DEF RefillReread, PoolFinite
  <2>5. IsFiniteSet(doc.available \cup refill.available)
    BY <2>4, FS_Union
  <2>6. RefillFlag'
    BY <2>2
  <2>7. RefillRoom'
    BY <2>2, <2>3, <2>4, <2>5
  <2>8. RefillRev'
    BY ONLY <1>0, <2>2 DEF RefillRev, TypeOK, Docs
  <2> QED
    BY <2>6, <2>7, <2>8
<1>6. CASE RefillPut
  BY <1>6, <1>e DEF RefillPut
<1>7. CASE RefillPutConflict
  BY <1>7, <1>e DEF RefillPutConflict
<1>8. ASSUME NEW c \in Callers, TakePut(c)
      PROVE  RefillFlag' /\ RefillRoom' /\ RefillRev'
  <2>1. doc'.available \subseteq doc.available /\ doc'.rev = doc.rev + 1
    BY <1>8 DEF TakePut, Accepted, CallerRev
  <2>2. refill' = refill /\ isRefilling' = isRefilling /\ misread' = misread
    BY <1>8 DEF TakePut
  <2>3. RefillFlag' /\ RefillRoom'
    BY <2>1, <2>2
  <2>4. RefillRev'
    BY <2>1, <2>2
  <2> QED
    BY <2>3, <2>4
<1>9. CASE Restart
  BY <1>9, <1>e DEF Restart
<1>10. ASSUME UNCHANGED <<doc, isRefilling, refill, misread>>
       PROVE  RefillFlag' /\ RefillRoom' /\ RefillRev'
  BY <1>10
<1>11. ASSUME NEW c \in Callers,
              TakeStart(c) \/ TakeRead(c) \/ TakeNothing(c) \/ TakePutFails(c)
                \/ TakeOnline(c) \/ TakeOnlineFails(c)
       PROVE  UNCHANGED <<doc, isRefilling, refill, misread>>
  BY <1>11 DEF TakeStart, TakeRead, TakeNothing, TakePutFails, TakeOnline, TakeOnlineFails
<1>12. CASE UNCHANGED vars
  BY <1>10, <1>12 DEF vars
<1> QED
  BY <1>1, <1>2, <1>3, <1>4, <1>5, <1>6, <1>7, <1>8, <1>9, <1>10, <1>11, <1>12,
     <1>13, <1>14, <1>15 DEF Next, RefillStep, TakeStep

\* A document that was stored has a revision.
LEMMA NextDocument == IndInv /\ [Next]_vars => NoDocument'
<1> SUFFICES ASSUME IndInv, [Next]_vars PROVE NoDocument'
  OBVIOUS
<1>0. TypeOK /\ NoDocument
  BY DEF IndInv
<1>1. CASE UNCHANGED doc
  BY <1>0, <1>1 DEF NoDocument
<1>2. CASE RefillPut \/ \E c \in Callers : TakePut(c)
  BY <1>0, <1>2 DEF RefillPut, TakePut, NoDocument, TypeOK, Docs
<1>3. CASE UNCHANGED vars
  BY <1>1, <1>3 DEF vars
<1> QED
  BY <1>1, <1>2, <1>3 DEF Next, RefillStep, TakeStep, RefillStart, RefillRead,
     RefillReadFails, RefillFetch, RefillFetchFails, RefillReread, RefillRereadFails,
     RefillPutConflict, RefillPutFails, TakeStart, TakeRead, TakeNothing,
     TakePutFails, TakeOnline, TakeOnlineFails, Restart

\* A writer whose revision is still stored knows what is stored.
LEMMA NextCaller == IndInv /\ [Next]_vars => CallerRev' /\ CallerIssued'
<1> SUFFICES ASSUME IndInv, [Next]_vars PROVE CallerRev' /\ CallerIssued'
  OBVIOUS
<1>0. TypeOK /\ CallerRev /\ CallerIssued
  BY DEF IndInv
<1> USE <1>0 DEF CallerRev, CallerIssued, observers, TypeOK, Docs, RefillStates,
          CallerStates, IdleRefill, IdleCaller
<1>1. ASSUME UNCHANGED <<doc, caller>>, issued' \in Nat, issued <= issued'
      PROVE  CallerRev' /\ CallerIssued'
  BY <1>1
<1>2. CASE \/ RefillStart \/ RefillRead \/ RefillReadFails \/ RefillFetch
           \/ RefillFetchFails \/ RefillReread \/ RefillRereadFails
           \/ RefillPutConflict \/ RefillPutFails
  BY <1>1, <1>2 DEF RefillStart, RefillRead, RefillReadFails, RefillFetch,
     RefillFetchFails, RefillReread, RefillRereadFails, RefillPutConflict,
     RefillPutFails, Issue
<1>3. CASE RefillPut
  BY <1>3 DEF RefillPut
<1>4. ASSUME NEW c \in Callers,
             TakeStart(c) \/ TakeRead(c) \/ TakeNothing(c) \/ TakePutFails(c)
      PROVE  CallerRev' /\ CallerIssued'
  BY <1>4 DEF TakeStart, TakeRead, TakeNothing, TakePutFails
<1>5. ASSUME NEW c \in Callers, TakePut(c) PROVE CallerRev' /\ CallerIssued'
  BY <1>5 DEF TakePut
<1>6. ASSUME NEW c \in Callers, TakeOnline(c) \/ TakeOnlineFails(c)
      PROVE  CallerRev' /\ CallerIssued'
  BY <1>6 DEF TakeOnline, TakeOnlineFails, Issue
<1>7. CASE Restart
  BY <1>7 DEF Restart
<1>8. CASE UNCHANGED vars
  BY <1>1, <1>8 DEF vars
<1> QED
  BY <1>2, <1>3, <1>4, <1>5, <1>6, <1>7, <1>8 DEF Next, RefillStep, TakeStep

\* The pool stays within its size, and its used addresses are restored ones.
LEMMA NextPool ==
  IndInv /\ [Next]_vars =>
    PoolFinite' /\ AvailableBounded' /\ PoolFresh' /\ ReuseOnlyByRefill'
<1> SUFFICES ASSUME IndInv, [Next]_vars
             PROVE  PoolFinite' /\ AvailableBounded' /\ PoolFresh' /\ ReuseOnlyByRefill'
  OBVIOUS
<1>0. /\ TypeOK /\ PoolFinite /\ AvailableBounded /\ PoolFresh /\ ReuseOnlyByRefill
      /\ RefillRoom /\ CallerRev
  BY DEF IndInv
<1> USE <1>0, OfflineAssumption DEF PoolFinite, AvailableBounded, PoolFresh,
          ReuseOnlyByRefill, observers, TypeOK, Docs
<1>1. ASSUME UNCHANGED <<doc, handed, reused, restored>>, misread => misread'
      PROVE  PoolFinite' /\ AvailableBounded' /\ PoolFresh' /\ ReuseOnlyByRefill'
  BY <1>1
<1>2. CASE \/ RefillStart \/ RefillRead \/ RefillReadFails \/ RefillFetch
           \/ RefillFetchFails \/ RefillReread \/ RefillRereadFails
           \/ RefillPutConflict \/ RefillPutFails \/ Restart
  BY <1>1, <1>2 DEF RefillStart, RefillRead, RefillReadFails, RefillFetch,
     RefillFetchFails, RefillReread, RefillRereadFails, RefillPutConflict,
     RefillPutFails, Restart
<1>3. CASE RefillPut
  BY <1>3 DEF RefillPut, RefillRoom
<1>4. ASSUME NEW c \in Callers,
             TakeStart(c) \/ TakeRead(c) \/ TakeNothing(c) \/ TakePutFails(c)
               \/ TakeOnlineFails(c)
      PROVE  UNCHANGED <<doc, observers>>
  BY <1>4 DEF TakeStart, TakeRead, TakeNothing, TakePutFails, TakeOnlineFails
<1>5. ASSUME NEW c \in Callers, TakePut(c)
      PROVE  PoolFinite' /\ AvailableBounded' /\ PoolFresh' /\ ReuseOnlyByRefill'
  <2>1. /\ caller[c].address \in doc.available
        /\ doc'.available = doc.available \ {caller[c].address}
    BY <1>5 DEF TakePut, Accepted, CallerRev
  <2>2. PoolFinite'
    BY <2>1, FS_RemoveElement
  <2>3. AvailableBounded'
    <3>1. /\ doc'.available \subseteq doc.available
          /\ Cardinality(doc'.available) \in Nat /\ Cardinality(doc.available) \in Nat
      BY <2>1, <2>2, FS_CardinalityType
    <3>2. Cardinality(doc'.available) <= Cardinality(doc.available)
      BY <3>1, FS_Subset
    <3>3. misread' = misread
      BY <1>5 DEF TakePut
    <3> QED
      BY <3>1, <3>2, <3>3
  <2>4. PoolFresh' /\ ReuseOnlyByRefill'
    BY <1>5, <2>1 DEF TakePut, Deliver
  <2> QED
    BY <2>2, <2>3, <2>4
<1>6. ASSUME NEW c \in Callers, TakeOnline(c)
      PROVE  PoolFinite' /\ AvailableBounded' /\ PoolFresh' /\ ReuseOnlyByRefill'
  <2>1. issued' \notin handed /\ issued' \notin doc.available
    BY <1>6 DEF TakeOnline, Issue
  <2> QED
    BY <1>6, <2>1 DEF TakeOnline, Deliver
<1>7. CASE UNCHANGED vars
  BY <1>1, <1>7 DEF vars
<1> QED
  BY <1>1, <1>2, <1>3, <1>4, <1>5, <1>6, <1>7 DEF Next, RefillStep, TakeStep

\* The inductive invariant holds in every reachable state.
LEMMA Invariance == Spec => []IndInv
<1>1. IndInv /\ [Next]_vars => IndInv'
  BY NextType, NextRefill, NextDocument, NextCaller, NextPool DEF IndInv
<1> QED
  BY <1>1, InitInv, PTL DEF Spec

-----------------------------------------------------------------------------
\* Every reachable state is well typed: in particular no address is stored or
\* handed out that the server did not issue.
THEOREM TypeCorrect == Spec => []TypeOK
<1>1. IndInv => TypeOK
  BY DEF IndInv
<1> QED
  BY <1>1, Invariance, PTL

\* The pool of refillOfflineAddresses never exceeds _amountOfOfflineAddresses,
\* unless a refill has taken a read that failed for an empty pool.
THEOREM PoolBound == Spec => []AvailableBounded
<1>1. IndInv => AvailableBounded
  BY DEF IndInv
<1> QED
  BY <1>1, Invariance, PTL

\* Only refillOfflineAddresses can make getNewAddress return an address twice.
THEOREM ReuseNeedsRefill == Spec => []ReuseOnlyByRefill
<1>1. IndInv => ReuseOnlyByRefill
  BY DEF IndInv
<1> QED
  BY <1>1, Invariance, PTL

\* No accepted put() of the addresses document drops an address that nobody got.
THEOREM PoolKeepsAddresses == Spec => NoAddressLost
<1>1. IndInv /\ [Next]_vars => doc.available \ doc'.available \subseteq handed'
  <2> SUFFICES ASSUME IndInv, [Next]_vars
               PROVE  doc.available \ doc'.available \subseteq handed'
    OBVIOUS
  <2>1. CASE UNCHANGED doc
    BY <2>1
  <2>2. CASE RefillPut
    BY <2>2 DEF RefillPut, Accepted, IndInv, RefillRev, TypeOK, RefillStates, Docs
  <2>3. ASSUME NEW c \in Callers, TakePut(c)
        PROVE  doc.available \ doc'.available \subseteq handed'
    BY <2>3 DEF TakePut, Accepted, Deliver, IndInv, CallerRev
  <2>4. CASE UNCHANGED vars
    BY <2>1, <2>4 DEF vars
  <2> QED
    BY <2>1, <2>2, <2>3, <2>4 DEF Next, RefillStep, TakeStep, RefillStart, RefillRead,
       RefillReadFails, RefillFetch, RefillFetchFails, RefillReread,
       RefillRereadFails, RefillPutConflict, RefillPutFails, TakeStart, TakeRead,
       TakeNothing, TakePutFails, TakeOnline, TakeOnlineFails, Restart
<1> QED
  BY <1>1, Invariance, PTL DEF Spec, NoAddressLost

-----------------------------------------------------------------------------
\* A refill about to put meets a changed document only when that put is spoiled.
ConflictIsSpoiled == refill.pc = "putting" /\ refill.rev # doc.rev => spoiled # {}

\* Both facts are preserved: between the second read of a refill and its put the
\* document changes only by takes, and no failure elsewhere leaves the flag set.
LEMMA NextStuck ==
  IndInv /\ ConflictIsSpoiled /\ StuckOnlyBySpoiledPut /\ [Next]_vars =>
    ConflictIsSpoiled' /\ StuckOnlyBySpoiledPut'
<1> SUFFICES ASSUME IndInv, ConflictIsSpoiled, StuckOnlyBySpoiledPut, [Next]_vars
             PROVE  ConflictIsSpoiled' /\ StuckOnlyBySpoiledPut'
  OBVIOUS
<1> USE DEF ConflictIsSpoiled, StuckOnlyBySpoiledPut, IdleRefill, observers
<1>0. RefillFlag /\ refill \in RefillStates
  BY DEF IndInv, TypeOK
<1>1. CASE RefillStart
  BY <1>1 DEF RefillStart
<1>2. CASE RefillRead \/ RefillReadFails
  BY <1>2 DEF RefillRead, RefillReadFails, RefillFrom
<1>3. CASE RefillFetch
  BY <1>3 DEF RefillFetch
<1>4. CASE RefillFetchFails
  BY <1>4 DEF RefillFetchFails
<1>5. CASE RefillReread
  BY <1>5 DEF RefillReread
<1>6. CASE RefillRereadFails \/ RefillPutFails
  BY <1>6 DEF RefillRereadFails, RefillPutFails
<1>7. CASE RefillPut
  BY <1>7 DEF RefillPut
<1>8. CASE RefillPutConflict
  BY <1>8 DEF RefillPutConflict, Accepted
<1>9. ASSUME NEW c \in Callers, TakePut(c)
      PROVE  ConflictIsSpoiled' /\ StuckOnlyBySpoiledPut'
  <2>1. UNCHANGED <<isRefilling, refill>> /\ spoiled \subseteq spoiled'
    BY <1>9 DEF TakePut
  <2>2. refill.pc = "putting" => spoiled' # {}
    BY <1>9 DEF TakePut
  <2> QED
    BY <2>1, <2>2
<1>10. CASE Restart
  BY <1>10 DEF Restart
<1>11. ASSUME NEW c \in Callers,
              TakeStart(c) \/ TakeRead(c) \/ TakeNothing(c) \/ TakePutFails(c)
                \/ TakeOnline(c) \/ TakeOnlineFails(c)
       PROVE  UNCHANGED <<doc, isRefilling, refill, spoiled>>
  BY <1>11 DEF TakeStart, TakeRead, TakeNothing, TakePutFails, TakeOnline, TakeOnlineFails
<1>12. CASE UNCHANGED vars
  BY <1>12 DEF vars
<1> QED
  BY <1>1, <1>2, <1>3, <1>4, <1>5, <1>6, <1>7, <1>8, <1>9, <1>10, <1>11, <1>12
  DEF Next, RefillStep, TakeStep

\* isRefilling stays set after its refill has ended only when the put of that
\* refill met a document changed by a take, followed a failed read, or failed.
THEOREM RefillGoesOn == Spec => []StuckOnlyBySpoiledPut
<1>1. Init => ConflictIsSpoiled /\ StuckOnlyBySpoiledPut
  BY DEF Init, ConflictIsSpoiled, StuckOnlyBySpoiledPut, IdleRefill
<1> QED
  BY <1>1, NextStuck, Invariance, PTL DEF Spec

-----------------------------------------------------------------------------
(***************************************************************************)
(* What calls of setData() give the fields, as the library folds it.       *)
(***************************************************************************)
\* Induction over finite sets, as a least counterexample: among subsets of a finite
\* set one is smallest.
LEMMA LeastSet ==
    ASSUME NEW D, IsFiniteSet(D), NEW T, T \subseteq SUBSET D, T # {}
    PROVE  \E s \in T : \A t \in T : t \subseteq s => t = s
<1>1. T \subseteq FiniteSubsetsOf(D)
  BY FS_Subset DEF FiniteSubsetsOf
<1>2. PICK s \in T : \A t \in T : ~(<<t, s>> \in StrictSubsetOrdering(D))
  BY <1>1, WFMin, FS_StrictSubsetOrderingWellFounded
<1>3. ASSUME NEW t \in T, t \subseteq s PROVE t = s
  <2>1. t \in SUBSET D /\ s \in SUBSET D
    OBVIOUS
  <2>2. t # s => <<t, s>> \in StrictSubsetOrdering(D)
    BY <1>3, <2>1 DEF StrictSubsetOrdering
  <2> QED
    BY <1>2, <2>2
<1> QED
  BY <1>3

\* The largest of finitely many numbers.
IsMax(m, s) == m \in s /\ \A y \in s : m >= y

\* A largest element is the one the library chooses.
LEMMA MaxIs ==
    ASSUME NEW s \in SUBSET Int, NEW m, IsMax(m, s)
    PROVE  Max(s) = m
<1>1. m \in s /\ \A y \in s : m >= y
  BY DEF IsMax
<1>2. Max(s) \in s /\ \A y \in s : Max(s) >= y
  BY <1>1 DEF Max
<1>3. m \in Int /\ Max(s) \in Int /\ m >= Max(s) /\ Max(s) >= m
  BY <1>1, <1>2
<1> QED
  BY <1>3

\* Indices, if there are any, have a largest one.
LEMMA MaxExists ==
    ASSUME NEW n \in Nat, NEW s \in SUBSET (1..n), s # {}
    PROVE  IsMax(Max(s), s)
<1> DEFINE T == {t \in SUBSET (1..n) : t # {} /\ ~\E m \in t : IsMax(m, t)}
<1>1. CASE T = {}
  <2>1. PICK m \in s : IsMax(m, s)
    BY <1>1
  <2>2. Max(s) = m
    BY <2>1, MaxIs
  <2> QED
    BY <2>1, <2>2
<1>2. CASE T # {}
  <2>1. PICK t \in T : \A r \in T : r \subseteq t => r = t
    <3> DEFINE D == 1..n
    <3>1. T \subseteq SUBSET D
      OBVIOUS
    <3>2. IsFiniteSet(D)
      BY FS_Interval
    <3> HIDE DEF T, D
    <3> QED
      BY <1>2, <3>1, <3>2, LeastSet
  <2>2. PICK x \in t : TRUE
    BY <2>1
  <2>3. t \ {x} \in SUBSET (1..n) /\ t \ {x} \notin T /\ t \in SUBSET (1..n)
    BY <2>1, <2>2
  <2>4. CASE t \ {x} = {}
    <3>1. IsMax(x, t)
      BY <2>2, <2>3, <2>4 DEF IsMax
    <3> QED
      BY <2>1, <2>2, <3>1
  <2>5. CASE t \ {x} # {}
    <3>1. PICK m \in t \ {x} : IsMax(m, t \ {x})
      BY <2>3, <2>5
    <3>2. m \in Int /\ x \in Int
      BY <2>3, <3>1
    <3>3. CASE m >= x
      <4>1. IsMax(m, t)
        BY <3>1, <3>3 DEF IsMax
      <4> QED
        BY <2>1, <3>1, <4>1
    <3>4. CASE x > m
      <4>1. \A y \in t : y \in Int
        BY <2>3
      <4>2. IsMax(x, t)
        BY <3>1, <3>2, <3>4, <4>1 DEF IsMax
      <4> QED
        BY <2>1, <2>2, <4>2
    <3> QED
      BY <3>2, <3>3, <3>4
  <2> QED
    BY <2>4, <2>5
<1> QED
  BY <1>1, <1>2

\* What getSquashedPendingData makes of the first calls of cs, or of any of them: of
\* each field, what the last of them gives it that sets it.
Setting(cs, s, f) == {i \in s : f \in DOMAIN Data[cs[i]]}
Latest(cs, s) ==
    [f \in {x \in Fields : Setting(cs, s, x) # {}} |-> Data[cs[Max(Setting(cs, s, f))]][f]]

\* The function over sets of indices that the fold makes.
Folds(cs, S, g) ==
    g = [s \in SUBSET S |-> IF s = {} THEN <<>> ELSE Merge(g[s \ {Max(s)}], Data[cs[Max(s)]])]
Folded(cs, S) == CHOOSE g : Folds(cs, S, g)

\* Squashing is that function, taken at all indices.
LEMMA SquashedIsFolded ==
    ASSUME NEW cs
    PROVE  Squashed(cs) = Folded(cs, DOMAIN cs)[DOMAIN cs]
BY DEF Squashed, FoldLeft, MapThenFoldSet, Folded, Folds

\* There is one such function only.
LEMMA FoldsOnce ==
    ASSUME NEW cs, NEW n \in Nat, NEW g, NEW h, Folds(cs, 1..n, g), Folds(cs, 1..n, h)
    PROVE  g = h
<1> DEFINE T == {s \in SUBSET (1..n) : g[s] # h[s]}
<1>1. CASE T = {}
  BY <1>1 DEF Folds
<1>2. CASE T # {}
  <2>1. PICK s \in T : \A t \in T : t \subseteq s => t = s
    <3> DEFINE D == 1..n
    <3>1. T \subseteq SUBSET D
      OBVIOUS
    <3>2. IsFiniteSet(D)
      BY FS_Interval
    <3> HIDE DEF T, D
    <3> QED
      BY <1>2, <3>1, <3>2, LeastSet
  <2>2. s # {}
    BY <2>1 DEF Folds
  <2>3. Max(s) \in s
    BY <2>1, <2>2, MaxExists DEF IsMax
  <2>4. g[s \ {Max(s)}] = h[s \ {Max(s)}]
    BY <2>1, <2>3
  <2>5. /\ g[s] = Merge(g[s \ {Max(s)}], Data[cs[Max(s)]])
        /\ h[s] = Merge(h[s \ {Max(s)}], Data[cs[Max(s)]])
    BY <2>1, <2>2 DEF Folds
  <2> QED
    BY <2>1, <2>4, <2>5
<1> QED
  BY <1>1, <1>2

\* One call more: its fields win.
LEMMA LatestStep ==
    ASSUME NEW cs, NEW n \in Nat, \A i \in 1..n : DOMAIN Data[cs[i]] \subseteq Fields,
           NEW s \in SUBSET (1..n), s # {}
    PROVE  Latest(cs, s) = Merge(Latest(cs, s \ {Max(s)}), Data[cs[Max(s)]])
<1> DEFINE m == Max(s)
           r == s \ {m}
           d == Data[cs[m]]
<1>1. m \in s /\ \A y \in s : m >= y
  BY MaxExists DEF IsMax
<1> HIDE DEF m, d
<1>2. ASSUME NEW f PROVE Setting(cs, s, f) = Setting(cs, r, f) \cup (IF f \in DOMAIN d THEN {m} ELSE {})
  BY <1>1 DEF Setting, d
<1>3. ASSUME NEW f, f \in DOMAIN d PROVE f \in Fields /\ Max(Setting(cs, s, f)) = m
  <2>1. Setting(cs, s, f) \in SUBSET Int /\ IsMax(m, Setting(cs, s, f))
    <3>1. m \in Setting(cs, s, f)
      BY <1>1, <1>3 DEF Setting, d
    <3>2. Setting(cs, s, f) \subseteq s /\ s \subseteq Int
      BY DEF Setting
    <3> QED
      BY <1>1, <3>1, <3>2 DEF IsMax
  <2>2. f \in Fields
    BY <1>1, <1>3 DEF d
  <2> QED
    BY <2>1, <2>2, MaxIs
<1> DEFINE L(t) == {x \in Fields : Setting(cs, t, x) # {}}
<1>4. L(s) = L(r) \cup DOMAIN d
  <2>1. ASSUME NEW f PROVE f \in L(s) <=> f \in L(r) \cup DOMAIN d
    BY <1>2, <1>3
  <2> QED
    BY <2>1
<1>5. ASSUME NEW f \in L(s)
      PROVE  Data[cs[Max(Setting(cs, s, f))]][f]
               = IF f \in DOMAIN d THEN d[f] ELSE Latest(cs, r)[f]
  <2>1. CASE f \in DOMAIN d
    BY <1>3, <2>1 DEF d
  <2>2. CASE f \notin DOMAIN d
    <3>1. Setting(cs, s, f) = Setting(cs, r, f) /\ f \in L(r)
      BY <1>2, <1>4, <2>2
    <3>2. Latest(cs, r)[f] = Data[cs[Max(Setting(cs, r, f))]][f]
      BY <3>1 DEF Latest
    <3> QED
      BY <2>2, <3>1, <3>2
  <2> QED
    BY <2>1, <2>2
<1>6. DOMAIN Latest(cs, r) = L(r)
  BY DEF Latest
<1>7. Merge(Latest(cs, r), d) = [f \in L(s) |-> IF f \in DOMAIN d THEN d[f] ELSE Latest(cs, r)[f]]
  BY <1>4, <1>6 DEF Merge
<1>8. Latest(cs, s) = [f \in L(s) |-> Data[cs[Max(Setting(cs, s, f))]][f]]
  BY DEF Latest
<1> HIDE DEF L, d, r
<1>9. Latest(cs, s) = Merge(Latest(cs, r), d)
  BY <1>5, <1>7, <1>8
<1> QED
  BY <1>9 DEF r, d, m

\* The squashed data of a sequence of calls is the latest data.
LEMMA SquashedIsLatest ==
    ASSUME NEW cs \in Seq(Calls)
    PROVE  Squashed(cs) = Latest(cs, DOMAIN cs)
<1>1. PICK n \in Nat : DOMAIN cs = 1..n /\ \A i \in 1..n : cs[i] \in Calls
  <2>1. Len(cs) \in Nat /\ DOMAIN cs = 1..Len(cs) /\ \A i \in 1..Len(cs) : cs[i] \in Calls
    OBVIOUS
  <2> QED
    BY <2>1
<1>2. \A i \in 1..n : DOMAIN Data[cs[i]] \subseteq Fields
  BY <1>1, LocalStorageAssumption
<1> DEFINE g == [s \in SUBSET (1..n) |-> Latest(cs, s)]
<1>3. Latest(cs, {}) = <<>>
  <2>1. {x \in Fields : Setting(cs, {}, x) # {}} = {}
    BY DEF Setting
  <2> QED
    BY <2>1 DEF Latest
<1>4. ASSUME NEW s \in SUBSET (1..n), s # {}
      PROVE  g[s] = Merge(g[s \ {Max(s)}], Data[cs[Max(s)]])
  <2>1. s \ {Max(s)} \in SUBSET (1..n)
    OBVIOUS
  <2>2. g[s] = Latest(cs, s) /\ g[s \ {Max(s)}] = Latest(cs, s \ {Max(s)})
    BY <2>1
  <2> HIDE DEF g
  <2> QED
    BY <1>2, <1>4, <2>2, LatestStep
<1>5. \A s \in SUBSET (1..n) :
        g[s] = IF s = {} THEN <<>> ELSE Merge(g[s \ {Max(s)}], Data[cs[Max(s)]])
  BY <1>3, <1>4
<1>6. g = [s \in SUBSET (1..n) |-> g[s]] /\ g[1..n] = Latest(cs, 1..n)
  OBVIOUS
<1> HIDE DEF g
<1>7. Folds(cs, 1..n, g)
  BY <1>5, <1>6 DEF Folds
<1>8. Folds(cs, 1..n, Folded(cs, 1..n))
  BY <1>7 DEF Folded
<1>9. Folded(cs, 1..n) = g
  BY <1>7, <1>8, FoldsOnce
<1> QED
  BY <1>1, <1>6, <1>9, SquashedIsFolded

-----------------------------------------------------------------------------
(***************************************************************************)
(* LocalStorage implements UpdateRegister.                                 *)
(***************************************************************************)
\* The register takes the same maximum and looks into sequences alike.
LEMMA SameOperators ==
    /\ \A s : Register!Max(s) = Max(s)
    /\ \A s, e : Register!Contains(s, e) = Contains(s, e)
BY DEF Register!Max, Max, Register!Contains, Contains

\* The initial values are among the values.
LEMMA DefaultsAreValues == Defaults \in Values
<1>1. \A f \in Fields : Defaults[f] \in Contents
  BY DEF Contents
<1> QED
  BY <1>1, LocalStorageAssumption DEF Values

\* Assigning the squashed data of calls is letting the last of them win, field by
\* field; and the values stay within those the calls set.
LEMMA MergeAssigns ==
    ASSUME NEW v \in Values, NEW cs \in Seq(Calls)
    PROVE  Merge(v, Squashed(cs)) = Register!AssignAll(v, cs)
<1> DEFINE q == Latest(cs, DOMAIN cs)
<1>1. Squashed(cs) = q
  BY SquashedIsLatest
<1>2. DOMAIN v = Fields
  BY DEF Values
<1>3. \A f : Setting(cs, DOMAIN cs, f) = Register!Setters(cs, f)
  BY DEF Setting, Register!Setters
<1>4. DOMAIN q = {x \in Fields : Register!Setters(cs, x) # {}}
  BY <1>3 DEF Latest
<1>5. \A f \in DOMAIN q : q[f] = Data[cs[Max(Register!Setters(cs, f))]][f]
  BY <1>3 DEF Latest
<1> HIDE DEF q
<1>6. Merge(v, q) = [f \in Fields |-> IF f \in DOMAIN q THEN q[f] ELSE v[f]]
  <2>1. DOMAIN v \cup DOMAIN q = Fields
    BY <1>2, <1>4
  <2> QED
    BY <2>1 DEF Merge
<1>7. ASSUME NEW f \in Fields
      PROVE  (IF f \in DOMAIN q THEN q[f] ELSE v[f])
               = IF Register!Setters(cs, f) = {} THEN v[f]
                 ELSE Data[cs[Max(Register!Setters(cs, f))]][f]
  BY <1>4, <1>5
<1>8. Merge(v, q) = Register!AssignAll(v, cs)
  BY <1>6, <1>7, SameOperators DEF Register!AssignAll
<1> QED
  BY <1>1, <1>8

\* Assigning keeps to the values the calls and the defaults give.
LEMMA AssignsValues ==
    ASSUME NEW v \in Values, NEW cs \in Seq(Calls)
    PROVE  Register!AssignAll(v, cs) \in Values
<1> DEFINE w == Register!AssignAll(v, cs)
<1>1. PICK n \in Nat : DOMAIN cs = 1..n /\ \A i \in 1..n : cs[i] \in Calls
  <2>1. Len(cs) \in Nat /\ DOMAIN cs = 1..Len(cs) /\ \A i \in 1..Len(cs) : cs[i] \in Calls
    OBVIOUS
  <2> QED
    BY <2>1
<1>2. \A f \in Fields : v[f] \in Contents
  BY DEF Values
<1>3. ASSUME NEW f \in Fields PROVE w[f] \in Contents
  <2> DEFINE s == Register!Setters(cs, f)
  <2>1. w[f] = IF s = {} THEN v[f] ELSE Data[cs[Max(s)]][f]
    BY SameOperators DEF Register!AssignAll
  <2>2. s \in SUBSET (1..n)
    BY <1>1 DEF Register!Setters
  <2>3. ASSUME s # {} PROVE Data[cs[Max(s)]][f] \in Contents
    <3>1. Max(s) \in s
      <4> HIDE DEF s
      <4> QED
        BY <1>1, <2>2, <2>3, MaxExists DEF IsMax
    <3>2. f \in DOMAIN Data[cs[Max(s)]] /\ cs[Max(s)] \in Calls
      BY <1>1, <2>2, <3>1 DEF Register!Setters
    <3>3. ASSUME NEW c \in Calls, NEW x \in DOMAIN Data[c] PROVE Data[c][x] \in Contents
      <4>1. Data[c][x] \in {Data[c][y] : y \in DOMAIN Data[c]}
        OBVIOUS
      <4>2. {Data[c][y] : y \in DOMAIN Data[c]} \in {{Data[d][y] : y \in DOMAIN Data[d]} : d \in Calls}
        OBVIOUS
      <4>3. Data[c][x] \in UNION {{Data[d][y] : y \in DOMAIN Data[d]} : d \in Calls}
        BY <4>1, <4>2
      <4> QED
        BY <4>3 DEF Contents, Given
    <3> HIDE DEF s
    <3> QED
      BY <3>2, <3>3
  <2> HIDE DEF s, w
  <2> QED
    BY <1>2, <2>1, <2>3
<1>4. w = [f \in Fields |-> w[f]]
  BY DEF Register!AssignAll
<1> QED
  BY <1>3, <1>4 DEF Values

\* What an update has read is what is stored, as long as the revision is the same,
\* also when there is no document: that has one value.
StoreInv ==
    /\ StoreTypeOK
    /\ document.rev = 0 => document.value = Defaults
    /\ read.rev = 0 => read.value = Defaults
    /\ pc = "putting" /\ read.rev = document.rev => read.value = document.value
    /\ pc \in {"reading", "putting"} => batch # <<>>

\* The invariant holds at first: there is no document, and nothing waits.
LEMMA StoreInitInv == StoreInit => StoreInv
<1> SUFFICES ASSUME StoreInit PROVE StoreInv
  OBVIOUS
<1>1. Defaults \in Values
  BY DefaultsAreValues
<1> QED
  BY <1>1 DEF StoreInit, StoreInv, StoreTypeOK, NoDoc

\* Settling the promises keeps their types.
LEMMA SettleTypes ==
    ASSUME StoreTypeOK, NEW how \in {"resolved", "rejected", "gone"}, Settle(how)
    PROVE  answer' \in [Calls -> {"new", "waiting", "resolved", "rejected", "gone"}]
BY DEF StoreTypeOK, Settle

\* A document is stored under a new revision, with values the calls gave.
LEMMA PutInv == ASSUME StoreInv, Put PROVE StoreInv'
<1> DEFINE v == Merge(read.value, Squashed(batch))
<1>1. read.value \in Values /\ batch \in Seq(Calls) /\ pending \in Seq(Calls) /\ version \in Nat
  BY DEF StoreInv, StoreTypeOK
<1>2. v \in Values
  BY <1>1, MergeAssigns, AssignsValues
<1> HIDE DEF v
<1>3. /\ document'.rev = version + 1 /\ document'.value = v /\ version' = version + 1
      /\ batch' = pending /\ pending' = <<>> /\ read' = read /\ clearer' = clearer
  BY DEF Put, v
<1>4. answer' \in [Calls -> {"new", "waiting", "resolved", "rejected", "gone"}]
  <2>1. answer' = answer \/ Settle("resolved")
    BY DEF Put
  <2> QED
    BY <2>1, SettleTypes DEF StoreInv, StoreTypeOK
<1>5. pc' \in {"null", "reading"} /\ (pc' = "null" <=> pending = <<>>)
  BY DEF Put
<1>6. read.rev \in 0..version' /\ document'.rev \in 0..version' /\ version' \in Nat
      /\ document'.rev # 0
  BY <1>1, <1>3 DEF StoreInv, StoreTypeOK
<1>7. clearer' \in [pc : {"idle", "removing"}, rev : 0..version']
  <2>1. 0..version \subseteq 0..version'
    BY <1>1, <1>3
  <2>2. clearer \in [pc : {"idle", "removing"}, rev : 0..version]
    BY DEF StoreInv, StoreTypeOK
  <2> QED
    BY <1>3, <2>1, <2>2
<1>8. StoreTypeOK'
  <2>1. <<>> \in Seq(Calls)
    OBVIOUS
  <2> QED
    BY <1>1, <1>2, <1>3, <1>4, <1>5, <1>6, <1>7, <2>1 DEF StoreTypeOK
<1> QED
  BY <1>3, <1>5, <1>6, <1>8 DEF StoreInv

\* Every step of the storage keeps the invariant.
LEMMA StoreNextInv == StoreInv /\ [StoreNext]_storeVars => StoreInv'
<1> SUFFICES ASSUME StoreInv, [StoreNext]_storeVars PROVE StoreInv'
  OBVIOUS
<1> USE DEF StoreInv, StoreTypeOK
<1>1. ASSUME NEW c \in Calls, SetData(c) PROVE StoreInv'
  <2>1. answer' \in [Calls -> {"new", "waiting", "resolved", "rejected", "gone"}]
    BY <1>1 DEF SetData
  <2>2. CASE pc = "null"
    <3>1. <<c>> \in Seq(Calls) /\ <<c>> # <<>>
      OBVIOUS
    <3> QED
      BY <1>1, <2>1, <2>2, <3>1 DEF SetData
  <2>3. CASE pc # "null"
    <3>1. Append(pending, c) \in Seq(Calls)
      OBVIOUS
    <3> QED
      BY <1>1, <2>1, <2>3, <3>1 DEF SetData
  <2> QED
    BY <2>2, <2>3
<1>2. CASE Read
  BY <1>2 DEF Read
<1>3. CASE NothingToUpdate \/ PutFails
  <2>1. answer' \in [Calls -> {"new", "waiting", "resolved", "rejected", "gone"}]
    BY <1>3, SettleTypes DEF NothingToUpdate, PutFails
  <2> QED
    BY <1>3, <2>1 DEF NothingToUpdate, PutFails
<1>4. CASE Put
  BY <1>4, PutInv
<1>5. CASE ClearRead
  BY <1>5 DEF ClearRead
<1>6. CASE ClearRemove
  <2>1. Defaults \in Values
    BY DefaultsAreValues
  <2>2. [pc |-> "idle", rev |-> 0] \in [pc : {"idle", "removing"}, rev : 0..version]
    OBVIOUS
  <2>3. CASE document' = document
    BY <1>6, <2>2, <2>3 DEF ClearRemove
  <2>4. CASE document' = NoDoc
    BY <1>6, <2>1, <2>2, <2>4 DEF ClearRemove, NoDoc
  <2> QED
    BY <1>6, <2>3, <2>4 DEF ClearRemove
<1>7. CASE StoreRestart
  <2>1. answer' \in [Calls -> {"new", "waiting", "resolved", "rejected", "gone"}]
    BY <1>7, SettleTypes DEF StoreRestart
  <2>2. Defaults \in Values
    BY DefaultsAreValues
  <2>3. [pc |-> "idle", rev |-> 0] \in [pc : {"idle", "removing"}, rev : 0..version]
    OBVIOUS
  <2>4. <<>> \in Seq(Calls)
    OBVIOUS
  <2> QED
    BY <1>7, <2>1, <2>2, <2>3, <2>4 DEF StoreRestart, NoDoc
<1>8. CASE UNCHANGED storeVars
  BY <1>8 DEF storeVars
<1> QED
  BY <1>1, <1>2, <1>3, <1>4, <1>5, <1>6, <1>7, <1>8 DEF StoreNext, StoreStep

-----------------------------------------------------------------------------
\* Splitting what waits into the batch and what is pending.
LEMMA BatchFirst ==
    ASSUME NEW b \in Seq(Calls), NEW p \in Seq(Calls)
    PROVE  /\ Len(b \o p) = Len(b) + Len(p)
           /\ SubSeq(b \o p, 1, Len(b)) = b
           /\ SubSeq(b \o p, Len(b) + 1, Len(b \o p)) = p
OBVIOUS

\* Storing a document applies the batch.
LEMMA PutApplies == ASSUME StoreInv, Put PROVE Register!Apply
<1> DEFINE waiting == batch \o pending
<1>1. /\ read.value \in Values /\ batch \in Seq(Calls) /\ pending \in Seq(Calls)
      /\ read.value = document.value /\ batch # <<>>
      /\ answer \in [Calls -> {"new", "waiting", "resolved", "rejected", "gone"}]
  BY DEF StoreInv, StoreTypeOK, Put
<1>2. /\ document'.value = Merge(read.value, Squashed(batch))
      /\ batch' = pending /\ pending' = <<>>
  BY DEF Put
<1>3. /\ Len(waiting) = Len(batch) + Len(pending)
      /\ SubSeq(waiting, 1, Len(batch)) = batch
      /\ SubSeq(waiting, Len(batch) + 1, Len(waiting)) = pending
  BY <1>1, BatchFirst
<1>4. Len(batch) \in 1..Len(waiting)
  <2>1. Len(batch) \in Nat /\ Len(pending) \in Nat /\ Len(batch) # 0
    BY <1>1
  <2> QED
    BY <1>3, <2>1
<1>5. document'.value = Register!AssignAll(document.value, SubSeq(waiting, 1, Len(batch)))
  BY <1>1, <1>2, <1>3, MergeAssigns
<1>6. batch' \o pending' = pending
  BY <1>1, <1>2
<1>7. batch' \o pending' = SubSeq(waiting, Len(batch) + 1, Len(waiting))
  BY <1>3, <1>6
<1>8. answer' \in {answer, [c \in Calls |->
                     IF answer[c] = "waiting" /\ ~Contains(batch' \o pending', c)
                     THEN "resolved" ELSE answer[c]]}
  <2>1. CASE pending = <<>>
    <3>1. answer' = [c \in Calls |-> IF answer[c] = "waiting" THEN "resolved" ELSE answer[c]]
      BY <2>1 DEF Put, Settle
    <3>2. \A c : ~Contains(batch' \o pending', c)
      BY <1>6, <2>1 DEF Contains
    <3> QED
      BY <3>1, <3>2
  <2>2. CASE pending # <<>>
    BY <2>2 DEF Put
  <2> QED
    BY <2>1, <2>2
<1> HIDE DEF waiting
<1>9. \E n \in 1..Len(waiting) :
        /\ document'.value = Register!AssignAll(document.value, SubSeq(waiting, 1, n))
        /\ batch' \o pending' = SubSeq(waiting, n + 1, Len(waiting))
  BY <1>4, <1>5, <1>7
<1> QED
  BY <1>8, <1>9, SameOperators DEF Register!Apply, waiting

\* Every step of the storage is a step of the register, or none.
LEMMA StoreSimulates == StoreInv /\ [StoreNext]_storeVars => [Register!Next]_(Register!vars)
<1> SUFFICES ASSUME StoreInv, [StoreNext]_storeVars PROVE [Register!Next]_(Register!vars)
  OBVIOUS
<1>1. batch \in Seq(Calls) /\ pending \in Seq(Calls)
      /\ answer \in [Calls -> {"new", "waiting", "resolved", "rejected", "gone"}]
  BY DEF StoreInv, StoreTypeOK
<1>2. ASSUME NEW c \in Calls, SetData(c) PROVE Register!Submit(c)
  <2>1. batch' \o pending' = Append(batch \o pending, c)
    <3>1. CASE pc = "null"
      <4>1. batch = <<>> /\ pending = <<>> /\ batch' = <<c>> /\ pending' = <<>>
        BY <1>2, <3>1 DEF SetData, StoreInv, StoreTypeOK
      <4> QED
        BY <4>1
    <3>2. CASE pc # "null"
      <4>1. batch' = batch /\ pending' = Append(pending, c)
        BY <1>2, <3>2 DEF SetData
      <4> QED
        BY <1>1, <4>1
    <3> QED
      BY <3>1, <3>2
  <2>2. /\ answer[c] = "new" /\ document'.value = document.value
        /\ answer' \in {[answer EXCEPT ![c] = a] : a \in {"waiting", "rejected"}}
    BY <1>2 DEF SetData
  <2> QED
    BY <2>1, <2>2 DEF Register!Submit
<1>3. CASE Read \/ ClearRead
  <2>1. document' = document /\ batch' = batch /\ pending' = pending /\ answer' = answer
    BY <1>3 DEF Read, ClearRead
  <2> QED
    BY <2>1 DEF Register!vars
<1>4. CASE NothingToUpdate \/ PutFails
  <2>1. document' = document /\ batch' = batch /\ pending' = pending /\ Settle("rejected")
    BY <1>4 DEF NothingToUpdate, PutFails
  <2> QED
    BY <2>1 DEF Register!Reject, Register!Next, Settle
<1>5. CASE Put
  BY <1>5, PutApplies DEF Register!Next
<1>6. CASE ClearRemove
  <2>1. batch' = batch /\ pending' = pending /\ answer' = answer
        /\ (document' = document \/ document' = NoDoc)
    BY <1>6 DEF ClearRemove
  <2>2. CASE document' = document
    BY <2>1, <2>2 DEF Register!vars
  <2>3. CASE document' = NoDoc
    BY <2>1, <2>3 DEF Register!Clear, Register!Next, NoDoc
  <2> QED
    BY <2>1, <2>2, <2>3
<1>7. CASE StoreRestart
  <2>1. batch' \o pending' = <<>> /\ document' = document /\ Settle("gone")
    BY <1>7 DEF StoreRestart
  <2> QED
    BY <2>1 DEF Register!Lose, Register!Next, Settle
<1>8. CASE UNCHANGED storeVars
  BY <1>8 DEF storeVars, Register!vars
<1> QED
  BY <1>2, <1>3, <1>4, <1>5, <1>6, <1>7, <1>8 DEF StoreNext, StoreStep, Register!Next

\* Updates take effect in the order of the calls, none is lost or overwritten by a
\* stale copy, and a promise is resolved only after the data of its call is stored.
THEOREM StorageIsRegister == StoreSpec => ImplementsRegister
<1>1. StoreInit => Register!Init
  <2>1. <<>> \o <<>> = <<>>
    OBVIOUS
  <2> QED
    BY <2>1 DEF StoreInit, NoDoc, Register!Init
<1>2. StoreInv => StoreTypeOK
  BY DEF StoreInv
<1>3. StoreSpec => []StoreInv
  BY StoreInitInv, StoreNextInv, PTL DEF StoreSpec
<1>4. StoreSpec => Register!Spec
  BY <1>1, <1>3, StoreSimulates, PTL DEF StoreSpec, Register!Spec
<1> QED
  BY <1>2, <1>3, <1>4, PTL DEF ImplementsRegister
=============================================================================
