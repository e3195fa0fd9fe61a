-------------------------- MODULE OfflineAddresses --------------------------
(***************************************************************************)
(* The pool of receive addresses the mobile wallet keeps on the device so  *)
(* that it can show one without a connection: Wallet.getNewAddress,        *)
(* getNewOfflineAddress and refillOfflineAddresses of                      *)
(* blocktrail-wallet/src/js/modules/core/services/wallet/wallet.service.js *)
(*                                                                         *)
(* The pool is one PouchDB document.  put() is accepted only when the      *)
(* writer presents the revision that is stored; revision 0 stands for a    *)
(* document that does not exist (and for a put without a _rev).  Every     *)
(* promise callback is a step of its own, so calls interleave.             *)
(*                                                                         *)
(* An address is the derivation index the server issued it under.  The     *)
(* pool is a set: unique() removes duplicates from every list stored, and  *)
(* no property depends on which address shift() takes.                     *)
(*                                                                         *)
(* Any get() and put() of the database may fail for a reason of its own.   *)
(***************************************************************************)
EXTENDS Integers, FiniteSets

CONSTANTS
    Callers,    \* concurrent getNewAddress() calls: receive screen, promo, Glidera
    Amount,     \* _amountOfOfflineAddresses (30)
    RefillMax,  \* the max argument of refillOfflineAddresses (1 in wallet.ctrl.js)
    BatchCap,   \* at most this many addresses per refill (5)
    MaxIssued   \* bound of the model: addresses the server issues

ASSUME OfflineAssumption ==
    /\ Amount \in Nat
    /\ RefillMax \in Nat
    /\ BatchCap \in Nat
    /\ MaxIssued \in Nat

VARIABLES
    doc,          \* the stored addresses document
    issued,       \* the server has issued the addresses 1..issued
    isRefilling,  \* self.isRefilling
    refill,       \* the refill in flight: its step and its copy of the document
    caller,       \* the same for every getNewAddress() call
    handed,       \* observer: addresses given to a caller
    reused,       \* observer: addresses given to a caller a second time
    restored,     \* observer: addresses a refill stored after they were handed out
    misread,      \* observer: a refill has taken a failed read for an empty pool
    spoiled       \* observer: what came between the refill and its last put

vars == <<doc, issued, isRefilling, refill, caller,
          handed, reused, restored, misread, spoiled>>
observers == <<handed, reused, restored, misread, spoiled>>

Docs == [rev : Nat, available : SUBSET (Nat \ {0})]
RefillStates ==
    [pc : {"idle", "reading", "fetching", "rereading", "putting"},
     rev : Nat, available : SUBSET (Nat \ {0}), missing : Nat]
CallerStates ==
    [pc : {"idle", "reading", "putting", "online"},
     rev : Nat, available : SUBSET (Nat \ {0}), address : Nat]

IdleRefill == [pc |-> "idle", rev |-> 0, available |-> {}, missing |-> 0]
IdleCaller == [pc |-> "idle", rev |-> 0, available |-> {}, address |-> 0]

Init ==
    /\ doc = [rev |-> 0, available |-> {}]
    /\ issued = 0
    /\ isRefilling = FALSE
    /\ refill = IdleRefill
    /\ caller = [c \in Callers |-> IdleCaller]
    /\ handed = {} /\ reused = {} /\ restored = {}
    /\ misread = FALSE /\ spoiled = {}

-----------------------------------------------------------------------------
\* Mutated form: a store without revision checks.
AcceptedUnchecked(rev) == TRUE
\* PouchDB: put() with a stale revision is refused with a 409.
Accepted(rev) == rev = doc.rev

\* The server issues n addresses.  (MaxIssued is a bound of the model.)
Issue(n) == issued + n <= MaxIssued /\ issued' = issued + n

\* Mutated form: the caller is given the address after the one it was issued.
DeliverNext(a) ==
    /\ handed' = handed \cup {a + 1}
    /\ reused' = IF a + 1 \in handed THEN reused \cup {a + 1} ELSE reused
\* The promise returned to a caller resolves with address a.
Deliver(a) ==
    /\ handed' = handed \cup {a}
    /\ reused' = IF a \in handed THEN reused \cup {a} ELSE reused

-----------------------------------------------------------------------------
(***************************************************************************)
(* refillOfflineAddresses(max)                                             *)
(***************************************************************************)
\* Mutated form: a refill that does not look at how many addresses there are.
CappedRefillBlind(n) == IF RefillMax < BatchCap THEN RefillMax ELSE BatchCap
\* Math.min(refill, max, 5)
CappedRefill(n) ==
    LET least(a, b) == IF a < b THEN a ELSE b
    IN  least(Amount - n, least(RefillMax, BatchCap))

\* A call while isRefilling is set only returns the promise of the earlier one.
RefillStart ==
    /\ ~isRefilling
    /\ isRefilling' = TRUE
    /\ refill' = [IdleRefill EXCEPT !.pc = "reading"]
    /\ spoiled' = {}
    /\ UNCHANGED <<doc, issued, caller, handed, reused, restored, misread>>

\* The first read gave the addresses in available: ask for what is missing.
RefillFrom(available) ==
    LET missing == CappedRefill(Cardinality(available))
    IN  IF missing > 0
        THEN /\ refill' = [pc |-> "fetching", rev |-> 0,
                           available |-> available, missing |-> missing]
             /\ UNCHANGED isRefilling
        ELSE /\ refill' = IdleRefill
             /\ isRefilling' = FALSE

RefillRead ==
    /\ refill.pc = "reading"
    /\ RefillFrom(doc.available)
    /\ UNCHANGED <<doc, issued, caller, observers>>

\* Any failure of get() is taken for a document that does not exist.
RefillReadFails ==
    /\ refill.pc = "reading"
    /\ RefillFrom({})
    /\ misread' = TRUE
    /\ UNCHANGED <<doc, issued, caller, handed, reused, restored, spoiled>>

\* One of the sdk's getNewAddress() calls answers; the last one lets Q.all resolve.
RefillFetch ==
    /\ refill.pc = "fetching"
    /\ Issue(1)
    /\ refill' = [pc |-> IF refill.missing = 1 THEN "rereading" ELSE "fetching",
                  rev |-> refill.rev,
                  available |-> refill.available \cup {issued'},
                  missing |-> refill.missing - 1]
    /\ UNCHANGED <<doc, isRefilling, caller, observers>>

\* Mutated form: the outer catch does not clear the flag.
RefillFetchFailsBusy ==
    /\ refill.pc = "fetching"
    /\ \E n \in 0 .. refill.missing : Issue(n)
    /\ refill' = IdleRefill
    /\ UNCHANGED <<doc, isRefilling, caller, observers>>
\* One of them fails: Q.all rejects and the outer catch clears the flag.  The
\* calls still out may have reached the server; what they return is dropped.
RefillFetchFails ==
    /\ refill.pc = "fetching"
    /\ \E n \in 0 .. refill.missing : Issue(n)
    /\ refill' = IdleRefill
    /\ isRefilling' = FALSE
    /\ UNCHANGED <<doc, caller, observers>>

\* "fetch doc again, might have been modified!", then concat(...).unique()
RefillReread ==
    /\ refill.pc = "rereading"
    /\ refill' = [pc |-> "putting", rev |-> doc.rev, missing |-> 0,
                  available |-> doc.available \cup refill.available]
    /\ UNCHANGED <<doc, issued, isRefilling, caller, observers>>

\* A failing second get() is taken for a missing document as well: what is put
\* has no _rev, which a document that does exist refuses.
RefillRereadFails ==
    /\ refill.pc = "rereading"
    /\ refill' = [refill EXCEPT !.pc = "putting", !.rev = 0]
    /\ spoiled' = spoiled \cup {"read"}
    /\ UNCHANGED <<doc, issued, isRefilling, caller, handed, reused, restored, misread>>

RefillPut ==
    /\ refill.pc = "putting"
    /\ Accepted(refill.rev)
    /\ doc' = [rev |-> doc.rev + 1, available |-> refill.available]
    /\ restored' = restored \cup (refill.available \cap handed)
    /\ isRefilling' = FALSE
    /\ refill' = IdleRefill
    /\ UNCHANGED <<issued, caller, handed, reused, misread, spoiled>>

\* The chain that stores the document is not returned to the outer promise:
\* the conflict is rethrown to nobody and isRefilling stays set.
RefillPutConflict ==
    /\ refill.pc = "putting"
    /\ ~Accepted(refill.rev)
    /\ refill' = IdleRefill
    /\ UNCHANGED <<doc, issued, isRefilling, caller, observers>>

\* So is every other failure of the put.
RefillPutFails ==
    /\ refill.pc = "putting"
    /\ refill' = IdleRefill
    /\ spoiled' = spoiled \cup {"write"}
    /\ UNCHANGED <<doc, issued, isRefilling, caller, handed, reused, restored, misread>>

-----------------------------------------------------------------------------
(***************************************************************************)
(* getNewAddress(): getNewOfflineAddress(), and the sdk when that fails    *)
(***************************************************************************)
TakeStart(c) ==
    /\ caller[c].pc = "idle"
    /\ caller' = [caller EXCEPT ![c].pc = "reading"]
    /\ UNCHANGED <<doc, issued, isRefilling, refill, observers>>

TakeRead(c) ==
    /\ caller[c].pc = "reading"
    /\ \E a \in doc.available :
         caller' = [caller EXCEPT ![c] =
                      [pc |-> "putting", rev |-> doc.rev,
                       available |-> doc.available \ {a}, address |-> a]]
    /\ UNCHANGED <<doc, issued, isRefilling, refill, observers>>

\* No document yet, no address left in it, or a get() that fails (and then
\* doc.available does not matter): every rejection sends the caller online.
TakeNothing(c) ==
    /\ caller[c].pc = "reading"
    /\ caller' = [caller EXCEPT ![c].pc = "online"]
    /\ UNCHANGED <<doc, issued, isRefilling, refill, observers>>

\* The callback that passes the address on touches nothing two calls share, so
\* it is part of the step that stores what is left.
TakePut(c) ==
    /\ caller[c].pc = "putting"
    /\ Accepted(caller[c].rev)
    /\ doc' = [rev |-> doc.rev + 1, available |-> caller[c].available]
    /\ Deliver(caller[c].address)
    /\ caller' = [caller EXCEPT ![c] = IdleCaller]
    /\ spoiled' = IF refill.pc = "putting" THEN spoiled \cup {"take"} ELSE spoiled
    /\ UNCHANGED <<issued, isRefilling, refill, restored, misread>>

\* A conflict, or any other failure of the put.
TakePutFails(c) ==
    /\ caller[c].pc = "putting"
    /\ caller' = [caller EXCEPT ![c] = [IdleCaller EXCEPT !.pc = "online"]]
    /\ UNCHANGED <<doc, issued, isRefilling, refill, observers>>

TakeOnline(c) ==
    /\ caller[c].pc = "online"
    /\ Issue(1)
    /\ Deliver(issued')
    /\ caller' = [caller EXCEPT ![c] = IdleCaller]
    /\ UNCHANGED <<doc, isRefilling, refill, restored, misread, spoiled>>

\* The request fails; it may have reached the server.
TakeOnlineFails(c) ==
    /\ caller[c].pc = "online"
    /\ \E n \in {0, 1} : Issue(n)
    /\ caller' = [caller EXCEPT ![c] = IdleCaller]
    /\ UNCHANGED <<doc, isRefilling, refill, observers>>

-----------------------------------------------------------------------------
\* The app is killed and started again: only the database survives.
Restart ==
    /\ isRefilling' = FALSE
    /\ refill' = IdleRefill
    /\ caller' = [c \in Callers |-> IdleCaller]
    /\ spoiled' = {}
    /\ UNCHANGED <<doc, issued, handed, reused, restored, misread>>

RefillStep ==
    \/ RefillRead \/ RefillReadFails \/ RefillFetch \/ RefillFetchFails
    \/ RefillReread \/ RefillRereadFails
    \/ RefillPut \/ RefillPutConflict \/ RefillPutFails

TakeStep(c) ==
    \/ TakeRead(c) \/ TakeNothing(c) \/ TakePut(c) \/ TakePutFails(c)
    \/ TakeOnline(c) \/ TakeOnlineFails(c)

Next ==
    \/ RefillStart
    \/ RefillStep
    \/ \E c \in Callers : TakeStart(c) \/ TakeStep(c)
    \/ Restart

Spec == Init /\ [][Next]_vars

-----------------------------------------------------------------------------
(***************************************************************************)
(* Properties                                                              *)
(***************************************************************************)
\* Every variable has its type, and no address is in play that the server did
\* not issue: a handed out or stored address is always derivable.
TypeOK ==
    /\ doc \in Docs
    /\ issued \in Nat
    /\ isRefilling \in BOOLEAN
    /\ refill \in RefillStates
    /\ caller \in [Callers -> CallerStates]
    /\ {handed, reused, restored} \subseteq SUBSET (1 .. issued)
    /\ doc.available \cup refill.available \subseteq 1 .. issued
    /\ misread \in BOOLEAN
    /\ spoiled \subseteq {"take", "read", "write"}

\* The pool never outgrows _amountOfOfflineAddresses, although a refill
\* computes its size from one read of the document, and stores the union with
\* a second read made after any number of takes.  The one way past it is a first
\* read that fails: the refill takes the pool for empty, asks for more, and adds
\* that to what the second read brings.
AvailableBounded == misread \/ Cardinality(doc.available) <= Amount

\* Two callers get the same address only when a refill has put it back: the
\* revision check keeps concurrent getNewOfflineAddress calls apart, and a
\* conflict falls back to a fresh address of the server.
ReuseOnlyByRefill == reused \subseteq restored

\* No step loses an address of the pool: what leaves the stored document has
\* been handed to a caller.  A put based on an older read would drop the
\* addresses a refill stored in between.
NoAddressLost == [][doc.available \ doc'.available \subseteq handed']_vars

\* isRefilling outlives its refill, and with it no refill starts again before a
\* restart, only when the put of that refill was spoiled: an address was taken
\* between its second read and its put, that read failed, or the put did.  A
\* failing first read or request, a refill with nothing to fetch, and takes at
\* any other time never leave it set.
StuckOnlyBySpoiledPut == isRefilling /\ refill.pc = "idle" => spoiled # {}

\* An address is handed out once.  This is what fetching the document again
\* before storing it is for; the list it is merged with is the stale one.
HandedOutOnce == reused = {}
=============================================================================
