---------------------------- MODULE LocalStorage ----------------------------
(***************************************************************************)
(* LocalStorage.setData, getData and clearData (blocktrail-wallet/src/js/  *)
(* modules/core/services/local-storage/local-storage.service.js) with the  *)
(* helpers of helper.service.js: a PouchDB document updated by reading it, *)
(* assigning fields and putting it back under its revision.  Calls made    *)
(* while an update is under way are collected and written together.        *)
(*                                                                         *)
(* Data[c] holds the fields of call c that the schema knows; a call of     *)
(* which the schema knows no field has an empty one.                       *)
(***************************************************************************)
EXTENDS Integers, SequencesExt

CONSTANTS
    Calls, Fields, Data, Defaults,
    StoreFails   \* may put() fail for another reason than a conflict?

ASSUME LocalStorageAssumption ==
    /\ StoreFails \in BOOLEAN
    /\ \A c \in Calls : DOMAIN Data[c] \subseteq Fields
    /\ Defaults = [f \in Fields |-> Defaults[f]]

VARIABLES
    document, \* the stored document; revision 0 when there is none
    version,  \* revisions PouchDB has given out
    pc,       \* null, or the step of the update _pendingPromise stands for
    read,     \* the document the update has read
    batch,    \* calls whose data the update writes
    pending,  \* _pending: calls to be written next
    answer,   \* what became of the promise of each call
    clearer   \* step of clearData() and the revision it has read

storeVars == <<document, version, pc, read, batch, pending, answer, clearer>>

NoDoc == [rev |-> 0, value |-> Defaults]

StoreInit ==
    /\ document = NoDoc /\ version = 0
    /\ pc = "null"
    /\ read = NoDoc
    /\ batch = <<>> /\ pending = <<>>
    /\ answer = [c \in Calls |-> "new"]
    /\ clearer = [pc |-> "idle", rev |-> 0]

-----------------------------------------------------------------------------
\* lodash assign(a, b): the fields of b win.
Merge(a, b) ==
    [f \in DOMAIN a \cup DOMAIN b |-> IF f \in DOMAIN b THEN b[f] ELSE a[f]]

\* getSquashedPendingData
Squashed(cs) == FoldLeft(LAMBDA acc, c : Merge(acc, Data[c]), <<>>, cs)

\* Promises of all calls that wait are links of one chain: they settle together.
Settle(how) ==
    answer' = [c \in Calls |-> IF answer[c] = "waiting" THEN how ELSE answer[c]]

-----------------------------------------------------------------------------
\* setData: start an update, or leave the data to the one under way.  After an
\* update that failed _pendingPromise is still set, and it is rejected.
SetData(c) ==
    /\ answer[c] = "new"
    /\ answer' = [answer EXCEPT ![c] = IF pc = "stuck" THEN "rejected" ELSE "waiting"]
    /\ IF pc = "null"
       THEN pc' = "reading" /\ batch' = <<c>> /\ UNCHANGED pending
       ELSE pending' = Append(pending, c) /\ UNCHANGED <<pc, batch>>
    /\ UNCHANGED <<document, version, read, clearer>>

\* getData of setData: the document, or the defaults when there is none.
Read ==
    /\ pc = "reading"
    /\ Squashed(batch) # <<>>
    /\ pc' = "putting"
    /\ read' = document
    /\ UNCHANGED <<document, version, batch, pending, answer, clearer>>

\* prepareObjectAccordingToSchema throws: nothing of the data is in the schema.
NothingToUpdate ==
    /\ pc = "reading"
    /\ Squashed(batch) = <<>>
    /\ pc' = "stuck"
    /\ Settle("rejected")
    /\ UNCHANGED <<document, version, read, batch, pending, clearer>>

\* Mutated form: put() does not look at the revision.
PutUnchecked ==
    /\ pc = "putting"
    /\ version' = version + 1
    /\ document' = [rev |-> version', value |-> Merge(read.value, Squashed(batch))]
    /\ batch' = pending
    /\ pending' = <<>>
    /\ IF pending = <<>>
       THEN pc' = "null" /\ Settle("resolved")
       ELSE pc' = "reading" /\ UNCHANGED answer
    /\ UNCHANGED <<read, clearer>>
\* The document is stored; data that came in between is written in turn.
Put ==
    /\ pc = "putting"
    /\ read.rev = document.rev
    /\ version' = version + 1
    /\ document' = [rev |-> version', value |-> Merge(read.value, Squashed(batch))]
    /\ batch' = pending
    /\ pending' = <<>>
    /\ IF pending = <<>>
       THEN pc' = "null" /\ Settle("resolved")
       ELSE pc' = "reading" /\ UNCHANGED answer
    /\ UNCHANGED <<read, clearer>>

\* Mutated form: a failed update nobody is told of.
PutFailsSilently ==
    /\ pc = "putting"
    /\ read.rev # document.rev \/ StoreFails
    /\ pc' = "stuck"
    /\ UNCHANGED <<document, version, read, batch, pending, answer, clearer>>
\* A conflict or another failure: _pendingPromise is never unset.
PutFails ==
    /\ pc = "putting"
    /\ read.rev # document.rev \/ StoreFails
    /\ pc' = "stuck"
    /\ Settle("rejected")
    /\ UNCHANGED <<document, version, read, batch, pending, clearer>>

-----------------------------------------------------------------------------
ClearRead ==
    /\ clearer.pc = "idle"
    /\ document.rev # 0
    /\ clearer' = [pc |-> "removing", rev |-> document.rev]
    /\ UNCHANGED <<document, version, pc, read, batch, pending, answer>>

\* remove(doc), or a conflict when the document has changed.
ClearRemove ==
    /\ clearer.pc = "removing"
    /\ IF clearer.rev = document.rev
       THEN document' = NoDoc
       ELSE UNCHANGED document
    /\ clearer' = [pc |-> "idle", rev |-> 0]
    /\ UNCHANGED <<version, pc, read, batch, pending, answer>>

StoreRestart ==
    /\ pc' = "null" /\ read' = NoDoc
    /\ batch' = <<>> /\ pending' = <<>>
    /\ Settle("gone")
    /\ clearer' = [pc |-> "idle", rev |-> 0]
    /\ UNCHANGED <<document, version>>

StoreStep == Read \/ NothingToUpdate \/ Put \/ PutFails

StoreNext ==
    \/ \E c \in Calls : SetData(c)
    \/ StoreStep
    \/ ClearRead \/ ClearRemove
    \/ StoreRestart

StoreSpec == StoreInit /\ [][StoreNext]_storeVars

\* PouchDB answers.
FairStoreSpec == StoreSpec /\ WF_storeVars(StoreStep)

-----------------------------------------------------------------------------
(***************************************************************************)
(* Properties                                                              *)
(***************************************************************************)
Given == UNION {{Data[c][f] : f \in DOMAIN Data[c]} : c \in Calls}
Contents == Given \cup {Defaults[f] : f \in Fields}
Values == [Fields -> Contents]

\* Types; and without an update under way no data is left to be written.
StoreTypeOK ==
    /\ version \in Nat
    /\ document.rev \in 0 .. version /\ document.value \in Values
    /\ pc \in {"null", "reading", "putting", "stuck"}
    /\ read.rev \in 0 .. version /\ read.value \in Values
    /\ batch \in Seq(Calls) /\ pending \in Seq(Calls)
    /\ answer \in [Calls -> {"new", "waiting", "resolved", "rejected", "gone"}]
    /\ clearer \in [pc : {"idle", "removing"}, rev : 0 .. version]
    /\ pc = "null" => batch = <<>> /\ pending = <<>>

\* What setData() promises, with the calls in the batch and in _pending as the
\* ones that wait.
Register == INSTANCE UpdateRegister WITH value <- document.value, waiting <- batch \o pending

\* Reading, squashing and putting under the revision implements an update
\* register: updates take effect in the order of the calls, none is lost or
\* overwritten by a stale copy, also when clearData() comes in between, and a
\* promise is resolved only after the data of its own call is stored.  Data never
\* waits for an update that is not under way (StoreTypeOK).
ImplementsRegister == Register!Spec /\ []StoreTypeOK

\* Every promise of setData() settles, unless the app is closed.
PromisesSettle == \A c \in Calls : answer[c] = "waiting" ~> answer[c] # "waiting"
=============================================================================
