--------------------------- MODULE UpdateRegister ---------------------------
(***************************************************************************)
(* What a LocalStorage promises its users: one value, to which the updates *)
(* are applied in the order of the setData() calls, and a promise that is  *)
(* resolved only when the update of its call has been applied.             *)
(***************************************************************************)
EXTENDS SequencesExt

CONSTANTS
    Calls,      \* calls of setData(), each made at most once
    Fields,     \* keys of the schema
    Data,       \* Data[c]: the fields call c sets, a function on some Fields
    Defaults    \* the value when nothing is stored

VARIABLES
    value,    \* what getData() returns
    waiting,  \* calls whose update is not applied yet, oldest first
    answer    \* what became of the promise of each call

vars == <<value, waiting, answer>>

\* The value once the calls of cs have set their fields: a field has what the last of
\* those gave it that set it.
Setters(cs, f) == {i \in DOMAIN cs : f \in DOMAIN Data[cs[i]]}
AssignAll(v, cs) ==
    [f \in Fields |-> IF Setters(cs, f) = {} THEN v[f] ELSE Data[cs[Max(Setters(cs, f))]][f]]

Init ==
    /\ value = Defaults
    /\ waiting = <<>>
    /\ answer = [c \in Calls |-> "new"]

Submit(c) ==
    /\ answer[c] = "new"
    /\ waiting' = Append(waiting, c)
    /\ answer' \in {[answer EXCEPT ![c] = a] : a \in {"waiting", "rejected"}}
    /\ UNCHANGED value

\* The oldest updates are applied; calls that are through may be answered.
Apply ==
    /\ \E n \in 1 .. Len(waiting) :
         /\ value' = AssignAll(value, SubSeq(waiting, 1, n))
         /\ waiting' = SubSeq(waiting, n + 1, Len(waiting))
    /\ answer' \in {answer, [c \in Calls |->
                       IF answer[c] = "waiting" /\ ~Contains(waiting', c)
                       THEN "resolved" ELSE answer[c]]}

Reject ==
    /\ answer' = [c \in Calls |-> IF answer[c] = "waiting" THEN "rejected" ELSE answer[c]]
    /\ UNCHANGED <<value, waiting>>

Clear ==
    /\ value' = Defaults
    /\ UNCHANGED <<waiting, answer>>

\* The app goes away, and the promises with it.
Lose ==
    /\ waiting' = <<>>
    /\ answer' = [c \in Calls |-> IF answer[c] = "waiting" THEN "gone" ELSE answer[c]]
    /\ UNCHANGED value

Next == (\E c \in Calls : Submit(c)) \/ Apply \/ Reject \/ Clear \/ Lose

Spec == Init /\ [][Next]_vars
=============================================================================
