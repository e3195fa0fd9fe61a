------------------------------ MODULE Payment ------------------------------
(***************************************************************************)
(* Wallet.prototype.pay of the sdk (blocktrail-sdk-nodejs/lib/wallet.js):  *)
(* the outputs are checked, the API selects coins and names the fee and    *)
(* the change, the transaction is built and signed, and the API cosigns    *)
(* and broadcasts it.  Whatever the API answers to the coin selection is   *)
(* possible, since the code sets out to verify it.                         *)
(*                                                                         *)
(* buildTransaction runs its steps with async.waterfall, each in a         *)
(* callback of its own: an exception there reaches no promise, and the     *)
(* call hangs.  The position of the change output, which is random, and    *)
(* the signatures are left out.  locked stands for the key as well: what   *)
(* an unlocked wallet holds is the subject of WalletKeys.                  *)
(***************************************************************************)
EXTENDS SizeEstimation, FiniteSets

CONSTANTS
    Calls,
    Pays,             \* arguments of pay: sequences of outputs
    Answers,          \* answers of the API to a coin selection
    feeSanityCheck,   \* option of the API client
    useNewCashAddr,   \* cash addresses are in use
    DUST, BASE_FEE

OutputsTotal(pay) == Total([i \in DOMAIN pay |-> pay[i].value])
InputsTotal(utxos) == Total([i \in DOMAIN utxos |-> utxos[i].value])

\* An output the caller asks for, by what convertPayToOutputs makes of it, and a coin
\* the API selects: the output it names, whether it is to be signed with the wallet's
\* key, and whether that can be done with the path, the redeem script and the value that
\* come with it.
Outputs == [type : {"address", "data", "invalid"}, value : Int, length : Nat]
Coins == [outpoint : Nat, script : Scripts, form : Forms, value : Int, sign : BOOLEAN,
          signable : BOOLEAN]
NamedTwice(utxos) ==
    \E i, j \in DOMAIN utxos : i # j /\ utxos[i].outpoint = utxos[j].outpoint
Unsignable(utxos) == \E i \in DOMAIN utxos : utxos[i].sign /\ ~utxos[i].signable

\* Amounts are whole numbers of Satoshis that a double holds, of either sign as far as
\* the API goes.
ASSUME PaymentAssumption ==
    /\ DUST \in Nat /\ BASE_FEE \in Nat
    /\ feeSanityCheck \in BOOLEAN /\ useNewCashAddr \in BOOLEAN
    /\ Pays \subseteq Seq(Outputs)
    /\ Answers \subseteq [utxos : Seq(Coins), fee : Int, change : Int]

VARIABLES
    locked,
    bypassNewAddressCheck,
    call

vars == <<locked, bypassNewAddressCheck, call>>

Strategies == {"base_fee", "optimal", "min_relay_fee"}
\* Where the change goes: nowhere yet, an address the caller gave (or one that
\* does not decode), one of the wallet's own, one that is not the wallet's.
Destinations == {"none", "given", "undecodable", "own", "foreign"}

Ended == {"resolved", "rejected"}
Building == {"build", "select", "prepare", "change", "address", "sign", "check"}
Handed == {"send", "accepted", "resolved"}

NoAnswer == [utxos |-> <<>>, fee |-> 0, change |-> 0]
Idle == [pc |-> "idle", pay |-> <<>>, feeStrategy |-> "optimal", changeAddress |-> "none",
         answer |-> NoAnswer, change |-> 0, raced |-> FALSE, bypassed |-> FALSE]
CallStates ==
    [pc : {"idle", "hung"} \cup Ended \cup Building \cup Handed,
     pay : Pays \cup {<<>>}, feeStrategy : Strategies, changeAddress : Destinations,
     answer : Answers \cup {NoAnswer}, change : Int,
     raced : BOOLEAN,       \* observer: lock() came before the transaction was signed
     bypassed : BOOLEAN]    \* observer: the address check was off when pay was called

Init ==
    /\ locked = TRUE
    /\ bypassNewAddressCheck \in BOOLEAN
    /\ call = [c \in Calls |-> Idle]

-----------------------------------------------------------------------------
Goto(c, pc) == call' = [call EXCEPT ![c].pc = pc]
Reject(c) == Goto(c, "rejected")
Hang(c) == Goto(c, "hung")

\* convertPayToOutputs takes an output: its address decodes, its value is a
\* whole number, and unless it carries data more than dust.
Sendable(output) ==
    /\ output.type # "invalid"
    /\ output.type = "data" \/ output.value > DUST

\* The lengths of the output scripts of the transaction.
OutputScripts(k) ==
    [i \in DOMAIN k.pay |-> k.pay[i].length] \o (IF k.change > 0 THEN <<23>> ELSE <<>>)

estimateVsizeFee(k) ==
    Ceil(estimateTxVsize(k.answer.utxos, OutputScripts(k)), 1000) * BASE_FEE

-----------------------------------------------------------------------------
Pay(c, pay, strategy, to) ==
    /\ call[c].pc \in {"idle", "hung"} \cup Ended
    /\ call' = [call EXCEPT ![c] =
                  [Idle EXCEPT !.pc = IF locked THEN "rejected" ELSE "build",
                               !.pay = pay, !.feeStrategy = strategy, !.changeAddress = to,
                               !.bypassed = bypassNewAddressCheck]]
    /\ UNCHANGED <<locked, bypassNewAddressCheck>>

\* Mutated form: the error is thrown inside nextTick.
BuildThrows(c) ==
    /\ call[c].pc = "build"
    /\ IF call[c].pay # <<>> /\ \A i \in DOMAIN call[c].pay : Sendable(call[c].pay[i])
       THEN Goto(c, "select") ELSE Hang(c)
    /\ UNCHANGED <<locked, bypassNewAddressCheck>>
\* Conversion of the outputs; the coin selection is requested.
Build(c) ==
    /\ call[c].pc = "build"
    /\ IF call[c].pay # <<>> /\ \A i \in DOMAIN call[c].pay : Sendable(call[c].pay[i])
       THEN Goto(c, "select") ELSE Reject(c)
    /\ UNCHANGED <<locked, bypassNewAddressCheck>>

Selected(c, answer) ==
    /\ call[c].pc = "select"
    /\ call' = [call EXCEPT ![c].pc = "prepare", ![c].answer = answer,
                            ![c].change = answer.change]
    /\ UNCHANGED <<locked, bypassNewAddressCheck>>

\* Mutated form: the change the API names is taken as it is.
PrepareTrusting(c) ==
    /\ call[c].pc = "prepare"
    /\ IF call[c].answer.utxos = <<>> \/ NamedTwice(call[c].answer.utxos)
       THEN Hang(c) ELSE Goto(c, "change")
    /\ UNCHANGED <<locked, bypassNewAddressCheck>>
\* The change must be what is left, if that is more than twice the dust.
\* reduce() throws when no coins have been selected, and the transaction builder when
\* an input is added twice.
Prepare(c) ==
    /\ call[c].pc = "prepare"
    /\ LET a == call[c].answer
           estimatedChange == InputsTotal(a.utxos) - OutputsTotal(call[c].pay) - a.fee
       IN  CASE a.utxos = <<>> -> Hang(c)
             [] a.utxos # <<>> /\ estimatedChange > DUST * 2 /\ estimatedChange # a.change
                  -> Reject(c)
             [] OTHER -> IF NamedTwice(a.utxos) THEN Hang(c) ELSE Goto(c, "change")
    /\ UNCHANGED <<locked, bypassNewAddressCheck>>

\* Mutated form: change that is exactly dust is kept.
ChangeKeepsDust(c) ==
    /\ call[c].pc = "change"
    /\ LET change == call[c].change
       IN  CASE change > 0 /\ change < DUST -> call' = [call EXCEPT ![c].pc = "sign", ![c].change = 0]
             [] change >= DUST /\ call[c].changeAddress = "none" -> Goto(c, "address")
             [] OTHER -> Goto(c, "sign")
    /\ UNCHANGED <<locked, bypassNewAddressCheck>>
\* Mutated form: the next step does not wait for the address.
ChangeUnawaited(c) ==
    /\ call[c].pc = "change"
    /\ IF call[c].change > 0 /\ call[c].change <= DUST
       THEN call' = [call EXCEPT ![c].pc = "sign", ![c].change = 0]
       ELSE Goto(c, "sign")
    /\ UNCHANGED <<locked, bypassNewAddressCheck>>
\* No output for dust; otherwise a change address is asked for, unless given.
Change(c) ==
    /\ call[c].pc = "change"
    /\ LET change == call[c].change
       IN  CASE change > 0 /\ change <= DUST -> call' = [call EXCEPT ![c].pc = "sign", ![c].change = 0]
             [] change > 0 /\ change > DUST /\ call[c].changeAddress = "none" -> Goto(c, "address")
             [] OTHER -> Goto(c, "sign")
    /\ UNCHANGED <<locked, bypassNewAddressCheck>>

\* Mutated form: the address of the API is never derived again.
NewAddressUnverified(c, to, base58) ==
    /\ call[c].pc = "address"
    /\ call' = [call EXCEPT ![c].pc = "sign", ![c].changeAddress = to]
    /\ UNCHANGED <<locked, bypassNewAddressCheck>>
\* getNewAddress: the API answers with an address, which the wallet derives again
\* unless it is told not to.  An old style address where cash addresses are in
\* use switches the check on for good.
NewAddress(c, to, base58) ==
    /\ call[c].pc = "address"
    /\ bypassNewAddressCheck' = (bypassNewAddressCheck /\ ~(useNewCashAddr /\ base58))
    /\ IF bypassNewAddressCheck' \/ to = "own"
       THEN call' = [call EXCEPT ![c].pc = "sign", ![c].changeAddress = to]
       ELSE Reject(c)
    /\ UNCHANGED locked

\* The change output is added and the inputs are signed with the key the wallet
\* holds by now.  An undecodable address, a missing key and a coin that does not let
\* itself be signed with it throw.
Sign(c) ==
    /\ call[c].pc = "sign"
    /\ LET k == call[c]
       IN  IF \/ k.change > 0 /\ k.changeAddress = "undecodable"
              \/ locked /\ \E i \in DOMAIN k.answer.utxos : k.answer.utxos[i].sign
              \/ Unsignable(k.answer.utxos)
           THEN Hang(c) ELSE Goto(c, "check")
    /\ UNCHANGED <<locked, bypassNewAddressCheck>>

\* The fee is compared with an estimate, which throws for unknown scripts.  For
\* strategies other than base_fee the factor is read off the wallet, which has
\* none: a comparison with NaN fails for no fee.
CheckFee(c) ==
    /\ call[c].pc = "check"
    /\ LET k == call[c]
           difference == estimateVsizeFee(k) - k.answer.fee
       IN  CASE \E i \in DOMAIN k.answer.utxos : ~Supported(k.answer.utxos[i]) -> Hang(c)
             [] OTHER -> IF /\ feeSanityCheck /\ k.feeStrategy = "base_fee"
                            /\ (difference > BASE_FEE \/ -difference > BASE_FEE)
                         THEN Reject(c) ELSE Goto(c, "send")
    /\ UNCHANGED <<locked, bypassNewAddressCheck>>

\* The API cosigns and broadcasts; it answers that the transaction is complete.
Accept(c) ==
    /\ call[c].pc = "send"
    /\ Goto(c, "accepted")
    /\ UNCHANGED <<locked, bypassNewAddressCheck>>

Sent(c) ==
    /\ call[c].pc = "accepted"
    /\ Goto(c, "resolved")
    /\ UNCHANGED <<locked, bypassNewAddressCheck>>

\* A request fails, the API refuses, wants another token or answers that the
\* transaction is not complete, or its answer is lost.
RequestFails(c) ==
    /\ call[c].pc \in {"select", "address", "send", "accepted"}
    /\ Reject(c)
    /\ UNCHANGED <<locked, bypassNewAddressCheck>>

-----------------------------------------------------------------------------
\* lock() at any time: the apps call it whenever a payment has ended.
Lock ==
    /\ locked' = TRUE
    /\ call' = [c \in Calls |-> [call[c] EXCEPT !.raced = @ \/ call[c].pc \in Building]]
    /\ UNCHANGED bypassNewAddressCheck

Unlock ==
    /\ locked' = FALSE
    /\ UNCHANGED <<bypassNewAddressCheck, call>>

Step(c) ==
    \/ Build(c)
    \/ \E a \in Answers : Selected(c, a)
    \/ Prepare(c) \/ Change(c)
    \/ \E to \in {"own", "foreign"}, base58 \in BOOLEAN : NewAddress(c, to, base58)
    \/ Sign(c) \/ CheckFee(c) \/ Accept(c) \/ Sent(c) \/ RequestFails(c)

Next ==
    \/ \E c \in Calls, pay \in Pays, strategy \in Strategies,
          to \in {"none", "given", "undecodable"} : Pay(c, pay, strategy, to)
    \/ \E c \in Calls : Step(c)
    \/ Lock \/ Unlock

\* Callbacks run, and requests are answered or fail.
Fairness == \A c \in Calls : WF_vars(Step(c))

Spec == Init /\ [][Next]_vars /\ Fairness

-----------------------------------------------------------------------------
(***************************************************************************)
(* Properties                                                              *)
(***************************************************************************)
\* Types; a transaction with change says where the change goes.
TypeOK ==
    /\ locked \in BOOLEAN /\ bypassNewAddressCheck \in BOOLEAN
    /\ call \in [Calls -> CallStates]
    /\ \A c \in Calls : call[c].pc \in {"sign", "check"} \cup Handed /\ call[c].change > 0
                          => call[c].changeAddress # "none"

\* The fee a transaction really pays: what goes in and does not come out.
PaidFee(k) ==
    InputsTotal(k.answer.utxos) - OutputsTotal(k.pay) - (IF k.change > 0 THEN k.change ELSE 0)

\* Whatever coins, fee and change the API names, a transaction handed to it pays at
\* most the fee it named and twice the dust: the check of the change and the
\* dropping of dust together lose no more.
FeeAsNamed ==
    \A c \in Calls : call[c].pc \in Handed => PaidFee(call[c]) <= call[c].answer.fee + 2 * DUST

\* With the sanity check and the base fee, it pays at most one base fee and twice
\* the dust more than the wallet's own estimate.
BaseFeeSane ==
    \A c \in Calls :
      call[c].pc \in Handed /\ call[c].feeStrategy = "base_fee" /\ feeSanityCheck
        => PaidFee(call[c]) <= estimateVsizeFee(call[c]) + BASE_FEE + 2 * DUST

\* No output of a transaction handed to the API is dust, the change included.
NoDustOutput ==
    \A c \in Calls : call[c].pc \in Handed =>
      /\ call[c].change > 0 => call[c].change > DUST
      /\ \A i \in DOMAIN call[c].pay : call[c].pay[i].type = "data" \/ call[c].pay[i].value > DUST

\* Change goes to the address the caller gave or to one of the wallet's own, unless
\* the wallet was made with the address check off.
ChangeComesHome ==
    \A c \in Calls : call[c].pc \in Handed /\ call[c].change > 0 /\ ~call[c].bypassed
                       => call[c].changeAddress \in {"given", "own"}

\* estimateTxVsize is no less than the size of the transaction, but for the
\* empty witnesses of inputs without one.
EstimateCovers ==
    \A c \in Calls : call[c].pc \in Handed =>
      LET utxos == call[c].answer.utxos
          outs == OutputScripts(call[c])
      IN  4 * estimateTxVsize(utxos, outs) + Cardinality(EmptyWitnesses(utxos))
            >= SerialisedWeight(utxos, outs)

\* The wallet's own estimate holds: it covers the size of what is sent, and the
\* fee that is paid stays near the one it gives.
EstimateHolds == EstimateCovers /\ BaseFeeSane

\* The promise of pay() is settled, unless lock() comes before the inputs are signed, the
\* caller's change address does not decode, or the API answers with no coins, with one
\* coin twice, with a coin that cannot be signed as it says, or with unknown scripts.
HangExcused(k) ==
    /\ k.pc = "hung" /\ k.answer # NoAnswer
    /\ \/ k.raced
       \/ k.changeAddress = "undecodable"
       \/ k.answer.utxos = <<>> \/ NamedTwice(k.answer.utxos) \/ Unsignable(k.answer.utxos)
       \/ \E i \in DOMAIN k.answer.utxos : ~Supported(k.answer.utxos[i])
PaySettles ==
    \A c \in Calls : call[c].pc = "build" ~> (call[c].pc \in Ended \/ HangExcused(call[c]))
=============================================================================
