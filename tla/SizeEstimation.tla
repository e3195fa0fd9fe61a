--------------------------- MODULE SizeEstimation ---------------------------
(***************************************************************************)
(* The size of a transaction before its cosigner has signed it             *)
(* (blocktrail-sdk-nodejs/lib/size_estimation.js), and the serialised size *)
(* it is an estimate of.                                                   *)
(*                                                                         *)
(* An unspent output is the script that has to be satisfied and the form   *)
(* that wraps it: bare, a script hash, a witness script hash, or both.     *)
(* Multisig is the wallet's own, 2 of 3 compressed keys.                   *)
(***************************************************************************)
EXTENDS Integers, Sequences, Functions

Scripts == {"multisig", "pubkey", "pubkeyhash", "other"}
Forms == {"bare", "p2sh", "p2wsh", "p2sh-p2wsh"}

SIZE_DER_SIGNATURE == 72
SIZE_P2WSH == 34

Total(f) == FoldFunction(+, 0, f)

-----------------------------------------------------------------------------
getLengthForScriptPush(length) ==
    CASE length < 75                       -> 1
      [] length >= 75 /\ length <= 255      -> 2
      [] length > 255 /\ length <= 65535    -> 3
      [] length > 65535                     -> 5

\* Mutated form: the prefix byte of a longer length is left out.
getLengthForVarIntUnprefixed(length) ==
    CASE length < 253                        -> 1
      [] length >= 253 /\ length < 65535     -> 2
      [] length >= 65535                     -> 4
getLengthForVarInt(length) ==
    CASE length < 253                        -> 1
      [] length >= 253 /\ length < 65535     -> 1 + 2
      [] length >= 65535                     -> 1 + 4

\* What is pushed to satisfy a script, and how long the script itself is.
StackSizes(script) ==
    CASE script = "multisig"   -> <<0, SIZE_DER_SIGNATURE, SIZE_DER_SIGNATURE>>
      [] script = "pubkey"     -> <<SIZE_DER_SIGNATURE>>
      [] script = "pubkeyhash" -> <<SIZE_DER_SIGNATURE, 33>>

ScriptLength(script) ==
    CASE script = "multisig"   -> 1 + 3 * (getLengthForScriptPush(33) + 33) + 2
      [] script = "pubkey"     -> getLengthForScriptPush(33) + 33 + 1
      [] script = "pubkeyhash" -> 2 + getLengthForScriptPush(20) + 20 + 2

\* estimateUtxo throws for a script it does not know.
Supported(utxo) == utxo.script # "other"
IsWitness(utxo) == utxo.form \in {"p2wsh", "p2sh-p2wsh"}

\* The elements of the scriptSig and of the witness of an input.
ScriptSigSizes(utxo) ==
    (IF IsWitness(utxo) THEN <<>> ELSE StackSizes(utxo.script))
    \o CASE utxo.form = "p2sh"       -> <<ScriptLength(utxo.script)>>
         [] utxo.form = "p2sh-p2wsh" -> <<SIZE_P2WSH>>
         [] OTHER                    -> <<>>
WitnessSizes(utxo) ==
    IF IsWitness(utxo) THEN Append(StackSizes(utxo.script), ScriptLength(utxo.script))
    ELSE <<>>

estimateStackSignatureSize(utxo) ==
    LET sig == ScriptSigSizes(utxo)
        wit == WitnessSizes(utxo)
        sigSize == Total([i \in DOMAIN sig |-> getLengthForScriptPush(sig[i]) + sig[i]])
        witSize == Total([i \in DOMAIN wit |-> getLengthForVarInt(wit[i]) + wit[i]])
    IN  [scriptSig |-> sigSize + getLengthForVarInt(sigSize),
         witness   |-> IF wit = <<>> THEN 0 ELSE witSize + getLengthForVarInt(Len(wit))]

estimateInputsSize(utxos, withWitness) ==
    LET estimate == [i \in DOMAIN utxos |-> estimateStackSignatureSize(utxos[i])]
        inputs == Total([i \in DOMAIN utxos |-> 32 + 4 + 4 + estimate[i].scriptSig])
        witness == Total([i \in DOMAIN utxos |-> estimate[i].witness])
    IN  inputs + IF withWitness /\ witness > 0 THEN 2 + witness ELSE 0

\* outs: the lengths of the output scripts.
calculateOutputsSize(outs) ==
    Total([i \in DOMAIN outs |-> 8 + getLengthForVarInt(outs[i]) + outs[i]])

estimateTxWeight(utxos, outs) ==
    LET rest == 4 + getLengthForVarInt(Len(utxos)) + getLengthForVarInt(Len(outs))
                + calculateOutputsSize(outs) + 4
    IN  3 * (rest + estimateInputsSize(utxos, FALSE)) + rest + estimateInputsSize(utxos, TRUE)

Ceil(n, d) == (n + d - 1) \div d

estimateTxVsize(utxos, outs) == Ceil(estimateTxWeight(utxos, outs), 4)

-----------------------------------------------------------------------------
(***************************************************************************)
(* What the estimate is compared with: the weight of the completed         *)
(* transaction as bitcoin serialises it, with signatures of full length.   *)
(***************************************************************************)
CompactSize(n) == IF n <= 252 THEN 1 ELSE IF n <= 65535 THEN 3 ELSE 5
Pushed(n) == n + (IF n <= 75 THEN 1 ELSE IF n <= 255 THEN 2 ELSE 3)

InputBytes(utxo) ==
    LET sig == ScriptSigSizes(utxo)
        bytes == Total([i \in DOMAIN sig |-> Pushed(sig[i])])
    IN  40 + CompactSize(bytes) + bytes
\* Every input has a witness as soon as one has: an empty one is one byte.
WitnessBytes(utxo) ==
    LET wit == WitnessSizes(utxo)
    IN  CompactSize(Len(wit)) + Total([i \in DOMAIN wit |-> CompactSize(wit[i]) + wit[i]])

SerialisedWeight(utxos, outs) ==
    4 * ( 4 + CompactSize(Len(utxos)) + Total([i \in DOMAIN utxos |-> InputBytes(utxos[i])])
        + CompactSize(Len(outs)) + Total([i \in DOMAIN outs |-> 8 + CompactSize(outs[i]) + outs[i]])
        + 4 )
    + IF \E i \in DOMAIN utxos : IsWitness(utxos[i])
      THEN 2 + Total([i \in DOMAIN utxos |-> WitnessBytes(utxos[i])])
      ELSE 0

\* Inputs without a witness beside inputs with one, for whose empty witness
\* the estimate has no byte.
EmptyWitnesses(utxos) ==
    {i \in DOMAIN utxos : ~IsWitness(utxos[i]) /\ \E j \in DOMAIN utxos : IsWitness(utxos[j])}
=============================================================================
