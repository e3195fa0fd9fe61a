----------------------------- MODULE MCPayment -----------------------------
(***************************************************************************)
(* Payment with one call at a time.  Payments of 20000 leave 30000 of the  *)
(* coins selected; the fees put what is left on both sides of twice the    *)
(* dust (5460), the change on both sides of the dust, and the fee on both  *)
(* sides of what base_fee allows.  Two selections cannot be made into a    *)
(* transaction: a coin named twice, and one that cannot be signed.         *)
(***************************************************************************)
EXTENDS Payment

Address(v) == [type |-> "address", value |-> v, length |-> 25]
Data == [type |-> "data", value |-> 0, length |-> 12]
Invalid == [type |-> "invalid", value |-> 20000, length |-> 25]
Coin(n, script, form, v, sign) ==
    [outpoint |-> n, script |-> script, form |-> form, value |-> v, sign |-> sign,
     signable |-> sign]

SmallPays ==
    {<<>>, <<Invalid>>, <<Address(2730)>>, <<Address(20000)>>,
     <<Address(2731), Data, Address(17269)>>}

Selections ==
    {<<Coin(1, "multisig", "p2sh", 50000, TRUE)>>,
     <<Coin(1, "multisig", "p2sh-p2wsh", 30000, TRUE), Coin(2, "multisig", "p2sh", 20000, TRUE)>>,
     <<Coin(1, "pubkeyhash", "bare", 50000, FALSE)>>,
     <<Coin(1, "multisig", "p2sh", 20000, TRUE), Coin(2, "other", "bare", 30000, FALSE)>>,
     <<Coin(1, "multisig", "p2sh", 25000, TRUE), Coin(1, "multisig", "p2sh", 25000, TRUE)>>,
     <<[Coin(1, "multisig", "p2sh", 50000, TRUE) EXCEPT !.signable = FALSE]>>}

SmallAnswers ==
    [utxos : Selections, fee : {10000, 20000, 24539, 24540},
     change : {0, 2730, 2731, 5461, 10000, 20000}]
    \cup {[utxos |-> <<>>, fee |-> 10000, change |-> 0]}
=============================================================================
