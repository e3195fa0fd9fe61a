----------------------------- MODULE WalletKeys -----------------------------
(***************************************************************************)
(* The key material of a Wallet of the sdk (blocktrail-sdk-nodejs/lib/     *)
(* wallet.js): unlock and lock, upgradeToV3 and passwordChange, with the   *)
(* copy of the encrypted data the server keeps and from which initWallet   *)
(* makes the object.                                                       *)
(*                                                                         *)
(* The primary seed is encrypted under a random secret, and the secret     *)
(* under the password; in a v1 wallet the seed is derived from a mnemonic  *)
(* and the password, so that every password yields some seed.  A secret is *)
(* a number; 0 stands for what a v2 decryption with a wrong password may   *)
(* leave behind.  Every promise callback is a step, so calls interleave.   *)
(***************************************************************************)
EXTENDS Integers, FiniteSets

CONSTANTS
    Calls,        \* calls of unlock, upgradeToV3 and passwordChange in flight
    Passwords,
    Original,     \* the password the wallet was made with
    MaxSecrets    \* bound of the model: secrets ever made

ASSUME KeysAssumption ==
    /\ Original \in Passwords
    /\ MaxSecrets \in Nat \ {0}

VARIABLES
    server,    \* wallet_version, encrypted_primary_seed and encrypted_secret
    local,     \* walletVersion, encryptedPrimarySeed and encryptedSecret
    locked, secret, primarySeed, primaryPrivateKey,
    call,      \* step and options of every call
    made,      \* secrets 1 .. made have been drawn
    mishaps    \* observer: what happened that the api does not guard against

keyVars == <<locked, secret, primarySeed, primaryPrivateKey>>
vars == <<server, local, keyVars, call, made, mishaps>>

None == -1
Garbage == 0

Seeds == {"right", "wrong"}
Secrets == 0 .. MaxSecrets
Versions == {"v1", "v2", "v3"}
EncryptedSecrets == [of : Secrets, by : Passwords, format : {"v2", "v3"}]
EncryptedData ==
    [version : Versions, seed : Seeds, under : Secrets, secret : EncryptedSecrets]
\* Steps of unlock, and of upgradeToV3 and passwordChange.
UnlockPcs == {"mnemonic", "v2", "secret", "seed", "seeded", "derive", "check"}
UpdatePcs == {"encrypt", "upgrading", "upgraded", "changing", "changed"}
CallStates ==
    [pc : {"idle"} \cup UnlockPcs \cup UpdatePcs,
     password : Passwords, data : EncryptedData, key : Seeds]

\* What createNewWallet left on the server.
NewData(v) ==
    [version |-> v, seed |-> "right", under |-> 1,
     secret |-> [of |-> 1, by |-> Original, format |-> IF v = "v3" THEN "v3" ELSE "v2"]]
Idle == [pc |-> "idle", password |-> Original, data |-> NewData("v1"), key |-> "right"]

Init ==
    /\ \E v \in Versions : server = NewData(v)
    /\ local = server
    /\ locked = TRUE
    /\ secret = None /\ primarySeed = "none" /\ primaryPrivateKey = "none"
    /\ call = [c \in Calls |-> Idle]
    /\ made = 1
    /\ mishaps = {}

-----------------------------------------------------------------------------
InFlight(pcs) == \E c \in Calls : call[c].pc \in pcs

\* Does password pw open an encrypted secret?  A v3 ciphertext carries a tag.
Opens(pw, s, version) == s.by = pw /\ s.format = version

\* The seed of encrypted data d under password pw.
Recovered(d, pw) ==
    IF d.version = "v1" THEN (IF pw = Original THEN "right" ELSE "wrong")
    ELSE IF Opens(pw, d.secret, d.version) /\ d.secret.of = d.under THEN d.seed
    ELSE "none"

Goto(c, pc) == call' = [call EXCEPT ![c].pc = pc]

\* The promise of the call is settled.
Return(c) == call' = [call EXCEPT ![c] = Idle]

-----------------------------------------------------------------------------
(***************************************************************************)
(* unlock                                                                  *)
(***************************************************************************)
\* Another unlock on a wallet that is unlocked, is being unlocked, or is about to
\* be read by an upgrade, is a mishap.
UnlockStart(c, pw) ==
    /\ call[c].pc = "idle"
    /\ call' = [call EXCEPT ![c] =
                  [Idle EXCEPT !.password = pw, !.data = local,
                               !.pc = CASE local.version = "v1" -> "mnemonic"
                                        [] local.version = "v2" -> "v2"
                                        [] local.version = "v3" -> "secret"]]
    /\ mishaps' = mishaps \cup (IF locked /\ ~InFlight(UnlockPcs \cup {"encrypt"})
                              THEN {} ELSE {"reunlock"})
    /\ UNCHANGED <<server, local, keyVars, made>>

\* unlockV1: the seed of the mnemonic and this password.
UnlockV1(c) ==
    /\ call[c].pc = "mnemonic"
    /\ LET seed == Recovered(call[c].data, call[c].password)
       IN  /\ primarySeed' = seed
           /\ call' = [call EXCEPT ![c].pc = "check", ![c].key = seed]
    /\ UNCHANGED <<server, local, locked, secret, primaryPrivateKey, made, mishaps>>

\* unlockV2 reads the wallet's data and decrypts the secret and the seed in one go.
UnlockV2(c) ==
    /\ call[c].pc = "v2"
    /\ LET d == local
       IN  /\ Opens(call[c].password, d.secret, "v2")
           /\ secret' = d.secret.of
           /\ IF d.secret.of = d.under
              THEN /\ primarySeed' = d.seed
                   /\ call' = [call EXCEPT ![c].pc = "check", ![c].key = d.seed]
              ELSE Return(c) /\ UNCHANGED primarySeed
    /\ UNCHANGED <<server, local, locked, primaryPrivateKey, made, mishaps>>

\* A v2 ciphertext carries no tag: a wrong password throws, or yields nothing,
\* or a few bytes that are not the secret.  The seed fails to decrypt then.
UnlockV2Fails(c) ==
    /\ call[c].pc = "v2"
    /\ ~Opens(call[c].password, local.secret, "v2")
    /\ secret' \in {secret, None, Garbage}
    /\ Return(c)
    /\ UNCHANGED <<server, local, locked, primarySeed, primaryPrivateKey, made, mishaps>>

\* unlockV3: the secret is decrypted ...
UnlockSecret(c) ==
    /\ call[c].pc = "secret"
    /\ IF Opens(call[c].password, call[c].data.secret, "v3")
       THEN secret' = call[c].data.secret.of /\ Goto(c, "seed")
       ELSE UNCHANGED secret /\ Return(c)
    /\ UNCHANGED <<server, local, locked, primarySeed, primaryPrivateKey, made, mishaps>>

\* ... and then the seed, with the secret the wallet holds by now; ...
UnlockSeed(c) ==
    /\ call[c].pc = "seed"
    /\ IF secret = call[c].data.under THEN Goto(c, "seeded") ELSE Return(c)
    /\ UNCHANGED <<server, local, keyVars, made, mishaps>>

\* ... the decryption is done.
UnlockSeeded(c) ==
    /\ call[c].pc = "seeded"
    /\ primarySeed' = call[c].data.seed
    /\ Goto(c, "derive")
    /\ UNCHANGED <<server, local, locked, secret, primaryPrivateKey, made, mishaps>>

\* Mutated form: a key is derived although lock() has removed the seed.
UnlockDeriveUnguarded(c) ==
    /\ call[c].pc = "derive"
    /\ call' = [call EXCEPT ![c].pc = "check", ![c].key = primarySeed]
    /\ UNCHANGED <<server, local, keyVars, made, mishaps>>
\* fromSeedBuffer with the seed the wallet holds by now; it throws without one.
UnlockDerive(c) ==
    /\ call[c].pc = "derive"
    /\ IF primarySeed # "none"
       THEN call' = [call EXCEPT ![c].pc = "check", ![c].key = primarySeed]
       ELSE Return(c)
    /\ UNCHANGED <<server, local, keyVars, made, mishaps>>

\* Mutated form: the wallet is unlocked whatever the checksum.
UnlockUnchecked(c) ==
    /\ call[c].pc = "check"
    /\ primaryPrivateKey' = call[c].key
    /\ locked' = FALSE
    /\ Return(c)
    /\ UNCHANGED <<server, local, secret, primarySeed, made, mishaps>>
\* The key is set, and the checksum compared.
UnlockCheck(c) ==
    /\ call[c].pc = "check"
    /\ primaryPrivateKey' = call[c].key
    /\ locked' = IF call[c].key = "right" THEN FALSE ELSE locked
    /\ Return(c)
    /\ UNCHANGED <<server, local, secret, primarySeed, made, mishaps>>

Lock ==
    /\ locked' = TRUE
    /\ secret' = None /\ primarySeed' = "none" /\ primaryPrivateKey' = "none"
    /\ UNCHANGED <<server, local, call, made, mishaps>>

-----------------------------------------------------------------------------
(***************************************************************************)
(* upgradeToV3 and passwordChange                                          *)
(***************************************************************************)
Overlap == mishaps' = mishaps \cup (IF InFlight(UpdatePcs) THEN {"overlap"} ELSE {})

\* Mutated form: an upgrade of a locked wallet.
UpgradeStartUnguarded(c, pw) ==
    /\ call[c].pc = "idle"
    /\ local.version # "v3"
    /\ call' = [call EXCEPT ![c].pc = "encrypt", ![c].password = pw]
    /\ Overlap
    /\ UNCHANGED <<server, local, keyVars, made>>
UpgradeStart(c, pw) ==
    /\ call[c].pc = "idle"
    /\ ~locked /\ local.version # "v3"
    /\ call' = [call EXCEPT ![c].pc = "encrypt", ![c].password = pw]
    /\ Overlap
    /\ UNCHANGED <<server, local, keyVars, made>>

\* produceEncryptedDataV3 for the seed the wallet holds, under a new secret.
UpgradeEncrypt(c) ==
    /\ call[c].pc = "encrypt"
    /\ IF primarySeed = "none"
       THEN Return(c) /\ UNCHANGED made
       ELSE /\ made < MaxSecrets
            /\ made' = made + 1
            /\ call' = [call EXCEPT
                 ![c].pc = "upgrading",
                 ![c].data = [version |-> "v3", seed |-> primarySeed, under |-> made',
                              secret |-> [of |-> made', by |-> call[c].password,
                                          format |-> "v3"]]]
    /\ UNCHANGED <<server, local, keyVars, mishaps>>

\* updateWallet reaches the server.
UpgradeStored(c) ==
    /\ call[c].pc = "upgrading"
    /\ server' = call[c].data
    /\ Goto(c, "upgraded")
    /\ UNCHANGED <<local, keyVars, made, mishaps>>

\* Mutated form: the new version is not taken over.
UpgradeDoneKeepsVersion(c) ==
    /\ call[c].pc = "upgraded"
    /\ local' = [call[c].data EXCEPT !.version = local.version]
    /\ secret' = call[c].data.under
    /\ Return(c)
    /\ UNCHANGED <<server, locked, primarySeed, primaryPrivateKey, made, mishaps>>
UpgradeDone(c) ==
    /\ call[c].pc = "upgraded"
    /\ local' = call[c].data
    /\ secret' = call[c].data.under
    /\ Return(c)
    /\ UNCHANGED <<server, locked, primarySeed, primaryPrivateKey, made, mishaps>>

\* doPasswordChange: the secret the wallet holds, under the new password and in
\* the format of the version the wallet believes in.
ChangeStart(c, pw) ==
    /\ call[c].pc = "idle"
    /\ local.version # "v1" /\ ~locked /\ secret # None
    /\ call' = [call EXCEPT
         ![c].pc = "changing",
         ![c].data = [local EXCEPT !.secret =
                        [of |-> secret, by |-> pw, format |-> local.version]]]
    /\ Overlap
    /\ UNCHANGED <<server, local, keyVars, made>>

ChangeStored(c) ==
    /\ call[c].pc = "changing"
    /\ server' = [server EXCEPT !.secret = call[c].data.secret]
    /\ Goto(c, "changed")
    /\ UNCHANGED <<local, keyVars, made, mishaps>>

ChangeDone(c) ==
    /\ call[c].pc = "changed"
    /\ local' = [local EXCEPT !.secret = call[c].data.secret]
    /\ Return(c)
    /\ UNCHANGED <<server, keyVars, made, mishaps>>

\* The request does not arrive.
RequestFails(c) ==
    /\ call[c].pc \in {"upgrading", "changing"}
    /\ Return(c)
    /\ UNCHANGED <<server, local, keyVars, made, mishaps>>

\* The request has arrived and the answer is lost: the call is rejected too.
AnswerLost(c) ==
    /\ call[c].pc \in {"upgraded", "changed"}
    /\ Return(c)
    /\ mishaps' = mishaps \cup {"lost"}
    /\ UNCHANGED <<server, local, keyVars, made>>

-----------------------------------------------------------------------------
\* initWallet makes a new object of what the server has; requests of the old one
\* that have not arrived are taken to be gone.
InitWallet ==
    /\ local' = server
    /\ locked' = TRUE
    /\ secret' = None /\ primarySeed' = "none" /\ primaryPrivateKey' = "none"
    /\ call' = [c \in Calls |-> Idle]
    /\ UNCHANGED <<server, made, mishaps>>

UnlockStep(c) ==
    \/ UnlockV1(c) \/ UnlockV2(c) \/ UnlockV2Fails(c)
    \/ UnlockSecret(c) \/ UnlockSeed(c) \/ UnlockSeeded(c) \/ UnlockDerive(c) \/ UnlockCheck(c)

UpdateStep(c) ==
    \/ UpgradeEncrypt(c) \/ UpgradeStored(c) \/ UpgradeDone(c)
    \/ ChangeStored(c) \/ ChangeDone(c) \/ RequestFails(c) \/ AnswerLost(c)

Next ==
    \/ \E c \in Calls, pw \in Passwords :
         UnlockStart(c, pw) \/ UpgradeStart(c, pw) \/ ChangeStart(c, pw)
    \/ \E c \in Calls : UnlockStep(c) \/ UpdateStep(c)
    \/ Lock \/ InitWallet

Spec == Init /\ [][Next]_vars

-----------------------------------------------------------------------------
(***************************************************************************)
(* Properties                                                              *)
(***************************************************************************)
\* Types.
TypeOK ==
    /\ server \in EncryptedData /\ local \in EncryptedData
    /\ locked \in BOOLEAN
    /\ secret \in Secrets \cup {None}
    /\ {primarySeed, primaryPrivateKey} \subseteq Seeds \cup {"none"}
    /\ call \in [Calls -> CallStates]
    /\ made \in 1 .. MaxSecrets
    /\ mishaps \subseteq {"reunlock", "overlap", "lost"}

Recoverable(d) == \E pw \in Passwords : Recovered(d, pw) = "right"

\* The data on the server opens with some password and gives the right seed: a
\* wallet can be initialised after an upgrade or a password change ("can init
\* after upgrade").
ServerRecoverable == Recoverable(server)

\* That holds through wrong passwords, failing requests and lock() at any moment,
\* as long as updates do not overlap, no answer to one is lost, and the wallet
\* is not unlocked again while it is unlocked.
RecoverableUnlessMishap == mishaps = {} => ServerRecoverable

\* An unlocked wallet holds the key that belongs to its checksum, also when
\* lock() or an upgrade came in between the steps of unlock().
UnlockedHasRightKey ==
    ~locked /\ "reunlock" \notin mishaps => primaryPrivateKey = "right"

\* Between updates the wallet's copy of the encrypted data is the server's, so
\* that what opens the one opens the other.
LocalInStep ==
    mishaps \cap {"overlap", "lost"} = {} /\ ~InFlight(UpdatePcs) => local = server
=============================================================================
