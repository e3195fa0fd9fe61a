-------------------------- MODULE WalletKeysProofs --------------------------
(***************************************************************************)
(* Proofs about WalletKeys, for any number of concurrent calls and any set *)
(* of passwords: types, that an unlocked wallet has the right key, that    *)
(* the two copies of the encrypted data agree between updates, and that    *)
(* the copy on the server can be opened.                                   *)
(***************************************************************************)
EXTENDS WalletKeys, TLAPS

\* While unlock() is under way it is alone and the wallet is locked, so that a
\* check that fails fails on a locked wallet.
UnlockAlone ==
    "reunlock" \notin mishaps =>
      /\ \A c \in Calls : call[c].pc \in UnlockPcs => locked
      /\ \A c, d \in Calls : call[c].pc \in UnlockPcs /\ call[d].pc \in UnlockPcs => c = d

\* One update at a time, and where the two copies are while it is under way.
UpdateAlone ==
    mishaps \cap {"overlap", "lost"} = {} =>
      /\ \A c, d \in Calls : call[c].pc \in UpdatePcs /\ call[d].pc \in UpdatePcs => c = d
      /\ \A c \in Calls :
           /\ call[c].pc \in {"encrypt", "upgrading", "changing"} => local = server
           /\ call[c].pc = "upgraded" => server = call[c].data
           /\ call[c].pc = "changed" =>
                server = [local EXCEPT !.secret = call[c].data.secret]

\* Data that opens with some password and holds the right seed.
Sound(d) ==
    /\ d.seed = "right"
    /\ d.version # "v1" => d.secret.of = d.under /\ d.secret.format = d.version

\* Only the mnemonic of a v1 wallet is turned into a seed.
MnemonicInv == \A c \in Calls : call[c].pc = "mnemonic" => call[c].data.version = "v1"

\* A v3 wallet stays one; a v1 wallet has no secret.
VersionInv ==
    mishaps = {} =>
      /\ local.version = "v1" => secret = None
      /\ \A c \in Calls :
           /\ call[c].pc \in {"encrypt", "upgrading", "upgraded"} => local.version # "v3"
           /\ call[c].pc \in {"v2", "changing", "changed"} => local.version # "v1"

\* What updates send is sound, and what they send it from.
SoundInv ==
    mishaps = {} =>
      /\ Sound(server) /\ Sound(local)
      /\ \A c \in Calls :
           /\ call[c].pc \in {"upgrading", "upgraded"} =>
                Sound(call[c].data) /\ call[c].data.version = "v3"
           /\ call[c].pc \in {"changing", "changed"} =>
                /\ call[c].data.secret.of = local.under
                /\ call[c].data.secret.format = local.version

\* The secret and the seed an unlocked wallet holds, also while it is unlocked.
HoldInv ==
    mishaps = {} =>
      /\ ~locked => secret \in {None, local.under} /\ primarySeed \in {"right", "none"}
      /\ \A c \in Calls :
           /\ call[c].pc = "encrypt" => primarySeed \in {"right", "none"}
           /\ call[c].pc = "encrypt" => ~InFlight(UnlockPcs)
           /\ call[c].pc \in {"secret", "seed", "seeded", "derive"} =>
                local.version = "v3" /\ Sound(call[c].data)
                  /\ call[c].data.version = "v3" /\ call[c].data.under = local.under
           /\ call[c].pc \in {"mnemonic", "seed", "seeded", "derive", "check"} =>
                secret \in {None, local.under}
           /\ call[c].pc = "derive" => primarySeed \in {"right", "none"}
           /\ call[c].pc = "check" => primarySeed \in {call[c].key, "none"}

IndInv ==
    /\ TypeOK /\ MnemonicInv
    /\ UnlockAlone /\ UnlockedHasRightKey
    /\ UpdateAlone /\ LocalInStep
    /\ VersionInv /\ SoundInv /\ HoldInv
-----------------------------------------------------------------------------
\* The inductive invariant holds of a wallet that has just been initialised.
LEMMA InitInv == Init => IndInv
<1> SUFFICES ASSUME Init PROVE IndInv
  OBVIOUS
<1> USE KeysAssumption DEF Init, NewData, Idle
<1>1. TypeOK /\ MnemonicInv
  BY DEF TypeOK, MnemonicInv, EncryptedData, EncryptedSecrets, CallStates, Versions, Seeds,
         Secrets, None
<1>2. UnlockAlone /\ UpdateAlone /\ UnlockedHasRightKey /\ LocalInStep
  BY DEF UnlockAlone, UpdateAlone, UnlockedHasRightKey, LocalInStep, UnlockPcs, UpdatePcs
<1>3. VersionInv /\ SoundInv /\ HoldInv
  BY DEF VersionInv, SoundInv, HoldInv, Sound, InFlight, UnlockPcs, Versions
<1> QED
  BY <1>1, <1>2, <1>3 DEF IndInv

\* A call that is settled, or goes to another step of its kind, keeps its type.
LEMMA CallTypes ==
  ASSUME TypeOK, NEW c \in Calls
  PROVE  /\ Idle \in CallStates /\ Idle.pc = "idle"
         /\ Return(c) => call' \in [Calls -> CallStates]
         /\ \A p \in UnlockPcs \cup UpdatePcs : Goto(c, p) => call' \in [Calls -> CallStates]
<1>1. Idle \in CallStates /\ Idle.pc = "idle"
  BY KeysAssumption DEF Idle, NewData, CallStates, EncryptedData, EncryptedSecrets, Versions,
     Seeds, Secrets
<1>2. call \in [Calls -> CallStates]
  BY DEF TypeOK
<1>3. Return(c) => call' \in [Calls -> CallStates]
  BY <1>1, <1>2 DEF Return
<1>4. ASSUME NEW p \in UnlockPcs \cup UpdatePcs, Goto(c, p) PROVE call' \in [Calls -> CallStates]
  BY <1>2, <1>4 DEF Goto, CallStates
<1> QED
  BY <1>1, <1>3, <1>4

\* Types are preserved.
LEMMA NextType == IndInv /\ [Next]_vars => TypeOK'
<1> SUFFICES ASSUME IndInv, [Next]_vars PROVE TypeOK'
  OBVIOUS
<1>0. TypeOK /\ MnemonicInv
  BY DEF IndInv
<1> USE <1>0
<1>a. call \in [Calls -> CallStates] /\ local \in EncryptedData
      /\ local.version \in Versions /\ local.secret.of \in Secrets
  BY DEF TypeOK, EncryptedData, EncryptedSecrets
<1>b. ASSUME NEW c \in Calls
      PROVE  /\ call[c].data \in EncryptedData /\ call[c].key \in Seeds
             /\ call[c].data.seed \in Seeds /\ call[c].data.under \in Secrets
             /\ call[c].data.secret \in EncryptedSecrets /\ call[c].data.secret.of \in Secrets
             /\ call[c].password \in Passwords
  BY <1>a DEF CallStates, EncryptedData, EncryptedSecrets
<1>c. local.seed \in Seeds /\ secret \in Secrets \cup {None}
      /\ primarySeed \in Seeds \cup {"none"} /\ primaryPrivateKey \in Seeds \cup {"none"}
  BY <1>a DEF TypeOK, EncryptedData
<1>d. None \in Int /\ Garbage \in Secrets
  BY KeysAssumption DEF None, Garbage, Secrets
<1>1. ASSUME NEW c \in Calls, NEW pw \in Passwords, UnlockStart(c, pw) PROVE TypeOK'
  <2>1. [Idle EXCEPT !.password = pw, !.data = local,
                     !.pc = CASE local.version = "v1" -> "mnemonic"
                              [] local.version = "v2" -> "v2"
                              [] local.version = "v3" -> "secret"] \in CallStates
    BY <1>a, CallTypes DEF CallStates, Versions, UnlockPcs
  <2>2. call' \in [Calls -> CallStates]
    BY <1>1, <1>a, <2>1 DEF UnlockStart
  <2> QED
    BY <1>1, <2>2 DEF UnlockStart, TypeOK, keyVars
<1>2. ASSUME NEW c \in Calls, NEW pw \in Passwords, UpgradeStart(c, pw) PROVE TypeOK'
  <2>1. call' \in [Calls -> CallStates]
    BY <1>2, <1>a DEF UpgradeStart, CallStates, UpdatePcs
  <2> QED
    BY <1>2, <2>1 DEF UpgradeStart, TypeOK, keyVars, Overlap
<1>3. ASSUME NEW c \in Calls, NEW pw \in Passwords, ChangeStart(c, pw) PROVE TypeOK'
  <2>1. secret \in Secrets /\ local.version \in {"v2", "v3"}
    BY <1>3, <1>a, <1>c DEF ChangeStart, Versions
  <2>2. [of |-> secret, by |-> pw, format |-> local.version] \in EncryptedSecrets
    BY <2>1 DEF EncryptedSecrets
  <2>3. [local EXCEPT !.secret = [of |-> secret, by |-> pw, format |-> local.version]]
          \in EncryptedData
    BY <1>a, <2>2 DEF EncryptedData
  <2>4. call' \in [Calls -> CallStates]
    BY <1>3, <1>a, <2>3 DEF ChangeStart, CallStates, UpdatePcs
  <2> QED
    BY <1>3, <2>4 DEF ChangeStart, TypeOK, keyVars, Overlap
<1>4. ASSUME NEW c \in Calls, UnlockV1(c) PROVE TypeOK'
  <2>1. Recovered(call[c].data, call[c].password) \in Seeds
    BY <1>4 DEF UnlockV1, MnemonicInv, Recovered, Seeds
  <2>2. call' \in [Calls -> CallStates]
    BY <1>4, <1>a, <2>1 DEF UnlockV1, CallStates, UnlockPcs
  <2> QED
    BY <1>4, <1>c, <2>1, <2>2 DEF UnlockV1, TypeOK
<1>5. ASSUME NEW c \in Calls, UnlockV2(c) PROVE TypeOK'
  <2>1. call' \in [Calls -> CallStates]
    <3>1. CASE local.secret.of = local.under
      BY <1>5, <1>a, <1>c, <3>1 DEF UnlockV2, CallStates, UnlockPcs
    <3>2. CASE local.secret.of # local.under
      BY <1>5, <3>2, CallTypes DEF UnlockV2
    <3> QED
      BY <3>1, <3>2
  <2> QED
    BY <1>5, <1>a, <1>c, <2>1 DEF UnlockV2, TypeOK
<1>6. ASSUME NEW c \in Calls, UnlockV2Fails(c) PROVE TypeOK'
  BY <1>6, <1>c, <1>d, CallTypes DEF UnlockV2Fails, TypeOK
<1>7. ASSUME NEW c \in Calls, UnlockSecret(c) PROVE TypeOK'
  BY <1>7, <1>b, <1>c, CallTypes DEF UnlockSecret, TypeOK, UnlockPcs
<1>8. ASSUME NEW c \in Calls, UnlockSeed(c) PROVE TypeOK'
  BY <1>8, CallTypes DEF UnlockSeed, TypeOK, keyVars, UnlockPcs
<1>9. ASSUME NEW c \in Calls, UnlockSeeded(c) PROVE TypeOK'
  BY <1>9, <1>b, <1>c, CallTypes DEF UnlockSeeded, TypeOK, UnlockPcs
<1>10. ASSUME NEW c \in Calls, UnlockDerive(c) PROVE TypeOK'
  <2>1. call' \in [Calls -> CallStates]
    <3>1. CASE primarySeed # "none"
      BY <1>10, <1>a, <1>c, <3>1 DEF UnlockDerive, CallStates, UnlockPcs
    <3>2. CASE primarySeed = "none"
      BY <1>10, <3>2, CallTypes DEF UnlockDerive
    <3> QED
      BY <3>1, <3>2
  <2> QED
    BY <1>10, <2>1 DEF UnlockDerive, TypeOK, keyVars
<1>11. ASSUME NEW c \in Calls, UnlockCheck(c) PROVE TypeOK'
  BY <1>11, <1>b, <1>c, CallTypes DEF UnlockCheck, TypeOK
<1>12. ASSUME NEW c \in Calls, UpgradeEncrypt(c) PROVE TypeOK'
  <2>1. CASE primarySeed = "none"
    BY <1>12, <2>1, CallTypes DEF UpgradeEncrypt, TypeOK, keyVars
  <2>2. CASE primarySeed # "none"
    <3>1. made' \in 1 .. MaxSecrets /\ made' \in Secrets
      BY <1>12, <2>2, KeysAssumption DEF UpgradeEncrypt, TypeOK, Secrets
    <3>2. [of |-> made', by |-> call[c].password, format |-> "v3"] \in EncryptedSecrets
      BY <1>b, <3>1 DEF EncryptedSecrets
    <3>3. [version |-> "v3", seed |-> primarySeed, under |-> made',
           secret |-> [of |-> made', by |-> call[c].password, format |-> "v3"]] \in EncryptedData
      BY <1>c, <2>2, <3>1, <3>2 DEF EncryptedData, Versions
    <3>4. call' \in [Calls -> CallStates]
      BY <1>12, <1>a, <2>2, <3>3 DEF UpgradeEncrypt, CallStates, UpdatePcs
    <3> QED
      BY <1>12, <3>1, <3>4 DEF UpgradeEncrypt, TypeOK, keyVars
  <2> QED
    BY <2>1, <2>2
<1>13. ASSUME NEW c \in Calls, UpgradeStored(c) PROVE TypeOK'
  BY <1>13, <1>b, CallTypes DEF UpgradeStored, TypeOK, keyVars, UpdatePcs
<1>14. ASSUME NEW c \in Calls, UpgradeDone(c) PROVE TypeOK'
  BY <1>14, <1>b, <1>c, CallTypes DEF UpgradeDone, TypeOK
<1>15. ASSUME NEW c \in Calls, ChangeStored(c) PROVE TypeOK'
  <2>1. server' \in EncryptedData
    BY <1>15, <1>b DEF ChangeStored, TypeOK, EncryptedData
  <2> QED
    BY <1>15, <2>1, CallTypes DEF ChangeStored, TypeOK, keyVars, UpdatePcs
<1>16. ASSUME NEW c \in Calls, ChangeDone(c) PROVE TypeOK'
  <2>1. local' \in EncryptedData
    BY <1>16, <1>b DEF ChangeDone, TypeOK, EncryptedData
  <2> QED
    BY <1>16, <2>1, CallTypes DEF ChangeDone, TypeOK, keyVars
<1>17. ASSUME NEW c \in Calls, RequestFails(c) \/ AnswerLost(c) PROVE TypeOK'
  BY <1>17, CallTypes DEF RequestFails, AnswerLost, TypeOK, keyVars
<1>18. CASE Lock
  BY <1>18 DEF Lock, TypeOK
<1>19. CASE InitWallet
  <2>1. call' \in [Calls -> CallStates]
    BY <1>19, CallTypes DEF InitWallet
  <2> QED
    BY <1>19, <2>1 DEF InitWallet, TypeOK
<1>20. CASE UNCHANGED vars
  BY <1>20 DEF vars, keyVars, TypeOK
<1> QED
  BY <1>1, <1>2, <1>3, <1>4, <1>5, <1>6, <1>7, <1>8, <1>9, <1>10, <1>11, <1>12, <1>13,
     <1>14, <1>15, <1>16, <1>17, <1>18, <1>19, <1>20 DEF Next, UnlockStep, UpdateStep

\* Only unlock() enters the step that reads a mnemonic, with data it has looked at.
LEMMA NextMnemonic == IndInv /\ [Next]_vars => MnemonicInv'
<1> SUFFICES ASSUME IndInv, [Next]_vars PROVE MnemonicInv'
  OBVIOUS
<1>0. TypeOK /\ MnemonicInv
  BY DEF IndInv
<1>a. local.version \in Versions /\ call \in [Calls -> CallStates] /\ Idle.pc = "idle"
  BY <1>0 DEF TypeOK, EncryptedData, Idle
<1> USE <1>0, <1>a DEF MnemonicInv, Return, Goto, keyVars, CallStates
<1>1. ASSUME NEW c \in Calls, NEW pw \in Passwords, UnlockStart(c, pw) PROVE MnemonicInv'
  BY <1>1 DEF UnlockStart, Versions, Idle
<1>2. ASSUME NEW c \in Calls, NEW pw \in Passwords, UpgradeStart(c, pw) \/ ChangeStart(c, pw)
      PROVE  MnemonicInv'
  BY <1>2 DEF UpgradeStart, ChangeStart
<1>3. ASSUME NEW c \in Calls, UnlockStep(c) PROVE MnemonicInv'
  BY <1>3, ZenonT(60) DEF UnlockStep, UnlockV1, UnlockV2, UnlockV2Fails, UnlockSecret, UnlockSeed,
     UnlockSeeded, UnlockDerive, UnlockCheck
<1>4. ASSUME NEW c \in Calls, UpdateStep(c) PROVE MnemonicInv'
  BY <1>4 DEF UpdateStep, UpgradeEncrypt, UpgradeStored, UpgradeDone, ChangeStored, ChangeDone,
     RequestFails, AnswerLost
<1>5. CASE Lock \/ InitWallet \/ UNCHANGED vars
  BY <1>5 DEF Lock, InitWallet, vars
<1> QED
  BY <1>1, <1>2, <1>3, <1>4, <1>5 DEF Next

\* An unlock that is alone ends with the right key or on a locked wallet.
LEMMA NextUnlock == IndInv /\ [Next]_vars => (UnlockAlone /\ UnlockedHasRightKey)'
<1> SUFFICES ASSUME IndInv, [Next]_vars PROVE (UnlockAlone /\ UnlockedHasRightKey)'
  OBVIOUS
<1>0. TypeOK /\ UnlockAlone /\ UnlockedHasRightKey
  BY DEF IndInv
<1> USE <1>0, KeysAssumption DEF UnlockAlone, UnlockedHasRightKey, CallStates, TypeOK,
        UnlockPcs, UpdatePcs, InFlight, Idle, NewData, keyVars, Return, Goto, Overlap
<1>1. ASSUME NEW c \in Calls, NEW pw \in Passwords, UnlockStart(c, pw)
      PROVE  (UnlockAlone /\ UnlockedHasRightKey)'
  BY <1>1 DEF UnlockStart
<1>2. ASSUME NEW c \in Calls, NEW pw \in Passwords, UpgradeStart(c, pw)
      PROVE  (UnlockAlone /\ UnlockedHasRightKey)'
  BY <1>2 DEF UpgradeStart
<1>3. ASSUME NEW c \in Calls, NEW pw \in Passwords, ChangeStart(c, pw)
      PROVE  (UnlockAlone /\ UnlockedHasRightKey)'
  BY <1>3 DEF ChangeStart
<1>4. ASSUME NEW c \in Calls, UnlockV1(c) PROVE (UnlockAlone /\ UnlockedHasRightKey)'
  BY <1>4 DEF UnlockV1
<1>5. ASSUME NEW c \in Calls, UnlockV2(c) PROVE (UnlockAlone /\ UnlockedHasRightKey)'
  BY <1>5 DEF UnlockV2
<1>6. ASSUME NEW c \in Calls, UnlockV2Fails(c) PROVE (UnlockAlone /\ UnlockedHasRightKey)'
  BY <1>6 DEF UnlockV2Fails
<1>7. ASSUME NEW c \in Calls, UnlockSecret(c) PROVE (UnlockAlone /\ UnlockedHasRightKey)'
  BY <1>7 DEF UnlockSecret
<1>8. ASSUME NEW c \in Calls, UnlockSeed(c) PROVE (UnlockAlone /\ UnlockedHasRightKey)'
  BY <1>8 DEF UnlockSeed
<1>9. ASSUME NEW c \in Calls, UnlockSeeded(c) PROVE (UnlockAlone /\ UnlockedHasRightKey)'
  BY <1>9 DEF UnlockSeeded
<1>10. ASSUME NEW c \in Calls, UnlockDerive(c) PROVE (UnlockAlone /\ UnlockedHasRightKey)'
  BY <1>10 DEF UnlockDerive
<1>11. ASSUME NEW c \in Calls, UnlockCheck(c) PROVE (UnlockAlone /\ UnlockedHasRightKey)'
  BY <1>11 DEF UnlockCheck
<1>12. ASSUME NEW c \in Calls, UpgradeEncrypt(c) PROVE (UnlockAlone /\ UnlockedHasRightKey)'
  BY <1>12 DEF UpgradeEncrypt
<1>13. ASSUME NEW c \in Calls, UpgradeStored(c) PROVE (UnlockAlone /\ UnlockedHasRightKey)'
  BY <1>13 DEF UpgradeStored
<1>14. ASSUME NEW c \in Calls, UpgradeDone(c) PROVE (UnlockAlone /\ UnlockedHasRightKey)'
  BY <1>14 DEF UpgradeDone
<1>15. ASSUME NEW c \in Calls, ChangeStored(c) PROVE (UnlockAlone /\ UnlockedHasRightKey)'
  BY <1>15 DEF ChangeStored
<1>16. ASSUME NEW c \in Calls, ChangeDone(c) PROVE (UnlockAlone /\ UnlockedHasRightKey)'
  BY <1>16 DEF ChangeDone
<1>17. ASSUME NEW c \in Calls, RequestFails(c) PROVE (UnlockAlone /\ UnlockedHasRightKey)'
  BY <1>17 DEF RequestFails
<1>18. ASSUME NEW c \in Calls, AnswerLost(c) PROVE (UnlockAlone /\ UnlockedHasRightKey)'
  BY <1>18 DEF AnswerLost
<1>19. CASE Lock
  BY <1>19 DEF Lock
<1>20. CASE InitWallet
  BY <1>20 DEF InitWallet
<1>21. CASE UNCHANGED vars
  BY <1>21 DEF vars, keyVars
<1> QED
  BY <1>1, <1>2, <1>3, <1>4, <1>5, <1>6, <1>7, <1>8, <1>9, <1>10, <1>11, <1>12, <1>13, <1>14,
     <1>15, <1>16, <1>17, <1>18, <1>19, <1>20, <1>21 DEF Next, UnlockStep, UpdateStep

\* An update that is alone leaves the two copies equal.
LEMMA NextUpdate == IndInv /\ [Next]_vars => (UpdateAlone /\ LocalInStep)'
<1> SUFFICES ASSUME IndInv, [Next]_vars PROVE (UpdateAlone /\ LocalInStep)'
  OBVIOUS
<1>0. UpdateAlone /\ LocalInStep
  BY DEF IndInv
<1>a. call \in [Calls -> CallStates] /\ local \in EncryptedData /\ local.version \in Versions
  BY DEF IndInv, TypeOK, EncryptedData
<1>b. Idle.pc = "idle"
  BY DEF Idle
<1>1. ASSUME UNCHANGED <<server, local>>, mishaps \subseteq mishaps',
             \A d \in Calls :
               call'[d] = call[d] \/ {call[d].pc, call'[d].pc} \cap UpdatePcs = {}
      PROVE  (UpdateAlone /\ LocalInStep)'
  BY <1>0, <1>1 DEF UpdateAlone, LocalInStep, InFlight, UpdatePcs
<1>2. ASSUME NEW c \in Calls, NEW pw \in Passwords, UnlockStart(c, pw)
      PROVE  (UpdateAlone /\ LocalInStep)'
  <2>1. call'[c].pc \in UnlockPcs /\ \A d \in Calls \ {c} : call'[d] = call[d]
    <3> DEFINE start == [Idle EXCEPT !.password = pw, !.data = local,
                                     !.pc = CASE local.version = "v1" -> "mnemonic"
                                              [] local.version = "v2" -> "v2"
                                              [] local.version = "v3" -> "secret"]
    <3>1. start.pc \in UnlockPcs
      BY <1>a DEF Idle, Versions, UnlockPcs
    <3>2. call' = [call EXCEPT ![c] = start]
      BY <1>2 DEF UnlockStart
    <3> HIDE DEF start
    <3> QED
      BY <1>a, <3>1, <3>2
  <2>2. call[c].pc = "idle" /\ UNCHANGED <<server, local>> /\ mishaps \subseteq mishaps'
    BY <1>2 DEF UnlockStart
  <2>3. \A d \in Calls :
          call'[d] = call[d] \/ {call[d].pc, call'[d].pc} \cap UpdatePcs = {}
    <3>1. {call[c].pc, call'[c].pc} \cap UpdatePcs = {}
      BY <2>1, <2>2 DEF UnlockPcs, UpdatePcs
    <3> QED
      BY <2>1, <3>1
  <2>4. UNCHANGED <<server, local>> /\ mishaps \subseteq mishaps'
    BY <2>2
  <2> QED
    BY <1>1, <2>3, <2>4
<1>3. ASSUME NEW c \in Calls, UnlockStep(c) PROVE (UpdateAlone /\ LocalInStep)'
  <2>1. call'[c].pc \in {"idle"} \cup UnlockPcs /\ \A d \in Calls \ {c} : call'[d] = call[d]
    <3> USE <1>a, <1>b DEF CallStates, UnlockPcs, Return, Goto
    <3>1. CASE UnlockV1(c)
      BY <3>1 DEF UnlockV1
    <3>2. CASE UnlockV2(c) \/ UnlockV2Fails(c)
      BY <3>2 DEF UnlockV2, UnlockV2Fails
    <3>3. CASE UnlockSecret(c)
      BY <3>3 DEF UnlockSecret
    <3>4. CASE UnlockSeed(c) \/ UnlockSeeded(c)
      BY <3>4 DEF UnlockSeed, UnlockSeeded
    <3>5. CASE UnlockDerive(c) \/ UnlockCheck(c)
      BY <3>5 DEF UnlockDerive, UnlockCheck
    <3> QED
      BY <1>3, <3>1, <3>2, <3>3, <3>4, <3>5 DEF UnlockStep
  <2>2. call[c].pc \in UnlockPcs /\ UNCHANGED <<server, local, mishaps>>
    BY <1>3 DEF UnlockStep, UnlockV1, UnlockV2, UnlockV2Fails, UnlockSecret, UnlockSeed,
       UnlockSeeded, UnlockDerive, UnlockCheck, UnlockPcs
  <2>3. \A d \in Calls :
          call'[d] = call[d] \/ {call[d].pc, call'[d].pc} \cap UpdatePcs = {}
    <3>1. {call[c].pc, call'[c].pc} \cap UpdatePcs = {}
      BY <2>1, <2>2 DEF UnlockPcs, UpdatePcs
    <3> QED
      BY <2>1, <3>1
  <2>4. UNCHANGED <<server, local>> /\ mishaps \subseteq mishaps'
    BY <2>2
  <2> QED
    BY <1>1, <2>3, <2>4
<1>4. ASSUME NEW c \in Calls, Overlap, UNCHANGED <<server, local>>,
             call[c].pc = "idle", call'[c].pc \in {"encrypt", "changing"},
             \A d \in Calls \ {c} : call'[d] = call[d]
      PROVE  (UpdateAlone /\ LocalInStep)'
  <2>1. CASE InFlight(UpdatePcs)
    BY <1>4, <2>1 DEF Overlap, UpdateAlone, LocalInStep
  <2>2. CASE ~InFlight(UpdatePcs)
    <3>1. mishaps' = mishaps /\ \A d \in Calls : call[d].pc \notin UpdatePcs
      BY <1>4, <2>2 DEF Overlap, InFlight
    <3>2. \A d \in Calls : call'[d].pc \in UpdatePcs => d = c
      BY <1>4, <3>1
    <3>3. mishaps \cap {"overlap", "lost"} = {} => local' = server'
      BY <1>0, <1>4, <2>2 DEF LocalInStep
    <3> QED
      BY <1>4, <3>1, <3>2, <3>3 DEF UpdateAlone, LocalInStep, UpdatePcs
  <2> QED
    BY <2>1, <2>2
<1>5. ASSUME NEW c \in Calls, NEW pw \in Passwords, UpgradeStart(c, pw) \/ ChangeStart(c, pw)
      PROVE  (UpdateAlone /\ LocalInStep)'
  BY <1>4, <1>5, <1>a DEF UpgradeStart, ChangeStart, CallStates
<1> USE <1>0, <1>a, <1>b DEF UpdateAlone, LocalInStep, InFlight, UpdatePcs, CallStates,
        EncryptedData, Return, Goto, keyVars
<1>6. ASSUME NEW c \in Calls, UpgradeEncrypt(c) PROVE (UpdateAlone /\ LocalInStep)'
  BY <1>6 DEF UpgradeEncrypt
<1>7. ASSUME NEW c \in Calls, UpgradeStored(c) PROVE (UpdateAlone /\ LocalInStep)'
  BY <1>7 DEF UpgradeStored
<1>8. ASSUME NEW c \in Calls, UpgradeDone(c) PROVE (UpdateAlone /\ LocalInStep)'
  BY <1>8 DEF UpgradeDone
<1>9. ASSUME NEW c \in Calls, ChangeStored(c) PROVE (UpdateAlone /\ LocalInStep)'
  BY <1>9, SMTT(60) DEF ChangeStored
<1>10. ASSUME NEW c \in Calls, ChangeDone(c) PROVE (UpdateAlone /\ LocalInStep)'
  BY <1>10, ZenonT(60) DEF ChangeDone
<1>11. ASSUME NEW c \in Calls, RequestFails(c) PROVE (UpdateAlone /\ LocalInStep)'
  BY <1>11 DEF RequestFails
<1>12. ASSUME NEW c \in Calls, AnswerLost(c) PROVE (UpdateAlone /\ LocalInStep)'
  BY <1>12 DEF AnswerLost
<1>13. CASE Lock
  BY <1>13 DEF Lock
<1>14. CASE InitWallet
  BY <1>14 DEF InitWallet
<1>15. CASE UNCHANGED vars
  BY <1>15 DEF vars
<1> QED
  BY <1>2, <1>3, <1>5, <1>6, <1>7, <1>8, <1>9, <1>10, <1>11, <1>12, <1>13, <1>14, <1>15
  DEF Next, UpdateStep

\* The version only grows.
LEMMA NextVersion == IndInv /\ [Next]_vars => (VersionInv)'
<1> SUFFICES ASSUME IndInv, [Next]_vars PROVE (VersionInv)'
  OBVIOUS
<1>0. TypeOK /\ VersionInv /\ SoundInv /\ UpdateAlone /\ HoldInv
  BY DEF IndInv
<1> USE <1>0, KeysAssumption DEF VersionInv, SoundInv, UpdateAlone, HoldInv, Sound, CallStates,
        TypeOK, EncryptedData, UnlockPcs, UpdatePcs, InFlight, Idle, NewData, keyVars, Return,
        Goto, Overlap
<1>1. ASSUME NEW c \in Calls, NEW pw \in Passwords, UnlockStart(c, pw) PROVE (VersionInv)'
  BY <1>1 DEF UnlockStart
<1>2. ASSUME NEW c \in Calls, NEW pw \in Passwords, UpgradeStart(c, pw) PROVE (VersionInv)'
  BY <1>2 DEF UpgradeStart
<1>3. ASSUME NEW c \in Calls, NEW pw \in Passwords, ChangeStart(c, pw) PROVE (VersionInv)'
  BY <1>3 DEF ChangeStart
<1>4. ASSUME NEW c \in Calls, UnlockV1(c) PROVE (VersionInv)'
  BY <1>4 DEF UnlockV1
<1>5. ASSUME NEW c \in Calls, UnlockV2(c) PROVE (VersionInv)'
  BY <1>5 DEF UnlockV2
<1>6. ASSUME NEW c \in Calls, UnlockV2Fails(c) PROVE (VersionInv)'
  BY <1>6 DEF UnlockV2Fails
<1>7. ASSUME NEW c \in Calls, UnlockSecret(c) PROVE (VersionInv)'
  BY <1>7 DEF UnlockSecret
<1>8. ASSUME NEW c \in Calls, UnlockSeed(c) PROVE (VersionInv)'
  BY <1>8 DEF UnlockSeed
<1>9. ASSUME NEW c \in Calls, UnlockSeeded(c) PROVE (VersionInv)'
  BY <1>9 DEF UnlockSeeded
<1>10. ASSUME NEW c \in Calls, UnlockDerive(c) PROVE (VersionInv)'
  BY <1>10 DEF UnlockDerive
<1>11. ASSUME NEW c \in Calls, UnlockCheck(c) PROVE (VersionInv)'
  BY <1>11 DEF UnlockCheck
<1>12. ASSUME NEW c \in Calls, UpgradeEncrypt(c) PROVE (VersionInv)'
  BY <1>12 DEF UpgradeEncrypt
<1>13. ASSUME NEW c \in Calls, UpgradeStored(c) PROVE (VersionInv)'
  BY <1>13 DEF UpgradeStored
<1>14. ASSUME NEW c \in Calls, UpgradeDone(c) PROVE (VersionInv)'
  BY <1>14 DEF UpgradeDone
<1>15. ASSUME NEW c \in Calls, ChangeStored(c) PROVE (VersionInv)'
  BY <1>15 DEF ChangeStored
<1>16. ASSUME NEW c \in Calls, ChangeDone(c) PROVE (VersionInv)'
  BY <1>16 DEF ChangeDone
<1>17. ASSUME NEW c \in Calls, RequestFails(c) PROVE (VersionInv)'
  BY <1>17 DEF RequestFails
<1>18. ASSUME NEW c \in Calls, AnswerLost(c) PROVE (VersionInv)'
  BY <1>18 DEF AnswerLost
<1>19. CASE Lock
  BY <1>19 DEF Lock
<1>20. CASE InitWallet
  BY <1>20 DEF InitWallet
<1>21. CASE UNCHANGED vars
  BY <1>21 DEF vars, keyVars
<1> QED
  BY <1>1, <1>2, <1>3, <1>4, <1>5, <1>6, <1>7, <1>8, <1>9, <1>10, <1>11, <1>12, <1>13, <1>14,
     <1>15, <1>16, <1>17, <1>18, <1>19, <1>20, <1>21 DEF Next, UnlockStep, UpdateStep

\* What is sent to the server is sound.
LEMMA NextSound == IndInv /\ [Next]_vars => (SoundInv)'
<1> SUFFICES ASSUME IndInv, [Next]_vars PROVE (SoundInv)'
  OBVIOUS
<1>0. TypeOK /\ VersionInv /\ SoundInv /\ UpdateAlone /\ HoldInv
  BY DEF IndInv
<1> USE <1>0, KeysAssumption DEF VersionInv, SoundInv, UpdateAlone, HoldInv, Sound, CallStates,
        TypeOK, EncryptedData, EncryptedSecrets, UnlockPcs, UpdatePcs, InFlight, Idle, NewData,
        keyVars, Return, Goto, Overlap
<1>1. ASSUME NEW c \in Calls, NEW pw \in Passwords, UnlockStart(c, pw) PROVE (SoundInv)'
  BY <1>1 DEF UnlockStart
<1>2. ASSUME NEW c \in Calls, NEW pw \in Passwords, UpgradeStart(c, pw) PROVE (SoundInv)'
  BY <1>2 DEF UpgradeStart
<1>3. ASSUME NEW c \in Calls, NEW pw \in Passwords, ChangeStart(c, pw) PROVE (SoundInv)'
  BY <1>3 DEF ChangeStart
<1>4. ASSUME NEW c \in Calls, UnlockV1(c) PROVE (SoundInv)'
  BY <1>4 DEF UnlockV1
<1>5. ASSUME NEW c \in Calls, UnlockV2(c) PROVE (SoundInv)'
  BY <1>5 DEF UnlockV2
<1>6. ASSUME NEW c \in Calls, UnlockV2Fails(c) PROVE (SoundInv)'
  BY <1>6 DEF UnlockV2Fails
<1>7. ASSUME NEW c \in Calls, UnlockSecret(c) PROVE (SoundInv)'
  BY <1>7 DEF UnlockSecret
<1>8. ASSUME NEW c \in Calls, UnlockSeed(c) PROVE (SoundInv)'
  BY <1>8 DEF UnlockSeed
<1>9. ASSUME NEW c \in Calls, UnlockSeeded(c) PROVE (SoundInv)'
  BY <1>9 DEF UnlockSeeded
<1>10. ASSUME NEW c \in Calls, UnlockDerive(c) PROVE (SoundInv)'
  BY <1>10 DEF UnlockDerive
<1>11. ASSUME NEW c \in Calls, UnlockCheck(c) PROVE (SoundInv)'
  BY <1>11 DEF UnlockCheck
<1>12. ASSUME NEW c \in Calls, UpgradeEncrypt(c) PROVE (SoundInv)'
  BY <1>12 DEF UpgradeEncrypt
<1>13. ASSUME NEW c \in Calls, UpgradeStored(c) PROVE (SoundInv)'
  BY <1>13 DEF UpgradeStored
<1>14. ASSUME NEW c \in Calls, UpgradeDone(c) PROVE (SoundInv)'
  BY <1>14 DEF UpgradeDone
<1>15. ASSUME NEW c \in Calls, ChangeStored(c) PROVE (SoundInv)'
  BY <1>15 DEF ChangeStored
<1>16. ASSUME NEW c \in Calls, ChangeDone(c) PROVE (SoundInv)'
  BY <1>16 DEF ChangeDone
<1>17. ASSUME NEW c \in Calls, RequestFails(c) PROVE (SoundInv)'
  BY <1>17 DEF RequestFails
<1>18. ASSUME NEW c \in Calls, AnswerLost(c) PROVE (SoundInv)'
  BY <1>18 DEF AnswerLost
<1>19. CASE Lock
  BY <1>19 DEF Lock
<1>20. CASE InitWallet
  BY <1>20 DEF InitWallet
<1>21. CASE UNCHANGED vars
  BY <1>21 DEF vars, keyVars
<1> QED
  BY <1>1, <1>2, <1>3, <1>4, <1>5, <1>6, <1>7, <1>8, <1>9, <1>10, <1>11, <1>12, <1>13, <1>14,
     <1>15, <1>16, <1>17, <1>18, <1>19, <1>20, <1>21 DEF Next, UnlockStep, UpdateStep

\* An unlocked wallet holds the secret of its data and the right seed.
LEMMA NextHold == IndInv /\ [Next]_vars => (HoldInv)'
<1> SUFFICES ASSUME IndInv, [Next]_vars PROVE (HoldInv)'
  OBVIOUS
<1>0. TypeOK /\ VersionInv /\ SoundInv /\ UpdateAlone /\ UnlockAlone /\ HoldInv
  BY DEF IndInv
<1> USE <1>0, KeysAssumption DEF VersionInv, SoundInv, UpdateAlone, UnlockAlone, HoldInv,
        Sound, Opens, CallStates, TypeOK, EncryptedData, EncryptedSecrets, UnlockPcs,
        UpdatePcs, InFlight, Idle, NewData, keyVars, Return, Goto, Overlap
<1>1. ASSUME NEW c \in Calls, NEW pw \in Passwords, UnlockStart(c, pw) PROVE (HoldInv)'
  BY <1>1 DEF UnlockStart
<1>2. ASSUME NEW c \in Calls, NEW pw \in Passwords, UpgradeStart(c, pw) PROVE (HoldInv)'
  BY <1>2 DEF UpgradeStart
<1>3. ASSUME NEW c \in Calls, NEW pw \in Passwords, ChangeStart(c, pw) PROVE (HoldInv)'
  BY <1>3 DEF ChangeStart
<1>4. ASSUME NEW c \in Calls, UnlockV1(c) PROVE (HoldInv)'
  BY <1>4 DEF UnlockV1
<1>5. ASSUME NEW c \in Calls, UnlockV2(c) PROVE (HoldInv)'
  BY <1>5 DEF UnlockV2
<1>6. ASSUME NEW c \in Calls, UnlockV2Fails(c) PROVE (HoldInv)'
  BY <1>6 DEF UnlockV2Fails
<1>7. ASSUME NEW c \in Calls, UnlockSecret(c) PROVE (HoldInv)'
  BY <1>7, SMTT(60) DEF UnlockSecret
<1>8. ASSUME NEW c \in Calls, UnlockSeed(c) PROVE (HoldInv)'
  BY <1>8, SMTT(60) DEF UnlockSeed
<1>9. ASSUME NEW c \in Calls, UnlockSeeded(c) PROVE (HoldInv)'
  BY <1>9 DEF UnlockSeeded
<1>10. ASSUME NEW c \in Calls, UnlockDerive(c) PROVE (HoldInv)'
  BY <1>10 DEF UnlockDerive
<1>11. ASSUME NEW c \in Calls, UnlockCheck(c) PROVE (HoldInv)'
  BY <1>11 DEF UnlockCheck
<1>12. ASSUME NEW c \in Calls, UpgradeEncrypt(c) PROVE (HoldInv)'
  BY <1>12 DEF UpgradeEncrypt
<1>13. ASSUME NEW c \in Calls, UpgradeStored(c) PROVE (HoldInv)'
  BY <1>13 DEF UpgradeStored
<1>14. ASSUME NEW c \in Calls, UpgradeDone(c) PROVE (HoldInv)'
  BY <1>14 DEF UpgradeDone
<1>15. ASSUME NEW c \in Calls, ChangeStored(c) PROVE (HoldInv)'
  BY <1>15 DEF ChangeStored
<1>16. ASSUME NEW c \in Calls, ChangeDone(c) PROVE (HoldInv)'
  BY <1>16 DEF ChangeDone
<1>17. ASSUME NEW c \in Calls, RequestFails(c) PROVE (HoldInv)'
  BY <1>17 DEF RequestFails
<1>18. ASSUME NEW c \in Calls, AnswerLost(c) PROVE (HoldInv)'
  BY <1>18 DEF AnswerLost
<1>19. CASE Lock
  BY <1>19 DEF Lock
<1>20. CASE InitWallet
  BY <1>20 DEF InitWallet
<1>21. CASE UNCHANGED vars
  BY <1>21 DEF vars, keyVars
<1> QED
  BY <1>1, <1>2, <1>3, <1>4, <1>5, <1>6, <1>7, <1>8, <1>9, <1>10, <1>11, <1>12, <1>13, <1>14,
     <1>15, <1>16, <1>17, <1>18, <1>19, <1>20, <1>21 DEF Next, UnlockStep, UpdateStep

\* The inductive invariant holds in every reachable state.
LEMMA Invariance == Spec => []IndInv
<1>1. IndInv /\ [Next]_vars => IndInv'
  BY NextType, NextMnemonic, NextUnlock, NextUpdate, NextVersion, NextSound, NextHold DEF IndInv
<1> QED
  BY <1>1, InitInv, PTL DEF Spec

-----------------------------------------------------------------------------
\* Every reachable state is well typed: in particular no key is ever derived from
\* a seed that lock() has removed.
THEOREM TypeCorrect == Spec => []TypeOK
<1>1. IndInv => TypeOK
  BY DEF IndInv
<1> QED
  BY <1>1, Invariance, PTL

\* Unless unlock() is called on a wallet that is unlocked or being unlocked, an
\* unlocked wallet holds the key of its checksum.
THEOREM UnlockedKey == Spec => []UnlockedHasRightKey
<1>1. IndInv => UnlockedHasRightKey
  BY DEF IndInv
<1> QED
  BY <1>1, Invariance, PTL

\* Unless updates overlap or an answer is lost, the wallet and the server have
\* the same encrypted data whenever upgradeToV3 and passwordChange are done.
THEOREM CopiesAgree == Spec => []LocalInStep
<1>1. IndInv => LocalInStep
  BY DEF IndInv
<1> QED
  BY <1>1, Invariance, PTL

\* No sequence of unlock, lock, upgradeToV3 and passwordChange without such a
\* mishap makes the seed on the server unrecoverable.
THEOREM SeedRecoverable == Spec => []RecoverableUnlessMishap
<1>1. IndInv => RecoverableUnlessMishap
  <2> SUFFICES ASSUME IndInv, mishaps = {} PROVE \E pw \in Passwords : Recovered(server, pw) =
          "right"
    BY DEF RecoverableUnlessMishap, ServerRecoverable, Recoverable
  <2>1. TypeOK /\ Sound(server)
    BY DEF IndInv, SoundInv
  <2>2. CASE server.version = "v1"
    BY <2>2, KeysAssumption DEF Recovered
  <2>3. CASE server.version # "v1"
    <3>1. server.secret.by \in Passwords
      BY <2>1 DEF TypeOK, EncryptedData, EncryptedSecrets
    <3>2. Recovered(server, server.secret.by) = "right"
      BY <2>1, <2>3 DEF Sound, Recovered, Opens
    <3> QED
      BY <3>1, <3>2
  <2> QED
    BY <2>2, <2>3
<1> QED
  BY <1>1, Invariance, PTL
=============================================================================
