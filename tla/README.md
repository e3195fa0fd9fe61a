# Verification of the Blocktrail wallet

The repository collects the projects of Blocktrail, a bitcoin wallet service, next to
many forks of libraries it uses. Its own core logic is in three places, and this project
models them:

- `src/blocktrail-sdk-nodejs/lib`: the client library (the *sdk*): requests to the
  Blocktrail API, a multisignature `Wallet` object with its keys, payments, sweeping;
- `src/blocktrail-wallet/src/js`: the mobile app, AngularJS services around the sdk
  that keep a wallet's data in PouchDB on the device and poll the API;
- `src/wallet-recovery-tool/src/js`: a page that recovers the funds of a wallet from its
  backup without the service, over the sdk's sweeper.

All of it is single-threaded JavaScript. What makes it hard is that every operation is a
chain of promise callbacks: between two of them any other operation may run, the app may
be killed, and a request may fail, or succeed without its answer coming back.

## 1. Inventory

| component | state | operations | hard because |
|---|---|---|---|
| offline addresses (`wallet.service.js` 1205-1314) | addresses document, `isRefilling` | refill, take an address, ask the API instead | reads and puts of one document interleave, refills last long |
| life of a wallet, polling (29-244, 829-835) | `_pollPromise`, `_pollTimeout`, `_noPolling`, initialisation | `initWallet`, `enablePolling`, `disablePolling`, `forcePolling`, timers | a self-renewing chain of promises and timers that others switch on and off |
| wallets manager (`wallets-manager.service.js`) | active wallet, buffer of wallets | switch, first load, reload, refresh | switches overlap and fail; two wallets' polling changes together |
| transaction sync (510-948) | last block hash, history, one document per transaction, list shown | poll, process, store, resync after ORPHAN | several documents written one by one, kills in between, blocks, reorganisations, dropped transactions |
| local storage (`local-storage.service.js`, `helper.service.js`) | document, pending data, pending promise | `setData`, `getData`, `clearData` | read-modify-write with batching |
| sdk keys (`wallet.js` 156-538) | encrypted data here and on the server, secret, seed, key, `locked` | `unlock` (three versions), `lock`, `upgradeToV3`, `passwordChange`, `initWallet` | lock and unlock race, updates of two copies with lost answers |
| sdk paying (`wallet.js` 698-785, 905-1543, `size_estimation.js`) | the steps of a payment, `bypassNewAddressCheck` | convert outputs, coin selection, change, sign, fee check, send | an untrusted API, arithmetic at boundaries, lock() in between, exceptions in callbacks |
| launch (`launch.ctrl.js`, `storage.service.js`) | documents of the old and the new storage, storage version | check the version, copy, mark, reset, choose the first screen | an upgrade of several documents that may fail or be killed between any two writes |
| setup (`login.ctrl.js`, `new-account.ctrl.js`, `wallet-pin.ctrl.js`, `wallet-backup.ctrl.js`) | setup info, account, wallets on the server, wallet info and backup here | log in or register, the chain behind the PIN, show and save the backup, log out | one chain of nine promises with one catch, two copies of what the account's wallet is, forms that can be sent twice |
| settings (`settings.service.js`, `GlideraService.js`) | one copy of settings and profile, download flags, waiting updates | load, change, upload whole, add and list purchases | downloads and changes overlap, every upload carries everything |
| sweeper (`wallet_sweeper.js`, `unspent_output_finder.js`, `services/`) | what was discovered | discover in batches and chunks, make a transaction of it | gaps, boundaries, partial failures that do not stop it |
| recovery tool (`wallet-recovery-tool/src/js/app.js`) | the flag `working`, batch size, what is shown | discover, discover again, recover, cosign, send | timeouts and answers of several operations behind one flag |

They interact as follows. The route and the wallet controller call the *wallets manager*,
which makes wallets through *initWallet* and switches their *polling*; each poll runs one
*transaction sync*; the receive screen takes *offline addresses* and the wallet controller
refills them; the *launch* decides whether the *setup* runs, which makes the wallet the
manager then loads, and both leave their documents to it; the *settings* are loaded by the
steps of the setup and by the wallet's route; paying unlocks the sdk's wallet (*keys*); the
*recovery tool* drives the *sweeper*. The database (PouchDB) is shared, but every component
has documents of its own.

`PROJECT.json` lists all components, with those that are not modelled and why, and the
hazards at their lines.

## 2. Modules

Every module's header names the files it models, and `PROJECT.json` ("map") gives the
lines behind every definition. A promise callback that reads or writes shared state is an
action. A definition marked "Mutated form" is a plausible mistake in the definition that
follows it; no specification uses it, `PROJECT.json` ("mutants") says which property it
must break.

**OfflineAddresses.** `doc` is the PouchDB document with its revision, `refill` and
`caller[c]` are the calls in flight with the copy of the document each has read. `put()`
is accepted when the revision is the stored one. Addresses are the numbers the server
issued them under, the pool is a set because every stored list goes through `unique()`.
The observers `handed`, `reused`, `restored` record who got what, `misread` that a failing first
read was taken for an empty pool. `Restart` keeps the document only. The promise chain in which
a refill reads again and stores is not returned, so when it fails nothing clears `isRefilling`
before a restart. It fails when the put meets a conflict, when the put fails otherwise, and, with
a document in the database, when its read fails; `spoiled` records which of these, and which take
between read and put, came about. A take's put and the callback that hands the address over
are one step: what comes between them touches nothing two calls share.

**WalletPolling.** One record per Wallet object: the stage of its initialisation,
`_noPolling`, `_pollPromise` (null, pending, or left behind rejected), the timers armed.
`settling` is the moment between the two callbacks at the end of a poll, in which other
callbacks may run. A poll is atomic here; WalletSync opens it.

**WalletsManager** extends WalletPolling with `_activeWallet`, the buffer `_wallets`, the
initialisations in flight, the object the screen was made with (`shown`) and a pending reload. The
user may choose a wallet other than the one on the screen at any time; the manager is asked in a
`$timeout` (`selected`), when both may have changed. The screen's refresh polls the object it was
made with, the payment's the manager's active one. The observer `mishaps` records that switches have overlapped or that
an initialisation has failed, so that one run says what holds with and without them.

**WalletSync.** The API's side is a chain (a set of increasing block numbers), and for every
transaction whether it is absent, in the mempool or in a block. The wallet's side is the
three kinds of documents, the step of the poll, what it is about to store (`next`), and
the put()s still out. The constant `Faults` says what may go wrong: dropped transactions,
reorganisations, failed requests, failed put()s, kills. The observer `damage` records
whether something has, and whether it fell between the two final put()s. That
`_resetWalletData` finds no document is modelled by the names themselves: `InResetRange`
asks whether a document's name starts with the bare identifier. `TX_FILTER_MIN_BLOCK_HEIGHT`, which
hides from the list what was confirmed before the fork of bitcoin cash, has nothing to hide: the
blocks of the model come after it.

**LocalStorage** and **UpdateRegister.** The detailed module has the document, the update
under way (`pc`, `read`, `batch`), the data collected meanwhile (`pending`) and the promise
of each call; an update that fails leaves `_pendingPromise` set (`pc = "stuck"`), after
which every call is rejected and nothing is written until a restart. UpdateRegister is what
a caller may rely on: one value, updates applied in the order of the calls (each field holds
what the last call to set it gave), a promise
resolved only after its own update. `ImplementsRegister` is the refinement, with
`batch \o pending` for the register's waiting calls.

**WalletKeys.** `server` and `local` are the two copies of the encrypted data: version, the
seed and the secret it is encrypted under, the encrypted secret with its password and
format. Secrets are numbers, a seed is right or wrong. A v1 seed comes from mnemonic and
password, so every password gives one; a v2 ciphertext has no tag, so a wrong password may
leave garbage in `self.secret`; a v3 ciphertext has one. `mishaps` records three things the
API does not guard against: unlock() on a wallet that is unlocked, being unlocked or about to
be encrypted ("reunlock"), overlapping updates ("overlap"), an answer lost after the server
has stored the update ("lost").

**SizeEstimation** has the operators of `size_estimation.js`, and beside them the weight of
the completed transaction as bitcoin serialises it, written independently, to compare the
estimate with. An input is a script (the wallet's 2 of 3 multisig, a key, a key hash) in a
form (bare, script hash, witness script hash, or both).

**Payment** is `pay()`: one record per call with its step, the outputs, what the API answered
(`answer`), the change as it stands, and where it goes. The answers are a constant set
without any condition between coins, fee and change, because the code sets out to verify
them. `buildTransaction` runs on async.waterfall (0.9.0), which starts every step in a
callback of its own; a step that throws there settles no promise, which is `pc = "hung"`. The
sdk's transaction builder throws for a coin named twice, and signing for a coin without the
path or redeem script that fits the key: a coin therefore has an outpoint, and is `signable` or
not. `locked` stands for the private key too. The position of the change output, signatures, and
the locks the API may hold on coins are left out. The observers `raced` and `bypassed` record
that lock() came before signing, and whether the address check was off at the call.

**AppLaunch** and **WalletSetup.** AppLaunch is the launch controller: `storage` is the version
document and the documents of the old and the new database, `todo` the copies of the
upgrade still out; four copies run side by side and any may fail, while the others go on also
after the answer to the failure, until the reset loads the app anew. WalletSetup extends it
with the forms, the chain of `initWallet` (`chain` names the next link), the account on the
server, and the steps that follow. The shared service behind the forms is `info`: each
link reads the identifier from it again, while `wallet` is handed from link to link. A
failure of any link goes to the one `catch` and its alert, whose only way out is a reset of
the app. Observers record what was created and saved, and four `mishaps` the properties
are relative to: a form sent while an answer is out ("twice"), or while two are ("thrice"); between
createNewWallet and setWalletBackup, a kill, a link that fails or an answer that is lost ("cut"); a
reset that deletes a backup that is stored, after a failure of the last link, a log-out of a user
who put it off, or a revoked key ("erased").

**Settings** has a currency and the list of purchases for the settings, and the picture for the
profile, each group with its own download and upload. The setters of `_doc` look at the
download flags, which are promises: a rejected one stays. Calls that come during the
settings' download wait in `waiters`; calls after it go through the local storage's queue
(`writes`) to an upload of the whole group. GlideraService adds, replaces and maps the list
of purchases. Another device may write to the server. The observer `chosen` is what the user asked
for last: it changes at the call, whether the call waits or not.

**WalletSweeper** flattens the nested loops of `discoverWalletFunds` into a position: the n-th
pair of key and chain (`at`), the first address of the batch (`i`), the chunk within it. An
address receives one coin, so that a set of addresses stands for outputs and totals can be
compared with it. `searched` has, for the last discovery, the chains on which a request failed and,
apart from them, the coins a successful answer left out because they were past its first page
(`cut`). A failure of insight whose answer has an empty body has an empty reason, which the
callbacks take for none (`HasTransactionsAgain`). Both data services are modelled, the blocktrail one with its single page.
Two releases of the sdk are: this repository's, 3.6.7, and 3.3.2, bundled with the recovery
tool (`src/wallet-recovery-tool/src/libs/blocktrail-sdk`), which differ in the chains
searched and in the fee. **RecoveryTool** extends it with the tool's operations; under 3.6.7
the client is a script that sweeps once, as `examples/wallet_recovery_example.js` does.

The modules `MC...` give the constants of the cfg files their values; `...Proofs` hold the
theorems.

## 3. Runs

| run | shows | bounds |
|---|---|---|
| offline_addresses | the pool stays within its size, unless a failed read was taken for an empty pool, and loses nothing; an address is repeated only after a refill put it back; only a spoiled put can leave a refill's flag set | 2 callers, pool of 3, refills of 2, 4 addresses issued |
| offline_reuse | **violation**: a refill merges its stale first read, an address taken meanwhile is handed out twice | same |
| polling | one timer, disabled is quiet, never forgotten, and polls for ever unless a poll fails | 2 wallets, 2 timer handles, failures on |
| manager | exactly the active wallet polls; the buffer is sound: the active wallet is in it, what was left is quiet; every switch ends | 3 objects for 2 wallets, failures and overlaps on |
| sync | the history is sound: backed by documents, no transaction twice; none missed unless torn; mined transactions get listed | 2 transactions, 3 blocks, all faults |
| sync_orphan | **violation**: the reset deletes nothing and the orphaned hash is asked for ever | 2 transactions, 2 blocks, reorganisations only |
| local_storage | refinement of UpdateRegister, and every promise settles | 4 calls on 2 fields: two collide, one is disjoint, one has nothing in the schema |
| keys | the server's data stays recoverable, an unlocked wallet has the right key, the copies agree between updates | 2 concurrent calls, 2 passwords, 3 secrets |
| payment | the fee paid is within twice the dust of the fee named, and for `base_fee` near the estimate; no dust; change comes home; the estimate covers the size; the promise settles but for named exceptions | one call at a time, real amounts: 5 lists of outputs, 145 answers |
| setup | the upgrade loses no document; keys and identifier of the wallet remembered belong together, it is the account's main one; its backup is kept but for what the mishaps name; no second wallet; every chain ends | 3 requests of the forms at once, 2 failures or kills |
| settings | the last choice is held or waits unless a call overtook one that waits; the server gets nothing nobody chose, both sides agree after a quiet session, waiting updates run | 2 calls, 2 currencies, 1 picture, 1 purchase, 2 failures, restarts or changes elsewhere |
| sweeper | discovery finds what is in reach and its totals are right, failures stay in their chain, larger batches lose nothing but coins past the page of an answer, operations do not overlap, each one ends | chains of 4 addresses, batches of 2 and 4, chunks of 3, pages of 1, 1 failure or change |

Why these bounds show the interesting cases. Every race in the code is between two
activities on one piece of state: two callers and a refill, two switches, a poll and the
network, two calls on one wallet. Two of each therefore produce every order of two reads
and two writes. Pool size 3 with refills of 2 has a refill that is cut down to what is
missing and one that is not. Three objects for two wallets let one wallet be initialised
twice. Three blocks allow a block, its replacement and one more; two transactions let one
be stored while the other is refused. Three secrets are the first and two upgrades. Payments share nothing but `locked` and
`bypassNewAddressCheck`, so one call with lock() and unlock() at any time sees what another
payment could do to it; the amounts put what is left over on both sides of twice the
dust, the change on both sides of the dust, and the fee on both sides of what `base_fee`
allows. The setup's chain has nine links; two faults are a failure and the kill during
the attempt after it. Three requests of the login form are out at once because the third is
where `KeysMatch` stops to hold: of two, one is left when the user is past the form, and the
wallet it may name is the one in hand. The ledgers of the sweeper have a first chain used only
behind a gap of one batch, or over two full batches, and a coin that arrives makes others. Chunks
of three are larger than the first batch and divide the second, so that they grow with the retry
as the finder's 150 to 200 addresses do, and with a page of one coin answers are cut. Between
them the passing runs fire all disjuncts of the next-state relations.

A type invariant is an entry of its own in the runs of OfflineAddresses, WalletKeys and Payment;
elsewhere it is a conjunct of the invariant about the same state (`BufferSound`, which takes the
types of WalletPolling along, `HistorySound`, `RememberedSound`, `InStep`, `OneAtATime`,
`ImplementsRegister`).

Deadlock is checked except where the system may stop: a wallet whose only poll has failed
waits for a user who need not come (polling, manager), a session of settings or a
recovery may be over (settings, sweeper), and a launch whose version document cannot be
written stays where it is (setup).

### Fairness

Only what JavaScript and the platform do by themselves is fair: a request is answered or
fails (the HTTP client has a timeout), promise callbacks run, `$timeout` fires, PouchDB
answers. Users are never assumed to act, and nothing is assumed about the network's
transactions and blocks. Weak fairness is enough, and is on the steps of one wallet, one
poll or one update together; failing is one of those steps, so fairness never implies
success. `KeepsPolling` and `MinedIsListed` therefore say in their statement that polls do
not fail and that no fault has happened. Setup, settings and sweeper assume the same: the
chain behind the PIN, the launch, the downloads and uploads, a discovery, and the tool's
timeouts go on by themselves; submitting a form, closing an alert, clicking a button,
changing a setting, killing the app and coins that move do not. `SetupEnds`, `WaitersRun`
and `WorkEnds` are therefore about what was begun, not about what a user may begin.

### Behaviours the model has and no property judges

These were met while modelling. Nothing in the repository says what should happen.

- A conflict on a refill's put, any other failure of it and a failure of its second read leave
  `isRefilling` set until the app is restarted. A first read that fails makes the refill ask for
  a full pool on top of the one there is.
- A transaction that is dropped from an otherwise empty mempool stays in the list: the
  answer is empty and the poll breaks out before the old list is replaced.
- A transaction that leaves the mempool and returns is added as new; the put without
  revision is refused and the poll is rejected.
- When two switches overlap, the initialisation that ends last decides which wallet is
  active, and the other may go on polling. After a switch that fails, the old wallet
  stays active with its polling off.
- After a failed update a LocalStorage rejects every call until a restart.
- The fee check of every strategy but `base_fee` multiplies the estimate with
  `self.feeSanityCheckBaseFeeMultiplier`, which the wallet does not have (it is an option of
  the API client, `api_client.js:57`): the comparison with NaN refuses nothing, although the
  step is there "to verify that the API is not providing us wrong data" (`wallet.js:1406`).
  `CheckFee` has it so; `BaseFeeSane`, a part of `EstimateHolds`, is stated for `base_fee` alone.
- `lock()` before a payment is signed, an empty coin selection, a coin named twice, a coin of
  unknown type or one whose path and redeem script the key does not fit, and a change address
  that does not decode leave the promise of `pay()` pending for ever; `PaySettles` names these
  exceptions.
- When the answer to the send request is lost, `pay()` is rejected although the transaction
  is out.
- The size estimate has no byte for the empty witness of an input without one beside
  inputs with one; `EstimateCovers` allows for it.
- lock() during unlock() does not last: the late callbacks unlock the wallet again, with
  the right key. unlock() is rejected when the key index upgrade fails (`wallet.js:195`),
  although the wallet is unlocked by then.
- A failed poll leaves a rejected promise in `_pollPromise` (`wallet.service.js:241`):
  neither enablePolling nor forcePolling starts a poll of that wallet again.
- Killed between the put of the block hash and that of the history (`wallet.service.js:847`),
  the wallet is not told of the transactions in between again (`HistoryComplete` fails;
  `MissedOnlyIfTorn` says that nothing else makes it fail).
- passwordChange sends only the encrypted secret (`wallet.js:518`). When an upgrade overlaps it,
  or the answer to one was lost, the server keeps a seed and a secret that do not belong
  together, and no password opens the wallet (`ServerRecoverable` fails;
  `RecoverableUnlessMishap` names the ways).
- The upgrade of the storage answers a failure with "@TODO: now what!?" (`launch.ctrl.js:217`)
  and goes on to a reset; a version document that cannot be written halts the launch.
- `isFormSubmit` is checked in both forms and never set, so a form can be sent again while its
  request is out. Sent twice, it may make the account's main wallet another than the one
  remembered. Sent three times at once, a late answer may change the identifier between the
  two readings of it, so that it is stored with the secret of another wallet; `KeysMatch` and
  `RememberedIsMain` name these cases.
- A wallet that exists with another password should be opened with that one, but
  `$scope.setupInfo` is not defined (`wallet-pin.ctrl.js:289`): the link throws, and the alert
  resets the app.
- Killed between setWalletInfo and setWalletBackup (`wallet-pin.ctrl.js:102`), the app comes back
  with a wallet whose backup it no longer has to offer (`launch.ctrl.js:241`). A failure of the very
  last link, after the backup is stored, resets the app and deletes it, and so does logging out
  without having saved it, which the app asks twice about (`settings.ctrl.js:509`). `BackupKept`
  names these cases.
- A picture changed before its download is over is set aside, and the upload of the same call
  sends the old one. A download that failed leaves its flag rejected until a restart, and
  `updateSettingsUp` then returns undefined: the change waits for a promise that has been rejected,
  and is gone with the session (`LastChoiceKept` counts it as waiting).
- The flag of the settings' download is cleared before the calls that waited for it are run
  (`settings.service.js:420` and `:302-305`). A change made in between does not wait, although the
  comment says "wait for syncing down to be done before syncing up" (`:176`), and the older change
  that waited is then carried out over it: the last choice is lost. `ChoiceKept` names it ("overtaken").
- The broker's list replaces the purchases; one made since it was asked for is dropped.
- The data service of the blocktrail API declares `results` again inside its loop, so that only the
  first page of a chunk's outputs is read (`blocktrail_bitcoin_service.js:96`). Chunks grow with
  the retry from 150 to 200 addresses and the page does not, so that with nothing failed and nothing
  changed a retry may find less than the search before it, while the recovery tool offers it to a
  user who is "certain you should have more" (`wallet.recovery.step-3.html:63`). `FindsInReach` and
  `AgainFindsMore` name the coins that are lost so (`cut`), apart from the failures.
- In release 3.6.7 a sweep without a fee of its own cannot succeed: the estimate is given the
  index of the output for its script (`wallet_sweeper.js:629`), although the comment above says
  the "fee will be estimated" (574).

## 4. Proofs

TLAPS proves the following for every value of the constants that satisfies the named
assumptions of the modules. These say what the constants are, and:

- `PollingAssumption`, `ManagerAssumption`, `SettingsAssumption`: the value that stands for
  nothing, or for a default, is none of the others; a call of the settings is no name of a group.
- `LaunchAssumption`: the account's old wallet is an identifier, and `None` neither is one nor a
  pair of them.
- `KeysAssumption`: the original password is a password. `PaymentAssumption`: the outputs asked
  for and the coins answered are records with whole amounts and script lengths. `SyncAssumption`:
  the faults are among those the module names.
- `LocalStorageAssumption`: calls set fields of the schema, and the defaults have all of them.
- `SweeperAssumption`: `None` is neither a finding nor a transaction.

No assumption bounds a number of wallets, callers, calls, transactions, blocks, failures or
requests: what a run checks for two or three of them is proved for any number.

**StorageProofs**, about OfflineAddresses: `TypeCorrect`, `PoolBound`, `ReuseNeedsRefill`, `RefillGoesOn`,
`PoolKeepsAddresses`. The bound of the pool is not inductive: a refill computes its size
from one read and stores the union with a later one. The inductive invariant adds that at
most one refill is in flight (`RefillFlag`), and that between its reads the stored pool
only shrinks, so that it stays within the list the refill began with, which has room for
what is still missing (`RefillRoom`). For the other two results it relates every copy to the
document: as long as the revision a writer has read is the stored one, so is what it read
(`RefillRev`, `CallerRev`), and an address of the pool that was handed out has been put back
by a refill (`PoolFresh`). `PoolKeepsAddresses` is an action property from the same invariant.
`RefillGoesOn` is inductive on top of it: the only other writer of the document is a caller's
put, so a refill that meets a conflict has been overtaken by one after its second read, or that
read has failed (`ConflictIsSpoiled`), and the flag stays set only after one of these or a failing
put.

**StorageProofs**, about LocalStorage: `StorageIsRegister`, the refinement of UpdateRegister. The
two modules say differently what a value becomes: the storage squashes the waiting data call by
call and assigns the result, the register gives every field what the last call gave it that set
it. That this is the same is proved about the library's fold (`SquashedIsLatest`,
`MergeAssigns`). The invariant is that what an update has read is what is stored as long as the
revision is the same (`StoreInv`), for which the revision 0, of no document, must have one value
only: clearData() may bring it back. Then every step of the storage is one of the register or
none (`StoreSimulates`): `Put` applies the batch at once, a failed update or one without data
rejects the promises, reads are stutters. Liveness is no part of the refinement.

**WalletsManagerProofs**, about WalletPolling: `TypeCorrect`, `TimerUnique`, `DisabledQuiet`,
`EnabledRemembered`. `DisabledIsQuiet` needs `OneTimer`: disablePolling cancels the timer
`_pollTimeout` names and no other. `NeverForgotten` speaks of ready wallets; to be inductive
it has to hold from the end of the first poll (`PolledOrTimed`), which needs that polling is
never off before a wallet is ready (`OnUntilReady`).

**WalletsManagerProofs**, about WalletsManager: `BufferIsSound`, `ActivePolls`,
`ManagedWalletsPoll`. Every step of the manager keeps the invariant of the wallets' polling
(`PollingKept`): a switch disables one wallet and enables or makes another in one step, and the
timers of different objects do not meet. On top of it: an object has an owner from the moment it
is asked for and the manager waits for it until its initialisation ends (`Owned`); what is in the
buffer is ready and filed under its owner (`Buffered`), the active wallet among it
(`ActiveOfBuffer`, with what the screen shows, and nothing selected before there is a screen); and, without overlapping switches, one object is waited for and the wallet
being left does not poll (`OneSwitch`, `PendingOn`). `OnlyActivePolls` speaks of the time between
switches; to be inductive it says of the time during a switch that nobody polls
(`PollingFollows`).

**WalletSyncProofs**: `HistoryIsSound`, `NothingElseMissed`. Between the answer and the last
put() the next history is not backed by documents; `Storing` says what it has over the stored one
(it is to be added or updated, and what is no longer out has been), which at the end makes it
as good as the stored one (`SavingSound`). It may list a transaction twice while documents are
stored, when a reorganisation has put a confirmed one back into the mempool; the put of a
document that exists is then refused and the poll stops, so such a history is never saved. For
the second theorem the next history belongs to the next hash (`NextComplete`), and the two put()s
of hash and history cannot leave one without the other but by the tear the observer names
(`SavedTogether`). What the network does is a lemma (`NetworkFrame`): it changes nothing in
blocks the wallet has seen, but by taking them away.

**WalletSetupProofs**: `UpgradeLosesNothing`, `RememberedIsSound`, `BackupIsKept`,
`NoSecondWalletIsMade`. The upgrade needs that nothing of the old database goes before all copies
are made (`Upgrading`, `BeforeMark`). For the wallet remembered the invariant follows the chain
link by link: what the server knows of the identifier read (`ServerKnows`), which answers may still
come (`Requests`), from which link on identifier, account and wallet are the same (`Following`,
`KeysFollow`) and from which the account's main wallet is the one in hand (`MainRemembered`,
`RememberedIsMain`). Answers may come at any moment in any number; that two of them cannot part
identifier and secret but three can is what `Requests` counts. `BackupFollows` says where the
backup is at each link. `NoSecondWalletIsMade` is an action property: only createNewWallet makes
one, and it is reached only by a chain that has found the account without one.

**SettingsProofs**: `ChoiceIsKept`, `AskedOnly`, `StaysInStep`. The queues hold nobody twice and only
calls in the state they wait in (`Queues`), calls that do not wait came after the download
(`Carried`). `ChoiceInv` adds to `LastChoiceKept` what each case rests on: the last choice is that of
the last call in the queue that changes the same thing, or, when none of them waits, it has been
carried out with the settings there, a picture chosen during its download being set aside; `BoughtInv`
says the same of purchases, which are on the broker's list that is on its way. `AskedInv` follows
every value on its way to the server - answer, document, picture set aside, upload - back to a
choice or an answer of the server. `StepInv` is about sessions without mishaps: one upload at a
time, and the document is what the server has, what is on its way to it, or what a call in the
queue will send.

**WalletKeysProofs**: `TypeCorrect`, `UnlockedKey`, `CopiesAgree`, `SeedRecoverable`. The
invariant has three layers. `UnlockAlone`: without a reunlock one unlock is under way at a
time and the wallet is locked meanwhile, so a check that fails, fails on a locked wallet.
`UpdateAlone`: one update at a time, and which copy is ahead at each of its steps.
`VersionInv`, `SoundInv`, `HoldInv`: without mishaps both copies are sound, what an update
sends is sound, and the secret and seed an unlocked wallet holds are those of its data or
have been removed by lock(). Recoverability follows from the soundness of the server's copy.

**PaymentProofs**: `TypeCorrect`, `FeeBound`, `EstimateIsSound`, `DustFree`, `ChangeHome`, for any
outputs and any answers. `FeeBound` needs what `Prepare` has established to survive to the end
(`ChangeVerified`: more than twice the dust left over is all change), together with what
became of the change (`ChangeSettled`: it is the one named and no dust, or it was dust and is
gone): either nothing beyond the fee is lost, or at most what was left over, which is then
no more than twice the dust. `ChangeHome` needs that the address check, once on, stays on
(`CheckStaysOn`), over all calls under way.

`EstimateIsSound` compares two sizes computed independently, input by input (`InputCovers`),
output by output (`OutputsCover`), and their totals: of two sums over the same places the one
whose members are no larger is no larger, and one that is larger by one where an input has an
empty witness exceeds it by no more than the number of these (`TotalWithin`). That `base_fee` is
near the estimate needs that the check of the fee (`FeeChecked`) is about the answer and the
outputs as they are sent.

**RecoveryToolProofs**: `WorksAlone`, `FindsThemAll`, `FindsNoLess`. `WorksAlone` follows from which
operation each step of the sweeper belongs to: `ToolInv` says for each of them what the page, the
discovery and the sweep are like while it is under way, and that what it works on is what was
found last. `FindsThemAll` is about the walk of a discovery (`WalkInv`): the batches behind it
were all used, or the chain is done with; what it has found is what lies in them, and count and
balance are the sums over it. At the end of a chain this is what lies in reach, because the walk
stops at the first batch without a used address and `InReach` asks for the same
(`StopsAtGap`), but for the coins the walk records as cut from an answer. Chains with a failed
request are excepted, and it is about a network that does not change while it is searched. `FindsNoLess` adds the history of discoveries (`HistoryInv`): what was found
last was in reach then, in batches of which the batch now is a multiple, and a larger
multiple reaches no less (`LargerReachesMore`): what is missing afterwards has been cut.

Sums and squashed data are folds of the library. What a fold is for every input is an induction
over data, which the library's induction theorems cannot give here, since they take the formula
as a parameter. It is proved as a least counterexample instead: among the subsets of a finite set
for which a formula fails one is smallest (`LeastSet`, from the library's well-founded ordering of
finite sets, which has no such parameter), and its last or chosen member leads to a smaller one.

Only model-checked: liveness (`KeepsPolling`, `SwitchEnds`, `MinedIsListed`, `PromisesSettle`,
`PaySettles`, `SetupEnds`, `WaitersRun`, `WorkEnds`), which is out of the prover's reach. Every
other property the passing runs check is a theorem.

## 5. Not modelled

- Cryptographic primitives, mnemonics, byte layouts, transaction serialisation: what they
  compute is the business of the libraries; their failures are steps where they matter.
- Balance and block height: one document each that mirrors one number.
- The sdk service of the app, which makes and caches one client per network; `upgradeKeyIndex`,
  one request about public keys at the end of unlock(), on which no state of the keys depends.
- The older size estimates of the sdk, native witness key hashes, and the locks the API
  may put on coins.
- The PIN outside of the setup, contacts, currencies, and Glidera's requests apart from the
  list of purchases.
- The screens of the recovery tool before the discovery: parsing the backup sheet, decrypting
  the mnemonics and deriving the keys, a straight line without state to lose.
- The web wallet repeats the mobile wallet's services nearly line by line; the PHP and
  Python sdks are ports; bots and examples are small programs.
- Other controllers and templates, which only call the services.
- Forks and vendored libraries (bitcoinjs, bitcore, insight, Ionic, AngularJS, Cordova and
  its plugins, several copies of each). They are nearly all of the repository's lines: the
  sources of the components above are some tens of thousands of them.

## 6. Plan

Done, in this order: OfflineAddresses, WalletPolling, WalletsManager (composing it),
WalletSync, LocalStorage with UpdateRegister, WalletKeys, SizeEstimation and Payment, AppLaunch
with WalletSetup, Settings, WalletSweeper with RecoveryTool; proofs about
all of them, the refinement of UpdateRegister included.

Next, the safety halves of the liveness properties, which the prover can reach: that a call of
`pay()` that hangs has one of the excuses of `HangExcused`, that a promise of a LocalStorage never
waits without an update under way, that a chain of the setup, a switch or an operation of the
recovery tool that is under way has a step to go on with.

To run one check: `tlc -config WalletSync.cfg MCWalletSync`; to check proofs:
`tlapm WalletKeysProofs.tla`.
