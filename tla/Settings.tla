------------------------------- MODULE Settings -------------------------------
(***************************************************************************)
(* settingsService of the mobile wallet (core/services/settings): one copy *)
(* of the account's settings and profile, downloaded when the app is       *)
(* loaded and uploaded whole after every change, with the changes          *)
(* GlideraService makes to the list of purchases.                          *)
(*                                                                         *)
(* The settings have a currency and the list of purchases, the profile has *)
(* a picture; each group is downloaded and uploaded by requests of its     *)
(* own.  Two more things are external: the server, which another device    *)
(* may write to, and the broker, who keeps a list of purchases.            *)
(*                                                                         *)
(* The copy in the local storage has none of these values: the properties  *)
(* of _doc are not enumerable, and angular.copy leaves them out.  Writing  *)
(* it is a delay, in the order of the calls, before each upload.           *)
(***************************************************************************)
EXTENDS Naturals, Sequences

CONSTANTS
    Calls,        \* calls of updateSettingsUp and the like, each made once
    Currencies,   \* currencies a user may choose
    Pics, NoPic,  \* profile pictures, and null
    Purchases,    \* transactions with the broker
    Default,      \* the currency the app is delivered with
    Unset,        \* null
    MaxFaults     \* bound of the model: failures, restarts, changes elsewhere

ASSUME SettingsAssumption ==
    /\ Calls \cap {"settings", "profile"} = {}
    /\ Default \notin Currencies /\ Unset \notin Currencies \cup {Default}
    /\ NoPic \notin Pics
    /\ MaxFaults \in Nat

VARIABLES
    loaded,      \* _loaded, and how far _loadSettings is
    down,        \* _isSyncingSettingsDown and _isSyncingProfileDown
    doc,         \* _doc
    pending,     \* _pending.profilePic, if any
    call,        \* the calls under way
    waiters,     \* calls that wait for _isSyncingSettingsDown, in order
    writes,      \* who waits for _updateLocalStorage, in order
    ups,         \* uploads on their way to the server
    listing,     \* updateAllTransactions: the broker's answer
    server,      \* the account's settings and profile
    broker,      \* the broker's list
    chosen,      \* observer: what the user asked for last in this session
    asked,       \* observer: the values the user has ever had or asked for
    mishaps,     \* observer: what happened in this session
    faults

session == <<loaded, down, doc, pending, call, waiters, writes>>
vars == <<session, ups, listing, server, broker, chosen, asked, mishaps, faults>>

Groups == {"settings", "profile"}
Defaults == [currency |-> Default, txs |-> {}, pic |-> NoPic]
NotLoaded == [g \in Groups |-> [state |-> "none", answer |-> Defaults]]
Nothing == [key |-> "nothing"]
Idle == [state |-> "idle", change |-> Nothing]
Over == [state |-> "over", change |-> Nothing]
NoChoice == [currency |-> Unset, pic |-> <<>>, txs |-> {}]

\* What a call may be asked to change.
Changes ==
    {Nothing}
    \cup [key : {"currency"}, value : Currencies]
    \cup [key : {"pic"}, value : Pics \cup {NoPic}]
    \cup [key : {"purchase"}, value : Purchases]
    \cup [key : {"txs"}, value : SUBSET Purchases]

\* What a request about one group carries.
Part(g, s) ==
    IF g = "profile" THEN [Defaults EXCEPT !.pic = s.pic]
                     ELSE [s EXCEPT !.pic = NoPic]

GroupOf(change) == IF change.key = "pic" THEN "profile" ELSE "settings"
Settings == [currency : Currencies \cup {Default, Unset}, txs : SUBSET Purchases,
             pic : Pics \cup {NoPic}]

\* The flags are promises: one that was rejected still counts as set.
SyncingDown(g) == down[g].state \in {"sent", "answered", "failed"}
Fault == faults < MaxFaults /\ faults' = faults + 1
Note(mishap, happens) == mishaps' = mishaps \cup (IF happens THEN {mishap} ELSE {})

\* A changed picture is set aside only as long as its download is not over.
Types ==
    /\ loaded \in {"no", "reading", "syncing", "done"}
    /\ down \in [Groups -> [state : {"none", "sent", "answered", "failed", "storing", "done"},
                            answer : Settings]]
    /\ doc \in Settings /\ server \in Settings
    /\ pending \in {<<>>} \cup {<<p>> : p \in Pics \cup {NoPic}}
    /\ pending # <<>> => SyncingDown("profile")
    /\ call \in [Calls -> [state : {"idle", "waiting", "writing", "sending", "adrift", "over"},
                           change : Changes]]
    /\ ups \in [Calls -> {<<>>} \cup {<<s>> : s \in Settings}]
    /\ \A c \in Calls : ups[c] # <<>> <=> call[c].state \in {"sending", "adrift"}
    /\ waiters \in Seq(Calls)
    /\ writes \in Seq(Calls \cup Groups)
    /\ listing \in {<<>>} \cup {<<s>> : s \in SUBSET Purchases}
    /\ broker \subseteq Purchases
    /\ asked \in [currency : SUBSET (Currencies \cup {Default, Unset}),
                 pic : SUBSET (Pics \cup {NoPic})]
    /\ mishaps \subseteq {"disturbed", "diverted", "listing", "overtaken"}
    /\ faults \in 0..MaxFaults

\* Types, and: the queues name calls that are waiting.
TypeOK ==
    /\ Types
    /\ \A i \in 1..Len(waiters) : call[waiters[i]].state = "waiting"
    /\ \A i \in 1..Len(writes) : writes[i] \in Calls => call[writes[i]].state = "writing"

Init ==
    /\ loaded = "no" /\ down = NotLoaded /\ doc = Defaults /\ pending = <<>>
    /\ call = [c \in Calls |-> Idle] /\ waiters = <<>> /\ writes = <<>>
    /\ ups = [c \in Calls |-> <<>>]
    /\ listing = <<>> /\ broker = {}
    /\ server \in [currency : Currencies \cup {Unset}, txs : {{}}, pic : Pics \cup {NoPic}]
    /\ chosen = NoChoice
    /\ asked = [currency |-> {server.currency} \cup
                               (IF server.currency = Unset THEN {Default} ELSE {}),
                pic |-> {server.pic}]
    /\ mishaps = {} /\ faults = 0

-----------------------------------------------------------------------------
(***************************************************************************)
(* initSettings                                                            *)
(***************************************************************************)
\* The first call; those after it share its promise, or return at once.
InitSettings ==
    /\ loaded = "no"
    /\ loaded' = "reading"
    /\ UNCHANGED <<down, doc, pending, call, waiters, writes>>
    /\ UNCHANGED <<ups, listing, server, broker, chosen, asked, mishaps, faults>>

\* _syncDocWithLocalStorage, then both downloads are started.
SyncDown ==
    /\ loaded = "reading"
    /\ loaded' = "syncing"
    /\ down' = [g \in Groups |-> [down[g] EXCEPT !.state = "sent"]]
    /\ UNCHANGED <<doc, pending, call, waiters, writes>>
    /\ UNCHANGED <<ups, listing, server, broker, chosen, asked, mishaps, faults>>

\* The server answers getSettings or getProfile.
AnswerDown(g) ==
    /\ down[g].state = "sent"
    /\ down' = [down EXCEPT ![g] = [state |-> "answered", answer |-> Part(g, server)]]
    /\ UNCHANGED <<loaded, doc, pending, call, waiters, writes>>
    /\ UNCHANGED <<ups, listing, server, broker, chosen, asked, mishaps, faults>>

\* Mutated form: the list of purchases is left out.
SetSDKSettingsToDocPartly ==
    LET answer == down["settings"].answer
    IN  doc' = [doc EXCEPT !.currency = IF answer.currency # Unset THEN answer.currency ELSE @]
\* _setSDKSettingsToDoc.  The flag is cleared first, so that the setters store.
SetSDKSettingsToDoc ==
    LET answer == down["settings"].answer
    IN  doc' = [doc EXCEPT !.currency = IF answer.currency # Unset THEN answer.currency ELSE @,
                           !.txs = answer.txs]

\* _setSDKProfileToDoc, and _syncSettingsFromPendingObject right after it.
SetSDKProfileToDoc ==
    doc' = [doc EXCEPT !.pic = IF pending # <<>> THEN Head(pending) ELSE down["profile"].answer.pic]

\* An answer is applied, and the local storage updated.
ApplyDown(g) ==
    /\ down[g].state = "answered"
    /\ down' = [down EXCEPT ![g] = [state |-> "storing", answer |-> Defaults]]
    /\ IF g = "settings" THEN SetSDKSettingsToDoc ELSE SetSDKProfileToDoc
    /\ pending' = IF g = "profile" THEN <<>> ELSE pending
    /\ writes' = Append(writes, g)
    /\ UNCHANGED <<loaded, call, waiters>>
    /\ UNCHANGED <<ups, listing, server, broker, chosen, asked, mishaps, faults>>

\* Both downloads are stored: $q.all resolves.
StoredDown(g) ==
    /\ writes # <<>> /\ Head(writes) = g
    /\ writes' = Tail(writes)
    /\ down' = [down EXCEPT ![g].state = "done"]
    /\ loaded' = IF \A h \in Groups : down'[h].state = "done" THEN "done" ELSE loaded
    /\ UNCHANGED <<doc, pending, call, waiters>>
    /\ UNCHANGED <<ups, listing, server, broker, chosen, asked, mishaps, faults>>

\* A download fails: $q.all is rejected at once, _loaded becomes true although
\* the other one may be under way, and the flag is never cleared.
DownFails(g) ==
    /\ Fault
    /\ down[g].state \in {"sent", "answered"}
    /\ down' = [down EXCEPT ![g] = [state |-> "failed", answer |-> Defaults]]
    /\ loaded' = "done"
    /\ Note("disturbed", TRUE)
    /\ UNCHANGED <<doc, pending, call, waiters, writes>>
    /\ UNCHANGED <<ups, listing, server, broker, chosen, asked>>

-----------------------------------------------------------------------------
(***************************************************************************)
(* updateSettingsUp, addGlideraTransaction, updateGlideraTransactions      *)
(***************************************************************************)
SetDocDirect(change) ==
    /\ doc' = CASE change.key = "currency" -> [doc EXCEPT !.currency = change.value]
                [] change.key = "pic" -> [doc EXCEPT !.pic = change.value]
                [] change.key = "purchase" -> [doc EXCEPT !.txs = @ \cup {change.value}]
                [] change.key = "txs" -> [doc EXCEPT !.txs = change.value]
    /\ UNCHANGED pending
\* The setters of _doc; a purchase is pushed onto the list without them.  The
\* settings are not being downloaded when they are called.
SetDoc(change) ==
    IF change.key = "pic" /\ SyncingDown("profile")
    THEN pending' = <<change.value>> /\ UNCHANGED doc
    ELSE SetDocDirect(change)

\* What a caller asks for, kept as of the moment of the call.
Chosen(change) ==
    chosen' = CASE change.key = "currency" -> [chosen EXCEPT !.currency = change.value]
                [] change.key = "pic" -> [chosen EXCEPT !.pic = <<change.value>>]
                [] change.key = "purchase" -> [chosen EXCEPT !.txs = @ \cup {change.value}]
                [] OTHER -> chosen

\* A change of one key waits; one that sets it to this value does.
Waiting(key) == \E i \in 1..Len(waiters) : call[waiters[i]].change.key = key
WaitsFor(key, value) ==
    \E i \in 1..Len(waiters) :
      call[waiters[i]].change.key = key /\ call[waiters[i]].change.value = value

\* The part that does not wait: the document is changed and stored locally.
Perform(c, change) ==
    /\ SetDoc(change)
    /\ call' = [call EXCEPT ![c] = [state |-> "writing", change |-> change]]
    /\ writes' = Append(writes, c)

\* Mutated form: a call does not wait.  The setters set the change aside, and the
\* document is uploaded without it.
UpdateSettingsUpAtOnce(c, change) ==
    /\ loaded = "done" /\ call[c].state = "idle"
    /\ \/ ~SyncingDown("settings") /\ Perform(c, change)
       \/ /\ SyncingDown("settings")
          /\ call' = [call EXCEPT ![c] = [state |-> "writing", change |-> change]]
          /\ writes' = Append(writes, c)
          /\ UNCHANGED <<doc, pending>>
    /\ Chosen(change)
    /\ UNCHANGED <<loaded, down, waiters, ups, server>>
\* A call, once initSettings has returned.  While the settings are being
\* downloaded it waits, and its caller is given nothing to wait for.
UpdateSettingsUp(c, change) ==
    /\ loaded = "done" /\ call[c].state = "idle"
    /\ \/ /\ ~SyncingDown("settings")
          /\ Perform(c, change)
          /\ UNCHANGED waiters
       \/ /\ SyncingDown("settings")
          /\ call' = [call EXCEPT ![c] = [state |-> "waiting", change |-> change]]
          /\ waiters' = Append(waiters, c)
          /\ UNCHANGED <<doc, pending, writes>>
    /\ Chosen(change)
    /\ UNCHANGED <<loaded, down, ups, server>>

\* A change carried out at once while an older one of the same kind still waits:
\* the flag is cleared before the promise that the older one waits for resolves.
Overtakes(key) == ~SyncingDown("settings") /\ Waiting(key)

\* The user changes a setting or the picture.
ChangeSetting(c) ==
    /\ \/ \E v \in Currencies :
            /\ UpdateSettingsUp(c, [key |-> "currency", value |-> v])
            /\ asked' = [asked EXCEPT !.currency = @ \cup {v}]
            /\ Note("overtaken", Overtakes("currency"))
       \/ \E p \in Pics \cup {NoPic} :
            /\ UpdateSettingsUp(c, [key |-> "pic", value |-> p])
            /\ asked' = [asked EXCEPT !.pic = @ \cup {p}]
            /\ Note("overtaken", Overtakes("pic"))
    /\ UNCHANGED <<listing, broker, faults>>

\* Mutated form: the calls that waited are dropped.
RunWaiterDrops ==
    /\ waiters # <<>> /\ down["settings"].state = "done"
    /\ waiters' = Tail(waiters)
    /\ UNCHANGED <<doc, pending, call, writes, loaded, down>>
    /\ UNCHANGED <<ups, listing, server, broker, chosen, asked, mishaps, faults>>
\* The promise of the download resolves, and those who waited call again.
RunWaiter ==
    /\ waiters # <<>> /\ down["settings"].state = "done"
    /\ waiters' = Tail(waiters)
    /\ Perform(Head(waiters), call[Head(waiters)].change)
    /\ UNCHANGED <<loaded, down>>
    /\ UNCHANGED <<ups, listing, server, broker, chosen, asked, mishaps, faults>>

\* The local storage is written, well or not; _syncSettingsUp or _syncProfileUp
\* sends what the document holds by now.
SendUp(c) ==
    /\ writes # <<>> /\ Head(writes) = c
    /\ writes' = Tail(writes)
    /\ call' = [call EXCEPT ![c].state = "sending"]
    /\ ups' = [ups EXCEPT ![c] = <<Part(GroupOf(call[c].change), doc)>>]
    /\ mishaps' = mishaps
         \cup (IF \E d \in Calls : ups[d] # <<>> THEN {"disturbed"} ELSE {})
         \cup (IF call[c].change.key = "pic" /\ SyncingDown("profile") THEN {"diverted"} ELSE {})
    /\ UNCHANGED <<loaded, down, doc, pending, waiters>>
    /\ UNCHANGED <<listing, server, broker, chosen, asked, faults>>

\* The server stores an upload; two of them may arrive in either order.
StoreUp(c) ==
    /\ ups[c] # <<>>
    /\ server' = IF GroupOf(call[c].change) = "profile"
                 THEN [server EXCEPT !.pic = ups[c][1].pic]
                 ELSE [server EXCEPT !.currency = ups[c][1].currency, !.txs = ups[c][1].txs]
    /\ ups' = [ups EXCEPT ![c] = <<>>]
    /\ call' = [call EXCEPT ![c] = Over]
    /\ UNCHANGED <<loaded, down, doc, pending, waiters, writes>>
    /\ UNCHANGED <<listing, broker, chosen, asked, mishaps, faults>>

\* An upload is refused or lost; its promise is rejected, and that is all.
UpFails(c) ==
    /\ Fault
    /\ ups[c] # <<>>
    /\ ups' = [ups EXCEPT ![c] = <<>>]
    /\ call' = [call EXCEPT ![c] = Over]
    /\ Note("disturbed", TRUE)
    /\ UNCHANGED <<loaded, down, doc, pending, waiters, writes>>
    /\ UNCHANGED <<listing, server, broker, chosen, asked>>

-----------------------------------------------------------------------------
(***************************************************************************)
(* GlideraService; it needs the access token, which is one of the settings *)
(***************************************************************************)
HasToken == down["settings"].state \in {"storing", "done"}

\* buy, at the broker.
Buy(t) ==
    /\ HasToken /\ loaded = "done"
    /\ t \notin broker
    /\ broker' = broker \cup {t}
    /\ UNCHANGED <<session, ups, listing, server, chosen, asked, mishaps, faults>>

\* The broker's answer to buy: addGlideraTransaction.
AddPurchase(c, t) ==
    /\ HasToken
    /\ t \in broker \ chosen.txs
    /\ UpdateSettingsUp(c, [key |-> "purchase", value |-> t])
    /\ Note("listing", listing # <<>>)
    /\ UNCHANGED <<listing, broker, asked, faults>>

\* updateAllTransactions asks the broker for the list.
List ==
    /\ HasToken /\ loaded = "done"
    /\ listing = <<>>
    /\ listing' = <<broker>>
    /\ UNCHANGED <<session, ups, server, broker, chosen, asked, mishaps, faults>>

\* Its answer replaces the list of the settings.
ApplyListing(c) ==
    /\ listing # <<>>
    /\ UpdateSettingsUp(c, [key |-> "txs", value |-> listing[1]])
    /\ listing' = <<>>
    /\ UNCHANGED <<broker, asked, mishaps, faults>>

\* Mutated form: the list is filtered instead of mapped.
UpdatePendingFilters(c) ==
    /\ HasToken
    /\ doc.txs # {}
    /\ UpdateSettingsUp(c, [key |-> "txs", value |-> {}])
    /\ UNCHANGED <<listing, broker, asked, mishaps, faults>>
\* updatePendingTransactions: the same entries with their new states.
UpdatePending(c) ==
    /\ HasToken
    /\ doc.txs # {}
    /\ UpdateSettingsUp(c, [key |-> "txs", value |-> doc.txs])
    /\ UNCHANGED <<listing, broker, asked, mishaps, faults>>

-----------------------------------------------------------------------------
\* Another device of the user stores a currency or a picture.
Elsewhere ==
    /\ Fault
    /\ \/ \E v \in Currencies :
            /\ server' = [server EXCEPT !.currency = v]
            /\ asked' = [asked EXCEPT !.currency = @ \cup {v}]
            /\ Note("disturbed", down["settings"].state \notin {"none", "sent"})
       \/ \E p \in Pics :
            /\ server' = [server EXCEPT !.pic = p]
            /\ asked' = [asked EXCEPT !.pic = @ \cup {p}]
            /\ Note("disturbed", down["profile"].state \notin {"none", "sent"})
    /\ UNCHANGED <<session, ups, listing, broker, chosen>>

\* The app is killed and started again; what it has sent is still on its way.
Restart ==
    /\ Fault
    /\ loaded # "no"
    /\ loaded' = "no" /\ down' = NotLoaded /\ doc' = Defaults /\ pending' = <<>>
    /\ call' = [c \in Calls |->
         CASE ups[c] # <<>> -> [call[c] EXCEPT !.state = "adrift"]
           [] call[c] = Idle -> Idle
           [] OTHER -> Over]
    /\ waiters' = <<>> /\ writes' = <<>> /\ listing' = <<>>
    /\ chosen' = NoChoice
    /\ mishaps' = (mishaps \cap {"diverted"})
         \cup (IF \E c \in Calls : ups[c] # <<>> THEN {"disturbed"} ELSE {})
    /\ UNCHANGED <<ups, server, broker, asked>>

Next ==
    \/ InitSettings \/ SyncDown
    \/ \E g \in Groups : AnswerDown(g) \/ ApplyDown(g) \/ StoredDown(g) \/ DownFails(g)
    \/ RunWaiter
    \/ \E c \in Calls :
         \/ ChangeSetting(c) \/ SendUp(c) \/ StoreUp(c) \/ UpFails(c)
         \/ \E t \in Purchases : AddPurchase(c, t)
         \/ ApplyListing(c) \/ UpdatePending(c)
    \/ \E t \in Purchases : Buy(t)
    \/ List
    \/ Elsewhere \/ Restart

Spec == Init /\ [][Next]_vars

\* Requests are answered or fail, and the app does what its promises call for.
FairSpec ==
    /\ Spec
    /\ WF_vars(SyncDown) /\ WF_vars(RunWaiter)
    /\ \A g \in Groups : WF_vars(AnswerDown(g)) /\ WF_vars(ApplyDown(g)) /\ WF_vars(StoredDown(g))
    /\ \A c \in Calls : WF_vars(SendUp(c)) /\ WF_vars(StoreUp(c))

-----------------------------------------------------------------------------
(***************************************************************************)
(* Properties                                                              *)
(***************************************************************************)
\* The currency and the picture the user asked for last in this session are those
\* the app holds, or still wait to be carried out (which they do until the app is
\* closed when the download of the settings has failed).
LastChoiceKept ==
    /\ chosen.currency # Unset =>
         \/ doc.currency = chosen.currency
         \/ WaitsFor("currency", chosen.currency)
    /\ chosen.pic # <<>> =>
         \/ chosen.pic \in {pending, <<doc.pic>>}
         \/ WaitsFor("pic", chosen.pic[1])

\* What the user asked for in this session is kept: no answer to a download that
\* is older undoes it, and changes that wait are carried out in the order they
\* were asked for.  Two exceptions are named: a change made at once in the moment
\* between the end of a download and the calls that waited for it ("overtaken"),
\* and a purchase made while the broker's list was on its way ("listing").
ChoiceKept ==
    /\ "overtaken" \notin mishaps => LastChoiceKept
    /\ "listing" \notin mishaps => chosen.txs \subseteq doc.txs

\* An upload sends everything the app holds, but the server is never given a
\* currency or a picture the user never had nor asked for, on this device or
\* another, nor a purchase unknown to the broker: not the defaults of an app whose
\* download has failed or is under way.  The one exception: when the picture is
\* changed before its own download is over, no picture is sent ("diverted").
OnlyAsked ==
    /\ server.currency \in asked.currency
    /\ \/ server.pic \in asked.pic
       \/ server.pic = NoPic /\ "diverted" \in mishaps
    /\ server.txs \subseteq broker

\* The types and queues (TypeOK); and when nothing is under way and this session
\* had no failure, no overlapping uploads and no change elsewhere, the app and the
\* server hold the same.
InStep ==
    /\ TypeOK
    /\ loaded = "done" /\ mishaps = {} /\ (\A c \in Calls : call[c] \in {Idle, Over}) =>
         /\ doc.currency = server.currency \/ (server.currency = Unset /\ doc.currency = Default)
         /\ doc.txs = server.txs /\ doc.pic = server.pic

\* A change that waits for the download is carried out, unless the download has
\* failed or the app is killed.
WaitersRun ==
    \A c \in Calls :
      call[c].state = "waiting" ~>
        call[c].state # "waiting" \/ down["settings"].state = "failed"
=============================================================================
