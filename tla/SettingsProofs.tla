---------------------------- MODULE SettingsProofs ----------------------------
(***************************************************************************)
(* Proofs about Settings, for any calls, currencies, pictures, purchases   *)
(* and any number of failures, restarts and changes elsewhere: what the    *)
(* user asked for last is what the app holds or still has to carry out,    *)
(* the server is given nothing nobody asked for, and after a session       *)
(* without mishaps both hold the same.                                     *)
(***************************************************************************)
EXTENDS Settings, TLAPS

\* What has been chosen, by type.
Choices == [currency : Currencies \cup {Unset}, pic : {<<>>} \cup {<<p>> : p \in Pics \cup {NoPic}},
            txs : SUBSET Purchases]

\* How far the downloads are when loading is this far; without a mishap loading is
\* over when both are.
Loading ==
    /\ \A g \in Groups : down[g].state = "none" <=> loaded \in {"no", "reading"}
    /\ loaded = "done" /\ "disturbed" \notin mishaps => \A g \in Groups : down[g].state = "done"

\* What is in a queue, and that nothing is in it twice.
Elems(s) == {s[i] : i \in 1..Len(s)}
Distinct(s) == \A i, j \in 1..Len(s) : s[i] = s[j] => i = j

\* Nobody waits twice, and a download waits for the local storage once it is applied.
Queues ==
    /\ Distinct(waiters) /\ Distinct(writes)
    /\ \A w \in Elems(waiters) : call[w].state = "waiting"
    /\ \A w \in Elems(writes) :
         /\ w \in Calls => call[w].state = "writing"
         /\ w \in Groups => down[w].state = "storing"

\* What the calls under way carry: those that wait were made by the user, and those
\* that do not came after the settings.
Carried ==
    /\ \A c \in Calls :
         call[c].state = "waiting" => call[c].change.key \in {"currency", "pic"} /\ loaded = "done"
    /\ \A c \in Calls : call[c].state \in {"writing", "sending"} => HasToken
    /\ listing # <<>> => HasToken

\* The last of the calls that wait to change a key is to set it to this value.
LastWaiter(key, value) ==
    \E i \in 1..Len(waiters) :
      /\ call[waiters[i]].change.key = key /\ call[waiters[i]].change.value = value
      /\ \A j \in 1..Len(waiters) : j > i => call[waiters[j]].change.key # key

\* Nothing is asked for before the app is loaded.  What is asked for last is what the
\* last waiting call carries; when none waits it has been carried out after the
\* settings were there, a picture being aside while its download is not over.
ChoiceInv ==
    /\ chosen \in Choices
    /\ loaded # "done" => chosen = NoChoice
    /\ "overtaken" \notin mishaps =>
         /\ chosen.currency # Unset =>
              IF Waiting("currency") THEN LastWaiter("currency", chosen.currency)
              ELSE HasToken /\ doc.currency = chosen.currency
         /\ chosen.pic # <<>> =>
              IF Waiting("pic") THEN LastWaiter("pic", chosen.pic[1])
              ELSE chosen.pic = IF SyncingDown("profile") THEN pending ELSE <<doc.pic>>

\* A purchase is known to the broker, and on the list that is on its way unless it
\* was made since.
BoughtInv ==
    /\ ~HasToken => chosen.txs = {}
    /\ chosen.txs \subseteq broker
    /\ "listing" \notin mishaps =>
         /\ chosen.txs \subseteq doc.txs
         /\ listing # <<>> => chosen.txs \subseteq listing[1]

\* A currency that was asked for, and a picture that was or that had to stand in for
\* one not downloaded.
CurrencyAsked(v) == v \in asked.currency
PicAsked(p) == p \in asked.pic \/ (p = NoPic /\ "diverted" \in mishaps)
HasPicture == down["profile"].state \in {"storing", "done"}

\* Wherever a value is on its way to the server, it has been asked for.
AskedInv ==
    /\ Unset \in asked.currency => Default \in asked.currency
    /\ CurrencyAsked(server.currency) /\ PicAsked(server.pic)
    /\ doc.currency # Unset
    /\ down["settings"].state = "answered" => CurrencyAsked(down["settings"].answer.currency)
    /\ HasToken => CurrencyAsked(doc.currency)
    /\ down["profile"].state = "answered" => PicAsked(down["profile"].answer.pic)
    /\ HasPicture => PicAsked(doc.pic)
    /\ pending # <<>> => PicAsked(pending[1])
    /\ \A c \in Calls :
         /\ call[c].change.key = "currency" => CurrencyAsked(call[c].change.value)
         /\ call[c].change.key = "pic" => call[c].change.value \in asked.pic
         /\ ups[c] # <<>> =>
              IF GroupOf(call[c].change) = "profile" THEN PicAsked(ups[c][1].pic)
              ELSE ups[c][1].currency # Unset /\ CurrencyAsked(ups[c][1].currency)

\* And wherever a purchase is, the broker knows it.
ListedInv ==
    /\ doc.txs \subseteq broker /\ server.txs \subseteq broker
    /\ down["settings"].state = "answered" => down["settings"].answer.txs \subseteq broker
    /\ listing # <<>> => listing[1] \subseteq broker
    /\ \A c \in Calls : ups[c] # <<>> => ups[c][1].txs \subseteq broker

-----------------------------------------------------------------------------
\* Who carries a change of one group, waiting for the local storage or sent.
Writing(g) == \E c \in Calls : call[c].state = "writing" /\ GroupOf(call[c].change) = g
Sending(g) == {c \in Calls : ups[c] # <<>> /\ GroupOf(call[c].change) = g}

\* Of what is sent and stored, the settings and the picture agree.
SameSettings(s, t) ==
    /\ s.txs = t.txs
    /\ s.currency = t.currency \/ (s.currency = Default /\ t.currency = Unset)

\* Without a mishap one upload is out at a time, and each group follows the server
\* from its answer on: the document is what the server has, what is on its way to
\* it, or what a call that is not yet sent will send.
StepInv ==
    "disturbed" \notin mishaps =>
      /\ \A c, d \in Calls : ups[c] # <<>> /\ ups[d] # <<>> => c = d
      /\ \A c \in Calls : call[c].state # "adrift"
      /\ down["settings"].state = "answered" =>
           /\ down["settings"].answer.currency = server.currency
           /\ down["settings"].answer.txs = server.txs
      /\ HasToken /\ ~Writing("settings") =>
           IF Sending("settings") = {} THEN SameSettings(doc, server)
           ELSE \A c \in Sending("settings") :
                  ups[c][1].currency = doc.currency /\ ups[c][1].txs = doc.txs
      /\ "diverted" \notin mishaps =>
           /\ down["profile"].state = "answered" => down["profile"].answer.pic = server.pic
           /\ pending # <<>> => Writing("profile")
           /\ Sending("profile") # {} => HasPicture
           /\ HasPicture /\ ~Writing("profile") =>
                IF Sending("profile") = {} THEN doc.pic = server.pic
                ELSE \A c \in Sending("profile") : ups[c][1].pic = doc.pic

\* Before it is downloaded the document has the defaults.
Fresh ==
    /\ ~HasToken => doc.currency = Default /\ doc.txs = {}
    /\ ~HasPicture => doc.pic = NoPic

SettingsInv ==
    /\ Types
    /\ Loading /\ Queues /\ Carried /\ Fresh
    /\ ChoiceInv /\ BoughtInv
    /\ AskedInv /\ ListedInv
    /\ StepInv

-----------------------------------------------------------------------------
\* Who waits for the settings' download is a call.
LEMMA WaitersAreCalls == ASSUME Types PROVE \A w \in Elems(waiters) : w \in Calls
<1>1. waiters \in Seq(Calls)
  BY DEF Types
<1> QED
  BY <1>1 DEF Elems

\* A queue that grows by something new.
LEMMA AppendFacts ==
    ASSUME NEW S, NEW s \in Seq(S), NEW x \in S, Distinct(s), x \notin Elems(s)
    PROVE  /\ Append(s, x) \in Seq(S)
           /\ Distinct(Append(s, x))
           /\ Elems(Append(s, x)) = Elems(s) \cup {x}
<1>1. /\ Append(s, x) \in Seq(S) /\ Len(Append(s, x)) = Len(s) + 1 /\ Len(s) \in Nat
      /\ \A i \in 1..Len(s) : Append(s, x)[i] = s[i]
      /\ Append(s, x)[Len(s) + 1] = x
  OBVIOUS
<1>2. Elems(Append(s, x)) = Elems(s) \cup {x}
  <2>1. ASSUME NEW e \in Elems(s) \cup {x} PROVE e \in Elems(Append(s, x))
    BY <1>1 DEF Elems
  <2>2. ASSUME NEW e \in Elems(Append(s, x)) PROVE e \in Elems(s) \cup {x}
    BY <1>1 DEF Elems
  <2> QED
    BY <2>1, <2>2
<1>3. Distinct(Append(s, x))
  BY <1>1 DEF Distinct, Elems
<1> QED
  BY <1>1, <1>2, <1>3

\* A queue that loses its head.
LEMMA TailFacts ==
    ASSUME NEW S, NEW s \in Seq(S), s # <<>>, Distinct(s)
    PROVE  /\ Head(s) \in Elems(s) /\ Head(s) \in S
           /\ Tail(s) \in Seq(S)
           /\ Distinct(Tail(s))
           /\ Elems(Tail(s)) = Elems(s) \ {Head(s)}
<1>1. /\ Tail(s) \in Seq(S) /\ Len(Tail(s)) = Len(s) - 1 /\ Len(s) \in Nat /\ Len(s) # 0
      /\ Head(s) = s[1] /\ s[1] \in S
      /\ \A i \in 1..Len(Tail(s)) : Tail(s)[i] = s[i + 1]
  OBVIOUS
<1>2. Head(s) \in Elems(s)
  BY <1>1 DEF Elems
<1>3. Distinct(Tail(s))
  <2>1. SUFFICES ASSUME NEW i \in 1..Len(Tail(s)), NEW j \in 1..Len(Tail(s)),
                        Tail(s)[i] = Tail(s)[j]
                 PROVE  i = j
    BY DEF Distinct
  <2>2. i + 1 \in 1..Len(s) /\ j + 1 \in 1..Len(s) /\ s[i + 1] = s[j + 1]
    BY <1>1, <2>1
  <2>3. i + 1 = j + 1
    BY <2>2 DEF Distinct
  <2> QED
    BY <2>3
<1>4. Elems(Tail(s)) = Elems(s) \ {Head(s)}
  <2>1. ASSUME NEW i \in 1..Len(Tail(s)) PROVE Tail(s)[i] \in Elems(s) \ {Head(s)}
    <3>1. i + 1 \in 1..Len(s) /\ 1 \in 1..Len(s) /\ i + 1 # 1
      BY <1>1, <2>1
    <3>2. s[i + 1] # s[1]
      BY <3>1 DEF Distinct
    <3> QED
      BY <1>1, <3>1, <3>2 DEF Elems
  <2>2. ASSUME NEW i \in 1..Len(s), s[i] # Head(s) PROVE s[i] \in Elems(Tail(s))
    <3>1. i - 1 \in 1..Len(Tail(s)) /\ (i - 1) + 1 = i
      BY <1>1, <2>2
    <3>2. Tail(s)[i - 1] = s[i]
      BY <1>1, <3>1
    <3> QED
      BY <3>1, <3>2 DEF Elems
  <2> QED
    BY <2>1, <2>2 DEF Elems
<1> QED
  BY <1>1, <1>2, <1>3, <1>4

\* Calls that wait are not touched.
LEMMA WaitersSame ==
    ASSUME waiters' = waiters, \A w \in Elems(waiters) : call'[w] = call[w]
    PROVE  \A k : /\ Waiting(k)' <=> Waiting(k)
                  /\ \A v : LastWaiter(k, v)' <=> LastWaiter(k, v)
<1>1. \A i \in 1..Len(waiters) : call'[waiters[i]] = call[waiters[i]]
  BY DEF Elems
<1> QED
  BY <1>1 DEF Waiting, LastWaiter

\* A call joins those that wait: it is the last one now.
LEMMA WaitersJoined ==
    ASSUME NEW c \in Calls, waiters \in Seq(Calls), waiters' = Append(waiters, c),
           \A w \in Elems(waiters) : call'[w] = call[w]
    PROVE  /\ LastWaiter(call[c].change.key, call[c].change.value)'
           /\ \A k : k # call'[c].change.key =>
                /\ Waiting(k)' <=> Waiting(k)
                /\ \A v : LastWaiter(k, v) => LastWaiter(k, v)'
           /\ Waiting(call[c].change.key)'
<1>1. /\ Len(waiters') = Len(waiters) + 1 /\ Len(waiters) \in Nat
      /\ waiters'[Len(waiters) + 1] = c
      /\ \A i \in 1..Len(waiters) : waiters'[i] = waiters[i]
  OBVIOUS
<1>2. \A i \in 1..Len(waiters) : call'[waiters'[i]] = call[waiters[i]]
  BY <1>1 DEF Elems
<1>3. call'[waiters'[Len(waiters) + 1]] = call'[c]
  BY <1>1
<1>4. \A i \in 1..Len(waiters') : i \in 1..Len(waiters) \/ i = Len(waiters) + 1
  BY <1>1
<1>5. Len(waiters) + 1 \in 1..Len(waiters')
      /\ \A i \in 1..Len(waiters) : i \in 1..Len(waiters')
  BY <1>1
<1>6. LastWaiter(call[c].change.key, call[c].change.value)' /\ Waiting(call[c].change.key)'
  BY <1>1, <1>3, <1>4, <1>5 DEF LastWaiter, Waiting
<1>7. ASSUME NEW k, k # call'[c].change.key PROVE Waiting(k)' <=> Waiting(k)
  BY <1>2, <1>3, <1>4, <1>5, <1>7 DEF Waiting
<1>8. ASSUME NEW k, k # call'[c].change.key, NEW v, LastWaiter(k, v) PROVE LastWaiter(k, v)'
  <2>1. PICK i \in 1..Len(waiters) :
          /\ call[waiters[i]].change.key = k /\ call[waiters[i]].change.value = v
          /\ \A j \in 1..Len(waiters) : j > i => call[waiters[j]].change.key # k
    BY <1>8 DEF LastWaiter
  <2>2. i \in 1..Len(waiters') /\ call'[waiters'[i]].change.key = k
        /\ call'[waiters'[i]].change.value = v
    BY <1>2, <1>5, <2>1
  <2>3. \A j \in 1..Len(waiters') : j > i => call'[waiters'[j]].change.key # k
    BY <1>2, <1>3, <1>4, <1>8, <2>1
  <2> QED
    BY <2>2, <2>3 DEF LastWaiter
<1> QED
  BY <1>6, <1>7, <1>8

\* The first of those that wait goes on.  The last one for a key is still that, unless
\* it was the first and nobody else waits to change the key.
LEMMA WaitersLeft ==
    ASSUME waiters \in Seq(Calls), waiters # <<>>, waiters' = Tail(waiters),
           Distinct(waiters), \A w \in Elems(waiters) \ {Head(waiters)} : call'[w] = call[w]
    PROVE  \A k :
             /\ Waiting(k)' => Waiting(k)
             /\ k # call[Head(waiters)].change.key => (Waiting(k) => Waiting(k)')
             /\ \A v : LastWaiter(k, v) =>
                  \/ LastWaiter(k, v)'
                  \/ /\ ~Waiting(k)'
                     /\ call[Head(waiters)].change.key = k
                     /\ call[Head(waiters)].change.value = v
<1>1. /\ Len(waiters') = Len(waiters) - 1 /\ Len(waiters) \in Nat /\ Len(waiters) # 0
      /\ Head(waiters) = waiters[1]
      /\ \A i \in 1..Len(waiters') : waiters'[i] = waiters[i + 1]
  OBVIOUS
<1>2. \A i \in 1..Len(waiters') : i + 1 \in 1..Len(waiters)
  BY <1>1
<1>3. ASSUME NEW i \in 1..Len(waiters') PROVE call'[waiters'[i]] = call[waiters[i + 1]]
  <2>1. i + 1 \in 1..Len(waiters) /\ 1 \in 1..Len(waiters) /\ i + 1 # 1
    BY <1>1
  <2>2. waiters[i + 1] # waiters[1] /\ waiters[i + 1] \in Elems(waiters)
    BY <2>1 DEF Distinct, Elems
  <2> QED
    BY <1>1, <2>2
<1>4. ASSUME NEW i \in 1..Len(waiters), i # 1
      PROVE  i - 1 \in 1..Len(waiters') /\ call'[waiters'[i - 1]] = call[waiters[i]]
  <2>1. i - 1 \in 1..Len(waiters') /\ (i - 1) + 1 = i
    BY <1>1, <1>4
  <2> QED
    BY <1>3, <2>1
<1>5. ASSUME NEW k PROVE Waiting(k)' => Waiting(k)
  BY <1>2, <1>3 DEF Waiting
<1>6. ASSUME NEW k, k # call[Head(waiters)].change.key, Waiting(k) PROVE Waiting(k)'
  BY <1>1, <1>4, <1>6 DEF Waiting
<1>7. ASSUME NEW k, NEW v, LastWaiter(k, v)
      PROVE  \/ LastWaiter(k, v)'
             \/ /\ ~Waiting(k)'
                /\ call[Head(waiters)].change.key = k
                /\ call[Head(waiters)].change.value = v
  <2>1. PICK i \in 1..Len(waiters) :
          /\ call[waiters[i]].change.key = k /\ call[waiters[i]].change.value = v
          /\ \A j \in 1..Len(waiters) : j > i => call[waiters[j]].change.key # k
    BY <1>7 DEF LastWaiter
  <2>2. CASE i = 1
    <3>1. \A j \in 1..Len(waiters') : call'[waiters'[j]].change.key # k
      BY <1>1, <1>2, <1>3, <2>1, <2>2
    <3> QED
      BY <1>1, <2>1, <2>2, <3>1 DEF Waiting
  <2>3. CASE i # 1
    <3>1. /\ i - 1 \in 1..Len(waiters')
          /\ call'[waiters'[i - 1]].change.key = k /\ call'[waiters'[i - 1]].change.value = v
      BY <1>4, <2>1, <2>3
    <3>2. \A j \in 1..Len(waiters') : j > i - 1 => call'[waiters'[j]].change.key # k
      BY <1>1, <1>2, <1>3, <2>1
    <3> QED
      BY <3>1, <3>2 DEF LastWaiter
  <2> QED
    BY <2>2, <2>3
<1> QED
  BY <1>5, <1>6, <1>7

\* What a change is, by its key.
LEMMA ChangeFacts ==
    ASSUME NEW x \in Changes
    PROVE  /\ x.key \in {"nothing", "currency", "pic", "purchase", "txs"}
           /\ x.key = "currency" => x.value \in Currencies
           /\ x.key = "pic" => x.value \in Pics \cup {NoPic}
           /\ x.key = "purchase" => x.value \in Purchases
           /\ x.key = "txs" => x.value \in SUBSET Purchases
BY DEF Changes, Nothing

\* What a request about one group carries of it.
LEMMA PartFacts ==
    ASSUME NEW s \in Settings, NEW g \in Groups
    PROVE  /\ Part(g, s) \in Settings
           /\ g = "profile" => Part(g, s).pic = s.pic
           /\ g = "settings" => Part(g, s).currency = s.currency /\ Part(g, s).txs = s.txs
           /\ Part(g, s).txs \subseteq s.txs
BY DEF Part, Settings, Defaults, Groups

\* The inductive invariant is more than the types and queues.
LEMMA InvImpliesTypeOK == SettingsInv => TypeOK
<1> SUFFICES ASSUME SettingsInv PROVE TypeOK
  OBVIOUS
<1>1. \A i \in 1..Len(waiters) : call[waiters[i]].state = "waiting"
  BY DEF SettingsInv, Queues, Elems
<1>2. \A i \in 1..Len(writes) : writes[i] \in Calls => call[writes[i]].state = "writing"
  BY DEF SettingsInv, Queues, Elems
<1> QED
  BY <1>1, <1>2 DEF SettingsInv, TypeOK

\* The invariant holds before the app is loaded.
LEMMA InitInv == Init => SettingsInv
<1> SUFFICES ASSUME Init PROVE SettingsInv
  OBVIOUS
<1> USE SettingsAssumption DEF Init
<1>1. Defaults \in Settings /\ server \in Settings /\ Idle.state = "idle" /\ Idle.change \in Changes
      /\ Idle.change = Nothing /\ Nothing.key = "nothing"
  BY DEF Defaults, Settings, Idle, Changes, Nothing
<1>2. \A g \in Groups : down[g].state = "none" /\ down[g].answer = Defaults
  BY DEF NotLoaded
<1>3. ~HasToken /\ ~HasPicture /\ ~SyncingDown("profile")
  BY <1>2 DEF HasToken, HasPicture, SyncingDown, Groups
<1>4. \A c \in Calls : call[c] = Idle /\ ups[c] = <<>>
  OBVIOUS
<1>5. Types
  <2>1. down \in [Groups -> [state : {"none", "sent", "answered", "failed", "storing", "done"},
                             answer : Settings]]
    BY <1>1 DEF NotLoaded
  <2>2. call \in [Calls -> [state : {"idle", "waiting", "writing", "sending", "adrift", "over"},
                            change : Changes]]
    BY <1>1 DEF Idle
  <2>3. ups \in [Calls -> {<<>>} \cup {<<s>> : s \in Settings}]
    OBVIOUS
  <2>4. \A c \in Calls : ups[c] # <<>> <=> call[c].state \in {"sending", "adrift"}
    BY <1>1, <1>4
  <2> QED
    BY <1>1, <2>1, <2>2, <2>3, <2>4 DEF Types
<1>6. Loading /\ Queues /\ Carried /\ Fresh
  BY <1>1, <1>2, <1>4 DEF Loading, Queues, Carried, Fresh, Elems, Distinct, Defaults, HasPicture, Groups
<1>7. ChoiceInv /\ BoughtInv
  BY <1>3 DEF ChoiceInv, BoughtInv, Choices, NoChoice
<1>8. AskedInv /\ ListedInv
  BY <1>1, <1>2, <1>3, <1>4
  DEF AskedInv, ListedInv, CurrencyAsked, PicAsked, Defaults, Settings, Groups
<1>9. StepInv
  BY <1>1, <1>2, <1>3, <1>4 DEF StepInv, Groups, Sending
<1> QED
  BY <1>5, <1>6, <1>7, <1>8, <1>9 DEF SettingsInv

-----------------------------------------------------------------------------
\* initSettings and the start of both downloads.
LEMMA StartKeeps == SettingsInv /\ (InitSettings \/ SyncDown) => SettingsInv'
<1> SUFFICES ASSUME SettingsInv, InitSettings \/ SyncDown PROVE SettingsInv'
  OBVIOUS
<1>1. /\ UNCHANGED <<doc, pending, call, waiters, writes>>
      /\ UNCHANGED <<ups, listing, server, broker, chosen, asked, mishaps, faults>>
      /\ \/ loaded = "no" /\ loaded' = "reading" /\ UNCHANGED down
         \/ /\ loaded = "reading" /\ loaded' = "syncing"
            /\ down' = [g \in Groups |-> [down[g] EXCEPT !.state = "sent"]]
  BY DEF InitSettings, SyncDown
<1>2. \A g \in Groups : down[g].state = "none"
  BY <1>1 DEF SettingsInv, Loading
<1>3. \A g \in Groups : /\ down'[g].state = IF loaded' = "reading" THEN "none" ELSE "sent"
                        /\ down'[g].answer = down[g].answer
  BY <1>1, <1>2 DEF SettingsInv, Types
<1>4. /\ ~HasToken /\ ~HasToken' /\ ~HasPicture /\ ~HasPicture' /\ ~SyncingDown("profile")
  BY <1>2, <1>3 DEF HasToken, HasPicture, SyncingDown, Groups
<1>5. pending = <<>> /\ chosen = NoChoice
  BY <1>1, <1>4 DEF SettingsInv, Types, ChoiceInv
<1>6. Types'
  BY <1>1, <1>5, SMTT(30) DEF SettingsInv, Types
<1>7. (Loading /\ Fresh)'
  <2>1. loaded' \in {"reading", "syncing"}
    BY <1>1
  <2>2. \A g \in Groups : down'[g].state = "none" <=> loaded' \in {"no", "reading"}
    BY <1>3, <2>1
  <2> QED
    BY <1>1, <1>4, <2>1, <2>2 DEF SettingsInv, Loading, Fresh
<1>8. (Queues /\ Carried)'
  BY <1>1, <1>2, <1>4 DEF SettingsInv, Queues, Carried
<1>9. (ChoiceInv /\ BoughtInv)'
  BY <1>1, <1>4, <1>5 DEF SettingsInv, ChoiceInv, BoughtInv, NoChoice
<1>10. (AskedInv /\ ListedInv)'
  BY <1>1, <1>3, <1>4 DEF SettingsInv, AskedInv, ListedInv, CurrencyAsked, PicAsked, Groups
<1>11. StepInv'
  BY <1>1, <1>3, <1>4 DEF SettingsInv, StepInv, Groups, Writing, Sending
<1> QED
  BY <1>6, <1>7, <1>8, <1>9, <1>10, <1>11 DEF SettingsInv

\* The server's answer is what the server holds.
LEMMA AnswerDownKeeps == ASSUME SettingsInv, NEW g \in Groups, AnswerDown(g) PROVE SettingsInv'
<1>1. /\ UNCHANGED <<loaded, doc, pending, call, waiters, writes>>
      /\ UNCHANGED <<ups, listing, server, broker, chosen, asked, mishaps, faults>>
      /\ down[g].state = "sent"
      /\ down' = [down EXCEPT ![g] = [state |-> "answered", answer |-> Part(g, server)]]
  BY DEF AnswerDown
<1>2. /\ server \in Settings /\ Part(g, server) \in Settings
      /\ g = "profile" => Part(g, server).pic = server.pic
      /\ g = "settings" => /\ Part(g, server).currency = server.currency
                           /\ Part(g, server).txs = server.txs
  BY PartFacts DEF SettingsInv, Types
<1>3. /\ down'[g].state = "answered" /\ down'[g].answer = Part(g, server)
      /\ \A h \in Groups \ {g} : down'[h] = down[h]
  BY <1>1 DEF SettingsInv, Types
<1>4. /\ UNCHANGED <<HasToken, HasPicture>> /\ (SyncingDown("profile") <=> SyncingDown("profile")')
  BY <1>1, <1>3 DEF HasToken, HasPicture, SyncingDown, Groups
<1>5. Types'
  BY <1>1, <1>2, <1>4 DEF SettingsInv, Types
<1>6. (Loading /\ Fresh)'
  BY <1>1, <1>3, <1>4 DEF SettingsInv, Loading, Fresh
<1>7. (Queues /\ Carried)'
  BY <1>1, <1>3, <1>4 DEF SettingsInv, Queues, Carried
<1>8. (ChoiceInv /\ BoughtInv)'
  BY <1>1, <1>4, WaitersSame DEF SettingsInv, ChoiceInv, BoughtInv
<1>9. (AskedInv /\ ListedInv)'
  BY <1>1, <1>2, <1>3, <1>4
  DEF SettingsInv, AskedInv, ListedInv, CurrencyAsked, PicAsked, Groups
<1>10. StepInv'
  BY <1>1, <1>2, <1>3, <1>4 DEF SettingsInv, StepInv, Groups, Writing, Sending
<1> QED
  BY <1>5, <1>6, <1>7, <1>8, <1>9, <1>10 DEF SettingsInv

\* The settings of the server become the app's: what was asked for before waits, and
\* nothing is on its way to the server.
LEMMA ApplySettingsKeeps == SettingsInv /\ ApplyDown("settings") => SettingsInv'
<1> SUFFICES ASSUME SettingsInv, ApplyDown("settings") PROVE SettingsInv'
  OBVIOUS
<1> DEFINE answer == down["settings"].answer
<1>1. /\ UNCHANGED <<loaded, pending, call, waiters>>
      /\ UNCHANGED <<ups, listing, server, broker, chosen, asked, mishaps, faults>>
      /\ down["settings"].state = "answered"
      /\ down' = [down EXCEPT !["settings"] = [state |-> "storing", answer |-> Defaults]]
      /\ doc' = [doc EXCEPT !.currency = IF answer.currency # Unset THEN answer.currency ELSE @,
                            !.txs = answer.txs]
      /\ writes' = Append(writes, "settings")
  BY DEF ApplyDown, SetSDKSettingsToDoc
<1>2. /\ down'["settings"].state = "storing" /\ down'["profile"] = down["profile"]
      /\ answer \in Settings /\ doc \in Settings /\ Defaults \in Settings
  BY <1>1 DEF SettingsInv, Types, Groups, Defaults, Settings
<1>3. /\ ~HasToken /\ HasToken' /\ UNCHANGED HasPicture
      /\ SyncingDown("profile") <=> SyncingDown("profile")'
  BY <1>1, <1>2 DEF HasToken, HasPicture, SyncingDown
<1>4. /\ chosen.txs = {} /\ listing = <<>> /\ doc.currency = Default
      /\ \A c \in Calls : call[c].state \notin {"writing", "sending"}
  BY <1>3 DEF SettingsInv, BoughtInv, Carried, Fresh
<1>5. /\ doc' \in Settings /\ doc'.pic = doc.pic /\ doc'.txs = answer.txs
      /\ doc'.currency = IF answer.currency # Unset THEN answer.currency ELSE Default
  BY <1>1, <1>2, <1>4 DEF Settings
<1>6. "settings" \notin Elems(writes) /\ "settings" \notin Calls
  BY <1>1, SettingsAssumption DEF SettingsInv, Queues, Groups
<1>7. /\ writes' \in Seq(Calls \cup Groups) /\ Distinct(writes')
      /\ Elems(writes') = Elems(writes) \cup {"settings"}
  BY <1>1, <1>6, AppendFacts DEF SettingsInv, Types, Queues, Groups
<1>8. Types'
  BY <1>1, <1>2, <1>3, <1>5, <1>7 DEF SettingsInv, Types
<1>9. (Loading /\ Fresh /\ Carried)'
  BY <1>1, <1>2, <1>3 DEF SettingsInv, Loading, Fresh, Carried, Groups
<1>10. Queues'
  BY <1>1, <1>2, <1>6, <1>7 DEF SettingsInv, Queues, Groups
<1>11. (ChoiceInv /\ BoughtInv)'
  BY <1>1, <1>3, <1>4, <1>5, WaitersSame DEF SettingsInv, ChoiceInv, BoughtInv
<1>12. (AskedInv /\ ListedInv)'
  <2>1. AskedInv /\ ListedInv
    BY DEF SettingsInv
  <2>2. ListedInv'
    BY <1>1, <1>2, <1>4, <1>5, <2>1 DEF ListedInv
  <2>3. doc'.currency # Unset /\ CurrencyAsked(doc'.currency)
    BY <1>1, <1>5, <2>1, SettingsAssumption DEF AskedInv, CurrencyAsked
  <2>4. down'["profile"] = down["profile"] /\ down'["settings"].state # "answered"
    BY <1>2
  <2>5. \A v : CurrencyAsked(v) <=> CurrencyAsked(v)'
    BY <1>1 DEF CurrencyAsked
  <2>6. \A v : PicAsked(v) <=> PicAsked(v)'
    BY <1>1 DEF PicAsked
  <2>7. AskedInv'
    BY <1>1, <1>3, <1>5, <2>1, <2>3, <2>4, <2>5, <2>6 DEF AskedInv
  <2> QED
    BY <2>2, <2>7
<1>13. StepInv'
  <2>1. "disturbed" \notin mishaps => Sending("settings") = {}
    BY <1>4 DEF SettingsInv, StepInv, Types, Sending
  <2> QED
    BY <1>1, <1>2, <1>3, <1>4, <1>5, <2>1
    DEF SettingsInv, Types, StepInv, Writing, Sending, SameSettings
<1> QED
  BY <1>8, <1>9, <1>10, <1>11, <1>12, <1>13 DEF SettingsInv

\* The picture of the server becomes the app's, unless one was set aside.
LEMMA ApplyProfileKeeps == SettingsInv /\ ApplyDown("profile") => SettingsInv'
<1> SUFFICES ASSUME SettingsInv, ApplyDown("profile") PROVE SettingsInv'
  OBVIOUS
<1> DEFINE answer == down["profile"].answer
<1>1. /\ UNCHANGED <<loaded, call, waiters>>
      /\ UNCHANGED <<ups, listing, server, broker, chosen, asked, mishaps, faults>>
      /\ down["profile"].state = "answered" /\ pending' = <<>>
      /\ down' = [down EXCEPT !["profile"] = [state |-> "storing", answer |-> Defaults]]
      /\ doc' = [doc EXCEPT !.pic = IF pending # <<>> THEN Head(pending) ELSE answer.pic]
      /\ writes' = Append(writes, "profile")
  BY DEF ApplyDown, SetSDKProfileToDoc
<1>2. /\ down'["profile"].state = "storing" /\ down'["settings"] = down["settings"]
      /\ answer \in Settings /\ doc \in Settings /\ Defaults \in Settings
      /\ pending \in {<<>>} \cup {<<p>> : p \in Pics \cup {NoPic}}
  BY <1>1 DEF SettingsInv, Types, Groups, Defaults, Settings
<1>3. /\ ~HasPicture /\ HasPicture' /\ UNCHANGED HasToken
      /\ SyncingDown("profile") /\ ~SyncingDown("profile")'
  BY <1>1, <1>2 DEF HasToken, HasPicture, SyncingDown
<1>4. /\ doc' \in Settings /\ doc'.txs = doc.txs /\ doc'.currency = doc.currency
      /\ pending = <<>> => doc'.pic = answer.pic
      /\ pending # <<>> => pending = <<doc'.pic>> /\ doc'.pic = pending[1]
  BY <1>1, <1>2 DEF Settings
<1>5. "profile" \notin Elems(writes) /\ "profile" \notin Calls
  BY <1>1, SettingsAssumption DEF SettingsInv, Queues, Groups
<1>6. /\ writes' \in Seq(Calls \cup Groups) /\ Distinct(writes')
      /\ Elems(writes') = Elems(writes) \cup {"profile"}
  BY <1>1, <1>5, AppendFacts DEF SettingsInv, Types, Queues, Groups
<1>7. Types'
  BY <1>1, <1>2, <1>4, <1>6 DEF SettingsInv, Types
<1>8. (Loading /\ Fresh /\ Carried)'
  BY <1>1, <1>2, <1>3, <1>4 DEF SettingsInv, Loading, Fresh, Carried, Groups
<1>9. Queues'
  BY <1>1, <1>2, <1>5, <1>6 DEF SettingsInv, Queues, Groups
<1>10. (ChoiceInv /\ BoughtInv)'
  BY <1>1, <1>3, <1>4, WaitersSame DEF SettingsInv, ChoiceInv, BoughtInv
<1>11. (AskedInv /\ ListedInv)'
  BY <1>1, <1>2, <1>3, <1>4 DEF SettingsInv, AskedInv, ListedInv, CurrencyAsked, PicAsked
<1>12. StepInv'
  BY <1>1, <1>2, <1>3, <1>4 DEF SettingsInv, StepInv, Writing, Sending, SameSettings
<1> QED
  BY <1>7, <1>8, <1>9, <1>10, <1>11, <1>12 DEF SettingsInv

\* A download is stored.
LEMMA StoredDownKeeps == ASSUME SettingsInv, NEW g \in Groups, StoredDown(g) PROVE SettingsInv'
<1>1. /\ UNCHANGED <<doc, pending, call, waiters>>
      /\ UNCHANGED <<ups, listing, server, broker, chosen, asked, mishaps, faults>>
      /\ writes # <<>> /\ Head(writes) = g /\ writes' = Tail(writes)
      /\ down' = [down EXCEPT ![g].state = "done"]
      /\ loaded' = IF \A h \in Groups : down'[h].state = "done" THEN "done" ELSE loaded
  BY DEF StoredDown
<1>2. /\ g \in Elems(writes) /\ writes' \in Seq(Calls \cup Groups) /\ Distinct(writes')
      /\ Elems(writes') = Elems(writes) \ {g}
  BY <1>1, TailFacts DEF SettingsInv, Types, Queues
<1>3. down[g].state = "storing"
  BY <1>2 DEF SettingsInv, Queues
<1>4. /\ down'[g].state = "done" /\ down'[g].answer = down[g].answer
      /\ \A h \in Groups \ {g} : down'[h] = down[h]
  BY <1>1 DEF SettingsInv, Types
<1>5. /\ HasToken <=> HasToken'
      /\ HasPicture <=> HasPicture'
      /\ SyncingDown("profile") <=> SyncingDown("profile")'
  BY <1>3, <1>4 DEF HasToken, HasPicture, SyncingDown, Groups
<1>6. Types'
  <2>0. down \in [Groups -> [state : {"none", "sent", "answered", "failed", "storing", "done"},
                             answer : Settings]]
    BY DEF SettingsInv, Types
  <2>1. down' \in [Groups -> [state : {"none", "sent", "answered", "failed", "storing", "done"},
                              answer : Settings]]
    BY <1>1, <2>0
  <2>2. loaded' \in {"no", "reading", "syncing", "done"}
    BY <1>1 DEF SettingsInv, Types
  <2> HIDE DEF SettingsInv
  <2>3. Types
    BY DEF SettingsInv
  <2> QED
    BY <1>1, <1>2, <1>5, <2>1, <2>2, <2>3 DEF Types
<1>7. Loading'
  <2>1. loaded \notin {"no", "reading"} /\ loaded' \notin {"no", "reading"}
    BY <1>1, <1>3 DEF SettingsInv, Loading
  <2>2. \A h \in Groups : down'[h].state # "none"
    BY <1>4, <2>1 DEF SettingsInv, Loading
  <2>3. loaded' = "done" /\ "disturbed" \notin mishaps' => \A h \in Groups : down'[h].state = "done"
    BY <1>1, <1>4 DEF SettingsInv, Loading
  <2> QED
    BY <2>1, <2>2, <2>3 DEF Loading
<1>8. (Fresh /\ Carried)'
  BY <1>1, <1>5 DEF SettingsInv, Fresh, Carried
<1>9. Queues'
  BY <1>1, <1>2, <1>4 DEF SettingsInv, Queues
<1>10. (ChoiceInv /\ BoughtInv)'
  BY <1>1, <1>5, WaitersSame DEF SettingsInv, ChoiceInv, BoughtInv
<1>11. (AskedInv /\ ListedInv)'
  BY <1>1, <1>4, <1>5 DEF SettingsInv, AskedInv, ListedInv, CurrencyAsked, PicAsked, Groups
<1>12. StepInv'
  BY <1>1, <1>4, <1>5 DEF SettingsInv, StepInv, Writing, Sending, SameSettings, Groups
<1> QED
  BY <1>6, <1>7, <1>8, <1>9, <1>10, <1>11, <1>12 DEF SettingsInv

\* A download fails: its flag stays, and what was set aside stays so.
LEMMA DownFailsKeeps == ASSUME SettingsInv, NEW g \in Groups, DownFails(g) PROVE SettingsInv'
<1>1. /\ UNCHANGED <<doc, pending, call, waiters, writes>>
      /\ UNCHANGED <<ups, listing, server, broker, chosen, asked>>
      /\ down[g].state \in {"sent", "answered"}
      /\ down' = [down EXCEPT ![g] = [state |-> "failed", answer |-> Defaults]]
      /\ loaded' = "done" /\ mishaps' = mishaps \cup {"disturbed"}
      /\ faults < MaxFaults /\ faults' = faults + 1
  BY DEF DownFails, Fault, Note
<1>2. /\ down'[g].state = "failed" /\ Defaults \in Settings
      /\ \A h \in Groups \ {g} : down'[h] = down[h]
  BY <1>1 DEF SettingsInv, Types, Defaults, Settings
<1>3. /\ HasToken <=> HasToken'
      /\ HasPicture <=> HasPicture'
      /\ SyncingDown("profile") <=> SyncingDown("profile")'
  BY <1>1, <1>2 DEF HasToken, HasPicture, SyncingDown, Groups
<1>4. Types'
  BY <1>1, <1>2, <1>3, SettingsAssumption DEF SettingsInv, Types
<1>5. Loading'
  <2>1. \A h \in Groups : down'[h].state # "none"
    BY <1>1, <1>2 DEF SettingsInv, Loading
  <2> QED
    BY <1>1, <2>1 DEF Loading
<1>6. (Fresh /\ Carried)'
  BY <1>1, <1>3 DEF SettingsInv, Fresh, Carried
<1>7. Queues'
  BY <1>1, <1>2 DEF SettingsInv, Queues
<1>8. (ChoiceInv /\ BoughtInv)'
  BY <1>1, <1>3, WaitersSame DEF SettingsInv, ChoiceInv, BoughtInv
<1>9. (AskedInv /\ ListedInv)'
  BY <1>1, <1>2, <1>3 DEF SettingsInv, AskedInv, ListedInv, CurrencyAsked, PicAsked, Groups
<1>10. StepInv'
  BY <1>1 DEF StepInv
<1> QED
  BY <1>4, <1>5, <1>6, <1>7, <1>8, <1>9, <1>10 DEF SettingsInv

-----------------------------------------------------------------------------
\* Once asked for, always asked for; and the change now made is.
AskedGrows(change) ==
    /\ asked' \in [currency : SUBSET (Currencies \cup {Default, Unset}),
                  pic : SUBSET (Pics \cup {NoPic})]
    /\ asked.currency \subseteq asked'.currency /\ asked.pic \subseteq asked'.pic
    /\ Unset \in asked'.currency => Unset \in asked.currency
    /\ change.key = "currency" => change.value \in asked'.currency
    /\ change.key = "pic" => change.value \in asked'.pic

\* A change is carried out, at once or after having waited: what was asked for goes
\* into the document, or aside, and is to be sent.
LEMMA PerformKeeps ==
    ASSUME SettingsInv, NEW c \in Calls, NEW change \in Changes,
           change.key # "nothing", call[c].state \in {"idle", "waiting"}, HasToken,
           Perform(c, change),
           UNCHANGED <<loaded, down, ups, server, broker, faults>>,
           loaded = "done",
           \/ /\ UNCHANGED waiters /\ call[c].state = "idle" /\ Chosen(change)
              /\ change.key \in {"currency", "pic"} /\ Waiting(change.key) =>
                   "overtaken" \in mishaps'
           \/ /\ waiters # <<>> /\ c = Head(waiters) /\ waiters' = Tail(waiters)
              /\ change = call[c].change /\ change.key \in {"currency", "pic"}
              /\ UNCHANGED chosen,
           listing' \in {listing, <<>>},
           mishaps \subseteq mishaps', mishaps' \subseteq mishaps \cup {"listing", "overtaken"},
           AskedGrows(change),
           change.key = "purchase" =>
             change.value \in broker /\ (listing # <<>> => "listing" \in mishaps'),
           change.key = "txs" =>
             /\ change.value \subseteq broker
             /\ "listing" \notin mishaps => chosen.txs \subseteq change.value
    PROVE  SettingsInv'
<1>1. /\ call' = [call EXCEPT ![c] = [state |-> "writing", change |-> change]]
      /\ writes' = Append(writes, c)
      /\ SetDoc(change)
  BY DEF Perform
<1>2. /\ change.key \in {"currency", "pic", "purchase", "txs"}
      /\ change.key = "currency" => change.value \in Currencies
      /\ change.key = "pic" => change.value \in Pics \cup {NoPic}
      /\ change.key = "purchase" => change.value \in Purchases
      /\ change.key = "txs" => change.value \in SUBSET Purchases
  BY ChangeFacts
<1>3. /\ call'[c].state = "writing" /\ call'[c].change = change /\ ups[c] = <<>>
      /\ \A d \in Calls \ {c} : call'[d] = call[d]
  BY <1>1 DEF SettingsInv, Types
<1>4. c \notin Elems(writes)
  BY DEF SettingsInv, Queues
<1>5. /\ writes' \in Seq(Calls \cup Groups) /\ Distinct(writes')
      /\ Elems(writes') = Elems(writes) \cup {c}
  BY <1>1, <1>4, AppendFacts DEF SettingsInv, Types, Queues
<1>6. waiters' \in Seq(Calls) /\ Distinct(waiters') /\ Elems(waiters') \subseteq Elems(waiters) \ {c}
  <2>1. CASE UNCHANGED waiters /\ call[c].state = "idle"
    BY <2>1 DEF SettingsInv, Types, Queues
  <2>2. CASE waiters # <<>> /\ c = Head(waiters) /\ waiters' = Tail(waiters)
    BY <2>2, TailFacts DEF SettingsInv, Types, Queues
  <2> QED
    BY <2>1, <2>2
<1>7. HasToken' /\ UNCHANGED HasPicture /\ (SyncingDown("profile") <=> SyncingDown("profile")')
  BY DEF HasToken, HasPicture, SyncingDown
<1>8. /\ change.key = "currency" =>
           doc' = [doc EXCEPT !.currency = change.value] /\ UNCHANGED pending
      /\ change.key = "pic" =>
           IF SyncingDown("profile") THEN pending' = <<change.value>> /\ UNCHANGED doc
           ELSE doc' = [doc EXCEPT !.pic = change.value] /\ UNCHANGED pending
      /\ change.key = "purchase" =>
           doc' = [doc EXCEPT !.txs = @ \cup {change.value}] /\ UNCHANGED pending
      /\ change.key = "txs" =>
           doc' = [doc EXCEPT !.txs = change.value] /\ UNCHANGED pending
  BY <1>1 DEF SetDoc, SetDocDirect
<1>18. \/ /\ UNCHANGED chosen
          /\ change.key \in {"currency", "pic"} /\ change = call[c].change
          /\ waiters # <<>> /\ c = Head(waiters) /\ waiters' = Tail(waiters)
       \/ /\ UNCHANGED waiters /\ call[c].state = "idle"
          /\ change.key \in {"currency", "pic"} /\ Waiting(change.key) =>
               "overtaken" \in mishaps'
          /\ change.key = "currency" => chosen' = [chosen EXCEPT !.currency = change.value]
          /\ change.key = "pic" => chosen' = [chosen EXCEPT !.pic = <<change.value>>]
          /\ change.key = "purchase" => chosen' = [chosen EXCEPT !.txs = @ \cup {change.value}]
          /\ change.key = "txs" => UNCHANGED chosen
  BY DEF Chosen
<1>9. doc \in Settings /\ chosen \in Choices
  BY DEF SettingsInv, Types, ChoiceInv
<1>10. doc' \in Settings
  BY <1>2, <1>8, <1>9 DEF Settings
<1>11. chosen' \in Choices
  BY <1>2, <1>9, <1>18 DEF Choices
<1>19. /\ doc'.currency = IF change.key = "currency" THEN change.value ELSE doc.currency
       /\ doc'.pic = IF change.key = "pic" /\ ~SyncingDown("profile")
                     THEN change.value ELSE doc.pic
       /\ pending' = IF change.key = "pic" /\ SyncingDown("profile")
                     THEN <<change.value>> ELSE pending
       /\ doc'.txs = CASE change.key = "purchase" -> doc.txs \cup {change.value}
                       [] change.key = "txs" -> change.value
                       [] OTHER -> doc.txs
  BY <1>2, <1>8, <1>9 DEF Settings
<1>12. Types'
  <2>1. pending' \in {<<>>} \cup {<<p>> : p \in Pics \cup {NoPic}}
        /\ (pending' # <<>> => SyncingDown("profile"))
    BY <1>2, <1>8 DEF SettingsInv, Types
  <2>2. call' \in [Calls -> [state : {"idle", "waiting", "writing", "sending", "adrift", "over"},
                             change : Changes]]
    BY <1>1 DEF SettingsInv, Types
  <2>3. \A d \in Calls : ups'[d] # <<>> <=> call'[d].state \in {"sending", "adrift"}
    BY <1>3 DEF SettingsInv, Types
  <2>4. /\ mishaps' \subseteq {"disturbed", "diverted", "listing", "overtaken"}
        /\ listing' \in {<<>>} \cup {<<s>> : s \in SUBSET Purchases}
        /\ asked' \in [currency : SUBSET (Currencies \cup {Default, Unset}),
                       pic : SUBSET (Pics \cup {NoPic})]
    BY DEF SettingsInv, Types, AskedGrows
  <2> QED
    BY <1>5, <1>6, <1>7, <1>10, <2>1, <2>2, <2>3, <2>4 DEF SettingsInv, Types
<1>13. (Loading /\ Fresh /\ Carried)'
  <2>1. ~HasPicture => SyncingDown("profile")
    BY DEF SettingsInv, Types, Loading, HasToken, HasPicture, SyncingDown, Groups
  <2> QED
    BY <1>3, <1>7, <1>19, <2>1 DEF SettingsInv, Loading, Fresh, Carried
<1>14. Queues'
  <2>1. \A d \in Elems(waiters') : d \in Calls \ {c} /\ call'[d].state = "waiting"
    <3>1. Elems(waiters) \subseteq Calls
      BY DEF SettingsInv, Types, Elems
    <3> QED
      BY <1>3, <1>6, <3>1 DEF SettingsInv, Queues
  <2>2. \A w \in Elems(writes') :
          /\ w \in Calls => call'[w].state = "writing"
          /\ w \in Groups => down[w].state = "storing"
    BY <1>3, <1>4, <1>5, SettingsAssumption DEF SettingsInv, Queues, Groups
  <2> QED
    BY <1>5, <1>6, <2>1, <2>2 DEF Queues
<1>15. ChoiceInv'
  <2>0. \A w \in Elems(waiters) : w # c => call'[w] = call[w]
    BY <1>3 DEF SettingsInv, Types, Elems
  <2>1. SUFFICES ASSUME "overtaken" \notin mishaps'
                 PROVE  (/\ chosen.currency # Unset =>
                              IF Waiting("currency") THEN LastWaiter("currency", chosen.currency)
                              ELSE HasToken /\ doc.currency = chosen.currency
                         /\ chosen.pic # <<>> =>
                              IF Waiting("pic") THEN LastWaiter("pic", chosen.pic[1])
                              ELSE chosen.pic = IF SyncingDown("profile") THEN pending
                                                ELSE <<doc.pic>>)'
    BY <1>11 DEF ChoiceInv
  <2>2. /\ chosen.currency # Unset =>
             IF Waiting("currency") THEN LastWaiter("currency", chosen.currency)
             ELSE HasToken /\ doc.currency = chosen.currency
        /\ chosen.pic # <<>> =>
             IF Waiting("pic") THEN LastWaiter("pic", chosen.pic[1])
             ELSE chosen.pic = IF SyncingDown("profile") THEN pending ELSE <<doc.pic>>
    BY <2>1 DEF SettingsInv, ChoiceInv
  <2>3. CASE UNCHANGED waiters /\ call[c].state = "idle"
    <3>1. c \notin Elems(waiters)
      BY <2>3 DEF SettingsInv, Queues
    <3>2. \A k : /\ Waiting(k)' <=> Waiting(k)
                 /\ \A v : LastWaiter(k, v)' <=> LastWaiter(k, v)
      BY <2>0, <2>3, <3>1, WaitersSame
    <3>3. \/ change.key = "currency" /\ ~Waiting("currency")
             /\ chosen'.currency = change.value /\ chosen'.pic = chosen.pic
          \/ change.key = "pic" /\ ~Waiting("pic")
             /\ chosen'.pic = <<change.value>> /\ chosen'.currency = chosen.currency
          \/ change.key \in {"purchase", "txs"}
             /\ chosen'.currency = chosen.currency /\ chosen'.pic = chosen.pic
      <4>1. waiters # <<>> => Head(waiters) \in Elems(waiters)
        BY TailFacts DEF SettingsInv, Types, Queues
      <4> QED
        BY <1>2, <1>9, <1>18, <2>1, <3>1, <4>1 DEF Choices
    <3> QED
      BY <1>7, <1>19, <2>2, <3>2, <3>3
  <2>4. CASE /\ UNCHANGED chosen
             /\ change.key \in {"currency", "pic"} /\ change = call[c].change
             /\ waiters # <<>> /\ c = Head(waiters) /\ waiters' = Tail(waiters)
    <3>1. \A k :
            /\ Waiting(k)' => Waiting(k)
            /\ k # change.key => (Waiting(k) => Waiting(k)')
            /\ \A v : LastWaiter(k, v) =>
                 \/ LastWaiter(k, v)'
                 \/ ~Waiting(k)' /\ change.key = k /\ change.value = v
      BY <2>0, <2>4, WaitersLeft DEF SettingsInv, Types, Queues
    <3>2. Waiting(change.key)
      <4>1. 1 \in 1..Len(waiters) /\ waiters[1] = c
        BY <2>4 DEF SettingsInv, Types
      <4> QED
        BY <2>4, <4>1 DEF Waiting
    <3>3. \A k, v : LastWaiter(k, v)' => Waiting(k)'
      BY DEF LastWaiter, Waiting
    <3>4. /\ chosen.currency # Unset /\ change.key = "currency" =>
               LastWaiter("currency", chosen.currency)
          /\ chosen.pic # <<>> /\ change.key = "pic" => LastWaiter("pic", chosen.pic[1])
      BY <2>2, <3>2
    <3>5. chosen.pic # <<>> => chosen.pic = <<chosen.pic[1]>>
      BY <1>9 DEF Choices
    <3> QED
      BY <1>7, <1>19, <2>2, <2>4, <3>1, <3>3, <3>4, <3>5
  <2> QED
    BY <1>18, <2>3, <2>4
<1>20. BoughtInv'
  <2>1. /\ change.key \notin {"purchase"} => chosen'.txs = chosen.txs
        /\ change.key = "purchase" => chosen'.txs \subseteq chosen.txs \cup {change.value}
    BY <1>2, <1>9, <1>18 DEF Choices
  <2> QED
    BY <1>2, <1>7, <1>19, <2>1 DEF SettingsInv, BoughtInv
<1>16. AskedInv'
  <2>1. /\ \A v : CurrencyAsked(v) => CurrencyAsked(v)'
        /\ \A p : PicAsked(p) => PicAsked(p)'
        /\ Unset \in asked'.currency => Default \in asked'.currency
        /\ change.key = "currency" => CurrencyAsked(change.value)'
        /\ change.key = "pic" => change.value \in asked'.pic /\ PicAsked(change.value)'
    BY DEF CurrencyAsked, PicAsked, AskedGrows, SettingsInv, AskedInv
  <2>2. (doc.currency # Unset /\ CurrencyAsked(doc.currency))'
    BY <1>2, <1>19, <2>1, SettingsAssumption DEF SettingsInv, AskedInv
  <2>3. (/\ HasPicture => PicAsked(doc.pic)
         /\ pending # <<>> => PicAsked(pending[1]))'
    BY <1>2, <1>7, <1>19, <2>1 DEF SettingsInv, AskedInv
  <2>4. \A d \in Calls :
          /\ (call[d].change.key = "currency" => CurrencyAsked(call[d].change.value))'
          /\ (call[d].change.key = "pic" => call[d].change.value \in asked.pic)'
          /\ ups[d] # <<>> => call'[d] = call[d]
    BY <1>3, <2>1 DEF SettingsInv, AskedInv, AskedGrows
  <2> HIDE DEF SettingsInv
  <2>5. AskedInv
    BY DEF SettingsInv
  <2> QED
    BY <2>1, <2>2, <2>3, <2>4, <2>5 DEF AskedInv
<1>21. ListedInv'
  BY <1>2, <1>19 DEF SettingsInv, ListedInv
<1>17. StepInv'
  <2>1. SUFFICES ASSUME "disturbed" \notin mishaps' PROVE StepInv'
    BY DEF StepInv
  <2>2. "disturbed" \notin mishaps /\ ("diverted" \notin mishaps' => "diverted" \notin mishaps)
    BY <2>1
  <2>3. /\ Writing(GroupOf(change))'
        /\ \A g \in Groups : Writing(g) => Writing(g)'
        /\ \A g \in Groups : Sending(g)' = Sending(g)
    <3>1. \A d \in Calls \ {c} : call'[d] = call[d] /\ ups'[d] = ups[d]
      BY <1>3
    <3>2. ups'[c] = <<>> /\ call[c].state # "writing"
      BY <1>3
    <3> QED
      BY <1>3, <3>1, <3>2 DEF Writing, Sending
  <2>4. /\ GroupOf(change) = "profile" =>
             /\ doc'.currency = doc.currency /\ doc'.txs = doc.txs
        /\ GroupOf(change) # "profile" => doc'.pic = doc.pic /\ UNCHANGED pending
        /\ GroupOf(change) \in Groups
    BY <1>2, <1>19 DEF GroupOf, Groups
  <2>5. /\ pending' # <<>> => pending # <<>> \/ GroupOf(change) = "profile"
        /\ \A d \in Calls : call'[d].state # "adrift"
    BY <1>3, <2>2, <2>4 DEF SettingsInv, StepInv
  <2>6. Groups = {"settings", "profile"} /\ (GroupOf(change) # "profile" => GroupOf(change) = "settings")
    BY <2>4 DEF Groups
  <2>7. StepInv
    BY DEF SettingsInv
  <2> QED
    BY <1>7, <2>1, <2>2, <2>3, <2>4, <2>5, <2>6, <2>7 DEF StepInv, SameSettings
<1> QED
  BY <1>12, <1>13, <1>14, <1>15, <1>16, <1>17, <1>20, <1>21 DEF SettingsInv

\* While the settings are being downloaded a change of the user waits.
LEMMA WaitKeeps ==
    ASSUME SettingsInv, NEW c \in Calls, NEW change \in Changes,
           change.key \in {"currency", "pic"}, call[c].state = "idle",
           call' = [call EXCEPT ![c] = [state |-> "waiting", change |-> change]],
           waiters' = Append(waiters, c),
           Chosen(change), loaded = "done",
           UNCHANGED <<doc, pending, writes, loaded, down, ups, server>>,
           UNCHANGED <<listing, broker, mishaps, faults>>,
           AskedGrows(change)
    PROVE  SettingsInv'
<1>1. /\ call'[c].state = "waiting" /\ call'[c].change = change /\ ups[c] = <<>>
      /\ \A d \in Calls \ {c} : call'[d] = call[d]
  BY DEF SettingsInv, Types
<1>2. c \notin Elems(waiters) /\ c \notin Elems(writes)
  BY DEF SettingsInv, Queues
<1>3. /\ waiters' \in Seq(Calls) /\ Distinct(waiters')
      /\ Elems(waiters') = Elems(waiters) \cup {c} /\ Elems(waiters) \subseteq Calls
  <2>1. Elems(waiters) \subseteq Calls
    BY DEF SettingsInv, Types, Elems
  <2> QED
    BY <1>2, <2>1, AppendFacts DEF SettingsInv, Types, Queues
<1>4. HasToken' = HasToken /\ HasPicture' = HasPicture
      /\ (SyncingDown("profile") <=> SyncingDown("profile")')
  BY DEF HasToken, HasPicture, SyncingDown
<1>5. Types'
  <2>1. call' \in [Calls -> [state : {"idle", "waiting", "writing", "sending", "adrift", "over"},
                             change : Changes]]
    BY DEF SettingsInv, Types
  <2>2. \A d \in Calls : ups[d] # <<>> <=> call'[d].state \in {"sending", "adrift"}
    BY <1>1 DEF SettingsInv, Types
  <2>3. Types /\ asked' \in [currency : SUBSET (Currencies \cup {Default, Unset}),
                             pic : SUBSET (Pics \cup {NoPic})]
    BY DEF SettingsInv, AskedGrows
  <2> QED
    BY <1>3, <1>4, <2>1, <2>2, <2>3 DEF Types
<1>6. (Loading /\ Fresh /\ Carried)'
  BY <1>1, <1>4 DEF SettingsInv, Loading, Fresh, Carried
<1>7. Queues'
  <2>1. \A w \in Elems(waiters') : call'[w].state = "waiting"
    BY <1>1, <1>3 DEF SettingsInv, Queues
  <2>2. \A w \in Elems(writes) :
          /\ w \in Calls => call'[w].state = "writing"
          /\ w \in Groups => down[w].state = "storing"
    BY <1>1, <1>2 DEF SettingsInv, Queues
  <2>3. Distinct(writes)
    BY DEF SettingsInv, Queues
  <2> QED
    BY <1>3, <2>1, <2>2, <2>3 DEF Queues
<1>11. /\ chosen \in Choices /\ chosen' \in Choices /\ chosen'.txs = chosen.txs
       /\ change.key = "currency" =>
            chosen'.currency = change.value /\ chosen'.pic = chosen.pic
       /\ change.key = "pic" =>
            chosen'.pic = <<change.value>> /\ chosen'.currency = chosen.currency
  <2>1. /\ change.key = "currency" => chosen' = [chosen EXCEPT !.currency = change.value]
        /\ change.key = "pic" => chosen' = [chosen EXCEPT !.pic = <<change.value>>]
    BY DEF Chosen
  <2>2. chosen \in Choices
    BY DEF SettingsInv, ChoiceInv
  <2> QED
    BY <2>1, <2>2, ChangeFacts DEF Choices
<1>8. (ChoiceInv /\ BoughtInv)'
  <2>1. \A w \in Elems(waiters) : call'[w] = call[w]
    BY <1>1, <1>2, <1>3
  <2>2. /\ LastWaiter(change.key, change.value)' /\ Waiting(change.key)'
        /\ \A k : k # change.key =>
             /\ Waiting(k)' <=> Waiting(k)
             /\ \A v : LastWaiter(k, v) => LastWaiter(k, v)'
    BY <1>1, <2>1, WaitersJoined DEF SettingsInv, Types
  <2>3. ChoiceInv'
    BY <1>4, <1>11, <2>2 DEF SettingsInv, ChoiceInv
  <2> QED
    BY <1>4, <1>11, <2>3 DEF SettingsInv, BoughtInv
<1>9. (AskedInv /\ ListedInv)'
  <2>1. /\ \A v : CurrencyAsked(v) => CurrencyAsked(v)'
        /\ \A p : PicAsked(p) => PicAsked(p)'
        /\ Unset \in asked'.currency => Default \in asked'.currency
    BY DEF CurrencyAsked, PicAsked, AskedGrows, SettingsInv, AskedInv
  <2>2. \A d \in Calls :
          /\ (call[d].change.key = "currency" => CurrencyAsked(call[d].change.value))'
          /\ (call[d].change.key = "pic" => call[d].change.value \in asked.pic)'
          /\ ups[d] # <<>> => call'[d] = call[d]
    BY <1>1, <2>1 DEF SettingsInv, AskedInv, AskedGrows, CurrencyAsked
  <2>3. AskedInv /\ ListedInv
    BY DEF SettingsInv
  <2> QED
    BY <1>4, <2>1, <2>2, <2>3 DEF AskedInv, ListedInv
<1>10. StepInv'
  <2>1. \A g \in Groups : (Writing(g) <=> Writing(g)') /\ Sending(g)' = Sending(g)
    BY <1>1 DEF Writing, Sending
  <2>2. \A d \in Calls : call[d].state # "adrift" => call'[d].state # "adrift"
    BY <1>1
  <2>3. StepInv /\ Groups = {"settings", "profile"}
    BY DEF SettingsInv, Groups
  <2> QED
    BY <1>4, <2>1, <2>2, <2>3 DEF StepInv, SameSettings
<1> QED
  BY <1>5, <1>6, <1>7, <1>8, <1>9, <1>10 DEF SettingsInv

\* A call of updateSettingsUp, which is carried out or waits.
LEMMA UpdateKeeps ==
    ASSUME SettingsInv, NEW c \in Calls, NEW change \in Changes,
           change.key # "nothing",
           change.key \in {"currency", "pic"} \/ HasToken,
           UpdateSettingsUp(c, change),
           UNCHANGED <<broker, faults>>,
           listing' = listing \/ (HasToken /\ listing' = <<>>),
           mishaps \subseteq mishaps', mishaps' \subseteq mishaps \cup {"listing", "overtaken"},
           SyncingDown("settings") => UNCHANGED mishaps,
           change.key \in {"currency", "pic"} /\ Overtakes(change.key) =>
             "overtaken" \in mishaps',
           AskedGrows(change),
           change.key = "purchase" =>
             change.value \in broker /\ (listing # <<>> => "listing" \in mishaps'),
           change.key = "txs" =>
             /\ change.value \subseteq broker
             /\ "listing" \notin mishaps => chosen.txs \subseteq change.value
    PROVE  SettingsInv'
<1>1. /\ loaded = "done" /\ call[c].state = "idle" /\ UNCHANGED <<loaded, down, ups, server>>
      /\ Chosen(change)
  BY DEF UpdateSettingsUp
<1>2. HasToken => ~SyncingDown("settings")
  BY DEF HasToken, SyncingDown
<1>3. CASE SyncingDown("settings")
  <2>1. /\ call' = [call EXCEPT ![c] = [state |-> "waiting", change |-> change]]
        /\ waiters' = Append(waiters, c)
        /\ UNCHANGED <<doc, pending, writes>>
    BY <1>3 DEF UpdateSettingsUp
  <2>2. change.key \in {"currency", "pic"} /\ UNCHANGED <<listing, mishaps>>
    BY <1>2, <1>3
  <2> QED
    BY <1>1, <2>1, <2>2, WaitKeeps
<1>4. CASE ~SyncingDown("settings")
  <2>1. Perform(c, change) /\ UNCHANGED waiters
    BY <1>4 DEF UpdateSettingsUp
  <2>2. HasToken
    BY <1>1, <1>4 DEF SettingsInv, Types, Loading, HasToken, SyncingDown, Groups
  <2>3. /\ listing' \in {listing, <<>>}
        /\ change.key \in {"currency", "pic"} /\ Waiting(change.key) =>
             "overtaken" \in mishaps'
    BY <1>4 DEF Overtakes
  <2> QED
    BY <1>1, <2>1, <2>2, <2>3, PerformKeeps
<1> QED
  BY <1>3, <1>4

\* What the user changes has been asked for.
LEMMA ChangeSettingKeeps == ASSUME SettingsInv, NEW c \in Calls, ChangeSetting(c) PROVE SettingsInv'
<1>1. /\ UNCHANGED <<listing, broker, faults>>
      /\ asked \in [currency : SUBSET (Currencies \cup {Default, Unset}),
                    pic : SUBSET (Pics \cup {NoPic})]
  BY DEF ChangeSetting, SettingsInv, Types
<1>2. ASSUME NEW v \in Currencies,
             UpdateSettingsUp(c, [key |-> "currency", value |-> v]),
             asked' = [asked EXCEPT !.currency = @ \cup {v}],
             Note("overtaken", Overtakes("currency"))
      PROVE  SettingsInv'
  <2>1. [key |-> "currency", value |-> v] \in Changes
    BY DEF Changes
  <2>2. AskedGrows([key |-> "currency", value |-> v])
    BY <1>1, <1>2, SettingsAssumption DEF AskedGrows
  <2>3. /\ mishaps \subseteq mishaps' /\ mishaps' \subseteq mishaps \cup {"overtaken"}
        /\ Overtakes("currency") => "overtaken" \in mishaps'
        /\ SyncingDown("settings") => UNCHANGED mishaps
    BY <1>2 DEF Note, Overtakes
  <2> QED
    BY <1>1, <1>2, <2>1, <2>2, <2>3, UpdateKeeps
<1>3. ASSUME NEW p \in Pics \cup {NoPic},
             UpdateSettingsUp(c, [key |-> "pic", value |-> p]),
             asked' = [asked EXCEPT !.pic = @ \cup {p}],
             Note("overtaken", Overtakes("pic"))
      PROVE  SettingsInv'
  <2>1. [key |-> "pic", value |-> p] \in Changes
    BY DEF Changes
  <2>2. AskedGrows([key |-> "pic", value |-> p])
    BY <1>1, <1>3 DEF AskedGrows
  <2>3. /\ mishaps \subseteq mishaps' /\ mishaps' \subseteq mishaps \cup {"overtaken"}
        /\ Overtakes("pic") => "overtaken" \in mishaps'
        /\ SyncingDown("settings") => UNCHANGED mishaps
    BY <1>3 DEF Note, Overtakes
  <2> QED
    BY <1>1, <1>3, <2>1, <2>2, <2>3, UpdateKeeps
<1> QED
  BY <1>2, <1>3 DEF ChangeSetting

\* Those who waited call again: nothing else has been made to wait than changes of
\* the user.
LEMMA RunWaiterKeeps == SettingsInv /\ RunWaiter => SettingsInv'
<1> SUFFICES ASSUME SettingsInv, RunWaiter PROVE SettingsInv'
  OBVIOUS
<1> DEFINE c == Head(waiters)
           change == call[c].change
<1>1. /\ waiters # <<>> /\ down["settings"].state = "done" /\ waiters' = Tail(waiters)
      /\ Perform(c, change)
      /\ UNCHANGED <<loaded, down>>
      /\ UNCHANGED <<ups, listing, server, broker, chosen, asked, mishaps, faults>>
  BY DEF RunWaiter
<1>2. c \in Calls /\ c \in Elems(waiters)
  BY <1>1, TailFacts DEF SettingsInv, Types, Queues
<1>3. call[c].state = "waiting" /\ change \in Changes /\ change.key \in {"currency", "pic"}
  BY <1>2 DEF SettingsInv, Types, Queues, Carried
<1>4. HasToken /\ loaded = "done"
  <2>1. call[c].state # "idle"
    BY <1>3
  <2> QED
    BY <1>1, <1>2, <1>3 DEF HasToken, SettingsInv, Carried
<1>5. AskedGrows(change)
  BY <1>1, <1>2, <1>3 DEF AskedGrows, SettingsInv, Types, AskedInv, CurrencyAsked
<1> HIDE DEF c, change
<1> QED
  BY <1>1, <1>2, <1>3, <1>4, <1>5, PerformKeeps DEF c, change

\* GlideraService changes the list of purchases when the settings are there.  What
\* it puts on the list, or replaces it by, has all the purchases made before the
\* broker was asked.
LEMMA PurchasesKeep ==
    ASSUME SettingsInv, NEW c \in Calls,
           (\E t \in Purchases : AddPurchase(c, t)) \/ ApplyListing(c) \/ UpdatePending(c)
    PROVE  SettingsInv'
<1>1. /\ doc \in Settings
      /\ asked \in [currency : SUBSET (Currencies \cup {Default, Unset}),
                    pic : SUBSET (Pics \cup {NoPic})]
      /\ listing \in {<<>>} \cup {<<s>> : s \in SUBSET Purchases}
  BY DEF SettingsInv, Types
<1>2. ASSUME NEW t \in Purchases, AddPurchase(c, t) PROVE SettingsInv'
  <2>1. /\ HasToken /\ t \in broker /\ UpdateSettingsUp(c, [key |-> "purchase", value |-> t])
        /\ mishaps' = mishaps \cup (IF listing # <<>> THEN {"listing"} ELSE {})
        /\ UNCHANGED <<listing, broker, asked, faults>>
    BY <1>2 DEF AddPurchase, Note
  <2>2. [key |-> "purchase", value |-> t] \in Changes
    BY DEF Changes
  <2>3. /\ mishaps \subseteq mishaps' /\ mishaps' \subseteq mishaps \cup {"listing"}
        /\ listing # <<>> => "listing" \in mishaps'
        /\ ~SyncingDown("settings")
    BY <2>1 DEF HasToken, SyncingDown
  <2>4. AskedGrows([key |-> "purchase", value |-> t])
    BY <1>1, <2>1 DEF AskedGrows
  <2> QED
    BY <1>1, <2>1, <2>2, <2>3, <2>4, UpdateKeeps
<1>3. CASE ApplyListing(c)
  <2>1. /\ listing # <<>> /\ listing' = <<>>
        /\ UpdateSettingsUp(c, [key |-> "txs", value |-> listing[1]])
        /\ UNCHANGED <<broker, asked, mishaps, faults>>
    BY <1>3 DEF ApplyListing
  <2>4. AskedGrows([key |-> "txs", value |-> listing[1]])
    BY <1>1, <2>1 DEF AskedGrows
  <2>2. [key |-> "txs", value |-> listing[1]] \in Changes
    BY <1>1, <2>1 DEF Changes
  <2>3. /\ HasToken /\ listing[1] \subseteq broker
        /\ "listing" \notin mishaps => chosen.txs \subseteq listing[1]
    BY <2>1 DEF SettingsInv, Carried, BoughtInv, ListedInv
  <2> QED
    BY <1>1, <2>1, <2>2, <2>3, <2>4, UpdateKeeps
<1>4. CASE UpdatePending(c)
  <2>1. /\ HasToken /\ UpdateSettingsUp(c, [key |-> "txs", value |-> doc.txs])
        /\ UNCHANGED <<listing, broker, asked, mishaps, faults>>
    BY <1>4 DEF UpdatePending
  <2>4. AskedGrows([key |-> "txs", value |-> doc.txs])
    BY <1>1, <2>1 DEF AskedGrows
  <2>2. [key |-> "txs", value |-> doc.txs] \in Changes
    BY <1>1 DEF Changes, Settings
  <2>3. doc.txs \subseteq broker /\ ("listing" \notin mishaps => chosen.txs \subseteq doc.txs)
    BY DEF SettingsInv, BoughtInv, ListedInv
  <2> QED
    BY <1>1, <2>1, <2>2, <2>3, <2>4, UpdateKeeps
<1> QED
  BY <1>2, <1>3, <1>4

-----------------------------------------------------------------------------
\* An upload carries the document as it is when it is sent.
LEMMA SendUpKeeps == ASSUME SettingsInv, NEW c \in Calls, SendUp(c) PROVE SettingsInv'
<1>1. /\ writes # <<>> /\ Head(writes) = c /\ writes' = Tail(writes)
      /\ call' = [call EXCEPT ![c].state = "sending"]
      /\ ups' = [ups EXCEPT ![c] = <<Part(GroupOf(call[c].change), doc)>>]
      /\ mishaps' = mishaps
         \cup (IF \E d \in Calls : ups[d] # <<>> THEN {"disturbed"} ELSE {})
         \cup (IF call[c].change.key = "pic" /\ SyncingDown("profile") THEN {"diverted"} ELSE {})
      /\ UNCHANGED <<loaded, down, doc, pending, waiters>>
      /\ UNCHANGED <<listing, server, broker, chosen, asked, faults>>
  BY DEF SendUp
<1>2. /\ c \in Elems(writes) /\ writes' \in Seq(Calls \cup Groups) /\ Distinct(writes')
      /\ Elems(writes') = Elems(writes) \ {c}
  BY <1>1, TailFacts DEF SettingsInv, Types, Queues
<1>3. /\ call[c].state = "writing" /\ HasToken /\ ups[c] = <<>>
      /\ doc \in Settings /\ call[c].change \in Changes
  BY <1>2 DEF SettingsInv, Queues, Carried, Types
<1>4. GroupOf(call[c].change) \in Groups
      /\ (GroupOf(call[c].change) = "profile" <=> call[c].change.key = "pic")
  BY DEF GroupOf, Groups
<1>5. /\ Part(GroupOf(call[c].change), doc) \in Settings
      /\ GroupOf(call[c].change) = "profile" => Part(GroupOf(call[c].change), doc).pic = doc.pic
      /\ GroupOf(call[c].change) # "profile" =>
           /\ Part(GroupOf(call[c].change), doc).currency = doc.currency
           /\ Part(GroupOf(call[c].change), doc).txs = doc.txs
      /\ Part(GroupOf(call[c].change), doc).txs \subseteq doc.txs
  BY <1>3, <1>4, PartFacts DEF Groups
<1>6. /\ call'[c].state = "sending" /\ call'[c].change = call[c].change
      /\ ups'[c] = <<Part(GroupOf(call[c].change), doc)>> /\ ups'[c] # <<>>
      /\ \A d \in Calls \ {c} : call'[d] = call[d] /\ ups'[d] = ups[d]
  BY <1>1 DEF SettingsInv, Types
<1>7. HasToken' /\ (HasPicture <=> HasPicture')
      /\ (SyncingDown("profile") <=> SyncingDown("profile")')
  BY <1>1, <1>3 DEF HasToken, HasPicture, SyncingDown
<1>8. mishaps \subseteq mishaps' /\ mishaps' \subseteq mishaps \cup {"disturbed", "diverted"}
  BY <1>1
<1>9. Types'
  <2>0. /\ call \in [Calls -> [state : {"idle", "waiting", "writing", "sending", "adrift", "over"},
                                change : Changes]]
        /\ ups \in [Calls -> {<<>>} \cup {<<s>> : s \in Settings}]
    BY DEF SettingsInv, Types
  <2>1. call' \in [Calls -> [state : {"idle", "waiting", "writing", "sending", "adrift", "over"},
                             change : Changes]]
    BY <1>1, <2>0
  <2>2. ups' \in [Calls -> {<<>>} \cup {<<s>> : s \in Settings}]
    BY <1>1, <1>5, <2>0
  <2>3. Types
    BY DEF SettingsInv
  <2>4. \A d \in Calls : ups'[d] # <<>> <=> call'[d].state \in {"sending", "adrift"}
    <3>1. \A d \in Calls : ups[d] # <<>> <=> call[d].state \in {"sending", "adrift"}
      BY <2>3 DEF Types
    <3> QED
      BY <1>6, <3>1
  <2> QED
    BY <1>1, <1>2, <1>7, <1>8, <2>1, <2>2, <2>3, <2>4 DEF Types
<1>10. (Loading /\ Fresh /\ Carried)'
  BY <1>1, <1>6, <1>7, <1>8 DEF SettingsInv, Loading, Fresh, Carried
<1>11. Queues'
  <2>1. \A w \in Elems(waiters) : w # c /\ w \in Calls
    BY <1>3, WaitersAreCalls DEF SettingsInv, Queues
  <2> QED
    BY <1>1, <1>2, <1>6, <2>1 DEF SettingsInv, Queues
<1>12. (ChoiceInv /\ BoughtInv)'
  <2>1. \A w \in Elems(waiters) : call'[w] = call[w]
    BY <1>3, <1>6 DEF SettingsInv, Queues, Types, Elems
  <2>2. "overtaken" \in mishaps' <=> "overtaken" \in mishaps
    BY <1>1
  <2>3. "listing" \in mishaps' <=> "listing" \in mishaps
    BY <1>1
  <2> QED
    BY <1>1, <1>7, <2>1, <2>2, <2>3, WaitersSame DEF SettingsInv, ChoiceInv, BoughtInv
<1>15. ListedInv'
  BY <1>1, <1>5, <1>6 DEF SettingsInv, ListedInv
<1>13. AskedInv'
  <2>1. /\ \A v : CurrencyAsked(v) => CurrencyAsked(v)'
        /\ \A p : PicAsked(p) => PicAsked(p)'
    BY <1>1, <1>8 DEF CurrencyAsked, PicAsked
  <2>2. GroupOf(call[c].change) = "profile" => PicAsked(doc.pic)'
    <3>1. down["profile"].state # "none"
      BY <1>3 DEF SettingsInv, Loading, HasToken, Groups
    <3>2. CASE SyncingDown("profile")
      <4>1. doc.pic = NoPic
        BY <3>2 DEF SettingsInv, Fresh, HasPicture, SyncingDown
      <4> QED
        BY <1>1, <1>4, <3>2, <4>1 DEF PicAsked
    <3>3. CASE ~SyncingDown("profile")
      BY <1>1, <2>1, <3>1, <3>3 DEF SettingsInv, Types, AskedInv, HasPicture, SyncingDown, Groups
    <3> QED
      BY <3>2, <3>3
  <2>3. doc.currency # Unset /\ CurrencyAsked(doc.currency)
    BY <1>3 DEF SettingsInv, AskedInv
  <2>4. AskedInv
    BY DEF SettingsInv
  <2> QED
    BY <1>1, <1>3, <1>5, <1>6, <1>7, <2>1, <2>2, <2>3, <2>4 DEF AskedInv
<1>14. StepInv'
  <2>1. SUFFICES ASSUME "disturbed" \notin mishaps' PROVE StepInv'
    BY DEF StepInv
  <2>2. "disturbed" \notin mishaps /\ \A d \in Calls : ups[d] = <<>>
    BY <1>1, <2>1
  <2>4. "diverted" \notin mishaps' =>
          /\ "diverted" \notin mishaps
          /\ GroupOf(call[c].change) = "profile" => ~SyncingDown("profile") /\ HasPicture
    <3>1. down["profile"].state # "none"
      BY <1>3 DEF SettingsInv, Loading, HasToken, Groups
    <3>2. ~SyncingDown("profile") => HasPicture
      BY <3>1 DEF SettingsInv, Types, HasPicture, SyncingDown, Groups
    <3> QED
      BY <1>1, <1>4, <3>2
  <2>5. ~SyncingDown("profile") => pending = <<>> /\ down["profile"].state # "answered"
    BY DEF SettingsInv, Types, SyncingDown
  <2>6. Groups = {"settings", "profile"}
    BY DEF Groups
  <2>7. StepInv /\ down["settings"].state # "answered"
    BY <1>3 DEF SettingsInv, HasToken
  <2>8. ups'[c][1] = Part(GroupOf(call[c].change), doc)
    BY <1>6
  <2>9. \A d \in Calls : call'[d].state # "adrift"
    BY <1>6, <2>2, <2>7 DEF StepInv
  <2>10. \A d, e \in Calls : ups'[d] # <<>> /\ ups'[e] # <<>> => d = e
    BY <1>6, <2>2
  <2>11. CASE GroupOf(call[c].change) = "profile"
    <3>1. /\ Sending("profile")' = {c} /\ Sending("settings")' = {} /\ Sending("settings") = {}
          /\ Writing("settings") <=> Writing("settings")'
      BY <1>3, <1>6, <2>2, <2>11 DEF Sending, Writing
    <3>2. HasToken /\ ~Writing("settings")' => SameSettings(doc, server)
      BY <2>2, <2>7, <3>1 DEF StepInv
    <3>3. \A d \in Sending("profile")' : ups'[d][1].pic = doc.pic
      BY <1>5, <2>8, <2>11, <3>1
    <3>4. "diverted" \notin mishaps' =>
            HasPicture /\ pending = <<>> /\ down["profile"].state # "answered"
      BY <2>4, <2>5, <2>11
    <3>5. (HasToken /\ ~Writing("settings") =>
             Sending("settings") = {} /\ SameSettings(doc, server))'
      BY <1>1, <1>3, <3>1, <3>2 DEF SameSettings
    <3>6. ("diverted" \notin mishaps =>
             /\ down["profile"].state # "answered" /\ pending = <<>> /\ HasPicture
             /\ Sending("profile") # {} /\ \A d \in Sending("profile") : ups[d][1].pic = doc.pic)'
      BY <1>1, <1>7, <3>1, <3>3, <3>4
    <3> QED
      BY <1>1, <2>7, <2>9, <2>10, <3>5, <3>6 DEF StepInv
  <2>12. CASE GroupOf(call[c].change) = "settings"
    <3>1. /\ Sending("settings")' = {c} /\ Sending("profile")' = {} /\ Sending("profile") = {}
          /\ Writing("profile") <=> Writing("profile")'
      BY <1>3, <1>6, <2>2, <2>12 DEF Sending, Writing
    <3>2. \A d \in Sending("settings")' :
            ups'[d][1].currency = doc.currency /\ ups'[d][1].txs = doc.txs
      BY <1>5, <2>8, <2>12, <3>1
    <3>3. "diverted" \notin mishaps' =>
            /\ down["profile"].state = "answered" => down["profile"].answer.pic = server.pic
            /\ pending # <<>> => Writing("profile")'
            /\ HasPicture /\ ~Writing("profile")' => doc.pic = server.pic
      BY <2>2, <2>4, <2>7, <3>1 DEF StepInv
    <3> QED
      BY <1>1, <1>7, <2>7, <2>9, <2>10, <3>1, <3>2, <3>3 DEF StepInv
  <2> QED
    BY <1>4, <2>6, <2>11, <2>12
<1> QED
  BY <1>9, <1>10, <1>11, <1>12, <1>13, <1>14, <1>15 DEF SettingsInv

\* An upload that has arrived or is lost: its call is over, and holds nothing.
LEMMA UploadOver ==
    ASSUME SettingsInv, NEW c \in Calls, ups[c] # <<>>,
           ups' = [ups EXCEPT ![c] = <<>>], call' = [call EXCEPT ![c] = Over],
           UNCHANGED <<loaded, down, doc, pending, waiters, writes, listing, broker, chosen, asked>>,
           server' \in Settings, faults' \in 0..MaxFaults,
           mishaps \subseteq mishaps', mishaps' \subseteq mishaps \cup {"disturbed"}
    PROVE  /\ (Types /\ Loading /\ Fresh /\ Carried /\ Queues /\ ChoiceInv /\ BoughtInv)'
           /\ CurrencyAsked(server.currency)' /\ PicAsked(server.pic)' => AskedInv'
           /\ server'.txs \subseteq broker => ListedInv'
           /\ \A d \in Calls \ {c} : call'[d] = call[d] /\ ups'[d] = ups[d]
           /\ call'[c] = Over /\ ups'[c] = <<>> /\ Over.state = "over"
           /\ Over.change.key = "nothing"
<1>1. /\ \A d \in Calls \ {c} : call'[d] = call[d] /\ ups'[d] = ups[d]
      /\ call'[c] = Over /\ ups'[c] = <<>>
      /\ call[c].state \in {"sending", "adrift"}
  BY DEF SettingsInv, Types
<1>2. Over.state = "over" /\ Over.change.key = "nothing" /\ Over.change \in Changes
  BY DEF Over, Nothing, Changes
<1>3. /\ HasToken <=> HasToken'
      /\ HasPicture <=> HasPicture'
      /\ SyncingDown("profile") <=> SyncingDown("profile")'
  BY DEF HasToken, HasPicture, SyncingDown
<1>4. Types'
  <2>1. call' \in [Calls -> [state : {"idle", "waiting", "writing", "sending", "adrift", "over"},
                             change : Changes]]
    <3>1. Over \in [state : {"idle", "waiting", "writing", "sending", "adrift", "over"},
                    change : Changes]
      BY <1>2 DEF Over
    <3> QED
      BY <3>1 DEF SettingsInv, Types
  <2>2. ups' \in [Calls -> {<<>>} \cup {<<s>> : s \in Settings}]
    BY DEF SettingsInv, Types
  <2>3. \A d \in Calls : ups'[d] # <<>> <=> call'[d].state \in {"sending", "adrift"}
    BY <1>1, <1>2 DEF SettingsInv, Types
  <2>4. mishaps' \subseteq {"disturbed", "diverted", "listing", "overtaken"}
    BY DEF SettingsInv, Types
  <2>5. Types
    BY DEF SettingsInv
  <2> QED
    BY <1>3, <2>1, <2>2, <2>3, <2>4, <2>5 DEF Types
<1>5. (Loading /\ Fresh /\ Carried)'
  BY <1>1, <1>2, <1>3 DEF SettingsInv, Loading, Fresh, Carried
<1>6. Queues'
  <2>1. \A w \in Elems(waiters) : w # c /\ w \in Calls
    BY <1>1, WaitersAreCalls DEF SettingsInv, Queues
  <2>2. \A w \in Elems(writes) : w # c
    BY <1>1 DEF SettingsInv, Queues
  <2> QED
    BY <1>1, <2>1, <2>2 DEF SettingsInv, Queues
<1>7. (ChoiceInv /\ BoughtInv)'
  <2>3. \A w \in Elems(waiters) : w # c /\ w \in Calls
    BY <1>1, WaitersAreCalls DEF SettingsInv, Queues
  <2>1. \A w \in Elems(waiters) : call'[w] = call[w]
    BY <1>1, <2>3
  <2>2. /\ "overtaken" \in mishaps' <=> "overtaken" \in mishaps
        /\ "listing" \in mishaps' <=> "listing" \in mishaps
    OBVIOUS
  <2> QED
    BY <1>3, <2>1, <2>2, WaitersSame DEF SettingsInv, ChoiceInv, BoughtInv
<1>8. CurrencyAsked(server.currency)' /\ PicAsked(server.pic)' => AskedInv'
  <2>1. /\ \A v : CurrencyAsked(v) => CurrencyAsked(v)'
        /\ \A p : PicAsked(p) => PicAsked(p)'
    BY DEF CurrencyAsked, PicAsked
  <2>2. AskedInv
    BY DEF SettingsInv
  <2> QED
    BY <1>1, <1>2, <1>3, <2>1, <2>2 DEF AskedInv
<1>9. server'.txs \subseteq broker => ListedInv'
  BY <1>1 DEF SettingsInv, ListedInv
<1> QED
  BY <1>1, <1>2, <1>4, <1>5, <1>6, <1>7, <1>8, <1>9

\* The server stores what was sent.
LEMMA StoreUpKeeps == ASSUME SettingsInv, NEW c \in Calls, StoreUp(c) PROVE SettingsInv'
<1>1. /\ ups[c] # <<>>
      /\ server' = IF GroupOf(call[c].change) = "profile"
                   THEN [server EXCEPT !.pic = ups[c][1].pic]
                   ELSE [server EXCEPT !.currency = ups[c][1].currency, !.txs = ups[c][1].txs]
      /\ ups' = [ups EXCEPT ![c] = <<>>]
      /\ call' = [call EXCEPT ![c] = Over]
      /\ UNCHANGED <<loaded, down, doc, pending, waiters, writes>>
      /\ UNCHANGED <<listing, broker, chosen, asked, mishaps, faults>>
  BY DEF StoreUp
<1>2. server \in Settings /\ ups[c][1] \in Settings /\ faults \in 0..MaxFaults
  <2>1. ups[c] \in {<<>>} \cup {<<s>> : s \in Settings}
    BY DEF SettingsInv, Types
  <2> QED
    BY <1>1, <2>1 DEF SettingsInv, Types
<1>3. /\ server' \in Settings
      /\ GroupOf(call[c].change) = "profile" =>
           /\ server'.pic = ups[c][1].pic
           /\ server'.currency = server.currency /\ server'.txs = server.txs
      /\ GroupOf(call[c].change) # "profile" =>
           /\ server'.currency = ups[c][1].currency /\ server'.txs = ups[c][1].txs
           /\ server'.pic = server.pic
  BY <1>1, <1>2 DEF Settings
<1>4. /\ (Types /\ Loading /\ Fresh /\ Carried /\ Queues /\ ChoiceInv /\ BoughtInv)'
      /\ CurrencyAsked(server.currency)' /\ PicAsked(server.pic)' => AskedInv'
      /\ server'.txs \subseteq broker => ListedInv'
      /\ \A d \in Calls \ {c} : call'[d] = call[d] /\ ups'[d] = ups[d]
      /\ call'[c] = Over /\ ups'[c] = <<>> /\ Over.state = "over"
      /\ Over.change.key = "nothing"
  BY <1>1, <1>2, <1>3, UploadOver
<1>5. (AskedInv /\ ListedInv)'
  <2>1. CurrencyAsked(server.currency)' /\ PicAsked(server.pic)'
    BY <1>1, <1>3 DEF SettingsInv, AskedInv, CurrencyAsked, PicAsked
  <2>2. server'.txs \subseteq broker
    BY <1>1, <1>3 DEF SettingsInv, ListedInv
  <2> QED
    BY <1>4, <2>1, <2>2
<1>6. StepInv'
  <2>1. SUFFICES ASSUME "disturbed" \notin mishaps PROVE StepInv'
    BY <1>1 DEF StepInv
  <2>2. \A d \in Calls \ {c} : ups[d] = <<>>
    BY <1>1, <2>1 DEF SettingsInv, StepInv
  <2>3. \A d \in Calls : ups'[d] = <<>> /\ call'[d].state # "adrift"
    BY <1>4, <2>1, <2>2 DEF SettingsInv, StepInv
  <2>4. /\ Sending("settings")' = {} /\ Sending("profile")' = {}
        /\ Writing("settings") <=> Writing("settings")'
        /\ Writing("profile") <=> Writing("profile")'
    <3>1. call[c].state # "writing"
      BY <1>1 DEF SettingsInv, Types
    <3> QED
      BY <1>4, <2>3, <3>1 DEF Sending, Writing
  <2>5. call[c].state = "sending" /\ HasToken
    BY <1>1, <2>1 DEF SettingsInv, Types, StepInv, Carried
  <2>6. /\ HasToken <=> HasToken'
        /\ HasPicture <=> HasPicture'
        /\ down["settings"].state # "answered"
        /\ HasPicture => down["profile"].state # "answered"
    BY <1>1, <2>5 DEF HasToken, HasPicture
  <2>7. StepInv
    BY DEF SettingsInv
  <2>8. CASE GroupOf(call[c].change) = "profile"
    <3>1. Sending("profile") = {c} /\ Sending("settings") = {}
      BY <1>1, <2>2, <2>8 DEF Sending
    <3>2. (HasToken /\ ~Writing("settings") => SameSettings(doc, server))'
      BY <1>1, <1>3, <2>1, <2>4, <2>5, <2>7, <2>8, <3>1 DEF StepInv, SameSettings
    <3>3. ("diverted" \notin mishaps =>
             /\ down["profile"].state # "answered"
             /\ pending # <<>> => Writing("profile")
             /\ HasPicture /\ ~Writing("profile") => doc.pic = server.pic)'
      BY <1>1, <1>3, <2>1, <2>4, <2>6, <2>7, <2>8, <3>1 DEF StepInv
    <3> QED
      BY <1>1, <2>3, <2>4, <2>6, <3>2, <3>3 DEF StepInv
  <2>9. CASE GroupOf(call[c].change) = "settings"
    <3>1. Sending("settings") = {c} /\ Sending("profile") = {}
      BY <1>1, <2>2, <2>9 DEF Sending
    <3>2. (HasToken /\ ~Writing("settings") => SameSettings(doc, server))'
      BY <1>1, <1>3, <2>1, <2>4, <2>5, <2>7, <2>9, <3>1 DEF StepInv, SameSettings
    <3>3. ("diverted" \notin mishaps =>
             /\ down["profile"].state = "answered" => down["profile"].answer.pic = server.pic
             /\ pending # <<>> => Writing("profile")
             /\ HasPicture /\ ~Writing("profile") => doc.pic = server.pic)'
      BY <1>1, <1>3, <2>1, <2>4, <2>6, <2>7, <2>9, <3>1 DEF StepInv
    <3> QED
      BY <1>1, <2>3, <2>4, <2>6, <3>2, <3>3 DEF StepInv
  <2> QED
    BY <2>8, <2>9 DEF GroupOf
<1> QED
  BY <1>4, <1>5, <1>6 DEF SettingsInv

\* An upload that is lost leaves the server as it is.
LEMMA UpFailsKeeps == ASSUME SettingsInv, NEW c \in Calls, UpFails(c) PROVE SettingsInv'
<1>1. /\ ups[c] # <<>> /\ faults < MaxFaults /\ faults' = faults + 1
      /\ ups' = [ups EXCEPT ![c] = <<>>]
      /\ call' = [call EXCEPT ![c] = Over]
      /\ mishaps' = mishaps \cup {"disturbed"}
      /\ UNCHANGED <<loaded, down, doc, pending, waiters, writes>>
      /\ UNCHANGED <<listing, server, broker, chosen, asked>>
  BY DEF UpFails, Fault, Note
<1>2. server' \in Settings /\ faults' \in 0..MaxFaults
  BY <1>1, SettingsAssumption DEF SettingsInv, Types
<1>3. /\ (Types /\ Loading /\ Fresh /\ Carried /\ Queues /\ ChoiceInv /\ BoughtInv)'
      /\ CurrencyAsked(server.currency)' /\ PicAsked(server.pic)' => AskedInv'
      /\ server'.txs \subseteq broker => ListedInv'
  BY <1>1, <1>2, UploadOver
<1>4. (AskedInv /\ ListedInv)'
  <2>1. CurrencyAsked(server.currency)' /\ PicAsked(server.pic)' /\ server'.txs \subseteq broker
    BY <1>1 DEF SettingsInv, AskedInv, ListedInv, CurrencyAsked, PicAsked
  <2> QED
    BY <1>3, <2>1
<1>5. StepInv'
  BY <1>1 DEF StepInv
<1> QED
  BY <1>3, <1>4, <1>5 DEF SettingsInv

-----------------------------------------------------------------------------
\* The broker sells a purchase, and answers with its list.
LEMMA BrokerKeeps ==
    SettingsInv /\ ((\E t \in Purchases : Buy(t)) \/ List) => SettingsInv'
<1> SUFFICES ASSUME SettingsInv, (\E t \in Purchases : Buy(t)) \/ List PROVE SettingsInv'
  OBVIOUS
<1>1. /\ HasToken
      /\ UNCHANGED <<loaded, down, doc, pending, call, waiters, writes>>
      /\ UNCHANGED <<ups, server, chosen, asked, mishaps, faults>>
      /\ \/ UNCHANGED listing /\ broker \subseteq broker' /\ broker' \subseteq Purchases
         \/ UNCHANGED broker /\ listing' = <<broker>>
  BY DEF Buy, List, session, SettingsInv, Types
<1>2. /\ HasToken'
      /\ HasPicture <=> HasPicture'
      /\ SyncingDown("profile") <=> SyncingDown("profile")'
  BY <1>1 DEF HasToken, HasPicture, SyncingDown
<1>3. Types'
  BY <1>1, <1>2 DEF SettingsInv, Types
<1>4. (Loading /\ Fresh /\ Carried /\ Queues)'
  BY <1>1, <1>2 DEF SettingsInv, Loading, Fresh, Carried, Queues
<1>5. (ChoiceInv /\ BoughtInv)'
  BY <1>1, <1>2, WaitersSame DEF SettingsInv, ChoiceInv, BoughtInv
<1>6. (AskedInv /\ ListedInv)'
  BY <1>1, <1>2 DEF SettingsInv, AskedInv, ListedInv, CurrencyAsked, PicAsked
<1>7. StepInv'
  BY <1>1, <1>2 DEF SettingsInv, StepInv, Writing, Sending, SameSettings
<1> QED
  BY <1>3, <1>4, <1>5, <1>6, <1>7 DEF SettingsInv

\* Another device writes to the server: what has not been answered yet is not
\* disturbed by it.
LEMMA ElsewhereKeeps == SettingsInv /\ Elsewhere => SettingsInv'
<1> SUFFICES ASSUME SettingsInv, Elsewhere PROVE SettingsInv'
  OBVIOUS
<1>1. /\ faults < MaxFaults /\ faults' = faults + 1
      /\ UNCHANGED <<loaded, down, doc, pending, call, waiters, writes>>
      /\ UNCHANGED <<ups, listing, broker, chosen>>
      /\ mishaps \subseteq mishaps' /\ mishaps' \subseteq mishaps \cup {"disturbed"}
      /\ \/ /\ \E v \in Currencies : /\ server' = [server EXCEPT !.currency = v]
                                    /\ asked' = [asked EXCEPT !.currency = @ \cup {v}]
            /\ down["settings"].state \in {"none", "sent"} \/ "disturbed" \in mishaps'
         \/ /\ \E p \in Pics : /\ server' = [server EXCEPT !.pic = p]
                               /\ asked' = [asked EXCEPT !.pic = @ \cup {p}]
            /\ down["profile"].state \in {"none", "sent"} \/ "disturbed" \in mishaps'
  BY DEF Elsewhere, Fault, Note, session
<1>2. /\ server \in Settings /\ server' \in Settings
      /\ \/ /\ server'.currency \in Currencies
            /\ server'.pic = server.pic /\ server'.txs = server.txs
            /\ down["settings"].state \in {"none", "sent"} \/ "disturbed" \in mishaps'
         \/ /\ server'.pic \in Pics
            /\ server'.currency = server.currency /\ server'.txs = server.txs
            /\ down["profile"].state \in {"none", "sent"} \/ "disturbed" \in mishaps'
      /\ asked' \in [currency : SUBSET (Currencies \cup {Default, Unset}),
                     pic : SUBSET (Pics \cup {NoPic})]
      /\ asked.currency \subseteq asked'.currency /\ asked.pic \subseteq asked'.pic
      /\ Unset \in asked'.currency => Unset \in asked.currency
      /\ server'.currency \in asked'.currency \/ server'.currency = server.currency
      /\ server'.pic \in asked'.pic \/ server'.pic = server.pic
  <2>1. /\ server \in Settings
        /\ asked \in [currency : SUBSET (Currencies \cup {Default, Unset}),
                      pic : SUBSET (Pics \cup {NoPic})]
    BY DEF SettingsInv, Types
  <2> QED
    BY <1>1, <2>1, SettingsAssumption DEF Settings
<1>3. /\ HasToken <=> HasToken'
      /\ HasPicture <=> HasPicture'
      /\ SyncingDown("profile") <=> SyncingDown("profile")'
  BY <1>1 DEF HasToken, HasPicture, SyncingDown
<1>4. Types'
  BY <1>1, <1>2, <1>3, SettingsAssumption DEF SettingsInv, Types
<1>5. (Loading /\ Fresh /\ Carried /\ Queues)'
  BY <1>1, <1>3 DEF SettingsInv, Loading, Fresh, Carried, Queues
<1>6. (ChoiceInv /\ BoughtInv)'
  BY <1>1, <1>3, WaitersSame DEF SettingsInv, ChoiceInv, BoughtInv
<1>7. (AskedInv /\ ListedInv)'
  <2>1. /\ \A v : CurrencyAsked(v) => CurrencyAsked(v)'
        /\ \A p : PicAsked(p) => PicAsked(p)'
        /\ Unset \in asked'.currency => Default \in asked'.currency
    BY <1>1, <1>2 DEF CurrencyAsked, PicAsked, SettingsInv, AskedInv
  <2>2. CurrencyAsked(server.currency)' /\ PicAsked(server.pic)'
    BY <1>2, <2>1 DEF SettingsInv, AskedInv, CurrencyAsked, PicAsked
  <2>3. AskedInv /\ ListedInv
    BY DEF SettingsInv
  <2>4. \A c \in Calls : call[c].change.key = "pic" => call[c].change.value \in asked'.pic
    BY <1>2, <2>3 DEF AskedInv
  <2> QED
    BY <1>1, <1>2, <1>3, <2>1, <2>2, <2>3, <2>4 DEF AskedInv, ListedInv
<1>8. StepInv'
  <2>1. SUFFICES ASSUME "disturbed" \notin mishaps' PROVE StepInv'
    BY DEF StepInv
  <2>2. "disturbed" \notin mishaps /\ ("diverted" \notin mishaps' => "diverted" \notin mishaps)
    BY <1>1, <2>1
  <2>3. /\ server'.txs = server.txs
        /\ \/ UNCHANGED <<server.currency>> /\ ~HasPicture /\ down["profile"].state # "answered"
           \/ UNCHANGED <<server.pic>> /\ ~HasToken /\ down["settings"].state # "answered"
    BY <1>2, <2>1 DEF HasToken, HasPicture
  <2>4. /\ \A g \in Groups : (Writing(g) <=> Writing(g)') /\ Sending(g)' = Sending(g)
    BY <1>1 DEF Writing, Sending
  <2>5. Groups = {"settings", "profile"} /\ StepInv
    BY DEF Groups, SettingsInv
  <2> QED
    BY <1>1, <1>3, <2>1, <2>2, <2>3, <2>4, <2>5 DEF StepInv, SameSettings
<1> QED
  BY <1>4, <1>5, <1>6, <1>7, <1>8 DEF SettingsInv

\* The app starts again with nothing; what it has sent may still arrive.
LEMMA RestartKeeps == SettingsInv /\ Restart => SettingsInv'
<1> SUFFICES ASSUME SettingsInv, Restart PROVE SettingsInv'
  OBVIOUS
<1>1. /\ faults < MaxFaults /\ faults' = faults + 1
      /\ loaded' = "no" /\ down' = NotLoaded /\ doc' = Defaults /\ pending' = <<>>
      /\ call' = [c \in Calls |->
           CASE ups[c] # <<>> -> [call[c] EXCEPT !.state = "adrift"]
             [] call[c] = Idle -> Idle
             [] OTHER -> Over]
      /\ waiters' = <<>> /\ writes' = <<>> /\ listing' = <<>>
      /\ chosen' = NoChoice
      /\ mishaps' = (mishaps \cap {"diverted"})
           \cup (IF \E c \in Calls : ups[c] # <<>> THEN {"disturbed"} ELSE {})
      /\ UNCHANGED <<ups, server, broker, asked>>
  BY DEF Restart, Fault
<1>2. /\ Over.state = "over" /\ Over.change.key = "nothing" /\ Over.change \in Changes
      /\ Idle.state = "idle" /\ Idle.change.key = "nothing" /\ Idle.change \in Changes
      /\ Defaults \in Settings /\ Defaults.currency = Default /\ Defaults.txs = {}
      /\ Defaults.pic = NoPic
  BY DEF Over, Idle, Nothing, Changes, Defaults, Settings
<1>3. \A g \in Groups : down'[g].state = "none" /\ down'[g].answer = Defaults
  BY <1>1 DEF NotLoaded
<1>4. ~HasToken' /\ ~HasPicture' /\ ~SyncingDown("profile")'
      /\ down'["settings"].state = "none" /\ down'["profile"].state = "none"
  BY <1>3 DEF HasToken, HasPicture, SyncingDown, Groups
<1>5. \A c \in Calls :
        /\ ups[c] # <<>> => call'[c].state = "adrift" /\ call'[c].change = call[c].change
        /\ ups[c] = <<>> =>
             /\ call'[c].state \in {"idle", "over"} /\ call'[c].change.key = "nothing"
             /\ call'[c].change \in Changes
        /\ call'[c] \in [state : {"idle", "waiting", "writing", "sending", "adrift", "over"},
                         change : Changes]
  <2> SUFFICES ASSUME NEW c \in Calls
               PROVE  /\ ups[c] # <<>> =>
                           call'[c].state = "adrift" /\ call'[c].change = call[c].change
                      /\ ups[c] = <<>> =>
                           /\ call'[c].state \in {"idle", "over"}
                           /\ call'[c].change.key = "nothing"
                           /\ call'[c].change \in Changes
                      /\ call'[c] \in [state : {"idle", "waiting", "writing", "sending",
                                              "adrift", "over"}, change : Changes]
    OBVIOUS
  <2>1. CASE ups[c] # <<>>
    <3>1. call'[c] = [call[c] EXCEPT !.state = "adrift"]
      <4>1. call[c] # Idle
        BY <1>2, <2>1 DEF SettingsInv, Types
      <4> QED
        BY <1>1, <2>1, <4>1, Zenon
    <3> QED
      BY <2>1, <3>1 DEF SettingsInv, Types
  <2>2. CASE ups[c] = <<>>
    <3>1. call'[c] \in {Idle, Over}
      BY <1>1, <2>2
    <3>2. {Idle, Over} \subseteq
            [state : {"idle", "waiting", "writing", "sending", "adrift", "over"}, change : Changes]
      BY <1>2 DEF Idle, Over
    <3> QED
      BY <1>2, <2>2, <3>1, <3>2
  <2> QED
    BY <2>1, <2>2
<1>6. Types'
  <2>1. down' \in [Groups -> [state : {"none", "sent", "answered", "failed", "storing", "done"},
                              answer : Settings]]
    BY <1>1, <1>2 DEF NotLoaded
  <2>2. call' \in [Calls -> [state : {"idle", "waiting", "writing", "sending", "adrift", "over"},
                             change : Changes]]
    BY <1>1, <1>5
  <2>3. \A c \in Calls : ups'[c] # <<>> <=> call'[c].state \in {"sending", "adrift"}
    BY <1>1, <1>5
  <2>4. mishaps' \subseteq {"disturbed", "diverted", "listing", "overtaken"} /\ faults' \in 0..MaxFaults
    BY <1>1, SettingsAssumption DEF SettingsInv, Types
  <2>5. Types
    BY DEF SettingsInv
  <2> QED
    BY <1>1, <1>2, <2>1, <2>2, <2>3, <2>4, <2>5 DEF Types
<1>7. (Loading /\ Fresh)'
  BY <1>1, <1>2, <1>3 DEF Loading, Fresh
<1>8. (Carried /\ Queues)'
  <2>1. \A c \in Calls : call'[c].state \in {"adrift", "idle", "over"}
    BY <1>5
  <2>2. Elems(<<>>) = {} /\ Distinct(<<>>)
    BY DEF Elems, Distinct
  <2> QED
    BY <1>1, <2>1, <2>2 DEF Carried, Queues
<1>9. (ChoiceInv /\ BoughtInv)'
  BY <1>1, <1>4 DEF ChoiceInv, BoughtInv, Choices, NoChoice
<1>12. ListedInv'
  BY <1>1, <1>2, <1>4 DEF SettingsInv, ListedInv
<1>10. AskedInv'
  <2>1. /\ \A v : CurrencyAsked(v) => CurrencyAsked(v)'
        /\ \A p : PicAsked(p) => PicAsked(p)'
    BY <1>1 DEF CurrencyAsked, PicAsked
  <2>2. AskedInv /\ Default # Unset
    BY SettingsAssumption DEF SettingsInv
  <2> QED
    BY <1>1, <1>2, <1>4, <1>5, <2>1, <2>2 DEF AskedInv
<1>11. StepInv'
  <2>1. SUFFICES ASSUME "disturbed" \notin mishaps' PROVE StepInv'
    BY DEF StepInv
  <2>2. \A c \in Calls : ups[c] = <<>>
    BY <1>1, <2>1
  <2>3. Sending("profile")' = {} /\ Sending("settings")' = {}
    BY <1>1, <2>2 DEF Sending
  <2> QED
    BY <1>1, <1>4, <1>5, <2>2, <2>3 DEF StepInv
<1> QED
  BY <1>6, <1>7, <1>8, <1>9, <1>10, <1>11, <1>12 DEF SettingsInv

-----------------------------------------------------------------------------
\* No step breaks the invariant.
LEMMA SettingsInvKept == SettingsInv /\ [Next]_vars => SettingsInv'
<1> SUFFICES ASSUME SettingsInv, [Next]_vars PROVE SettingsInv'
  OBVIOUS
<1>1. CASE InitSettings \/ SyncDown
  BY <1>1, StartKeeps
<1>2. ASSUME NEW g \in Groups,
             AnswerDown(g) \/ ApplyDown(g) \/ StoredDown(g) \/ DownFails(g)
      PROVE  SettingsInv'
  BY <1>2, AnswerDownKeeps, ApplySettingsKeeps, ApplyProfileKeeps, StoredDownKeeps, DownFailsKeeps
  DEF Groups
<1>3. CASE RunWaiter
  BY <1>3, RunWaiterKeeps
<1>4. ASSUME NEW c \in Calls,
             \/ ChangeSetting(c) \/ SendUp(c) \/ StoreUp(c) \/ UpFails(c)
             \/ (\E t \in Purchases : AddPurchase(c, t))
             \/ ApplyListing(c) \/ UpdatePending(c)
      PROVE  SettingsInv'
  BY <1>4, ChangeSettingKeeps, SendUpKeeps, StoreUpKeeps, UpFailsKeeps, PurchasesKeep
<1>5. CASE (\E t \in Purchases : Buy(t)) \/ List
  BY <1>5, BrokerKeeps
<1>6. CASE Elsewhere \/ Restart
  BY <1>6, ElsewhereKeeps, RestartKeeps
<1>7. CASE UNCHANGED vars
  <2> USE <1>7 DEF vars, session, SettingsInv
  <2>1. /\ HasToken <=> HasToken'
        /\ HasPicture <=> HasPicture'
        /\ SyncingDown("profile") <=> SyncingDown("profile")'
    BY DEF HasToken, HasPicture, SyncingDown
  <2>2. (Types /\ Loading /\ Queues /\ Carried /\ Fresh /\ ChoiceInv /\ BoughtInv)'
    BY <2>1, WaitersSame DEF Types, Loading, Queues, Carried, Fresh, ChoiceInv, BoughtInv
  <2>3. (AskedInv /\ ListedInv)'
    BY <2>1 DEF AskedInv, ListedInv, CurrencyAsked, PicAsked
  <2>4. StepInv'
    BY <2>1 DEF StepInv, Writing, Sending, SameSettings
  <2> QED
    BY <2>2, <2>3, <2>4
<1> QED
  BY <1>1, <1>2, <1>3, <1>4, <1>5, <1>6, <1>7 DEF Next

\* The inductive invariant holds in every state.
LEMMA Invariance == Spec => []SettingsInv
BY InitInv, SettingsInvKept, PTL DEF Spec

\* What the user asked for last in this session is what the app holds or has still to
\* carry out, unless a change made at once overtook one that waited; and purchases
\* stay on the list unless they were made while the broker's list was on its way.
THEOREM ChoiceIsKept == Spec => []ChoiceKept
<1>1. SettingsInv => ChoiceKept
  <2> SUFFICES ASSUME SettingsInv PROVE ChoiceKept
    OBVIOUS
  <2>1. "overtaken" \notin mishaps => LastChoiceKept
    <3>1. \A k, v : LastWaiter(k, v) => WaitsFor(k, v)
      BY DEF LastWaiter, WaitsFor
    <3> QED
      BY <3>1 DEF SettingsInv, ChoiceInv, LastChoiceKept
  <2> QED
    BY <2>1 DEF SettingsInv, BoughtInv, ChoiceKept
<1> QED
  BY <1>1, Invariance, PTL

\* The server is given no currency, picture or purchase that nobody asked for, but for
\* the missing picture of a change made before its download was over.
THEOREM AskedOnly == Spec => []OnlyAsked
<1>1. SettingsInv => OnlyAsked
  BY DEF SettingsInv, AskedInv, ListedInv, CurrencyAsked, PicAsked, OnlyAsked
<1> QED
  BY <1>1, Invariance, PTL

\* The types and queues, and after a session without mishaps the app and the server
\* hold the same.
THEOREM StaysInStep == Spec => []InStep
<1>1. SettingsInv => InStep
  <2> SUFFICES ASSUME SettingsInv, loaded = "done", mishaps = {},
                      \A c \in Calls : call[c] \in {Idle, Over}
               PROVE  /\ doc.currency = server.currency
                           \/ (server.currency = Unset /\ doc.currency = Default)
                      /\ doc.txs = server.txs /\ doc.pic = server.pic
    BY InvImpliesTypeOK DEF InStep
  <2>1. HasToken /\ HasPicture
    BY DEF SettingsInv, Loading, HasToken, HasPicture, Groups
  <2>2. \A c \in Calls : call[c].state \in {"idle", "over"}
    <3>1. Idle.state = "idle" /\ Over.state = "over"
      BY DEF Idle, Over
    <3> QED
      BY <3>1
  <2>3. \A c \in Calls : call[c].state # "writing" /\ ups[c] = <<>>
    BY <2>2 DEF SettingsInv, Types
  <2>4. /\ ~Writing("settings") /\ ~Writing("profile")
        /\ Sending("settings") = {} /\ Sending("profile") = {}
    BY <2>3 DEF Writing, Sending
  <2> QED
    BY <2>1, <2>4 DEF SettingsInv, StepInv, SameSettings
<1> QED
  BY <1>1, Invariance, PTL
=============================================================================
