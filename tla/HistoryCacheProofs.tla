------------------------- MODULE HistoryCacheProofs -------------------------
(* Proofs about HistoryCache.                                              *)
EXTENDS HistoryCache, TLAPS

(* What a handler holds of imsg has every change that was published,       *)
(* unless one was published since it asked.                                *)
AnswerInv ==
    \A p \in Handlers :
        requests[p].step = "loaded" /\ p \notin overtaken =>
            requests[p].list >= Len(reported[ChatOf[requests[p].key]])

(* What an entry lacks was published no earlier than the entry was stored. *)
AgeInv ==
    \A k \in cached \ raced : \A i \in DOMAIN reported[ChatOf[k]] :
        i > entries[k].list => entries[k].expiresAt <= reported[ChatOf[k]][i] + TTL

NotTooLong == \A k \in cached : entries[k].expiresAt <= now + TTL

IInv == TypeOK /\ AnswerInv /\ AgeInv /\ NotTooLong /\ BehindOnlyIf

(* The requests of handleMessages, by the steps they take.                 *)
Handle(p) ==
    \/ \E k \in Keys : Miss(p, k) \/ Expired(p, k)
    \/ Evict(p) \/ Load(p) \/ LoadFails(p) \/ Put(p)

LEMMA CachedType ==
    ASSUME TypeOK, NEW k \in cached
    PROVE  /\ k \in Keys /\ ChatOf[k] \in Chats
           /\ entries[k] \in Entry
           /\ entries[k].list \in Nat /\ entries[k].expiresAt \in Nat
           /\ reported[ChatOf[k]] \in Seq(0..now)
  <1>1. k \in Keys /\ entries[k] \in Entry
    BY DEF TypeOK, cached
  <1>2. ChatOf[k] \in Chats /\ MaxTime + TTL \in Nat
    BY <1>1, HistoryAssumption
  <1> QED
    BY <1>1, <1>2 DEF TypeOK, Entry

LEMMA LoadedType ==
    ASSUME TypeOK, NEW p \in Handlers
    PROVE  /\ requests[p].step = "loaded" =>
                 /\ requests[p] \in Loaded /\ requests[p].key \in Keys
                 /\ requests[p].list \in 0..MaxChanges
           /\ requests[p].step \in {"missed", "expired"} =>
                 requests[p] \in Looking /\ requests[p].key \in Keys
  <1>1. requests[p] \in {Idle} \union Looking \union Loaded
    BY DEF TypeOK
  <1>2. Idle.step = "idle"
    BY DEF Idle
  <1>3. \A x \in Looking : x.step \in {"expired", "missed"} /\ x.key \in Keys
    BY DEF Looking
  <1>4. \A x \in Loaded : x.step = "loaded" /\ x.key \in Keys /\ x.list \in 0..MaxChanges
    BY DEF Loaded
  <1> QED
    BY <1>1, <1>2, <1>3, <1>4

LEMMA InitInv == Init => IInv
  <1> SUFFICES ASSUME Init PROVE IInv
    OBVIOUS
  <1> USE HistoryAssumption
  <1>1. cached = {}
    BY DEF Init, cached
  <1>2. TypeOK
    BY <1>1 DEF Init, TypeOK
  <1>3. \A p \in Handlers : requests[p].step = "idle"
    BY DEF Init, Idle
  <1> QED
    BY <1>1, <1>2, <1>3 DEF IInv, AnswerInv, AgeInv, NotTooLong, BehindOnlyIf, Behind

(* A new moment changes no list and no publication.                        *)
LEMMA TickStep == ASSUME IInv, Tick PROVE IInv'
  <1> USE HistoryAssumption
  <1>1. now \in Nat /\ now' = now + 1 /\ now' \in 0..MaxTime /\ cached' = cached
        /\ UNCHANGED <<db, reported, chan, dropped, entries, requests, overtaken, raced>>
    BY DEF Tick, IInv, TypeOK, cached
  <1>2. TypeOK'
    <2>1. ASSUME NEW c \in Chats PROVE reported[c] \in Seq(0..now')
      BY <1>1 DEF IInv, TypeOK
    <2>2. reported' \in [Chats -> Seq(0..now')]
      BY <1>1, <2>1 DEF IInv, TypeOK
    <2> QED
      BY <1>1, <2>2 DEF IInv, TypeOK
  <1>3. NotTooLong'
    BY <1>1, CachedType DEF IInv, NotTooLong
  <1> QED
    BY <1>1, <1>2, <1>3 DEF IInv, AnswerInv, AgeInv, BehindOnlyIf, Behind, Queued

LEMMA ChangeStep == ASSUME IInv, NEW c \in Chats, Change(c) PROVE IInv'
  <1>1. cached' = cached
        /\ UNCHANGED <<now, reported, chan, dropped, entries, requests, overtaken, raced>>
    BY DEF Change, cached
  <1>2. TypeOK'
    BY <1>1, HistoryAssumption DEF Change, IInv, TypeOK
  <1> QED
    BY <1>1, <1>2 DEF IInv, AnswerInv, AgeInv, NotTooLong, BehindOnlyIf, Behind, Queued

(* A publication is queued, or dropped, and marks who asked before it.     *)
LEMMA PublishStep == ASSUME IInv, NEW c \in Chats, Publish(c) PROVE IInv'
  <1> USE HistoryAssumption
  <1>1. /\ TypeOK /\ reported[c] \in Seq(0..now) /\ now \in Nat
        /\ Len(reported[c]) < db[c] /\ db[c] \in Nat /\ chan \in Seq(Chats)
    BY DEF IInv, TypeOK, Publish
  <1>2. /\ reported' = [reported EXCEPT ![c] = Append(reported[c], now)]
        /\ overtaken' = overtaken \union Asked(c) /\ cached' = cached
        /\ UNCHANGED <<now, db, entries, requests, raced>>
    BY DEF Publish, cached
  <1>3. /\ reported'[c] = Append(reported[c], now)
        /\ \A d \in Chats \ {c} : reported'[d] = reported[d]
        /\ Len(reported'[c]) = Len(reported[c]) + 1
        /\ \A i \in DOMAIN reported[c] : reported'[c][i] = reported[c][i]
        /\ reported'[c][Len(reported[c]) + 1] = now
        /\ DOMAIN reported'[c] = DOMAIN reported[c] \union {Len(reported[c]) + 1}
    BY <1>1, <1>2 DEF TypeOK
  <1>4. \/ chan' = Append(chan, c) /\ dropped' = dropped /\ Len(chan') <= Buffer
        \/ chan' = chan /\ dropped' = dropped \union {c}
    BY <1>1 DEF Publish, TypeOK
  <1>5. TypeOK'
    <2>1. reported' \in [Chats -> Seq(0..now)] /\ \A d \in Chats : Len(reported'[d]) <= db[d]
      BY <1>1, <1>2, <1>3 DEF TypeOK
    <2>2. chan' \in Seq(Chats) /\ dropped' \subseteq Chats
      <3>1. dropped \subseteq Chats
        BY <1>1 DEF TypeOK
      <3>2. Append(chan, c) \in Seq(Chats)
        BY <1>1
      <3> QED
        BY <1>1, <1>4, <3>1, <3>2
    <2>4. Len(chan') <= Buffer
      BY <1>1, <1>4 DEF TypeOK
    <2>3. overtaken' \subseteq Handlers
      BY <1>1, <1>2 DEF TypeOK, Asked
    <2> QED
      BY <1>1, <1>2, <2>1, <2>2, <2>3, <2>4 DEF TypeOK
  <1>6. \A d \in Chats : (Queued(d) => Queued(d)') /\ (d \in dropped => d \in dropped')
    <2>1. CASE chan' = chan
      BY <1>4, <2>1 DEF Queued
    <2>2. CASE chan' = Append(chan, c) /\ dropped' = dropped
      <3>1. Len(chan') = Len(chan) + 1 /\ \A i \in 1..Len(chan) : chan'[i] = chan[i]
        BY <1>1, <2>2
      <3> QED
        BY <1>1, <2>2, <3>1 DEF Queued
    <2> QED
      BY <1>4, <2>1, <2>2
  <1>7. Queued(c)' \/ c \in dropped'
    <2>1. CASE chan' = Append(chan, c)
      <3>1. Len(chan') = Len(chan) + 1 /\ chan'[Len(chan) + 1] = c /\ Len(chan) \in Nat
        BY <1>1, <2>1
      <3> QED
        BY <3>1 DEF Queued
    <2> QED
      BY <1>4, <2>1
  <1>8. AnswerInv'
    <2> SUFFICES ASSUME NEW p \in Handlers, requests[p].step = "loaded", p \notin overtaken'
                 PROVE  requests[p].list >= Len(reported'[ChatOf[requests[p].key]])
      BY <1>2 DEF AnswerInv
    <2>1. ChatOf[requests[p].key] # c /\ p \notin overtaken
      BY <1>2 DEF Asked
    <2>2. ChatOf[requests[p].key] \in Chats
      BY <1>1, LoadedType
    <2> QED
      BY <1>3, <2>1, <2>2 DEF IInv, AnswerInv
  <1>9. AgeInv'
    <2> SUFFICES ASSUME NEW k \in cached \ raced, NEW i \in DOMAIN reported'[ChatOf[k]],
                        i > entries[k].list
                 PROVE  entries[k].expiresAt <= reported'[ChatOf[k]][i] + TTL
      BY <1>2 DEF AgeInv
    <2>1. CASE i \in DOMAIN reported[ChatOf[k]]
      BY <1>1, <1>3, <2>1, CachedType DEF IInv, AgeInv
    <2>2. CASE i \notin DOMAIN reported[ChatOf[k]]
      <3>1. reported'[ChatOf[k]][i] = now
        BY <1>1, <1>3, <2>2, CachedType
      <3> QED
        BY <3>1 DEF IInv, NotTooLong
    <2> QED
      BY <2>1, <2>2
  <1>10. BehindOnlyIf'
    <2> SUFFICES ASSUME NEW k \in cached, entries[k].list < Len(reported'[ChatOf[k]])
                 PROVE  Queued(ChatOf[k])' \/ ChatOf[k] \in dropped' \/ k \in raced
      BY <1>2 DEF BehindOnlyIf, Behind
    <2>1. CASE ChatOf[k] = c
      BY <1>7, <2>1
    <2>2. CASE ChatOf[k] # c
      <3>1. k \in Behind /\ ChatOf[k] \in Chats
        BY <1>1, <1>3, <2>2, CachedType DEF Behind
      <3> QED
        BY <1>6, <3>1 DEF IInv, BehindOnlyIf
    <2> QED
      BY <2>1, <2>2
  <1>11. NotTooLong'
    BY <1>2 DEF IInv, NotTooLong
  <1> QED
    BY <1>5, <1>8, <1>9, <1>10, <1>11 DEF IInv

(* Removing entries, and their marks with them, leaves nothing worse.      *)
LEMMA Removal ==
    ASSUME IInv, NEW gone \in SUBSET Keys,
           entries' = [k \in Keys |-> IF k \in gone THEN None ELSE entries[k]],
           raced' = raced \ gone, UNCHANGED <<now, db, reported, overtaken>>
    PROVE  /\ cached' = cached \ gone
           /\ entries' \in [Keys -> Entry \union {None}] /\ raced' \subseteq cached'
           /\ AgeInv' /\ NotTooLong'
           /\ Behind' = Behind \ gone
  <1>1. cached' = cached \ gone /\ \A k \in cached' : entries'[k] = entries[k]
    BY DEF cached
  <1>2. entries' \in [Keys -> Entry \union {None}]
    BY DEF IInv, TypeOK
  <1>3. raced' \subseteq cached'
    BY <1>1 DEF IInv, TypeOK
  <1>4. \A k \in cached' \ raced' : k \in cached \ raced
    BY <1>1
  <1>5. AgeInv'
    BY <1>1, <1>4 DEF IInv, AgeInv
  <1>6. NotTooLong'
    BY <1>1 DEF IInv, NotTooLong
  <1>7. Behind' = Behind \ gone
    BY <1>1 DEF Behind
  <1> QED
    BY <1>1, <1>2, <1>3, <1>5, <1>6, <1>7

(* InvalidateChat removes every entry of the chat, so that the others'     *)
(* removals are still queued, or were dropped.                             *)
LEMMA InvalidateStep == ASSUME IInv, InvalidateChat PROVE IInv'
  <1> DEFINE c == Head(chan)
  <1>1. /\ TypeOK /\ chan \in Seq(Chats) /\ chan # <<>> /\ chan' = Tail(chan)
        /\ entries' = [k \in Keys |-> IF k \in Stale(c) THEN None ELSE entries[k]]
        /\ raced' = raced \ Stale(c) /\ dropped' = dropped \ {c}
        /\ UNCHANGED <<now, db, reported, requests, overtaken>>
    BY DEF IInv, TypeOK, InvalidateChat
  <1>2. Stale(c) \in SUBSET Keys
    BY DEF Stale, cached
  <1>3. /\ cached' = cached \ Stale(c)
        /\ entries' \in [Keys -> Entry \union {None}] /\ raced' \subseteq cached'
        /\ AgeInv' /\ NotTooLong' /\ Behind' = Behind \ Stale(c)
    <2> HIDE DEF c
    <2> QED
      BY <1>1, <1>2, Removal
  <1>4. Len(chan) \in Nat \ {0} /\ Len(chan') = Len(chan) - 1 /\ chan' \in Seq(Chats)
        /\ \A i \in 1..Len(chan') : chan'[i] = chan[i + 1]
    BY <1>1
  <1>5. TypeOK'
    BY <1>1, <1>3, <1>4, HistoryAssumption DEF TypeOK
  <1>6. \A d \in Chats \ {c} : Queued(d) => Queued(d)'
    <2> SUFFICES ASSUME NEW d \in Chats, d # c, NEW i \in 1..Len(chan), chan[i] = d
                 PROVE  Queued(d)'
      BY DEF Queued
    <2>1. i # 1
      BY <1>1
    <2>2. i - 1 \in 1..Len(chan') /\ chan'[i - 1] = d
      BY <1>4, <2>1
    <2> QED
      BY <2>2 DEF Queued
  <1>7. BehindOnlyIf'
    <2> SUFFICES ASSUME NEW k \in Behind, k \notin Stale(c)
                 PROVE  Queued(ChatOf[k])' \/ ChatOf[k] \in dropped' \/ k \in raced'
      BY <1>3 DEF BehindOnlyIf
    <2>1. ChatOf[k] # c /\ ChatOf[k] \in Chats
      BY <1>1, CachedType DEF Behind, Stale
    <2> QED
      BY <1>1, <1>6, <2>1 DEF IInv, BehindOnlyIf
  <1>8. AnswerInv'
    BY <1>1 DEF IInv, AnswerInv
  <1> QED
    BY <1>3, <1>5, <1>7, <1>8 DEF IInv

(* The steps of a request before it has an answer.                         *)
LEMMA LookStep ==
    ASSUME IInv, NEW p \in Handlers, NEW k \in Keys, NEW step \in {"missed", "expired"},
           requests' = [requests EXCEPT ![p] = [step |-> step, key |-> k]],
           UNCHANGED <<now, db, reported, chan, dropped, entries, overtaken, raced>>
    PROVE  IInv'
  <1>1. [step |-> step, key |-> k] \in Looking
    BY DEF Looking
  <1>2. requests'[p].step # "loaded" /\ \A q \in Handlers \ {p} : requests'[q] = requests[q]
    BY DEF IInv, TypeOK
  <1>3. TypeOK'
    BY <1>1 DEF IInv, TypeOK, cached
  <1> QED
    BY <1>2, <1>3 DEF IInv, AnswerInv, AgeInv, NotTooLong, BehindOnlyIf, Behind, Queued, cached

LEMMA EvictStep == ASSUME IInv, NEW p \in Handlers, Evict(p) PROVE IInv'
  <1> DEFINE k == requests[p].key
             looking == [step |-> "missed", key |-> k]
  <1>1. TypeOK /\ k \in Keys
    BY LoadedType DEF IInv, Evict, At
  <1>2. /\ entries' = [j \in Keys |-> IF j \in {k} THEN None ELSE entries[j]]
        /\ raced' = raced \ {k} /\ requests' = [requests EXCEPT ![p] = looking]
        /\ UNCHANGED <<now, db, reported, chan, dropped, overtaken>>
    BY <1>1 DEF Evict, TypeOK
  <1>3. looking \in Looking
    BY <1>1 DEF Looking
  <1>4. requests'[p].step # "loaded" /\ \A q \in Handlers \ {p} : requests'[q] = requests[q]
    BY <1>1, <1>2 DEF TypeOK
  <1>5. /\ cached' = cached \ {k}
        /\ entries' \in [Keys -> Entry \union {None}] /\ raced' \subseteq cached'
        /\ AgeInv' /\ NotTooLong' /\ Behind' = Behind \ {k}
    <2> HIDE DEF k
    <2>1. {k} \in SUBSET Keys
      BY <1>1
    <2> QED
      BY <1>2, <2>1, Removal
  <1>6. TypeOK'
    <2> HIDE DEF looking, k
    <2> QED
      BY <1>1, <1>2, <1>3, <1>5 DEF TypeOK
  <1>7. AnswerInv'
    BY <1>2, <1>4 DEF IInv, AnswerInv
  <1>8. BehindOnlyIf'
    BY <1>2, <1>5 DEF IInv, BehindOnlyIf, Queued
  <1> QED
    BY <1>5, <1>6, <1>7, <1>8 DEF IInv

(* imsg answers with all that is in the database, so with all published.   *)
LEMMA LoadStep == ASSUME IInv, NEW p \in Handlers, Load(p) PROVE IInv'
  <1> DEFINE k == requests[p].key
             answer == [step |-> "loaded", key |-> k, list |-> db[ChatOf[k]]]
  <1>1. TypeOK /\ k \in Keys /\ ChatOf[k] \in Chats
    BY LoadedType, HistoryAssumption DEF IInv, Load, At
  <1>2. /\ requests' = [requests EXCEPT ![p] = answer]
        /\ UNCHANGED <<now, db, reported, chan, dropped, entries, overtaken, raced>>
    BY DEF Load
  <1>3. answer \in Loaded /\ answer.list >= Len(reported[ChatOf[k]])
    BY <1>1, HistoryAssumption DEF TypeOK, Loaded
  <1>4. requests'[p] = answer /\ \A q \in Handlers \ {p} : requests'[q] = requests[q]
    BY <1>1, <1>2 DEF TypeOK
  <1>5. TypeOK'
    <2> HIDE DEF answer
    <2> QED
      BY <1>1, <1>2, <1>3 DEF TypeOK, cached
  <1>6. AnswerInv'
    <2> SUFFICES ASSUME NEW q \in Handlers, requests'[q].step = "loaded", q \notin overtaken
                 PROVE  requests'[q].list >= Len(reported[ChatOf[requests'[q].key]])
      BY <1>2 DEF AnswerInv
    <2>1. CASE q = p
      BY <1>3, <1>4, <2>1
    <2>2. CASE q # p
      BY <1>4, <2>2 DEF IInv, AnswerInv
    <2> QED
      BY <2>1, <2>2
  <1> QED
    BY <1>2, <1>5, <1>6 DEF IInv, AgeInv, NotTooLong, BehindOnlyIf, Behind, Queued, cached

LEMMA FailStep == ASSUME IInv, NEW p \in Handlers, LoadFails(p) PROVE IInv'
  <1>1. /\ requests' = [requests EXCEPT ![p] = Idle]
        /\ UNCHANGED <<now, db, reported, chan, dropped, entries, overtaken, raced>>
    BY DEF LoadFails
  <1>2. requests'[p].step # "loaded" /\ \A q \in Handlers \ {p} : requests'[q] = requests[q]
    BY <1>1 DEF IInv, TypeOK, Idle
  <1>3. TypeOK'
    BY <1>1 DEF IInv, TypeOK, cached
  <1> QED
    BY <1>1, <1>2, <1>3 DEF IInv, AnswerInv, AgeInv, NotTooLong, BehindOnlyIf, Behind, Queued, cached

(* An entry is as good as the answer it is made of, and as old as now.     *)
LEMMA PutStep == ASSUME IInv, NEW p \in Handlers, Put(p) PROVE IInv'
  <1> USE HistoryAssumption
  <1> DEFINE k == requests[p].key
             e == [list |-> requests[p].list, expiresAt |-> now + TTL]
  <1>1. /\ TypeOK /\ k \in Keys /\ requests[p].list \in 0..MaxChanges
        /\ requests[p].step = "loaded" /\ now \in 0..MaxTime
    BY LoadedType DEF IInv, TypeOK, Put, At
  <1>2. /\ entries' = [entries EXCEPT ![k] = e]
        /\ raced' = IF p \in overtaken THEN raced \union {k} ELSE raced \ {k}
        /\ overtaken' = overtaken \ {p}
        /\ requests' = [requests EXCEPT ![p] = Idle]
        /\ UNCHANGED <<now, db, reported, chan, dropped>>
    BY DEF Put
  <1>3. e \in Entry /\ e # None /\ e.list = requests[p].list /\ e.expiresAt = now + TTL
    <2>1. now + TTL \in 0..(MaxTime + TTL) /\ now + TTL \in Nat /\ requests[p].list \in Nat
      BY <1>1
    <2>2. e \in [list : Nat, expiresAt : Nat]
      BY <2>1
    <2> QED
      BY <1>1, <2>1, <2>2 DEF Entry
  <1>4. /\ entries'[k] = e /\ entries' \in [Keys -> Entry \union {None}]
        /\ \A j \in Keys \ {k} : entries'[j] = entries[j]
    <2> HIDE DEF e, k
    <2> QED
      BY <1>1, <1>2, <1>3 DEF TypeOK
  <1>5. cached' = cached \union {k}
    <2> HIDE DEF e, k
    <2> QED
      BY <1>1, <1>3, <1>4 DEF cached
  <1>6. /\ requests'[p].step # "loaded" /\ requests' \in [Handlers -> {Idle} \union Looking \union Loaded]
        /\ \A q \in Handlers \ {p} : requests'[q] = requests[q]
    BY <1>1, <1>2 DEF TypeOK, Idle
  <1>7. TypeOK'
    <2> HIDE DEF e, k
    <2> QED
      BY <1>1, <1>2, <1>4, <1>5, <1>6 DEF TypeOK
  <1>8. AnswerInv'
    BY <1>2, <1>6 DEF IInv, AnswerInv
  <1>9. NotTooLong'
    <2> HIDE DEF e, k
    <2> SUFFICES ASSUME NEW j \in cached' PROVE entries'[j].expiresAt <= now + TTL
      BY <1>2 DEF NotTooLong
    <2>1. CASE j = k
      BY <1>1, <1>3, <1>4, <2>1
    <2>2. CASE j # k
      BY <1>4, <1>5, <2>2 DEF IInv, NotTooLong, cached
    <2> QED
      BY <2>1, <2>2
  <1>10. p \notin overtaken => requests[p].list >= Len(reported[ChatOf[k]])
    BY <1>1 DEF IInv, AnswerInv
  <1>11. ChatOf[k] \in Chats /\ reported[ChatOf[k]] \in Seq(0..now)
    BY <1>1 DEF TypeOK
  <1>12. AgeInv'
    <2> HIDE DEF e, k
    <2> SUFFICES ASSUME NEW j \in cached' \ raced', NEW i \in DOMAIN reported[ChatOf[j]],
                        i > entries'[j].list
                 PROVE  entries'[j].expiresAt <= reported[ChatOf[j]][i] + TTL
      BY <1>2 DEF AgeInv
    <2>1. CASE j = k
      <3>1. p \notin overtaken
        BY <1>2, <2>1
      <3>2. i \in 1..Len(reported[ChatOf[k]]) /\ Len(reported[ChatOf[k]]) \in Nat
        BY <1>11, <2>1
      <3> QED
        BY <1>1, <1>3, <1>4, <1>10, <2>1, <3>1, <3>2
    <2>2. CASE j # k
      <3>1. j \in cached \ raced /\ entries'[j] = entries[j]
        BY <1>2, <1>4, <1>5, <2>2 DEF cached
      <3> QED
        BY <3>1 DEF IInv, AgeInv
    <2> QED
      BY <2>1, <2>2
  <1>13. BehindOnlyIf'
    <2> HIDE DEF e, k
    <2> SUFFICES ASSUME NEW j \in cached', entries'[j].list < Len(reported[ChatOf[j]])
                 PROVE  Queued(ChatOf[j]) \/ ChatOf[j] \in dropped \/ j \in raced'
      BY <1>2 DEF BehindOnlyIf, Behind, Queued
    <2>1. CASE j = k
      <3>1. CASE p \in overtaken
        BY <1>2, <2>1, <3>1
      <3>2. CASE p \notin overtaken
        <4>1. Len(reported[ChatOf[k]]) \in Nat /\ requests[p].list \in Nat
          BY <1>1, <1>11
        <4> QED
          BY <1>3, <1>4, <1>10, <2>1, <3>2, <4>1
      <3> QED
        BY <3>1, <3>2
    <2>2. CASE j # k
      <3>1. j \in Behind /\ (j \in raced => j \in raced')
        BY <1>2, <1>4, <1>5, <2>2 DEF cached, Behind
      <3> QED
        BY <3>1 DEF IInv, BehindOnlyIf
    <2> QED
      BY <2>1, <2>2
  <1> QED
    BY <1>7, <1>8, <1>9, <1>12, <1>13 DEF IInv

(* The invariant is inductive.                                             *)
LEMMA NextInv == IInv /\ [Next]_vars => IInv'
  <1> SUFFICES ASSUME IInv, [Next]_vars PROVE IInv'
    OBVIOUS
  <1>1. ASSUME NEW p \in Handlers, NEW k \in Keys, Miss(p, k) PROVE IInv'
    BY <1>1, LookStep DEF Miss
  <1>2. ASSUME NEW p \in Handlers, NEW k \in Keys, Expired(p, k) PROVE IInv'
    BY <1>2, LookStep DEF Expired
  <1>3. ASSUME NEW p \in Handlers, Handle(p) PROVE IInv'
    BY <1>1, <1>2, <1>3, EvictStep, LoadStep, FailStep, PutStep DEF Handle
  <1>4. CASE UNCHANGED vars
    BY <1>4 DEF vars, IInv, TypeOK, AnswerInv, AgeInv, NotTooLong, BehindOnlyIf,
                Behind, Queued, cached
  <1> QED
    BY <1>3, <1>4, TickStep, ChangeStep, PublishStep, InvalidateStep DEF Next, Handle

LEMMA Invariant == Spec => []IInv
  BY InitInv, NextInv, PTL DEF Spec

(* The variables keep their types.                                         *)
THEOREM HistoryTypes == Spec => []TypeOK
  <1>1. IInv => TypeOK
    BY DEF IInv
  <1> QED
    BY <1>1, Invariant, PTL

(* A cached list lacks a published change only while its removal is        *)
(* queued, when it was dropped, or when a publication overtook its request *)
(* (handleMessages, watchHistoryInvalidation).                             *)
THEOREM BehindExplained == Spec => []BehindOnlyIf
  <1>1. IInv => BehindOnlyIf
    BY DEF IInv
  <1> QED
    BY <1>1, Invariant, PTL

(* A list that Get answers with is behind by TTL at most, whatever was     *)
(* dropped, unless its request was overtaken.                              *)
THEOREM StaleBounded == Spec => []BoundedlyStale
  <1>1. IInv => BoundedlyStale
    <2> SUFFICES ASSUME IInv, NEW k \in Keys, Usable(k), k \notin raced,
                        NEW i \in DOMAIN reported[ChatOf[k]], i > entries[k].list
                 PROVE  now <= reported[ChatOf[k]][i] + TTL
      BY DEF BoundedlyStale
    <2>1. k \in cached /\ now <= entries[k].expiresAt
      BY DEF Usable
    <2>2. entries[k].expiresAt <= reported[ChatOf[k]][i] + TTL
      BY <2>1 DEF IInv, AgeInv
    <2>3. /\ now \in Nat /\ entries[k].expiresAt \in Nat /\ TTL \in Nat
          /\ reported[ChatOf[k]][i] \in 0..now
      BY <2>1, CachedType, HistoryAssumption DEF IInv, TypeOK
    <2> QED
      BY <2>1, <2>2, <2>3
  <1> QED
    BY <1>1, Invariant, PTL
=============================================================================
