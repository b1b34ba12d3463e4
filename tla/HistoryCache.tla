------------------------- MODULE HistoryCache -------------------------
(***************************************************************************)
(* internal/api: the cache of message lists that handleMessages keeps, and *)
(* the goroutine that removes a chat's lists when the hub reports an event *)
(* in it.                                                                  *)
(*                                                                         *)
(* A request looks its key up, asks imsg on a miss and stores the answer.  *)
(* Nothing is locked between the three steps, so requests for one key and  *)
(* the invalidation of its chat interleave.  A list is abstracted to the   *)
(* number of changes (messages, edits, reactions) of its chat it reflects. *)
(* The hub is abstracted to the channel of the invalidating goroutine;     *)
(* module Events has the other subscribers.                                *)
(***************************************************************************)
EXTENDS Integers, Sequences

CONSTANTS
    Handlers,  \* goroutines serving GET /v1/chats/{id}/messages
    Chats,
    Keys,      \* a chat with limit, before, after and attachments
    ChatOf,    \* Keys -> Chats
    None,
    Buffer,    \* capacity of the channel (32 in router.go)
    TTL,       \* lifetime of an entry (30 minutes in router.go)
    MaxTime,   \* bound: the clock
    MaxChanges \* bound: changes of a chat

ASSUME HistoryAssumption ==
    /\ ChatOf \in [Keys -> Chats]
    /\ Buffer \in Nat \ {0}
    /\ TTL \in Nat /\ MaxTime \in Nat /\ MaxChanges \in Nat
    /\ None \notin [list : Nat, expiresAt : Nat]

VARIABLES
    now,
    db,        \* Chats -> changes in the message database
    reported,  \* Chats -> times at which its changes were published
    chan,      \* chats whose events wait to be handled
    dropped,   \* chats an event was dropped for since the last one handled
    entries,   \* Keys -> changes the list reflects, last moment of use
    requests,  \* Handlers -> step, key and what the answer of imsg reflects
    overtaken, \* handlers that asked imsg before a publication
    raced      \* keys whose entry was stored by such a handler

vars == <<now, db, reported, chan, dropped, entries, requests, overtaken,
          raced>>

Entry == [list : 0..MaxChanges, expiresAt : 0..(MaxTime + TTL)]

Idle == [step |-> "idle"]
Looking == [step : {"expired", "missed"}, key : Keys]
Loaded == [step : {"loaded"}, key : Keys, list : 0..MaxChanges]

cached == {k \in Keys : entries[k] # None}

TypeOK ==
    /\ now \in 0..MaxTime
    /\ db \in [Chats -> 0..MaxChanges]
    /\ reported \in [Chats -> Seq(0..now)]
    /\ \A c \in Chats : Len(reported[c]) <= db[c]
    /\ chan \in Seq(Chats) /\ Len(chan) <= Buffer
    /\ dropped \subseteq Chats
    /\ entries \in [Keys -> Entry \union {None}]
    /\ requests \in [Handlers -> {Idle} \union Looking \union Loaded]
    /\ overtaken \subseteq Handlers
    /\ raced \subseteq cached

Init ==
    /\ now = 0
    /\ db = [c \in Chats |-> 0]
    /\ reported = [c \in Chats |-> <<>>]
    /\ chan = <<>>
    /\ dropped = {}
    /\ entries = [k \in Keys |-> None]
    /\ requests = [p \in Handlers |-> Idle]
    /\ overtaken = {}
    /\ raced = {}

-----------------------------------------------------------------------
(* Around the cache.                                                       *)

Tick ==
    /\ now < MaxTime
    /\ now' = now + 1
    /\ UNCHANGED <<db, reported, chan, dropped, entries, requests, overtaken,
                   raced>>

Change(c) ==
    /\ db[c] < MaxChanges
    /\ db' = [db EXCEPT ![c] = @ + 1]
    /\ UNCHANGED <<now, reported, chan, dropped, entries, requests, overtaken,
                   raced>>

(* Handlers that hold an answer of imsg about the chat.                    *)
Asked(c) == {p \in Handlers : requests[p].step = "loaded"
                               /\ ChatOf[requests[p].key] = c}

(* hub.Publish, for the channel of watchHistoryInvalidation.               *)
Publish(c) ==
    /\ Len(reported[c]) < db[c]
    /\ reported' = [reported EXCEPT ![c] = Append(@, now)]
    /\ IF Len(chan) < Buffer
       THEN chan' = Append(chan, c) /\ UNCHANGED dropped
       ELSE dropped' = dropped \union {c} /\ UNCHANGED chan
    /\ overtaken' = overtaken \union Asked(c)
    /\ UNCHANGED <<now, db, entries, requests, raced>>

\* Mutant of Stale: only one of the keys of the chat is found.
StaleOne(c) == LET all == {k \in cached : ChatOf[k] = c}
               IN  IF all = {} THEN {} ELSE {CHOOSE k \in all : TRUE}

(* The entries InvalidateChat removes.                                     *)
Stale(c) == {k \in cached : ChatOf[k] = c}

(* One turn of the loop of watchHistoryInvalidation.                       *)
InvalidateChat ==
    /\ chan # <<>>
    /\ LET c == Head(chan) IN
           /\ entries' = [k \in Keys |-> IF k \in Stale(c) THEN None ELSE entries[k]]
           /\ raced' = raced \ Stale(c)
           /\ dropped' = dropped \ {c}
    /\ chan' = Tail(chan)
    /\ UNCHANGED <<now, db, reported, requests, overtaken>>

-----------------------------------------------------------------------
(* handleMessages.                                                         *)

\* Mutant of Usable: the lifetime is not looked at.
UsableAlways(k) == k \in cached

(* Get answers from the entry; nothing changes.                            *)
Usable(k) == k \in cached /\ now <= entries[k].expiresAt

At(p, step) == requests[p].step = step

Miss(p, k) ==
    /\ At(p, "idle")
    /\ k \notin cached
    /\ requests' = [requests EXCEPT ![p] = [step |-> "missed", key |-> k]]
    /\ UNCHANGED <<now, db, reported, chan, dropped, entries, overtaken, raced>>

(* Get finds an entry too old, under the read lock ...                     *)
Expired(p, k) ==
    /\ At(p, "idle")
    /\ k \in cached
    /\ ~Usable(k)
    /\ requests' = [requests EXCEPT ![p] = [step |-> "expired", key |-> k]]
    /\ UNCHANGED <<now, db, reported, chan, dropped, entries, overtaken, raced>>

(* ... and deletes what is there by the time it has the write lock.        *)
Evict(p) ==
    /\ At(p, "expired")
    /\ LET k == requests[p].key IN
           /\ entries' = [entries EXCEPT ![k] = None]
           /\ raced' = raced \ {k}
           /\ requests' = [requests EXCEPT
                             ![p] = [step |-> "missed", key |-> k]]
    /\ UNCHANGED <<now, db, reported, chan, dropped, overtaken>>

(* ListMessages.                                                           *)
Load(p) ==
    /\ At(p, "missed")
    /\ LET k == requests[p].key IN
           requests' = [requests EXCEPT
               ![p] = [step |-> "loaded", key |-> k, list |-> db[ChatOf[k]]]]
    /\ UNCHANGED <<now, db, reported, chan, dropped, entries, overtaken, raced>>

LoadFails(p) ==
    /\ At(p, "missed")
    /\ requests' = [requests EXCEPT ![p] = Idle]
    /\ UNCHANGED <<now, db, reported, chan, dropped, entries, overtaken, raced>>

(* The answer is stored and sent.                                          *)
Put(p) ==
    /\ At(p, "loaded")
    /\ LET k == requests[p].key
           e == [list |-> requests[p].list, expiresAt |-> now + TTL]
       IN  /\ entries' = [entries EXCEPT ![k] = e]
           /\ raced' = IF p \in overtaken THEN raced \union {k} ELSE raced \ {k}
    /\ overtaken' = overtaken \ {p}
    /\ requests' = [requests EXCEPT ![p] = Idle]
    /\ UNCHANGED <<now, db, reported, chan, dropped>>

Next ==
    \/ Tick
    \/ \E c \in Chats : Change(c) \/ Publish(c)
    \/ InvalidateChat
    \/ \E p \in Handlers :
           \/ \E k \in Keys : Miss(p, k) \/ Expired(p, k)
           \/ Evict(p) \/ Load(p) \/ LoadFails(p) \/ Put(p)

Spec == Init /\ [][Next]_vars

-----------------------------------------------------------------------
(* Properties.                                                             *)

Queued(c) == \E i \in 1..Len(chan) : chan[i] = c

(* Entries that lack a change the hub has published.                       *)
Behind == {k \in cached : entries[k].list < Len(reported[ChatOf[k]])}

(* A list that lacks a published change has its removal still queued,      *)
(* lost it to a full channel, or was stored by a request that had asked    *)
(* imsg before the publication (InvalidateChat removes every key of the    *)
(* chat).                                                                  *)
BehindOnlyIf ==
    \A k \in Behind : \/ Queued(ChatOf[k])
                      \/ ChatOf[k] \in dropped
                      \/ k \in raced

(* Whatever was dropped, a list Get may answer with lacks no change that   *)
(* was published more than TTL ago, unless the request that stored it was  *)
(* overtaken by the publication (Get, and expiresAt, which only Put sets). *)
BoundedlyStale ==
    \A k \in Keys : Usable(k) /\ k \notin raced =>
        \A i \in DOMAIN reported[ChatOf[k]] :
            i > entries[k].list => now <= reported[ChatOf[k]][i] + TTL

(* Once an event of a chat has been handled, the next request for the chat *)
(* asks imsg again (router_test.go: "expected cache invalidation to        *)
(* trigger a second runner call").                                         *)
HandledEventReloads ==
    \A k \in Behind : Queued(ChatOf[k]) \/ ChatOf[k] \in dropped

=======================================================================
