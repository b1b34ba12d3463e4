---------------------------- MODULE Events ----------------------------
(***************************************************************************)
(* The event path: `imsg watch` -> imsg.Watcher -> the callback of main -> *)
(* events.Hub -> the websocket handlers.                                   *)
(*                                                                         *)
(* One goroutine reads the subprocess.  For each event it advances two     *)
(* cursors, the one the next subprocess resumes from (since) and the one   *)
(* in config.json (last, saved), and then publishes.  Publishing offers    *)
(* the event to each subscriber's channel and drops it where the channel   *)
(* is full.  Every websocket connection has a subscriber of its own.       *)
(*                                                                         *)
(* Saving the cursor is one step: module Store shows that an Update takes  *)
(* effect at once or not at all.  The webhook dispatch that ends the       *)
(* callback only reads the store and starts goroutines, so it changes no   *)
(* state of this module.  Times (debounce, backoff, heartbeat) are left    *)
(* out: a step that waits may be taken at any moment.                      *)
(***************************************************************************)
EXTENDS Integers, Sequences

CONSTANTS
    Conns,      \* websocket connections
    Buffer,     \* capacity of a subscriber's channel (32 in ws.go)
    Unreadable, \* rows whose line does not decode, or is longer than 4 MB
    MaxRow,     \* bound: rows the message database gets
    MaxUpdates, \* bound: edits and reactions reported
    MaxBreaks,  \* bound: times the subprocess stops or a line is garbled
    MaxCrashes  \* bound: times the daemon dies and is started again

ASSUME EventsAssumption ==
    /\ Buffer \in Nat \ {0}
    /\ Unreadable \subseteq Nat
    /\ MaxRow \in Nat
    /\ MaxUpdates \in Nat
    /\ MaxBreaks \in Nat
    /\ MaxCrashes \in Nat

VARIABLES
    (* outside the daemon *)
    rows,    \* rows of the message database, numbered from 1
    head,    \* last row the subprocess has printed or was told to skip
    updates, breaks, crashes, \* what the bounds count
    (* the watcher and the callback *)
    pc,      \* where the watching goroutine is
    cur,     \* the event it has in hand
    since,   \* cursor of Watcher.Run
    last,    \* lastWatchRowID
    saved,   \* LastWatchRowID in config.json
    (* the hub and the websocket handlers *)
    feed,    \* events published since the daemon started
    conn,    \* Conns -> where its handler is
    chan,    \* Conns -> its channel: places in feed
    hand,    \* Conns -> what its handler is writing
    (* history *)
    got,     \* Conns -> what was written to the peer
    joined,  \* Conns -> length of feed when it subscribed
    dropped, \* connections that an event was dropped for
    ever,    \* rows of new messages ever published
    again,   \* rows published by two lives of the daemon
    burnt,   \* rows saved as seen whose publication a crash prevented
    unsaved, \* rows whose cursor could not be saved
    skipped, \* rows up to here predate the first watch (-1 until there is one)
    unheard  \* later rows that came before there was a cursor, and were missed

outside == <<rows, head, updates, breaks, crashes>>
hub == <<conn, chan, hand, got, joined, dropped>>
history == <<ever, again, burnt, unsaved, skipped, unheard>>
vars == <<outside, pc, cur, since, last, saved, feed, hub, history>>

Event == [row : Nat, update : BOOLEAN]

OutsideTypeOK ==
    /\ rows \in 0..MaxRow
    /\ head \in 0..rows
    /\ updates \in 0..MaxUpdates
    /\ breaks \in 0..MaxBreaks
    /\ crashes \in 0..MaxCrashes

WatchTypeOK ==
    /\ pc \in {"backoff", "reading", "saving", "publishing"}
    /\ cur \in Event
    /\ since \in 0..rows
    /\ last \in 0..rows
    /\ saved \in 0..rows
    /\ feed \in Seq(Event)

HubTypeOK ==
    /\ conn \in [Conns -> {"off", "waiting", "writing"}]
    /\ chan \in [Conns -> Seq(Nat)]
    /\ \A c \in Conns : Len(chan[c]) <= Buffer
    /\ hand \in [Conns -> Seq(Nat)]
    /\ got \in [Conns -> Seq(Nat)]
    /\ joined \in [Conns -> Nat]
    /\ dropped \subseteq Conns

HistoryTypeOK ==
    /\ ever \subseteq 1..rows
    /\ again \subseteq 1..rows
    /\ burnt \subseteq 1..rows
    /\ unsaved \subseteq 1..rows
    /\ skipped \in -1..rows
    /\ unheard \subseteq 1..rows

TypeOK == OutsideTypeOK /\ WatchTypeOK /\ HubTypeOK /\ HistoryTypeOK

Off == [c \in Conns |-> "off"]
NoEvents == [c \in Conns |-> <<>>]

Init ==
    /\ rows \in 0..MaxRow
    /\ head = 0
    /\ updates = 0 /\ breaks = 0 /\ crashes = 0
    /\ pc = "backoff"
    /\ cur = [row |-> 0, update |-> FALSE]
    /\ since = 0 /\ last = 0 /\ saved = 0
    /\ feed = <<>>
    /\ conn = Off
    /\ chan = NoEvents /\ hand = NoEvents /\ got = NoEvents
    /\ joined = [c \in Conns |-> 0]
    /\ dropped = {}
    /\ ever = {} /\ again = {} /\ burnt = {} /\ unsaved = {}
    /\ skipped = -1 /\ unheard = {}

-----------------------------------------------------------------------
(* The message database and the subprocess.                                *)

NewRow ==
    /\ rows < MaxRow
    /\ rows' = rows + 1
    /\ UNCHANGED <<head, updates, breaks, crashes, pc, cur, since, last,
                   saved, feed, hub, history>>

(* No event came since the daemon started, and none is remembered.         *)
NothingHeard == feed = <<>> /\ saved = 0

(* Without a cursor the watch reports only what arrives after it starts.   *)
StartWatch ==
    /\ pc = "backoff"
    /\ pc' = "reading"
    /\ head' = IF since > 0 THEN since ELSE rows
    /\ skipped' = IF skipped = -1 THEN rows ELSE skipped
    /\ unheard' = IF skipped # -1 /\ NothingHeard
                  THEN unheard \union (skipped + 1)..rows ELSE unheard
    /\ UNCHANGED <<rows, updates, breaks, crashes, cur, since, last, saved,
                   feed, hub, ever, again, burnt, unsaved>>

(* The watch ends with an error: what it printed and nobody read is gone.  *)
Stop ==
    /\ pc = "reading"
    /\ pc' = "backoff"
    /\ UNCHANGED <<rows, head, updates, crashes, cur, since, last, saved,
                   feed, hub, history>>

Break ==
    /\ Stop
    /\ breaks < MaxBreaks
    /\ breaks' = breaks + 1

\* Mutant of Choke: such a line is passed over.
ChokePasses ==
    /\ pc = "reading"
    /\ head < rows /\ head + 1 \in Unreadable
    /\ head' = head + 1
    /\ UNCHANGED <<rows, updates, breaks, crashes, pc, cur, since, last, saved,
                   feed, hub, history>>

(* The line of such a row is met again by every watch that resumes.        *)
Choke ==
    /\ Stop
    /\ head < rows /\ head + 1 \in Unreadable
    /\ UNCHANGED breaks

-----------------------------------------------------------------------
(* The watching goroutine.                                                 *)

\* Mutant of Advance: the cursors follow every event, older rows too.
AdvanceAlways(row) ==
    /\ since' = row
    /\ last' = row
    /\ pc' = IF row # last THEN "saving" ELSE "publishing"

\* Mutant of Advance: Run keeps resuming where it began.
AdvanceLastOnly(row) ==
    /\ since' = since
    /\ last' = IF row > last THEN row ELSE last
    /\ pc' = IF row > last THEN "saving" ELSE "publishing"

(* The cursors follow the highest row seen; only then is there something   *)
(* to save.                                                                *)
Advance(row) ==
    /\ since' = IF row > since THEN row ELSE since
    /\ last' = IF row > last THEN row ELSE last
    /\ pc' = IF row > last THEN "saving" ELSE "publishing"

(* The next line is the next row, or an edit or a reaction to an old one.  *)
Receive ==
    /\ pc = "reading"
    /\ \/ /\ head < rows /\ head + 1 \notin Unreadable
          /\ head' = head + 1
          /\ cur' = [row |-> head + 1, update |-> FALSE]
          /\ UNCHANGED updates
       \/ /\ updates < MaxUpdates
          /\ updates' = updates + 1
          /\ \E r \in 1..head : cur' = [row |-> r, update |-> TRUE]
          /\ UNCHANGED head
    /\ Advance(cur'.row)
    /\ UNCHANGED <<rows, breaks, crashes, saved, feed, hub, history>>

\* Mutant of SaveCursor: the row before the last one is saved.
SaveCursorBehind ==
    /\ pc = "saving"
    /\ saved' = last - 1
    /\ pc' = "publishing"
    /\ UNCHANGED <<outside, cur, since, last, feed, hub, history>>

SaveCursor ==
    /\ pc = "saving"
    /\ saved' = last
    /\ pc' = "publishing"
    /\ UNCHANGED <<outside, cur, since, last, feed, hub, history>>

(* A failed save is only logged.                                           *)
SaveFails ==
    /\ pc = "saving"
    /\ unsaved' = unsaved \union {last}
    /\ pc' = "publishing"
    /\ UNCHANGED <<outside, cur, since, last, saved, feed, hub, ever, again,
                   burnt, skipped, unheard>>

Subscribers == {c \in Conns : conn[c] # "off"}
Full == {c \in Subscribers : Len(chan[c]) = Buffer}

\* Mutant of Offer: the loop waits for a full channel.
OfferBlocking(n) ==
    /\ Full = {}
    /\ chan' = [c \in Conns |->
                  IF c \in Subscribers THEN Append(chan[c], n) ELSE chan[c]]
    /\ dropped' = dropped

(* The select of Publish: send if there is room, else drop.                *)
Offer(n) ==
    /\ chan' = [c \in Conns |->
                  IF c \in Subscribers \ Full THEN Append(chan[c], n)
                  ELSE chan[c]]
    /\ dropped' = dropped \union Full

(* hub.Publish, under the hub's mutex, and the end of the callback.        *)
Publish ==
    /\ pc = "publishing"
    /\ feed' = Append(feed, cur)
    /\ Offer(Len(feed) + 1)
    /\ pc' = "reading"
    /\ ever' = IF cur.update THEN ever ELSE ever \union {cur.row}
    /\ again' = IF cur.update \/ cur.row \notin ever THEN again
                ELSE again \union {cur.row}
    /\ UNCHANGED <<outside, cur, since, last, saved, conn, hand, got, joined,
                   burnt, unsaved, skipped, unheard>>

-----------------------------------------------------------------------
(* The websocket handlers.                                                 *)

Connect(c) ==
    /\ conn[c] = "off"
    /\ conn' = [conn EXCEPT ![c] = "waiting"]
    /\ joined' = [joined EXCEPT ![c] = Len(feed)]
    /\ UNCHANGED <<outside, pc, cur, since, last, saved, feed, chan, hand,
                   got, dropped, history>>

Take(c) ==
    /\ conn[c] = "waiting"
    /\ chan[c] # <<>>
    /\ hand' = [hand EXCEPT ![c] = <<Head(chan[c])>>]
    /\ chan' = [chan EXCEPT ![c] = Tail(@)]
    /\ conn' = [conn EXCEPT ![c] = "writing"]
    /\ UNCHANGED <<outside, pc, cur, since, last, saved, feed, got, joined,
                   dropped, history>>

Write(c) ==
    /\ conn[c] = "writing"
    /\ got' = [got EXCEPT ![c] = @ \o hand[c]]
    /\ hand' = [hand EXCEPT ![c] = <<>>]
    /\ conn' = [conn EXCEPT ![c] = "waiting"]
    /\ UNCHANGED <<outside, pc, cur, since, last, saved, feed, chan, joined,
                   dropped, history>>

\* Mutant of Disconnect: the subscriber's channel is not thrown away.
DisconnectKeepsChannel(c) ==
    /\ conn[c] # "off"
    /\ conn' = [conn EXCEPT ![c] = "off"]
    /\ hand' = [hand EXCEPT ![c] = <<>>]
    /\ got' = [got EXCEPT ![c] = <<>>]
    /\ joined' = [joined EXCEPT ![c] = 0]
    /\ dropped' = dropped \ {c}
    /\ UNCHANGED <<outside, pc, cur, since, last, saved, feed, chan, history>>

(* The peer goes away or a write fails; the deferred unsubscribe removes   *)
(* the subscriber and closes its channel.                                  *)
Disconnect(c) ==
    /\ conn[c] # "off"
    /\ conn' = [conn EXCEPT ![c] = "off"]
    /\ chan' = [chan EXCEPT ![c] = <<>>]
    /\ hand' = [hand EXCEPT ![c] = <<>>]
    /\ got' = [got EXCEPT ![c] = <<>>]
    /\ joined' = [joined EXCEPT ![c] = 0]
    /\ dropped' = dropped \ {c}
    /\ UNCHANGED <<outside, pc, cur, since, last, saved, feed, history>>

(* The daemon dies, or is told to stop, and is started again: the cursors  *)
(* are read from config.json and every connection is gone.                 *)
Crash ==
    /\ crashes < MaxCrashes
    /\ crashes' = crashes + 1
    /\ pc' = "backoff"
    /\ since' = saved
    /\ last' = saved
    /\ feed' = <<>>
    /\ conn' = Off
    /\ chan' = NoEvents /\ hand' = NoEvents /\ got' = NoEvents
    /\ joined' = [c \in Conns |-> 0]
    /\ dropped' = {}
    /\ burnt' = IF pc = "publishing" /\ ~cur.update /\ cur.row <= saved
                THEN burnt \union {cur.row} ELSE burnt
    /\ UNCHANGED <<rows, head, updates, breaks, cur, saved, ever, again,
                   unsaved, skipped, unheard>>

Watch ==
    StartWatch \/ Receive \/ Choke \/ SaveCursor \/ SaveFails \/ Publish

Next ==
    \/ NewRow
    \/ Watch
    \/ Break
    \/ \E c \in Conns : Connect(c) \/ Take(c) \/ Write(c) \/ Disconnect(c)
    \/ Crash

(* The watching goroutine never stops while the daemon lives.  Nothing is  *)
(* assumed of the websocket handlers: a peer may stop reading for ever.    *)
Spec == Init /\ [][Next]_vars /\ WF_vars(Watch)

-----------------------------------------------------------------------
(* Properties.                                                             *)

(* New messages are published in the order of their rows and once each for *)
(* as long as the daemon runs, however often the subprocess is restarted   *)
(* (Watcher.Run resumes from the highest row seen).                        *)
InOrder ==
    \A i, j \in 1..Len(feed) :
        i < j /\ ~feed[i].update /\ ~feed[j].update =>
            feed[i].row < feed[j].row

(* No message between the first watch and the cursor is passed over: it    *)
(* was published, is in hand, or was in hand when the daemon died between  *)
(* saving the cursor and publishing (the callback of main).  One loss is   *)
(* excepted by name: a message that came after the first watch and was     *)
(* missed, as the subprocess or the daemon was down, before there was a    *)
(* cursor to resume from, that is, while the daemon had heard no event in  *)
(* this life and saved no cursor in an earlier one (unheard; watch gives   *)
(* no --since-rowid then).                                                 *)
Pending == IF pc \in {"saving", "publishing"} /\ ~cur.update
           THEN {cur.row} ELSE {}

NoneSkipped ==
    \A r \in 1..since :
        r <= skipped \/ r \in ever \union burnt \union unheard \union Pending

(* A restarted daemon repeats a message only if saving its cursor had      *)
(* failed (the callback saves before it publishes).                        *)
RepeatsOnlyUnsaved == again \subseteq unsaved

(* What the peer got, what is being written to it and what waits for it.   *)
Stream(c) == got[c] \o hand[c] \o chan[c]

(* A connection gets events in the order they were published, each once,   *)
(* from the moment it subscribed; and all of them, unless one found its    *)
(* channel full (Publish, Subscribe and the loop of handleEvents).         *)
Faithful(stream, from, to, gaps) ==
    /\ \A i \in 1..Len(stream) : stream[i] \in from+1..to
    /\ \A i, j \in 1..Len(stream) : i < j => stream[i] < stream[j]
    /\ ~gaps => Len(stream) = to - from

StreamFaithful ==
    \A c \in Subscribers :
        Faithful(Stream(c), joined[c], Len(feed), c \in dropped)

(* The cursor in config.json never moves back: not for an edit of an old   *)
(* message, not over a restart (the guard of the callback of main).        *)
CursorMonotone == [][saved' >= saved]_saved

(* Every message that arrives once a watch has a cursor is published, or   *)
(* was in hand when the daemon died (what comes earlier may be missed, as  *)
(* NoneSkipped says): no stalled websocket can hold it up (the default     *)
(* branch of Publish), only a row before it that cannot be read and is not *)
(* behind the saved cursor, over which every watch that resumes fails      *)
(* again (watch and Run).                                                  *)
Unhindered(r) ==
    rows >= r /\ \A u \in Unreadable : u <= r => u <= saved

EventuallyPublished ==
    \A r \in 1..MaxRow :
        Unhindered(r) ~>
            r <= skipped \/ r \in ever \union burnt \union unheard

-----------------------------------------------------------------------
(* What the safety properties rest on, shown inductive in EventsProofs.    *)

InHand == pc \in {"saving", "publishing"}
NewInHand == InHand /\ ~cur.update

(* The two cursors agree, and the subprocess is not behind them.           *)
CursorsAgree ==
    /\ last = since
    /\ saved <= last
    /\ since = 0 => feed = <<>>
    /\ pc # "backoff" => since <= head
    /\ InHand => cur.row \in 1..since
    /\ pc = "saving" => cur.row = last /\ saved < last

(* How far the subprocess, or the next one, has left nothing out.          *)
Position == IF pc = "backoff" THEN since ELSE head

Covered ==
    \A r \in 1..Position :
        r <= skipped \/ r \in ever \union burnt \union unheard \union Pending

(* What is in hand is newer than all that was published.                   *)
NewestLast ==
    \A i \in 1..Len(feed) : ~feed[i].update =>
        /\ feed[i].row <= since
        /\ NewInHand => feed[i].row < cur.row

(* A published row beyond the saved cursor is one whose save failed.       *)
SavedOrNot ==
    /\ \A r \in ever : r <= saved \/ r \in unsaved
    /\ pc = "publishing" /\ ~cur.update =>
           cur.row <= saved \/ cur.row \in unsaved
    /\ NewInHand /\ cur.row \in ever => cur.row \in unsaved

(* A handler that waits has nothing in hand, and one that is gone leaves   *)
(* nothing to the next.                                                    *)
HandlersTidy ==
    \A c \in Conns :
        /\ conn[c] # "writing" => hand[c] = <<>>
        /\ conn[c] = "off" =>
               chan[c] = <<>> /\ got[c] = <<>> /\ c \notin dropped
        /\ joined[c] <= Len(feed)

WatchInv ==
    /\ OutsideTypeOK /\ WatchTypeOK /\ HistoryTypeOK
    /\ CursorsAgree
    /\ Covered
    /\ NewestLast
    /\ InOrder
    /\ SavedOrNot
    /\ RepeatsOnlyUnsaved

HubInv ==
    /\ feed \in Seq(Event)
    /\ HubTypeOK
    /\ HandlersTidy
    /\ StreamFaithful

=======================================================================
