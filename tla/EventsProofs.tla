------------------------- MODULE EventsProofs -------------------------
(***************************************************************************)
(* Proofs about Events: what the watching goroutine publishes (WatchInv)   *)
(* and what a connection gets of it (HubInv).  The two arguments share the *)
(* feed and nothing else, and are made one after the other.  The last part *)
(* is about Webhooks, the other way on which events leave the daemon.      *)
(***************************************************************************)
EXTENDS Events, Webhooks, SequenceTheorems, TLAPS

-----------------------------------------------------------------------
(* The watching goroutine.                                                 *)

(* No watch has started.                                                   *)
LEMMA InitWatch == Init => WatchInv
  BY EventsAssumption
  DEF EventsAssumption, Init, WatchInv, OutsideTypeOK, WatchTypeOK,
      HistoryTypeOK, Event, CursorsAgree, Covered, NewestLast, InOrder,
      SavedOrNot, RepeatsOnlyUnsaved, Position, Pending, InHand, NewInHand

(* What a step leaves alone when it moves neither the watching goroutine,  *)
(* nor what it has in hand, nor its history.                               *)
watching == <<pc, cur, since, last, saved, feed, history>>

(* The invariant does not depend on the rest, nor on rows that arrive.     *)
LEMMA ElsewhereWatch ==
    ASSUME WatchInv, UNCHANGED watching,
           rows' \in 0..MaxRow, rows <= rows', UNCHANGED <<head, updates>>,
           breaks' \in 0..MaxBreaks, crashes' \in 0..MaxCrashes
    PROVE  WatchInv'
<1> USE EventsAssumption
    DEF EventsAssumption, watching, history, WatchInv
<1>1. OutsideTypeOK' /\ WatchTypeOK' /\ HistoryTypeOK'
  BY DEF OutsideTypeOK, WatchTypeOK, HistoryTypeOK
<1>2. CursorsAgree' /\ Covered'
  BY DEF CursorsAgree, Covered, InHand, Position, Pending
<1>3. NewestLast' /\ InOrder' /\ SavedOrNot' /\ RepeatsOnlyUnsaved'
  BY DEF NewestLast, InOrder, SavedOrNot, RepeatsOnlyUnsaved, InHand, NewInHand
<1> QED
  BY <1>1, <1>2, <1>3

(* A watch resumes from its cursor, or from the last row without one.      *)
LEMMA StartWatchInv == WatchInv /\ StartWatch => WatchInv'
<1> SUFFICES ASSUME WatchInv, StartWatch
             PROVE  WatchInv'
  OBVIOUS
<1> USE DEF StartWatch, WatchInv
<1>1. OutsideTypeOK' /\ WatchTypeOK' /\ HistoryTypeOK'
  BY DEF OutsideTypeOK, WatchTypeOK, HistoryTypeOK
<1>2. CursorsAgree'
  BY DEF CursorsAgree, OutsideTypeOK, WatchTypeOK, InHand
<1>3. Covered'
  <2> SUFFICES ASSUME NEW r \in 1..head'
               PROVE  \/ r <= skipped'
                      \/ r \in ever \union burnt \union unheard' \union Pending'
    BY DEF Covered, Position
  <2>1. CASE since > 0
    BY <2>1 DEF Covered, Position, Pending, OutsideTypeOK, WatchTypeOK,
                HistoryTypeOK, CursorsAgree
  <2>2. CASE since = 0
    <3>1. NothingHeard
      BY <2>2 DEF NothingHeard, CursorsAgree, WatchTypeOK, OutsideTypeOK
    <3> QED
      BY <2>2, <3>1 DEF OutsideTypeOK, HistoryTypeOK
  <2> QED
    BY <2>1, <2>2 DEF WatchTypeOK, OutsideTypeOK
<1>4. NewestLast' /\ InOrder' /\ SavedOrNot' /\ RepeatsOnlyUnsaved'
  BY DEF NewestLast, InOrder, SavedOrNot, RepeatsOnlyUnsaved, InHand, NewInHand
<1> QED
  BY <1>1, <1>2, <1>3, <1>4

(* The watch ends, and the cursors stay where they are.                    *)
LEMMA StopInv ==
    WatchInv /\ Stop /\ breaks' \in 0..MaxBreaks => WatchInv'
<1> SUFFICES ASSUME WatchInv, Stop, breaks' \in 0..MaxBreaks
             PROVE  WatchInv'
  OBVIOUS
<1> USE EventsAssumption DEF EventsAssumption, Stop, WatchInv, history
<1>1. OutsideTypeOK' /\ WatchTypeOK' /\ HistoryTypeOK'
  BY DEF OutsideTypeOK, WatchTypeOK, HistoryTypeOK
<1>2. CursorsAgree'
  BY DEF CursorsAgree, InHand
<1>3. Covered'
  BY DEF Covered, Position, Pending, CursorsAgree, OutsideTypeOK, WatchTypeOK
<1>4. NewestLast' /\ InOrder' /\ SavedOrNot' /\ RepeatsOnlyUnsaved'
  BY DEF NewestLast, InOrder, SavedOrNot, RepeatsOnlyUnsaved, InHand, NewInHand
<1> QED
  BY <1>1, <1>2, <1>3, <1>4

(* A new row is beyond both cursors; an old one may move them, not beyond  *)
(* the position of the subprocess.                                         *)
LEMMA ReceiveInv == WatchInv /\ Receive => WatchInv'
<1> SUFFICES ASSUME WatchInv, Receive
             PROVE  WatchInv'
  OBVIOUS
<1> USE EventsAssumption DEF EventsAssumption, WatchInv, history
<1>0. /\ pc = "reading" /\ last = since /\ saved <= last /\ since <= head
      /\ rows \in Nat /\ head \in 0..rows /\ since \in Nat /\ saved \in Nat
  BY DEF Receive, CursorsAgree, OutsideTypeOK, WatchTypeOK
<1>1. /\ cur' \in Event /\ cur'.row \in 1..rows /\ cur'.row <= head'
      /\ head' \in 0..rows /\ updates' \in 0..MaxUpdates
      /\ ~cur'.update => cur'.row = head + 1 /\ head' = head + 1
      /\ cur'.update => head' = head
  <2>1. CASE /\ head < rows /\ head + 1 \notin Unreadable
             /\ head' = head + 1
             /\ cur' = [row |-> head + 1, update |-> FALSE]
             /\ UNCHANGED updates
    BY <1>0, <2>1 DEF Event, OutsideTypeOK
  <2>2. CASE /\ updates < MaxUpdates
             /\ updates' = updates + 1
             /\ \E r \in 1..head : cur' = [row |-> r, update |-> TRUE]
             /\ UNCHANGED head
    <3>1. PICK r \in 1..head : cur' = [row |-> r, update |-> TRUE]
      BY <2>2
    <3> QED
      BY <1>0, <2>2, <3>1 DEF Event, OutsideTypeOK
  <2> QED
    BY <2>1, <2>2 DEF Receive
<1>2. /\ since' = IF cur'.row > since THEN cur'.row ELSE since
      /\ last' = since'
      /\ pc' = IF cur'.row > since THEN "saving" ELSE "publishing"
  BY <1>0 DEF Receive, Advance
<1>3. UNCHANGED <<rows, breaks, crashes, saved, feed, ever, again, burnt,
                  unsaved, skipped, unheard>>
  BY DEF Receive
<1>4. OutsideTypeOK' /\ WatchTypeOK' /\ HistoryTypeOK'
  BY <1>0, <1>1, <1>2, <1>3 DEF OutsideTypeOK, WatchTypeOK, HistoryTypeOK
<1>5. CursorsAgree'
  BY <1>0, <1>1, <1>2, <1>3 DEF CursorsAgree, InHand
<1>6. Covered'
  BY <1>0, <1>1, <1>2, <1>3 DEF Covered, Position, Pending
<1>7. NewestLast'
  <2> SUFFICES ASSUME NEW i \in 1..Len(feed), ~feed[i].update
               PROVE  /\ feed[i].row <= since'
                      /\ ~cur'.update => feed[i].row < cur'.row
    BY <1>3 DEF NewestLast, NewInHand
  <2>1. feed \in Seq(Event)
    BY DEF WatchTypeOK
  <2>2. feed[i] \in Event
    BY <2>1
  <2>3. feed[i].row <= since /\ feed[i].row \in Nat
    BY <2>2 DEF NewestLast, Event
  <2> QED
    BY <2>3, <1>0, <1>1, <1>2
<1>8. InOrder' /\ RepeatsOnlyUnsaved'
  BY <1>3 DEF InOrder, RepeatsOnlyUnsaved
<1>9. SavedOrNot'
  BY <1>0, <1>1, <1>2, <1>3 DEF SavedOrNot, NewInHand, InHand
<1> QED
  BY <1>4, <1>5, <1>6, <1>7, <1>8, <1>9

(* The cursor is saved before what it stands for is published.             *)
LEMMA SaveCursorInv == WatchInv /\ SaveCursor => WatchInv'
<1> SUFFICES ASSUME WatchInv, SaveCursor
             PROVE  WatchInv'
  OBVIOUS
<1> USE DEF SaveCursor, WatchInv, outside, history
<1>1. OutsideTypeOK' /\ WatchTypeOK' /\ HistoryTypeOK'
  BY DEF OutsideTypeOK, WatchTypeOK, HistoryTypeOK
<1>2. CursorsAgree'
  BY DEF CursorsAgree, InHand, WatchTypeOK, OutsideTypeOK
<1>3. Covered'
  BY DEF Covered, Position, Pending
<1>4. NewestLast' /\ InOrder' /\ RepeatsOnlyUnsaved'
  BY DEF NewestLast, InOrder, RepeatsOnlyUnsaved, InHand, NewInHand
<1>5. SavedOrNot'
  BY DEF SavedOrNot, CursorsAgree, NewInHand, InHand, WatchTypeOK,
         HistoryTypeOK, OutsideTypeOK
<1> QED
  BY <1>1, <1>2, <1>3, <1>4, <1>5

(* A cursor that could not be saved is remembered as unsaved.              *)
LEMMA SaveFailsInv == WatchInv /\ SaveFails => WatchInv'
<1> SUFFICES ASSUME WatchInv, SaveFails
             PROVE  WatchInv'
  OBVIOUS
<1> USE DEF SaveFails, WatchInv, outside
<1>1. OutsideTypeOK' /\ WatchTypeOK' /\ HistoryTypeOK'
  BY DEF OutsideTypeOK, WatchTypeOK, HistoryTypeOK, CursorsAgree, InHand
<1>2. CursorsAgree'
  BY DEF CursorsAgree, InHand
<1>3. Covered'
  BY DEF Covered, Position, Pending
<1>4. NewestLast' /\ InOrder' /\ RepeatsOnlyUnsaved'
  BY DEF NewestLast, InOrder, RepeatsOnlyUnsaved, InHand, NewInHand
<1>5. SavedOrNot'
  BY DEF SavedOrNot, CursorsAgree, NewInHand, InHand
<1> QED
  BY <1>1, <1>2, <1>3, <1>4, <1>5

(* What is published is newer than all that was published before.          *)
LEMMA PublishInv == WatchInv /\ Publish => WatchInv'
<1> SUFFICES ASSUME WatchInv, Publish
             PROVE  WatchInv'
  OBVIOUS
<1> USE DEF WatchInv, outside
<1>1. /\ pc = "publishing" /\ pc' = "reading"
      /\ ever' = IF cur.update THEN ever ELSE ever \union {cur.row}
      /\ again' = IF cur.update \/ cur.row \notin ever THEN again
                  ELSE again \union {cur.row}
      /\ UNCHANGED <<rows, head, updates, breaks, crashes, cur, since, last,
                     saved, burnt, unsaved, skipped, unheard>>
  BY DEF Publish
<1>2. /\ feed \in Seq(Event) /\ cur \in Event
      /\ feed' = Append(feed, cur)
  BY DEF Publish, WatchTypeOK
<1>3. /\ feed' \in Seq(Event)
      /\ Len(feed') = Len(feed) + 1 /\ Len(feed) \in Nat
      /\ \A i \in 1..Len(feed) : feed'[i] = feed[i]
      /\ feed'[Len(feed) + 1] = cur
  BY <1>2
<1>4. cur.row \in 1..since /\ since \in 0..rows /\ rows \in Nat
  BY <1>1 DEF CursorsAgree, InHand, WatchTypeOK, OutsideTypeOK
<1>5. OutsideTypeOK' /\ WatchTypeOK' /\ HistoryTypeOK'
  <2>1. OutsideTypeOK'
    BY <1>1 DEF OutsideTypeOK
  <2>2. WatchTypeOK'
    BY <1>1, <1>3 DEF WatchTypeOK
  <2>3. cur.row \in 1..rows
    BY <1>4
  <2>4. HistoryTypeOK'
    BY <1>1, <2>3 DEF HistoryTypeOK
  <2> QED
    BY <2>1, <2>2, <2>4
<1>6. CursorsAgree' /\ Covered'
  BY <1>1, <1>4 DEF CursorsAgree, InHand, Covered, Position, Pending
<1>7. NewestLast'
  BY <1>1, <1>3, <1>4 DEF NewestLast, NewInHand, InHand
<1>8. InOrder'
  BY <1>1, <1>3 DEF InOrder, NewestLast, NewInHand, InHand
<1>9. SavedOrNot' /\ RepeatsOnlyUnsaved'
  BY <1>1 DEF SavedOrNot, RepeatsOnlyUnsaved, NewInHand, InHand
<1> QED
  BY <1>5, <1>6, <1>7, <1>8, <1>9

(* A row in hand that is not yet saved will be read again; one that is     *)
(* saved is lost, and noted.                                               *)
LEMMA CrashInv == WatchInv /\ Crash => WatchInv'
<1> SUFFICES ASSUME WatchInv, Crash
             PROVE  WatchInv'
  OBVIOUS
<1> USE EventsAssumption DEF EventsAssumption, WatchInv, Crash
<1>1. OutsideTypeOK' /\ WatchTypeOK' /\ HistoryTypeOK'
  <2>1. OutsideTypeOK'
    BY DEF OutsideTypeOK
  <2>2. WatchTypeOK'
    BY DEF WatchTypeOK
  <2>3. saved \in 0..rows /\ rows \in Nat
    BY DEF WatchTypeOK, OutsideTypeOK
  <2>4. pc = "publishing" => cur.row \in 1..rows
    <3>1. since \in 0..rows /\ (pc = "publishing" => cur.row \in 1..since)
      BY DEF CursorsAgree, InHand, WatchTypeOK
    <3> QED
      BY <2>3, <3>1
  <2>5. burnt' \subseteq 1..rows
    <3>1. burnt \subseteq 1..rows
      BY DEF HistoryTypeOK
    <3>2. \/ burnt' = burnt
          \/ pc = "publishing" /\ burnt' = burnt \union {cur.row}
      OBVIOUS
    <3> QED
      BY <2>4, <3>1, <3>2
  <2>6. HistoryTypeOK'
    BY <2>5 DEF HistoryTypeOK
  <2> QED
    BY <2>1, <2>2, <2>6
<1>2. CursorsAgree'
  BY DEF CursorsAgree, InHand, WatchTypeOK, OutsideTypeOK
<1>3. Covered'
  BY DEF Covered, Position, Pending, CursorsAgree, InHand, WatchTypeOK,
         OutsideTypeOK
<1>4. NewestLast' /\ InOrder' /\ RepeatsOnlyUnsaved' /\ SavedOrNot'
  BY DEF NewestLast, InOrder, RepeatsOnlyUnsaved, SavedOrNot, InHand, NewInHand
<1> QED
  BY <1>1, <1>2, <1>3, <1>4

(* Every step keeps the invariant of the watching goroutine.               *)
LEMMA NextWatch == WatchInv /\ [Next]_vars => WatchInv'
<1> SUFFICES ASSUME WatchInv, [Next]_vars
             PROVE  WatchInv'
  OBVIOUS
<1> USE EventsAssumption DEF EventsAssumption
<1>0. rows \in 0..MaxRow /\ breaks \in 0..MaxBreaks /\ crashes \in 0..MaxCrashes
  BY DEF WatchInv, OutsideTypeOK
<1>1. CASE NewRow
  BY <1>0, <1>1, ElsewhereWatch DEF NewRow, watching, history
<1>2. CASE Watch
  BY <1>0, <1>2, StartWatchInv, ReceiveInv, StopInv, SaveCursorInv,
     SaveFailsInv, PublishInv DEF Watch, Choke
<1>3. CASE Break
  BY <1>0, <1>3, StopInv DEF Break
<1>4. ASSUME NEW c \in Conns, Connect(c) \/ Take(c) \/ Write(c) \/ Disconnect(c)
      PROVE  WatchInv'
  <2>1. UNCHANGED watching /\ UNCHANGED outside
    BY <1>4 DEF Connect, Take, Write, Disconnect, watching
  <2> QED
    BY <1>0, <2>1, ElsewhereWatch DEF outside
<1>5. CASE Crash
  BY <1>5, CrashInv
<1>6. CASE UNCHANGED vars
  BY <1>0, <1>6, ElsewhereWatch DEF vars, watching, history, outside
<1> QED
  BY <1>1, <1>2, <1>3, <1>4, <1>5, <1>6 DEF Next

(* The invariant of the watching goroutine and the callback of main.       *)
THEOREM WatchInvariant == Spec => []WatchInv
  BY InitWatch, NextWatch, PTL DEF Spec

(* Messages are published in order and once for as long as the daemon      *)
(* runs (Watcher.Run).                                                     *)
THEOREM PublishedInOrder == Spec => []InOrder
<1>1. WatchInv => InOrder
  BY DEF WatchInv
<1> QED
  BY <1>1, WatchInvariant, PTL

(* Nothing between the first watch and the cursor is passed over but what  *)
(* a crash took between saving and publishing, and what was missed before  *)
(* there was a cursor (Run, watch, the callback of main).                  *)
THEOREM NothingSkipped == Spec => []NoneSkipped
<1>1. WatchInv => NoneSkipped
  <2> SUFFICES ASSUME WatchInv, NEW r \in 1..since
               PROVE  \/ r <= skipped
                      \/ r \in ever \union burnt \union unheard \union Pending
    BY DEF NoneSkipped
  <2>1. r \in 1..Position
    BY DEF WatchInv, CursorsAgree, Position, OutsideTypeOK, WatchTypeOK
  <2> QED
    BY <2>1 DEF WatchInv, Covered
<1> QED
  BY <1>1, WatchInvariant, PTL

(* Only a failed save makes a restarted daemon repeat a message (the       *)
(* callback of main saves first).                                          *)
THEOREM OnlyUnsavedRepeat == Spec => []RepeatsOnlyUnsaved
<1>1. WatchInv => RepeatsOnlyUnsaved
  BY DEF WatchInv
<1> QED
  BY <1>1, WatchInvariant, PTL

(* The saved cursor never moves back (the guard of the callback of main).  *)
THEOREM CursorNeverBack == Spec => CursorMonotone
<1>1. WatchInv /\ [Next]_vars => [saved' >= saved]_saved
  <2> SUFFICES ASSUME WatchInv, [Next]_vars, saved' # saved
               PROVE  saved' >= saved
    OBVIOUS
  <2>1. SaveCursor
    BY DEF Next, vars, outside, hub, history, NewRow, Watch, StartWatch,
           Receive, SaveFails, Publish, Break, Choke, Stop, Connect, Take, Write,
           Disconnect, Crash
  <2> QED
    BY <2>1 DEF SaveCursor, WatchInv, CursorsAgree, WatchTypeOK
<1> QED
  BY <1>1, WatchInvariant, PTL DEF Spec, CursorMonotone

-----------------------------------------------------------------------
(* The hub and the websocket handlers.                                     *)

(* Publishing to a stream with room, and to one without.                   *)
LEMMA FaithfulAppend ==
    ASSUME NEW s \in Seq(Nat), NEW from \in Nat, NEW to \in Nat, from <= to,
           NEW gaps \in BOOLEAN, Faithful(s, from, to, gaps)
    PROVE  Faithful(Append(s, to + 1), from, to + 1, gaps)
<1>1. /\ Append(s, to + 1) \in Seq(Nat)
      /\ Len(Append(s, to + 1)) = Len(s) + 1
      /\ Len(s) \in Nat
      /\ \A i \in 1..Len(s) : Append(s, to + 1)[i] = s[i] /\ s[i] \in Nat
      /\ Append(s, to + 1)[Len(s) + 1] = to + 1
  OBVIOUS
<1> QED
  BY <1>1 DEF Faithful

(* An event that is dropped leaves a gap in a stream that is faithful.     *)
LEMMA FaithfulGap ==
    ASSUME NEW s \in Seq(Nat), NEW from \in Nat, NEW to \in Nat,
           NEW gaps, Faithful(s, from, to, gaps)
    PROVE  Faithful(s, from, to + 1, TRUE)
  BY DEF Faithful

(* What the handlers do to the three parts of a stream leaves the whole as *)
(* it was.                                                                 *)
LEMMA StreamParts ==
    ASSUME NEW g \in Seq(Nat), NEW h \in Seq(Nat), NEW q \in Seq(Nat)
    PROVE  /\ (g \o h) \o q \in Seq(Nat)
           /\ \A n \in Nat : (g \o h) \o Append(q, n) = Append((g \o h) \o q, n)
           /\ ((g \o h) \o <<>>) \o q = (g \o h) \o q
           /\ q # <<>> /\ h = <<>> =>
                  (g \o <<Head(q)>>) \o Tail(q) = (g \o h) \o q
<1>1. (g \o h) \o q \in Seq(Nat) /\ g \o h \in Seq(Nat)
  OBVIOUS
<1>2. ASSUME NEW n \in Nat
      PROVE  (g \o h) \o Append(q, n) = Append((g \o h) \o q, n)
  <2>1. Append(q, n) = q \o <<n>> /\ <<n>> \in Seq(Nat)
    BY AppendIsConcat
  <2>2. Append((g \o h) \o q, n) = ((g \o h) \o q) \o <<n>>
    BY <1>1, AppendIsConcat
  <2> QED
    BY <1>1, <2>1, <2>2, ConcatAssociative
<1>3. ((g \o h) \o <<>>) \o q = (g \o h) \o q
  BY <1>1, ConcatEmptySeq
<1>4. ASSUME q # <<>>, h = <<>>
      PROVE  (g \o <<Head(q)>>) \o Tail(q) = (g \o h) \o q
  <2> DEFINE front == <<Head(q)>>
             rest == Tail(q)
  <2>1. front \in Seq(Nat) /\ rest \in Seq(Nat)
    BY <1>4, HeadTailProperties
  <2>2. front \o rest = q
    BY <1>4
  <2>3. g \o h = g
    BY <1>4, ConcatEmptySeq
  <2> HIDE DEF front, rest
  <2>4. (g \o front) \o rest = g \o (front \o rest)
    BY <2>1, ConcatAssociative, SMTT(60)
  <2>5. (g \o front) \o rest = (g \o h) \o q
    BY <2>2, <2>3, <2>4, Zenon
  <2> QED
    BY <2>5, Zenon DEF front, rest
<1> QED
  BY <1>1, <1>2, <1>3, <1>4

(* Nobody is connected.                                                    *)
LEMMA InitHub == Init => HubInv
<1> SUFFICES ASSUME Init PROVE HubInv
  OBVIOUS
<1> USE EventsAssumption DEF EventsAssumption, Init, Off, NoEvents
<1>1. HubTypeOK /\ feed \in Seq(Event)
  BY DEF HubTypeOK
<1>2. HandlersTidy /\ StreamFaithful
  BY DEF HandlersTidy, StreamFaithful, Subscribers
<1> QED
  BY <1>1, <1>2 DEF HubInv

(* A step of one handler: the others keep their streams.                   *)
LEMMA OneHandler ==
    ASSUME HubInv, HubTypeOK', UNCHANGED feed, NEW c \in Conns,
           \A d \in Conns \ {c} : /\ conn'[d] = conn[d] /\ chan'[d] = chan[d]
                                  /\ hand'[d] = hand[d] /\ got'[d] = got[d]
                                  /\ joined'[d] = joined[d]
                                  /\ d \in dropped' <=> d \in dropped,
           conn'[c] # "writing" => hand'[c] = <<>>,
           conn'[c] = "off" =>
               chan'[c] = <<>> /\ got'[c] = <<>> /\ c \notin dropped',
           joined'[c] <= Len(feed),
           conn'[c] # "off" =>
               Faithful(Stream(c)', joined'[c], Len(feed), c \in dropped')
    PROVE  HubInv'
<1>1. HandlersTidy'
  BY DEF HubInv, HandlersTidy
<1>2. StreamFaithful'
  <2> SUFFICES ASSUME NEW d \in Conns, conn'[d] # "off"
               PROVE  Faithful(Stream(d)', joined'[d], Len(feed), d \in dropped')
    BY DEF StreamFaithful, Subscribers
  <2>1. CASE d = c
    BY <2>1
  <2>2. CASE d # c
    <3>1. Stream(d)' = Stream(d) /\ joined'[d] = joined[d]
          /\ (d \in dropped' <=> d \in dropped) /\ conn[d] # "off"
      BY <2>2 DEF Stream
    <3>2. Faithful(Stream(d), joined[d], Len(feed), d \in dropped)
      BY <3>1 DEF HubInv, StreamFaithful, Subscribers
    <3> QED
      BY <3>1, <3>2
  <2> QED
    BY <2>1, <2>2
<1> QED
  BY <1>1, <1>2 DEF HubInv

(* A handler begins with an empty channel and an empty hand.               *)
LEMMA ConnectHub == ASSUME HubInv, NEW c \in Conns, Connect(c) PROVE HubInv'
<1>1. HubTypeOK'
  BY DEF HubInv, HubTypeOK, Connect
<1>2. /\ chan[c] = <<>> /\ hand[c] = <<>> /\ got[c] = <<>> /\ c \notin dropped
      /\ Len(feed) \in Nat
  BY DEF HubInv, HandlersTidy, Connect
<1>3. conn'[c] = "waiting" /\ joined'[c] = Len(feed)
  BY DEF Connect, HubInv, HubTypeOK
<1>4. Stream(c)' = <<>>
  BY <1>2 DEF Stream, Connect
<1>5. Faithful(Stream(c)', joined'[c], Len(feed), c \in dropped')
  BY <1>2, <1>3, <1>4 DEF Faithful
<1>6. /\ UNCHANGED <<feed, chan, hand, got, dropped>>
      /\ \A d \in Conns \ {c} : conn'[d] = conn[d] /\ joined'[d] = joined[d]
  BY DEF Connect, HubInv, HubTypeOK
<1>7. joined'[c] <= Len(feed)
  BY <1>2, <1>3
<1> QED
  BY <1>1, <1>2, <1>3, <1>5, <1>6, <1>7, OneHandler

(* An event goes from the channel into the hand of the handler.            *)
LEMMA TakeHub == ASSUME HubInv, NEW c \in Conns, Take(c) PROVE HubInv'
<1>0. /\ got[c] \in Seq(Nat) /\ hand[c] = <<>> /\ chan[c] \in Seq(Nat)
      /\ hand[c] \in Seq(Nat) /\ chan[c] # <<>> /\ Len(chan[c]) <= Buffer
  BY DEF HubInv, HubTypeOK, HandlersTidy, Take
<1>1. /\ Head(chan[c]) \in Nat /\ Tail(chan[c]) \in Seq(Nat)
      /\ Len(Tail(chan[c])) <= Buffer
  BY <1>0, EventsAssumption, HeadTailProperties DEF EventsAssumption
<1>2. /\ conn'[c] = "writing" /\ hand'[c] = <<Head(chan[c])>>
      /\ chan'[c] = Tail(chan[c])
      /\ \A d \in Conns \ {c} : conn'[d] = conn[d] /\ hand'[d] = hand[d]
                                /\ chan'[d] = chan[d]
  BY DEF Take, HubInv, HubTypeOK
<1>3. HubTypeOK'
  <2>1. chan' \in [Conns -> Seq(Nat)] /\ hand' \in [Conns -> Seq(Nat)]
    BY <1>1 DEF Take, HubInv, HubTypeOK
  <2>2. \A d \in Conns : Len(chan'[d]) <= Buffer
    BY <1>1, <1>2 DEF HubInv, HubTypeOK
  <2> QED
    BY <2>1, <2>2 DEF Take, HubInv, HubTypeOK
<1>4. Stream(c)' = Stream(c)
  <2>1. (got[c] \o <<Head(chan[c])>>) \o Tail(chan[c])
            = (got[c] \o hand[c]) \o chan[c]
    BY <1>0, StreamParts
  <2> QED
    BY <1>2, <2>1 DEF Stream, Take
<1>5. Faithful(Stream(c), joined[c], Len(feed), c \in dropped)
  BY DEF HubInv, StreamFaithful, Subscribers, Take
<1>6. UNCHANGED <<feed, got, joined, dropped>>
  BY DEF Take
<1>7. joined[c] <= Len(feed)
  BY DEF HubInv, HandlersTidy
<1> QED
  BY <1>2, <1>3, <1>4, <1>5, <1>6, <1>7, OneHandler

(* An event goes from the hand to the peer.                                *)
LEMMA WriteHub == ASSUME HubInv, NEW c \in Conns, Write(c) PROVE HubInv'
<1>0. got[c] \in Seq(Nat) /\ hand[c] \in Seq(Nat) /\ chan[c] \in Seq(Nat)
  BY DEF HubInv, HubTypeOK
<1>1. /\ conn'[c] = "waiting" /\ hand'[c] = <<>>
      /\ got'[c] = got[c] \o hand[c]
      /\ \A d \in Conns \ {c} : conn'[d] = conn[d] /\ hand'[d] = hand[d]
                                /\ got'[d] = got[d]
  BY DEF Write, HubInv, HubTypeOK
<1>2. UNCHANGED <<feed, chan, joined, dropped>>
  BY DEF Write
<1>3. HubTypeOK'
  <2>1. got[c] \o hand[c] \in Seq(Nat)
    BY <1>0
  <2>2. got' \in [Conns -> Seq(Nat)] /\ hand' \in [Conns -> Seq(Nat)]
    BY <2>1 DEF Write, HubInv, HubTypeOK
  <2> QED
    BY <2>2 DEF Write, HubInv, HubTypeOK
<1>4. Stream(c)' = Stream(c)
  <2>1. ((got[c] \o hand[c]) \o <<>>) \o chan[c] = (got[c] \o hand[c]) \o chan[c]
    BY <1>0, StreamParts
  <2> QED
    BY <1>1, <1>2, <2>1 DEF Stream
<1>5. Faithful(Stream(c), joined[c], Len(feed), c \in dropped)
  BY DEF HubInv, StreamFaithful, Subscribers, Write
<1>6. joined[c] <= Len(feed)
  BY DEF HubInv, HandlersTidy
<1> QED
  BY <1>1, <1>2, <1>3, <1>4, <1>5, <1>6, OneHandler

(* A handler that ends leaves nothing behind.                              *)
LEMMA DisconnectHub ==
    ASSUME HubInv, NEW c \in Conns, Disconnect(c) PROVE HubInv'
<1>1. HubTypeOK'
  BY EventsAssumption
     DEF EventsAssumption, HubInv, HubTypeOK, Disconnect
<1>2. /\ conn'[c] = "off" /\ chan'[c] = <<>> /\ hand'[c] = <<>>
      /\ got'[c] = <<>> /\ joined'[c] = 0 /\ c \notin dropped'
      /\ \A d \in Conns \ {c} : /\ conn'[d] = conn[d] /\ chan'[d] = chan[d]
                                /\ hand'[d] = hand[d] /\ got'[d] = got[d]
                                /\ joined'[d] = joined[d]
                                /\ d \in dropped' <=> d \in dropped
  BY DEF HubInv, HubTypeOK, Disconnect
<1>3. UNCHANGED feed /\ Len(feed) \in Nat
  BY DEF HubInv, Disconnect
<1> QED
  BY <1>1, <1>2, <1>3, OneHandler

(* Every subscriber is offered the event: one with room appends it, one    *)
(* without notes the gap.                                                  *)
LEMMA PublishHub == ASSUME HubInv, cur \in Event, Publish PROVE HubInv'
<1> DEFINE n == Len(feed) + 1
<1>1. /\ feed' \in Seq(Event) /\ Len(feed) \in Nat /\ n \in Nat
      /\ Len(feed') = n
      /\ Offer(n)
      /\ UNCHANGED <<conn, hand, got, joined>>
  BY DEF Publish, HubInv
<1>2. ASSUME NEW c \in Conns
      PROVE  /\ chan[c] \in Seq(Nat) /\ Len(chan[c]) \in Nat
             /\ Len(chan[c]) <= Buffer
             /\ hand[c] \in Seq(Nat) /\ got[c] \in Seq(Nat)
             /\ joined[c] \in Nat /\ joined[c] <= Len(feed)
  BY DEF HubInv, HubTypeOK, HandlersTidy
<1>3. ASSUME NEW c \in Subscribers \ Full
      PROVE  /\ chan'[c] = Append(chan[c], n)
             /\ Append(chan[c], n) \in Seq(Nat)
             /\ Len(Append(chan[c], n)) <= Buffer
             /\ c \in dropped' <=> c \in dropped
  <2>1. c \in Conns /\ Len(chan[c]) # Buffer
    BY DEF Subscribers, Full
  <2>2. chan'[c] = Append(chan[c], n)
    BY <1>1, <2>1 DEF Offer
  <2>3. Append(chan[c], n) \in Seq(Nat)
        /\ Len(Append(chan[c], n)) = Len(chan[c]) + 1
    BY <1>1, <1>2, <2>1
  <2> QED
    BY <1>1, <1>2, <2>1, <2>2, <2>3, EventsAssumption
       DEF EventsAssumption, Offer
<1>4. \A c \in Conns : c \notin Subscribers \ Full => chan'[c] = chan[c]
  BY <1>1 DEF Offer
<1>5. HubTypeOK'
  <2>1. \A c \in Conns : chan'[c] \in Seq(Nat) /\ Len(chan'[c]) <= Buffer
    BY <1>2, <1>3, <1>4
  <2>2. chan' \in [Conns -> Seq(Nat)]
    BY <1>1, <2>1 DEF Offer
  <2>3. dropped' \subseteq Conns
    BY <1>1 DEF Offer, HubInv, HubTypeOK, Full, Subscribers
  <2> QED
    BY <1>1, <2>1, <2>2, <2>3 DEF HubInv, HubTypeOK
<1>6. HandlersTidy'
  <2> SUFFICES ASSUME NEW c \in Conns
               PROVE  /\ conn[c] # "writing" => hand[c] = <<>>
                      /\ conn[c] = "off" => chan'[c] = <<>> /\ got[c] = <<>>
                                            /\ c \notin dropped'
                      /\ joined[c] <= n
    BY <1>1 DEF HandlersTidy
  <2>1. conn[c] = "off" => c \notin Subscribers /\ c \notin Full
    BY DEF Subscribers, Full
  <2> QED
    BY <1>1, <1>2, <1>4, <2>1 DEF HubInv, HandlersTidy, Offer
<1>7. StreamFaithful'
  <2> SUFFICES ASSUME NEW c \in Subscribers
               PROVE  Faithful(Stream(c)', joined[c], n, c \in dropped')
    BY <1>1 DEF StreamFaithful, Subscribers
  <2>0. c \in Conns /\ Faithful(Stream(c), joined[c], Len(feed), c \in dropped)
    BY DEF HubInv, StreamFaithful, Subscribers
  <2>1. Stream(c) \in Seq(Nat)
        /\ (got[c] \o hand[c]) \o Append(chan[c], n) = Append(Stream(c), n)
    <3> DEFINE g == got[c]
               h == hand[c]
               q == chan[c]
    <3>1. g \in Seq(Nat) /\ h \in Seq(Nat) /\ q \in Seq(Nat) /\ n \in Nat
      BY <1>1, <1>2, <2>0
    <3> HIDE DEF g, h, q, n
    <3>2. /\ (g \o h) \o q \in Seq(Nat)
          /\ \A m \in Nat : (g \o h) \o Append(q, m) = Append((g \o h) \o q, m)
      BY ONLY <3>1, StreamParts, Zenon
    <3>3. (g \o h) \o Append(q, n) = Append((g \o h) \o q, n)
      BY ONLY <3>1, <3>2
    <3> QED
      BY <3>2, <3>3 DEF Stream, g, h, q
  <2>2. CASE c \in Full
    <3>1. chan'[c] = chan[c] /\ c \in dropped'
      BY <1>1, <1>4, <2>0, <2>2 DEF Offer
    <3>2. Stream(c)' = Stream(c)
      BY <1>1, <3>1 DEF Stream
    <3>3. Faithful(Stream(c), joined[c], n, TRUE)
      BY <1>1, <1>2, <2>0, <2>1, FaithfulGap
    <3> QED
      BY <3>1, <3>2, <3>3
  <2>3. CASE c \notin Full
    <3>1. Stream(c)' = Append(Stream(c), n)
      BY <1>1, <1>3, <2>1, <2>3 DEF Stream
    <3>2. ASSUME NEW gaps \in BOOLEAN, gaps <=> c \in dropped
          PROVE  Faithful(Append(Stream(c), n), joined[c], n, c \in dropped)
      <4>1. Faithful(Stream(c), joined[c], Len(feed), gaps)
        BY <2>0, <3>2 DEF Faithful
      <4>2. Faithful(Append(Stream(c), n), joined[c], n, gaps)
        BY <1>1, <1>2, <2>0, <2>1, <4>1, FaithfulAppend
      <4> QED
        BY <3>2, <4>2 DEF Faithful
    <3>3. Faithful(Append(Stream(c), n), joined[c], n, c \in dropped)
      <4>1. CASE c \in dropped
        BY <3>2, <4>1
      <4>2. CASE c \notin dropped
        BY <3>2, <4>2
      <4> QED
        BY <4>1, <4>2
    <3> QED
      BY <1>3, <2>3, <3>1, <3>3
  <2> QED
    BY <2>2, <2>3
<1> QED
  BY <1>1, <1>5, <1>6, <1>7 DEF HubInv

(* With the daemon go its handlers and the feed.                           *)
LEMMA CrashHub == HubInv /\ Crash => HubInv'
<1> SUFFICES ASSUME HubInv, Crash PROVE HubInv'
  OBVIOUS
<1> USE EventsAssumption DEF EventsAssumption, Crash, Off, NoEvents
<1>1. HubTypeOK' /\ feed' \in Seq(Event)
  BY DEF HubTypeOK
<1>2. HandlersTidy' /\ StreamFaithful'
  BY DEF HandlersTidy, StreamFaithful, Subscribers
<1> QED
  BY <1>1, <1>2 DEF HubInv

(* Every step keeps the invariant of the hub.                              *)
LEMMA NextHub == HubInv /\ WatchInv /\ [Next]_vars => HubInv'
<1> SUFFICES ASSUME HubInv, WatchInv, [Next]_vars
             PROVE  HubInv'
  OBVIOUS
<1>1. ASSUME UNCHANGED <<feed, hub>>
      PROVE  HubInv'
  BY <1>1 DEF hub, HubInv, HubTypeOK, HandlersTidy, StreamFaithful,
              Subscribers, Stream
<1>2. CASE \/ NewRow \/ StartWatch \/ Receive \/ SaveCursor \/ SaveFails
           \/ Break \/ Choke
  BY <1>1, <1>2
  DEF NewRow, StartWatch, Receive, SaveCursor, SaveFails, Break, Choke, Stop
<1>3. CASE Publish
  BY <1>3, PublishHub DEF WatchInv, WatchTypeOK
<1>4. ASSUME NEW c \in Conns, Connect(c) \/ Take(c) \/ Write(c) \/ Disconnect(c)
      PROVE  HubInv'
  BY <1>4, ConnectHub, TakeHub, WriteHub, DisconnectHub
<1>5. CASE Crash
  BY <1>5, CrashHub
<1>6. CASE UNCHANGED vars
  BY <1>1, <1>6 DEF vars
<1> QED
  BY <1>2, <1>3, <1>4, <1>5, <1>6 DEF Next, Watch

(* The invariant of the hub and the handlers.                              *)
THEOREM HubInvariant == Spec => []HubInv
  BY InitHub, NextHub, WatchInvariant, PTL DEF Spec

(* Every variable of the event path keeps its type, and no channel holds   *)
(* more than its capacity.                                                 *)
THEOREM EventsTypeOK == Spec => []TypeOK
<1>1. WatchInv /\ HubInv => TypeOK
  BY DEF WatchInv, HubInv, TypeOK
<1> QED
  BY <1>1, WatchInvariant, HubInvariant, PTL

(* A connection gets events in the order they were published, each once,   *)
(* and all of them unless one found its channel full (Publish and the loop *)
(* of handleEvents).                                                       *)
THEOREM StreamsFaithful == Spec => []StreamFaithful
<1>1. HubInv => StreamFaithful
  BY DEF HubInv
<1> QED
  BY <1>1, HubInvariant, PTL

-----------------------------------------------------------------------
(* The other receivers of what is published: webhooks (module Webhooks).    *)

(* A stored hook has the names its creator sent, and its owner may rely on *)
(* it; an id is used once.                                                 *)
HookInv ==
    \A h \in Hooks :
        /\ h \in hooks => /\ events[h] = asked[h] \ {Blank}
                          /\ view[h] \in {"sure", "unsure"}
        /\ view[h] = "sure" => h \in hooks
        /\ view[h] # "none" => asked[h] # {}

(* The views of the past are of hooks that had been created.               *)
DueInv == \A e \in DOMAIN due : \A h \in Hooks : due[e][h] # "none" => asked[h] # {}

(* A delivery is of an event that has been dispatched, wanted, on its way  *)
(* once and not there yet.                                                 *)
SendInv ==
    /\ \A s \in sends :
          /\ s.event \in DOMAIN dispatched
          /\ Wants(s.hook, s.event) /\ due[s.event][s.hook] \in {"sure", "unsure"}
          /\ \A i \in DOMAIN received[s.hook] : received[s.hook][i] # s.event
    /\ \A s, u \in sends : s.hook = u.hook /\ s.event = u.event => s = u
    /\ \A h \in Hooks : \A i \in DOMAIN received[h] : received[h][i] \in DOMAIN dispatched

WebhookInv == /\ WebhooksTypeOK /\ HookInv /\ DueInv /\ SendInv
              /\ OnlyWhatWasAsked /\ NoneForgotten

(* There is nothing at first: no hook, no event.                           *)
LEMMA WebhookInit == WebhooksInit => WebhookInv
  <1> SUFFICES ASSUME WebhooksInit PROVE WebhookInv
    OBVIOUS
  <1>1. /\ hooks = {} /\ sends = {} /\ dispatched = <<>> /\ due = <<>> /\ missed = {}
        /\ \A h \in Hooks : events[h] = {} /\ received[h] = <<>> /\ asked[h] = {} /\ view[h] = "none"
    BY DEF WebhooksInit
  <1>2. WebhooksTypeOK
    BY DEF WebhooksInit, WebhooksTypeOK, Views
  <1>3. HookInv /\ DueInv /\ SendInv
    BY <1>1 DEF HookInv, DueInv, SendInv
  <1>4. OnlyWhatWasAsked /\ NoneForgotten
    BY <1>1 DEF OnlyWhatWasAsked, NoneForgotten, IsInjective
  <1> QED
    BY <1>2, <1>3, <1>4 DEF WebhookInv

(* Hooks come and go without touching what has been dispatched: ids are    *)
(* fresh, so what a hook's creator asked for never changes.                *)
LEMMA RegistrationStep ==
    ASSUME WebhookInv, NEW h \in Hooks, NEW answered \in BOOLEAN,
           (\E list \in Lists : Create(h, list, answered)) \/ Delete(h, answered)
    PROVE  WebhookInv'
  <1>1. /\ WebhooksTypeOK /\ HookInv /\ DueInv /\ SendInv
        /\ OnlyWhatWasAsked /\ NoneForgotten
        /\ asked \in [Hooks -> Lists \union {{}}] /\ events \in [Hooks -> SUBSET Names]
        /\ view \in [Hooks -> Views] /\ hooks \subseteq Hooks
    BY DEF WebhookInv, WebhooksTypeOK
  <1>2. UNCHANGED <<sends, dispatched, received, missed, due>>
    BY DEF Create, Delete
  <1>3. \A g \in Hooks : asked[g] # {} => asked'[g] = asked[g]
    BY <1>1 DEF Create, Delete
  <1>4. WebhooksTypeOK' /\ HookInv'
    <2>1. CASE Delete(h, answered)
      <3>1. /\ hooks' = hooks \ {h} /\ UNCHANGED <<events, asked>>
            /\ view' = [view EXCEPT ![h] = IF answered THEN "deleted" ELSE "unsure"]
            /\ h \in hooks
        BY <2>1 DEF Delete, Without
      <3>2. view' \in [Hooks -> Views]
        BY <1>1, <3>1 DEF Views
      <3>3. HookInv'
        BY <1>1, <3>1 DEF HookInv
      <3> QED
        BY <1>1, <1>2, <3>1, <3>2, <3>3 DEF WebhooksTypeOK
    <2>2. CASE \E list \in Lists : Create(h, list, answered)
      <3>1. PICK list \in Lists : Create(h, list, answered)
        BY <2>2
      <3>2. /\ hooks' = hooks \union {h} /\ asked[h] = {} /\ list \ {Blank} # {}
            /\ events' = [events EXCEPT ![h] = list \ {Blank}]
            /\ asked' = [asked EXCEPT ![h] = list]
            /\ view' = [view EXCEPT ![h] = IF answered THEN "sure" ELSE "unsure"]
        BY <3>1 DEF Create, CleanEvents
      <3>3. list \ {Blank} \subseteq Names
        BY WebhooksAssumption DEF WebhooksAssumption
      <3>4. /\ view' \in [Hooks -> Views] /\ hooks' \subseteq Hooks
            /\ events' \in [Hooks -> SUBSET Names]
            /\ asked' \in [Hooks -> Lists \union {{}}]
        BY <1>1, <3>2, <3>3 DEF Views
      <3>5. HookInv'
        BY <1>1, <3>2 DEF HookInv
      <3> QED
        BY <1>1, <1>2, <3>4, <3>5 DEF WebhooksTypeOK
    <2> QED
      BY <2>1, <2>2
  <1>5. \A g \in Hooks : asked[g] # {} =>
            \A e \in DOMAIN dispatched : Wants(g, e)' <=> Wants(g, e)
    BY <1>2, <1>3 DEF Wants
  <1>6. \A g \in Hooks : \A e : Wants(g, e) => asked[g] # {}
    BY DEF Wants
  <1>7. DueInv'
    BY <1>1, <1>2, <1>3 DEF DueInv
  <1>8. SendInv'
    BY <1>1, <1>2, <1>5, <1>6 DEF SendInv, WebhooksTypeOK, Send
  <1>9. OnlyWhatWasAsked'
    BY <1>1, <1>2, <1>5, <1>6 DEF OnlyWhatWasAsked, SendInv, IsInjective
  <1>10. NoneForgotten'
    <2>1. DOMAIN due = DOMAIN dispatched
      BY <1>1 DEF WebhooksTypeOK
    <2>2. ASSUME NEW g \in Hooks, NEW e \in DOMAIN dispatched, due[e][g] = "sure"
          PROVE  Wants(g, e)' <=> Wants(g, e)
      BY <1>1, <1>5, <2>1, <2>2 DEF DueInv
    <2> QED
      BY <1>1, <1>2, <2>2 DEF NoneForgotten
  <1> QED
    BY <1>4, <1>7, <1>8, <1>9, <1>10 DEF WebhookInv

(* What appending leaves of a sequence.                                    *)
LEMMA Appended ==
    ASSUME NEW S, NEW s \in Seq(S), NEW x \in S
    PROVE  /\ Append(s, x) \in Seq(S) /\ Len(Append(s, x)) = Len(s) + 1
           /\ Len(s) \in Nat
           /\ DOMAIN s = 1 .. Len(s) /\ DOMAIN Append(s, x) = 1 .. Len(s) + 1
           /\ Append(s, x)[Len(s) + 1] = x
           /\ \A i \in DOMAIN s : Append(s, x)[i] = s[i]
  OBVIOUS

(* What publishing an event leaves true of the earlier ones.               *)
LEMMA PublishEffect ==
    ASSUME WebhookInv, NEW type \in Types, NewEvent(type),
           asked' = asked
    PROVE  LET n == Len(dispatched) + 1
           IN  /\ n \in 1 .. MaxEvents /\ dispatched' \in Seq(Types)
               /\ due' \in Seq([Hooks -> Views]) /\ Len(dispatched') = Len(due')
               /\ DOMAIN due = DOMAIN dispatched
               /\ DOMAIN dispatched' = DOMAIN dispatched \union {n}
               /\ DOMAIN due' = DOMAIN dispatched \union {n}
               /\ n \notin DOMAIN dispatched
               /\ dispatched'[n] = type /\ due'[n] = view
               /\ \A e \in DOMAIN dispatched : dispatched'[e] = dispatched[e] /\ due'[e] = due[e]
               /\ \A e \in DOMAIN dispatched : \A h : Wants(h, e)' <=> Wants(h, e)
  <1> DEFINE n == Len(dispatched) + 1
  <1>1. /\ dispatched \in Seq(Types) /\ Len(dispatched) = Len(due) /\ MaxEvents \in Nat
        /\ due \in Seq([Hooks -> Views]) /\ view \in [Hooks -> Views]
        /\ Len(dispatched) < MaxEvents
        /\ dispatched' = Append(dispatched, type) /\ due' = Append(due, view)
    BY WebhooksAssumption
    DEF WebhookInv, WebhooksTypeOK, NewEvent, WebhooksAssumption
  <1>2. /\ dispatched' \in Seq(Types) /\ Len(dispatched') = n /\ Len(dispatched) \in Nat
        /\ DOMAIN dispatched = 1 .. Len(dispatched) /\ DOMAIN dispatched' = 1 .. n
        /\ dispatched'[n] = type
        /\ \A e \in DOMAIN dispatched : dispatched'[e] = dispatched[e]
    BY <1>1, Appended
  <1>3. /\ due' \in Seq([Hooks -> Views]) /\ Len(due') = n
        /\ DOMAIN due = 1 .. Len(due) /\ DOMAIN due' = 1 .. n
        /\ due'[n] = view
        /\ \A e \in DOMAIN due : due'[e] = due[e]
    BY <1>1, Appended
  <1>4. /\ DOMAIN dispatched' = DOMAIN dispatched \union {n} /\ n \notin DOMAIN dispatched
        /\ n \in 1 .. MaxEvents
    BY <1>1, <1>2
  <1>5. \A e \in DOMAIN dispatched : \A h : Wants(h, e)' <=> Wants(h, e)
    BY <1>2 DEF Wants
  <1> QED
    BY <1>1, <1>2, <1>3, <1>4, <1>5

(* An event is dispatched: each stored hook that lists its type gets a     *)
(* goroutine; if the store cannot be read none does.                       *)
LEMMA PublishStep ==
    ASSUME WebhookInv, NEW type \in Types,
           Dispatch(type) \/ LoadFails(type)
    PROVE  WebhookInv'
  <1>0. PICK n : n = Len(dispatched) + 1
    OBVIOUS
  <1> DEFINE started(h) == [hook |-> h, event |-> n, copy |-> 1, at |-> "validate"]
             listed == {h \in hooks : \E name \in events[h] : Type[name] = type}
  <1>1. /\ WebhooksTypeOK /\ HookInv /\ DueInv /\ SendInv
        /\ OnlyWhatWasAsked /\ NoneForgotten
        /\ asked \in [Hooks -> Lists \union {{}}] /\ events \in [Hooks -> SUBSET Names]
        /\ view \in [Hooks -> Views] /\ hooks \subseteq Hooks /\ sends \subseteq Send
        /\ missed \subseteq Hooks \X (1 .. MaxEvents)
    BY DEF WebhookInv, WebhooksTypeOK
  <1>2. NewEvent(type) /\ UNCHANGED <<hooks, events, received, asked, view>>
    BY DEF Dispatch, LoadFails, listVars, clientVars
  <1>3. /\ n \in 1 .. MaxEvents /\ dispatched' \in Seq(Types)
        /\ due' \in Seq([Hooks -> Views]) /\ Len(dispatched') = Len(due')
        /\ DOMAIN due = DOMAIN dispatched
        /\ DOMAIN dispatched' = DOMAIN dispatched \union {n}
        /\ DOMAIN due' = DOMAIN dispatched \union {n}
        /\ n \notin DOMAIN dispatched
        /\ dispatched'[n] = type /\ due'[n] = view
        /\ \A e \in DOMAIN dispatched : dispatched'[e] = dispatched[e] /\ due'[e] = due[e]
        /\ \A e \in DOMAIN dispatched : \A h : Wants(h, e)' <=> Wants(h, e)
    BY <1>0, <1>2, PublishEffect
  <1>4. \/ sends' = sends \union {started(h) : h \in listed} /\ missed' = missed
        \/ sends' = sends /\ missed' = missed \union (Hooks \X {n})
    <2>1. CASE LoadFails(type)
      BY <1>0, <2>1 DEF LoadFails
    <2>2. CASE Dispatch(type)
      <3>1. UNION {{[hook |-> h, event |-> n, copy |-> c, at |-> "validate"]
                       : c \in Copies(events[h], type)} : h \in hooks}
                = {started(h) : h \in listed}
        <4>1. \A h \in hooks : Copies(events[h], type) = IF h \in listed THEN {1} ELSE {}
          BY DEF Copies, SubscribedTo
        <4> HIDE DEF listed
        <4> DEFINE made(h) == {[hook |-> h, event |-> n, copy |-> c, at |-> "validate"]
                                 : c \in Copies(events[h], type)}
        <4>2. \A h \in hooks : made(h) = IF h \in listed THEN {started(h)} ELSE {}
          BY <4>1
        <4>3. listed \subseteq hooks
          BY DEF listed
        <4> HIDE DEF made, started
        <4>4. UNION {made(h) : h \in hooks} = {started(h) : h \in listed}
          BY <4>2, <4>3
        <4> QED
          BY <4>4 DEF made
      <3> QED
        BY <1>0, <2>2, <3>1 DEF Dispatch
    <2> QED
      BY <2>1, <2>2
  <1>5. \A h \in listed : /\ started(h) \in Send /\ started(h).hook = h
                          /\ started(h).event = n
    BY <1>1, <1>3 DEF Send, Places
  <1>6. \A s \in sends : s.event \in DOMAIN dispatched /\ s.hook \in Hooks
    BY <1>1 DEF SendInv, Send
  <1>7. \A h \in listed : Wants(h, n)' /\ view[h] \in {"sure", "unsure"}
    BY <1>1, <1>2, <1>3 DEF HookInv, Wants
  <1>8. \A h \in Hooks : Wants(h, n)' /\ view[h] = "sure" => h \in listed
    BY <1>1, <1>2, <1>3 DEF HookInv, Wants
  <1>9. WebhooksTypeOK'
    <2>1. sends' \subseteq Send
      BY <1>1, <1>4, <1>5
    <2>2. missed' \subseteq Hooks \X (1 .. MaxEvents)
      BY <1>1, <1>3, <1>4
    <2> QED
      BY <1>1, <1>2, <1>3, <2>1, <2>2 DEF WebhooksTypeOK
  <1> HIDE DEF listed, started
  <1>10. HookInv'
    BY <1>1, <1>2 DEF HookInv
  <1>11. DueInv'
    BY <1>1, <1>2, <1>3 DEF DueInv, HookInv
  <1>12. SendInv'
    <2>1. ASSUME NEW s \in sends'
          PROVE  /\ s.event \in DOMAIN dispatched'
                 /\ Wants(s.hook, s.event)' /\ due'[s.event][s.hook] \in {"sure", "unsure"}
                 /\ \A i \in DOMAIN received'[s.hook] : received'[s.hook][i] # s.event
      <3>1. CASE s \in sends
        BY <1>1, <1>2, <1>3, <3>1 DEF SendInv
      <3>2. CASE s \notin sends
        <4>1. PICK h \in listed : s = started(h)
          BY <1>4, <2>1, <3>2
        <4>2. s.hook = h /\ s.event = n /\ h \in Hooks
          BY <1>1, <1>5, <4>1 DEF listed
        <4>3. \A i \in DOMAIN received[h] : received[h][i] # n
          BY <1>1, <1>3, <4>2 DEF SendInv
        <4> QED
          BY <1>2, <1>3, <1>7, <4>2, <4>3
      <3> QED
        BY <3>1, <3>2
    <2>2. ASSUME NEW s \in sends', NEW u \in sends', s.hook = u.hook, s.event = u.event
          PROVE  s = u
      <3>1. CASE s \in sends /\ u \in sends
        BY <1>1, <2>2, <3>1 DEF SendInv
      <3>2. CASE s \notin sends \/ u \notin sends
        <4>1. s \notin sends /\ u \notin sends
          BY <1>3, <1>4, <1>5, <1>6, <2>2, <3>2
        <4>2. PICK g \in listed, h \in listed : s = started(g) /\ u = started(h)
          BY <1>4, <4>1
        <4> QED
          BY <1>5, <2>2, <4>2
      <3> QED
        BY <3>1, <3>2
    <2>3. \A h \in Hooks : \A i \in DOMAIN received'[h] : received'[h][i] \in DOMAIN dispatched'
      BY <1>1, <1>2, <1>3 DEF SendInv
    <2> QED
      BY <2>1, <2>2, <2>3 DEF SendInv
  <1>13. OnlyWhatWasAsked'
    BY <1>1, <1>2, <1>3 DEF OnlyWhatWasAsked, SendInv
  <1>14. NoneForgotten'
    <2> SUFFICES ASSUME NEW h \in Hooks, NEW e \in DOMAIN dispatched',
                        due'[e][h] = "sure", Wants(h, e)'
                 PROVE  \/ \E s \in sends' : s.hook = h /\ s.event = e
                        \/ \E i \in DOMAIN received'[h] : received'[h][i] = e
                        \/ <<h, e>> \in missed'
      BY DEF NoneForgotten
    <2>1. CASE e = n
      <3>1. h \in listed
        BY <1>3, <1>8, <2>1
      <3> QED
        BY <1>4, <1>5, <2>1, <3>1
    <2>2. CASE e # n
      <3>1. e \in DOMAIN dispatched /\ due[e][h] = "sure" /\ Wants(h, e)
        BY <1>3, <2>2
      <3> QED
        BY <1>1, <1>2, <1>4, <3>1 DEF NoneForgotten
    <2> QED
      BY <2>1, <2>2
  <1> QED
    BY <1>9, <1>10, <1>11, <1>12, <1>13, <1>14 DEF WebhookInv

(* A goroutine goes on, ends, or dies with the daemon: what it had to do   *)
(* is done, or known as missed.                                            *)
LEMMA DeliveryStep ==
    ASSUME WebhookInv,
           \/ \E s \in sends : Validate(s) \/ Post(s) \/ SendFails(s)
           \/ DaemonDies
           \/ UNCHANGED webhookVars
    PROVE  WebhookInv'
  <1>1. /\ WebhooksTypeOK /\ HookInv /\ DueInv /\ SendInv
        /\ OnlyWhatWasAsked /\ NoneForgotten
        /\ sends \subseteq Send /\ missed \subseteq Hooks \X (1 .. MaxEvents)
        /\ received \in [Hooks -> Seq(1 .. MaxEvents)]
    BY DEF WebhookInv, WebhooksTypeOK
  <1>2. UNCHANGED <<hooks, events, dispatched, asked, view, due>>
    BY DEF Validate, Post, SendFails, DaemonDies, webhookVars, listVars, clientVars
  <1>3. \A h, e : Wants(h, e)' <=> Wants(h, e)
    BY <1>2 DEF Wants
  <1>4. HookInv' /\ DueInv'
    BY <1>1, <1>2 DEF HookInv, DueInv
  <1>5. \A s \in sends : s.hook \in Hooks /\ s.event \in 1 .. MaxEvents /\ s.event \in DOMAIN dispatched
    BY <1>1 DEF Send, SendInv
  <1>6. ASSUME NEW s \in sends, Validate(s) PROVE WebhookInv'
    <2> DEFINE next == [s EXCEPT !.at = "post"]
    <2>1. sends' = (sends \ {s}) \union {next} /\ UNCHANGED <<received, missed>>
      BY <1>6 DEF Validate
    <2>2. next \in Send /\ next.hook = s.hook /\ next.event = s.event
      BY <1>1 DEF Send, Places
    <2> HIDE DEF next
    <2>3. \A u \in sends' : \E v \in sends : v.hook = u.hook /\ v.event = u.event
      BY <2>1, <2>2
    <2>4. SendInv'
      <3>1. ASSUME NEW u \in sends', NEW v \in sends', u.hook = v.hook, u.event = v.event
            PROVE  u = v
        BY <1>1, <2>1, <2>2, <3>1 DEF SendInv
      <3>2. ASSUME NEW u \in sends'
            PROVE  /\ u.event \in DOMAIN dispatched'
                   /\ Wants(u.hook, u.event)' /\ due'[u.event][u.hook] \in {"sure", "unsure"}
                   /\ \A i \in DOMAIN received'[u.hook] : received'[u.hook][i] # u.event
        <4>1. PICK v \in sends : v.hook = u.hook /\ v.event = u.event
          BY <2>3
        <4>2. /\ v.event \in DOMAIN dispatched
              /\ Wants(v.hook, v.event) /\ due[v.event][v.hook] \in {"sure", "unsure"}
              /\ \A i \in DOMAIN received[v.hook] : received[v.hook][i] # v.event
          BY <1>1 DEF SendInv
        <4> QED
          BY <1>2, <1>3, <2>1, <4>1, <4>2
      <3>3. \A h \in Hooks : \A i \in DOMAIN received'[h] : received'[h][i] \in DOMAIN dispatched'
        BY <1>1, <1>2, <2>1 DEF SendInv
      <3> QED
        BY <3>1, <3>2, <3>3 DEF SendInv
    <2>5. WebhooksTypeOK'
      BY <1>1, <1>2, <2>1, <2>2 DEF WebhooksTypeOK
    <2>6. OnlyWhatWasAsked'
      BY <1>1, <1>2, <1>3, <2>1 DEF OnlyWhatWasAsked
    <2>7. NoneForgotten'
      BY <1>1, <1>2, <1>3, <2>1, <2>2 DEF NoneForgotten
    <2> QED
      BY <1>4, <2>4, <2>5, <2>6, <2>7 DEF WebhookInv
  <1>7. ASSUME NEW s \in sends, Post(s) PROVE WebhookInv'
    <2>1. /\ sends' = sends \ {s} /\ missed' = missed
          /\ received' = [received EXCEPT ![s.hook] = Append(@, s.event)]
      BY <1>7 DEF Post
    <2>2. s.hook \in Hooks /\ received[s.hook] \in Seq(1 .. MaxEvents) /\ s.event \in 1 .. MaxEvents
      BY <1>1, <1>5
    <2>3. PICK k : k = Len(received[s.hook]) + 1
      OBVIOUS
    <2>4. /\ received'[s.hook] \in Seq(1 .. MaxEvents)
          /\ DOMAIN received'[s.hook] = DOMAIN received[s.hook] \union {k}
          /\ k \notin DOMAIN received[s.hook] /\ received'[s.hook][k] = s.event
          /\ \A i \in DOMAIN received[s.hook] : received'[s.hook][i] = received[s.hook][i]
      <3>1. received'[s.hook] = Append(received[s.hook], s.event)
        BY <1>1, <2>1, <2>2
      <3> QED
        BY <2>2, <2>3, <3>1, Appended
    <2>5. \A h \in Hooks : h # s.hook => received'[h] = received[h]
      BY <1>1, <2>1
    <2>6. WebhooksTypeOK'
      <3>1. received' \in [Hooks -> Seq(1 .. MaxEvents)]
        BY <1>1, <2>1, <2>2, <2>4
      <3> QED
        BY <1>1, <1>2, <2>1, <3>1 DEF WebhooksTypeOK
    <2>7. SendInv'
      <3>1. ASSUME NEW u \in sends'
            PROVE  /\ u \in sends /\ u.event \in DOMAIN dispatched'
                   /\ Wants(u.hook, u.event)' /\ due'[u.event][u.hook] \in {"sure", "unsure"}
        BY <1>1, <1>2, <1>3, <2>1 DEF SendInv
      <3>2. ASSUME NEW u \in sends', NEW i \in DOMAIN received'[u.hook]
            PROVE  received'[u.hook][i] # u.event
        <4>1. u \in sends /\ u # s /\ u.hook \in Hooks
          BY <1>5, <2>1
        <4>2. u.hook = s.hook => u.event # s.event
          BY <1>1, <4>1 DEF SendInv
        <4>3. \A j \in DOMAIN received[u.hook] : received[u.hook][j] # u.event
          BY <1>1, <4>1 DEF SendInv
        <4>4. CASE u.hook = s.hook
          BY <2>4, <3>2, <4>2, <4>3, <4>4
        <4>5. CASE u.hook # s.hook
          BY <2>5, <3>2, <4>1, <4>3, <4>5
        <4> QED
          BY <4>4, <4>5
      <3>3. \A h \in Hooks : \A i \in DOMAIN received'[h] : received'[h][i] \in DOMAIN dispatched'
        BY <1>1, <1>2, <1>5, <2>4, <2>5 DEF SendInv
      <3> QED
        BY <1>1, <2>1, <3>1, <3>2, <3>3 DEF SendInv
    <2>8. OnlyWhatWasAsked'
      <3> SUFFICES ASSUME NEW h \in Hooks
                   PROVE  /\ \A i, j \in DOMAIN received'[h] :
                                received'[h][i] = received'[h][j] => i = j
                          /\ \A i \in DOMAIN received'[h] :
                                /\ Wants(h, received'[h][i])
                                /\ due[received'[h][i]][h] \in {"sure", "unsure"}
        BY <1>2 DEF OnlyWhatWasAsked, IsInjective, Wants
      <3>0. /\ \A i, j \in DOMAIN received[h] : received[h][i] = received[h][j] => i = j
            /\ \A i \in DOMAIN received[h] :
                  /\ Wants(h, received[h][i])
                  /\ due[received[h][i]][h] \in {"sure", "unsure"}
        BY <1>1 DEF OnlyWhatWasAsked, IsInjective
      <3>1. CASE h # s.hook
        BY <2>5, <3>0, <3>1
      <3>2. CASE h = s.hook
        <4>1. /\ \A i \in DOMAIN received[h] : received[h][i] # s.event
              /\ Wants(h, s.event) /\ due[s.event][h] \in {"sure", "unsure"}
          BY <1>1, <3>2 DEF SendInv
        <4>2. \A i \in DOMAIN received'[h] :
                 \/ i = k /\ received'[h][i] = s.event
                 \/ i \in DOMAIN received[h] /\ received'[h][i] = received[h][i]
          BY <2>4, <3>2
        <4>3. \A i, j \in DOMAIN received'[h] : received'[h][i] = received'[h][j] => i = j
          BY <3>0, <4>1, <4>2
        <4>4. \A i \in DOMAIN received'[h] :
                 /\ Wants(h, received'[h][i])
                 /\ due[received'[h][i]][h] \in {"sure", "unsure"}
          BY <3>0, <4>1, <4>2
        <4> QED
          BY <4>3, <4>4
      <3> QED
        BY <3>1, <3>2
    <2>9. NoneForgotten'
      <3> SUFFICES ASSUME NEW h \in Hooks, NEW e \in DOMAIN dispatched,
                          due[e][h] = "sure", Wants(h, e)
                   PROVE  \/ \E u \in sends' : u.hook = h /\ u.event = e
                          \/ \E i \in DOMAIN received'[h] : received'[h][i] = e
                          \/ <<h, e>> \in missed'
        BY <1>2, <1>3 DEF NoneForgotten
      <3>1. CASE s.hook = h /\ s.event = e
        BY <2>4, <3>1
      <3>2. CASE \E u \in sends : u # s /\ u.hook = h /\ u.event = e
        BY <2>1, <3>2
      <3>3. CASE \E i \in DOMAIN received[h] : received[h][i] = e
        BY <2>4, <2>5, <3>3
      <3> QED
        BY <1>1, <2>1, <3>1, <3>2, <3>3 DEF NoneForgotten
    <2> QED
      BY <1>4, <2>6, <2>7, <2>8, <2>9 DEF WebhookInv
  (* What ends without arriving is recorded as missed.                     *)
  <1>8. ASSUME NEW gone \in SUBSET sends, sends' = sends \ gone, received' = received,
               missed' = missed \union {<<s.hook, s.event>> : s \in gone}
        PROVE  WebhookInv'
    <2>1. SendInv'
      BY <1>1, <1>2, <1>3, <1>8 DEF SendInv
    <2>2. WebhooksTypeOK'
      <3>1. missed' \subseteq Hooks \X (1 .. MaxEvents)
        BY <1>1, <1>5, <1>8
      <3> QED
        BY <1>1, <1>2, <1>8, <3>1 DEF WebhooksTypeOK
    <2>3. OnlyWhatWasAsked'
      BY <1>1, <1>2, <1>3, <1>8 DEF OnlyWhatWasAsked
    <2>4. NoneForgotten'
      <3> SUFFICES ASSUME NEW h \in Hooks, NEW e \in DOMAIN dispatched,
                          due[e][h] = "sure", Wants(h, e)
                   PROVE  \/ \E u \in sends' : u.hook = h /\ u.event = e
                          \/ \E i \in DOMAIN received'[h] : received'[h][i] = e
                          \/ <<h, e>> \in missed'
        BY <1>2, <1>3 DEF NoneForgotten
      <3>1. CASE \E u \in sends : u.hook = h /\ u.event = e
        BY <1>8, <3>1
      <3> QED
        BY <1>1, <1>8, <3>1 DEF NoneForgotten
    <2> QED
      BY <1>4, <2>1, <2>2, <2>3, <2>4 DEF WebhookInv
  <1>9. ASSUME NEW s \in sends, SendFails(s) PROVE WebhookInv'
    <2>1. /\ sends' = sends \ {s} /\ received' = received
          /\ missed' = missed \union {<<u.hook, u.event>> : u \in {s}}
      BY <1>9 DEF SendFails
    <2>2. {s} \in SUBSET sends
      OBVIOUS
    <2> QED
      BY <1>8, <2>1, <2>2
  <1>10. CASE DaemonDies
    <2>1. /\ sends' = sends \ sends /\ received' = received
          /\ missed' = missed \union {<<u.hook, u.event>> : u \in sends}
      BY <1>10 DEF DaemonDies
    <2>2. sends \in SUBSET sends
      OBVIOUS
    <2> QED
      BY <1>8, <2>1, <2>2
  <1>11. CASE UNCHANGED webhookVars
    <2>1. /\ sends' = sends \ {} /\ received' = received
          /\ missed' = missed \union {<<u.hook, u.event>> : u \in {}}
      BY <1>11 DEF webhookVars
    <2>2. {} \in SUBSET sends
      OBVIOUS
    <2> QED
      BY <1>8, <2>1, <2>2
  <1> QED
    BY <1>6, <1>7, <1>9, <1>10, <1>11

(* The list of hooks, what has been dispatched, and the deliveries keep    *)
(* the invariant through every step.                                       *)
THEOREM WebhookInvariant == WebhooksSpec => []WebhookInv
  <1>1. WebhookInv /\ [WebhooksNext]_webhookVars => WebhookInv'
    BY RegistrationStep, PublishStep, DeliveryStep DEF WebhooksNext
  <1> QED
    BY <1>1, WebhookInit, PTL DEF WebhooksSpec

(* The variables of Webhooks keep their types.                             *)
THEOREM WebhookTypes == WebhooksSpec => []WebhooksTypeOK
  <1>1. WebhookInv => WebhooksTypeOK
    BY DEF WebhookInv
  <1> QED
    BY <1>1, WebhookInvariant, PTL

(* A receiver gets an event at most once, and only what its hook's creator *)
(* asked for, while the hook may have been there (subscribedTo, Delete).   *)
THEOREM DeliveredAsAsked == WebhooksSpec => []OnlyWhatWasAsked
  <1>1. WebhookInv => OnlyWhatWasAsked
    BY DEF WebhookInv
  <1> QED
    BY <1>1, WebhookInvariant, PTL

(* An event that a hook's owner had to expect is on its way, arrived, or   *)
(* is known to have failed (Dispatch, cleanEvents, Delete).                *)
THEOREM NothingForgotten == WebhooksSpec => []NoneForgotten
  <1>1. WebhookInv => NoneForgotten
    BY DEF WebhookInv
  <1> QED
    BY <1>1, WebhookInvariant, PTL

=======================================================================
