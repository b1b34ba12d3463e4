-------------------------- MODULE AttachmentsProofs -------------------------
(* Proofs about Attachments.                                               *)
EXTENDS Attachments, TLAPS

(* What is true of a request at each point of its handler, and after it:   *)
(* the copy is whole from Save to Leave, and imsg runs only within, unless *)
(* the daemon's end cut the handler off.                                   *)
RequestInv(r) ==
    /\ at[r] = "new" => file[r] = "none"
    /\ at[r] \in {"new", "saving", "ready"} => imsg[r] = "none"
    /\ at[r] \in {"ready", "waiting"} /\ r \in Files => file[r] = "whole"
    /\ imsg[r] = "running" => at[r] = "waiting" \/ r \in cut
    /\ imsg[r] = "running" /\ r \in Files => file[r] = "whole"
    /\ file[r] # "none" => InHandler(r) \/ r \in cut
    /\ imsg[r] = "ok" \/ answer[r] = "accepted" => r \in sent
    /\ answer[r] # "none" => imsg[r] # "running" /\ at[r] \in {"leaving", "over"}
    /\ r \in cut => at[r] = "over"

(* What is true of a download: what its length was taken from, and that it *)
(* is behind the file, which only grows.                                   *)
GetInv(g) ==
    /\ get[g].at = "copying" =>
          /\ get[g].declared = IF recorded[g] = 0 THEN get[g].opened ELSE recorded[g]
          /\ get[g].written <= size[g] /\ get[g].opened <= size[g]
          /\ ~get[g].text
    /\ get[g].at = "new" => get[g].written = 0 /\ ~get[g].text
    /\ get[g].at = "complete" =>
          \/ get[g].opened = 0 /\ recorded[g] = 0
          \/ /\ ~get[g].text
             /\ get[g].written >= get[g].opened \/ recorded[g] \in 1 .. get[g].opened - 1

IInv ==
    /\ TypeOK
    /\ \A r \in Requests : RequestInv(r)
    /\ \A g \in Gets : GetInv(g)

Download == [at : {"new", "copying", "complete", "broken"}, declared : Sizes,
             written : Sizes, opened : Sizes, text : BOOLEAN]

LEMMA InitInv == Init => IInv
  <1> SUFFICES ASSUME Init PROVE IInv
    OBVIOUS
  <1> USE AttachmentsAssumption
  <1>1. 0 \in Sizes
    BY DEF Sizes
  <1>2. TypeOK
    BY <1>1 DEF Init, TypeOK
  <1>3. \A r \in Requests : RequestInv(r)
    BY DEF Init, RequestInv, InHandler
  <1>4. \A g \in Gets : GetInv(g)
    BY DEF Init, GetInv
  <1> QED
    BY <1>2, <1>3, <1>4 DEF IInv

(* A step of one request's handler, or of its imsg or client, keeps what   *)
(* is true of that request, and touches no other.                          *)
LEMMA SendingSteps ==
    ASSUME TypeOK, \A r \in Requests : RequestInv(r), NEW q \in Requests,
           Receive(q) \/ Handle(q) \/ Imsg(q) \/ GiveUp(q),
           UNCHANGED <<up, ends, fetching>>
    PROVE  TypeOK' /\ (\A r \in Requests : RequestInv(r))'
  <1>1. RequestInv(q)
    OBVIOUS
  <1>2. ASSUME NEW r \in Requests, r # q, RequestInv(r),
               at'[r] = at[r], file'[r] = file[r], imsg'[r] = imsg[r], answer'[r] = answer[r],
               r \in sent' <=> r \in sent, r \in cut' <=> r \in cut
        PROVE  RequestInv(r)'
    BY <1>2 DEF RequestInv, InHandler
  <1>3. CASE Receive(q)
    <2>1. TypeOK'
      BY <1>3 DEF TypeOK, Receive, Refuse, fetching
    <2>2. RequestInv(q)'
      BY <1>1, <1>3 DEF TypeOK, Receive, Refuse, RequestInv, InHandler
    <2>3. ASSUME NEW r \in Requests, r # q PROVE RequestInv(r)'
      BY <2>3, <1>2, <1>3 DEF TypeOK, Receive, Refuse
    <2> QED
      BY <2>1, <2>2, <2>3
  <1>4. CASE Save(q)
    <2>1. TypeOK'
      BY <1>4 DEF TypeOK, Save, fetching
    <2>2. RequestInv(q)'
      BY <1>1, <1>4 DEF TypeOK, Save, RequestInv, InHandler
    <2>3. ASSUME NEW r \in Requests, r # q PROVE RequestInv(r)'
      BY <2>3, <1>2, <1>4 DEF TypeOK, Save
    <2> QED
      BY <2>1, <2>2, <2>3
  <1>5. CASE Start(q)
    <2>1. TypeOK'
      BY <1>5 DEF TypeOK, Start, fetching
    <2>2. RequestInv(q)'
      BY <1>1, <1>5 DEF TypeOK, Start, RequestInv, InHandler
    <2>3. ASSUME NEW r \in Requests, r # q PROVE RequestInv(r)'
      BY <2>3, <1>2, <1>5 DEF TypeOK, Start
    <2> QED
      BY <2>1, <2>2, <2>3
  <1>6. CASE Kill(q)
    <2>1. TypeOK'
      BY <1>6 DEF TypeOK, Kill, fetching
    <2>2. RequestInv(q)'
      BY <1>1, <1>6 DEF TypeOK, Kill, RequestInv, InHandler
    <2>3. ASSUME NEW r \in Requests, r # q PROVE RequestInv(r)'
      BY <2>3, <1>2, <1>6 DEF TypeOK, Kill
    <2> QED
      BY <2>1, <2>2, <2>3
  <1>7. CASE Answer(q)
    <2>1. TypeOK'
      BY <1>7 DEF TypeOK, Answer, fetching
    <2>2. RequestInv(q)'
      BY <1>1, <1>7 DEF TypeOK, Answer, RequestInv, InHandler
    <2>3. ASSUME NEW r \in Requests, r # q PROVE RequestInv(r)'
      BY <2>3, <1>2, <1>7 DEF TypeOK, Answer
    <2> QED
      BY <2>1, <2>2, <2>3
  <1>8. CASE Leave(q)
    <2>1. TypeOK'
      BY <1>8 DEF TypeOK, Leave, fetching
    <2>2. RequestInv(q)'
      BY <1>1, <1>8 DEF TypeOK, Leave, RequestInv, InHandler
    <2>3. ASSUME NEW r \in Requests, r # q PROVE RequestInv(r)'
      BY <2>3, <1>2, <1>8 DEF TypeOK, Leave
    <2> QED
      BY <2>1, <2>2, <2>3
  <1>9. CASE Imsg(q)
    <2>1. TypeOK'
      BY <1>9 DEF TypeOK, Imsg, fetching
    <2>2. RequestInv(q)'
      BY <1>1, <1>9 DEF TypeOK, Imsg, RequestInv, InHandler
    <2>3. ASSUME NEW r \in Requests, r # q PROVE RequestInv(r)'
      BY <2>3, <1>2, <1>9 DEF TypeOK, Imsg
    <2> QED
      BY <2>1, <2>2, <2>3
  <1>10. CASE GiveUp(q)
    <2>1. TypeOK'
      BY <1>10 DEF TypeOK, GiveUp, fetching
    <2>2. ASSUME NEW r \in Requests PROVE RequestInv(r)'
      BY <1>10 DEF TypeOK, GiveUp, RequestInv, InHandler
    <2> QED
      BY <2>1, <2>2
  <1> QED
    BY <1>3, <1>4, <1>5, <1>6, <1>7, <1>8, <1>9, <1>10 DEF Handle

(* A step of one download keeps what is true of it, and touches no other.  *)
LEMMA FetchingSteps ==
    ASSUME TypeOK, \A g \in Gets : GetInv(g), NEW f \in Gets,
           Grow(f) \/ Open(f) \/ Copy(f), UNCHANGED <<up, ends, sending>>
    PROVE  TypeOK' /\ (\A g \in Gets : GetInv(g))'
  <1> USE AttachmentsAssumption
  <1>1. GetInv(f) /\ get[f] \in Download /\ size[f] \in Sizes /\ recorded[f] \in Sizes
    BY DEF TypeOK, Download
  <1>2. ASSUME NEW g \in Gets, g # f, GetInv(g),
               get'[g] = get[g], size'[g] = size[g], recorded' = recorded
        PROVE  GetInv(g)'
    BY <1>2 DEF GetInv
  <1>3. ASSUME get' \in [Gets -> Download], size' \in [Gets -> Sizes], recorded' = recorded
        PROVE  TypeOK'
    BY <1>3 DEF TypeOK, Download, sending
  <1>4. get \in [Gets -> Download] /\ size \in [Gets -> Sizes]
    BY DEF TypeOK, Download
  <1>5. CASE Grow(f)
    <2>1. size'[f] = size[f] + 1 /\ size' \in [Gets -> Sizes] /\ get' = get /\ recorded' = recorded
      BY <1>5, <1>4, <1>1 DEF Grow, Sizes
    <2>2. TypeOK'
      BY <2>1, <1>3, <1>4
    <2>3. GetInv(f)'
      BY <2>1, <1>1 DEF GetInv, Download, Sizes
    <2>4. ASSUME NEW g \in Gets, g # f PROVE GetInv(g)'
      BY <2>4, <1>2, <1>4, <1>5 DEF Grow
    <2> QED
      BY <2>2, <2>3, <2>4
  <1>6. CASE Open(f)
    <2>1. /\ get' = [get EXCEPT ![f] = get'[f]] /\ size' = size /\ recorded' = recorded
          /\ get'[f] = [get[f] EXCEPT !.at = "copying", !.opened = size[f],
                          !.declared = IF recorded[f] = 0 THEN size[f] ELSE recorded[f]]
      BY <1>6, <1>4 DEF Open
    <2>2. get'[f] \in Download
      BY <2>1, <1>1 DEF Download
    <2>3. TypeOK'
      BY <2>1, <2>2, <1>3, <1>4
    <2>4. get[f].at = "new"
      BY <1>6 DEF Open
    <2>5. GetInv(f)'
      BY <2>1, <2>2, <2>4, <1>1 DEF GetInv, Download, Sizes
    <2>6. ASSUME NEW g \in Gets, g # f PROVE GetInv(g)'
      BY <2>6, <2>1, <1>2, <1>4
    <2> QED
      BY <2>3, <2>5, <2>6
  <1>7. CASE Copy(f)
    <2>1. /\ get' = [get EXCEPT ![f] = get'[f]] /\ size' = size /\ recorded' = recorded
          /\ get[f].at = "copying"
      BY <1>7, <1>4 DEF Copy
    <2>2. \/ /\ get[f].written < size[f] /\ get'[f] = [get[f] EXCEPT !.written = get[f].written + 1]
          \/ /\ get[f].written < size[f] /\ get[f].declared \in 1 .. get[f].written
             /\ \/ get'[f] = [get[f] EXCEPT !.at = "complete", !.text = FALSE]
                \/ get'[f] = [get[f] EXCEPT !.at = "broken", !.text = FALSE]
          \/ /\ get[f].written = size[f]
             /\ get'[f] = [get[f] EXCEPT !.at = IF get[f].declared \in {0, get[f].written}
                                                THEN "complete" ELSE "broken", !.text = FALSE]
          \/ get'[f] = [get[f] EXCEPT !.at = IF get[f].declared = 0 THEN "complete"
                                             ELSE "broken", !.text = TRUE]
      BY <1>7, <1>4 DEF Copy
    <2>3. get'[f] \in Download /\ GetInv(f)'
      <3>1. CASE /\ get[f].written < size[f]
                 /\ get'[f] = [get[f] EXCEPT !.written = get[f].written + 1]
        <4>1. get[f].written + 1 \in Sizes
          BY <3>1, <1>1 DEF Download, Sizes
        <4> QED
          BY <4>1, <3>1, <2>1, <1>1 DEF GetInv, Download, Sizes
      <3>2. CASE /\ get[f].written < size[f] /\ get[f].declared \in 1 .. get[f].written
                 /\ \/ get'[f] = [get[f] EXCEPT !.at = "complete", !.text = FALSE]
                    \/ get'[f] = [get[f] EXCEPT !.at = "broken", !.text = FALSE]
        <4> DEFINE d == get[f]
        <4>1. /\ get'[f] \in Download /\ get'[f].at \in {"complete", "broken"}
              /\ get'[f].opened = d.opened /\ get'[f].written = d.written
              /\ get'[f].text = FALSE
          BY <3>2, <1>1 DEF Download
        <4>2. /\ d.declared = IF recorded[f] = 0 THEN d.opened ELSE recorded[f]
              /\ d.opened \in Nat /\ d.written \in Nat /\ recorded[f] \in Nat
          BY <2>1, <1>1 DEF GetInv, Download, Sizes
        <4>3. \/ d.written >= d.opened
              \/ recorded[f] \in 1 .. d.opened - 1
          BY <3>2, <4>2
        <4> QED
          BY <4>1, <4>3, <2>1 DEF GetInv
      <3>3. CASE /\ get[f].written = size[f]
                 /\ get'[f] = [get[f] EXCEPT !.at = IF get[f].declared \in {0, get[f].written}
                                                   THEN "complete" ELSE "broken", !.text = FALSE]
        BY <3>3, <2>1, <1>1 DEF GetInv, Download, Sizes
      <3>4. CASE get'[f] = [get[f] EXCEPT !.at = IF get[f].declared = 0 THEN "complete"
                                                ELSE "broken", !.text = TRUE]
        BY <3>4, <2>1, <1>1 DEF GetInv, Download, Sizes
      <3> QED
        BY <2>2, <3>1, <3>2, <3>3, <3>4
    <2>4. TypeOK'
      BY <2>1, <2>3, <1>3, <1>4
    <2>6. ASSUME NEW g \in Gets, g # f PROVE GetInv(g)'
      BY <2>6, <2>1, <1>2, <1>4
    <2> QED
      BY <2>3, <2>4, <2>6
  <1> QED
    BY <1>5, <1>6, <1>7

LEMMA EndStep == ASSUME IInv, End PROVE IInv'
  <1> USE AttachmentsAssumption
  <1>1. TypeOK /\ (\A r \in Requests : RequestInv(r)) /\ (\A g \in Gets : GetInv(g))
    BY DEF IInv
  <1>2. TypeOK'
    <2>1. ends' \in 0 .. EndLimit
      BY <1>1 DEF End, TypeOK
    <2>2. get' \in [Gets -> Download]
      <3>1. \A g \in Gets : [get[g] EXCEPT !.at = "broken"] \in Download
        BY <1>1 DEF TypeOK, Download
      <3> QED
        BY <1>1, <3>1 DEF End, TypeOK, Download
    <2> QED
      BY <1>1, <2>1, <2>2 DEF End, TypeOK, Download
  <1>3. ASSUME NEW r \in Requests PROVE RequestInv(r)'
    BY <1>1 DEF End, TypeOK, RequestInv, InHandler
  <1>4. ASSUME NEW g \in Gets PROVE GetInv(g)'
    BY <1>1 DEF End, TypeOK, GetInv
  <1> QED
    BY <1>2, <1>3, <1>4 DEF IInv

(* The invariant is inductive.                                             *)
LEMMA NextInv == IInv /\ [Next]_vars => IInv'
  <1> SUFFICES ASSUME IInv, [Next]_vars PROVE IInv'
    OBVIOUS
  <1>1. TypeOK /\ (\A r \in Requests : RequestInv(r)) /\ (\A g \in Gets : GetInv(g))
    BY DEF IInv
  <1>2. ASSUME UNCHANGED fetching PROVE (\A g \in Gets : GetInv(g))'
    BY <1>1, <1>2 DEF GetInv, fetching
  <1>3. ASSUME UNCHANGED sending PROVE (\A r \in Requests : RequestInv(r))'
    BY <1>1, <1>3 DEF RequestInv, InHandler, sending
  <1>4. ASSUME NEW r \in Requests, Receive(r) \/ Handle(r) \/ Imsg(r) \/ GiveUp(r),
               UNCHANGED <<up, ends, fetching>>
        PROVE  IInv'
    BY <1>1, <1>2, <1>4, SendingSteps DEF IInv
  <1>5. ASSUME NEW g \in Gets, Grow(g) \/ Open(g) \/ Copy(g), UNCHANGED <<up, ends, sending>>
        PROVE  IInv'
    BY <1>1, <1>3, <1>5, FetchingSteps DEF IInv
  <1>6. ASSUME UNCHANGED <<sending, fetching>>, up' \in BOOLEAN, ends' = ends PROVE IInv'
    <2>1. TypeOK'
      BY <1>1, <1>6 DEF TypeOK, sending, fetching
    <2> QED
      BY <2>1, <1>2, <1>3, <1>6 DEF IInv
  <1>7. CASE UNCHANGED vars
    BY <1>1, <1>6, <1>7 DEF vars, TypeOK
  <1>8. CASE Restart
    BY <1>6, <1>8 DEF Restart
  <1> QED
    BY <1>4, <1>5, <1>7, <1>8, EndStep DEF Next

LEMMA Invariant == Spec => []IInv
  BY InitInv, NextInv, PTL DEF Spec

(* The variables keep their types.                                         *)
THEOREM AttachmentsTypes == Spec => []TypeOK
  <1>1. IInv => TypeOK
    BY DEF IInv
  <1> QED
    BY <1>1, Invariant, PTL

(* imsg never runs on a file that is partly copied or removed, however the *)
(* handler ends: SaveUpload and the deferred os.Remove enclose Runner.run. *)
THEOREM WholeForImsg == Spec => []FileWholeForImsg
  <1>1. IInv => FileWholeForImsg
    <2> SUFFICES ASSUME IInv, NEW r \in Files, imsg[r] = "running" PROVE file[r] = "whole"
      BY DEF FileWholeForImsg
    <2>1. r \in Requests
      BY AttachmentsAssumption
    <2> QED
      BY <2>1 DEF IInv, RequestInv
  <1> QED
    BY <1>1, Invariant, PTL

(* A 202 of the send handlers means that imsg has sent.                    *)
THEOREM AcceptedSent == Spec => []AcceptedIsSent
  <1>1. IInv => AcceptedIsSent
    BY DEF IInv, RequestInv, AcceptedIsSent
  <1> QED
    BY <1>1, Invariant, PTL

(* Only the daemon's end leaves copies behind.                             *)
THEOREM StrayInterrupted == Spec => []StrayOnlyOfInterrupted
  <1>1. IInv => StrayOnlyOfInterrupted
    BY DEF IInv, RequestInv, StrayOnlyOfInterrupted
  <1> QED
    BY <1>1, Invariant, PTL

(* Nothing is sent for a request that has been answered.                   *)
THEOREM Settled == Spec => SettledByAnswer
  <1>1. ASSUME IInv, [Next]_vars, NEW r \in Requests, answer[r] # "none"
        PROVE  r \in sent' <=> r \in sent
    <2>1. imsg[r] # "running"
      BY <1>1 DEF IInv, RequestInv
    <2>2. ASSUME NEW q \in Requests, Receive(q) \/ Handle(q) \/ GiveUp(q) PROVE sent' = sent
      BY <2>2 DEF Receive, Handle, GiveUp, Save, Start, Kill, Answer, Leave
    <2>3. ASSUME NEW q \in Requests, Imsg(q) PROVE r \in sent' <=> r \in sent
      BY <2>1, <2>3 DEF Imsg
    <2>4. End \/ Restart \/ UNCHANGED vars \/ UNCHANGED sending => sent' = sent
      BY DEF End, Restart, vars, sending
    <2> QED
      BY <1>1, <2>2, <2>3, <2>4 DEF Next
  <1>2. IInv /\ [Next]_vars => [\A r \in Requests : answer[r] # "none" => (r \in sent' <=> r \in sent)]_vars
    BY <1>1
  <1> QED
    BY <1>2, Invariant, PTL DEF Spec, SettledByAnswer

(* A download that looks complete is whole, but for the two exceptions.    *)
THEOREM CompleteWhole == Spec => []CompleteIsWhole
  <1>1. IInv => CompleteIsWhole
    BY DEF IInv, GetInv, CompleteIsWhole
  <1> QED
    BY <1>1, Invariant, PTL
=============================================================================
