-------------------------- MODULE WebProfilesProofs -------------------------
(***************************************************************************)
(* Proofs about the web client: WebProfiles, what it stores, and in the    *)
(* last part WebThread, the messages on its screen.  The two share no      *)
(* variable.                                                               *)
(***************************************************************************)
EXTENDS WebProfiles, WebThread, FiniteSetTheorems, SequenceTheorems, TLAPS

(* What an operation is, by its next step.                                 *)
OpInv(o) ==
    /\ op[o].at \in {"key", "generate", "store"} => op[o].kind \in {"pair", "poll"}
    /\ op[o].at = "activate" => \/ op[o].kind \in {"pair", "poll"}
                                \/ op[o].kind = "use" /\ op[o].on \in Ops
    /\ op[o].at = "delete" => op[o].kind = "remove" /\ op[o].on \in Ops
    /\ op[o].at = "cache" => op[o].kind = "cache" /\ op[o].on \in Ops
    /\ op[o].at = "read" => op[o].kind # "cache"

Sound == TypeOK /\ \A o \in Ops : OpInv(o)

(* Who took a key while none was being made has the one that is stored,    *)
(* and nobody makes another.                                               *)
KeyInv ==
    /\ \A o \in Ops : op[o].at = "store" \/ o \in profiles => lock[o] # None
    /\ \A o \in Ops \ exposed :
          lock[o] # None => /\ lock[o] = key
                            /\ \A q \in Ops : op[q].at # "generate"

(* Operations that never overlap act on what is stored.                    *)
ActiveInv ==
    ~mixed =>
        /\ active \in profiles \union {None}
        /\ \A o, q \in InFlight :
              op[o].kind # "cache" /\ op[q].kind # "cache" => o = q
        /\ \A o \in Ops :
              op[o].at = "activate" =>
                  (IF op[o].kind = "use" THEN op[o].on ELSE o) \in profiles

(* What refreshState has read so far is what is stored, as nothing that    *)
(* writes runs beside it.                                                  *)
ShownInv ==
    /\ \A o \in Ops : got[o] # {} => op[o].at = "read"
    /\ ~mixed => \A o \in Ops : \A x \in got[o] : seen[o][x] = Stored[x]
    /\ ShowsWhatIsStored

(* A session is polled by the one page that asked for it, and by none once *)
(* it has been saved.                                                      *)
Polls(o) == op[o].kind = "poll" /\ op[o].at # "failed"

PollInv ==
    /\ \A t, u \in Tabs : session[t] = session[u] => t = u \/ session[t] = None
    /\ \A o \in Ops :
          Polls(o) => /\ op[o].at # "unused" /\ op[o].on \in Sessions
                      /\ \A t \in Tabs :
                            session[t] = op[o].on => op[o].at # "done" /\ op[o].tab = t
    /\ \A o, q \in Ops \ beside : Polls(o) /\ Polls(q) /\ op[o].on = op[q].on => o = q

IInv == Sound /\ KeyInv /\ ActiveInv /\ NothingLeft /\ ShownInv /\ PollInv

-----------------------------------------------------------------------------
(* What the actions do to the operations.                                  *)

(* An operation goes on.                                                   *)
LEMMA StepEffect ==
    ASSUME op \in [Ops -> Operation], NEW o \in Ops, NEW from, NEW to, Step(o, from, to),
           to \in {"generate", "store", "activate", "read"}
    PROVE  /\ op[o].at = from
           /\ op' \in [Ops -> Operation]
           /\ op'[o].at = to /\ op'[o].kind = op[o].kind /\ op'[o].on = op[o].on
           /\ op'[o].tab = op[o].tab
           /\ \A q \in Ops \ {o} : op'[q] = op[q]
  <1>1. [op[o] EXCEPT !.at = to] \in Operation
    BY DEF Operation
  <1>2. op' = [op EXCEPT ![o] = [op[o] EXCEPT !.at = to]] /\ op[o].at = from
    BY DEF Step
  <1>3. op[o] \in Operation
    OBVIOUS
  <1> QED
    BY <1>1, <1>2, <1>3 DEF Operation

(* An operation ends.                                                      *)
LEMMA EndEffect ==
    ASSUME op \in [Ops -> Operation], seen \in [Ops -> State],
           got \in [Ops -> SUBSET {"list", "active"}], NEW o \in Ops, NEW how,
           End(o, how), how \in {"done", "failed"}
    PROVE  /\ op' \in [Ops -> Operation] /\ seen' \in [Ops -> State]
           /\ got' \in [Ops -> SUBSET {"list", "active"}]
           /\ op'[o].at = how /\ op'[o].kind = op[o].kind /\ op'[o].on = op[o].on
           /\ \A q \in Ops \ {o} : op'[q] = op[q]
           /\ got'[o] = {} /\ \A q \in Ops \ {o} : got'[q] = got[q] /\ seen'[q] = seen[q]
  <1>1. /\ Over(o, how) \in Operation /\ Over(o, how).at = how
        /\ Over(o, how).kind = op[o].kind /\ Over(o, how).on = op[o].on
    BY DEF Operation, Over, Maybe
  <1>2. Blank \in State
    BY DEF Blank, State, Maybe
  <1> QED
    BY <1>1, <1>2 DEF End

(* The five ways an operation begins.                                      *)
Begins(t, o) == Pair(t, o) \/ Poll(t, o) \/ Use(t, o) \/ Remove(t, o) \/ Cache(t, o)

(* An operation begins: it takes the place of none.                        *)
LEMMA BeginEffect ==
    ASSUME TypeOK, NEW t \in Tabs, NEW o \in Ops, Begins(t, o)
    PROVE  /\ op[o].at = "unused"
           /\ op' \in [Ops -> Operation]
           /\ \A q \in Ops \ {o} : op'[q] = op[q]
           /\ \/ op'[o].at = "key" /\ op'[o].kind \in {"pair", "poll"}
              \/ op'[o].at = "activate" /\ op'[o].kind = "use" /\ op'[o].on \in shown[t].list
              \/ op'[o].at = "delete" /\ op'[o].kind = "remove" /\ op'[o].on \in shown[t].list
              \/ op'[o].at = "cache" /\ op'[o].kind = "cache" /\ op'[o].on \in Ops
           /\ mixed' \in BOOLEAN /\ beside' \subseteq Ops
           /\ ~mixed' =>
                 /\ ~mixed
                 /\ op'[o].kind # "cache" => \A q \in InFlight : op[q].kind = "cache"
                 /\ op'[o].kind = "use" => shown[t].list = profiles
           /\ UNCHANGED <<storage, seen, got, tabs, exposed, last, late>>
  <1>1. /\ shown[t].list \subseteq Ops /\ shown[t].active \in Maybe(Ops)
        /\ session[t] \in Maybe(Sessions)
    BY DEF TypeOK, State
  <1>2. PICK k, n, a :
              /\ Begin(o, t, k, n, a) /\ n \in Maybe(Ops \union Sessions)
              /\ \/ a = "key" /\ k \in {"pair", "poll"}
                 \/ a = "activate" /\ k = "use" /\ n \in shown[t].list
                 \/ a = "delete" /\ k = "remove" /\ n \in shown[t].list
                 \/ a = "cache" /\ k = "cache" /\ n \in Ops
    <2>1. CASE Pair(t, o)
      BY <2>1 DEF Pair, Maybe
    <2>2. CASE Poll(t, o)
      BY <2>2, <1>1 DEF Poll, Maybe
    <2>3. CASE Use(t, o)
      BY <2>3, <1>1 DEF Use, Maybe
    <2>4. CASE Remove(t, o)
      BY <2>4, <1>1 DEF Remove, Maybe
    <2>5. CASE Cache(t, o)
      BY <2>5, <1>1 DEF Cache, Maybe
    <2> QED
      BY <2>1, <2>2, <2>3, <2>4, <2>5 DEF Begins
  <1> DEFINE new == [kind |-> k, tab |-> t, on |-> n, at |-> a]
  <1>3. new \in Operation
    BY <1>2 DEF Operation, Maybe
  <1>4. op' = [op EXCEPT ![o] = new] /\ op[o].at = "unused"
    BY <1>2 DEF Begin
  <1>5. op'[o] = new /\ op' \in [Ops -> Operation] /\ \A q \in Ops \ {o} : op'[q] = op[q]
    <2> HIDE DEF new
    <2> QED
      BY <1>3, <1>4 DEF TypeOK
  <1>6. op'[o].kind = k /\ op'[o].at = a /\ op'[o].on = n
    BY <1>5
  <1>7. mixed' = (\/ mixed
                  \/ k # "cache" /\ \E q \in InFlight : op[q].kind # "cache"
                  \/ k \in {"use", "remove"} /\ shown[t] # Stored)
    BY <1>2 DEF Begin
  <1>8. mixed' \in BOOLEAN
    BY <1>7
  <1>9. beside' \subseteq Ops
    BY DEF Begins, Pair, Poll, Use, Remove, Cache, TypeOK
  <1>10. shown[t] = Stored => shown[t].list = profiles
    BY DEF Stored
  <1>11. ~mixed' => /\ ~mixed
                    /\ k # "cache" => \A q \in InFlight : op[q].kind = "cache"
                    /\ k = "use" => shown[t].list = profiles
    BY <1>7, <1>10
  <1>12. UNCHANGED <<storage, seen, got, tabs, exposed, last, late>>
    BY <1>2 DEF Begin
  <1> QED
    BY <1>2, <1>4, <1>5, <1>6, <1>8, <1>9, <1>11, <1>12

(* Closing a tab fails what it was doing.                                  *)
LEMMA ReloadEffect ==
    ASSUME TypeOK, NEW t \in Tabs, NEW o \in Ops, Reload(t, o)
    PROVE  /\ op[o].at = "unused" /\ op' \in [Ops -> Operation]
           /\ op'[o].at = "read" /\ op'[o].kind = "load"
           /\ \A q \in Ops \ {o} : op'[q] = op[q] \/ op'[q].at = "failed"
           /\ ~mixed' => \A q \in Ops \ {o} : q \in InFlight /\ op'[q] = op[q] => op[q].kind = "cache"
           /\ mixed \in BOOLEAN /\ (~mixed' => ~mixed)
           /\ UNCHANGED <<storage, exposed, late>>
  <1> DEFINE cut == {q \in InFlight : op[q].tab = t}
             new == [kind |-> "load", tab |-> t, on |-> None, at |-> "read"]
  <1>1. /\ op' = [q \in Ops |-> IF q = o THEN new ELSE IF q \in cut THEN Over(q, "failed") ELSE op[q]]
        /\ op[o].at = "unused"
        /\ mixed' = (mixed \/ \E q \in InFlight \ cut : op[q].kind # "cache")
        /\ UNCHANGED <<storage, exposed, late>>
    BY DEF Reload
  <1>2. new \in Operation
    BY DEF Operation, Maybe
  <1>3. \A q \in Ops : Over(q, "failed") \in Operation /\ Over(q, "failed").at = "failed"
    <2> SUFFICES ASSUME NEW q \in Ops
                 PROVE  Over(q, "failed") \in Operation /\ Over(q, "failed").at = "failed"
      OBVIOUS
    <2>1. op[q] \in Operation
      BY DEF TypeOK
    <2> QED
      BY <2>1 DEF Operation, Over, Maybe
  <1>4. op' \in [Ops -> Operation] /\ op'[o] = new
    <2> HIDE DEF new, cut
    <2> QED
      BY <1>1, <1>2, <1>3 DEF TypeOK
  <1>5. \A q \in Ops \ {o} : op'[q] = IF q \in cut THEN Over(q, "failed") ELSE op[q]
    BY <1>1
  <1>6. \A q \in cut : op[q].at # "failed"
    BY DEF InFlight
  <1>7. \A q \in Ops \ {o} : op'[q] = op[q] \/ op'[q].at = "failed"
    BY <1>5, <1>3
  <1>8. \A q \in Ops \ {o} : q \in InFlight /\ op'[q] = op[q] => q \in InFlight \ cut
    BY <1>5, <1>6, <1>3
  <1> QED
    BY <1>1, <1>4, <1>7, <1>8 DEF TypeOK

-----------------------------------------------------------------------------
(* The steps of an operation keep the types, and what an operation is.     *)
LEMMA PerformSound ==
    ASSUME Sound, NEW o \in Ops, Perform(o)
    PROVE  Sound'
  <1>1. /\ TypeOK /\ OpInv(o) /\ (\A q \in Ops : OpInv(q))
        /\ op \in [Ops -> Operation] /\ seen \in [Ops -> State]
        /\ got \in [Ops -> SUBSET {"list", "active"}]
        /\ op[o] \in Operation /\ seen[o] \in State
    BY DEF Sound, TypeOK
  <1>2. ASSUME NEW q \in Ops, q # o, op'[q] = op[q] PROVE OpInv(q)'
    BY <1>1, <1>2 DEF OpInv
  <1>3. ASSUME NEW from, NEW to, Step(o, from, to),
               \/ from = "key" /\ to \in {"generate", "store"}
               \/ from = "generate" /\ to = "store"
               \/ from = "store" /\ to = "activate"
               \/ from \in {"activate", "delete"} /\ to = "read"
        PROVE  op' \in [Ops -> Operation] /\ \A q \in Ops : OpInv(q)'
    <2>1. /\ op[o].at = from /\ op' \in [Ops -> Operation]
          /\ op'[o].at = to /\ op'[o].kind = op[o].kind /\ op'[o].on = op[o].on
          /\ \A q \in Ops \ {o} : op'[q] = op[q]
      BY <1>1, <1>3, StepEffect
    <2>2. OpInv(o)'
      BY <1>1, <1>3, <2>1 DEF OpInv
    <2> QED
      BY <1>2, <2>1, <2>2
  <1>4. ASSUME NEW how, End(o, how), how \in {"done", "failed"}
        PROVE  /\ op' \in [Ops -> Operation] /\ seen' \in [Ops -> State]
               /\ got' \in [Ops -> SUBSET {"list", "active"}]
               /\ \A q \in Ops : OpInv(q)'
    <2>1. /\ op' \in [Ops -> Operation] /\ seen' \in [Ops -> State]
          /\ got' \in [Ops -> SUBSET {"list", "active"}]
          /\ op'[o].at = how /\ \A q \in Ops \ {o} : op'[q] = op[q]
      BY <1>1, <1>4, EndEffect
    <2>2. OpInv(o)'
      BY <1>4, <2>1 DEF OpInv
    <2> QED
      BY <1>2, <2>1, <2>2
  <1>5. CASE TakeKey(o) /\ UNCHANGED <<key, profiles, active, cached, seen, got, tabs, mixed, last, beside, late>>
    <2>1. op' \in [Ops -> Operation] /\ \A q \in Ops : OpInv(q)'
      BY <1>3, <1>5 DEF TakeKey
    <2>2. lock' \in [Ops -> Maybe(Ops)] /\ exposed' \subseteq Ops
      BY <1>1, <1>5 DEF TakeKey, Exposing, TypeOK, Maybe
    <2> QED
      BY <1>1, <1>5, <2>1, <2>2 DEF Sound, TypeOK, tabs
  <1>6. CASE MakeKey(o) /\ UNCHANGED <<profiles, active, cached, seen, got, tabs, mixed, last, beside, late>>
    <2>1. op' \in [Ops -> Operation] /\ \A q \in Ops : OpInv(q)'
      BY <1>3, <1>6 DEF MakeKey
    <2>2. lock' \in [Ops -> Maybe(Ops)] /\ exposed' \subseteq Ops /\ key' \in Maybe(Ops)
      BY <1>1, <1>6 DEF MakeKey, Exposing, TypeOK, Maybe
    <2> QED
      BY <1>1, <1>6, <2>1, <2>2 DEF Sound, TypeOK, tabs
  <1>7. CASE Store(o) /\ UNCHANGED <<key, lock, active, cached, seen, got, tabs, history>>
    <2>1. op' \in [Ops -> Operation] /\ \A q \in Ops : OpInv(q)'
      BY <1>3, <1>7 DEF Store
    <2> QED
      BY <1>1, <1>7, <2>1 DEF Sound, TypeOK, tabs, history, Store
  <1>8. CASE Activate(o) /\ UNCHANGED <<key, lock, profiles, cached, seen, got, tabs, history>>
    <2>1. op' \in [Ops -> Operation] /\ \A q \in Ops : OpInv(q)'
      BY <1>3, <1>8 DEF Activate
    <2>2. op[o].at = "activate"
      BY <1>8 DEF Activate, Step
    <2>3. active' \in Maybe(Ops)
      BY <1>1, <1>8, <2>2 DEF Activate, OpInv, Maybe
    <2> QED
      BY <1>1, <1>8, <2>1, <2>3 DEF Sound, TypeOK, tabs, history
  <1>9. CASE Delete(o) /\ UNCHANGED <<key, lock, seen, got, tabs, history>>
    <2>1. op' \in [Ops -> Operation] /\ \A q \in Ops : OpInv(q)'
      BY <1>3, <1>9 DEF Delete
    <2>2. active' \in Maybe(Ops) /\ profiles' \subseteq Ops /\ cached' \subseteq Ops
      BY <1>1, <1>9 DEF Delete, TypeOK, Maybe
    <2> QED
      BY <1>1, <1>9, <2>1, <2>2 DEF Sound, TypeOK, tabs, history
  <1>10. CASE CacheCommit(o) /\ UNCHANGED <<key, lock, profiles, active, tabs, exposed, mixed, last, beside>>
    <2>1. /\ op' \in [Ops -> Operation] /\ seen' \in [Ops -> State]
          /\ got' \in [Ops -> SUBSET {"list", "active"}]
          /\ \A q \in Ops : OpInv(q)'
      BY <1>4, <1>10 DEF CacheCommit
    <2>2. op[o].on \in Ops
      BY <1>1, <1>10 DEF CacheCommit, OpInv
    <2>3. cached' \subseteq Ops /\ late' \subseteq Ops
      BY <1>1, <1>10, <2>2 DEF CacheCommit, TypeOK
    <2> QED
      BY <1>1, <1>10, <2>1, <2>3 DEF Sound, TypeOK, tabs
  <1>11. CASE Read(o) /\ UNCHANGED <<storage, op, tabs, history>>
    <2>1. got' \in [Ops -> SUBSET {"list", "active"}]
      BY <1>1, <1>11 DEF Read
    <2>2. seen' \in [Ops -> State]
      <3>1. profiles \in SUBSET Ops /\ active \in Maybe(Ops)
        BY <1>1 DEF TypeOK
      <3>2. PICK x \in {"list", "active"} : seen' = [seen EXCEPT ![o][x] = Stored[x]]
        BY <1>11 DEF Read
      <3>3. [seen[o] EXCEPT !["list"] = profiles] \in State
        BY <1>1, <3>1 DEF State
      <3>4. [seen[o] EXCEPT !["active"] = active] \in State
        BY <1>1, <3>1 DEF State
      <3>5. x = "list" => seen' = [seen EXCEPT ![o] = [seen[o] EXCEPT !["list"] = profiles]]
        BY <3>2 DEF Stored
      <3>6. x = "active" => seen' = [seen EXCEPT ![o] = [seen[o] EXCEPT !["active"] = active]]
        BY <3>2 DEF Stored
      <3> QED
        BY <1>1, <3>2, <3>3, <3>4, <3>5, <3>6
    <2>3. \A q \in Ops : OpInv(q)'
      BY <1>1, <1>11 DEF OpInv
    <2> QED
      BY <1>1, <1>11, <2>1, <2>2, <2>3 DEF Sound, TypeOK, tabs, history, storage
  <1>12. CASE Show(o) /\ UNCHANGED <<storage, exposed, mixed, beside, late>>
    <2>1. /\ op' \in [Ops -> Operation] /\ seen' \in [Ops -> State]
          /\ got' \in [Ops -> SUBSET {"list", "active"}]
          /\ \A q \in Ops : OpInv(q)'
      BY <1>4, <1>12 DEF Show
    <2>2. shown' \in [Tabs -> State] /\ session' \in [Tabs -> Maybe(Sessions)]
      BY <1>1, <1>12 DEF Show, TypeOK, Maybe
    <2>3. last' \in Maybe(Tabs)
      BY <1>1, <1>12 DEF Show, Operation
    <2> QED
      BY <1>1, <1>12, <2>1, <2>2, <2>3 DEF Sound, TypeOK, storage
  <1>13. CASE Fail(o) /\ UNCHANGED <<storage, tabs, exposed, mixed, beside, late>>
    <2>1. /\ op' \in [Ops -> Operation] /\ seen' \in [Ops -> State]
          /\ got' \in [Ops -> SUBSET {"list", "active"}]
          /\ \A q \in Ops : OpInv(q)'
      BY <1>4, <1>13 DEF Fail
    <2>2. last' \in Maybe(Tabs)
      BY <1>1, <1>13 DEF Fail, TypeOK, Maybe
    <2> QED
      BY <1>1, <1>13, <2>1, <2>2 DEF Sound, TypeOK, storage, tabs
  <1> QED
    BY <1>5, <1>6, <1>7, <1>8, <1>9, <1>10, <1>11, <1>12, <1>13 DEF Perform

(* So do beginnings, reloads, and what a SessionPage does.                 *)
LEMMA OtherSound ==
    ASSUME Sound,
           \/ \E t \in Tabs, o \in Ops : Begins(t, o) \/ Reload(t, o)
           \/ \E t \in Tabs, s \in Sessions : Ask(t, s)
           \/ \E t \in Tabs : Leave(t)
           \/ UNCHANGED vars
    PROVE  Sound'
  <1>1. TypeOK /\ \A q \in Ops : OpInv(q)
    BY DEF Sound
  <1>2. ASSUME NEW t \in Tabs, NEW o \in Ops, Begins(t, o) PROVE Sound'
    <2>1. shown[t].list \subseteq Ops
      BY <1>1 DEF TypeOK, State
    <2>2. TypeOK'
      BY <1>1, <1>2, BeginEffect DEF TypeOK, storage, tabs
    <2>3. OpInv(o)'
      BY <1>1, <1>2, <2>1, BeginEffect DEF OpInv
    <2>4. ASSUME NEW q \in Ops, q # o PROVE OpInv(q)'
      BY <1>1, <1>2, <2>4, BeginEffect DEF OpInv
    <2> QED
      BY <2>2, <2>3, <2>4 DEF Sound
  <1>3. ASSUME NEW t \in Tabs, NEW o \in Ops, Reload(t, o) PROVE Sound'
    <2>1. Blank \in State
      BY DEF Blank, State, Maybe
    <2>2. seen' \in [Ops -> State] /\ got' \in [Ops -> SUBSET {"list", "active"}]
      BY <1>1, <1>3, <2>1 DEF Reload, TypeOK
    <2>3. shown' \in [Tabs -> State] /\ session' \in [Tabs -> Maybe(Sessions)]
      BY <1>1, <1>3, <2>1 DEF Reload, TypeOK, Maybe
    <2>4. mixed' \in BOOLEAN /\ last' \in Maybe(Tabs) /\ UNCHANGED beside
      BY <1>3 DEF Reload, Maybe
    <2>5. op' \in [Ops -> Operation] /\ UNCHANGED <<storage, exposed, late>>
      BY <1>1, <1>3, ReloadEffect
    <2>6. TypeOK'
      BY <1>1, <2>2, <2>3, <2>4, <2>5 DEF TypeOK, storage
    <2>7. OpInv(o)'
      BY <1>1, <1>3, ReloadEffect DEF OpInv
    <2>8. ASSUME NEW q \in Ops, q # o PROVE OpInv(q)'
      BY <1>1, <1>3, <2>8, ReloadEffect DEF OpInv
    <2> QED
      BY <2>6, <2>7, <2>8 DEF Sound
  <1>4. ASSUME NEW t \in Tabs, NEW s \in Sessions, Ask(t, s) PROVE Sound'
    BY <1>1, <1>4 DEF Ask, Sound, TypeOK, OpInv, storage, history, Maybe
  <1>5. ASSUME NEW t \in Tabs, Leave(t) PROVE Sound'
    BY <1>1, <1>5 DEF Leave, Sound, TypeOK, OpInv, storage, history, Maybe
  <1>6. CASE UNCHANGED vars
    BY <1>1, <1>6 DEF Sound, TypeOK, OpInv, vars
  <1> QED
    BY <1>2, <1>3, <1>4, <1>5, <1>6

-----------------------------------------------------------------------------
(* The parts of the invariant that the properties need.  Each looks only   *)
(* at some of the variables, so most steps leave it alone.                 *)

(* No step parts a token from its key.                                     *)
LEMMA KeyKept ==
    ASSUME Sound, KeyInv, Next PROVE KeyInv'
  <1>1. /\ op \in [Ops -> Operation] /\ TypeOK
        /\ \A q \in Ops : OpInv(q)
        /\ lock \in [Ops -> Maybe(Ops)]
    BY DEF Sound, TypeOK
  <1>2. ASSUME UNCHANGED <<key, lock, exposed>>,
               \A q \in Ops : q \in profiles' => q \in profiles \/ op[q].at = "store",
               \A q \in Ops : op'[q].at = "store" => op[q].at = "store",
               \A q \in Ops : op'[q].at = "generate" => op[q].at = "generate"
        PROVE  KeyInv'
    BY <1>2 DEF KeyInv
  <1>3. ASSUME NEW o \in Ops, TakeKey(o),
               UNCHANGED <<key, profiles, active, cached, seen, got, tabs, mixed, last, beside, late>>
        PROVE  KeyInv'
    <2>1. CASE /\ key # None /\ Step(o, "key", "store")
               /\ lock' = [lock EXCEPT ![o] = key] /\ exposed' = Exposing(o)
      <3>1. /\ op[o].at = "key" /\ op'[o].at = "store"
            /\ \A q \in Ops \ {o} : op'[q] = op[q]
        BY <1>1, <2>1, StepEffect
      <3>2. exposed \subseteq exposed'
        BY <2>1 DEF Exposing
      <3>3. o \notin exposed' => \A q \in Ops : op[q].at # "generate"
        BY <2>1, <3>1 DEF Exposing, Generating
      <3> QED
        BY <1>1, <1>3, <2>1, <3>1, <3>2, <3>3 DEF KeyInv
    <2>2. CASE key = None /\ Step(o, "key", "generate") /\ UNCHANGED <<lock, exposed>>
      <3>1. /\ op[o].at = "key" /\ op'[o].at = "generate"
            /\ \A q \in Ops \ {o} : op'[q] = op[q]
        BY <1>1, <2>2, StepEffect
      <3>2. \A q \in Ops \ exposed : lock[q] = None
        BY <2>2 DEF KeyInv
      <3> QED
        BY <1>3, <2>2, <3>1, <3>2 DEF KeyInv
    <2> QED
      BY <1>3, <2>1, <2>2 DEF TakeKey
  <1>4. ASSUME NEW o \in Ops, MakeKey(o), UNCHANGED profiles
        PROVE  KeyInv'
    <2>1. /\ Step(o, "generate", "store") /\ key' = o
          /\ lock' = [lock EXCEPT ![o] = o] /\ exposed' = Exposing(o)
      BY <1>4 DEF MakeKey
    <2>2. /\ op[o].at = "generate" /\ op'[o].at = "store"
          /\ \A q \in Ops \ {o} : op'[q] = op[q]
      BY <1>1, <2>1, StepEffect
    <2>3. exposed \subseteq exposed'
      BY <2>1 DEF Exposing
    <2>4. o \notin exposed' => \A q \in Ops \ {o} : op[q].at # "generate"
      BY <2>1 DEF Exposing, Generating
    <2>5. \A q \in Ops \ exposed : lock[q] = None
      BY <2>2 DEF KeyInv
    <2>6. o # None
      BY WebProfilesAssumption
    <2> QED
      BY <1>1, <1>4, <2>1, <2>2, <2>3, <2>4, <2>5, <2>6 DEF KeyInv
  <1>5. ASSUME NEW o \in Ops, Store(o), UNCHANGED <<key, lock, exposed>> PROVE KeyInv'
    <2>1. /\ op[o].at = "store" /\ op'[o].at = "activate"
          /\ \A q \in Ops \ {o} : op'[q] = op[q]
      BY <1>1, <1>5, StepEffect DEF Store
    <2> QED
      BY <1>2, <1>5, <2>1 DEF Store
  <1>6. ASSUME NEW o \in Ops, Activate(o) \/ Delete(o), UNCHANGED <<key, lock, exposed>>,
               profiles' \subseteq profiles
        PROVE  KeyInv'
    <2>1. op'[o].at = "read" /\ \A q \in Ops \ {o} : op'[q] = op[q]
      BY <1>1, <1>6, StepEffect DEF Activate, Delete
    <2> QED
      BY <1>2, <1>6, <2>1
  <1>7. ASSUME NEW o \in Ops, CacheCommit(o) \/ Show(o) \/ Fail(o),
               UNCHANGED <<key, lock, exposed, profiles>>
        PROVE  KeyInv'
    <2>1. op'[o].at \in {"done", "failed"} /\ \A q \in Ops \ {o} : op'[q] = op[q]
      BY <1>1, <1>7, EndEffect DEF CacheCommit, Show, Fail, TypeOK
    <2> QED
      BY <1>2, <1>7, <2>1
  <1>8. ASSUME NEW o \in Ops, Perform(o) PROVE KeyInv'
    <2>1. CASE Read(o) /\ UNCHANGED <<storage, op, tabs, history>>
      BY <1>2, <2>1 DEF storage, history
    <2>2. CASE Delete(o) /\ UNCHANGED <<key, lock, seen, got, tabs, history>>
      BY <1>6, <2>2 DEF Delete, history
    <2> QED
      BY <1>3, <1>4, <1>5, <1>6, <1>7, <1>8, <2>1, <2>2 DEF Perform, storage, history
  <1>9. ASSUME NEW t \in Tabs, NEW o \in Ops, Begins(t, o) PROVE KeyInv'
    <2>1. /\ op'[o].at \notin {"store", "generate"}
          /\ \A q \in Ops \ {o} : op'[q] = op[q]
          /\ UNCHANGED <<key, lock, exposed, profiles>>
      BY <1>1, <1>9, BeginEffect DEF storage
    <2> QED
      BY <1>2, <2>1
  <1>10. ASSUME NEW t \in Tabs, NEW o \in Ops, Reload(t, o) PROVE KeyInv'
    <2>1. /\ op'[o].at = "read"
          /\ \A q \in Ops \ {o} : op'[q] = op[q] \/ op'[q].at = "failed"
          /\ UNCHANGED <<key, lock, exposed, profiles>>
      BY <1>1, <1>10, ReloadEffect DEF storage
    <2> QED
      BY <1>2, <2>1
  <1>11. ASSUME UNCHANGED <<storage, op, history>> PROVE KeyInv'
    BY <1>2, <1>11 DEF storage, history
  <1> QED
    BY <1>8, <1>9, <1>10, <1>11 DEF Next, Begins, Ask, Leave

(* Only deleteProfile takes a profile away, and its lists go with it.      *)
LEMMA NothingLeftKept ==
    ASSUME Sound, NothingLeft, Next PROVE NothingLeft'
  <1>1. TypeOK
    BY DEF Sound
  <1>2. ASSUME cached' = cached, profiles \subseteq profiles', late' = late PROVE NothingLeft'
    BY <1>2 DEF NothingLeft
  <1>3. ASSUME NEW o \in Ops, Perform(o) PROVE NothingLeft'
    <2>1. CASE Delete(o) /\ UNCHANGED <<key, lock, seen, got, tabs, history>>
      BY <2>1 DEF Delete, NothingLeft, history
    <2>2. CASE CacheCommit(o) /\ UNCHANGED <<key, lock, profiles, active, tabs, exposed, mixed, last, beside>>
      BY <2>2 DEF CacheCommit, NothingLeft
    <2>3. CASE Store(o) /\ UNCHANGED <<key, lock, active, cached, seen, got, tabs, history>>
      BY <1>2, <2>3 DEF Store, history
    <2> QED
      BY <1>2, <1>3, <2>1, <2>2, <2>3 DEF Perform, storage, history
  <1>4. ASSUME NEW t \in Tabs, NEW o \in Ops, Begins(t, o) \/ Reload(t, o) PROVE NothingLeft'
    <2>1. UNCHANGED <<storage, late>>
      BY <1>1, <1>4, BeginEffect, ReloadEffect
    <2> QED
      BY <1>2, <2>1 DEF storage
  <1>5. ASSUME UNCHANGED <<storage, history>> PROVE NothingLeft'
    BY <1>2, <1>5 DEF storage, history
  <1> QED
    BY <1>3, <1>4, <1>5 DEF Next, Begins, Ask, Leave

(* While nothing overlaps, one operation at a time writes, and what it     *)
(* makes active is there.                                                  *)
LEMMA ActiveKept ==
    ASSUME Sound, ActiveInv, Next PROVE ActiveInv'
  <1> SUFFICES ASSUME ~mixed' PROVE
          /\ active' \in profiles' \union {None}
          /\ \A p, q \in InFlight' :
                op'[p].kind # "cache" /\ op'[q].kind # "cache" => p = q
          /\ \A p \in Ops :
                op'[p].at = "activate" =>
                    (IF op'[p].kind = "use" THEN op'[p].on ELSE p) \in profiles'
    BY DEF ActiveInv
  <1>1. /\ op \in [Ops -> Operation] /\ TypeOK
        /\ \A q \in Ops : OpInv(q)
    BY DEF Sound, TypeOK
  <1> DEFINE Target(p) == IF op[p].kind = "use" THEN op[p].on ELSE p
  <1>2. \A q \in Ops : (q \in InFlight <=> op[q].at \notin {"unused", "done", "failed"})
    BY DEF InFlight
  <1>3. \A q \in Ops : (q \in InFlight' <=> op'[q].at \notin {"unused", "done", "failed"})
    BY DEF InFlight
  <1>4. ~mixed => /\ active \in profiles \union {None}
                  /\ \A p, q \in InFlight :
                        op[p].kind # "cache" /\ op[q].kind # "cache" => p = q
                  /\ \A p \in Ops : op[p].at = "activate" => Target(p) \in profiles
    BY DEF ActiveInv
  <1>5. ASSUME ~mixed, active' \in profiles' \union {None}, profiles \subseteq profiles',
               \A q \in Ops : q \in InFlight' => q \in InFlight /\ op'[q].kind = op[q].kind
                                                /\ op'[q].on = op[q].on,
               \A q \in Ops : op'[q].at = "activate" => Target(q) \in profiles'
        PROVE  /\ active' \in profiles' \union {None}
               /\ \A p, q \in InFlight' :
                     op'[p].kind # "cache" /\ op'[q].kind # "cache" => p = q
               /\ \A p \in Ops :
                     op'[p].at = "activate" =>
                         (IF op'[p].kind = "use" THEN op'[p].on ELSE p) \in profiles'
    <2>1. \A q \in Ops : op'[q].at = "activate" => q \in InFlight'
      BY <1>3
    <2>2. InFlight' \subseteq Ops
      BY DEF InFlight
    <2> QED
      BY <1>4, <1>5, <2>1, <2>2
  <1>6. CASE \E o \in Ops : Perform(o)
    <2>1. PICK o \in Ops : Perform(o)
      BY <1>6
    <2>2. ~mixed
      BY <2>1 DEF Perform, history
    <2>3. ASSUME NEW from, NEW to, Step(o, from, to),
                 \/ from = "key" /\ to \in {"generate", "store"}
                 \/ from = "generate" /\ to = "store"
                 \/ from = "store" /\ to = "activate"
                 \/ from \in {"activate", "delete"} /\ to = "read"
          PROVE  /\ op[o].at = from /\ op'[o].at = to
                 /\ \A q \in Ops \ {o} : op'[q] = op[q]
                 /\ \A q \in Ops : q \in InFlight' =>
                       q \in InFlight /\ op'[q].kind = op[q].kind /\ op'[q].on = op[q].on
      <3>1. /\ op[o].at = from /\ op'[o].at = to /\ op'[o].kind = op[o].kind
            /\ op'[o].on = op[o].on /\ \A q \in Ops \ {o} : op'[q] = op[q]
        BY <1>1, <2>3, StepEffect
      <3> QED
        BY <1>2, <1>3, <2>3, <3>1
    <2>4. CASE TakeKey(o) /\ UNCHANGED <<profiles, active>>
      BY <1>4, <1>5, <2>2, <2>3, <2>4 DEF TakeKey
    <2>5. CASE MakeKey(o) /\ UNCHANGED <<profiles, active>>
      BY <1>4, <1>5, <2>2, <2>3, <2>5 DEF MakeKey
    <2>6. CASE Store(o) /\ UNCHANGED active
      <3>1. op[o].at = "store" /\ op[o].kind # "use"
        BY <1>1, <2>3, <2>6 DEF Store, OpInv
      <3> QED
        BY <1>4, <1>5, <2>2, <2>3, <2>6, <3>1 DEF Store
    <2>7. CASE Activate(o) /\ UNCHANGED profiles
      <3>1. op[o].at = "activate" /\ active' = Target(o)
        BY <2>3, <2>7 DEF Activate
      <3> QED
        BY <1>4, <1>5, <2>2, <2>3, <2>7, <3>1 DEF Activate
    <2>8. CASE Delete(o)
      <3>1. /\ op[o].at = "delete" /\ op'[o].at = "read" /\ op[o].kind # "cache"
            /\ \A q \in Ops \ {o} : op'[q] = op[q]
        BY <1>1, <2>3, <2>8 DEF Delete, OpInv
      <3>2. \A q \in Ops : op'[q].at # "activate"
        BY <1>1, <1>2, <1>4, <2>2, <3>1 DEF OpInv
      <3>3. active' \in profiles' \union {None}
        BY <1>4, <2>2, <2>8 DEF Delete
      <3>4. \A q \in Ops : q \in InFlight' =>
                       q \in InFlight /\ op'[q].kind = op[q].kind /\ op'[q].on = op[q].on
        BY <2>3, <2>8 DEF Delete
      <3>5. InFlight' \subseteq Ops
        BY DEF InFlight
      <3> QED
        BY <1>4, <2>2, <3>2, <3>3, <3>4, <3>5
    <2>9. CASE (CacheCommit(o) \/ Show(o) \/ Fail(o)) /\ UNCHANGED <<profiles, active>>
      <3>1. op'[o].at \in {"done", "failed"} /\ \A q \in Ops \ {o} : op'[q] = op[q]
        BY <1>1, <2>9, EndEffect DEF CacheCommit, Show, Fail, TypeOK
      <3> QED
        BY <1>2, <1>3, <1>4, <1>5, <2>2, <2>9, <3>1
    <2>10. CASE UNCHANGED <<op, profiles, active>>
      BY <1>2, <1>3, <1>4, <1>5, <2>2, <2>10
    <2> QED
      BY <2>1, <2>4, <2>5, <2>6, <2>7, <2>8, <2>9, <2>10 DEF Perform, storage
  <1>7. ASSUME NEW t \in Tabs, NEW o \in Ops, Begins(t, o)
        PROVE  /\ active' \in profiles' \union {None}
               /\ \A p, q \in InFlight' :
                     op'[p].kind # "cache" /\ op'[q].kind # "cache" => p = q
               /\ \A p \in Ops :
                     op'[p].at = "activate" =>
                         (IF op'[p].kind = "use" THEN op'[p].on ELSE p) \in profiles'
    <2>1. /\ op[o].at = "unused" /\ ~mixed /\ UNCHANGED <<active, profiles>>
          /\ \A q \in Ops \ {o} : op'[q] = op[q]
          /\ op'[o].kind # "cache" => \A q \in InFlight : op[q].kind = "cache"
          /\ op'[o].at = "activate" => op'[o].kind = "use" /\ op'[o].on \in profiles
      BY <1>1, <1>7, BeginEffect DEF storage
    <2>2. InFlight' \subseteq Ops /\ \A q \in InFlight' : q # o => q \in InFlight
      BY <1>2, <1>3, <2>1 DEF InFlight
    <2> QED
      BY <1>4, <2>1, <2>2
  <1>8. ASSUME NEW t \in Tabs, NEW o \in Ops, Reload(t, o)
        PROVE  /\ active' \in profiles' \union {None}
               /\ \A p, q \in InFlight' :
                     op'[p].kind # "cache" /\ op'[q].kind # "cache" => p = q
               /\ \A p \in Ops :
                     op'[p].at = "activate" =>
                         (IF op'[p].kind = "use" THEN op'[p].on ELSE p) \in profiles'
    <2>1. /\ ~mixed /\ UNCHANGED <<active, profiles>>
          /\ op'[o].at = "read"
          /\ \A q \in Ops \ {o} : op'[q] = op[q] \/ op'[q].at = "failed"
          /\ \A q \in Ops \ {o} : q \in InFlight /\ op'[q] = op[q] => op[q].kind = "cache"
      BY <1>1, <1>8, ReloadEffect DEF storage
    <2>2. InFlight' \subseteq Ops
      BY DEF InFlight
    <2>3. \A q \in InFlight' : q # o => q \in InFlight /\ op'[q] = op[q]
      BY <1>2, <1>3, <2>1, <2>2
    <2> QED
      BY <1>3, <1>4, <2>1, <2>2, <2>3
  <1>9. ASSUME UNCHANGED <<storage, op, history>>
        PROVE  /\ active' \in profiles' \union {None}
               /\ \A p, q \in InFlight' :
                     op'[p].kind # "cache" /\ op'[q].kind # "cache" => p = q
               /\ \A p \in Ops :
                     op'[p].at = "activate" =>
                         (IF op'[p].kind = "use" THEN op'[p].on ELSE p) \in profiles'
    <2>1. ~mixed /\ UNCHANGED <<op, profiles, active>>
      BY <1>9 DEF storage, history
    <2> QED
      BY <1>2, <1>3, <1>4, <1>5, <2>1
  <1> QED
    BY <1>6, <1>7, <1>8, <1>9 DEF Next, Begins, Ask, Leave

(* Where one operation at a time writes, what it reads afterwards is what  *)
(* is stored when it is shown.                                             *)
LEMMA ShownKept ==
    ASSUME Sound, ActiveInv, ShownInv, Next PROVE ShownInv'
  <1>1. /\ op \in [Ops -> Operation] /\ seen \in [Ops -> State]
        /\ got \in [Ops -> SUBSET {"list", "active"}]
        /\ shown \in [Tabs -> State] /\ TypeOK
        /\ \A q \in Ops : OpInv(q)
    BY DEF Sound, TypeOK
  <1> DEFINE Busy(q) == op[q].at \notin {"unused", "done", "failed"} /\ op[q].kind # "cache"
             BusyThen(q) == op'[q].at \notin {"unused", "done", "failed"} /\ op'[q].kind # "cache"
  <1>2. /\ \A q \in Ops : got[q] # {} => op[q].at = "read"
        /\ ~mixed => \A q \in Ops : \A x \in got[q] : seen[q][x] = Stored[x]
        /\ (~mixed /\ last # None /\ \A q \in Ops : ~Busy(q)) => shown[last] = Stored
    BY DEF ShownInv, ShowsWhatIsStored, InFlight
  <1>3. ~mixed => \A p, q \in Ops : Busy(p) /\ Busy(q) => p = q
    BY DEF ActiveInv, InFlight
  <1>4. ASSUME \A q \in Ops : got'[q] # {} => op'[q].at = "read",
               ~mixed' => \A q \in Ops : \A x \in got'[q] : seen'[q][x] = Stored'[x],
               (~mixed' /\ last' # None /\ \A q \in Ops : ~BusyThen(q)) => shown'[last'] = Stored'
        PROVE  ShownInv'
    BY <1>4 DEF ShownInv, ShowsWhatIsStored, InFlight
  <1>5. \A q \in Ops : got[q] # {} => Busy(q)
    BY <1>1, <1>2 DEF OpInv
  (* The writes: no other operation has read anything.                     *)
  <1>6. ASSUME NEW o \in Ops, NEW from, NEW to, Step(o, from, to),
               \/ from = "key" /\ to \in {"generate", "store"}
               \/ from = "generate" /\ to = "store"
               \/ from = "store" /\ to = "activate"
               \/ from \in {"activate", "delete"} /\ to = "read",
               mixed' = mixed, UNCHANGED <<seen, got, last>>
        PROVE  ShownInv'
    <2>1. /\ op[o].at = from /\ op'[o].at = to /\ op'[o].kind = op[o].kind
          /\ \A q \in Ops \ {o} : op'[q] = op[q]
      BY <1>1, <1>6, StepEffect
    <2>2. Busy(o) /\ BusyThen(o) /\ got[o] = {}
      BY <1>1, <1>2, <1>6, <2>1 DEF OpInv
    <2>3. ~mixed => \A q \in Ops : got[q] = {}
      BY <1>3, <1>5, <2>2
    <2>4. \A q \in Ops : got'[q] # {} => op'[q].at = "read"
      BY <1>2, <1>6, <2>1, <2>2
    <2>5. ~mixed' => \A q \in Ops : \A x \in got'[q] : seen'[q][x] = Stored'[x]
      BY <1>6, <2>3
    <2> HIDE DEF BusyThen
    <2> QED
      BY <1>4, <2>2, <2>4, <2>5
  (* An operation that is over, or failed, has read nothing.               *)
  <1>7. ASSUME NEW o \in Ops, NEW how, End(o, how), how \in {"done", "failed"},
               mixed' = mixed, Stored' = Stored,
               \/ op[o].kind = "cache" /\ UNCHANGED <<last, shown>>
               \/ last' = None
               \/ ~mixed /\ last' # None => shown'[last'] = Stored
        PROVE  ShownInv'
    <2>1. /\ op'[o].at = how /\ op'[o].kind = op[o].kind
          /\ \A q \in Ops \ {o} : op'[q] = op[q]
          /\ got'[o] = {} /\ \A q \in Ops \ {o} : got'[q] = got[q] /\ seen'[q] = seen[q]
      BY <1>1, <1>7, EndEffect
    <2>2. \A q \in Ops : got'[q] # {} => op'[q].at = "read"
      BY <1>2, <2>1
    <2>3. ~mixed' => \A q \in Ops : \A x \in got'[q] : seen'[q][x] = Stored'[x]
      BY <1>2, <1>7, <2>1
    <2>4. op[o].kind = "cache" => ~Busy(o) /\ \A q \in Ops : Busy(q) <=> BusyThen(q)
      BY <2>1
    <2>5. (~mixed' /\ last' # None /\ \A q \in Ops : ~BusyThen(q)) => shown'[last'] = Stored'
      <3> HIDE DEF Busy, BusyThen
      <3> QED
        BY <1>2, <1>7, <2>4
    <2> HIDE DEF Busy, BusyThen
    <2> QED
      BY <1>4, <2>2, <2>3, <2>5
  <1>8. ASSUME NEW o \in Ops, Read(o), UNCHANGED <<storage, op, tabs, history>>
        PROVE  ShownInv'
    <2>1. PICK x \in {"list", "active"} :
              /\ got' = [got EXCEPT ![o] = @ \union {x}]
              /\ seen' = [seen EXCEPT ![o][x] = Stored[x]]
      BY <1>8 DEF Read
    <2>2. op[o].at = "read" /\ Stored' = Stored /\ mixed' = mixed /\ op' = op
          /\ last' = last /\ shown' = shown
      BY <1>8 DEF Read, Stored, storage, history, tabs
    <2>3. /\ got'[o] = got[o] \union {x} /\ seen'[o] = [seen[o] EXCEPT ![x] = Stored[x]]
          /\ \A q \in Ops \ {o} : got'[q] = got[q] /\ seen'[q] = seen[q]
      BY <1>1, <2>1
    <2>4. seen'[o][x] = Stored[x] /\ \A y \in got[o] \ {x} : seen'[o][y] = seen[o][y]
      BY <1>1, <2>3 DEF State
    <2>5. \A q \in Ops : got'[q] # {} => op'[q].at = "read"
      BY <1>2, <2>2, <2>3
    <2>6. ~mixed' => \A q \in Ops : \A y \in got'[q] : seen'[q][y] = Stored'[y]
      <3>1. ASSUME ~mixed, NEW y \in got'[o] PROVE seen'[o][y] = Stored'[y]
        BY <1>2, <2>2, <2>3, <2>4, <3>1
      <3>2. ASSUME ~mixed, NEW q \in Ops \ {o}, NEW y \in got'[q] PROVE seen'[q][y] = Stored'[y]
        BY <1>2, <2>2, <2>3, <3>2
      <3> QED
        BY <2>2, <3>1, <3>2
    <2> QED
      BY <1>2, <1>4, <2>2, <2>5, <2>6
  <1>9. ASSUME NEW o \in Ops, Show(o), UNCHANGED <<storage, mixed>> PROVE ShownInv'
    <2>1. /\ End(o, "done") /\ got[o] = {"list", "active"}
          /\ shown' = [shown EXCEPT ![op[o].tab] = seen[o]] /\ last' = op[o].tab
          /\ mixed' = mixed /\ Stored' = Stored
      BY <1>9 DEF Show, Stored, storage
    <2>2. last' # None => last' \in Tabs /\ shown'[last'] = seen[o]
      BY <1>1, <2>1 DEF Operation, Maybe
    <2>3. ~mixed => seen[o].list = Stored.list /\ seen[o].active = Stored.active
      BY <1>2, <2>1
    <2>4. seen[o] \in State /\ Stored \in State
      BY <1>1 DEF TypeOK, Stored, State
    <2>5. ~mixed => seen[o] = Stored
      BY <2>3, <2>4 DEF State
    <2> QED
      BY <1>7, <2>1, <2>2, <2>5
  <1>10. ASSUME NEW o \in Ops, (CacheCommit(o) /\ UNCHANGED last) \/ Fail(o),
                UNCHANGED <<profiles, active, tabs, mixed>>
         PROVE  ShownInv'
    <2>1. Stored' = Stored /\ shown' = shown
      BY <1>10 DEF Stored, tabs
    <2>2. CASE CacheCommit(o) /\ UNCHANGED last
      BY <1>1, <1>7, <1>10, <2>1, <2>2 DEF CacheCommit, OpInv
    <2>3. CASE Fail(o)
      BY <1>7, <1>10, <2>1, <2>3 DEF Fail
    <2> QED
      BY <1>10, <2>2, <2>3
  <1>11. ASSUME NEW o \in Ops, Perform(o) PROVE ShownInv'
    <2>1. CASE TakeKey(o) /\ UNCHANGED <<key, profiles, active, cached, seen, got, tabs, mixed, last, beside, late>>
      BY <1>6, <2>1 DEF TakeKey
    <2>2. CASE MakeKey(o) /\ UNCHANGED <<profiles, active, cached, seen, got, tabs, mixed, last, beside, late>>
      BY <1>6, <2>2 DEF MakeKey
    <2>3. CASE (Store(o) \/ Activate(o) \/ Delete(o)) /\ UNCHANGED <<seen, got, history>>
      BY <1>6, <2>3 DEF Store, Activate, Delete, history
    <2>4. CASE Fail(o) /\ UNCHANGED <<storage, tabs, exposed, mixed, beside, late>>
      BY <1>10, <2>4 DEF storage
    <2>5. CASE CacheCommit(o) /\ UNCHANGED <<key, lock, profiles, active, tabs, exposed, mixed, last, beside>>
      BY <1>10, <2>5
    <2>6. CASE Show(o) /\ UNCHANGED <<storage, exposed, mixed, beside, late>>
      BY <1>9, <2>6
    <2> QED
      BY <1>8, <1>11, <2>1, <2>2, <2>3, <2>4, <2>5, <2>6 DEF Perform
  <1>12. ASSUME NEW t \in Tabs, NEW o \in Ops, Begins(t, o) PROVE ShownInv'
    <2>1. /\ op[o].at = "unused" /\ \A q \in Ops \ {o} : op'[q] = op[q]
          /\ op'[o].at \in {"key", "activate", "delete", "cache"}
          /\ op'[o].at = "cache" <=> op'[o].kind = "cache"
          /\ ~mixed' => ~mixed
          /\ UNCHANGED <<seen, got, shown, last>> /\ Stored' = Stored
      BY <1>1, <1>12, BeginEffect DEF storage, tabs, Stored
    <2>2. got[o] = {} /\ ~Busy(o)
      BY <1>2, <2>1
    <2>3. \A q \in Ops : got'[q] # {} => op'[q].at = "read"
      BY <1>2, <2>1, <2>2
    <2>4. ~mixed' => \A q \in Ops : \A x \in got'[q] : seen'[q][x] = Stored'[x]
      BY <1>2, <2>1
    <2>5. (\A q \in Ops : ~BusyThen(q)) => \A q \in Ops : ~Busy(q)
      BY <2>1, <2>2
    <2> HIDE DEF Busy, BusyThen
    <2> QED
      BY <1>2, <1>4, <2>1, <2>3, <2>4, <2>5
  <1>13. ASSUME NEW t \in Tabs, NEW o \in Ops, Reload(t, o) PROVE ShownInv'
    <2>1. /\ op[o].at = "unused" /\ op'[o].at = "read" /\ (~mixed' => ~mixed)
          /\ \A q \in Ops \ {o} : op'[q] = op[q] \/ op'[q].at = "failed"
          /\ Stored' = Stored
      BY <1>1, <1>13, ReloadEffect DEF storage, Stored
    <2>2. /\ last' = None
          /\ \A q \in Ops : (got'[q] = got[q] /\ seen'[q] = seen[q]) \/ got'[q] = {}
          /\ \A q \in Ops \ {o} : op'[q] # op[q] => got'[q] = {}
      BY <1>13 DEF Reload
    <2>3. \A q \in Ops : got'[q] # {} => op'[q].at = "read"
      BY <1>2, <2>1, <2>2
    <2>4. ~mixed' => \A q \in Ops : \A x \in got'[q] : seen'[q][x] = Stored'[x]
      BY <1>2, <2>1, <2>2
    <2> QED
      BY <1>4, <2>2, <2>3, <2>4
  <1>14. ASSUME UNCHANGED <<storage, op, seen, got, shown, history>> PROVE ShownInv'
    BY <1>14 DEF ShownInv, ShowsWhatIsStored, InFlight, Stored, storage, history
  <1> QED
    BY <1>11, <1>12, <1>13, <1>14 DEF Next, Begins, Ask, Leave

(* What a poll begins with.                                                *)
LEMMA BeginPolls ==
    ASSUME TypeOK, NEW t \in Tabs, NEW o \in Ops, Begins(t, o)
    PROVE  /\ op'[o].kind = "poll" =>
                 /\ session[t] # None /\ op'[o].on = session[t] /\ op'[o].tab = t
                 /\ op'[o].at = "key"
                 /\ beside' = IF Saves(session[t]) \intersect InFlight = {} THEN beside
                              ELSE beside \union {o}
           /\ op'[o].kind # "poll" => beside' = beside
  <1>1. ASSUME NEW k, NEW n, NEW a, Begin(o, t, k, n, a)
        PROVE  op'[o].kind = k /\ op'[o].on = n /\ op'[o].tab = t /\ op'[o].at = a
    <2>1. op'[o] = [kind |-> k, tab |-> t, on |-> n, at |-> a]
      BY <1>1 DEF Begin, TypeOK
    <2> QED
      BY <2>1
  <1>2. CASE Poll(t, o)
    BY <1>1, <1>2 DEF Poll
  <1>3. CASE Pair(t, o)
    BY <1>1, <1>3 DEF Pair
  <1>4. CASE Use(t, o)
    BY <1>1, <1>4 DEF Use
  <1>5. CASE Remove(t, o)
    BY <1>1, <1>5 DEF Remove
  <1>6. CASE Cache(t, o)
    BY <1>1, <1>6 DEF Cache
  <1> QED
    BY <1>2, <1>3, <1>4, <1>5, <1>6 DEF Begins

(* The page that polls a session is left by the first save to end.         *)
LEMMA PollKept ==
    ASSUME Sound, PollInv, Next PROVE PollInv'
  <1>1. /\ op \in [Ops -> Operation] /\ seen \in [Ops -> State]
        /\ got \in [Ops -> SUBSET {"list", "active"}]
        /\ session \in [Tabs -> Maybe(Sessions)] /\ TypeOK /\ None \notin Sessions
        /\ \A q \in Ops : OpInv(q)
    BY WebProfilesAssumption DEF Sound, TypeOK
  <1>2. /\ \A t, u \in Tabs : session[t] = session[u] => t = u \/ session[t] = None
        /\ \A q \in Ops :
              Polls(q) => /\ op[q].at # "unused" /\ op[q].on \in Sessions
                          /\ \A t \in Tabs :
                                session[t] = op[q].on => op[q].at # "done" /\ op[q].tab = t
        /\ \A p, q \in Ops \ beside : Polls(p) /\ Polls(q) /\ op[p].on = op[q].on => p = q
    BY DEF PollInv
  <1>3. ASSUME \A t \in Tabs : session'[t] \in {session[t], None}, beside' = beside,
               \A q \in Ops :
                  Polls(q)' => /\ Polls(q) /\ op'[q].at # "unused" /\ op'[q].on = op[q].on
                               /\ \A t \in Tabs :
                                     session'[t] = op[q].on => op'[q].at # "done" /\ op'[q].tab = t
        PROVE  PollInv'
    <2>1. \A t, u \in Tabs : session'[t] = session'[u] => t = u \/ session'[t] = None
      BY <1>2, <1>3
    <2> QED
      BY <1>2, <1>3, <2>1 DEF PollInv
  <1>4. ASSUME NEW o \in Ops, NEW from, NEW to, Step(o, from, to),
               to \in {"generate", "store", "activate", "read"},
               from \in {"key", "generate", "store", "activate", "delete"},
               UNCHANGED <<session, beside>>
        PROVE  PollInv'
    <2>1. /\ op[o].at = from /\ op'[o].at = to /\ op'[o].kind = op[o].kind
          /\ op'[o].on = op[o].on /\ op'[o].tab = op[o].tab
          /\ \A q \in Ops \ {o} : op'[q] = op[q]
      BY <1>1, <1>4, StepEffect
    <2>2. ASSUME NEW q \in Ops, Polls(q)'
          PROVE  /\ Polls(q) /\ op'[q].at # "unused" /\ op'[q].on = op[q].on
                 /\ \A t \in Tabs :
                       session'[t] = op[q].on => op'[q].at # "done" /\ op'[q].tab = t
      <3>1. CASE q = o
        BY <1>2, <1>4, <2>1, <2>2, <3>1 DEF Polls
      <3>2. CASE q # o
        BY <1>2, <1>4, <2>1, <2>2, <3>2 DEF Polls
      <3> QED
        BY <3>1, <3>2
    <2> QED
      BY <1>3, <1>4, <2>2
  <1>5. ASSUME NEW o \in Ops, NEW how, End(o, how), how \in {"done", "failed"}, beside' = beside,
               op[o].at # "failed",
               \A t \in Tabs : session'[t] \in {session[t], None},
               Polls(o) /\ how = "done" => \A t \in Tabs : session'[t] # op[o].on
        PROVE  PollInv'
    <2>1. /\ op'[o].at = how /\ op'[o].kind = op[o].kind /\ op'[o].on = op[o].on
          /\ \A q \in Ops \ {o} : op'[q] = op[q]
      BY <1>1, <1>5, EndEffect
    <2>2. ASSUME NEW q \in Ops, Polls(q)'
          PROVE  /\ Polls(q) /\ op'[q].at # "unused" /\ op'[q].on = op[q].on
                 /\ \A t \in Tabs :
                       session'[t] = op[q].on => op'[q].at # "done" /\ op'[q].tab = t
      <3>1. CASE q = o
        BY <1>5, <2>1, <2>2, <3>1 DEF Polls
      <3>2. CASE q # o
        BY <1>1, <1>2, <1>5, <2>1, <2>2, <3>2 DEF Polls
      <3> QED
        BY <3>1, <3>2
    <2> QED
      BY <1>3, <1>5, <2>2
  <1>6. ASSUME NEW o \in Ops, Show(o), beside' = beside PROVE PollInv'
    <2>1. /\ End(o, "done") /\ op[o].at = "read"
          /\ session' = IF op[o].kind \in {"pair", "poll"}
                        THEN [session EXCEPT ![op[o].tab] = None] ELSE session
      BY <1>6 DEF Show
    <2>2. \A t \in Tabs : session'[t] \in {session[t], None}
      BY <1>1, <2>1
    <2>3. Polls(o) => \A t \in Tabs : session'[t] # op[o].on
      BY <1>1, <1>2, <2>1 DEF Polls
    <2> QED
      BY <1>5, <1>6, <2>1, <2>2, <2>3
  <1>7. ASSUME NEW o \in Ops, CacheCommit(o) \/ Fail(o), UNCHANGED <<session, beside>>
        PROVE  PollInv'
    <2>1. CASE CacheCommit(o)
      BY <1>1, <1>5, <1>7, <2>1 DEF CacheCommit, OpInv, Polls
    <2>2. CASE Fail(o)
      BY <1>5, <1>7, <2>2 DEF Fail, InFlight
    <2> QED
      BY <1>7, <2>1, <2>2
  <1>8. ASSUME UNCHANGED <<op, session, beside>> PROVE PollInv'
    BY <1>8 DEF PollInv, Polls
  <1>9. ASSUME NEW o \in Ops, Perform(o) PROVE PollInv'
    <2>1. CASE TakeKey(o) /\ UNCHANGED <<key, profiles, active, cached, seen, got, tabs, mixed, last, beside, late>>
      BY <1>4, <2>1 DEF TakeKey, tabs
    <2>2. CASE MakeKey(o) /\ UNCHANGED <<profiles, active, cached, seen, got, tabs, mixed, last, beside, late>>
      BY <1>4, <2>2 DEF MakeKey, tabs
    <2>3. CASE (Store(o) \/ Activate(o) \/ Delete(o)) /\ UNCHANGED <<tabs, history>>
      BY <1>4, <2>3 DEF Store, Activate, Delete, history, tabs
    <2> QED
      BY <1>6, <1>7, <1>8, <1>9, <2>1, <2>2, <2>3 DEF Perform, tabs, history
  <1>10. ASSUME NEW t \in Tabs, NEW o \in Ops, Begins(t, o) PROVE PollInv'
    <2>1. /\ op[o].at = "unused" /\ \A q \in Ops \ {o} : op'[q] = op[q]
          /\ session' = session
      BY <1>1, <1>10, BeginEffect DEF tabs
    <2>2. CASE op'[o].kind # "poll"
      <3>1. beside' = beside
        BY <1>1, <1>10, <2>2, BeginPolls
      <3>2. \A q \in Ops : Polls(q)' => q # o /\ Polls(q)
        BY <2>1, <2>2 DEF Polls
      <3> QED
        BY <1>1, <1>2, <1>3, <2>1, <3>1, <3>2
    <2>3. CASE op'[o].kind = "poll"
      <3>1. /\ session[t] # None /\ op'[o].on = session[t] /\ op'[o].tab = t
            /\ op'[o].at = "key"
            /\ beside' = IF Saves(session[t]) \intersect InFlight = {} THEN beside
                         ELSE beside \union {o}
        BY <1>1, <1>10, <2>3, BeginPolls
      <3>2. \A q \in Ops \ {o} : Polls(q)' => Polls(q)
        BY <2>1 DEF Polls
      <3>3. /\ session[t] \in Sessions
            /\ \A u \in Tabs : session[u] = session[t] => u = t
        BY <1>1, <1>2, <3>1 DEF Maybe
      <3>4. ASSUME NEW q \in Ops \ {o}, Polls(q), op[q].on = session[t]
            PROVE  q \in Saves(session[t]) \intersect InFlight
        BY <1>2, <3>4 DEF Polls, Saves, InFlight
      <3>5. \A p, q \in Ops \ beside' :
               Polls(p)' /\ Polls(q)' /\ op'[p].on = op'[q].on => p = q
        BY <1>2, <2>1, <3>1, <3>2, <3>4
      <3>6. \A q \in Ops :
               Polls(q)' => /\ op'[q].at # "unused" /\ op'[q].on \in Sessions
                            /\ \A u \in Tabs :
                                  session'[u] = op'[q].on => op'[q].at # "done" /\ op'[q].tab = u
        BY <1>2, <2>1, <3>1, <3>2, <3>3
      <3> QED
        BY <1>2, <2>1, <3>5, <3>6 DEF PollInv
    <2> QED
      BY <2>2, <2>3
  <1>11. ASSUME NEW t \in Tabs, NEW o \in Ops, Reload(t, o) PROVE PollInv'
    <2>1. /\ op'[o].kind = "load"
          /\ \A q \in Ops \ {o} : op'[q] = op[q] \/ op'[q].at = "failed"
      BY <1>1, <1>11, ReloadEffect
    <2>2. \A q \in Ops : Polls(q)' => Polls(q) /\ op'[q] = op[q]
      BY <2>1 DEF Polls
    <2>3. beside' = beside /\ \A u \in Tabs : session'[u] \in {session[u], None}
      BY <1>1, <1>11 DEF Reload
    <2>4. \A q \in Ops : Polls(q) => op[q].on # None
      BY <1>1, <1>2
    <2> QED
      BY <1>2, <1>3, <2>2, <2>3, <2>4
  <1>12. ASSUME NEW t \in Tabs, NEW s \in Sessions, Ask(t, s) PROVE PollInv'
    <2>1. /\ Saves(s) = {} /\ \A u \in Tabs : session[u] # s
          /\ session' = [session EXCEPT ![t] = s] /\ op' = op /\ beside' = beside
      BY <1>12 DEF Ask, history
    <2>2. \A q \in Ops : Polls(q) => op[q].on # s
      BY <2>1 DEF Saves, Polls
    <2>3. \A u \in Tabs : session'[u] = IF u = t THEN s ELSE session[u]
      BY <1>1, <2>1
    <2>4. \A u, v \in Tabs : session'[u] = session'[v] => u = v \/ session'[u] = None
      BY <1>2, <2>1, <2>3
    <2>5. \A q \in Ops : Polls(q)' <=> Polls(q)
      BY <2>1 DEF Polls
    <2> QED
      BY <1>2, <2>1, <2>2, <2>3, <2>4, <2>5 DEF PollInv
  <1>13. ASSUME NEW t \in Tabs, Leave(t) PROVE PollInv'
    <2>1. /\ session' = [session EXCEPT ![t] = None] /\ op' = op /\ beside' = beside
      BY <1>13 DEF Leave, history
    <2>2. \A u \in Tabs : session'[u] \in {session[u], None}
      BY <1>1, <2>1
    <2>3. \A q \in Ops : Polls(q)' <=> Polls(q)
      BY <2>1 DEF Polls
    <2>4. \A q \in Ops : Polls(q) => op[q].on # None
      BY <1>1, <1>2
    <2> QED
      BY <1>2, <1>3, <2>1, <2>2, <2>3, <2>4
  <1> QED
    BY <1>9, <1>10, <1>11, <1>12, <1>13 DEF Next, Begins

-----------------------------------------------------------------------------
(* Nothing is stored and nothing runs at first.                            *)
LEMMA InitInv == Init => IInv
  <1> SUFFICES ASSUME Init PROVE IInv
    OBVIOUS
  <1>1. Unused \in Operation /\ Blank \in State
    BY DEF Unused, Operation, Blank, State, Maybe
  <1>2. \A o \in Ops : op[o].at = "unused" /\ op[o].kind = "load"
    BY DEF Init, Unused
  <1>3. TypeOK
    BY <1>1 DEF Init, TypeOK, Maybe
  <1>4. ShownInv /\ PollInv
    BY <1>2 DEF Init, ShownInv, ShowsWhatIsStored, PollInv, Polls
  <1> QED
    BY <1>2, <1>3, <1>4 DEF Init, IInv, Sound, OpInv, KeyInv, ActiveInv, NothingLeft, InFlight

(* The invariant is inductive.                                             *)
LEMMA NextInv == IInv /\ [Next]_vars => IInv'
  <1> SUFFICES ASSUME IInv, [Next]_vars PROVE IInv'
    OBVIOUS
  <1>1. CASE Next
    <2>1. Sound'
      BY <1>1, PerformSound, OtherSound DEF Next, Begins, IInv
    <2> QED
      BY <1>1, <2>1, KeyKept, NothingLeftKept, ActiveKept, ShownKept, PollKept DEF IInv
  <1>2. CASE UNCHANGED vars
    <2>1. Sound'
      BY <1>2, OtherSound DEF IInv
    <2>2. KeyInv' /\ NothingLeft' /\ ActiveInv'
      BY <1>2 DEF IInv, KeyInv, NothingLeft, ActiveInv, InFlight, vars
    <2>3. ShownInv' /\ PollInv'
      BY <1>2 DEF IInv, ShownInv, ShowsWhatIsStored, InFlight, Stored, PollInv, Polls, vars
    <2> QED
      BY <2>1, <2>2, <2>3 DEF IInv
  <1> QED
    BY <1>1, <1>2

(* Every step keeps the invariant.                                         *)
LEMMA Invariant == Spec => []IInv
  BY InitInv, NextInv, PTL DEF Spec

(* The variables keep their types.                                         *)
THEOREM ProfilesTypes == Spec => []TypeOK
  <1>1. IInv => TypeOK
    BY DEF IInv, Sound
  <1> QED
    BY <1>1, Invariant, PTL

(* A stored token can be decrypted, unless it was encrypted while another  *)
(* operation was making a key (getOrCreateKey).                            *)
THEOREM TokensStayReadable == Spec => []TokensReadable
  <1>1. IInv => TokensReadable
    BY DEF IInv, Sound, TypeOK, KeyInv, TokensReadable
  <1> QED
    BY <1>1, Invariant, PTL

(* Unless operations overlap, setActiveProfile and deleteProfile leave an  *)
(* active profile that is stored.                                          *)
THEOREM ActiveStays == Spec => []ActiveIsThere
  <1>1. IInv => ActiveIsThere
    BY DEF IInv, ActiveInv, ActiveIsThere
  <1> QED
    BY <1>1, Invariant, PTL

(* Nothing of a deleted profile stays cached but what was saved late.      *)
THEOREM DeletesAll == Spec => []NothingLeft
  <1>1. IInv => NothingLeft
    BY DEF IInv
  <1> QED
    BY <1>1, Invariant, PTL

(* An operation that was never beside another leaves its tab showing what  *)
(* is stored: refreshState reads after the writes.                         *)
THEOREM ShowsStored == Spec => []ShowsWhatIsStored
  <1>1. IInv => ShowsWhatIsStored
    BY DEF IInv, ShownInv
  <1> QED
    BY <1>1, Invariant, PTL

(* Of any two profiles that an approved session has left, one is of a save *)
(* begun during another, or of one that failed once it had stored the      *)
(* profile (SessionPage).                                                  *)
THEOREM SavedOnce == Spec => []OncePerSession
  <1>1. IInv => OncePerSession
    BY DEF IInv, PollInv, Polls, Saves, HasStored, OncePerSession
  <1> QED
    BY <1>1, Invariant, PTL

-----------------------------------------------------------------------
(* The message thread (module WebThread).                                  *)

(* A whole page of messages of chat c is newer than n.                     *)
Superseded(n, c) == Cardinality({m \in Of(c) : m > n}) >= Limit

(* The messages of S do for a thread of chat c: what the stream delivered  *)
(* of it is there, or a whole page of newer ones exists, or the answer of  *)
(* the last load was older.                                                *)
Enough(S, c) ==
    \A n \in (applied \intersect Of(c)) \ aged : n \in S \/ Superseded(n, c)

(* Lists are of one chat, and the chat on the screen is the one that the   *)
(* last load is for.                                                       *)
LoadInv ==
    /\ CacheOfOneChat
    /\ \A i \in 1..request : loads[i].list \subseteq Of(loads[i].chat)
    /\ view.chat # NoChat => request > 0 /\ view.chat = loads[request].chat
    /\ view.chat # NoChat /\ loads[request].pc # "cache" =>
           view.msgs \subseteq Of(view.chat)

(* A page of older messages is asked for once the last load has ended.     *)
OlderInv ==
    \A j \in 1..Len(older) : older[j].pc = "server" =>
        /\ older[j].base \subseteq Of(older[j].chat)
        /\ older[j].from \in 1..request
        /\ older[j].chat = loads[older[j].from].chat
        /\ older[j].from = request => loads[request].pc \in {"done", "failed"}

(* What the stream has delivered is in the answer of the last load, then   *)
(* on the screen, and in the list that an older page is merged into.       *)
EnoughInv ==
    /\ request > 0 /\ loads[request].pc = "answered" =>
           Enough(loads[request].list, loads[request].chat)
    /\ request > 0 /\ loads[request].pc = "done" => Enough(view.msgs, view.chat)
    /\ \A j \in 1..Len(older) :
           /\ older[j].pc = "server" /\ older[j].from = request
           /\ loads[request].pc = "done"
           => Enough(older[j].base, older[j].chat)

ThreadInv == ThreadTypeOK /\ (~overlapped => LoadInv /\ OlderInv /\ EnoughInv)

(* What the constants of WebThread are.                                    *)
LEMMA ChatsAreChats == NoChat \notin Chats /\ Limit \in Nat /\ Page \in Nat
                       /\ MaxMessage \in Nat /\ MaxLoads \in Nat /\ MaxOlder \in Nat
  BY WebThreadAssumption DEF WebThreadAssumption

(* There are finitely many newer messages.                                 *)
LEMMA NewerFinite ==
    ASSUME log \in Seq(Chats), NEW S \in SUBSET Messages, NEW n
    PROVE  IsFiniteSet({m \in S : m > n}) /\ Cardinality({m \in S : m > n}) \in Nat
  <1>1. IsFiniteSet(1..Len(log))
    BY FS_Interval
  <1>2. {m \in S : m > n} \subseteq 1..Len(log)
    BY DEF Messages
  <1>3. IsFiniteSet({m \in S : m > n})
    BY <1>1, <1>2, FS_Subset
  <1> QED
    BY <1>3, FS_CardinalityType

(* What had arrived and is not on the last page has a page of newer        *)
(* messages, however old the answer is.                                    *)
LEMMA LastPage ==
    ASSUME log \in Seq(Chats), NEW c, NEW k, NEW n \in Of(c), n <= k,
           n \notin ListAt(c, k)
    PROVE  Superseded(n, c)
  <1> DEFINE early == {m \in {l \in Of(c) : l <= k} : m > n}
             newer == {m \in Of(c) : m > n}
  <1>1. Of(c) \in SUBSET Messages
    BY DEF Of
  <1>2. IsFiniteSet(newer) /\ Cardinality(newer) \in Nat
    BY <1>1, NewerFinite
  <1>3. early \subseteq newer
    OBVIOUS
  <1>4. ~(Cardinality(early) < Limit)
    BY DEF ListAt, LastOf
  <1> HIDE DEF early
  <1>5. Cardinality(early) \in Nat /\ Cardinality(early) <= Cardinality(newer)
    <2> HIDE DEF newer
    <2> QED
      BY <1>2, <1>3, FS_Subset, FS_CardinalityType
  <1>6. Cardinality(newer) >= Limit
    <2> HIDE DEF newer
    <2> QED
      BY <1>2, <1>4, <1>5, ChatsAreChats
  <1> QED
    BY <1>6 DEF Superseded

(* A new message leaves the earlier ones what they were.                   *)
LEMMA LogGrows ==
    ASSUME log \in Seq(Chats), NEW c \in Chats, log' = Append(log, c)
    PROVE  /\ log' \in Seq(Chats)
           /\ Messages' = Messages \union {Len(log) + 1}
           /\ \A d : Of(d)' \intersect Messages = Of(d)
           /\ \A d, n : Superseded(n, d) => Superseded(n, d)'
  <1>1. /\ log' \in Seq(Chats) /\ Len(log') = Len(log) + 1 /\ Len(log) \in Nat
        /\ \A i \in 1..Len(log) : log'[i] = log[i]
    OBVIOUS
  <1>2. Messages' = Messages \union {Len(log) + 1}
    BY <1>1 DEF Messages
  <1>3. \A d : Of(d)' \intersect Messages = Of(d)
    BY <1>1, <1>2 DEF Of, Messages
  <1>4. ASSUME NEW d, NEW n, Superseded(n, d) PROVE Superseded(n, d)'
    <2> DEFINE before == {m \in Of(d) : m > n}
    <2>1. PICK after : after = {m \in Of(d) : m > n}'
      OBVIOUS
    <2>2. before \subseteq after
      BY <1>3, <2>1
    <2>3. Of(d) \in SUBSET Messages /\ Of(d)' \in SUBSET Messages'
      BY DEF Of
    <2>4. Cardinality(before) \in Nat
      BY <2>3, NewerFinite
    <2>5. IsFiniteSet(1..Len(log'))
      BY <1>1, FS_Interval
    <2>6. after \subseteq 1..Len(log')
      BY <2>1, <2>3 DEF Messages
    <2>7. IsFiniteSet(after)
      BY <2>5, <2>6, FS_Subset
    <2>8. Cardinality(after) \in Nat /\ Cardinality(before) <= Cardinality(after)
      BY <2>2, <2>7, FS_Subset, FS_CardinalityType
    <2>9. Cardinality(before) >= Limit
      BY <1>4 DEF Superseded
    <2>10. Cardinality(after) >= Limit
      BY <2>4, <2>8, <2>9, ChatsAreChats
    <2> QED
      BY <2>1, <2>10 DEF Superseded
  <1> QED
    BY <1>1, <1>2, <1>3, <1>4

(* What holds of the log when no message arrives.                          *)
LEMMA SameLog ==
    ASSUME UNCHANGED log
    PROVE  /\ Messages' = Messages /\ View' = View /\ Load' = Load /\ Older' = Older
           /\ \A c : Of(c)' = Of(c)
           /\ \A n, c : Superseded(n, c)' <=> Superseded(n, c)
  <1>1. Messages' = Messages
    BY DEF Messages
  <1>2. \A c : Of(c)' = Of(c)
    BY DEF Messages, Of
  <1>3. \A n, c : Superseded(n, c)' <=> Superseded(n, c)
    BY <1>2 DEF Superseded
  <1> QED
    BY <1>1, <1>2, <1>3 DEF View, Load, Older

(* The parts of the invariant, as facts.                                   *)
LEMMA ThreadFacts ==
    ASSUME ThreadTypeOK
    PROVE  /\ request \in Nat /\ Len(loads) = request /\ DOMAIN loads = 1..request
           /\ \A i \in 1..request : /\ loads[i] \in Load /\ loads[i].chat \in Chats
                                    /\ loads[i].list \in SUBSET Messages
           /\ \A j \in 1..Len(older) : /\ older[j] \in Older /\ older[j].chat \in Chats
                                       /\ older[j].base \in SUBSET Messages
           /\ Len(older) \in Nat
           /\ view \in View /\ rendered \in View
           /\ view.msgs \in SUBSET Messages /\ view.chat \in Chats \union {NoChat}
           /\ rendered.msgs \in SUBSET Messages /\ rendered.chat \in Chats \union {NoChat}
           /\ Of(NoChat) = {}
  <1>1. request \in Nat /\ Len(loads) = request /\ DOMAIN loads = 1..request
    BY DEF ThreadTypeOK
  <1>2. \A i \in 1..request : loads[i] \in Load
    BY <1>1 DEF ThreadTypeOK
  <1>3. \A j \in 1..Len(older) : older[j] \in Older
    BY DEF ThreadTypeOK
  <1>4. Of(NoChat) = {}
    BY ChatsAreChats DEF ThreadTypeOK, Of, Messages
  <1>5. /\ Len(older) \in Nat /\ view \in View /\ rendered \in View
    BY DEF ThreadTypeOK
  <1>6. \A i \in 1..request : loads[i].chat \in Chats /\ loads[i].list \in SUBSET Messages
    BY <1>2 DEF Load
  <1>7. \A j \in 1..Len(older) : older[j].chat \in Chats /\ older[j].base \in SUBSET Messages
    BY <1>3 DEF Older
  <1>8. /\ view.msgs \in SUBSET Messages /\ view.chat \in Chats \union {NoChat}
        /\ rendered.msgs \in SUBSET Messages /\ rendered.chat \in Chats \union {NoChat}
    BY <1>5 DEF View
  <1> QED
    BY <1>1, <1>2, <1>3, <1>4, <1>5, <1>6, <1>7, <1>8

(* When the shell mounts, each cached list is of one chat.                 *)
LEMMA ThreadInitInv == ThreadInit => ThreadInv
  <1> SUFFICES ASSUME ThreadInit PROVE ThreadInv
    OBVIOUS
  <1>1. /\ wire = {} /\ request = 0 /\ loads = <<>> /\ older = <<>> /\ applied = {}
        /\ aged = {}
        /\ view.chat = NoChat /\ boot = NoChat /\ shell = "closed" /\ overlapped = FALSE
        /\ view = NoThread /\ rendered = NoThread
    BY DEF ThreadInit, NoThread
  <1>2. log \in Seq(Chats)
    BY DEF ThreadInit
  <1>3. \A c \in Chats : cache[c] \subseteq Of(c)
    BY DEF ThreadInit, LastOf
  <1>4. cache \in [Chats -> SUBSET Messages]
    BY DEF ThreadInit, LastOf, Of
  <1>5. NoThread \in View
    BY DEF NoThread, View
  <1>6. ThreadTypeOK
    <2>1. loads \in Seq(Load) /\ Len(loads) = 0 /\ older \in Seq(Older) /\ Len(older) = 0
      BY <1>1
    <2>2. wire \subseteq Messages /\ applied \subseteq Messages /\ aged \subseteq Messages
      BY <1>1
    <2>3. 0 <= MaxLoads /\ 0 <= MaxOlder
      BY ChatsAreChats
    <2> QED
      BY <1>1, <1>2, <1>4, <1>5, <2>1, <2>2, <2>3 DEF ThreadTypeOK
  <1>7. LoadInv /\ OlderInv /\ EnoughInv
    BY <1>1, <1>3 DEF LoadInv, OlderInv, EnoughInv, CacheOfOneChat
  <1> QED
    BY <1>6, <1>7 DEF ThreadInv

(* A message arrives: it has not been applied, and what was true of the    *)
(* earlier ones stays true.                                                *)
LEMMA ArriveStep ==
    ASSUME ThreadInv, NEW c \in Chats, Arrive(c)
    PROVE  ThreadInv'
  <1>1. /\ log \in Seq(Chats) /\ log' = Append(log, c) /\ ThreadTypeOK
        /\ UNCHANGED <<cache, shell, boot, request, loads, older, view, rendered,
                       applied, aged, overlapped>>
        /\ wire' \subseteq wire \union {Len(log) + 1}
    BY DEF ThreadInv, ThreadTypeOK, Arrive
  <1>2. /\ log' \in Seq(Chats)
        /\ Messages' = Messages \union {Len(log) + 1}
        /\ \A d : Of(d)' \intersect Messages = Of(d)
        /\ \A d, n : Superseded(n, d) => Superseded(n, d)'
    BY <1>1, LogGrows
  <1>3. ThreadTypeOK'
    <2>1. View \subseteq View' /\ Load \subseteq Load' /\ Older \subseteq Older'
      BY <1>2 DEF View, Load, Older
    <2>2. loads \in Seq(Load') /\ older \in Seq(Older')
      BY <1>1, <2>1 DEF ThreadTypeOK
    <2>3. cache \in [Chats -> SUBSET Messages']
      BY <1>1, <1>2 DEF ThreadTypeOK
    <2> QED
      BY <1>1, <1>2, <2>1, <2>2, <2>3 DEF ThreadTypeOK
  <1>4. \A d : Of(d) \subseteq Of(d)'
    BY <1>2
  <1>5. \A S, d : Enough(S, d) => Enough(S, d)'
    BY <1>1, <1>2 DEF Enough, ThreadTypeOK
  <1> HIDE DEF Enough
  <1>6. ASSUME ~overlapped PROVE LoadInv' /\ OlderInv' /\ EnoughInv'
    <2>1. LoadInv /\ OlderInv /\ EnoughInv
      BY <1>6 DEF ThreadInv
    <2>2. LoadInv'
      BY <1>1, <1>4, <2>1, ThreadFacts DEF LoadInv, CacheOfOneChat
    <2>3. OlderInv'
      BY <1>1, <1>4, <2>1 DEF OlderInv
    <2>4. EnoughInv'
      BY <1>1, <1>5, <2>1 DEF EnoughInv
    <2> QED
      BY <2>2, <2>3, <2>4
  <1> QED
    BY <1>1, <1>3, <1>6 DEF ThreadInv

(* Nothing moves but what the render shows, what the shell has heard, or   *)
(* an event for another chat.                                              *)
LEMMA QuietStep ==
    ASSUME ThreadInv, ThreadTypeOK',
           UNCHANGED <<log, cache, request, loads, older, view, applied, aged, overlapped>>
    PROVE  ThreadInv'
  <1>1. \A S, c : Enough(S, c)' <=> Enough(S, c)
    BY SameLog DEF Enough
  <1>2. ASSUME ~overlapped PROVE LoadInv' /\ OlderInv' /\ EnoughInv'
    <2>1. LoadInv /\ OlderInv /\ EnoughInv
      BY <1>2 DEF ThreadInv
    <2> QED
      BY <1>1, <2>1, SameLog DEF LoadInv, OlderInv, EnoughInv, CacheOfOneChat
  <1> QED
    BY <1>2 DEF ThreadInv

(* A new load takes the place of the last one: what has been asked for     *)
(* before it is out of date.                                               *)
LEMMA StartStep ==
    ASSUME ThreadInv, NEW c \in Chats, StartLoad(c, view),
           UNCHANGED <<log, wire, cache, older, rendered, applied, aged, overlapped>>,
           shell' \in {"closed", "asking", "ready", "failed"}, boot' \in Chats \union {NoChat}
    PROVE  ThreadInv'
  <1> DEFINE load == [pc |-> "cache", chat |-> c, list |-> cache[c]]
  <1>1. /\ ThreadTypeOK /\ request \in Nat /\ request < MaxLoads
        /\ request' = request + 1 /\ loads' = Append(loads, load)
        /\ view' = [view EXCEPT !.chat = c] /\ view \in View
        /\ Len(loads) = request /\ loads \in Seq(Load)
        /\ cache \in [Chats -> SUBSET Messages]
    BY ThreadFacts DEF ThreadInv, StartLoad, ThreadTypeOK
  <1>2. load \in Load
    BY <1>1 DEF Load
  <1>3. /\ loads' \in Seq(Load) /\ Len(loads') = request'
        /\ loads'[request'] = load
        /\ \A i \in 1..request : loads'[i] = loads[i]
    BY <1>1, <1>2
  <1>4. view' \in View /\ view'.chat = c
    BY <1>1 DEF View
  <1>5. ThreadTypeOK'
    BY <1>1, <1>3, <1>4, SameLog, ChatsAreChats DEF ThreadTypeOK
  <1>6. 1..request' = 1..request \union {request'} /\ request' \notin 1..request
    BY <1>1
  <1>7. load.pc = "cache" /\ load.chat = c /\ load.list = cache[c]
    OBVIOUS
  <1> HIDE DEF load
  <1>8. ASSUME ~overlapped PROVE LoadInv' /\ OlderInv' /\ EnoughInv'
    <2>1. LoadInv /\ OlderInv
      BY <1>8 DEF ThreadInv
    <2>2. LoadInv'
      BY <1>1, <1>3, <1>4, <1>6, <1>7, <2>1, SameLog DEF LoadInv, CacheOfOneChat
    <2>3. OlderInv'
      BY <1>1, <1>3, <1>6, <2>1, SameLog DEF OlderInv
    <2>4. EnoughInv'
      BY <1>3, <1>7 DEF EnoughInv
    <2> QED
      BY <2>2, <2>3, <2>4
  <1> QED
    BY <1>5, <1>8 DEF ThreadInv

(* What a load leaves when it goes on.                                     *)
LEMMA AwaitEffect ==
    ASSUME ThreadTypeOK, NEW i \in 1..request, NEW list \in SUBSET Messages,
           NEW what \in {"cache", "server", "answered", "done", "failed"},
           Await(i, what, list)
    PROVE  /\ loads' \in Seq(Load) /\ Len(loads') = Len(loads)
           /\ loads'[i].pc = what /\ loads'[i].list = list
           /\ \A k \in 1..request : loads'[k].chat = loads[k].chat
           /\ \A k \in 1..request : k # i => loads'[k] = loads[k]
  <1> DEFINE next == [loads[i] EXCEPT !.pc = what, !.list = list]
  <1>1. loads \in Seq(Load) /\ i \in 1..Len(loads) /\ Len(loads) = request
    BY DEF ThreadTypeOK
  <1>2. loads[i] \in Load
    BY <1>1
  <1>3. /\ next \in Load /\ next.pc = what /\ next.list = list
        /\ next.chat = loads[i].chat
    BY <1>2 DEF Load
  <1>4. loads' = [loads EXCEPT ![i] = next]
    BY <1>1 DEF Await
  <1> HIDE DEF next
  <1> QED
    BY <1>1, <1>3, <1>4, ExceptSeq

(* A load that another has overtaken changes nothing but itself.           *)
LEMMA OvertakenStep ==
    ASSUME ThreadInv, NEW i \in 1..request, i # request,
           NEW what \in {"cache", "server", "answered", "done", "failed"},
           NEW list \in SUBSET Messages, list \subseteq Of(loads[i].chat),
           Await(i, what, list),
           UNCHANGED <<log, wire, cache, shell, boot, request, older, view,
                       rendered, applied, aged, overlapped>>
    PROVE  ThreadInv'
  <1>1. ThreadTypeOK /\ request \in 1..request
    BY ThreadFacts DEF ThreadInv
  <1>2. /\ loads' \in Seq(Load) /\ Len(loads') = Len(loads)
        /\ loads'[i].list = list
        /\ \A k \in 1..request : loads'[k].chat = loads[k].chat
        /\ \A k \in 1..request : k # i => loads'[k] = loads[k]
    BY <1>1, AwaitEffect
  <1>3. ThreadTypeOK'
    BY <1>1, <1>2, SameLog DEF ThreadTypeOK
  <1>4. \A S, c : Enough(S, c)' <=> Enough(S, c)
    BY SameLog DEF Enough
  <1>5. ASSUME ~overlapped PROVE LoadInv' /\ OlderInv' /\ EnoughInv'
    <2>1. LoadInv /\ OlderInv /\ EnoughInv
      BY <1>5 DEF ThreadInv
    <2>2. loads'[request] = loads[request]
      BY <1>1, <1>2
    <2>3. LoadInv'
      BY <1>2, <2>1, <2>2, SameLog DEF LoadInv, CacheOfOneChat
    <2>4. OlderInv'
      BY <1>2, <2>1, <2>2, SameLog DEF OlderInv
    <2>5. EnoughInv'
      BY <1>4, <2>1, <2>2 DEF EnoughInv
    <2> QED
      BY <2>3, <2>4, <2>5
  <1> QED
    BY <1>3, <1>5 DEF ThreadInv

(* What saving a list of one chat leaves in the cache.                     *)
LEMMA SaveEffect ==
    ASSUME ThreadTypeOK, UNCHANGED log, NEW c \in Chats, NEW S \in SUBSET Messages, Save(c, S)
    PROVE  /\ cache' \in [Chats -> SUBSET Messages]
           /\ CacheOfOneChat /\ S \subseteq Of(c) => CacheOfOneChat'
  <1>1. cache \in [Chats -> SUBSET Messages] /\ cache' \in {cache, [cache EXCEPT ![c] = S]}
    BY DEF ThreadTypeOK, Save
  <1> QED
    BY <1>1, SameLog DEF CacheOfOneChat

(* The last load goes on: it puts its chat's messages on the screen, and   *)
(* nobody has asked for older ones in the meantime.                        *)
LEMMA LastLoadStep ==
    ASSUME ThreadInv, request > 0,
           NEW what \in {"server", "answered", "done", "failed"},
           NEW list \in SUBSET Messages, list \subseteq Of(loads[request].chat),
           Await(request, what, list),
           loads[request].pc \in {"cache", "server", "answered"},
           UNCHANGED <<log, wire, shell, boot, request, older, rendered, applied, overlapped>>,
           aged' \subseteq Messages, UNCHANGED aged \/ what = "answered",
           cache' \in [Chats -> SUBSET Messages],
           ~overlapped /\ CacheOfOneChat => CacheOfOneChat',
           view' \in View, view'.chat = view.chat,
           \/ view'.msgs = view.msgs /\ loads[request].pc # "cache"
           \/ view'.msgs = loads[request].list,
           what = "answered" => Enough(list, loads[request].chat)',
           what = "done" => view'.msgs = loads[request].list /\ loads[request].pc = "answered"
    PROVE  ThreadInv'
  <1>1. /\ ThreadTypeOK /\ request \in 1..request /\ view.chat \in Chats \union {NoChat}
        /\ Of(NoChat) = {}
    BY ThreadFacts DEF ThreadInv
  <1>2. /\ loads' \in Seq(Load) /\ Len(loads') = Len(loads)
        /\ loads'[request].pc = what /\ loads'[request].list = list
        /\ \A k \in 1..request : loads'[k].chat = loads[k].chat
        /\ \A k \in 1..request : k # request => loads'[k] = loads[k]
    BY <1>1, AwaitEffect
  <1>3. ThreadTypeOK'
    BY <1>1, <1>2, SameLog DEF ThreadTypeOK
  <1>4. what # "answered" => \A S, c : Enough(S, c)' <=> Enough(S, c)
    BY SameLog DEF Enough
  <1>5. ASSUME ~overlapped PROVE LoadInv' /\ OlderInv' /\ EnoughInv'
    <2>1. LoadInv /\ OlderInv /\ EnoughInv
      BY <1>5 DEF ThreadInv
    <2>2. view.chat # NoChat => view'.msgs \subseteq Of(view.chat)
      BY <1>1, <2>1 DEF LoadInv
    <2>3. LoadInv'
      BY <1>1, <1>2, <1>5, <2>1, <2>2, SameLog DEF LoadInv
    <2>4. \A j \in 1..Len(older) : older[j].pc = "server" => older[j].from # request
      BY <2>1 DEF OlderInv
    <2>5. OlderInv'
      BY <1>2, <2>1, <2>4, SameLog DEF OlderInv
    <2>6. what = "done" => Enough(view'.msgs, view.chat)
      <3>1. CASE view.chat = NoChat
        BY <1>1, <3>1 DEF Enough
      <3>2. CASE view.chat # NoChat
        BY <1>1, <2>1, <3>2 DEF LoadInv, EnoughInv
      <3> QED
        BY <3>1, <3>2
    <2>7. EnoughInv'
      <3>1. CASE what = "answered"
        <4>1. Enough(loads[request].list, loads[request].chat)'
          BY <1>1, <1>2, <3>1
        <4> QED
          BY <1>1, <1>2, <2>4, <3>1, <4>1 DEF EnoughInv
      <3>2. CASE what # "answered"
        BY <1>1, <1>2, <1>4, <2>4, <2>6, <3>2 DEF EnoughInv
      <3> QED
        BY <3>1, <3>2
    <2> QED
      BY <2>3, <2>5, <2>7
  <1> QED
    BY <1>3, <1>5 DEF ThreadInv

(* Answers, replies and failures of a load.                                *)
LEMMA LoadStep ==
    ASSUME ThreadInv, NEW i \in 1..request,
           CacheReturns(i) \/ CacheFails(i) \/ Answer(i) \/ Loaded(i) \/ LoadFails(i)
    PROVE  ThreadInv'
  <1>1. /\ ThreadTypeOK /\ request \in Nat /\ request > 0
        /\ loads[i].chat \in Chats /\ loads[i].list \in SUBSET Messages
        /\ view \in View /\ {} \in SUBSET Messages
        /\ cache \in [Chats -> SUBSET Messages] /\ aged \subseteq Messages
    BY ThreadFacts DEF ThreadInv, ThreadTypeOK
  <1>2. /\ UNCHANGED log
        /\ UNCHANGED <<wire, shell, boot, request, older, rendered, applied>>
    BY DEF CacheReturns, CacheFails, Answer, Loaded, LoadFails
  <1>3. UNCHANGED cache => (CacheOfOneChat => CacheOfOneChat')
    BY <1>2, SameLog DEF CacheOfOneChat
  <1>4. ASSUME NEW S \in SUBSET Messages
        PROVE  /\ Showing(S) \in View /\ Showing(S).msgs = S /\ Showing(S).chat = view.chat
               /\ [Showing(S) EXCEPT !.busy = FALSE] \in View
               /\ [Showing(S) EXCEPT !.busy = FALSE].msgs = S
               /\ [Showing(S) EXCEPT !.busy = FALSE].chat = view.chat
    <2> DEFINE more == Cardinality(S) >= Limit
    <2>1. more \in BOOLEAN
      OBVIOUS
    <2>2. Showing(S) = [view EXCEPT !.msgs = S, !.more = more]
      BY DEF Showing
    <2> HIDE DEF more
    <2>3. /\ Showing(S) \in View /\ Showing(S).msgs = S /\ Showing(S).chat = view.chat
      BY <1>1, <2>1, <2>2 DEF View
    <2> QED
      BY <2>3 DEF View
  <1>5. CASE CacheReturns(i)
    <2>1. CASE i = request
      <3>1. /\ loads[i].pc = "cache" /\ Await(request, "server", {})
            /\ view' = [Showing(loads[i].list) EXCEPT !.busy = FALSE]
            /\ UNCHANGED <<cache, aged, overlapped>>
        BY <1>5, <2>1 DEF CacheReturns
      <3>2. /\ view' \in View /\ view'.chat = view.chat /\ view'.msgs = loads[request].list
        BY <1>1, <1>4, <2>1, <3>1
      <3> QED
        BY <1>1, <1>2, <1>3, <2>1, <3>1, <3>2, LastLoadStep
    <2>2. CASE i # request
      <3>1. Await(i, "done", {}) /\ UNCHANGED <<cache, view, aged, overlapped>>
        BY <1>5, <2>2 DEF CacheReturns
      <3> QED
        BY <1>1, <1>2, <2>2, <3>1, OvertakenStep
    <2> QED
      BY <2>1, <2>2
  <1>6. CASE CacheFails(i)
    <2>1. /\ loads[i].pc = "cache" /\ Await(i, "failed", {})
          /\ UNCHANGED <<cache, view, aged>>
          /\ overlapped' = (overlapped \/ i = request)
      BY <1>6 DEF CacheFails, Note
    <2>2. CASE i = request
      <3>1. /\ loads' \in Seq(Load) /\ Len(loads') = Len(loads)
        BY <1>1, <2>1, AwaitEffect
      <3>2. ThreadTypeOK'
        BY <1>1, <1>2, <2>1, <3>1, SameLog DEF ThreadTypeOK
      <3> QED
        BY <2>1, <2>2, <3>2 DEF ThreadInv
    <2>3. CASE i # request
      <3>1. UNCHANGED overlapped
        BY <1>1, <2>1, <2>3 DEF ThreadTypeOK
      <3> QED
        BY <1>1, <1>2, <2>1, <2>3, <3>1, OvertakenStep
    <2> QED
      BY <2>2, <2>3
  <1>7. CASE Answer(i)
    <2>1. PICK n \in 0..Len(log) :
              /\ Await(i, "answered", ListAt(loads[i].chat, n))
              /\ aged' = IF i = request THEN {m \in applied : m > n} ELSE aged
      BY <1>7 DEF Answer
    <2>2. loads[i].pc = "server" /\ UNCHANGED <<cache, view, overlapped>>
      BY <1>7 DEF Answer
    <2>3. PICK c : c = loads[i].chat
      OBVIOUS
    <2>4. PICK page : page = ListAt(c, n)
      OBVIOUS
    <2>5. page \subseteq Of(c) /\ page \in SUBSET Messages
      BY <2>4 DEF ListAt, LastOf, Of
    <2>6. CASE i = request
      <3>1. log \in Seq(Chats) /\ applied \subseteq Messages
        BY <1>1 DEF ThreadTypeOK
      <3>2. aged' = {m \in applied : m > n} /\ aged' \subseteq Messages
        BY <2>1, <2>6, <3>1
      <3>3. ASSUME NEW m \in (applied \intersect Of(c)) \ aged'
            PROVE  m \in page \/ Superseded(m, c)
        <4>1. m <= n
          BY <3>1, <3>2, <3>3 DEF Messages
        <4> QED
          BY <2>4, <3>1, <4>1, LastPage
      <3>4. Enough(page, c)'
        BY <1>2, <3>3, SameLog DEF Enough
      <3>5. Enough(page, loads[request].chat)'
        <4>1. loads'[request'].chat = c
          BY <1>1, <1>2, <2>1, <2>3, <2>4, <2>5, <2>6, AwaitEffect
        <4> QED
          BY <3>4, <4>1
      <3> QED
        BY <1>1, <1>2, <1>3, <2>1, <2>2, <2>3, <2>4, <2>5, <2>6, <3>2, <3>5, LastLoadStep
    <2>7. CASE i # request
      BY <1>1, <1>2, <2>1, <2>2, <2>3, <2>4, <2>5, <2>7, OvertakenStep
    <2> QED
      BY <2>6, <2>7
  <1>8. CASE Loaded(i)
    <2>1. CASE i = request
      <3>1. /\ loads[i].pc = "answered" /\ Await(request, "done", {})
            /\ view' = Showing(loads[i].list) /\ Save(loads[i].chat, loads[i].list)
            /\ UNCHANGED <<aged, overlapped>>
        BY <1>8, <2>1 DEF Loaded
      <3>2. /\ view' \in View /\ view'.chat = view.chat /\ view'.msgs = loads[request].list
        BY <1>1, <1>4, <2>1, <3>1
      <3>3. /\ cache' \in [Chats -> SUBSET Messages]
            /\ CacheOfOneChat /\ loads[i].list \subseteq Of(loads[i].chat) => CacheOfOneChat'
        BY <1>1, <1>2, <3>1, SaveEffect
      <3>4. ~overlapped => loads[i].list \subseteq Of(loads[i].chat)
        BY DEF ThreadInv, LoadInv
      <3> QED
        BY <1>1, <1>2, <2>1, <3>1, <3>2, <3>3, <3>4, LastLoadStep
    <2>2. CASE i # request
      <3>1. Await(i, "done", {}) /\ UNCHANGED <<cache, view, aged, overlapped>>
        BY <1>8, <2>2 DEF Loaded
      <3> QED
        BY <1>1, <1>2, <2>2, <3>1, OvertakenStep
    <2> QED
      BY <2>1, <2>2
  <1>9. CASE LoadFails(i)
    <2>1. /\ loads[i].pc \in {"server", "answered"} /\ Await(i, "failed", {})
          /\ UNCHANGED <<cache, view, aged, overlapped>>
      BY <1>9 DEF LoadFails
    <2>2. CASE i = request
      BY <1>1, <1>2, <1>3, <2>1, <2>2, LastLoadStep
    <2>3. CASE i # request
      BY <1>1, <1>2, <2>1, <2>3, OvertakenStep
    <2> QED
      BY <2>2, <2>3
  <1> QED
    BY <1>5, <1>6, <1>7, <1>8, <1>9

(* A page of older messages is asked for: what is on the screen is kept to *)
(* be merged with it.                                                      *)
LEMMA StartOlderStep == ASSUME ThreadInv, StartOlder PROVE ThreadInv'
  <1> DEFINE call == [pc |-> "server", chat |-> rendered.chat, base |-> rendered.msgs,
                      from |-> request]
  <1>1. /\ ThreadTypeOK /\ request \in Nat /\ request <= MaxLoads /\ view \in View
        /\ rendered.chat \in Chats /\ rendered.msgs \in SUBSET Messages
        /\ older \in Seq(Older) /\ Len(older) < MaxOlder
        /\ older' = Append(older, call) /\ view' = [view EXCEPT !.busy = TRUE]
        /\ overlapped' = (overlapped \/ InLoad \/ Lagging)
        /\ UNCHANGED log
        /\ UNCHANGED <<wire, cache, shell, boot, request, loads, rendered, applied, aged>>
    BY ThreadFacts DEF ThreadInv, ThreadTypeOK, StartOlder, Note
  <1>2. /\ call \in Older /\ call.chat = rendered.chat /\ call.base = rendered.msgs
        /\ call.from = request /\ call.pc = "server"
    BY <1>1, ChatsAreChats DEF Older
  <1> HIDE DEF call
  <1>3. PICK k : k = Len(older) + 1
    OBVIOUS
  <1>4. /\ older' \in Seq(Older) /\ Len(older') = k /\ older'[k] = call
        /\ 1..Len(older') = 1..Len(older) \union {k}
        /\ \A j \in 1..Len(older) : older'[j] = older[j]
    BY <1>1, <1>2, <1>3
  <1>5. view' \in View /\ view'.chat = view.chat /\ view'.msgs = view.msgs
    BY <1>1 DEF View
  <1>6. ThreadTypeOK'
    BY <1>1, <1>3, <1>4, <1>5, SameLog, ChatsAreChats DEF ThreadTypeOK, InLoad, Lagging
  <1>7. \A S, c : Enough(S, c)' <=> Enough(S, c)
    BY <1>1, SameLog DEF Enough
  <1>8. ASSUME ~overlapped' PROVE LoadInv' /\ OlderInv' /\ EnoughInv'
    <2>1. LoadInv /\ OlderInv /\ EnoughInv /\ ~InLoad /\ ~Lagging
      BY <1>1, <1>8 DEF ThreadInv
    <2>2. view.chat = rendered.chat /\ view.msgs = rendered.msgs /\ view.chat # NoChat
      BY <1>1, <2>1, ChatsAreChats DEF Lagging
    <2>3. request \in 1..request /\ loads[request].chat = view.chat
      BY <1>1, <2>1, <2>2 DEF LoadInv
    <2>4. loads[request].pc \in {"done", "failed"}
      BY <1>1, <2>1, <2>3, ThreadFacts DEF InLoad, Load
    <2>5. call.base \subseteq Of(call.chat)
      BY <1>2, <2>1, <2>2, <2>4 DEF LoadInv
    <2>6. loads[request].pc = "done" => Enough(call.base, call.chat)
      BY <1>2, <2>1, <2>2, <2>3 DEF EnoughInv
    <2>7. LoadInv'
      BY <1>1, <1>5, <2>1, SameLog DEF LoadInv, CacheOfOneChat
    <2>8. OlderInv'
      BY <1>1, <1>2, <1>4, <2>1, <2>2, <2>3, <2>4, <2>5, SameLog DEF OlderInv
    <2>9. EnoughInv'
      BY <1>1, <1>4, <1>5, <1>7, <2>1, <2>6 DEF EnoughInv
    <2> QED
      BY <2>7, <2>8, <2>9
  <1> QED
    BY <1>6, <1>8 DEF ThreadInv

(* What a call for older messages leaves when it ends.                     *)
LEMMA OlderEffect ==
    ASSUME ThreadTypeOK, NEW j \in 1..Len(older)
    PROVE  older' = [older EXCEPT ![j].pc = "done", ![j].base = {}] =>
               /\ older' \in Seq(Older) /\ Len(older') = Len(older)
               /\ older'[j].pc = "done"
               /\ \A k \in 1..Len(older) : k # j => older'[k] = older[k]
  <1> DEFINE next == [older[j] EXCEPT !.pc = "done", !.base = {}]
  <1>1. older \in Seq(Older)
    BY DEF ThreadTypeOK
  <1>2. older[j] \in Older
    BY <1>1
  <1>3. next \in Older /\ next.pc = "done"
    BY <1>2 DEF Older
  <1>4. older' = [older EXCEPT ![j].pc = "done", ![j].base = {}] =>
            older' = [older EXCEPT ![j] = next]
    BY <1>1
  <1> HIDE DEF next
  <1>5. ASSUME older' = [older EXCEPT ![j] = next]
        PROVE  /\ older' \in Seq(Older) /\ Len(older') = Len(older)
               /\ older'[j].pc = "done"
               /\ \A k \in 1..Len(older) : k # j => older'[k] = older[k]
    BY <1>1, <1>3, <1>5, ExceptSeq
  <1> QED
    BY <1>4, <1>5

(* A page of older messages is merged into what was on the screen, which   *)
(* is there still when no load has started.                                *)
LEMMA OlderStep ==
    ASSUME ThreadInv, NEW j \in 1..Len(older), OlderLoaded(j) \/ OlderFails(j)
    PROVE  ThreadInv'
  <1>1. /\ ThreadTypeOK /\ request \in Nat /\ view \in View
        /\ older[j].chat \in Chats /\ older[j].base \in SUBSET Messages
        /\ Of(NoChat) = {}
        /\ cache \in [Chats -> SUBSET Messages] /\ overlapped \in BOOLEAN
    BY ThreadFacts DEF ThreadInv, ThreadTypeOK
  <1>2. /\ older[j].pc = "server" /\ UNCHANGED log
        /\ UNCHANGED <<wire, shell, boot, request, loads, rendered, applied, aged>>
        /\ older' = [older EXCEPT ![j].pc = "done", ![j].base = {}]
    BY DEF OlderLoaded, OlderFails
  <1>3. /\ older' \in Seq(Older) /\ Len(older') = Len(older)
        /\ older'[j].pc = "done"
        /\ \A k \in 1..Len(older) : k # j => older'[k] = older[k]
    BY <1>1, <1>2, OlderEffect
  <1>4. \A S, c : Enough(S, c)' <=> Enough(S, c)
    BY <1>2, SameLog DEF Enough
  <1>5. ASSUME view' \in View, cache' \in [Chats -> SUBSET Messages], overlapped' \in BOOLEAN
        PROVE  ThreadTypeOK'
    BY <1>1, <1>2, <1>3, <1>5, SameLog DEF ThreadTypeOK
  <1>6. OlderInv => OlderInv'
    BY <1>2, <1>3, SameLog DEF OlderInv
  <1>7. EnoughInv => \A k \in 1..Len(older') :
            /\ older'[k].pc = "server" /\ older'[k].from = request'
            /\ loads'[request'].pc = "done"
            => Enough(older[k].base, older[k].chat)'
    BY <1>2, <1>3, <1>4 DEF EnoughInv
  <1>8. CASE OlderFails(j)
    <2>1. view' = [view EXCEPT !.busy = FALSE] /\ UNCHANGED <<cache, overlapped>>
      BY <1>8 DEF OlderFails
    <2>2. view' \in View /\ view'.chat = view.chat /\ view'.msgs = view.msgs
      BY <1>1, <2>1 DEF View
    <2>3. LoadInv => LoadInv'
      BY <1>2, <2>1, <2>2, SameLog DEF LoadInv, CacheOfOneChat
    <2>4. EnoughInv => EnoughInv'
      BY <1>2, <1>4, <1>7, <2>2 DEF EnoughInv
    <2> QED
      BY <1>1, <1>5, <1>6, <2>1, <2>2, <2>3, <2>4 DEF ThreadInv
  <1>9. CASE OlderLoaded(j)
    <2> DEFINE page == OlderPage(older[j])
               merged == older[j].base \union page
    <2>1. /\ view' = [view EXCEPT !.msgs = merged, !.more = Cardinality(page) >= Page,
                                  !.busy = FALSE]
          /\ Save(older[j].chat, merged)
          /\ overlapped' = (overlapped \/ older[j].from # request)
      BY <1>9 DEF OlderLoaded, Note
    <2>2. page \subseteq Of(older[j].chat) /\ merged \in SUBSET Messages
      BY <1>1 DEF OlderPage, LastOf, Of
    <2>3. older[j].base \subseteq merged
      OBVIOUS
    <2>4. older[j].base \subseteq Of(older[j].chat) => merged \subseteq Of(older[j].chat)
      BY <2>2
    <2> HIDE DEF page, merged
    <2>5. view' \in View /\ view'.chat = view.chat /\ view'.msgs = merged
      <3> DEFINE more == Cardinality(page) >= Page
      <3>1. more \in BOOLEAN
        OBVIOUS
      <3>2. view' = [view EXCEPT !.msgs = merged, !.more = more, !.busy = FALSE]
        BY <2>1
      <3> HIDE DEF more
      <3> QED
        BY <1>1, <2>2, <3>1, <3>2 DEF View
    <2>6. /\ cache' \in [Chats -> SUBSET Messages]
          /\ CacheOfOneChat /\ merged \subseteq Of(older[j].chat) => CacheOfOneChat'
      BY <1>1, <1>2, <2>1, <2>2, SaveEffect
    <2>7. overlapped' \in BOOLEAN
      BY <1>1, <2>1
    <2>8. ASSUME ~overlapped' PROVE LoadInv' /\ OlderInv' /\ EnoughInv'
      <3>1. LoadInv /\ OlderInv /\ EnoughInv /\ older[j].from = request
        BY <2>1, <2>8 DEF ThreadInv
      <3>2. /\ merged \subseteq Of(older[j].chat) /\ request \in 1..request
            /\ older[j].chat = loads[request].chat
        BY <1>2, <2>4, <3>1 DEF OlderInv
      <3>3. view.chat # NoChat => view.chat = older[j].chat
        BY <3>1, <3>2 DEF LoadInv
      <3>4. LoadInv'
        BY <1>2, <2>5, <2>6, <3>1, <3>2, <3>3, SameLog DEF LoadInv
      <3>5. loads[request].pc \in {"done", "failed"}
        BY <1>2, <3>1 DEF OlderInv
      <3>6. loads[request].pc = "done" => Enough(merged, view.chat)
        <4>1. loads[request].pc = "done" => Enough(older[j].base, older[j].chat)
          BY <1>2, <3>1 DEF EnoughInv
        <4>2. CASE view.chat = NoChat
          BY <1>1, <4>2 DEF Enough
        <4>3. CASE view.chat # NoChat
          BY <2>3, <3>3, <4>1, <4>3 DEF Enough
        <4> QED
          BY <4>2, <4>3
      <3>7. EnoughInv'
        BY <1>2, <1>4, <1>7, <2>5, <3>1, <3>5, <3>6 DEF EnoughInv
      <3> QED
        BY <1>6, <3>1, <3>4, <3>7
    <2> QED
      BY <1>5, <2>5, <2>6, <2>7, <2>8 DEF ThreadInv
  <1> QED
    BY <1>8, <1>9

(* An event is merged into what the last render showed: all of it, when    *)
(* nothing has come since.                                                 *)
LEMMA IncomingStep == ASSUME ThreadInv, ApplyIncoming PROVE ThreadInv'
  <1>1. PICK n \in wire :
            /\ wire' = wire \ {n}
            /\ IF log[n] = rendered.chat
               THEN /\ view' = [view EXCEPT !.msgs = rendered.msgs \union {n}]
                    /\ Save(rendered.chat, rendered.msgs \union {n})
                    /\ applied' = applied \union {n}
                    /\ Note(InLoad \/ Fetching \/ Lagging)
               ELSE UNCHANGED <<view, cache, applied, overlapped>>
    BY DEF ApplyIncoming
  <1>2. /\ ThreadTypeOK /\ n \in Messages /\ request \in Nat /\ view \in View
        /\ rendered.msgs \in SUBSET Messages /\ rendered.chat \in Chats \union {NoChat}
        /\ log[n] \in Chats /\ overlapped \in BOOLEAN /\ Of(NoChat) = {}
    BY <1>1, ThreadFacts DEF ThreadInv, ThreadTypeOK, Messages
  <1>3. UNCHANGED log /\ UNCHANGED <<shell, boot, request, loads, older, rendered, aged>>
    BY DEF ApplyIncoming
  <1>4. CASE log[n] # rendered.chat
    <2>1. UNCHANGED <<view, cache, applied, aged, overlapped>>
      BY <1>1, <1>3, <1>4
    <2>2. ThreadTypeOK'
      BY <1>1, <1>2, <1>3, <2>1, SameLog DEF ThreadTypeOK
    <2> QED
      BY <1>3, <2>1, <2>2, QuietStep
  <1>5. CASE log[n] = rendered.chat
    <2> DEFINE merged == rendered.msgs \union {n}
    <2>1. /\ view' = [view EXCEPT !.msgs = merged] /\ Save(rendered.chat, merged)
          /\ applied' = applied \union {n} /\ rendered.chat \in Chats
          /\ overlapped' = (overlapped \/ InLoad \/ Fetching \/ Lagging)
      BY <1>1, <1>2, <1>5 DEF Note
    <2>2. merged \in SUBSET Messages /\ n \in Of(rendered.chat)
      BY <1>2, <1>5 DEF Of
    <2>3. /\ cache' \in [Chats -> SUBSET Messages]
          /\ CacheOfOneChat /\ merged \subseteq Of(rendered.chat) => CacheOfOneChat'
      BY <1>2, <1>3, <2>1, <2>2, SaveEffect
    <2>4. n \in merged /\ rendered.msgs \subseteq merged
      OBVIOUS
    <2>5. rendered.msgs \subseteq Of(rendered.chat) => merged \subseteq Of(rendered.chat)
      BY <2>2
    <2> HIDE DEF merged
    <2>6. view' \in View /\ view'.chat = view.chat /\ view'.msgs = merged
      BY <1>2, <2>1, <2>2 DEF View
    <2>7. ThreadTypeOK'
      BY <1>1, <1>2, <1>3, <2>1, <2>3, <2>6, SameLog
      DEF ThreadTypeOK, InLoad, Fetching, Lagging
    <2>8. ASSUME ~overlapped' PROVE LoadInv' /\ OlderInv' /\ EnoughInv'
      <3>1. LoadInv /\ OlderInv /\ EnoughInv /\ ~InLoad /\ ~Fetching /\ ~Lagging
        BY <2>1, <2>8 DEF ThreadInv
      <3>2. view.chat = rendered.chat /\ view.msgs = rendered.msgs /\ view.chat # NoChat
        BY <2>1, <3>1, ChatsAreChats DEF Lagging
      <3>3. request \in 1..request /\ loads[request].chat = view.chat
        BY <1>2, <3>1, <3>2 DEF LoadInv
      <3>4. loads[request].pc \in {"done", "failed"}
        BY <1>2, <3>1, <3>3, ThreadFacts DEF InLoad, Load
      <3>5. merged \subseteq Of(view.chat)
        BY <2>5, <3>1, <3>2, <3>4 DEF LoadInv
      <3>6. LoadInv'
        BY <1>3, <2>3, <2>6, <3>1, <3>2, <3>3, <3>5, SameLog DEF LoadInv
      <3>7. OlderInv'
        BY <1>3, <3>1, SameLog DEF OlderInv
      <3>8. loads[request].pc = "done" => Enough(view.msgs, view.chat)'
        <4> SUFFICES ASSUME loads[request].pc = "done",
                            NEW m \in (applied' \intersect Of(view.chat)) \ aged
                     PROVE  m \in merged \/ Superseded(m, view.chat)
          BY <1>3, <2>6, SameLog DEF Enough
        <4>1. CASE m = n
          BY <2>4, <4>1
        <4>2. CASE m # n
          <5>1. m \in (applied \intersect Of(view.chat)) \ aged
            BY <2>1, <4>2
          <5> QED
            BY <1>2, <2>4, <3>1, <3>2, <3>3, <5>1 DEF EnoughInv, Enough
        <4> QED
          BY <4>1, <4>2
      <3>9. \A k \in 1..Len(older) : older[k].pc # "server"
        BY <3>1 DEF Fetching
      <3>10. EnoughInv'
        BY <1>3, <3>4, <3>8, <3>9 DEF EnoughInv
      <3> QED
        BY <3>6, <3>7, <3>10
    <2> QED
      BY <2>7, <2>8 DEF ThreadInv
  <1> QED
    BY <1>4, <1>5

(* The server's list of chats: the open chat is closed, made the active    *)
(* one again, or another is opened.                                        *)
LEMMA ShellStep == ASSUME ThreadInv, ShellAnswers PROVE ThreadInv'
  <1>1. /\ ThreadTypeOK /\ view \in View /\ boot \in Chats \union {NoChat}
        /\ overlapped \in BOOLEAN /\ Of(NoChat) = {}
    BY ThreadFacts DEF ThreadInv, ThreadTypeOK
  <1>2. /\ shell' = "ready" /\ UNCHANGED log
        /\ UNCHANGED <<wire, cache, boot, older, rendered, applied, aged>>
    BY DEF ShellAnswers
  <1>3. CASE \E c \in Chats \ {boot} : StartLoad(c, view) /\ UNCHANGED overlapped
    BY <1>1, <1>2, <1>3, StartStep
  <1>4. CASE /\ view' = [view EXCEPT !.chat = NoChat, !.msgs = {}, !.more = FALSE]
             /\ UNCHANGED <<request, loads, overlapped>>
    <2>1. view' \in View /\ view'.chat = NoChat
      BY <1>1, <1>4 DEF View
    <2>2. ThreadTypeOK'
      BY <1>1, <1>2, <1>4, <2>1, SameLog DEF ThreadTypeOK
    <2>3. \A S, c : Enough(S, c)' <=> Enough(S, c)
      BY <1>2, SameLog DEF Enough
    <2>4. Enough(view.msgs, view.chat)'
      BY <1>1, <1>2, <2>1, SameLog DEF Enough
    <2>5. ASSUME ~overlapped PROVE LoadInv' /\ OlderInv' /\ EnoughInv'
      <3>1. LoadInv /\ OlderInv /\ EnoughInv
        BY <2>5 DEF ThreadInv
      <3>2. LoadInv' /\ OlderInv'
        BY <1>2, <1>4, <2>1, <3>1, SameLog DEF LoadInv, OlderInv, CacheOfOneChat
      <3>3. EnoughInv'
        BY <1>2, <1>4, <2>3, <2>4, <3>1 DEF EnoughInv
      <3> QED
        BY <3>2, <3>3
    <2> QED
      BY <1>4, <2>2, <2>5 DEF ThreadInv
  <1>5. CASE /\ boot # NoChat /\ view' = [view EXCEPT !.chat = boot]
             /\ Note(view.chat # boot) /\ UNCHANGED <<request, loads>>
    <2>1. view' \in View /\ overlapped' \in BOOLEAN
      BY <1>1, <1>5 DEF View, Note
    <2>2. ThreadTypeOK'
      BY <1>1, <1>2, <1>5, <2>1, SameLog DEF ThreadTypeOK
    <2>3. CASE view.chat = boot
      <3>1. UNCHANGED view
        BY <1>1, <1>5, <2>3 DEF View
      <3>2. UNCHANGED overlapped
        BY <1>1, <1>5, <2>3 DEF Note
      <3> QED
        BY <1>2, <1>5, <2>2, <3>1, <3>2, QuietStep
    <2>4. CASE view.chat # boot
      BY <1>5, <2>2, <2>4 DEF ThreadInv, Note
    <2> QED
      BY <2>3, <2>4
  <1> QED
    BY <1>3, <1>4, <1>5 DEF ShellAnswers

(* Every step of the thread keeps the invariant.                           *)
THEOREM ThreadInvariant == ThreadSpec => []ThreadInv
  <1>1. ASSUME ThreadInv, [ThreadNext]_threadVars PROVE ThreadInv'
    <2>1. /\ ThreadTypeOK /\ boot \in Chats \union {NoChat}
          /\ shell \in {"closed", "asking", "ready", "failed"}
      BY <1>1 DEF ThreadInv, ThreadTypeOK
    <2>2. ASSUME NEW c \in Chats, Arrive(c) PROVE ThreadInv'
      BY <1>1, <2>2, ArriveStep
    <2>3. ASSUME NEW c \in Chats, SelectChat(c) PROVE ThreadInv'
      <3>1. /\ StartLoad(c, view)
            /\ UNCHANGED <<log, wire, cache, shell, boot, older, rendered, applied, aged, overlapped>>
        BY <2>3 DEF SelectChat
      <3> QED
        BY <1>1, <2>1, <3>1, StartStep
    <2>4. CASE ReloadChat
      <3>1. /\ StartLoad(rendered.chat, view) /\ rendered.chat \in Chats
            /\ UNCHANGED <<log, wire, cache, shell, boot, older, rendered, applied, aged, overlapped>>
        BY <2>1, <2>4, ThreadFacts DEF ReloadChat
      <3> QED
        BY <1>1, <2>1, <3>1, StartStep
    <2>5. CASE OpenShell
      <3>1. CASE \E c \in Chats : boot' = c /\ StartLoad(c, view)
        <4>1. PICK c \in Chats : boot' = c /\ StartLoad(c, view)
          BY <3>1
        <4>2. /\ shell' = "asking"
              /\ UNCHANGED <<log, wire, cache, older, rendered, applied, aged, overlapped>>
          BY <2>5 DEF OpenShell
        <4> QED
          BY <1>1, <4>1, <4>2, StartStep
      <3>2. CASE boot' = NoChat /\ UNCHANGED <<request, loads, view>>
        <4>1. ThreadTypeOK'
          BY <2>1, <2>5, <3>2, SameLog DEF OpenShell, ThreadTypeOK
        <4> QED
          BY <1>1, <2>5, <3>2, <4>1, QuietStep DEF OpenShell
      <3> QED
        BY <2>5, <3>1, <3>2 DEF OpenShell
    <2>6. CASE Render \/ ShellFails \/ UNCHANGED threadVars
      <3>1. /\ UNCHANGED <<log, wire, cache, boot, request, loads, older, view, applied, aged, overlapped>>
            /\ rendered' \in {rendered, view} /\ shell' \in {shell, "failed"}
        BY <2>6 DEF Render, ShellFails, threadVars
      <3>2. ThreadTypeOK'
        BY <2>1, <3>1, SameLog DEF ThreadTypeOK
      <3> QED
        BY <1>1, <3>1, <3>2, QuietStep
    <2>7. ASSUME NEW i \in 1..request,
                 CacheReturns(i) \/ CacheFails(i) \/ Answer(i) \/ Loaded(i) \/ LoadFails(i)
          PROVE  ThreadInv'
      BY <1>1, <2>7, LoadStep
    <2>8. ASSUME NEW j \in 1..Len(older), OlderLoaded(j) \/ OlderFails(j) PROVE ThreadInv'
      BY <1>1, <2>8, OlderStep
    <2> QED
      BY <1>1, <2>2, <2>3, <2>4, <2>5, <2>6, <2>7, <2>8, ShellStep, StartOlderStep,
         IncomingStep
      DEF ThreadNext
  <1> QED
    BY <1>1, ThreadInitInv, PTL DEF ThreadSpec

(* The variables of WebThread keep their types.                            *)
THEOREM ThreadTypes == ThreadSpec => []ThreadTypeOK
  <1>1. ThreadInv => ThreadTypeOK
    BY DEF ThreadInv
  <1> QED
    BY <1>1, ThreadInvariant, PTL

(* Only an overlap mixes chats on the screen or in the cache               *)
(* (loadMessagesForChat and its request numbers).                          *)
THEOREM MixedOnlyThen == ThreadSpec => []MixedOnlyByOverlap
  <1>1. ThreadInv => MixedOnlyByOverlap
    BY DEF ThreadInv, LoadInv, MixedOnlyByOverlap
  <1> QED
    BY <1>1, ThreadInvariant, PTL

(* A message that the stream delivered is lost only by an overlap, or by   *)
(* an answer of the server's cache that is older (mergeMessages,           *)
(* setMessages and the answer of handleMessages).                          *)
THEOREM LostOnlyThen == ThreadSpec => []DeliveredShown
  <1>1. ThreadInv => DeliveredShown
    BY DEF ThreadInv, EnoughInv, Enough, Superseded, DeliveredShown
  <1> QED
    BY <1>1, ThreadInvariant, PTL

=============================================================================
