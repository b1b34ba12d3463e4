----------------------------- MODULE WebProfiles ----------------------------
(***************************************************************************)
(* What the web client keeps in the browser (web/src/lib/db.ts, crypto.ts) *)
(* and the operations of App.tsx on it: pairing and linking by a session,  *)
(* which save a profile, using and removing one, and the lists that an     *)
(* open AppShell caches.                                                   *)
(*                                                                         *)
(* Tabs share the storage.  Each function of db.ts is one transaction, so  *)
(* one step; between two awaits of an operation anything may happen: steps *)
(* of other tabs, and of other operations of the tab, as clicks and polls  *)
(* do not wait for what is in progress.  A profile and a key are named     *)
(* after the operation that made them.                                     *)
(*                                                                         *)
(* What the server answers is left open, and so is whether a token can be  *)
(* decrypted by the AppShell that caches lists.                            *)
(***************************************************************************)
CONSTANTS
    Tabs,
    Ops,        \* operations; each is used once
    Sessions,   \* sessions waiting for an approval; each is used once
    None

ASSUME WebProfilesAssumption ==
    /\ None \notin Ops \union Sessions \union Tabs

VARIABLES
    key,        \* the key in localStorage
    profiles,   \* the store of profiles
    lock,       \* Ops -> the key that the profile's token is encrypted with
    active,     \* activeProfileId
    cached,     \* profiles with records in the caches
    op,         \* Ops -> what the operation does, where, for what, and its next step
    seen,       \* Ops -> what loadState has read
    got,        \* Ops -> which of its two reads are done
    session,    \* Tabs -> the session that its SessionPage polls
    shown,      \* Tabs -> the state of App
    (* history *)
    exposed,    \* operations that took a key while another was being made
    mixed,      \* two operations overlapped, or one began on an old state
    last,       \* the tab whose operation ended last
    beside,     \* saves of a session begun while another was in progress
    late        \* profiles whose lists came when they were gone

vars == <<key, profiles, lock, active, cached, op, seen, got, session, shown,
          exposed, mixed, last, beside, late>>
storage == <<key, profiles, lock, active, cached>>
tabs == <<session, shown>>
history == <<exposed, mixed, last, beside, late>>

Maybe(S) == S \union {None}
State == [list : SUBSET Ops, active : Maybe(Ops)]
Operation == [kind : {"load", "pair", "poll", "use", "remove", "cache"},
              tab : Maybe(Tabs), on : Maybe(Ops \union Sessions),
              at : {"unused", "key", "generate", "store", "activate", "delete",
                    "cache", "read", "done", "failed"}]
Blank == [list |-> {}, active |-> None]
Unused == [kind |-> "load", tab |-> None, on |-> None, at |-> "unused"]

(* Types of the variables: each operation names the tab it runs in and its *)
(* next step, each tab the session it polls and the state App shows.       *)
TypeOK ==
    /\ key \in Maybe(Ops) /\ active \in Maybe(Ops)
    /\ profiles \subseteq Ops /\ cached \subseteq Ops
    /\ lock \in [Ops -> Maybe(Ops)]
    /\ op \in [Ops -> Operation]
    /\ seen \in [Ops -> State] /\ got \in [Ops -> SUBSET {"list", "active"}]
    /\ session \in [Tabs -> Maybe(Sessions)]
    /\ shown \in [Tabs -> State]
    /\ mixed \in BOOLEAN /\ last \in Maybe(Tabs)
    /\ exposed \subseteq Ops /\ beside \subseteq Ops /\ late \subseteq Ops

(* An empty browser, whose tabs have loaded that.                          *)
Init ==
    /\ key = None /\ profiles = {} /\ active = None /\ cached = {}
    /\ lock = [o \in Ops |-> None]
    /\ op = [o \in Ops |-> Unused]
    /\ seen = [o \in Ops |-> Blank] /\ got = [o \in Ops |-> {}]
    /\ session = [t \in Tabs |-> None]
    /\ shown = [t \in Tabs |-> Blank]
    /\ exposed = {} /\ mixed = FALSE /\ last = None
    /\ beside = {} /\ late = {}

Stored == [list |-> profiles, active |-> active]
InFlight == {o \in Ops : op[o].at \notin {"unused", "done", "failed"}}
Generating == {o \in Ops : op[o].at = "generate"}
Saves(s) == {o \in Ops : op[o].kind = "poll" /\ op[o].on = s}

(* saveProfile has stored the profile of a save.                           *)
HasStored(o) == o \in profiles \/ op[o].at \in {"activate", "read", "done"}

Loading(t) == \E o \in InFlight : op[o].kind = "load" /\ op[o].tab = t

(* What remains of an operation that is over: what it was for.             *)
Over(o, how) == [op[o] EXCEPT !.tab = None, !.at = how]

End(o, how) ==
    /\ op' = [op EXCEPT ![o] = Over(o, how)]
    /\ seen' = [seen EXCEPT ![o] = Blank]
    /\ got' = [got EXCEPT ![o] = {}]

-----------------------------------------------------------------------------
(* What starts an operation.  Which page a tab shows is left out, but for  *)
(* the polling of a SessionPage: each is a click away from the others.     *)

Begin(o, t, kind, on, at) ==
    /\ op[o].at = "unused"
    /\ ~Loading(t)
    /\ op' = [op EXCEPT ![o] = [kind |-> kind, tab |-> t, on |-> on, at |-> at]]
    /\ mixed' = (\/ mixed
                 \/ kind # "cache" /\ \E q \in InFlight : op[q].kind # "cache"
                 \/ kind \in {"use", "remove"} /\ shown[t] # Stored)
    /\ UNCHANGED <<storage, seen, got, tabs, exposed, last, late>>

(* The server accepted the code that PairPage sent.                        *)
Pair(t, o) == Begin(o, t, "pair", None, "key") /\ UNCHANGED beside

(* A poll of the session is answered with "approved".  Polls are sent every *)
(* three seconds whether or not one is still waiting or being saved.       *)
Poll(t, o) ==
    /\ session[t] # None
    /\ Begin(o, t, "poll", session[t], "key")
    /\ beside' = IF Saves(session[t]) \intersect InFlight = {} THEN beside
                 ELSE beside \union {o}

Use(t, o) ==
    /\ \E p \in shown[t].list : Begin(o, t, "use", p, "activate")
    /\ UNCHANGED beside

Remove(t, o) ==
    /\ \E p \in shown[t].list : Begin(o, t, "remove", p, "delete")
    /\ UNCHANGED beside

(* The AppShell of a tab, which the route shows only for an active profile *)
(* of the list, asks the server for chats or messages, to save them.       *)
Cache(t, o) ==
    /\ shown[t].active \in shown[t].list
    /\ Begin(o, t, "cache", shown[t].active, "cache")
    /\ UNCHANGED beside

(* SessionPage asks for a session and begins to poll it ...                *)
Ask(t, s) ==
    /\ ~Loading(t) /\ session[t] = None
    /\ Saves(s) = {} /\ \A u \in Tabs : session[u] # s
    /\ session' = [session EXCEPT ![t] = s]
    /\ UNCHANGED <<storage, op, seen, got, shown, history>>

(* ... until the session expires, or the user leaves the page.             *)
Leave(t) ==
    /\ session[t] # None
    /\ session' = [session EXCEPT ![t] = None]
    /\ UNCHANGED <<storage, op, seen, got, shown, history>>

(* A tab is closed in the middle of whatever it was doing, and opened      *)
(* again: App loads its state.                                             *)
Reload(t, o) ==
    LET cut == {q \in InFlight : op[q].tab = t}
    IN  /\ op[o].at = "unused"
        /\ op' = [q \in Ops |->
                    IF q = o THEN [kind |-> "load", tab |-> t, on |-> None, at |-> "read"]
                    ELSE IF q \in cut THEN Over(q, "failed") ELSE op[q]]
        /\ seen' = [q \in Ops |-> IF q \in cut THEN Blank ELSE seen[q]]
        /\ got' = [q \in Ops |-> IF q \in cut THEN {} ELSE got[q]]
        /\ session' = [session EXCEPT ![t] = None]
        /\ shown' = [shown EXCEPT ![t] = Blank]
        /\ mixed' = (mixed \/ \E q \in InFlight \ cut : op[q].kind # "cache")
        /\ last' = None
        /\ UNCHANGED <<storage, exposed, beside, late>>

-----------------------------------------------------------------------------
(* The steps of an operation.                                              *)

Step(o, from, to) ==
    /\ op[o].at = from
    /\ op' = [op EXCEPT ![o].at = to]

Exposing(o) == IF Generating \ {o} = {} THEN exposed ELSE exposed \union {o}

\* Mutant of TakeKey: the key of localStorage is not looked for.
TakeKeyNever(o) == Step(o, "key", "generate") /\ UNCHANGED <<lock, exposed>>

(* getOrCreateKey finds the key of localStorage ...                        *)
TakeKey(o) ==
    \/ /\ key # None
       /\ Step(o, "key", "store")
       /\ lock' = [lock EXCEPT ![o] = key]
       /\ exposed' = Exposing(o)
    \/ /\ key = None
       /\ Step(o, "key", "generate")
       /\ UNCHANGED <<lock, exposed>>

(* ... or has made one, which it stores without looking again.             *)
MakeKey(o) ==
    /\ Step(o, "generate", "store")
    /\ key' = o
    /\ lock' = [lock EXCEPT ![o] = o]
    /\ exposed' = Exposing(o)

(* saveProfile                                                             *)
Store(o) ==
    /\ Step(o, "store", "activate")
    /\ profiles' = profiles \union {o}

(* setActiveProfile, which does not ask whether the profile is there       *)
Activate(o) ==
    /\ Step(o, "activate", "read")
    /\ active' = IF op[o].kind = "use" THEN op[o].on ELSE o

\* Mutant of Delete: the active profile is not cleared with the profile it names.
DeleteKeepsActive(o) ==
    /\ Step(o, "delete", "read")
    /\ profiles' = profiles \ {op[o].on}
    /\ cached' = cached \ {op[o].on}
    /\ UNCHANGED active

\* Mutant of Delete: the profile's lists stay.
DeleteKeepsLists(o) ==
    /\ Step(o, "delete", "read")
    /\ profiles' = profiles \ {op[o].on}
    /\ active' = IF active = op[o].on THEN None ELSE active
    /\ UNCHANGED cached

(* deleteProfile: one transaction over the four stores                     *)
Delete(o) ==
    /\ Step(o, "delete", "read")
    /\ profiles' = profiles \ {op[o].on}
    /\ active' = IF active = op[o].on THEN None ELSE active
    /\ cached' = cached \ {op[o].on}

(* saveChats, saveMessages and setActiveChat, for a profile that may be    *)
(* gone by now                                                             *)
CacheCommit(o) ==
    /\ op[o].at = "cache" /\ End(o, "done")
    /\ cached' = cached \union {op[o].on}
    /\ late' = IF op[o].on \in profiles THEN late ELSE late \union {op[o].on}

\* Mutant of Read: refreshState does not wait for the write before it.
ReadEarly(o) ==
    /\ op[o].at \in {"activate", "delete", "read"}
    /\ \E x \in {"list", "active"} \ got[o] :
          /\ got' = [got EXCEPT ![o] = @ \union {x}]
          /\ seen' = [seen EXCEPT ![o][x] = Stored[x]]

(* loadState: two transactions, in either order                            *)
Read(o) ==
    /\ op[o].at = "read"
    /\ \E x \in {"list", "active"} \ got[o] :
          /\ got' = [got EXCEPT ![o] = @ \union {x}]
          /\ seen' = [seen EXCEPT ![o][x] = Stored[x]]

\* Mutant of Show: SessionPage stays, and polls, after it has saved the profile.
ShowStays(o) ==
    /\ op[o].at = "read" /\ got[o] = {"list", "active"}
    /\ End(o, "done")
    /\ shown' = [shown EXCEPT ![op[o].tab] = seen[o]]
    /\ last' = op[o].tab
    /\ UNCHANGED session

(* setState with what was read.  PairPage and SessionPage then go to /app, *)
(* and a SessionPage that is left polls no more.                           *)
Show(o) ==
    LET t == op[o].tab
    IN  /\ op[o].at = "read" /\ got[o] = {"list", "active"}
        /\ End(o, "done")
        /\ shown' = [shown EXCEPT ![t] = seen[o]]
        /\ session' = IF op[o].kind \in {"pair", "poll"}
                      THEN [session EXCEPT ![t] = None] ELSE session
        /\ last' = t

(* A transaction of the browser, or a request of the AppShell, fails.      *)
Fail(o) ==
    /\ o \in InFlight
    /\ End(o, "failed")
    /\ last' = IF op[o].kind = "cache" THEN last ELSE None

Perform(o) ==
    \/ /\ TakeKey(o)
       /\ UNCHANGED <<key, profiles, active, cached, seen, got, tabs, mixed, last, beside, late>>
    \/ /\ MakeKey(o)
       /\ UNCHANGED <<profiles, active, cached, seen, got, tabs, mixed, last, beside, late>>
    \/ /\ Store(o)
       /\ UNCHANGED <<key, lock, active, cached, seen, got, tabs, history>>
    \/ /\ Activate(o)
       /\ UNCHANGED <<key, lock, profiles, cached, seen, got, tabs, history>>
    \/ /\ Delete(o)
       /\ UNCHANGED <<key, lock, seen, got, tabs, history>>
    \/ /\ CacheCommit(o)
       /\ UNCHANGED <<key, lock, profiles, active, tabs, exposed, mixed, last, beside>>
    \/ /\ Read(o)
       /\ UNCHANGED <<storage, op, tabs, history>>
    \/ /\ Show(o)
       /\ UNCHANGED <<storage, exposed, mixed, beside, late>>
    \/ /\ Fail(o)
       /\ UNCHANGED <<storage, tabs, exposed, mixed, beside, late>>

Next ==
    \/ \E t \in Tabs, o \in Ops : \/ Pair(t, o) \/ Poll(t, o) \/ Use(t, o)
                                  \/ Remove(t, o) \/ Cache(t, o) \/ Reload(t, o)
    \/ \E t \in Tabs, s \in Sessions : Ask(t, s)
    \/ \E t \in Tabs : Leave(t)
    \/ \E o \in Ops : Perform(o)

Spec == Init /\ [][Next]_vars

-----------------------------------------------------------------------------
(* The properties.                                                         *)

(* The token of every stored profile is encrypted with the key that the    *)
(* browser has, so it can be used.  The exception is a profile saved while *)
(* another operation was making a key: getOrCreateKey looks, generates and *)
(* stores in three steps, and the key stored last replaces the other.      *)
TokensReadable == \A p \in profiles : lock[p] = key \/ p \in exposed

(* The active profile is one that is stored: deleteProfile clears it in    *)
(* the transaction that deletes.  setActiveProfile does not look, so the   *)
(* exceptions are operations that overlap, and a tab that acts on a list   *)
(* another tab has changed.                                                *)
ActiveIsThere == ~mixed => active \in profiles \union {None}

(* When an operation is over, and was never beside another, its tab shows  *)
(* the profiles and the active profile that are stored: refreshState reads *)
(* after the writes.  Not so for overlapping ones: their two setState may  *)
(* come in the other order than their reads.                               *)
ShowsWhatIsStored ==
    (~mixed /\ last # None /\ \A o \in InFlight : op[o].kind = "cache")
        => shown[last] = Stored

(* An approved session leaves one profile, though its page goes on polling *)
(* until a save has ended, with two exceptions.  A save begun while        *)
(* another one of the session is in progress, which nothing stops, stores  *)
(* a second profile.  So does the poll after a save that failed when       *)
(* saveProfile had stored the profile, in setActiveProfile or loadState:   *)
(* nothing takes the first one away.                                       *)
OncePerSession ==
    \A s \in Sessions :
        \A o, q \in {x \in Saves(s) : HasStored(x)} :
            \/ o = q
            \/ {o, q} \intersect beside # {}
            \/ "failed" \in {op[o].at, op[q].at}

(* What stays cached belongs to a stored profile: deleteProfile removes    *)
(* the lists with the profile.  The exception is a list that the server    *)
(* answered late: loadMessagesForChat saves it whether or not the profile  *)
(* still exists.                                                           *)
NothingLeft == cached \subseteq profiles \union late
=============================================================================
