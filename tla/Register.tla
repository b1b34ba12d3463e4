--------------------------- MODULE Register ---------------------------
(***************************************************************************)
(* What internal/store promises its callers: one durable value that every  *)
(* update changes at a single instant and every load reads at a single     *)
(* instant, both between the call and its reply.  A call may be refused    *)
(* and then has no effect.  A crash forgets the calls in progress and      *)
(* keeps the value.                                                        *)
(*                                                                         *)
(* The value counts, for each caller, the updates of that caller it        *)
(* contains.  Store implements this specification.                         *)
(***************************************************************************)
EXTENDS Naturals

CONSTANT Callers

VARIABLES value,  \* Callers -> number of updates contained
          phase,  \* Callers -> where the call is
          acked,  \* Callers -> updates answered with success
          seen    \* Callers -> the value its last load returned

rvars == <<value, phase, acked, seen>>

Nothing == [p \in Callers |-> 0]

RInit ==
    /\ value = Nothing
    /\ phase = [p \in Callers |-> "idle"]
    /\ acked = Nothing
    /\ seen = [p \in Callers |-> Nothing]

Ask(p) ==
    /\ phase[p] = "idle"
    /\ \E kind \in {"update", "load"} : phase' = [phase EXCEPT ![p] = kind]
    /\ UNCHANGED <<value, acked, seen>>

Apply(p) ==
    /\ phase[p] = "update"
    /\ value' = [value EXCEPT ![p] = @ + 1]
    /\ phase' = [phase EXCEPT ![p] = "applied"]
    /\ UNCHANGED <<acked, seen>>

Look(p) ==
    /\ phase[p] = "load"
    /\ seen' = [seen EXCEPT ![p] = value]
    /\ phase' = [phase EXCEPT ![p] = "looked"]
    /\ UNCHANGED <<value, acked>>

Refuse(p) ==
    /\ phase[p] \in {"update", "load"}
    /\ phase' = [phase EXCEPT ![p] = "refused"]
    /\ UNCHANGED <<value, acked, seen>>

Reply(p) ==
    /\ phase[p] \in {"applied", "looked", "refused"}
    /\ acked' = IF phase[p] = "applied" THEN [acked EXCEPT ![p] = @ + 1]
                                        ELSE acked
    /\ phase' = [phase EXCEPT ![p] = "idle"]
    /\ UNCHANGED <<value, seen>>

Reset ==
    /\ phase' = [p \in Callers |-> "idle"]
    /\ UNCHANGED <<value, acked, seen>>

RNext ==
    \/ \E p \in Callers : Ask(p) \/ Apply(p) \/ Look(p) \/ Refuse(p) \/ Reply(p)
    \/ Reset

RSpec == RInit /\ [][RNext]_rvars

=======================================================================
