---------------------------- MODULE Store -----------------------------
(***************************************************************************)
(* internal/store: the configuration file, read and replaced under one     *)
(* mutex by the goroutines of the daemon.                                  *)
(*                                                                         *)
(* Update loads the file, lets a callback change the copy, writes the copy *)
(* to config.json.tmp and renames that over config.json; Load only reads.  *)
(* Every step may fail and the process may die between any two of them.    *)
(* The data is abstracted to a counter per caller: the caller's callback   *)
(* adds one to its own entry, so an update that is lost, applied twice or  *)
(* built on a stale copy shows in the counts.                              *)
(*                                                                         *)
(* A crash here is the death of the process: what was written stays        *)
(* written.  One daemon runs on a data directory; the mutex does not reach *)
(* a second one.                                                           *)
(***************************************************************************)
EXTENDS Naturals

CONSTANTS
    Callers,  \* goroutines that call the store
    MaxCalls, \* bound: calls each of them makes
    Absent,   \* no such file
    Torn,     \* a file whose writing began and did not end
    NoCaller

Config == [Callers -> Nat]

(* The zero Config that a missing file stands for.                         *)
EmptyConfig == [p \in Callers |-> 0]

ASSUME StoreAssumption ==
    /\ NoCaller \notin Callers
    /\ Absent \notin Config
    /\ Torn \notin Config
    /\ Absent # Torn
    /\ MaxCalls \in Nat

VARIABLES
    file,   \* config.json
    tmp,    \* config.json.tmp
    mu,     \* holder of Store.mu
    pc,     \* Callers -> next step
    kind,   \* Callers -> which method the call is of
    cfg,    \* Callers -> local copy of the configuration
    acked,  \* Callers -> updates that returned without error
    seen,   \* Callers -> what its last successful Load returned
    calls   \* Callers -> calls made, bounded by MaxCalls

vars == <<file, tmp, mu, pc, kind, cfg, acked, seen, calls>>

PCs == {"idle", "waiting", "locked", "read", "changed", "writing", "written",
        "done", "failed"}

TypeOK ==
    /\ file \in Config \union {Absent, Torn}
    /\ tmp \in Config \union {Absent, Torn}
    /\ mu \in Callers \union {NoCaller}
    /\ pc \in [Callers -> PCs]
    /\ kind \in [Callers -> {"update", "load"}]
    /\ cfg \in [Callers -> Config]
    /\ acked \in [Callers -> Nat]
    /\ seen \in [Callers -> Config]
    /\ calls \in [Callers -> 0..MaxCalls]

Init ==
    /\ file = Absent
    /\ tmp = Absent
    /\ mu = NoCaller
    /\ pc = [p \in Callers |-> "idle"]
    /\ kind = [p \in Callers |-> "load"]
    /\ cfg = [p \in Callers |-> EmptyConfig]
    /\ acked = [p \in Callers |-> 0]
    /\ seen = [p \in Callers |-> EmptyConfig]
    /\ calls = [p \in Callers |-> 0]

Goto(p, step) == pc' = [pc EXCEPT ![p] = step]

(* os.ReadFile followed by the decoding of what was read.                  *)
Contents == IF file = Absent THEN EmptyConfig ELSE file

-----------------------------------------------------------------------
(* Actions of one call.                                                    *)

Begin(p, k) ==
    /\ pc[p] = "idle"
    /\ calls[p] < MaxCalls
    /\ calls' = [calls EXCEPT ![p] = @ + 1]
    /\ kind' = [kind EXCEPT ![p] = k]
    /\ Goto(p, "waiting")
    /\ UNCHANGED <<file, tmp, mu, cfg, acked, seen>>

Lock(p) ==
    /\ pc[p] = "waiting"
    /\ mu = NoCaller
    /\ mu' = p
    /\ Goto(p, "locked")
    /\ UNCHANGED <<file, tmp, kind, cfg, acked, seen, calls>>

(* The only read of a Load.                                                *)
LoadFile(p) ==
    /\ pc[p] = "locked"
    /\ kind[p] = "load"
    /\ file # Torn
    /\ seen' = [seen EXCEPT ![p] = Contents]
    /\ Goto(p, "done")
    /\ UNCHANGED <<file, tmp, mu, kind, cfg, acked, calls>>

\* Mutant of LoadLocked: the copy of the caller's last Update is used again.
LoadLockedStale(p) ==
    /\ pc[p] = "locked"
    /\ kind[p] = "update"
    /\ Goto(p, "read")
    /\ UNCHANGED <<file, tmp, mu, kind, cfg, acked, seen, calls>>

(* loadLocked, the first step of an Update.                                *)
LoadLocked(p) ==
    /\ pc[p] = "locked"
    /\ kind[p] = "update"
    /\ file # Torn
    /\ cfg' = [cfg EXCEPT ![p] = Contents]
    /\ Goto(p, "read")
    /\ UNCHANGED <<file, tmp, mu, kind, acked, seen, calls>>

(* The callback of the Update.                                             *)
Callback(p) ==
    /\ pc[p] = "read"
    /\ cfg' = [cfg EXCEPT ![p][p] = @ + 1]
    /\ Goto(p, "changed")
    /\ UNCHANGED <<file, tmp, mu, kind, acked, seen, calls>>

\* Mutant of OpenTmp: the configuration is written in place.
OpenInPlace(p) ==
    /\ pc[p] = "changed"
    /\ file' = Torn
    /\ Goto(p, "writing")
    /\ UNCHANGED <<tmp, mu, kind, cfg, acked, seen, calls>>

(* os.WriteFile truncates the temporary file before it writes it.          *)
OpenTmp(p) ==
    /\ pc[p] = "changed"
    /\ tmp' = Torn
    /\ Goto(p, "writing")
    /\ UNCHANGED <<file, mu, kind, cfg, acked, seen, calls>>

WriteTmp(p) ==
    /\ pc[p] = "writing"
    /\ tmp' = cfg[p]
    /\ Goto(p, "written")
    /\ UNCHANGED <<file, mu, kind, cfg, acked, seen, calls>>

RenameTmp(p) ==
    /\ pc[p] = "written"
    /\ file' = tmp
    /\ tmp' = Absent
    /\ Goto(p, "done")
    /\ UNCHANGED <<mu, kind, cfg, acked, seen, calls>>

\* Mutant of FailStep: an error is also reported after the rename.
FailStepAfterRename(p) ==
    /\ pc[p] \in {"locked", "read", "changed", "writing", "written", "done"}
    /\ Goto(p, "failed")
    /\ UNCHANGED <<file, tmp, mu, kind, cfg, acked, seen, calls>>

(* Any step up to the rename may return an error: reading or decoding the  *)
(* file, the callback, creating the directory, writing, renaming.          *)
FailStep(p) ==
    /\ pc[p] \in {"locked", "read", "changed", "writing", "written"}
    /\ Goto(p, "failed")
    /\ UNCHANGED <<file, tmp, mu, kind, cfg, acked, seen, calls>>

\* Mutant of Return: the error path does not unlock.
ReturnLocked(p) ==
    /\ pc[p] \in {"done", "failed"}
    /\ mu' = IF pc[p] = "failed" THEN mu ELSE NoCaller
    /\ acked' = IF pc[p] = "done" /\ kind[p] = "update"
                THEN [acked EXCEPT ![p] = @ + 1] ELSE acked
    /\ Goto(p, "idle")
    /\ UNCHANGED <<file, tmp, kind, cfg, seen, calls>>

(* The deferred unlock, and the reply.                                     *)
Return(p) ==
    /\ pc[p] \in {"done", "failed"}
    /\ mu' = NoCaller
    /\ acked' = IF pc[p] = "done" /\ kind[p] = "update"
                THEN [acked EXCEPT ![p] = @ + 1] ELSE acked
    /\ Goto(p, "idle")
    /\ UNCHANGED <<file, tmp, kind, cfg, seen, calls>>

(* The process dies and is started again.                                  *)
Crash ==
    /\ mu' = NoCaller
    /\ pc' = [p \in Callers |-> "idle"]
    /\ UNCHANGED <<file, tmp, kind, cfg, acked, seen, calls>>

Step(p) ==
    \/ LoadFile(p)
    \/ LoadLocked(p)
    \/ Callback(p)
    \/ OpenTmp(p)
    \/ WriteTmp(p)
    \/ RenameTmp(p)
    \/ FailStep(p)
    \/ Return(p)

Next ==
    \/ \E p \in Callers :
           \/ \E k \in {"update", "load"} : Begin(p, k)
           \/ Lock(p)
           \/ Step(p)
    \/ Crash

(* The runtime keeps running every goroutine that can run, and sync.Mutex  *)
(* hands itself to a waiter that has waited too long, so a caller that     *)
(* finds the mutex free again and again gets it.                           *)
Fairness ==
    \A p \in Callers : SF_vars(Lock(p)) /\ WF_vars(Step(p))

Spec == Init /\ [][Next]_vars /\ Fairness

-----------------------------------------------------------------------
(* Properties.                                                             *)

(* config.json always decodes, whatever failed or died half-way through a  *)
(* save (saveLocked writes beside the file and renames).                   *)
NeverTorn == file # Torn

(* An update that returned without error is in the file, and stays in it:  *)
(* later saves by other goroutines are never built on an older copy        *)
(* (Update holds the mutex from the read to the rename).                   *)
AckedDurable == \A p \in Callers : acked[p] <= Contents[p]

(* A call returns, unless the process dies first: no path leaves the       *)
(* mutex locked behind it (Update and Load, every early return).           *)
EveryCallReturns ==
    \A p \in Callers : pc[p] # "idle" ~> pc[p] = "idle"

-----------------------------------------------------------------------
(* What the safety properties rest on, shown inductive in StoreProofs.     *)

Inside == {"locked", "read", "changed", "writing", "written", "done", "failed"}

(* Whoever is inside a call holds the mutex, so nobody else is.            *)
MutexHeld == \A p \in Callers : pc[p] \in Inside <=> mu = p

(* The holder's copy is the file it will replace, plus its own change.     *)
CopyCurrent ==
    \A p \in Callers :
        /\ pc[p] \in {"read", "changed", "writing", "written"} =>
               kind[p] = "update"
        /\ pc[p] = "read" => cfg[p] = Contents
        /\ pc[p] \in {"changed", "writing", "written"} =>
               cfg[p] = [Contents EXCEPT ![p] = @ + 1]
        /\ pc[p] = "written" => tmp = cfg[p]

(* An update that is about to be acknowledged is already in the file.      *)
AckEarned ==
    \A p \in Callers :
        pc[p] = "done" /\ kind[p] = "update" => acked[p] < Contents[p]

StoreInv ==
    /\ TypeOK
    /\ NeverTorn
    /\ MutexHeld
    /\ CopyCurrent
    /\ AckedDurable
    /\ AckEarned

-----------------------------------------------------------------------
(* Refinement.                                                             *)

PhaseOf(p) ==
    CASE pc[p] = "idle" -> "idle"
      [] pc[p] = "failed" -> "refused"
      [] pc[p] = "done" ->
             IF kind[p] = "update" THEN "applied" ELSE "looked"
      [] OTHER -> kind[p]

Reg == INSTANCE Register WITH
    value <- Contents,
    phase <- [p \in Callers |-> PhaseOf(p)]

(* The file is an atomic register: an update takes effect at its rename, a *)
(* load at its read, a failed call never (all of store.go).                *)
ImplementsRegister == Reg!RSpec

=======================================================================
