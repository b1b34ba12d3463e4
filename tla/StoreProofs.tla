-------------------------- MODULE StoreProofs -------------------------
(***************************************************************************)
(* Proofs about Store, for any set of callers and any number of calls.     *)
(*                                                                         *)
(* StoreInv is inductive.  Its heart is CopyCurrent: because the mutex is  *)
(* held from the read to the rename, the copy the holder renames over the  *)
(* file is exactly the file with the holder's own change.                  *)
(***************************************************************************)
EXTENDS Store, TLAPS

(* A missing file stands for a well-formed configuration.                  *)
LEMMA ContentsType ==
    ASSUME TypeOK, NeverTorn
    PROVE  Contents \in Config
  BY DEF TypeOK, NeverTorn, Contents, EmptyConfig, Config

LEMMA InitStore == Init => StoreInv
  BY StoreAssumption
     DEF StoreAssumption, Init, StoreInv, TypeOK, NeverTorn, MutexHeld,
         CopyCurrent, AckedDurable, AckEarned, Contents, EmptyConfig, Config,
         PCs, Inside

(* A step of caller p that leaves the files alone: it moves p along, and   *)
(* whatever it does to p's copy, p's claims about it still hold.           *)
LEMMA LocalStep ==
    ASSUME StoreInv, StoreAssumption, NEW p \in Callers, NEW step \in PCs,
           Goto(p, step), TypeOK', MutexHeld',
           UNCHANGED <<file, acked>>,
           \A q \in Callers \ {p} :
               pc[q] = "written" => tmp' = tmp,
           \A q \in Callers \ {p} : cfg'[q] = cfg[q] /\ kind'[q] = kind[q],
           step \in {"read", "changed", "writing", "written"} =>
               kind'[p] = "update",
           step = "read" => cfg'[p] = Contents,
           step \in {"changed", "writing", "written"} =>
               cfg'[p] = [Contents EXCEPT ![p] = @ + 1],
           step = "written" => tmp' = cfg'[p],
           step = "done" => kind'[p] # "update"
    PROVE  StoreInv'
<1>1. Contents' = Contents
  BY DEF Contents
<1>2. /\ pc'[p] = step
      /\ \A q \in Callers \ {p} : pc'[q] = pc[q]
  BY DEF Goto, StoreInv, TypeOK
<1>3. NeverTorn' /\ AckedDurable'
  BY <1>1 DEF StoreInv, NeverTorn, AckedDurable
<1>4. CopyCurrent'
  <2> SUFFICES ASSUME NEW q \in Callers
               PROVE
        /\ pc'[q] \in {"read", "changed", "writing", "written"} =>
               kind'[q] = "update"
        /\ pc'[q] = "read" => cfg'[q] = Contents'
        /\ pc'[q] \in {"changed", "writing", "written"} =>
               cfg'[q] = [Contents' EXCEPT ![q] = @ + 1]
        /\ pc'[q] = "written" => tmp' = cfg'[q]
    BY DEF CopyCurrent
  <2>1. CASE q = p
    BY <1>1, <1>2, <2>1
  <2>2. CASE q # p
    BY <1>1, <1>2, <2>2 DEF StoreInv, CopyCurrent
  <2> QED
    BY <2>1, <2>2
<1>5. AckEarned'
  BY <1>1, <1>2 DEF StoreInv, AckEarned
<1> QED
  BY <1>3, <1>4, <1>5 DEF StoreInv

(* At most one caller is past the lock.                                    *)
LEMMA Alone ==
    ASSUME StoreInv, NEW p \in Callers, pc[p] \in Inside
    PROVE  mu = p /\ \A q \in Callers \ {p} : pc[q] \notin Inside
  BY DEF StoreInv, MutexHeld

LEMMA NextStore == StoreInv /\ [Next]_vars => StoreInv'
<1> SUFFICES ASSUME StoreInv, [Next]_vars
             PROVE  StoreInv'
  OBVIOUS
<1> USE StoreAssumption DEF StoreAssumption
<1>0. Contents \in Config /\ file # Torn
  BY ContentsType DEF StoreInv, NeverTorn
<1>1. ASSUME NEW p \in Callers, NEW k \in {"update", "load"}, Begin(p, k)
      PROVE  StoreInv'
  <2>1. TypeOK' /\ MutexHeld'
    BY <1>1 DEF StoreInv, TypeOK, MutexHeld, Begin, Goto, PCs, Inside
  <2>2. \A q \in Callers \ {p} : cfg'[q] = cfg[q] /\ kind'[q] = kind[q]
    BY <1>1 DEF Begin, StoreInv, TypeOK
  <2> QED
    BY <1>1, <2>1, <2>2, LocalStep DEF Begin, PCs
<1>2. ASSUME NEW p \in Callers, Lock(p)
      PROVE  StoreInv'
  <2>1. TypeOK' /\ MutexHeld'
    BY <1>2 DEF StoreInv, TypeOK, MutexHeld, Lock, Goto, PCs, Inside
  <2> QED
    BY <1>2, <2>1, LocalStep DEF Lock, PCs
<1>3. ASSUME NEW p \in Callers, LoadFile(p)
      PROVE  StoreInv'
  <2>1. TypeOK' /\ MutexHeld'
    BY <1>0, <1>3 DEF StoreInv, TypeOK, MutexHeld, LoadFile, Goto, PCs, Inside
  <2> QED
    BY <1>3, <2>1, LocalStep DEF LoadFile, PCs
<1>4. ASSUME NEW p \in Callers, LoadLocked(p)
      PROVE  StoreInv'
  <2>1. TypeOK' /\ MutexHeld'
    BY <1>0, <1>4 DEF StoreInv, TypeOK, MutexHeld, LoadLocked, Goto, PCs, Inside
  <2>2. /\ cfg'[p] = Contents
        /\ \A q \in Callers \ {p} : cfg'[q] = cfg[q]
    BY <1>4 DEF LoadLocked, StoreInv, TypeOK
  <2> QED
    BY <1>4, <2>1, <2>2, LocalStep DEF LoadLocked, PCs
<1>5. ASSUME NEW p \in Callers, Callback(p)
      PROVE  StoreInv'
  <2>1. cfg \in [Callers -> Config] /\ cfg[p] = Contents /\ kind[p] = "update"
    BY <1>5 DEF StoreInv, TypeOK, CopyCurrent, Callback
  <2>2. [cfg[p] EXCEPT ![p] = @ + 1] \in Config
    BY <2>1 DEF Config
  <2>3. /\ cfg' = [cfg EXCEPT ![p] = [cfg[p] EXCEPT ![p] = @ + 1]]
    BY <1>5, <2>1 DEF Callback
  <2>4. /\ cfg'[p] = [Contents EXCEPT ![p] = @ + 1]
        /\ \A q \in Callers \ {p} : cfg'[q] = cfg[q]
        /\ cfg' \in [Callers -> Config]
    BY <2>1, <2>2, <2>3
  <2>5. TypeOK' /\ MutexHeld'
    BY <1>5, <2>4 DEF StoreInv, TypeOK, MutexHeld, Callback, Goto, PCs, Inside
  <2> QED
    BY <1>5, <2>1, <2>4, <2>5, LocalStep DEF Callback, PCs
<1>6. ASSUME NEW p \in Callers, OpenTmp(p)
      PROVE  StoreInv'
  <2>1. TypeOK' /\ MutexHeld'
    BY <1>6 DEF StoreInv, TypeOK, MutexHeld, OpenTmp, Goto, PCs, Inside
  <2>2. \A q \in Callers \ {p} : pc[q] # "written"
    BY <1>6, Alone DEF OpenTmp, Inside
  <2> QED
    BY <1>6, <2>1, <2>2, LocalStep DEF OpenTmp, PCs, StoreInv, CopyCurrent
<1>7. ASSUME NEW p \in Callers, WriteTmp(p)
      PROVE  StoreInv'
  <2>1. TypeOK' /\ MutexHeld'
    BY <1>7 DEF StoreInv, TypeOK, MutexHeld, WriteTmp, Goto, PCs, Inside
  <2>2. \A q \in Callers \ {p} : pc[q] # "written"
    BY <1>7, Alone DEF WriteTmp, Inside
  <2> QED
    BY <1>7, <2>1, <2>2, LocalStep DEF WriteTmp, PCs, StoreInv, CopyCurrent
<1>8. ASSUME NEW p \in Callers, RenameTmp(p)
      PROVE  StoreInv'
  <2>1. /\ tmp = [Contents EXCEPT ![p] = @ + 1]
        /\ cfg[p] = tmp
        /\ kind[p] = "update"
    BY <1>8 DEF StoreInv, CopyCurrent, RenameTmp
  <2>2. tmp \in Config
    BY <1>0, <2>1 DEF Config
  <2>3. Contents' = [Contents EXCEPT ![p] = @ + 1]
    BY <1>8, <2>1, <2>2 DEF RenameTmp, Contents
  <2>4. TypeOK' /\ MutexHeld' /\ NeverTorn'
    BY <1>8, <2>2
       DEF StoreInv, TypeOK, MutexHeld, NeverTorn, RenameTmp, Goto, PCs, Inside
  <2>5. \A q \in Callers \ {p} : pc[q] \notin Inside /\ pc'[q] = pc[q]
    BY <1>8, Alone DEF RenameTmp, Goto, Inside, StoreInv, TypeOK
  <2>6. pc'[p] = "done"
    BY <1>8 DEF RenameTmp, Goto, StoreInv, TypeOK
  <2>7. CopyCurrent'
    BY <2>5, <2>6 DEF CopyCurrent, Inside
  <2>8. \A q \in Callers : /\ Contents[q] <= Contents'[q]
                            /\ Contents[q] \in Nat /\ Contents'[q] \in Nat
    BY <1>0, <2>3 DEF Config
  <2>9. AckedDurable'
    BY <1>8, <2>8 DEF AckedDurable, StoreInv, TypeOK, RenameTmp, Config
  <2>10. AckEarned'
    <3>0. Contents'[p] = Contents[p] + 1
      BY <1>0, <2>3 DEF Config
    <3>1. acked[p] < Contents'[p]
      BY <3>0, <1>0, <2>3 DEF StoreInv, AckedDurable, TypeOK, Config
    <3> QED
      BY <1>8, <2>5, <2>6, <3>1 DEF AckEarned, RenameTmp, Inside
  <2> QED
    BY <2>4, <2>7, <2>9, <2>10 DEF StoreInv
<1>9. ASSUME NEW p \in Callers, FailStep(p)
      PROVE  StoreInv'
  <2>1. TypeOK' /\ MutexHeld'
    BY <1>9 DEF StoreInv, TypeOK, MutexHeld, FailStep, Goto, PCs, Inside
  <2> QED
    BY <1>9, <2>1, LocalStep DEF FailStep, PCs
<1>10. ASSUME NEW p \in Callers, Return(p)
       PROVE  StoreInv'
  <2>1. mu = p /\ \A q \in Callers \ {p} : pc[q] \notin Inside
    BY <1>10, Alone DEF Return, Inside
  <2>2. pc' = [pc EXCEPT ![p] = "idle"] /\ mu' = NoCaller
    BY <1>10 DEF Return, Goto
  <2>3. TypeOK' /\ NeverTorn'
    BY <1>10 DEF StoreInv, TypeOK, NeverTorn, Return, Goto, PCs
  <2>4. MutexHeld' /\ CopyCurrent' /\ AckEarned'
    BY <2>1, <2>2
       DEF MutexHeld, CopyCurrent, AckEarned, Inside, StoreInv, TypeOK
  <2>5. Contents' = Contents
    BY <1>10 DEF Return, Contents
  <2>6. \A q \in Callers : acked'[q] <= Contents[q]
    BY <1>0, <1>10
       DEF Return, StoreInv, AckedDurable, AckEarned, TypeOK, Config
  <2> QED
    BY <2>3, <2>4, <2>5, <2>6 DEF StoreInv, AckedDurable
<1>11. CASE Crash
  <2>1. TypeOK' /\ NeverTorn' /\ MutexHeld' /\ CopyCurrent' /\ AckEarned'
    BY <1>11
       DEF Crash, StoreInv, TypeOK, NeverTorn, MutexHeld, CopyCurrent,
           AckEarned, PCs, Inside
  <2>2. AckedDurable'
    BY <1>11 DEF Crash, StoreInv, AckedDurable, Contents
  <2> QED
    BY <2>1, <2>2 DEF StoreInv
<1>12. CASE UNCHANGED vars
  BY <1>12 DEF vars, StoreInv, TypeOK, NeverTorn, MutexHeld, CopyCurrent,
               AckedDurable, AckEarned, Contents
<1> QED
  BY <1>1, <1>2, <1>3, <1>4, <1>5, <1>6, <1>7, <1>8, <1>9, <1>10, <1>11, <1>12
     DEF Next, Step

(* The inductive invariant of the store.                                   *)
THEOREM StoreInvariant == Spec => []StoreInv
  BY InitStore, NextStore, PTL DEF Spec

(* Types of the files, the mutex and every caller's locals.                *)
THEOREM StoreTypeOK == Spec => []TypeOK
<1>1. StoreInv => TypeOK
  BY DEF StoreInv
<1> QED
  BY <1>1, StoreInvariant, PTL

(* config.json is never seen half-written.                                 *)
THEOREM FileNeverTorn == Spec => []NeverTorn
<1>1. StoreInv => NeverTorn
  BY DEF StoreInv
<1> QED
  BY <1>1, StoreInvariant, PTL

(* An acknowledged update is never lost.                                   *)
THEOREM NoLostUpdate == Spec => []AckedDurable
<1>1. StoreInv => AckedDurable
  BY DEF StoreInv
<1> QED
  BY <1>1, StoreInvariant, PTL

-----------------------------------------------------------------------
(* Refinement: the store is an atomic, durable register.                   *)

Phases == [p \in Callers |-> PhaseOf(p)]

(* A step of p changes p's phase only.                                     *)
LEMMA PhaseStep ==
    ASSUME TypeOK, NEW p \in Callers, NEW step \in PCs, Goto(p, step),
           \A q \in Callers \ {p} : kind'[q] = kind[q]
    PROVE  Phases' = [Phases EXCEPT ![p] = PhaseOf(p)']
<1>1. \A q \in Callers \ {p} : pc'[q] = pc[q]
  BY DEF Goto, TypeOK
<1>2. \A q \in Callers \ {p} : PhaseOf(q)' = PhaseOf(q)
  BY <1>1 DEF PhaseOf
<1> QED
  BY <1>2 DEF Phases

LEMMA StoreStepRefines ==
    ASSUME StoreInv, [Next]_vars
    PROVE  [Reg!RNext]_(Reg!rvars)
<1> USE StoreAssumption DEF StoreAssumption
<1>0. TypeOK /\ Contents \in Config
  BY ContentsType DEF StoreInv
<1>1. ASSUME NEW p \in Callers, NEW k \in {"update", "load"}, Begin(p, k)
      PROVE  Reg!Ask(p)
  <2>1. /\ \A q \in Callers \ {p} : kind'[q] = kind[q]
        /\ pc'[p] = "waiting" /\ kind'[p] = k /\ pc[p] = "idle"
    BY <1>0, <1>1 DEF Begin, Goto, TypeOK
  <2>2. PhaseOf(p) = "idle" /\ PhaseOf(p)' = k
    BY <2>1 DEF PhaseOf
  <2>3. Phases' = [Phases EXCEPT ![p] = k]
    BY <1>0, <1>1, <2>1, <2>2, PhaseStep DEF Begin, PCs
  <2> QED
    BY <1>1, <2>2, <2>3 DEF Begin, Reg!Ask, Phases, Contents
<1>2. ASSUME NEW p \in Callers,
             Lock(p) \/ LoadLocked(p) \/ Callback(p) \/ OpenTmp(p) \/ WriteTmp(p)
      PROVE  UNCHANGED Reg!rvars
  <2>1. PICK step \in PCs :
          /\ Goto(p, step)
          /\ step \in {"locked", "read", "changed", "writing", "written"}
          /\ UNCHANGED kind
          /\ pc[p] \in {"waiting", "locked", "read", "changed", "writing"}
    BY <1>2 DEF Lock, LoadLocked, Callback, OpenTmp, WriteTmp, PCs
  <2>2. pc'[p] = step
    BY <1>0, <2>1 DEF Goto, TypeOK
  <2>3. PhaseOf(p)' = kind[p] /\ PhaseOf(p) = kind[p]
    BY <2>1, <2>2 DEF PhaseOf
  <2>4. Phases' = [Phases EXCEPT ![p] = PhaseOf(p)]
    BY <1>0, <2>1, <2>3, PhaseStep
  <2>5. Phases' = Phases
    BY <2>4 DEF Phases
  <2>6. UNCHANGED <<Contents, acked, seen>>
    BY <1>2 DEF Lock, LoadLocked, Callback, OpenTmp, WriteTmp, Contents
  <2> QED
    BY <2>5, <2>6 DEF Reg!rvars, Phases
<1>3. ASSUME NEW p \in Callers, LoadFile(p)
      PROVE  Reg!Look(p)
  <2>1. /\ UNCHANGED kind /\ Goto(p, "done") /\ pc'[p] = "done"
        /\ pc[p] = "locked" /\ kind[p] = "load"
    BY <1>0, <1>3 DEF LoadFile, Goto, TypeOK
  <2>2. PhaseOf(p) = "load" /\ PhaseOf(p)' = "looked"
    BY <2>1 DEF PhaseOf
  <2>3. Phases' = [Phases EXCEPT ![p] = "looked"]
    BY <1>0, <2>1, <2>2, PhaseStep DEF PCs
  <2> QED
    BY <1>3, <2>2, <2>3 DEF LoadFile, Reg!Look, Phases, Contents
<1>4. ASSUME NEW p \in Callers, RenameTmp(p)
      PROVE  Reg!Apply(p)
  <2>1. /\ UNCHANGED kind /\ Goto(p, "done") /\ pc'[p] = "done"
        /\ pc[p] = "written" /\ kind[p] = "update"
        /\ tmp = [Contents EXCEPT ![p] = @ + 1]
    BY <1>0, <1>4 DEF RenameTmp, Goto, TypeOK, StoreInv, CopyCurrent
  <2>2. PhaseOf(p) = "update" /\ PhaseOf(p)' = "applied"
    BY <2>1 DEF PhaseOf
  <2>3. Phases' = [Phases EXCEPT ![p] = "applied"]
    BY <1>0, <2>1, <2>2, PhaseStep DEF PCs
  <2>4. tmp \in Config
    BY <1>0, <2>1 DEF Config
  <2>5. Contents' = [Contents EXCEPT ![p] = @ + 1]
    BY <1>4, <2>1, <2>4 DEF RenameTmp, Contents
  <2> QED
    BY <1>4, <2>2, <2>3, <2>5 DEF RenameTmp, Reg!Apply, Phases
<1>5. ASSUME NEW p \in Callers, FailStep(p)
      PROVE  Reg!Refuse(p)
  <2>1. /\ UNCHANGED kind /\ Goto(p, "failed") /\ pc'[p] = "failed"
        /\ pc[p] \in {"locked", "read", "changed", "writing", "written"}
        /\ kind[p] \in {"update", "load"}
    BY <1>0, <1>5 DEF FailStep, Goto, TypeOK
  <2>2. PhaseOf(p) \in {"update", "load"} /\ PhaseOf(p)' = "refused"
    BY <2>1 DEF PhaseOf
  <2>3. Phases' = [Phases EXCEPT ![p] = "refused"]
    BY <1>0, <2>1, <2>2, PhaseStep DEF PCs
  <2> QED
    BY <1>5, <2>2, <2>3 DEF FailStep, Reg!Refuse, Phases, Contents
<1>6. ASSUME NEW p \in Callers, Return(p)
      PROVE  Reg!Reply(p)
  <2>1. /\ UNCHANGED kind /\ Goto(p, "idle") /\ pc'[p] = "idle"
        /\ pc[p] \in {"done", "failed"} /\ kind[p] \in {"update", "load"}
    BY <1>0, <1>6 DEF Return, Goto, TypeOK
  <2>2. /\ PhaseOf(p) \in {"applied", "looked", "refused"}
        /\ PhaseOf(p) = "applied" <=> (pc[p] = "done" /\ kind[p] = "update")
        /\ PhaseOf(p)' = "idle"
    BY <2>1 DEF PhaseOf
  <2>3. Phases' = [Phases EXCEPT ![p] = "idle"]
    BY <1>0, <2>1, <2>2, PhaseStep DEF PCs
  <2> QED
    BY <1>6, <2>2, <2>3 DEF Return, Reg!Reply, Phases, Contents
<1>7. ASSUME Crash
      PROVE  Reg!Reset
  <2>1. Phases' = [p \in Callers |-> "idle"]
    BY <1>7 DEF Crash, Phases, PhaseOf
  <2> QED
    BY <1>7, <2>1 DEF Crash, Reg!Reset, Phases, Contents
<1>8. CASE UNCHANGED vars
  BY <1>8 DEF vars, Reg!rvars, PhaseOf, Contents
<1> QED
  BY <1>1, <1>2, <1>3, <1>4, <1>5, <1>6, <1>7, <1>8
     DEF Next, Step, Reg!RNext

(* The configuration file is an atomic register for every set of callers:  *)
(* what justifies treating a Store.Update as one step everywhere else.     *)
THEOREM StoreImplementsRegister == Spec => ImplementsRegister
<1>1. Init => Reg!RInit
  BY DEF Init, Reg!RInit, Reg!Nothing, PhaseOf, Contents, EmptyConfig
<1>2. StoreInv /\ [Next]_vars => [Reg!RNext]_(Reg!rvars)
  BY StoreStepRefines
<1> QED
  BY <1>1, <1>2, StoreInvariant, PTL
     DEF Spec, ImplementsRegister, Reg!RSpec

=======================================================================
