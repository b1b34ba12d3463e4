------------------------- MODULE KeyMaterial --------------------------
(***************************************************************************)
(* The two pairs of files a daemon makes at its first start: tls.crt and   *)
(* tls.key (bridgetls.EnsureMaterial), identity.key and identity.pub       *)
(* (auth.EnsureIdentity), in that order.                                   *)
(*                                                                         *)
(* Each start of the daemon is a run; runs may overlap, when a service     *)
(* manager starts one beside another, and any may die at any step.  What a *)
(* file holds is the run that made it: the two halves of a pair belong     *)
(* together if one run made both.  Creating a file and filling it are two  *)
(* steps.                                                                  *)
(***************************************************************************)
EXTENDS Integers

CONSTANTS
    Runs,
    Absent,     \* no such file
    Torn        \* created but not, or only half, written

ASSUME KeyMaterialAssumption ==
    /\ Absent \notin Runs
    /\ Torn \notin Runs
    /\ Absent # Torn

Pairs == {"tls", "identity"}
Halves == {"first", "second"}

VARIABLES
    file,     \* Pairs -> Halves -> what the file holds
    pc,       \* Runs -> next step
    pair,     \* Runs -> which pair it is at
    seen,     \* Runs -> whether it saw the first file of the pair
    material, \* Runs -> Pairs -> the halves it holds in memory
    served,   \* Runs -> the run that made the pair it serves with
    (* history *)
    mishap    \* a run died or failed to write, or two runs overlapped

vars == <<file, pc, pair, seen, material, served, mishap>>

Content == Runs \union {Absent, Torn}

(* A block decodes, with the type and the key it should have.              *)
Whole(f) == f \notin {Absent, Torn}

PCs == {"new", "stat first", "stat second", "read first", "read second",
        "create first", "fill first", "create second", "fill second",
        "listen", "serving", "failed", "dead"}
Gone == {"failed", "dead"}
Starting == PCs \ ({"new", "serving"} \union Gone)

TypeOK ==
    /\ file \in [Pairs -> [Halves -> Content]]
    /\ pc \in [Runs -> PCs]
    /\ pair \in [Runs -> Pairs]
    /\ seen \in [Runs -> BOOLEAN]
    /\ material \in [Runs -> [Pairs -> [Halves -> Runs \union {Absent}]]]
    /\ served \in [Runs -> Runs \union {Absent}]
    /\ mishap \in BOOLEAN

Nothing == [h \in Halves |-> Absent]

Init ==
    /\ file = [k \in Pairs |-> Nothing]
    /\ pc = [r \in Runs |-> "new"]
    /\ pair = [r \in Runs |-> "tls"]
    /\ seen = [r \in Runs |-> FALSE]
    /\ material = [r \in Runs |-> [k \in Pairs |-> Nothing]]
    /\ served = [r \in Runs |-> Absent]
    /\ mishap = FALSE

Goto(r, step) == pc' = [pc EXCEPT ![r] = step]
File(r, h) == file[pair[r]][h]
Hold(r, k, h, what) == material' = [material EXCEPT ![r][k][h] = what]

(* A pair is at hand: the identity is next, or the listener.               *)
Proceed(r) ==
    IF pair[r] = "tls"
    THEN Goto(r, "stat first") /\ pair' = [pair EXCEPT ![r] = "identity"]
    ELSE Goto(r, "listen") /\ UNCHANGED pair

Start(r) ==
    /\ pc[r] = "new"
    /\ Goto(r, "stat first")
    /\ mishap' = (mishap \/ \E q \in Runs : pc[q] \in Starting)
    /\ UNCHANGED <<file, pair, seen, material, served>>

StatFirst(r) ==
    /\ pc[r] = "stat first"
    /\ seen' = [seen EXCEPT ![r] = File(r, "first") # Absent]
    /\ Goto(r, "stat second")
    /\ UNCHANGED <<file, pair, material, served, mishap>>

\* Mutant of StatSecond: the cases in the other order.
StatSecondSwapped(r) ==
    /\ pc[r] = "stat second"
    /\ Goto(r, IF seen[r] \/ File(r, "second") # Absent
               THEN "failed" ELSE "create first")
    /\ UNCHANGED <<file, pair, seen, material, served, mishap>>

(* Both files are there, neither is, or the pair is incomplete.            *)
StatSecond(r) ==
    /\ pc[r] = "stat second"
    /\ LET also == File(r, "second") # Absent IN
       Goto(r, IF seen[r] /\ also THEN "read first"
               ELSE IF seen[r] \/ also THEN "failed"
               ELSE "create first")
    /\ UNCHANGED <<file, pair, seen, material, served, mishap>>

-----------------------------------------------------------------------
(* A pair that is there is read.                                           *)

(* EnsureMaterial reads no more than the certificate.                      *)
ReadFirst(r) ==
    /\ pc[r] = "read first"
    /\ IF ~Whole(File(r, "first"))
       THEN Goto(r, "failed") /\ UNCHANGED <<pair, material>>
       ELSE /\ Hold(r, pair[r], "first", File(r, "first"))
            /\ IF pair[r] = "tls" THEN Proceed(r)
               ELSE Goto(r, "read second") /\ UNCHANGED pair
    /\ UNCHANGED <<file, seen, served, mishap>>

ReadSecond(r) ==
    /\ pc[r] = "read second"
    /\ IF ~Whole(File(r, "second"))
       THEN Goto(r, "failed") /\ UNCHANGED <<pair, material>>
       ELSE Hold(r, pair[r], "second", File(r, "second")) /\ Proceed(r)
    /\ UNCHANGED <<file, seen, served, mishap>>

-----------------------------------------------------------------------
(* A pair that is not there is made.                                       *)

Put(r, h, what) == file' = [file EXCEPT ![pair[r]][h] = what]

\* Mutant of Create: without O_EXCL.
CreateAnyway(r, h, at, next) ==
    /\ pc[r] = at
    /\ Put(r, h, Torn)
    /\ Goto(r, next)
    /\ UNCHANGED <<pair, seen, material, served, mishap>>

(* O_CREATE and O_EXCL.                                                    *)
Create(r, h, at, next) ==
    /\ pc[r] = at
    /\ IF File(r, h) # Absent
       THEN Goto(r, "failed") /\ UNCHANGED file
       ELSE Put(r, h, Torn) /\ Goto(r, next)
    /\ UNCHANGED <<pair, seen, material, served, mishap>>

CreateFirst(r) == Create(r, "first", "create first", "fill first")
CreateSecond(r) == Create(r, "second", "create second", "fill second")

FillFirst(r) ==
    /\ pc[r] = "fill first"
    /\ Put(r, "first", r)
    /\ Hold(r, pair[r], "first", r)
    /\ Goto(r, "create second")
    /\ UNCHANGED <<pair, seen, served, mishap>>

FillSecond(r) ==
    /\ pc[r] = "fill second"
    /\ Put(r, "second", r)
    /\ IF pair[r] = "tls" THEN UNCHANGED material
       ELSE Hold(r, "identity", "second", r)
    /\ Proceed(r)
    /\ UNCHANGED <<seen, served, mishap>>

WriteFails(r) ==
    /\ pc[r] \in {"create first", "fill first", "create second", "fill second"}
    /\ Goto(r, "failed")
    /\ mishap' = TRUE
    /\ UNCHANGED <<file, pair, seen, material, served>>

-----------------------------------------------------------------------
(* The two halves of a pair belong together.                               *)
Complete(k) == Whole(file[k].first) /\ file[k].second = file[k].first

(* ListenAndServeTLS reads both files, and refuses halves that do not      *)
(* belong together.                                                        *)
Listen(r) ==
    /\ pc[r] = "listen"
    /\ IF Complete("tls")
       THEN Goto(r, "serving") /\ served' = [served EXCEPT ![r] = file["tls"].first]
       ELSE Goto(r, "failed") /\ UNCHANGED served
    /\ UNCHANGED <<file, pair, seen, material, mishap>>

Die(r) ==
    /\ pc[r] \notin Gone \union {"new"}
    /\ Goto(r, "dead")
    /\ mishap' = (mishap \/ pc[r] # "serving")
    /\ UNCHANGED <<file, pair, seen, material, served>>

Next == \E r \in Runs :
    \/ Start(r)
    \/ StatFirst(r) \/ StatSecond(r)
    \/ ReadFirst(r) \/ ReadSecond(r)
    \/ CreateFirst(r) \/ FillFirst(r)
    \/ CreateSecond(r) \/ FillSecond(r)
    \/ WriteFails(r)
    \/ Listen(r)
    \/ Die(r)

Spec == Init /\ [][Next]_vars

-----------------------------------------------------------------------
(* Properties.                                                             *)

(* A daemon that serves has an identity whose halves belong together, and  *)
(* serves with the certificate whose fingerprint it announces: neither     *)
(* file is ever compared with the other by loadIdentity, nor the announced *)
(* certificate with the served one.                                        *)
ServesWhatItHolds ==
    \A r \in Runs : pc[r] = "serving" =>
        /\ material[r]["identity"].first = material[r]["identity"].second
        /\ material[r]["tls"].first = served[r]

(* Every daemon that ever serves has the same certificate and identity:    *)
(* paired clients keep their pinned fingerprint and their tokens, however  *)
(* many starts raced or died before (fileExists, and O_EXCL in             *)
(* writePEMFile).                                                          *)
OneIdentity ==
    \A q, r \in Runs : served[q] # Absent /\ served[r] # Absent =>
        material[q] = material[r]

(* Starting again is safe: if no run died, failed to write or overlapped   *)
(* another while it started, no start fails.                               *)
FailsOnlyAfterMishap ==
    ~mishap => \A r \in Runs : pc[r] # "failed"

-----------------------------------------------------------------------
(* What they rest on, shown inductive in DaemonProofs.                     *)

(* A second file is made by the run that made the first.                   *)
HalvesBelong ==
    \A k \in Pairs :
        /\ file[k].second # Absent => Whole(file[k].first)
        /\ Whole(file[k].second) => Complete(k)

(* Nobody else fills what a run has created.                               *)
OwnWork ==
    \A r \in Runs :
        /\ pc[r] = "fill first" =>
               /\ File(r, "first") = Torn
               /\ \A q \in Runs \ {r} :
                      ~(pc[q] = "fill first" /\ pair[q] = pair[r])
        /\ pc[r] \in {"create second", "fill second"} =>
               File(r, "first") = r /\ material[r][pair[r]].first = r
        /\ pc[r] = "create second" => File(r, "second") = Absent
        /\ pc[r] = "fill second" => File(r, "second") = Torn

(* What a run holds is still in the file.                                  *)
HeldIsThere ==
    \A r \in Runs, k \in Pairs, h \in Halves :
        material[r][k][h] \in {Absent, file[k][h]}

HoldsEnough ==
    \A r \in Runs :
        /\ material[r]["tls"].second = Absent
        /\ pair[r] = "identity" => material[r]["tls"].first # Absent
        /\ pc[r] = "read second" =>
               pair[r] = "identity" /\ material[r]["identity"].first # Absent
        /\ pc[r] \in {"listen", "serving"} \/ served[r] # Absent =>
               pair[r] = "identity" /\ Absent \notin {material[r]["identity"].first,
                                                      material[r]["identity"].second}

ServedIsThere ==
    \A r \in Runs :
        /\ pc[r] = "serving" => served[r] # Absent
        /\ served[r] # Absent => served[r] = file["tls"].first /\ Complete("tls")

Bare(k) == \A h \in Halves : file[k][h] = Absent

Begun(k) ==
    \E r \in Runs : pair[r] = k
        /\ pc[r] \in {"fill first", "create second", "fill second"}

(* Without a mishap only one run starts at a time, and it finds each pair  *)
(* complete or leaves none behind that is not.                             *)
StartsTidy ==
    ~mishap =>
        /\ \A q, r \in Runs : {pc[q], pc[r]} \subseteq Starting => q = r
        /\ \A k \in Pairs : Bare(k) \/ Complete(k) \/ Begun(k)
        /\ \A r \in Runs :
               /\ pc[r] = "stat second" => seen[r] = (File(r, "first") # Absent)
               /\ pc[r] = "create first" => Bare(pair[r])
               /\ pc[r] \in {"read first", "read second"} => Complete(pair[r])
               /\ pc[r] # "failed"

KeyInv ==
    /\ TypeOK
    /\ HalvesBelong
    /\ OwnWork
    /\ HeldIsThere
    /\ HoldsEnough
    /\ ServedIsThere
    /\ StartsTidy

=======================================================================
