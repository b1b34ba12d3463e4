------------------------- MODULE DaemonProofs -------------------------
(***************************************************************************)
(* Proofs about KeyMaterial and Daemon: whatever starts, overlaps and      *)
(* dies, what is served belongs together (KeyInv); and a daemon that is    *)
(* alone keeps its control socket (SocketInv).                             *)
(***************************************************************************)
EXTENDS Daemon, TLAPS

-----------------------------------------------------------------------
(* The files.                                                              *)

(* Writing to one file.                                                    *)
LEMMA PutOne ==
    ASSUME TypeOK, NEW r \in Runs, NEW h \in Halves, NEW what \in Content,
           Put(r, h, what)
    PROVE  /\ file' \in [Pairs -> [Halves -> Content]]
           /\ file'[pair[r]][h] = what
           /\ \A j \in Pairs, g \in Halves : j # pair[r] => file'[j][g] = file[j][g]
           /\ \A j \in Pairs, g \in Halves :
                  j # pair[r] \/ g # h => file'[j][g] = file[j][g]
<1>1. /\ file \in [Pairs -> [Halves -> Content]]
      /\ pair[r] \in Pairs
      /\ file' = [file EXCEPT ![pair[r]] = [file[pair[r]] EXCEPT ![h] = what]]
  BY DEF TypeOK, Put
<1>2. [file[pair[r]] EXCEPT ![h] = what] \in [Halves -> Content]
  BY <1>1
<1> QED
  BY <1>1, <1>2

(* Taking one half into memory.                                          *)
LEMMA HoldOne ==
    ASSUME TypeOK, NEW r \in Runs, NEW k \in Pairs, NEW h \in Halves,
           NEW what \in Runs \union {Absent}, Hold(r, k, h, what)
    PROVE  /\ material' \in [Runs -> [Pairs -> [Halves -> Runs \union {Absent}]]]
           /\ material'[r][k][h] = what
           /\ \A q \in Runs, j \in Pairs, g \in Halves :
                  q # r => material'[q][j][g] = material[q][j][g]
           /\ \A q \in Runs, j \in Pairs, g \in Halves :
                  q # r \/ j # k \/ g # h => material'[q][j][g] = material[q][j][g]
<1>1. /\ material \in [Runs -> [Pairs -> [Halves -> Runs \union {Absent}]]]
      /\ material' = [material EXCEPT ![r] = [material[r] EXCEPT
                        ![k] = [material[r][k] EXCEPT ![h] = what]]]
  BY DEF TypeOK, Hold
<1>2. [material[r][k] EXCEPT ![h] = what] \in [Halves -> Runs \union {Absent}]
  BY <1>1
<1>3. [material[r] EXCEPT ![k] = [material[r][k] EXCEPT ![h] = what]]
        \in [Pairs -> [Halves -> Runs \union {Absent}]]
  BY <1>1, <1>2
<1> QED
  BY <1>1, <1>2, <1>3

(* No run has begun, and no file is there.                               *)
LEMMA InitKey == Init => KeyInv
<1> SUFFICES ASSUME Init PROVE KeyInv
  OBVIOUS
<1> USE KeyMaterialAssumption DEF KeyMaterialAssumption, Init
<1>1. Nothing \in [Halves -> Content]
      /\ Nothing \in [Halves -> Runs \union {Absent}]
      /\ \A h \in Halves : Nothing[h] = Absent
  BY DEF Nothing, Content
<1>2. TypeOK
  BY <1>1 DEF TypeOK, PCs, Pairs
<1>3. HalvesBelong /\ OwnWork /\ HeldIsThere
  BY <1>1 DEF HalvesBelong, OwnWork, HeldIsThere, Whole, Halves
<1>4. HoldsEnough /\ ServedIsThere
  BY <1>1 DEF HoldsEnough, ServedIsThere, Halves, Pairs
<1>5. StartsTidy
  <2>1. \A r \in Runs : pc[r] = "new" /\ pc[r] \notin Starting
    BY DEF Starting
  <2>2. \A k \in Pairs : Bare(k)
    BY <1>1 DEF Bare
  <2> QED
    BY <2>1, <2>2 DEF StartsTidy
<1> QED
  BY <1>2, <1>3, <1>4, <1>5 DEF KeyInv

(* The conjuncts, and the types point by point.                            *)
LEMMA Points ==
    ASSUME KeyInv
    PROVE  /\ TypeOK /\ HalvesBelong /\ OwnWork /\ HeldIsThere
           /\ HoldsEnough /\ ServedIsThere /\ StartsTidy
           /\ \A q \in Runs : pc[q] \in PCs /\ pair[q] \in Pairs
                             /\ served[q] \in Runs \union {Absent}
           /\ \A j \in Pairs, g \in Halves : file[j][g] \in Content
           /\ \A q \in Runs, j \in Pairs, g \in Halves :
                  material[q][j][g] \in Runs \union {Absent}
           /\ "first" \in Halves /\ "second" \in Halves
           /\ \A h \in Halves : h = "first" \/ h = "second"
<1>1. /\ TypeOK /\ HalvesBelong /\ OwnWork /\ HeldIsThere
      /\ HoldsEnough /\ ServedIsThere /\ StartsTidy
  BY DEF KeyInv
<1>2. \A q \in Runs : pc[q] \in PCs /\ pair[q] \in Pairs
                      /\ served[q] \in Runs \union {Absent}
  BY <1>1 DEF TypeOK
<1>3. \A j \in Pairs, g \in Halves : file[j][g] \in Content
  BY <1>1 DEF TypeOK
<1>4. ASSUME NEW q \in Runs, NEW j \in Pairs, NEW g \in Halves
      PROVE  material[q][j][g] \in Runs \union {Absent}
  <2>1. material[q] \in [Pairs -> [Halves -> Runs \union {Absent}]]
    BY <1>1 DEF TypeOK
  <2> QED
    BY <2>1
<1> QED
  BY <1>1, <1>2, <1>3, <1>4 DEF Halves

(* Without a mishap nobody else is starting.                               *)
LEMMA Alone ==
    ASSUME KeyInv, ~mishap, NEW r \in Runs, pc[r] \in Starting,
           NEW q \in Runs, q # r
    PROVE  pc[q] \notin Starting /\ pc[q] # "failed"
<1>1. /\ \A p, o \in Runs : {pc[p], pc[o]} \subseteq Starting => p = o
      /\ pc[q] # "failed"
  BY Points DEF StartsTidy
<1>2. pc[q] \in Starting => {pc[q], pc[r]} \subseteq Starting
  OBVIOUS
<1> QED
  BY <1>1, <1>2

Working == {"fill first", "create second", "fill second"}

(* A pair that nobody has touched is as tidy as it was.                    *)
LEMMA AsBefore ==
    ASSUME KeyInv, ~mishap, NEW r \in Runs, pc[r] \notin Working,
           file' = file,
           \A q \in Runs : q # r => pc'[q] = pc[q] /\ pair'[q] = pair[q]
    PROVE  \A k \in Pairs : (Bare(k) \/ Complete(k) \/ Begun(k))'
<1> SUFFICES ASSUME NEW k \in Pairs
             PROVE  (Bare(k) \/ Complete(k) \/ Begun(k))'
  OBVIOUS
<1>1. CASE Bare(k)
  BY <1>1 DEF Bare
<1>2. CASE Complete(k)
  BY <1>2 DEF Complete
<1>3. CASE Begun(k)
  <2>1. PICK q \in Runs : pair[q] = k /\ pc[q] \in Working
    BY <1>3 DEF Begun, Working
  <2> QED
    BY <2>1 DEF Begun, Working
<1> QED
  BY <1>1, <1>2, <1>3, Points DEF StartsTidy

(* Only the step of the one run that starts can disturb what holds before  *)
(* any mishap.                                                             *)
LEMMA TidyStep ==
    ASSUME KeyInv, NEW r \in Runs, NEW s \in PCs,
           pc[r] \in Starting, pc' = [pc EXCEPT ![r] = s],
           mishap' = mishap,
           ~mishap =>
               /\ \A k \in Pairs : (Bare(k) \/ Complete(k) \/ Begun(k))'
               /\ s = "stat second" => seen'[r] = (file'[pair'[r]].first # Absent)
               /\ s = "create first" => Bare(pair[r])'
               /\ s \in {"read first", "read second"} => Complete(pair[r])'
               /\ s # "failed"
    PROVE  StartsTidy'
<1> SUFFICES ASSUME ~mishap PROVE StartsTidy'
  BY DEF StartsTidy
<1>1. \A q \in Runs : q # r => pc[q] \notin Starting /\ pc[q] # "failed"
  BY Alone
<1>2. /\ \A q \in Runs : q # r => pc'[q] \notin Starting /\ pc'[q] # "failed"
      /\ pc'[r] = s
  BY <1>1, Points DEF TypeOK
<1>3. {"stat second", "create first", "read first", "read second"} \subseteq Starting
  BY DEF Starting, PCs, Gone
<1>4. \A q, p \in Runs : {pc'[q], pc'[p]} \subseteq Starting => q = p
  BY <1>2
<1>5. ASSUME NEW q \in Runs
      PROVE  /\ pc'[q] = "stat second" => seen'[q] = (file'[pair'[q]].first # Absent)
             /\ pc'[q] = "create first" => Bare(pair[q])'
             /\ pc'[q] \in {"read first", "read second"} => Complete(pair[q])'
             /\ pc'[q] # "failed"
  <2>1. CASE q = r
    BY <1>2, <2>1
  <2>2. CASE q # r
    BY <1>2, <1>3, <2>2
  <2> QED
    BY <2>1, <2>2
<1> QED
  BY <1>4, <1>5 DEF StartsTidy, File

(* A step that writes nothing and takes nothing.                           *)
Still == {"stat first", "stat second", "read first", "create first", "failed", "dead"}

LEMMA StillStep ==
    ASSUME KeyInv, NEW r \in Runs, NEW s \in Still,
           pc' = [pc EXCEPT ![r] = s], seen' \in [Runs -> BOOLEAN],
           mishap' \in BOOLEAN,
           UNCHANGED <<file, pair, material, served>>,
           StartsTidy'
    PROVE  KeyInv'
<1>1. /\ pc' \in [Runs -> PCs] /\ pc'[r] = s
      /\ \A q \in Runs : q # r => pc'[q] = pc[q]
  BY Points DEF TypeOK, PCs, Still
<1>2. TypeOK'
  BY <1>1, Points DEF TypeOK
<1>3. HalvesBelong' /\ HeldIsThere'
  BY Points DEF HalvesBelong, HeldIsThere, Complete
<1>4. OwnWork'
  BY <1>1, Points DEF OwnWork, File, Still
<1>5. HoldsEnough'
  BY <1>1, Points DEF HoldsEnough, Still
<1>6. ServedIsThere'
  BY <1>1, Points DEF ServedIsThere, Complete, Still
<1> QED
  BY <1>2, <1>3, <1>4, <1>5, <1>6 DEF KeyInv

(* Start: what earlier runs left is either tidy or a mishap.             *)
LEMMA StartKey ==
    ASSUME KeyInv, NEW r \in Runs, Start(r)
    PROVE  KeyInv'
<1>1. StartsTidy'
  <2> SUFFICES ASSUME ~mishap, \A q \in Runs : pc[q] \notin Starting
               PROVE  StartsTidy'
    BY DEF Start, StartsTidy
  <2>1. /\ \A q \in Runs : q # r => pc'[q] = pc[q]
        /\ pc'[r] = "stat first"
        /\ UNCHANGED <<file, pair, seen>>
    BY Points DEF Start, Goto, TypeOK
  <2>2. {"fill first", "create second", "fill second", "stat second",
         "create first", "read first", "read second"} \subseteq Starting
    BY DEF Starting, PCs, Gone
  <2>3. \A k \in Pairs : ~Begun(k)
    BY <2>2 DEF Begun
  <2>4. \A k \in Pairs : (Bare(k) \/ Complete(k))'
    <3>1. \A k \in Pairs : Bare(k) \/ Complete(k)
      BY <2>3, Points DEF StartsTidy
    <3> QED
      BY <2>1, <3>1 DEF Bare, Complete
  <2>5. \A q \in Runs : pc[q] # "failed"
    BY Points DEF StartsTidy
  <2> QED
    BY <2>1, <2>2, <2>4, <2>5 DEF StartsTidy
<1> QED
  BY <1>1, StillStep, Points DEF Start, Goto, Still, TypeOK

(* fileExists of the first file.                                         *)
LEMMA StatFirstKey ==
    ASSUME KeyInv, NEW r \in Runs, StatFirst(r)
    PROVE  KeyInv'
<1>1. /\ pc[r] = "stat first" /\ pc' = [pc EXCEPT ![r] = "stat second"]
      /\ seen' = [seen EXCEPT ![r] = file[pair[r]].first # Absent]
      /\ UNCHANGED <<file, pair, material, served, mishap>>
  BY DEF StatFirst, Goto, File
<1>2. seen' \in [Runs -> BOOLEAN] /\ seen'[r] = (file[pair[r]].first # Absent)
  BY <1>1, Points DEF TypeOK
<1>3. pc[r] \in Starting /\ "stat second" \in PCs \intersect Still
  BY <1>1 DEF Starting, PCs, Gone, Still
<1>4. ~mishap => \A k \in Pairs : (Bare(k) \/ Complete(k) \/ Begun(k))'
  <2>1. pc[r] \notin Working /\ \A q \in Runs : q # r => pc'[q] = pc[q] /\ pair'[q] = pair[q]
    BY <1>1, Points DEF TypeOK, Working
  <2> QED
    BY <1>1, <2>1, AsBefore
<1>5. StartsTidy'
  BY <1>1, <1>2, <1>3, <1>4, TidyStep
<1> QED
  BY <1>1, <1>2, <1>3, <1>5, StillStep, Points DEF TypeOK

(* fileExists of the second file, and what the two answers lead to.      *)
LEMMA StatSecondKey ==
    ASSUME KeyInv, NEW r \in Runs, StatSecond(r)
    PROVE  KeyInv'
<1> DEFINE also == file[pair[r]].second # Absent
           s == IF seen[r] /\ also THEN "read first"
                ELSE IF seen[r] \/ also THEN "failed" ELSE "create first"
<1>1. /\ pc[r] = "stat second" /\ pc' = [pc EXCEPT ![r] = s]
      /\ UNCHANGED <<file, pair, seen, material, served, mishap>>
  BY DEF StatSecond, Goto, File
<1>2. s \in PCs /\ s \in Still /\ pc[r] \in Starting /\ pc[r] \notin Working
  BY <1>1 DEF Starting, PCs, Gone, Still, Working
<1>3. ~mishap => \A k \in Pairs : (Bare(k) \/ Complete(k) \/ Begun(k))'
  BY <1>1, <1>2, AsBefore, Points DEF TypeOK
<1>4. ASSUME ~mishap
      PROVE  /\ s = "create first" => Bare(pair[r])
             /\ s = "read first" => Complete(pair[r])
             /\ s # "failed"
  <2>1. \A q \in Runs : q # r => pc[q] \notin Starting
    BY <1>2, <1>4, Alone
  <2>4. seen[r] = (file[pair[r]].first # Absent)
    BY <1>1, <1>4, Points DEF StartsTidy, File
  <2>2. ~Begun(pair[r])
    <3>1. Working \subseteq Starting
      BY DEF Working, Starting, PCs, Gone
    <3> QED
      BY <1>2, <2>1, <3>1 DEF Begun, Working
  <2>3. Bare(pair[r]) \/ Complete(pair[r])
    BY <1>4, <2>2, Points DEF StartsTidy
  <2> QED
    BY <2>3, <2>4, Points, KeyMaterialAssumption
    DEF Bare, Complete, Whole, KeyMaterialAssumption
<1>5. Bare(pair[r])' = Bare(pair[r]) /\ Complete(pair[r])' = Complete(pair[r])
  BY <1>1 DEF Bare, Complete
<1>6. s # "stat second" /\ s # "read second"
  OBVIOUS
<1> HIDE DEF s
<1>7. StartsTidy'
  BY <1>1, <1>2, <1>3, <1>4, <1>5, <1>6, TidyStep
<1> QED
  BY <1>1, <1>2, <1>7, StillStep, Points DEF TypeOK

(* Taking one half that is in the file.                                    *)
LEMMA TakeHeld ==
    ASSUME KeyInv, NEW r \in Runs, NEW k \in Pairs, NEW h \in Halves,
           Hold(r, k, h, file[k][h]), Whole(file[k][h]), file' = file
    PROVE  /\ material' \in [Runs -> [Pairs -> [Halves -> Runs \union {Absent}]]]
           /\ \A q \in Runs, j \in Pairs, g \in Halves :
                  material'[q][j][g] = IF q = r /\ j = k /\ g = h THEN file[k][h]
                                       ELSE material[q][j][g]
           /\ HeldIsThere'
<1>1. file[k][h] \in Runs \union {Absent}
  BY Points DEF Whole, Content
<1>0. TypeOK
  BY Points
<1>2. /\ material' \in [Runs -> [Pairs -> [Halves -> Runs \union {Absent}]]]
      /\ \A q \in Runs, j \in Pairs, g \in Halves :
             material'[q][j][g] = IF q = r /\ j = k /\ g = h THEN file[k][h]
                                  ELSE material[q][j][g]
  BY <1>0, <1>1, HoldOne
<1>3. ASSUME NEW q \in Runs, NEW j \in Pairs, NEW g \in Halves
      PROVE  material'[q][j][g] \in {Absent, file[j][g]}
  <2>1. material[q][j][g] \in {Absent, file[j][g]}
    BY Points DEF HeldIsThere
  <2> QED
    BY <1>2, <2>1
<1> QED
  BY <1>2, <1>3 DEF HeldIsThere

(* The run that takes a half is not at work.                               *)
LEMMA OwnKept ==
    ASSUME KeyInv, NEW r \in Runs, pc'[r] \notin Working, file' = file,
           \A q \in Runs : q # r => pc'[q] = pc[q] /\ pair'[q] = pair[q],
           \A q \in Runs, j \in Pairs, g \in Halves :
               q # r => material'[q][j][g] = material[q][j][g]
    PROVE  OwnWork'
<1> SUFFICES ASSUME NEW p \in Runs, pc'[p] \in Working
             PROVE  /\ pc'[p] = "fill first" =>
                           /\ file[pair'[p]].first = Torn
                           /\ \A q \in Runs \ {p} :
                                  ~(pc'[q] = "fill first" /\ pair'[q] = pair'[p])
                    /\ pc'[p] \in {"create second", "fill second"} =>
                           /\ file[pair'[p]].first = p
                           /\ material'[p][pair'[p]].first = p
                    /\ pc'[p] = "create second" => file[pair'[p]].second = Absent
                    /\ pc'[p] = "fill second" => file[pair'[p]].second = Torn
  BY DEF OwnWork, File, Working
<1>1. p # r /\ pc'[p] = pc[p] /\ pair'[p] = pair[p] /\ pc'[r] # "fill first"
  BY DEF Working
<1>2. material'[p][pair[p]].first = material[p][pair[p]].first
  BY <1>1, Points
<1>3. /\ pc[p] = "fill first" =>
             /\ file[pair[p]].first = Torn
             /\ \A q \in Runs \ {p} :
                    ~(pc[q] = "fill first" /\ pair[q] = pair[p])
      /\ pc[p] \in {"create second", "fill second"} =>
             file[pair[p]].first = p /\ material[p][pair[p]].first = p
      /\ pc[p] = "create second" => file[pair[p]].second = Absent
      /\ pc[p] = "fill second" => file[pair[p]].second = Torn
  BY Points DEF OwnWork, File
<1> QED
  BY <1>1, <1>2, <1>3

(* The others hold what they held.                                         *)
LEMMA HoldsKept ==
    ASSUME KeyInv, NEW r \in Runs, served' = served,
           \A q \in Runs : q # r => pc'[q] = pc[q] /\ pair'[q] = pair[q],
           \A q \in Runs, j \in Pairs, g \in Halves :
               q # r => material'[q][j][g] = material[q][j][g],
           material'[r]["tls"].second = Absent,
           pair'[r] = "identity" => material'[r]["tls"].first # Absent,
           pc'[r] = "read second" =>
               pair'[r] = "identity" /\ material'[r]["identity"].first # Absent,
           pc'[r] \in {"listen", "serving"} \/ served'[r] # Absent =>
               pair'[r] = "identity" /\ Absent \notin {material'[r]["identity"].first,
                                                      material'[r]["identity"].second}
    PROVE  HoldsEnough'
<1>1. ASSUME NEW p \in Runs, p # r
      PROVE  /\ material'[p]["tls"].first = material[p]["tls"].first
             /\ material'[p]["tls"].second = material[p]["tls"].second
             /\ material'[p]["identity"].first = material[p]["identity"].first
             /\ material'[p]["identity"].second = material[p]["identity"].second
             /\ pc'[p] = pc[p] /\ pair'[p] = pair[p] /\ served'[p] = served[p]
  <2>1. /\ "tls" \in Pairs /\ "identity" \in Pairs
        /\ "first" \in Halves /\ "second" \in Halves
    BY DEF Pairs, Halves
  <2> QED
    BY <1>1, <2>1
<1>2. ASSUME NEW p \in Runs
      PROVE  /\ material[p]["tls"].second = Absent
             /\ pair[p] = "identity" => material[p]["tls"].first # Absent
             /\ pc[p] = "read second" =>
                    pair[p] = "identity" /\ material[p]["identity"].first # Absent
             /\ pc[p] \in {"listen", "serving"} \/ served[p] # Absent =>
                    pair[p] = "identity" /\ Absent \notin {material[p]["identity"].first,
                                                           material[p]["identity"].second}
  BY Points DEF HoldsEnough
<1>3. ASSUME NEW p \in Runs
      PROVE  /\ material'[p]["tls"].second = Absent
             /\ pair'[p] = "identity" => material'[p]["tls"].first # Absent
             /\ pc'[p] = "read second" =>
                    pair'[p] = "identity" /\ material'[p]["identity"].first # Absent
             /\ pc'[p] \in {"listen", "serving"} \/ served'[p] # Absent =>
                    pair'[p] = "identity" /\ Absent \notin {material'[p]["identity"].first,
                                                            material'[p]["identity"].second}
  <2>1. CASE p = r
    BY <2>1
  <2>2. CASE p # r
    <3>1. /\ material'[p]["tls"].first = material[p]["tls"].first
          /\ material'[p]["tls"].second = material[p]["tls"].second
          /\ material'[p]["identity"].first = material[p]["identity"].first
          /\ material'[p]["identity"].second = material[p]["identity"].second
          /\ pc'[p] = pc[p] /\ pair'[p] = pair[p] /\ served'[p] = served[p]
      BY <1>1, <2>2
    <3> QED
      BY <1>2, <3>1
  <2> QED
    BY <2>1, <2>2
<1> QED
  BY <1>3 DEF HoldsEnough

(* Where Proceed leads.                                                    *)
LEMMA ProceedStep ==
    ASSUME KeyInv, NEW r \in Runs, Proceed(r)
    PROVE  /\ pc' \in [Runs -> PCs] /\ pair' \in [Runs -> Pairs]
           /\ \A q \in Runs : q # r => pc'[q] = pc[q] /\ pair'[q] = pair[q]
           /\ pair'[r] = "identity"
           /\ pc' = [pc EXCEPT ![r] = IF pair[r] = "tls" THEN "stat first" ELSE "listen"]
           /\ pc'[r] = IF pair[r] = "tls" THEN "stat first" ELSE "listen"
  BY Points DEF Proceed, Goto, TypeOK, PCs, Pairs

(* The first file is read, or found torn.                                *)
LEMMA ReadFirstKey ==
    ASSUME KeyInv, NEW r \in Runs, ReadFirst(r)
    PROVE  KeyInv'
<1>1. /\ pc[r] = "read first"
      /\ UNCHANGED <<file, seen, served, mishap>>
  BY DEF ReadFirst
<1>2. pc[r] \in Starting /\ pc[r] \notin Working
  BY <1>1 DEF Starting, PCs, Gone, Working
<1>3. ~mishap => Complete(pair[r])
  BY <1>1, Points DEF StartsTidy
<1>4. CASE ~Whole(file[pair[r]].first)
  <2>1. pc' = [pc EXCEPT ![r] = "failed"] /\ UNCHANGED <<pair, material>>
    BY <1>4 DEF ReadFirst, File, Goto
  <2>2. StartsTidy'
    <3>1. mishap
      BY <1>3, <1>4 DEF Complete
    <3> QED
      BY <1>1, <3>1 DEF StartsTidy
  <2> QED
    BY <1>1, <2>1, <2>2, StillStep, Points DEF Still, TypeOK
<1>5. CASE Whole(file[pair[r]].first)
  <2> DEFINE s == IF pair[r] = "tls" THEN "stat first" ELSE "read second"
  <2>1. /\ Hold(r, pair[r], "first", file[pair[r]].first)
        /\ pc' = [pc EXCEPT ![r] = s]
        /\ pair' = [pair EXCEPT ![r] = "identity"]
    <3>1. /\ Hold(r, pair[r], "first", file[pair[r]].first)
          /\ IF pair[r] = "tls" THEN Proceed(r)
             ELSE Goto(r, "read second") /\ UNCHANGED pair
      BY <1>5 DEF ReadFirst, File
    <3>2. pair \in [Runs -> Pairs]
      BY Points DEF TypeOK
    <3>3. CASE pair[r] = "tls"
      BY <3>1, <3>3 DEF Proceed, Goto
    <3>4. CASE pair[r] = "identity"
      <4>1. Goto(r, "read second") /\ pair' = pair
        BY <3>1, <3>4
      <4>2. pair = [pair EXCEPT ![r] = "identity"]
        BY <3>2, <3>4
      <4> QED
        BY <3>1, <3>4, <4>1, <4>2 DEF Goto
    <3> QED
      BY <3>2, <3>3, <3>4 DEF Pairs
  <2>2. /\ material' \in [Runs -> [Pairs -> [Halves -> Runs \union {Absent}]]]
        /\ \A q \in Runs, j \in Pairs, g \in Halves :
               material'[q][j][g] = IF q = r /\ j = pair[r] /\ g = "first"
                                    THEN file[pair[r]].first ELSE material[q][j][g]
        /\ HeldIsThere'
    BY <1>1, <1>5, <2>1, TakeHeld, Points
  <2>3. /\ pc' \in [Runs -> PCs] /\ pair' \in [Runs -> Pairs]
        /\ \A q \in Runs : q # r => pc'[q] = pc[q] /\ pair'[q] = pair[q]
        /\ pair'[r] = "identity" /\ pc'[r] = s
    BY <2>1, Points DEF TypeOK, PCs, Pairs
  <2>4. TypeOK'
    BY <1>1, <2>2, <2>3, Points DEF TypeOK
  <2>5. HalvesBelong'
    BY <1>1, Points DEF HalvesBelong, Complete
  <2>6. OwnWork'
    BY <1>1, <2>2, <2>3, OwnKept DEF Working
  <2>7. HoldsEnough'
    <3>4. /\ material[r]["tls"].second = Absent
          /\ pair[r] = "identity" => material[r]["tls"].first # Absent
          /\ served[r] # Absent => Absent \notin {material[r]["identity"].first,
                                                 material[r]["identity"].second}
      BY Points DEF HoldsEnough
    <3>5. /\ file[pair[r]].first # Absent /\ pair[r] \in {"tls", "identity"}
          /\ "tls" \in Pairs /\ "identity" \in Pairs
          /\ "first" \in Halves /\ "second" \in Halves
      BY <1>5, Points DEF Pairs, Whole
    <3>6. /\ material'[r]["tls"].first = IF pair[r] = "tls" THEN file[pair[r]].first
                                         ELSE material[r]["tls"].first
          /\ material'[r]["tls"].second = material[r]["tls"].second
          /\ material'[r]["identity"].first =
                 IF pair[r] = "identity" THEN file[pair[r]].first
                 ELSE material[r]["identity"].first
          /\ material'[r]["identity"].second = material[r]["identity"].second
      BY <2>2, <3>5
    <3>1. /\ material'[r]["tls"].second = Absent
          /\ material'[r]["tls"].first # Absent
      BY <3>4, <3>5, <3>6
    <3>2. s = "read second" => material'[r]["identity"].first # Absent
      BY <3>5, <3>6
    <3>3. served'[r] # Absent =>
              Absent \notin {material'[r]["identity"].first,
                            material'[r]["identity"].second}
      BY <1>1, <3>4, <3>5, <3>6
    <3>7. \A q \in Runs, j \in Pairs, g \in Halves :
              q # r => material'[q][j][g] = material[q][j][g]
      BY <2>2
    <3>8. /\ \A q \in Runs : q # r => pc'[q] = pc[q] /\ pair'[q] = pair[q]
          /\ served' = served /\ pair'[r] = "identity"
          /\ pc'[r] \notin {"listen", "serving"}
          /\ pc'[r] = "read second" => material'[r]["identity"].first # Absent
      BY <1>1, <2>3, <3>2
    <3> HIDE DEF s
    <3> QED
      BY <3>1, <3>3, <3>7, <3>8, HoldsKept
  <2>8. ServedIsThere'
    BY <1>1, <2>3, Points DEF ServedIsThere, Complete
  <2>9. ~mishap => \A k \in Pairs : (Bare(k) \/ Complete(k) \/ Begun(k))'
    BY <1>1, <1>2, <2>3, AsBefore
  <2>10. s = "read second" => Complete(pair[r])' = Complete(pair[r])
    BY <1>1, <2>3, Points DEF Complete, Pairs
  <2>11. s \in PCs /\ s \notin {"failed", "stat second", "create first", "read first"}
    BY DEF PCs
  <2> HIDE DEF s
  <2>12. StartsTidy'
    BY <1>1, <1>2, <1>3, <2>1, <2>9, <2>10, <2>11, TidyStep
  <2> QED
    BY <2>2, <2>4, <2>5, <2>6, <2>7, <2>8, <2>12 DEF KeyInv
<1> QED
  BY <1>4, <1>5

(* The second file is read, or found torn.                               *)
LEMMA ReadSecondKey ==
    ASSUME KeyInv, NEW r \in Runs, ReadSecond(r)
    PROVE  KeyInv'
<1>1. /\ pc[r] = "read second" /\ pair[r] = "identity"
      /\ material[r]["identity"].first # Absent
      /\ UNCHANGED <<file, seen, served, mishap>>
  BY Points DEF ReadSecond, HoldsEnough
<1>2. pc[r] \in Starting /\ pc[r] \notin Working
  BY <1>1 DEF Starting, PCs, Gone, Working
<1>3. CASE ~Whole(file["identity"].second)
  <2>1. pc' = [pc EXCEPT ![r] = "failed"] /\ UNCHANGED <<pair, material>>
    BY <1>1, <1>3 DEF ReadSecond, File, Goto
  <2>2. StartsTidy'
    <3>1. mishap
      BY <1>1, <1>3, Points DEF StartsTidy, Complete
    <3> QED
      BY <1>1, <3>1 DEF StartsTidy
  <2> QED
    BY <1>1, <2>1, <2>2, StillStep, Points DEF Still, TypeOK
<1>4. CASE Whole(file["identity"].second)
  <2>1. Hold(r, "identity", "second", file["identity"].second)
    BY <1>1, <1>4 DEF ReadSecond, File
  <2>2. /\ material' \in [Runs -> [Pairs -> [Halves -> Runs \union {Absent}]]]
        /\ \A q \in Runs, j \in Pairs, g \in Halves :
               material'[q][j][g] = IF q = r /\ j = "identity" /\ g = "second"
                                    THEN file["identity"].second ELSE material[q][j][g]
        /\ HeldIsThere'
    BY <1>1, <1>4, <2>1, TakeHeld, Points DEF Pairs
  <2>3. /\ pc' \in [Runs -> PCs] /\ pair' \in [Runs -> Pairs]
        /\ \A q \in Runs : q # r => pc'[q] = pc[q] /\ pair'[q] = pair[q]
        /\ pair'[r] = "identity" /\ pc'[r] = "listen"
        /\ pc' = [pc EXCEPT ![r] = "listen"]
    BY <1>1, <1>4, ProceedStep DEF ReadSecond, File
  <2>4. TypeOK'
    BY <1>1, <2>2, <2>3, Points DEF TypeOK
  <2>5. HalvesBelong'
    BY <1>1, Points DEF HalvesBelong, Complete
  <2>12. /\ \A q \in Runs, j \in Pairs, g \in Halves :
                q # r => material'[q][j][g] = material[q][j][g]
         /\ file' = file /\ served' = served
         /\ pc'[r] \notin Working /\ pc'[r] = "listen"
    <3>1. \A q \in Runs, j \in Pairs, g \in Halves :
              q # r => material'[q][j][g] = material[q][j][g]
      BY <2>2
    <3>2. pc'[r] \notin Working /\ pc'[r] = "listen"
      BY <2>3 DEF Working
    <3> QED
      BY <1>1, <3>1, <3>2
  <2>6. OwnWork'
    BY <2>3, <2>12, OwnKept
  <2>7. HoldsEnough'
    <3>1. /\ material'[r]["tls"].second = Absent
          /\ material'[r]["tls"].first # Absent
      BY <1>1, <2>2, Points DEF HoldsEnough, Pairs
    <3>2. Absent \notin {material'[r]["identity"].first,
                        material'[r]["identity"].second}
      BY <1>1, <1>4, <2>2, Points DEF Pairs, Whole
    <3> QED
      BY <2>3, <2>12, <3>1, <3>2, HoldsKept
  <2>8. ServedIsThere'
    BY <1>1, <2>3, Points DEF ServedIsThere, Complete
  <2>9. ~mishap => \A k \in Pairs : (Bare(k) \/ Complete(k) \/ Begun(k))'
    BY <1>1, <1>2, <2>3, AsBefore
  <2>10. "listen" \in PCs
    BY DEF PCs
  <2>11. StartsTidy'
    BY <1>1, <1>2, <2>3, <2>9, <2>10, TidyStep
  <2> QED
    BY <2>2, <2>4, <2>5, <2>6, <2>7, <2>8, <2>11 DEF KeyInv
<1> QED
  BY <1>1, <1>3, <1>4

(* Nobody else is at work on the pair that a run writes to.                *)
LEMMA OwnPut ==
    ASSUME KeyInv, NEW r \in Runs,
           \A p \in Runs : p # r /\ pair[p] = pair[r] => pc[p] \notin Working,
           \A j \in Pairs, g \in Halves : j # pair[r] => file'[j][g] = file[j][g],
           \A q \in Runs : q # r => pc'[q] = pc[q] /\ pair'[q] = pair[q],
           \A q \in Runs, j \in Pairs, g \in Halves :
               q # r => material'[q][j][g] = material[q][j][g],
           pc'[r] \in Working => pair'[r] = pair[r],
           pc'[r] = "fill first" => file'[pair[r]].first = Torn,
           pc'[r] \in {"create second", "fill second"} =>
               file'[pair[r]].first = r /\ material'[r][pair[r]].first = r,
           pc'[r] = "create second" => file'[pair[r]].second = Absent,
           pc'[r] = "fill second" => file'[pair[r]].second = Torn
    PROVE  OwnWork'
<1>1. ASSUME NEW p \in Runs, pc'[p] \in Working
      PROVE  /\ pc'[p] = "fill first" =>
                    /\ file'[pair'[p]].first = Torn
                    /\ \A q \in Runs \ {p} :
                           ~(pc'[q] = "fill first" /\ pair'[q] = pair'[p])
             /\ pc'[p] \in {"create second", "fill second"} =>
                    /\ file'[pair'[p]].first = p
                    /\ material'[p][pair'[p]].first = p
             /\ pc'[p] = "create second" => file'[pair'[p]].second = Absent
             /\ pc'[p] = "fill second" => file'[pair'[p]].second = Torn
  <2>1. CASE p = r
    <3>1. \A q \in Runs \ {r} : ~(pc'[q] = "fill first" /\ pair'[q] = pair[r])
      BY DEF Working
    <3> QED
      BY <1>1, <2>1, <3>1
  <2>2. CASE p # r
    <3>1. pc'[p] = pc[p] /\ pair'[p] = pair[p] /\ pair[p] # pair[r]
      BY <1>1, <2>2
    <3>2. /\ file'[pair[p]].first = file[pair[p]].first
          /\ file'[pair[p]].second = file[pair[p]].second
          /\ material'[p][pair[p]].first = material[p][pair[p]].first
      BY <2>2, <3>1, Points
    <3>3. \A q \in Runs \ {p} : pc'[q] = "fill first" /\ pair'[q] = pair[p] =>
                                  pc[q] = "fill first" /\ pair[q] = pair[p]
      BY <3>1 DEF Working
    <3>4. /\ pc[p] = "fill first" =>
                 /\ file[pair[p]].first = Torn
                 /\ \A q \in Runs \ {p} :
                        ~(pc[q] = "fill first" /\ pair[q] = pair[p])
          /\ pc[p] \in {"create second", "fill second"} =>
                 file[pair[p]].first = p /\ material[p][pair[p]].first = p
          /\ pc[p] = "create second" => file[pair[p]].second = Absent
          /\ pc[p] = "fill second" => file[pair[p]].second = Torn
      BY Points DEF OwnWork, File
    <3> QED
      BY <3>1, <3>2, <3>3, <3>4
  <2> QED
    BY <2>1, <2>2
<1> QED
  BY <1>1 DEF OwnWork, File, Working

(* Who fills a file that was not whole takes nothing from the others.      *)
LEMMA HeldPut ==
    ASSUME KeyInv, NEW k \in Pairs, NEW h \in Halves, ~Whole(file[k][h]),
           NEW r \in Runs,
           \A j \in Pairs, g \in Halves :
               j # k \/ g # h => file'[j][g] = file[j][g],
           \A q \in Runs, j \in Pairs, g \in Halves :
               material'[q][j][g] = material[q][j][g]
               \/ (j = k /\ g = h /\ material'[q][j][g] = file'[k][h])
    PROVE  HeldIsThere'
<1>1. ASSUME NEW q \in Runs, NEW j \in Pairs, NEW g \in Halves
      PROVE  material'[q][j][g] \in {Absent, file'[j][g]}
  <2>1. material[q][j][g] \in {Absent, file[j][g]}
    BY Points DEF HeldIsThere
  <2>2. CASE j = k /\ g = h
    <3>1. material[q][j][g] = Absent
      BY <2>1, <2>2, Points, KeyMaterialAssumption DEF Whole, KeyMaterialAssumption
    <3> QED
      BY <2>2, <3>1
  <2>3. CASE j # k \/ g # h
    BY <2>1, <2>3
  <2> QED
    BY <2>2, <2>3
<1> QED
  BY <1>1 DEF HeldIsThere

(* Nobody serves from a pair that is not complete.                         *)
LEMMA ServedPut ==
    ASSUME KeyInv, NEW r \in Runs, ~Complete(pair[r]), pc'[r] # "serving",
           served' = served,
           \A q \in Runs : q # r => pc'[q] = pc[q],
           \A j \in Pairs, g \in Halves : j # pair[r] => file'[j][g] = file[j][g]
    PROVE  ServedIsThere'
<1>1. ASSUME NEW q \in Runs, served[q] # Absent
      PROVE  served[q] = file'["tls"].first /\ Complete("tls")'
  <2>1. served[q] = file["tls"].first /\ Complete("tls")
    BY <1>1, Points DEF ServedIsThere
  <2>2. /\ file'["tls"].first = file["tls"].first
        /\ file'["tls"].second = file["tls"].second
    BY <2>1, Points DEF Pairs
  <2> QED
    BY <2>1, <2>2 DEF Complete
<1> QED
  BY <1>1, Points DEF ServedIsThere

(* The pair that a run is not at is as tidy as it was.                     *)
LEMMA OffPair ==
    ASSUME KeyInv, ~mishap, NEW r \in Runs,
           \A j \in Pairs, g \in Halves : j # pair[r] => file'[j][g] = file[j][g],
           \A q \in Runs : q # r => pc'[q] = pc[q] /\ pair'[q] = pair[q],
           NEW k \in Pairs, k # pair[r]
    PROVE  (Bare(k) \/ Complete(k) \/ Begun(k))'
<1>1. CASE Bare(k)
  BY <1>1 DEF Bare
<1>2. CASE Complete(k)
  BY <1>2, Points DEF Complete
<1>3. CASE Begun(k)
  <2>1. PICK q \in Runs : pair[q] = k /\ pc[q] \in Working
    BY <1>3 DEF Begun, Working
  <2> QED
    BY <2>1 DEF Begun, Working
<1> QED
  BY <1>1, <1>2, <1>3, Points DEF StartsTidy

(* O_EXCL lets in one run, and no later half is there yet.               *)
LEMMA CreateFirstKey ==
    ASSUME KeyInv, NEW r \in Runs, CreateFirst(r)
    PROVE  KeyInv'
<1> DEFINE k == pair[r]
<1> USE KeyMaterialAssumption DEF KeyMaterialAssumption
<1>0. TypeOK /\ "first" \in Halves /\ "second" \in Halves
  BY Points
<1>1. /\ pc[r] = "create first" /\ k \in Pairs
      /\ pair' = pair /\ seen' = seen /\ material' = material
      /\ served' = served /\ mishap' = mishap
  BY Points DEF CreateFirst, Create
<1>2. pc[r] \in Starting /\ pc[r] \notin Working
  BY <1>1 DEF Starting, PCs, Gone, Working
<1>3. CASE file[k].first # Absent
  <2>1. pc' = [pc EXCEPT ![r] = "failed"] /\ file' = file
    BY <1>3 DEF CreateFirst, Create, File, Goto
  <2>2. mishap
    BY <1>1, <1>3, Points DEF StartsTidy, Bare
  <2>3. StartsTidy'
    BY <1>1, <2>2 DEF StartsTidy
  <2> QED
    BY <1>1, <2>1, <2>3, StillStep, Points DEF Still, TypeOK
<1>4. CASE file[k].first = Absent
  <2>1. Put(r, "first", Torn) /\ pc' = [pc EXCEPT ![r] = "fill first"]
    BY <1>4 DEF CreateFirst, Create, File, Goto
  <2>2. Torn \in Content
    BY DEF Content
  <2>3. /\ file' \in [Pairs -> [Halves -> Content]]
        /\ file'[k]["first"] = Torn
        /\ \A j \in Pairs, g \in Halves : j # k => file'[j][g] = file[j][g]
        /\ \A j \in Pairs, g \in Halves :
               j # k \/ g # "first" => file'[j][g] = file[j][g]
    BY <1>0, <2>1, <2>2, PutOne
  <2>4. /\ pc' \in [Runs -> PCs] /\ pc'[r] = "fill first"
        /\ \A q \in Runs : q # r => pc'[q] = pc[q] /\ pair'[q] = pair[q]
    BY <1>1, <2>1, Points DEF TypeOK, PCs
  <2>5. file[k].second = Absent /\ ~Whole(file[k].first) /\ ~Complete(k)
    BY <1>1, <1>4, Points DEF HalvesBelong, Whole, Complete
  <2>6. file'[k].first = Torn /\ file'[k].second = Absent
    BY <1>0, <1>1, <2>3, <2>5
  <2>7. TypeOK'
    BY <1>1, <2>3, <2>4, Points DEF TypeOK
  <2>8. HalvesBelong'
    <3>1. ASSUME NEW j \in Pairs
          PROVE  /\ file'[j].second # Absent => Whole(file'[j].first)
                 /\ Whole(file'[j].second) => Complete(j)'
      <4>1. CASE j = k
        BY <2>6, <4>1 DEF Whole
      <4>2. CASE j # k
        BY <2>3, <4>2, Points DEF HalvesBelong, Complete
      <4> QED
        BY <4>1, <4>2
    <3> QED
      BY <3>1 DEF HalvesBelong
  <2>9. OwnWork'
    <3>1. \A p \in Runs : p # r /\ pair[p] = k => pc[p] \notin Working
      BY <1>4, Points DEF OwnWork, File, Working
    <3> QED
      BY <1>1, <2>3, <2>4, <2>6, <3>1, OwnPut DEF Working
  <2>10. HeldIsThere'
    BY <1>0, <1>1, <2>3, <2>5, HeldPut
  <2>11. HoldsEnough'
    BY <1>1, <2>4, HoldsKept, Points DEF HoldsEnough
  <2>12. ServedIsThere'
    BY <1>1, <2>3, <2>4, <2>5, ServedPut
  <2>13. StartsTidy'
    <3>1. ~mishap => \A j \in Pairs : (Bare(j) \/ Complete(j) \/ Begun(j))'
      <4>1. Begun(k)'
        BY <1>1, <2>4 DEF Begun
      <4> QED
        BY <1>1, <2>3, <2>4, <4>1, OffPair
    <3>2. "fill first" \in PCs
      BY DEF PCs
    <3> QED
      BY <1>1, <1>2, <2>1, <3>1, <3>2, TidyStep
  <2> QED
    BY <2>7, <2>8, <2>9, <2>10, <2>11, <2>12, <2>13 DEF KeyInv
<1> QED
  BY <1>3, <1>4

(* The one run that created the first file fills it.                     *)
LEMMA FillFirstKey ==
    ASSUME KeyInv, NEW r \in Runs, FillFirst(r)
    PROVE  KeyInv'
<1> DEFINE k == pair[r]
<1> USE KeyMaterialAssumption DEF KeyMaterialAssumption
<1>0. TypeOK /\ "first" \in Halves /\ "second" \in Halves
  BY Points
<1>1. /\ pc[r] = "fill first" /\ k \in Pairs
      /\ pc' = [pc EXCEPT ![r] = "create second"]
      /\ pair' = pair /\ seen' = seen /\ served' = served /\ mishap' = mishap
      /\ Put(r, "first", r) /\ Hold(r, k, "first", r)
  BY Points DEF FillFirst, Goto
<1>2. pc[r] \in Starting /\ r \in Content /\ "create second" \in PCs
  BY <1>1 DEF Starting, PCs, Gone, Content
<1>3. /\ file' \in [Pairs -> [Halves -> Content]]
      /\ file'[k]["first"] = r
      /\ \A j \in Pairs, g \in Halves : j # k => file'[j][g] = file[j][g]
      /\ \A j \in Pairs, g \in Halves :
             j # k \/ g # "first" => file'[j][g] = file[j][g]
  BY <1>0, <1>1, <1>2, PutOne
<1>4. /\ material' \in [Runs -> [Pairs -> [Halves -> Runs \union {Absent}]]]
      /\ material'[r][k]["first"] = r
      /\ \A q \in Runs, j \in Pairs, g \in Halves :
             q # r => material'[q][j][g] = material[q][j][g]
      /\ \A q \in Runs, j \in Pairs, g \in Halves :
             q # r \/ j # k \/ g # "first" => material'[q][j][g] = material[q][j][g]
  <2>1. r \in Runs \union {Absent} /\ Hold(r, k, "first", r) /\ k \in Pairs
    BY <1>1
  <2> HIDE DEF k
  <2> QED
    BY <1>0, <2>1, HoldOne
<1>5. /\ pc' \in [Runs -> PCs] /\ pc'[r] = "create second"
      /\ \A q \in Runs : q # r => pc'[q] = pc[q] /\ pair'[q] = pair[q]
  BY <1>1, <1>2, Points DEF TypeOK
<1>6. file[k].first = Torn
  BY <1>1, Points DEF OwnWork, File
<1>7. file[k].second = Absent /\ ~Whole(file[k].first) /\ ~Complete(k)
  BY <1>1, <1>6, Points DEF HalvesBelong, Whole, Complete
<1>8. file'[k].first = r /\ file'[k].second = Absent /\ material'[r][k].first = r
  BY <1>0, <1>1, <1>3, <1>4, <1>7
<1>9. TypeOK'
  BY <1>1, <1>3, <1>4, <1>5, Points DEF TypeOK
<1>10. HalvesBelong'
  <2>1. ASSUME NEW j \in Pairs
        PROVE  /\ file'[j].second # Absent => Whole(file'[j].first)
               /\ Whole(file'[j].second) => Complete(j)'
    <3>1. CASE j = k
      BY <1>8, <3>1 DEF Whole
    <3>2. CASE j # k
      BY <1>3, <3>2, Points DEF HalvesBelong, Complete
    <3> QED
      BY <3>1, <3>2
  <2> QED
    BY <2>1 DEF HalvesBelong
<1>11. OwnWork'
  <2>1. \A p \in Runs : p # r /\ pair[p] = k => pc[p] \notin Working
    BY <1>1, <1>6, Points DEF OwnWork, File, Working
  <2> QED
    BY <1>1, <1>3, <1>4, <1>5, <1>8, <2>1, OwnPut
<1>12. HeldIsThere'
  <2>1. \A q \in Runs, j \in Pairs, g \in Halves :
            material'[q][j][g] = material[q][j][g]
            \/ (j = k /\ g = "first" /\ material'[q][j][g] = file'[k]["first"])
    BY <1>3, <1>4
  <2> QED
    BY <1>0, <1>1, <1>3, <1>7, <2>1, HeldPut
<1>13. HoldsEnough'
  <2>1. \A j \in Pairs : material'[r][j].second = material[r][j].second
    BY <1>4, Points
  <2>2. \A j \in Pairs : material[r][j].first # Absent => material'[r][j].first # Absent
    BY <1>4, Points
  <2>3. "tls" \in Pairs /\ "identity" \in Pairs
    BY DEF Pairs
  <2>4. /\ material[r]["tls"].second = Absent
        /\ pair[r] = "identity" => material[r]["tls"].first # Absent
        /\ served[r] # Absent =>
               pair[r] = "identity" /\ Absent \notin {material[r]["identity"].first,
                                                      material[r]["identity"].second}
    BY Points DEF HoldsEnough
  <2> QED
    BY <1>1, <1>4, <1>5, <2>1, <2>2, <2>3, <2>4, HoldsKept
<1>14. ServedIsThere'
  BY <1>1, <1>3, <1>5, <1>7, ServedPut
<1>15. StartsTidy'
  <2>1. ~mishap => \A j \in Pairs : (Bare(j) \/ Complete(j) \/ Begun(j))'
    <3>1. Begun(k)'
      BY <1>1, <1>5 DEF Begun
    <3> QED
      BY <1>1, <1>3, <1>5, <3>1, OffPair
  <2> QED
    BY <1>1, <1>2, <2>1, TidyStep
<1> QED
  BY <1>9, <1>10, <1>11, <1>12, <1>13, <1>14, <1>15 DEF KeyInv

(* Only the run that filled the first file comes here.                   *)
LEMMA CreateSecondKey ==
    ASSUME KeyInv, NEW r \in Runs, CreateSecond(r)
    PROVE  KeyInv'
<1> DEFINE k == pair[r]
<1> USE KeyMaterialAssumption DEF KeyMaterialAssumption
<1>0. TypeOK /\ "first" \in Halves /\ "second" \in Halves
  BY Points
<1>1. /\ pc[r] = "create second" /\ k \in Pairs
      /\ pair' = pair /\ seen' = seen /\ material' = material
      /\ served' = served /\ mishap' = mishap
  BY Points DEF CreateSecond, Create
<1>2. pc[r] \in Starting /\ "fill second" \in PCs /\ Torn \in Content
  BY <1>1 DEF Starting, PCs, Gone, Content
<1>3. /\ file[k].first = r /\ material[r][k].first = r
      /\ file[k].second = Absent /\ ~Complete(k)
  BY <1>1, Points DEF OwnWork, File, Complete
<1>4. Put(r, "second", Torn) /\ pc' = [pc EXCEPT ![r] = "fill second"]
  BY <1>3 DEF CreateSecond, Create, File, Goto
<1>5. /\ file' \in [Pairs -> [Halves -> Content]]
      /\ file'[k]["second"] = Torn
      /\ \A j \in Pairs, g \in Halves : j # k => file'[j][g] = file[j][g]
      /\ \A j \in Pairs, g \in Halves :
             j # k \/ g # "second" => file'[j][g] = file[j][g]
  BY <1>0, <1>2, <1>4, PutOne
<1>6. /\ pc' \in [Runs -> PCs] /\ pc'[r] = "fill second"
      /\ \A q \in Runs : q # r => pc'[q] = pc[q] /\ pair'[q] = pair[q]
  BY <1>0, <1>1, <1>2, <1>4 DEF TypeOK
<1>7. file'[k].first = r /\ file'[k].second = Torn /\ ~Whole(file[k].second)
  BY <1>0, <1>1, <1>3, <1>5 DEF Whole
<1>8. TypeOK'
  BY <1>1, <1>5, <1>6, Points DEF TypeOK
<1>9. HalvesBelong'
  <2>1. ASSUME NEW j \in Pairs
        PROVE  /\ file'[j].second # Absent => Whole(file'[j].first)
               /\ Whole(file'[j].second) => Complete(j)'
    <3>1. CASE j = k
      BY <1>7, <3>1 DEF Whole
    <3>2. CASE j # k
      BY <1>5, <3>2, Points DEF HalvesBelong, Complete
    <3> QED
      BY <3>1, <3>2
  <2> QED
    BY <2>1 DEF HalvesBelong
<1>10. OwnWork'
  <2>1. ASSUME NEW p \in Runs, p # r, pair[p] = k PROVE pc[p] \notin Working
    <3>1. /\ pc[p] = "fill first" => file[pair[p]].first = Torn
          /\ pc[p] \in {"create second", "fill second"} => file[pair[p]].first = p
      BY Points DEF OwnWork, File
    <3> QED
      BY <1>3, <2>1, <3>1 DEF Working
  <2> QED
    BY <1>1, <1>3, <1>5, <1>6, <1>7, <2>1, OwnPut
<1>11. HeldIsThere'
  BY <1>0, <1>1, <1>5, <1>7, HeldPut
<1>12. HoldsEnough'
  BY <1>1, <1>6, HoldsKept, Points DEF HoldsEnough
<1>13. ServedIsThere'
  BY <1>1, <1>3, <1>5, <1>6, ServedPut
<1>14. StartsTidy'
  <2>1. ~mishap => \A j \in Pairs : (Bare(j) \/ Complete(j) \/ Begun(j))'
    <3>1. Begun(k)'
      BY <1>1, <1>6 DEF Begun
    <3> QED
      BY <1>1, <1>5, <1>6, <3>1, OffPair
  <2> QED
    BY <1>1, <1>2, <1>4, <2>1, TidyStep
<1> QED
  BY <1>8, <1>9, <1>10, <1>11, <1>12, <1>13, <1>14 DEF KeyInv

(* With the second file the pair is complete.                            *)
LEMMA FillSecondKey ==
    ASSUME KeyInv, NEW r \in Runs, FillSecond(r)
    PROVE  KeyInv'
<1> DEFINE k == pair[r]
           s == IF k = "tls" THEN "stat first" ELSE "listen"
<1> USE KeyMaterialAssumption DEF KeyMaterialAssumption
<1>0. /\ TypeOK /\ "first" \in Halves /\ "second" \in Halves
      /\ "tls" \in Pairs /\ "identity" \in Pairs
  BY Points DEF Pairs
<1>1. /\ pc[r] = "fill second" /\ k \in Pairs
      /\ seen' = seen /\ served' = served /\ mishap' = mishap
      /\ Put(r, "second", r) /\ Proceed(r)
  BY Points DEF FillSecond
<1>2. /\ pc[r] \in Starting /\ r \in Content /\ s \in PCs /\ s \notin Working
      /\ s \notin {"failed", "stat second", "create first", "read first", "read second"}
  BY <1>1 DEF Starting, PCs, Gone, Content, Working
<1>3. /\ file[k].first = r /\ material[r][k].first = r
      /\ file[k].second = Torn /\ ~Complete(k) /\ ~Whole(file[k].second)
  BY <1>1, Points DEF OwnWork, File, Complete, Whole
<1>4. /\ file' \in [Pairs -> [Halves -> Content]]
      /\ file'[k]["second"] = r
      /\ \A j \in Pairs, g \in Halves : j # k => file'[j][g] = file[j][g]
      /\ \A j \in Pairs, g \in Halves :
             j # k \/ g # "second" => file'[j][g] = file[j][g]
  BY <1>0, <1>1, <1>2, PutOne
<1>5. /\ pc' \in [Runs -> PCs] /\ pair' \in [Runs -> Pairs]
      /\ \A q \in Runs : q # r => pc'[q] = pc[q] /\ pair'[q] = pair[q]
      /\ pair'[r] = "identity" /\ pc'[r] = s /\ pc' = [pc EXCEPT ![r] = s]
  BY <1>1, ProceedStep
<1>6. file'[k].first = r /\ file'[k].second = r
  BY <1>0, <1>1, <1>3, <1>4
<1>7. /\ material' \in [Runs -> [Pairs -> [Halves -> Runs \union {Absent}]]]
      /\ \A q \in Runs, j \in Pairs, g \in Halves :
             q # r \/ j = "tls" \/ g # "second" => material'[q][j][g] = material[q][j][g]
      /\ k = "identity" => material'[r]["identity"]["second"] = r
      /\ k = "tls" => material' = material
  <2>1. CASE k = "tls"
    BY <1>0, <2>1 DEF FillSecond, TypeOK
  <2>2. CASE k = "identity"
    <3>1. Hold(r, "identity", "second", r) /\ r \in Runs \union {Absent}
      BY <2>2 DEF FillSecond
    <3> HIDE DEF k
    <3>2. /\ material' \in [Runs -> [Pairs -> [Halves -> Runs \union {Absent}]]]
          /\ material'[r]["identity"]["second"] = r
          /\ \A q \in Runs, j \in Pairs, g \in Halves :
                 q # r \/ j # "identity" \/ g # "second" =>
                     material'[q][j][g] = material[q][j][g]
      BY <1>0, <3>1, HoldOne
    <3> QED
      BY <2>2, <3>2
  <2> QED
    BY <1>1, <2>1, <2>2 DEF Pairs
<1>8. \A q \in Runs, j \in Pairs, g \in Halves :
          q # r => material'[q][j][g] = material[q][j][g]
  BY <1>7
<1> HIDE DEF s
<1>9. TypeOK'
  BY <1>1, <1>4, <1>5, <1>7, Points DEF TypeOK
<1>10. HalvesBelong'
  <2>1. ASSUME NEW j \in Pairs
        PROVE  /\ file'[j].second # Absent => Whole(file'[j].first)
               /\ Whole(file'[j].second) => Complete(j)'
    <3>1. CASE j = k
      BY <1>6, <3>1 DEF Whole, Complete
    <3>2. CASE j # k
      BY <1>4, <3>2, Points DEF HalvesBelong, Complete
    <3> QED
      BY <3>1, <3>2
  <2> QED
    BY <2>1 DEF HalvesBelong
<1>11. OwnWork'
  <2>1. ASSUME NEW p \in Runs, p # r, pair[p] = k PROVE pc[p] \notin Working
    <3>1. /\ pc[p] = "fill first" => file[pair[p]].first = Torn
          /\ pc[p] \in {"create second", "fill second"} => file[pair[p]].first = p
      BY Points DEF OwnWork, File
    <3> QED
      BY <1>3, <2>1, <3>1 DEF Working
  <2>2. pc'[r] \notin Working /\ pc'[r] \notin {"fill first", "create second", "fill second"}
    BY <1>2, <1>5 DEF Working
  <2> QED
    BY <1>4, <1>5, <1>8, <2>1, <2>2, OwnPut
<1>12. HeldIsThere'
  <2>1. \A q \in Runs, j \in Pairs, g \in Halves :
            material'[q][j][g] = material[q][j][g]
            \/ (j = k /\ g = "second" /\ material'[q][j][g] = file'[k]["second"])
    <3> SUFFICES ASSUME NEW q \in Runs, NEW j \in Pairs, NEW g \in Halves
                 PROVE  \/ material'[q][j][g] = material[q][j][g]
                        \/ j = k /\ g = "second" /\ material'[q][j][g] = file'[k]["second"]
      OBVIOUS
    <3>1. CASE k = "tls"
      BY <1>7, <3>1
    <3>2. CASE k = "identity" /\ q = r /\ j = "identity" /\ g = "second"
      BY <1>4, <1>7, <3>2
    <3>3. CASE q # r \/ j = "tls" \/ g # "second"
      BY <1>7, <3>3
    <3> QED
      BY <1>1, <3>1, <3>2, <3>3 DEF Pairs
  <2>2. ~Whole(file[k]["second"]) /\ k \in Pairs /\ "second" \in Halves
    BY <1>0, <1>1, <1>3
  <2>3. \A j \in Pairs, g \in Halves : j # k \/ g # "second" => file'[j][g] = file[j][g]
    BY <1>4
  <2> HIDE DEF k
  <2> QED
    BY <2>1, <2>2, <2>3, HeldPut
<1>13. HoldsEnough'
  <2>1. /\ material'[r]["tls"].first = material[r]["tls"].first
        /\ material'[r]["tls"].second = material[r]["tls"].second
        /\ material'[r]["identity"].first = material[r]["identity"].first
    BY <1>0, <1>7
  <2>2. /\ material[r]["tls"].second = Absent
        /\ pair[r] = "identity" => material[r]["tls"].first # Absent
        /\ served[r] # Absent =>
               pair[r] = "identity" /\ Absent \notin {material[r]["identity"].first,
                                                      material[r]["identity"].second}
    BY Points DEF HoldsEnough
  <2>3. material'[r]["tls"].first # Absent
    BY <1>1, <1>3, <2>1, <2>2 DEF Pairs
  <2>4. pc'[r] = "listen" =>
            Absent \notin {material'[r]["identity"].first, material'[r]["identity"].second}
    <3>1. SUFFICES ASSUME pc'[r] = "listen"
                   PROVE  /\ material'[r]["identity"].first = r
                          /\ material'[r]["identity"].second = r
      OBVIOUS
    <3>2. k = "identity"
      BY <1>1, <1>5, <3>1 DEF Pairs, s
    <3> QED
      BY <1>3, <1>7, <2>1, <3>2
  <2>5. served'[r] # Absent =>
            Absent \notin {material'[r]["identity"].first, material'[r]["identity"].second}
    BY <1>1, <1>7, <2>1, <2>2
  <2>6. pc'[r] \notin {"read second", "serving"}
    BY <1>5 DEF s
  <2> QED
    BY <1>1, <1>5, <1>8, <2>1, <2>2, <2>3, <2>4, <2>5, <2>6, HoldsKept
<1>14. ServedIsThere'
  <2>1. pc'[r] # "serving"
    BY <1>5 DEF s
  <2> QED
    BY <1>1, <1>3, <1>4, <1>5, <2>1, ServedPut
<1>15. StartsTidy'
  <2>1. ~mishap => \A j \in Pairs : (Bare(j) \/ Complete(j) \/ Begun(j))'
    <3>1. \A j \in Pairs : j = k => Complete(j)'
      BY <1>6 DEF Complete, Whole
    <3> QED
      BY <1>1, <1>4, <1>5, <3>1, OffPair
  <2> QED
    BY <1>1, <1>2, <1>5, <2>1, TidyStep
<1> QED
  BY <1>9, <1>10, <1>11, <1>12, <1>13, <1>14, <1>15 DEF KeyInv

(* A failed write is a mishap.                                           *)
LEMMA WriteFailsKey ==
    ASSUME KeyInv, NEW r \in Runs, WriteFails(r)
    PROVE  KeyInv'
<1>1. StartsTidy'
  BY DEF WriteFails, StartsTidy
<1> QED
  BY <1>1, StillStep, Points DEF WriteFails, Goto, Still, TypeOK

(* The listener takes the pair that is there, if it is complete.         *)
LEMMA ListenKey ==
    ASSUME KeyInv, NEW r \in Runs, Listen(r)
    PROVE  KeyInv'
<1>1. /\ pc[r] = "listen" /\ file' = file /\ pair' = pair /\ seen' = seen
      /\ material' = material /\ mishap' = mishap
  BY DEF Listen
<1>2. /\ pc[r] \in Starting /\ pc[r] \notin Working
      /\ {"serving", "failed"} \subseteq PCs
  BY <1>1 DEF Starting, PCs, Gone, Working
<1>3. CASE ~Complete("tls")
  <2>1. pc' = [pc EXCEPT ![r] = "failed"] /\ served' = served
    BY <1>3 DEF Listen, Goto
  <2>2. mishap
    <3> SUFFICES ASSUME ~mishap PROVE FALSE
      OBVIOUS
    <3>1. ~Begun("tls")
      <4>1. Working \subseteq Starting
        BY DEF Working, Starting, PCs, Gone
      <4> QED
        BY <1>1, <1>2, <4>1, Alone DEF Begun, Working
    <3>2. material[r]["tls"].first # Absent
      BY <1>1, Points DEF HoldsEnough
    <3>3. file["tls"].first # Absent
      <4>1. material[r]["tls"]["first"] \in {Absent, file["tls"]["first"]}
        BY Points DEF HeldIsThere, Pairs
      <4> QED
        BY <3>2, <4>1
    <3>4. ~Bare("tls")
      BY <3>3, Points DEF Bare
    <3> QED
      BY <1>3, <3>1, <3>4, Points DEF StartsTidy, Pairs
  <2>3. StartsTidy'
    BY <1>1, <2>2 DEF StartsTidy
  <2> QED
    BY <1>1, <2>1, <2>3, StillStep, Points DEF Still, TypeOK
<1>4. CASE Complete("tls")
  <2>1. /\ pc' = [pc EXCEPT ![r] = "serving"]
        /\ served' = [served EXCEPT ![r] = file["tls"].first]
    BY <1>4 DEF Listen, Goto
  <2>2. file["tls"].first \in Runs /\ file["tls"].first # Absent
    BY <1>4, Points, KeyMaterialAssumption
    DEF Complete, Whole, Content, Pairs, KeyMaterialAssumption
  <2>3. /\ pc' \in [Runs -> PCs] /\ pc'[r] = "serving"
        /\ \A q \in Runs : q # r => pc'[q] = pc[q] /\ pair'[q] = pair[q]
    BY <1>1, <1>2, <2>1, Points DEF TypeOK
  <2>4. /\ served' \in [Runs -> Runs \union {Absent}]
        /\ served'[r] = file["tls"].first
        /\ \A q \in Runs : q # r => served'[q] = served[q]
    BY <2>1, <2>2, Points DEF TypeOK
  <2>5. TypeOK'
    BY <1>1, <2>3, <2>4, Points DEF TypeOK
  <2>6. HalvesBelong' /\ HeldIsThere'
    BY <1>1, Points DEF HalvesBelong, HeldIsThere, Complete
  <2>7. OwnWork'
    BY <1>1, <2>3, OwnKept DEF Working
  <2>8. HoldsEnough'
    <3>1. ASSUME NEW p \in Runs
          PROVE  /\ material[p]["tls"].second = Absent
                 /\ pair[p] = "identity" => material[p]["tls"].first # Absent
                 /\ pc'[p] = "read second" =>
                        pair[p] = "identity" /\ material[p]["identity"].first # Absent
                 /\ pc'[p] \in {"listen", "serving"} \/ served'[p] # Absent =>
                        pair[p] = "identity" /\ Absent \notin {material[p]["identity"].first,
                                                               material[p]["identity"].second}
      <4>1. CASE p = r
        BY <1>1, <2>3, <4>1, Points DEF HoldsEnough
      <4>2. CASE p # r
        BY <2>3, <2>4, <4>2, Points DEF HoldsEnough
      <4> QED
        BY <4>1, <4>2
    <3> QED
      BY <1>1, <3>1 DEF HoldsEnough
  <2>9. ServedIsThere'
    BY <1>1, <1>4, <2>2, <2>3, <2>4, Points DEF ServedIsThere, Complete
  <2>10. ~mishap => \A k \in Pairs : (Bare(k) \/ Complete(k) \/ Begun(k))'
    BY <1>1, <1>2, <2>3, AsBefore
  <2>11. StartsTidy'
    BY <1>1, <1>2, <2>1, <2>10, TidyStep
  <2> QED
    BY <2>5, <2>6, <2>7, <2>8, <2>9, <2>11 DEF KeyInv
<1> QED
  BY <1>3, <1>4

(* Dying is a mishap, unless the run already served.                     *)
LEMMA DieKey ==
    ASSUME KeyInv, NEW r \in Runs, Die(r)
    PROVE  KeyInv'
<1>1. /\ pc[r] \notin Gone /\ pc[r] # "new" /\ pc' = [pc EXCEPT ![r] = "dead"]
      /\ mishap' = (mishap \/ pc[r] # "serving")
      /\ UNCHANGED <<file, pair, seen, material, served>>
  BY DEF Die, Goto
<1>2. StartsTidy'
  <2> SUFFICES ASSUME ~mishap, pc[r] = "serving"
               PROVE  StartsTidy'
    BY <1>1 DEF StartsTidy
  <2>1. /\ pc'[r] = "dead"
        /\ \A q \in Runs : q # r => pc'[q] = pc[q] /\ pair'[q] = pair[q]
    BY <1>1, Points DEF TypeOK
  <2>2. pc[r] \notin Working /\ "dead" \notin Starting
    BY DEF Working, Starting, Gone
  <2>3. \A k \in Pairs : (Bare(k) \/ Complete(k) \/ Begun(k))'
    BY <1>1, <2>1, <2>2, AsBefore
  <2>4. \A q, p \in Runs : {pc'[q], pc'[p]} \subseteq Starting => q = p
    <3>1. ASSUME NEW q \in Runs, NEW p \in Runs, pc'[q] \in Starting, pc'[p] \in Starting
          PROVE  q = p
      <4>1. q # r /\ p # r /\ pc[q] \in Starting /\ pc[p] \in Starting
        BY <2>1, <2>2, <3>1
      <4> QED
        BY <4>1, Alone
    <3> QED
      BY <3>1
  <2>5. ASSUME NEW q \in Runs
        PROVE  /\ pc'[q] = "stat second" => seen'[q] = (file'[pair'[q]].first # Absent)
               /\ pc'[q] = "create first" => Bare(pair[q])'
               /\ pc'[q] \in {"read first", "read second"} => Complete(pair[q])'
               /\ pc'[q] # "failed"
    <3>1. Bare(pair[q])' = Bare(pair[q]) /\ Complete(pair[q])' = Complete(pair[q])
      BY <1>1 DEF Bare, Complete
    <3> QED
      BY <1>1, <2>1, <3>1, Points DEF StartsTidy, File
  <2> QED
    BY <2>3, <2>4, <2>5 DEF StartsTidy, File
<1> QED
  BY <1>1, <1>2, StillStep, Points DEF Still, TypeOK

(* Whatever is started, and wherever it dies.                              *)
LEMMA NextKey == KeyInv /\ [Next]_vars => KeyInv'
<1> SUFFICES ASSUME KeyInv, [Next]_vars PROVE KeyInv'
  OBVIOUS
<1>1. ASSUME NEW r \in Runs, Start(r) PROVE KeyInv'
  BY <1>1, StartKey
<1>2. ASSUME NEW r \in Runs, StatFirst(r) \/ StatSecond(r) PROVE KeyInv'
  BY <1>2, StatFirstKey, StatSecondKey
<1>3. ASSUME NEW r \in Runs, ReadFirst(r) \/ ReadSecond(r) PROVE KeyInv'
  BY <1>3, ReadFirstKey, ReadSecondKey
<1>4. ASSUME NEW r \in Runs, CreateFirst(r) \/ FillFirst(r) PROVE KeyInv'
  BY <1>4, CreateFirstKey, FillFirstKey
<1>5. ASSUME NEW r \in Runs, CreateSecond(r) \/ FillSecond(r) PROVE KeyInv'
  BY <1>5, CreateSecondKey, FillSecondKey
<1>6. ASSUME NEW r \in Runs, WriteFails(r) PROVE KeyInv'
  BY <1>6, WriteFailsKey
<1>7. ASSUME NEW r \in Runs, Listen(r) PROVE KeyInv'
  BY <1>7, ListenKey
<1>8. ASSUME NEW r \in Runs, Die(r) PROVE KeyInv'
  BY <1>8, DieKey
<1>9. CASE UNCHANGED vars
  <2>1. TypeOK' /\ HalvesBelong' /\ OwnWork' /\ HeldIsThere'
    BY <1>9, Points DEF vars, TypeOK, HalvesBelong, OwnWork, HeldIsThere,
       Complete, File
  <2>2. HoldsEnough' /\ ServedIsThere'
    BY <1>9, Points DEF vars, HoldsEnough, ServedIsThere, Complete
  <2>3. StartsTidy'
    <3>1. UNCHANGED <<file, pc, pair, seen, mishap>>
      BY <1>9 DEF vars
    <3>2. \A k \in Pairs : Bare(k)' = Bare(k) /\ Complete(k)' = Complete(k)
                          /\ Begun(k)' = Begun(k)
      BY <3>1 DEF Bare, Complete, Begun
    <3>3. \A r \in Runs : Bare(pair[r])' = Bare(pair[r])
                         /\ Complete(pair[r])' = Complete(pair[r])
      BY <3>1 DEF Bare, Complete
    <3> QED
      BY <3>1, <3>2, <3>3, Points DEF StartsTidy, File
  <2> QED
    BY <2>1, <2>2, <2>3 DEF KeyInv
<1> QED
  BY <1>1, <1>2, <1>3, <1>4, <1>5, <1>6, <1>7, <1>8, <1>9 DEF Next

-----------------------------------------------------------------------
(* The control socket.                                                     *)

LEMMA StepIsNext == ASSUME DaemonNext PROVE [Next]_vars
<1> PICK r \in Runs :
      \/ Launch(r) \/ Prepare(r) \/ Bind(r) \/ Exit(r)
      \/ Signal(r) \/ Shutdown(r)
      \/ Unlink(r) \/ ListenUnix(r) \/ ChmodFails(r)
      \/ Command(r) \/ Answer(r)
      \/ AcceptFails(r) \/ CloseSocket(r) \/ LeaveSocket(r)
  BY DEF DaemonNext
<1>1. CASE Launch(r) \/ Prepare(r) \/ Bind(r) \/ Exit(r)
  BY <1>1 DEF Launch, Prepare, Bind, Exit, Next
<1>2. CASE Signal(r) \/ Shutdown(r) \/ Unlink(r) \/ ListenUnix(r) \/ ChmodFails(r)
  BY <1>2 DEF Signal, Shutdown, Unlink, ListenUnix, ChmodFails
<1>3. CASE Command(r) \/ Answer(r) \/ AcceptFails(r) \/ CloseSocket(r)
           \/ LeaveSocket(r)
  BY <1>3 DEF Command, Answer, AcceptFails, CloseSocket, LeaveSocket
<1> QED
  BY <1>1, <1>2, <1>3

(* One run at a time, and what its goroutine has left at the path.         *)
Single == \A q, r \in Runs : Alive(q) /\ Alive(r) => q = r
OwnSocket ==
    \A r \in Runs :
        /\ pc[r] = "new" => ctl[r] = "idle"
        /\ At(r, "unlinked") => sock = Absent
        /\ At(r, "listening") => sock = r
        /\ ctl[r] \in {"deaf", "closed", "ended"} => r \in told \union faulted
        /\ ctl[r] # "failed"

(* The two parts by name.                                                *)
LEMMA SocketParts ==
    SocketInv <=> DaemonTypeOK /\ (~crowded => Single /\ OwnSocket)
  BY DEF SocketInv, Single, OwnSocket

(* Nobody is there.                                                      *)
LEMMA InitSocket == DaemonInit => SocketInv
<1> SUFFICES ASSUME DaemonInit PROVE SocketInv
  OBVIOUS
<1>1. TypeOK
  BY InitKey DEF DaemonInit, KeyInv
<1>2. DaemonTypeOK
  BY <1>1 DEF DaemonTypeOK, DaemonInit
<1>3. \A r \in Runs : pc[r] = "new" /\ ~Alive(r) /\ ctl[r] = "idle"
  BY DEF DaemonInit, Init, Alive
<1>4. Single /\ OwnSocket
  BY <1>3 DEF Single, OwnSocket, At
<1> QED
  BY <1>2, <1>4, SocketParts

(* What each step of main does to the run's own place.                     *)
LEMMA PrepareMoves ==
    ASSUME TypeOK, NEW r \in Runs, Prepare(r) \/ Bind(r)
    PROVE  /\ Alive(r) /\ pc'[r] # "new" /\ ctl' = ctl /\ sock' = sock
           /\ UNCHANGED <<told, faulted, crowded>>
           /\ \A q \in Runs : q # r => pc'[q] = pc[q]
<1>1. CASE StatFirst(r) \/ StatSecond(r)
  BY <1>1 DEF StatFirst, StatSecond, Goto, TypeOK, Alive, Gone, Prepare, Bind, socketVars, stopVars, pastVars
<1>2. CASE ReadFirst(r) \/ ReadSecond(r)
  BY <1>2 DEF ReadFirst, ReadSecond, Proceed, Goto, TypeOK, Alive, Gone, Prepare, Bind, socketVars, stopVars, pastVars
<1>3. CASE CreateFirst(r) \/ CreateSecond(r)
  BY <1>3 DEF CreateFirst, CreateSecond, Create, Goto, TypeOK, Alive, Gone, Prepare, Bind, socketVars, stopVars, pastVars
<1>4. CASE FillFirst(r) \/ FillSecond(r)
  BY <1>4 DEF FillFirst, FillSecond, Proceed, Goto, TypeOK, Alive, Gone, Prepare, Bind, socketVars, stopVars, pastVars
<1>5. CASE WriteFails(r)
  BY <1>5 DEF WriteFails, Goto, TypeOK, Alive, Gone, Prepare, Bind, socketVars, stopVars, pastVars
<1>6. CASE Listen(r)
  BY <1>6 DEF Listen, Goto, TypeOK, Alive, Gone, Prepare, Bind, socketVars, stopVars, pastVars
<1> QED
  BY <1>1, <1>2, <1>3, <1>4, <1>5, <1>6 DEF Prepare, Bind

(* The socket's, port's and shutdown's state keeps its types.            *)
LEMMA SocketTypes ==
    ASSUME DaemonTypeOK, TypeOK', DaemonNext
    PROVE  DaemonTypeOK'
<1> PICK r \in Runs :
      \/ Launch(r) \/ Prepare(r) \/ Bind(r) \/ Exit(r)
      \/ Signal(r) \/ Shutdown(r)
      \/ Unlink(r) \/ ListenUnix(r) \/ ChmodFails(r)
      \/ Command(r) \/ Answer(r)
      \/ AcceptFails(r) \/ CloseSocket(r) \/ LeaveSocket(r)
  BY DEF DaemonNext
<1> USE DEF DaemonTypeOK, socketVars, stopVars, pastVars, Reach
<1>1. CASE Launch(r) \/ Prepare(r)
  BY <1>1 DEF Launch, Prepare
<1>2. CASE Bind(r)
  BY <1>2 DEF Bind
<1>3. CASE Exit(r)
  BY <1>3 DEF Exit
<1>4. CASE Signal(r) \/ Shutdown(r)
  BY <1>4 DEF Signal, Shutdown
<1>5. CASE Unlink(r) \/ ListenUnix(r) \/ ChmodFails(r)
  BY <1>5 DEF Unlink, ListenUnix, ChmodFails
<1>6. CASE Command(r) \/ Answer(r)
  BY <1>6 DEF Command, Answer
<1>7. CASE AcceptFails(r) \/ CloseSocket(r) \/ LeaveSocket(r)
  BY <1>7 DEF AcceptFails, CloseSocket, LeaveSocket
<1> QED
  BY <1>1, <1>2, <1>3, <1>4, <1>5, <1>6, <1>7

(* A step of the one run that is there, which leaves the other runs alone. *)
LEMMA OneMoves ==
    ASSUME Single, OwnSocket, NEW r \in Runs, Alive(r),
           \A q \in Runs : q # r => pc'[q] = pc[q] /\ ctl'[q] = ctl[q],
           pc'[r] # "new", ctl'[r] # "failed",
           At(r, "unlinked")' => sock' = Absent,
           At(r, "listening")' => sock' = r,
           ctl'[r] \in {"deaf", "closed", "ended"} =>
               r \in told' \union faulted',
           told \ {r} \subseteq told', faulted \ {r} \subseteq faulted'
    PROVE  Single' /\ OwnSocket'
<1>1. \A q \in Runs : q # r => ~Alive(q) /\ ~Alive(q)'
  BY DEF Single, Alive
<1>2. Single'
  BY <1>1 DEF Single
<1>3. ASSUME NEW q \in Runs
      PROVE  /\ pc'[q] = "new" => ctl'[q] = "idle"
             /\ At(q, "unlinked")' => sock' = Absent
             /\ At(q, "listening")' => sock' = q
             /\ ctl'[q] \in {"deaf", "closed", "ended"} =>
                    q \in told' \union faulted'
             /\ ctl'[q] # "failed"
  <2>1. CASE q = r
    BY <2>1
  <2>2. CASE q # r
    BY <1>1, <2>2 DEF At, OwnSocket
  <2> QED
    BY <2>1, <2>2
<1> QED
  BY <1>2, <1>3 DEF OwnSocket

(* One step per action of Daemon.                                        *)
LEMMA NextSocket ==
    ASSUME SocketInv, DaemonNext, TypeOK'
    PROVE  SocketInv'
<1>1. DaemonTypeOK /\ TypeOK /\ DaemonTypeOK'
  BY SocketParts, SocketTypes DEF DaemonTypeOK
<1> SUFFICES ASSUME ~crowded' PROVE Single' /\ OwnSocket'
  BY <1>1 DEF SocketInv, Single, OwnSocket
<1> PICK r \in Runs :
      \/ Launch(r) \/ Prepare(r) \/ Bind(r) \/ Exit(r)
      \/ Signal(r) \/ Shutdown(r)
      \/ Unlink(r) \/ ListenUnix(r) \/ ChmodFails(r)
      \/ Command(r) \/ Answer(r)
      \/ AcceptFails(r) \/ CloseSocket(r) \/ LeaveSocket(r)
  BY DEF DaemonNext
<1>2. ~crowded
  BY DEF Launch, Prepare, Bind, Exit, Signal, Shutdown, Unlink, ListenUnix,
     ChmodFails, Command, Answer, AcceptFails, CloseSocket, LeaveSocket,
     pastVars
<1>3. Single /\ OwnSocket
  BY <1>2, SocketParts
<1>4. \A s : Reach(r, s) => \A q \in Runs : ctl'[q] = IF q = r THEN s ELSE ctl[q]
  BY <1>1 DEF DaemonTypeOK, Reach
<1>5. CASE Launch(r)
  <2>1. /\ pc[r] = "new" /\ pc'[r] = "stat first" /\ ctl' = ctl /\ sock' = sock
        /\ told' = told /\ faulted' = faulted
        /\ \A q \in Runs : q # r => pc'[q] = pc[q]
        /\ \A q \in Runs : ~Alive(q)
    BY <1>1, <1>5 DEF Launch, Start, Goto, TypeOK, socketVars, stopVars
  <2>2. \A q \in Runs : q # r => ~Alive(q)'
    BY <2>1 DEF Alive
  <2>3. ctl[r] = "idle"
    BY <1>3, <2>1 DEF OwnSocket
  <2>4. Single'
    BY <2>2 DEF Single
  <2> QED
    BY <1>3, <2>1, <2>2, <2>3, <2>4 DEF OwnSocket, At
<1>6. CASE Prepare(r) \/ Bind(r)
  <2>1. /\ Alive(r) /\ pc'[r] # "new" /\ ctl' = ctl /\ sock' = sock
        /\ told' = told /\ faulted' = faulted
        /\ \A q \in Runs : q # r => pc'[q] = pc[q]
    BY <1>1, <1>6, PrepareMoves
  <2>2. /\ ctl'[r] # "failed"
        /\ At(r, "unlinked")' => sock' = Absent
        /\ At(r, "listening")' => sock' = r
        /\ ctl'[r] \in {"deaf", "closed", "ended"} =>
               r \in told' \union faulted'
    BY <1>3, <2>1 DEF OwnSocket, At
  <2> QED
    BY <1>3, <2>1, <2>2, OneMoves
<1>7. CASE Exit(r)
  <2>1. /\ Alive(r) /\ pc'[r] = "dead" /\ ctl'[r] = "idle"
        /\ told' = told \ {r} /\ faulted' = faulted \ {r}
        /\ \A q \in Runs : q # r => pc'[q] = pc[q] /\ ctl'[q] = ctl[q]
    BY <1>1, <1>4, <1>7 DEF Exit, Die, Goto, TypeOK, Alive
  <2>2. ~At(r, "unlinked")' /\ ~At(r, "listening")'
    BY <2>1 DEF At
  <2> QED
    BY <1>3, <2>1, <2>2, OneMoves
<1>8. CASE Signal(r) \/ Shutdown(r) \/ Command(r) \/ Answer(r)
  <2>1. /\ pc' = pc /\ ctl' = ctl /\ sock' = sock
        /\ told \subseteq told' /\ faulted' = faulted
    BY <1>8 DEF Signal, Shutdown, Command, Answer, vars, socketVars, stopVars,
       pastVars
  <2> QED
    BY <1>3, <2>1 DEF Single, OwnSocket, At, Alive
<1>9. CASE Unlink(r)
  <2>1. /\ Alive(r) /\ pc' = pc /\ sock' = Absent /\ ctl'[r] = "unlinked"
        /\ told' = told /\ faulted' = faulted
        /\ \A q \in Runs : q # r => ctl'[q] = ctl[q]
    BY <1>4, <1>9 DEF Unlink, vars, Alive, Gone, stopVars, pastVars
  <2> QED
    BY <1>3, <2>1, OneMoves DEF At, Alive
<1>10. CASE ListenUnix(r)
  <2>1. /\ Alive(r) /\ pc' = pc /\ sock' = r /\ ctl'[r] = "listening"
        /\ told' = told /\ faulted' = faulted
        /\ \A q \in Runs : q # r => ctl'[q] = ctl[q]
    BY <1>3, <1>4, <1>10 DEF ListenUnix, vars, At, OwnSocket, stopVars, pastVars
  <2> QED
    BY <1>3, <2>1, OneMoves DEF At, Alive
<1>11. CASE ChmodFails(r) \/ AcceptFails(r) \/ CloseSocket(r) \/ LeaveSocket(r)
  <2>1. /\ Alive(r) /\ pc' = pc /\ ctl'[r] \in {"deaf", "closed", "ended"}
        /\ told' = told /\ faulted \subseteq faulted'
        /\ \A q \in Runs : q # r => ctl'[q] = ctl[q]
    BY <1>4, <1>11 DEF ChmodFails, AcceptFails, CloseSocket, LeaveSocket, vars,
       At, stopVars, pastVars
  <2>2. r \in told' \union faulted'
    <3>1. CASE ChmodFails(r) \/ AcceptFails(r)
      BY <3>1 DEF ChmodFails, AcceptFails
    <3>2. CASE CloseSocket(r)
      BY <2>1, <3>2 DEF CloseSocket
    <3>3. CASE LeaveSocket(r)
      <4>1. ctl[r] \in {"deaf", "closed"}
        BY <3>3 DEF LeaveSocket, At
      <4>2. r \in told \union faulted
        BY <1>3, <4>1 DEF OwnSocket
      <4> QED
        BY <2>1, <4>2
    <3> QED
      BY <1>11, <3>1, <3>2, <3>3
  <2> QED
    BY <1>3, <2>1, <2>2, OneMoves DEF At, Alive
<1> QED
  BY <1>5, <1>6, <1>7, <1>8, <1>9, <1>10, <1>11

(* Both invariants.                                                      *)
LEMMA DaemonInv == DaemonSpec => [](KeyInv /\ SocketInv)
<1>1. DaemonInit => KeyInv /\ SocketInv
  BY InitKey, InitSocket DEF DaemonInit
<1>2. KeyInv /\ SocketInv /\ [DaemonNext]_daemonVars => (KeyInv /\ SocketInv)'
  <2> SUFFICES ASSUME KeyInv, SocketInv, [DaemonNext]_daemonVars
               PROVE  (KeyInv /\ SocketInv)'
    OBVIOUS
  <2>1. CASE DaemonNext
    <3>1. KeyInv'
      BY <2>1, StepIsNext, NextKey
    <3>2. TypeOK'
      BY <3>1 DEF KeyInv
    <3> QED
      BY <2>1, <3>1, <3>2, NextSocket
  <2>2. CASE UNCHANGED daemonVars
    <3>1. KeyInv'
      BY <2>2, NextKey DEF daemonVars
    <3>2. SocketInv'
      BY <2>2, SocketParts, <3>1 DEF SocketInv, DaemonTypeOK, daemonVars, vars, socketVars,
         stopVars, pastVars, At, Alive, KeyInv
    <3> QED
      BY <3>1, <3>2
  <2> QED
    BY <2>1, <2>2
<1> QED
  BY <1>1, <1>2, PTL DEF DaemonSpec

-----------------------------------------------------------------------
(* The theorems.                                                           *)

(* The state stays within its types, for any number of runs (what the      *)
(* files hold, in memory and on disk).                                     *)
THEOREM DaemonTypes == DaemonSpec => []DaemonTypeOK
<1>1. SocketInv => DaemonTypeOK
  BY DEF SocketInv
<1> QED
  BY <1>1, DaemonInv, PTL

(* Whatever starts, overlaps or dies, a daemon that serves has a pair of   *)
(* identity halves that belong together, and serves with the certificate   *)
(* it announces (EnsureIdentity, EnsureMaterial, ListenAndServeTLS).       *)
THEOREM MaterialBelongs == DaemonSpec => []ServesWhatItHolds
<1>1. KeyInv => ServesWhatItHolds
  <2> SUFFICES ASSUME KeyInv, NEW r \in Runs, pc[r] = "serving"
               PROVE  /\ material[r]["identity"].first = material[r]["identity"].second
                      /\ material[r]["tls"].first = served[r]
    BY DEF ServesWhatItHolds
  <2>1. /\ material[r]["tls"]["first"] \in {Absent, file["tls"]["first"]}
        /\ material[r]["identity"]["first"] \in {Absent, file["identity"]["first"]}
        /\ material[r]["identity"]["second"] \in {Absent, file["identity"]["second"]}
    BY Points DEF HeldIsThere, Pairs
  <2>2. /\ material[r]["tls"].first # Absent
        /\ material[r]["identity"].first # Absent
        /\ material[r]["identity"].second # Absent
    BY Points DEF HoldsEnough
  <2>3. served[r] = file["tls"].first
    BY Points DEF ServedIsThere
  <2>4. Complete("identity")
    <3>1. material[r]["identity"]["second"] \in Runs
      BY <2>2, Points DEF Pairs
    <3>2. Whole(file["identity"].second)
      BY <2>1, <2>2, <3>1, KeyMaterialAssumption DEF Whole, KeyMaterialAssumption
    <3> QED
      BY <3>2, Points DEF HalvesBelong, Pairs
  <2> QED
    BY <2>1, <2>2, <2>3, <2>4 DEF Complete
<1> QED
  BY <1>1, DaemonInv, PTL

(* All daemons that ever serve have one certificate and one identity, so   *)
(* that what paired clients pinned stays true.                             *)
THEOREM OneForAll == DaemonSpec => []OneIdentity
<1>1. KeyInv => OneIdentity
  <2> SUFFICES ASSUME KeyInv, NEW q \in Runs, NEW r \in Runs,
                      served[q] # Absent, served[r] # Absent
               PROVE  material[q] = material[r]
    BY DEF OneIdentity
  <2>1. ASSUME NEW p \in Runs, served[p] # Absent
        PROVE  /\ material[p]["tls"]["first"] = file["tls"]["first"]
               /\ material[p]["tls"]["second"] = Absent
               /\ material[p]["identity"]["first"] = file["identity"]["first"]
               /\ material[p]["identity"]["second"] = file["identity"]["second"]
    <3>1. /\ material[p]["tls"]["first"] \in {Absent, file["tls"]["first"]}
          /\ material[p]["identity"]["first"] \in {Absent, file["identity"]["first"]}
          /\ material[p]["identity"]["second"] \in {Absent, file["identity"]["second"]}
      BY Points DEF HeldIsThere, Pairs
    <3>2. /\ material[p]["tls"].first # Absent
          /\ material[p]["tls"].second = Absent
          /\ material[p]["identity"].first # Absent
          /\ material[p]["identity"].second # Absent
      BY <2>1, Points DEF HoldsEnough
    <3> QED
      BY <3>1, <3>2
  <2>2. ASSUME NEW k \in Pairs, NEW h \in Halves
        PROVE  material[q][k][h] = material[r][k][h]
    BY <2>1 DEF Pairs, Halves
  <2>3. /\ material[q] \in [Pairs -> [Halves -> Runs \union {Absent}]]
        /\ material[r] \in [Pairs -> [Halves -> Runs \union {Absent}]]
    BY Points DEF TypeOK
  <2>4. ASSUME NEW k \in Pairs
        PROVE  material[q][k] = material[r][k]
    <3>1. /\ material[q][k] \in [Halves -> Runs \union {Absent}]
          /\ material[r][k] \in [Halves -> Runs \union {Absent}]
      BY <2>3
    <3> QED
      BY <2>2, <3>1
  <2> QED
    BY <2>3, <2>4
<1> QED
  BY <1>1, DaemonInv, PTL

(* A start fails only if some run died or failed to write, or two runs     *)
(* overlapped, before: the next start is safe.                             *)
THEOREM FailsOnlyThen == DaemonSpec => []FailsOnlyAfterMishap
<1>1. KeyInv => FailsOnlyAfterMishap
  BY Points DEF StartsTidy, FailsOnlyAfterMishap
<1> QED
  BY <1>1, DaemonInv, PTL

(* A daemon that is alone keeps the control socket it listens on, unless   *)
(* its own Chmod or Accept fails (Run).                                    *)
THEOREM KeepsItsSocket == DaemonSpec => []SocketKept
<1>1. SocketInv => SocketKept
  <2> SUFFICES ASSUME SocketInv, ~crowded, NEW r \in Runs \ (told \union faulted),
                      pc[r] = "serving", Listened(r)
               PROVE  ctl[r] = "listening" /\ sock = r
    BY DEF SocketKept
  <2>1. ctl[r] = "listening"
    BY DEF SocketInv, DaemonTypeOK, Listened
  <2> QED
    BY <2>1 DEF SocketInv, At, Alive, Gone
<1> QED
  BY <1>1, DaemonInv, PTL

(* What a run leaves at the socket's path keeps no later run from          *)
(* listening (Remove before Listen in Run).                                *)
THEOREM ListensAgain == DaemonSpec => []RestartListens
<1>1. SocketInv => RestartListens
  BY DEF SocketInv, RestartListens
<1> QED
  BY <1>1, DaemonInv, PTL

=======================================================================
