---------------------- MODULE RateLimiterProofs -----------------------
(* Proofs about RateLimiter, for all keys, limits and units of time.      *)
EXTENDS RateLimiter, TLAPS

-----------------------------------------------------------------------
(* Arithmetic.                                                             *)

(* Multiplication by a natural number keeps the order.                     *)
LEMMA TimesMonotone ==
    ASSUME NEW n \in Nat, NEW a \in Int, NEW b \in Int, a <= b
    PROVE  n * a <= n * b
PROOF BY SMT

(* Multiplication distributes over a sum and over a difference.            *)
LEMMA TimesSum ==
    ASSUME NEW n \in Int, NEW a \in Int, NEW b \in Int
    PROVE  n * (a + b) = n * a + n * b /\ n * (a - b) = n * a - n * b
PROOF BY SMT

(* The quotient rounded up is enough.                                      *)
LEMMA CeilDivEnough ==
    ASSUME NEW a \in Nat, NEW b \in Nat \ {0}
    PROVE  CeilDiv(a, b) \in Nat /\ b * CeilDiv(a, b) >= a
PROOF BY SMT DEF CeilDiv

-----------------------------------------------------------------------
(* The inductive invariant.                                                *)

(* Ticks since the last refill; none while the clock is behind it.         *)
Debt(k) == MostOf(0, now - lastRefill[k])

(* Parts a key could use now, if no bucket ever overflowed.                *)
Credit(k) == tokens[k] + Limit * Debt(k)

(* A key without a bucket has no history.                                  *)
Unknown ==
    \A k \in Keys \ known : passed[k] = <<>> /\ promise[k] = 0

(* How long the bucket will have been refilled after the announced wait.   *)
Refilling(k) == promise[k] + lag[k] - forward + now - lastRefill[k]

(* From each request that passed on, what was used and what could be used  *)
(* are together no more than a full bucket and the clock's way since.      *)
Budgeted ==
    \A k \in known : \A i \in 1 .. Len(passed[k]) :
        Credit(k) + (Len(passed[k]) - i + 1) * Per
            <= Full + Limit * (forward - passed[k][i])

(* By then it will hold a token.                                           *)
PromiseBacked ==
    \A k \in known : promise[k] # 0 =>
        Refilling(k) > 0 /\ tokens[k] + Limit * Refilling(k) >= Per

RateInv ==
    /\ TypeOK
    /\ Unknown
    /\ Budgeted
    /\ AtMostTheLimit
    /\ PromiseBacked

-----------------------------------------------------------------------
(* Refilling and waiting.                                                  *)

LEMMA FullIsNat == Full \in Nat /\ Per <= Full /\ Full - Per \in Nat
<1>1. Limit \in Nat /\ Limit >= 1 /\ Per \in Nat
  BY RateLimiterAssumption
<1>2. Per * 1 <= Per * Limit
  BY <1>1, TimesMonotone
<1>3. Full = Per * Limit /\ Per * 1 = Per
  BY <1>1, SMT DEF Full
<1>4. Full \in Nat
  BY <1>1, SMT DEF Full
<1> QED
  BY <1>1, <1>2, <1>3, <1>4

(* A refill never gives more than the credit, and leaves none behind.      *)
LEMMA RefillWithinCredit ==
    ASSUME TypeOK, NEW k \in Keys
    PROVE  /\ Available(k) \in 0 .. Full
           /\ Available(k) <= Credit(k)
           /\ Refilled(k) \in Int
           /\ now - Refilled(k) <= 0
<1>1. /\ now \in Int /\ lastRefill[k] \in Int /\ tokens[k] \in 0 .. Full
      /\ Limit \in Nat
  BY RateLimiterAssumption DEF TypeOK
<1>2. Refilled(k) \in Int /\ now - Refilled(k) <= 0
  BY <1>1 DEF Refilled, MostOf
<1>3. CASE Elapsed(k) > 0
  <2>1. Debt(k) = Elapsed(k) /\ Elapsed(k) \in Nat
    BY <1>1, <1>3 DEF Debt, Elapsed, MostOf
  <2>2. Limit * Elapsed(k) = Elapsed(k) * Limit /\ Elapsed(k) * Limit \in Nat
    BY <1>1, <2>1, SMT
  <2>3. Available(k) = LeastOf(Full, tokens[k] + Elapsed(k) * Limit)
    BY <1>3 DEF Available
  <2> QED
    BY <1>1, <1>2, <2>1, <2>2, <2>3, FullIsNat DEF Credit, LeastOf
<1>4. CASE ~(Elapsed(k) > 0)
  <2>1. Debt(k) = 0
    BY <1>1, <1>4 DEF Debt, Elapsed, MostOf
  <2>2. Available(k) = tokens[k]
    BY <1>4 DEF Available
  <2> QED
    BY <1>1, <1>2, <2>1, <2>2 DEF Credit
<1> QED
  BY <1>3, <1>4

(* The announced wait brings at least what is missing.                     *)
LEMMA WaitBringsNeed ==
    ASSUME NEW need \in Nat
    PROVE  /\ Wait(need) \in Nat
           /\ Wait(need) >= 1
           /\ Limit * Wait(need) >= need
<1> DEFINE n == CeilDiv(need, Limit * Second)
<1>1. Limit \in Nat \ {0} /\ Second \in Nat \ {0}
  BY RateLimiterAssumption
<1>2. Limit * Second \in Nat \ {0}
  BY <1>1, SMT
<1>3. n \in Nat /\ (Limit * Second) * n >= need
  BY <1>2, CeilDivEnough
<1> HIDE DEF n
<1>4. Second * n \in Nat /\ (Limit * Second) * n = Limit * (Second * n)
  BY <1>1, <1>3, SMT
<1>5. Wait(need) = MostOf(Second, Second * n)
  BY DEF Wait, n
<1>6. Wait(need) \in Nat /\ Wait(need) >= 1 /\ Second * n <= Wait(need)
  BY <1>1, <1>4, <1>5 DEF MostOf
<1>7. Limit * (Second * n) <= Limit * Wait(need)
  BY <1>1, <1>4, <1>6, TimesMonotone
<1>8. Limit * Wait(need) \in Nat
  BY <1>1, <1>6, SMT
<1> QED
  BY <1>1, <1>3, <1>4, <1>6, <1>7, <1>8

-----------------------------------------------------------------------
(* Each action keeps the invariant.                                        *)

(* A tick brings the credit no more than it adds to the clock's way.       *)
LEMMA TickKeeps ==
    ASSUME RateInv, Tick
    PROVE  RateInv'
<1> USE RateLimiterAssumption
<1>1. TypeOK'
  BY DEF RateInv, TypeOK, Tick
<1>2. Unknown' /\ AtMostTheLimit' /\ PromiseBacked'
  <2>1. Unknown' /\ AtMostTheLimit'
    BY DEF RateInv, Unknown, AtMostTheLimit, Tick, Full
  <2>2. ASSUME NEW k \in known PROVE Refilling(k)' = Refilling(k)
    <3>1. /\ promise[k] \in Nat /\ lag[k] \in Nat /\ lastRefill[k] \in Int
          /\ now \in Int /\ forward \in Nat
      BY DEF RateInv, TypeOK
    <3> QED
      BY <3>1 DEF Refilling, Tick
  <2>3. UNCHANGED <<known, tokens, promise>>
    BY DEF Tick
  <2>4. PromiseBacked'
    BY <2>2, <2>3 DEF RateInv, PromiseBacked
  <2> QED
    BY <2>1, <2>4
<1>3. Budgeted'
  <2> SUFFICES ASSUME NEW k \in known, NEW i \in 1 .. Len(passed[k])
               PROVE  Credit(k)' + (Len(passed[k]) - i + 1) * Per
                          <= Full + Limit * (forward' - passed[k][i])
    BY DEF Budgeted, Tick, Full
  <2> DEFINE used == (Len(passed[k]) - i + 1) * Per
             p == passed[k][i]
  <2>1. /\ now \in Int /\ lastRefill[k] \in Int /\ tokens[k] \in Int
        /\ forward \in Nat /\ p \in Nat /\ Limit \in Nat /\ used \in Int
    <3>1. k \in Keys /\ passed[k] \in Seq(Nat)
      BY DEF RateInv, TypeOK
    <3>2. Len(passed[k]) - i + 1 \in Int
      BY <3>1
    <3>3. used \in Int
      BY <3>2, SMT
    <3> QED
      BY <3>1, <3>3, FullIsNat DEF RateInv, TypeOK
  <2>2. Credit(k) + used <= Full + Limit * (forward - p)
    BY DEF RateInv, Budgeted
  <2> HIDE DEF used, p
  <2>3. Debt(k) \in Nat /\ Debt(k)' \in Nat /\ Debt(k)' <= Debt(k) + 1
    BY <2>1 DEF Debt, MostOf, Tick
  <2>4. Limit * Debt(k)' <= Limit * Debt(k) + Limit * 1
    <3>1. Limit * Debt(k)' <= Limit * (Debt(k) + 1)
      BY <2>1, <2>3, TimesMonotone
    <3> QED
      BY <2>1, <2>3, <3>1, TimesSum
  <2>5. Limit * (forward' - p) = Limit * (forward - p) + Limit * 1
    <3>1. forward' - p = (forward - p) + 1 /\ forward - p \in Int
      BY <2>1 DEF Tick
    <3> QED
      BY <2>1, <3>1, TimesSum
  <2>6. /\ Limit * Debt(k) \in Int /\ Limit * Debt(k)' \in Int
        /\ Limit * 1 \in Int /\ Limit * (forward - p) \in Int
    BY <2>1, <2>3, SMT
  <2>7. Credit(k)' = tokens[k] + Limit * Debt(k)'
    BY DEF Credit, Tick
  <2>8. Credit(k) = tokens[k] + Limit * Debt(k)
    BY DEF Credit
  <2>9. Credit(k)' + used <= Full + Limit * (forward' - p)
    BY <2>1, <2>2, <2>4, <2>5, <2>6, <2>7, <2>8, FullIsNat
  <2> QED
    BY <2>9 DEF used, p
<1> QED
  BY <1>1, <1>2, <1>3 DEF RateInv

(* A clock set back takes credit away.                                     *)
LEMMA SetBackKeeps ==
    ASSUME RateInv, SetBack
    PROVE  RateInv'
<1> USE RateLimiterAssumption
<1>1. TypeOK'
  BY DEF RateInv, TypeOK, SetBack
<1>2. Unknown' /\ AtMostTheLimit' /\ PromiseBacked'
  <2>1. Unknown' /\ AtMostTheLimit'
    BY DEF RateInv, Unknown, AtMostTheLimit, SetBack, Full
  <2>2. ASSUME NEW k \in known, promise[k] # 0
        PROVE  Refilling(k)' = Refilling(k)
    <3>1. /\ promise[k] \in Nat /\ lag[k] \in Nat /\ lastRefill[k] \in Int
          /\ now \in Int /\ forward \in Nat /\ k \in Keys
      BY DEF RateInv, TypeOK
    <3>2. lag'[k] = lag[k] + 1
      BY <2>2, <3>1 DEF SetBack
    <3> QED
      BY <3>1, <3>2 DEF Refilling, SetBack
  <2>3. UNCHANGED <<known, tokens, promise>>
    BY DEF SetBack
  <2>4. PromiseBacked'
    BY <2>2, <2>3 DEF RateInv, PromiseBacked
  <2> QED
    BY <2>1, <2>4
<1>3. Budgeted'
  <2> SUFFICES ASSUME NEW k \in known, NEW i \in 1 .. Len(passed[k])
               PROVE  Credit(k)' + (Len(passed[k]) - i + 1) * Per
                          <= Full + Limit * (forward - passed[k][i])
    BY DEF Budgeted, SetBack, Full
  <2> DEFINE used == (Len(passed[k]) - i + 1) * Per
             way == Limit * (forward - passed[k][i])
  <2>1. /\ now \in Int /\ lastRefill[k] \in Int /\ tokens[k] \in Int
        /\ Limit \in Nat /\ used \in Int /\ way \in Int
    <3>1. k \in Keys /\ passed[k] \in Seq(Nat) /\ forward \in Nat
      BY DEF RateInv, TypeOK
    <3>2. Len(passed[k]) - i + 1 \in Int /\ forward - passed[k][i] \in Int
      BY <3>1
    <3>3. used \in Int /\ way \in Int
      BY <3>2, SMT
    <3> QED
      BY <3>1, <3>3, FullIsNat DEF RateInv, TypeOK
  <2>2. Credit(k) + used <= Full + way
    BY DEF RateInv, Budgeted
  <2> HIDE DEF used, way
  <2>3. Debt(k) \in Nat /\ Debt(k)' \in Nat /\ Debt(k)' <= Debt(k)
    BY <2>1 DEF Debt, MostOf, SetBack
  <2>4. Limit * Debt(k)' <= Limit * Debt(k)
    BY <2>1, <2>3, TimesMonotone
  <2>5. Limit * Debt(k) \in Int /\ Limit * Debt(k)' \in Int
    BY <2>1, <2>3, SMT
  <2>6. Credit(k)' = tokens[k] + Limit * Debt(k)'
    BY DEF Credit, SetBack
  <2>7. Credit(k) = tokens[k] + Limit * Debt(k)
    BY DEF Credit
  <2>8. Credit(k)' + used <= Full + way
    BY <2>1, <2>2, <2>4, <2>5, <2>6, <2>7, FullIsNat
  <2> QED
    BY <2>8 DEF used, way
<1> QED
  BY <1>1, <1>2, <1>3 DEF RateInv

(* After a refill nothing is owed: the credit is what the bucket holds.    *)
LEMMA CreditAfterRefill ==
    ASSUME TypeOK, NEW k \in Keys, NEW t \in Int, NEW r \in Int, now - r <= 0,
           now' = now, tokens' = [tokens EXCEPT ![k] = t],
           lastRefill' = [lastRefill EXCEPT ![k] = r]
    PROVE  Credit(k)' = t
<1>1. /\ tokens'[k] = t /\ lastRefill'[k] = r /\ now \in Int /\ Limit \in Int
  BY RateLimiterAssumption DEF TypeOK
<1>2. Debt(k)' = 0
  BY <1>1 DEF Debt, MostOf
<1>3. Limit * Debt(k)' = 0
  BY <1>1, <1>2, SMT
<1> QED
  BY <1>1, <1>3 DEF Credit

(* What another key's request leaves alone.                                *)
LEMMA OtherKeyKeeps ==
    ASSUME RateInv, NEW k \in Keys, NEW q \in known, q # k,
           UNCHANGED <<now, forward, tokens[q], lastRefill[q], passed[q]>>
    PROVE  \A i \in 1 .. Len(passed'[q]) :
               Credit(q)' + (Len(passed'[q]) - i + 1) * Per
                   <= Full + Limit * (forward' - passed'[q][i])
BY DEF RateInv, Budgeted, Credit, Debt, Full

(* The refilled bucket is within the budget too.                           *)
LEMMA RefillWithinBudget ==
    ASSUME RateInv, NEW k \in known, NEW i \in 1 .. Len(passed[k])
    PROVE  /\ (Len(passed[k]) - i + 1) * Per \in Int
           /\ Limit * (forward - passed[k][i]) \in Int
           /\ Available(k) + (Len(passed[k]) - i + 1) * Per
                  <= Full + Limit * (forward - passed[k][i])
<1> DEFINE used == (Len(passed[k]) - i + 1) * Per
           way == Limit * (forward - passed[k][i])
<1>1. /\ TypeOK /\ k \in Keys /\ passed[k] \in Seq(Nat) /\ forward \in Nat
      /\ Limit \in Nat /\ Per \in Nat /\ tokens[k] \in 0 .. Full
      /\ now \in Int /\ lastRefill[k] \in Int
  BY RateLimiterAssumption DEF RateInv, TypeOK
<1>2. Len(passed[k]) - i + 1 \in Int /\ forward - passed[k][i] \in Int
  BY <1>1
<1>3. used \in Int /\ way \in Int
  BY <1>1, <1>2, SMT
<1>4. Available(k) \in 0 .. Full /\ Available(k) <= Credit(k)
  BY <1>1, RefillWithinCredit
<1>5. Credit(k) \in Int
  <2>1. tokens[k] \in Int /\ Debt(k) \in Int
    BY <1>1, FullIsNat DEF Debt, MostOf
  <2>2. Limit * Debt(k) \in Int
    BY <1>1, <2>1, SMT
  <2> QED
    BY <2>1, <2>2 DEF Credit
<1>6. Credit(k) + used <= Full + way
  BY DEF RateInv, Budgeted
<1> HIDE DEF used, way
<1>7. Available(k) + used <= Full + way
  BY <1>3, <1>4, <1>5, <1>6, FullIsNat
<1> QED
  BY <1>3, <1>7 DEF used, way

(* A key's first request starts its account.                               *)
LEMMA NewBucketKeeps ==
    ASSUME RateInv, NEW k \in Keys, NewBucket(k)
    PROVE  RateInv'
<1> USE RateLimiterAssumption
<1>1. /\ TypeOK /\ forward \in Nat /\ now \in Int /\ passed[k] = <<>>
      /\ k \notin known /\ Fresh \in 0 .. Full /\ Per \in Nat
  BY FullIsNat DEF RateInv, TypeOK, Unknown, NewBucket, Fresh
<1>2. TypeOK'
  BY <1>1 DEF TypeOK, NewBucket, Pass, Full
<1>3. passed'[k] = <<forward>>
  BY <1>1 DEF TypeOK, NewBucket, Pass
<1>4. Unknown'
  BY <1>1 DEF RateInv, TypeOK, Unknown, NewBucket, Pass
<1>5. PromiseBacked'
  BY <1>1 DEF RateInv, TypeOK, PromiseBacked, Refilling, NewBucket, Pass
<1>6. (Len(passed'[k]) - 1 + 1) * Per = Per /\ Limit * (forward - forward) = 0
  BY <1>1, <1>3, SMT
<1>7. Budgeted'
  <2>1. Credit(k)' = Fresh
    <3>1. Fresh \in Int /\ now - now <= 0
      BY <1>1, FullIsNat DEF Fresh
    <3> QED
      BY <1>1, <3>1, CreditAfterRefill DEF NewBucket
  <2>2. Credit(k)' + (Len(passed'[k]) - 1 + 1) * Per
            <= Full + Limit * (forward' - passed'[k][1])
    BY <1>1, <1>3, <1>6, <2>1, FullIsNat DEF NewBucket, Fresh
  <2>3. \A q \in known : q # k /\ q \in Keys
    BY <1>1 DEF TypeOK
  <2>4. ASSUME NEW q \in known
        PROVE  UNCHANGED <<now, forward, tokens[q], lastRefill[q], passed[q]>>
    BY <1>1, <2>3 DEF TypeOK, NewBucket, Pass
  <2>5. known' = known \union {k} /\ Len(passed'[k]) = 1
    BY <1>3 DEF NewBucket
  <2>6. \A i \in 1 .. Len(passed'[k]) : i = 1
    BY <2>5
  <2>7. ASSUME NEW q \in known'
        PROVE  \A i \in 1 .. Len(passed'[q]) :
                   Credit(q)' + (Len(passed'[q]) - i + 1) * Per
                       <= Full + Limit * (forward' - passed'[q][i])
    <3>1. CASE q = k
      BY <3>1, <2>2, <2>6
    <3>2. CASE q \in known
      BY <3>2, <2>3, <2>4, OtherKeyKeeps
    <3> QED
      BY <2>5, <3>1, <3>2
  <2> QED
    BY <2>7 DEF Budgeted, Full
<1>8. AtMostTheLimit'
  <2> SUFFICES ASSUME NEW q \in Keys, NEW i \in 1 .. Len(passed'[q])
               PROVE  (Len(passed'[q]) - i + 1) * Per <= Full + Limit
                          * (passed'[q][Len(passed'[q])] - passed'[q][i])
    BY DEF AtMostTheLimit, Full
  <2>1. CASE q = k
    <3>1. i = 1 /\ Len(passed'[k]) = 1 /\ passed'[k][1] = forward
      BY <1>3, <2>1
    <3> QED
      BY <1>1, <1>6, <2>1, <3>1, FullIsNat
  <2>2. CASE q # k
    <3>1. passed'[q] = passed[q]
      BY <1>1, <2>2 DEF TypeOK, NewBucket, Pass
    <3> QED
      BY <3>1 DEF RateInv, AtMostTheLimit
  <2> QED
    BY <2>1, <2>2
<1> QED
  BY <1>2, <1>4, <1>5, <1>7, <1>8 DEF RateInv

(* A refused request only refills, and is told when a token will be there. *)
LEMMA RefuseKeeps ==
    ASSUME RateInv, NEW k \in Keys, Refuse(k)
    PROVE  RateInv'
<1> USE RateLimiterAssumption
<1> DEFINE a == Available(k)
           r == Refilled(k)
<1>1. /\ TypeOK /\ k \in known /\ a \in 0 .. Full /\ a <= Credit(k)
      /\ r \in Int /\ now - r <= 0 /\ a < Per /\ Per \in Nat /\ Full \in Nat
      /\ Limit \in Nat /\ known \subseteq Keys
  BY RefillWithinCredit, FullIsNat DEF RateInv, TypeOK, Refuse
<1>2. Per - a \in Nat
  BY <1>1
<1> DEFINE w == Wait(Per - a)
<1>3. w \in Nat /\ w >= 1 /\ Limit * w >= Per - a
  BY <1>2, WaitBringsNeed
<1>4. /\ tokens' = [tokens EXCEPT ![k] = a]
      /\ lastRefill' = [lastRefill EXCEPT ![k] = r]
      /\ promise' = [promise EXCEPT ![k] = forward + w]
      /\ lag' = [lag EXCEPT ![k] = r - now]
      /\ UNCHANGED <<now, forward, back, known, passed>>
  BY DEF Refuse
<1> HIDE DEF a, r, w
<1>5. TypeOK'
  BY <1>1, <1>3, <1>4 DEF TypeOK, Full
<1>6. Unknown' /\ AtMostTheLimit'
  BY <1>1, <1>4 DEF RateInv, TypeOK, Unknown, AtMostTheLimit, Full
<1>7. PromiseBacked'
  <2>1. /\ tokens'[k] = a /\ lastRefill'[k] = r
        /\ promise'[k] = forward + w /\ lag'[k] = r - now
    BY <1>1, <1>4 DEF TypeOK
  <2>2. Refilling(k)' = w /\ w > 0
    BY <1>1, <1>3, <1>4, <2>1 DEF Refilling, TypeOK
  <2>3. a + Limit * w >= Per
    <3>1. Limit * w \in Int
      BY <1>1, <1>3, SMT
    <3> QED
      BY <1>1, <1>3, <3>1
  <2>4. ASSUME NEW q \in known, q # k
        PROVE  UNCHANGED <<tokens[q], promise[q], Refilling(q)>>
    BY <1>1, <1>4, <2>4 DEF TypeOK, Refilling
  <2>5. ASSUME NEW q \in known, promise'[q] # 0
        PROVE  Refilling(q)' > 0 /\ tokens'[q] + Limit * Refilling(q)' >= Per
    <3>1. CASE q = k
      BY <3>1, <2>1, <2>2, <2>3
    <3>2. CASE q # k
      BY <3>2, <2>4, <2>5 DEF RateInv, PromiseBacked
    <3> QED
      BY <3>1, <3>2
  <2> QED
    BY <1>4, <2>5 DEF PromiseBacked
<1>8. Budgeted'
  <2>1. Credit(k)' = a
    <3>1. a \in Int
      BY <1>1
    <3> QED
      BY <1>1, <1>4, <3>1, CreditAfterRefill
  <2>2. ASSUME NEW q \in known
        PROVE  \A i \in 1 .. Len(passed'[q]) :
                   Credit(q)' + (Len(passed'[q]) - i + 1) * Per
                       <= Full + Limit * (forward' - passed'[q][i])
    <3>1. CASE q = k
      <4>1. \A i \in 1 .. Len(passed[k]) :
               a + (Len(passed[k]) - i + 1) * Per
                   <= Full + Limit * (forward - passed[k][i])
        BY <1>1, RefillWithinBudget DEF a
      <4> QED
        BY <1>4, <2>1, <3>1, <4>1
    <3>2. CASE q # k
      <4>1. UNCHANGED <<now, forward, tokens[q], lastRefill[q], passed[q]>>
        BY <1>1, <1>4, <3>2 DEF TypeOK
      <4> QED
        BY <3>2, <4>1, OtherKeyKeeps
    <3> QED
      BY <3>1, <3>2
  <2> QED
    BY <1>4, <2>2 DEF Budgeted, Full
<1> QED
  BY <1>5, <1>6, <1>7, <1>8 DEF RateInv

(* A request that passes moves a token from the credit to what was used.   *)
LEMMA AdmitKeeps ==
    ASSUME RateInv, NEW k \in Keys, Admit(k)
    PROVE  RateInv'
<1> USE RateLimiterAssumption
<1> DEFINE a == Available(k)
           r == Refilled(k)
           n == Len(passed[k])
<1>1. /\ TypeOK /\ k \in known /\ a \in 0 .. Full /\ a >= Per
      /\ r \in Int /\ now - r <= 0 /\ Per \in Nat /\ Full \in Nat
      /\ Limit \in Nat /\ known \subseteq Keys /\ forward \in Nat
      /\ passed[k] \in Seq(Nat)
  BY RefillWithinCredit, FullIsNat DEF RateInv, TypeOK, Admit
<1>2. /\ tokens' = [tokens EXCEPT ![k] = a - Per]
      /\ lastRefill' = [lastRefill EXCEPT ![k] = r]
      /\ passed' = [passed EXCEPT ![k] = Append(@, forward)]
      /\ promise' = [promise EXCEPT ![k] = 0]
      /\ lag' = [lag EXCEPT ![k] = 0]
      /\ UNCHANGED <<now, forward, back, known>>
  BY DEF Admit, Pass
<1>3. \A i \in 1 .. n : /\ (n - i + 1) * Per \in Int
                         /\ Limit * (forward - passed[k][i]) \in Int
                         /\ a + (n - i + 1) * Per
                                <= Full + Limit * (forward - passed[k][i])
  BY <1>1, RefillWithinBudget
<1> HIDE DEF a, r
<1>4. TypeOK'
  BY <1>1, <1>2 DEF TypeOK, Full
<1>5. Unknown'
  BY <1>1, <1>2 DEF RateInv, TypeOK, Unknown
<1>6. PromiseBacked'
  BY <1>1, <1>2 DEF RateInv, TypeOK, PromiseBacked, Refilling
<1>7. /\ passed'[k] = Append(passed[k], forward) /\ n \in Nat
      /\ Len(passed'[k]) = n + 1 /\ passed'[k][n + 1] = forward
      /\ \A i \in 1 .. n : passed'[k][i] = passed[k][i]
  BY <1>1, <1>2 DEF TypeOK
<1> HIDE DEF n
<1>8. ASSUME NEW i \in 1 .. n + 1
      PROVE  /\ (n + 1 - i + 1) * Per \in Int
             /\ Limit * (forward - passed'[k][i]) \in Int
             /\ (a - Per) + (n + 1 - i + 1) * Per
                    <= Full + Limit * (forward - passed'[k][i])
  <2>1. CASE i = n + 1
    <3>1. (n + 1 - i + 1) * Per = Per
      <4>1. n + 1 - i + 1 = 1
        BY <1>7, <2>1
      <4> QED
        BY <1>1, <4>1
    <3>2. Limit * (forward - passed'[k][i]) = 0
      <4>1. forward - passed'[k][i] = 0
        BY <1>1, <1>7, <2>1
      <4> QED
        BY <1>1, <4>1
    <3> QED
      BY <1>1, <3>1, <3>2
  <2>2. CASE i # n + 1
    <3>1. i \in 1 .. n /\ passed'[k][i] = passed[k][i]
      BY <1>7, <2>2
    <3>2. (n + 1 - i + 1) * Per = Per * (n - i + 1) + Per * 1
      <4>1. n + 1 - i + 1 = (n - i + 1) + 1 /\ n - i + 1 \in Int
        BY <1>7
      <4>2. Per * ((n - i + 1) + 1) = Per * (n - i + 1) + Per * 1
        BY <1>1, <4>1, TimesSum
      <4> QED
        BY <1>1, <4>1, <4>2, SMT
    <3>3. Per * (n - i + 1) = (n - i + 1) * Per /\ Per * 1 = Per
      BY <1>1, <1>7, SMT
    <3>4. /\ (n - i + 1) * Per \in Int
          /\ Limit * (forward - passed[k][i]) \in Int
          /\ a + (n - i + 1) * Per <= Full + Limit * (forward - passed[k][i])
      BY <1>3, <3>1
    <3> DEFINE used == (n - i + 1) * Per
               way == Limit * (forward - passed[k][i])
    <3>5. (n + 1 - i + 1) * Per = used + Per
      BY <3>2, <3>3
    <3>6. used \in Int /\ way \in Int /\ a + used <= Full + way
      BY <3>4
    <3> HIDE DEF used, way
    <3>7. (a - Per) + (used + Per) <= Full + way /\ used + Per \in Int
      BY <1>1, <3>6
    <3>8. Limit * (forward - passed'[k][i]) = way
      BY <3>1 DEF way
    <3> QED
      BY <3>5, <3>6, <3>7, <3>8
  <2> QED
    BY <2>1, <2>2
<1>9. Budgeted'
  <2>1. Credit(k)' = a - Per
    <3>1. a - Per \in Int
      BY <1>1
    <3> QED
      BY <1>1, <1>2, <3>1, CreditAfterRefill
  <2>2. ASSUME NEW q \in known
        PROVE  \A i \in 1 .. Len(passed'[q]) :
                   Credit(q)' + (Len(passed'[q]) - i + 1) * Per
                       <= Full + Limit * (forward' - passed'[q][i])
    <3>1. CASE q = k
      <4>1. ASSUME NEW i \in 1 .. n + 1
            PROVE  Credit(k)' + (Len(passed'[k]) - i + 1) * Per
                       <= Full + Limit * (forward' - passed'[k][i])
        <5>1. Len(passed'[k]) - i + 1 = n + 1 - i + 1
          BY <1>7
        <5>2. forward' - passed'[k][i] = forward - passed'[k][i]
          BY <1>2
        <5> QED
          BY <1>8, <2>1, <5>1, <5>2, Zenon
      <4> QED
        BY <1>7, <3>1, <4>1, Zenon
    <3>2. CASE q # k
      <4>1. UNCHANGED <<now, forward, tokens[q], lastRefill[q], passed[q]>>
        BY <1>1, <1>2, <3>2 DEF TypeOK
      <4> QED
        BY <3>2, <4>1, OtherKeyKeeps
    <3> QED
      BY <3>1, <3>2
  <2> QED
    BY <1>2, <2>2 DEF Budgeted, Full
<1>10. AtMostTheLimit'
  <2>1. ASSUME NEW q \in Keys, NEW i \in 1 .. Len(passed'[q])
        PROVE  (Len(passed'[q]) - i + 1) * Per <= Full
                   + Limit * (passed'[q][Len(passed'[q])] - passed'[q][i])
    <3>1. CASE q = k
      <4> DEFINE used == (n + 1 - i + 1) * Per
                 way == Limit * (forward - passed'[k][i])
      <4>1. used \in Int /\ way \in Int /\ (a - Per) + used <= Full + way
        BY <1>7, <1>8, <2>1, <3>1
      <4> HIDE DEF used, way
      <4>2. used <= Full + way
        BY <1>1, <4>1
      <4>3. /\ Len(passed'[q]) = n + 1
            /\ passed'[q][Len(passed'[q])] = forward
            /\ passed'[q][i] = passed'[k][i]
        BY <1>7, <3>1
      <4>4. Len(passed'[q]) - i + 1 = n + 1 - i + 1
        BY <1>7, <3>1
      <4>5. passed'[q][Len(passed'[q])] - passed'[q][i]
                = forward - passed'[k][i]
        BY <4>3, Zenon
      <4> QED
        BY <4>2, <4>4, <4>5, Zenon DEF used, way
    <3>2. CASE q # k
      <4>1. passed'[q] = passed[q]
        BY <1>1, <1>2, <3>2 DEF TypeOK
      <4> QED
        BY <4>1 DEF RateInv, AtMostTheLimit
    <3> QED
      BY <3>1, <3>2
  <2> QED
    BY <2>1 DEF AtMostTheLimit, Full
<1> QED
  BY <1>4, <1>5, <1>6, <1>9, <1>10 DEF RateInv

-----------------------------------------------------------------------
(* The theorems.                                                           *)

(* The inductive invariant of the rate limiter: every bucket's account     *)
(* since any request that passed it balances (allow).                      *)
THEOREM RateInvariant == Spec => []RateInv
<1>1. Init => RateInv
  <2> SUFFICES ASSUME Init PROVE RateInv
    OBVIOUS
  <2>1. TypeOK
    BY RateLimiterAssumption, FullIsNat DEF Init, TypeOK
  <2> QED
    BY <2>1 DEF Init, RateInv, Unknown, Budgeted, AtMostTheLimit, PromiseBacked
<1>2. RateInv /\ [Next]_vars => RateInv'
  <2> SUFFICES ASSUME RateInv, [Next]_vars PROVE RateInv'
    OBVIOUS
  <2>1. CASE Tick
    BY <2>1, TickKeeps
  <2>2. CASE SetBack
    BY <2>2, SetBackKeeps
  <2>3. ASSUME NEW k \in Keys, NewBucket(k) PROVE RateInv'
    BY <2>3, NewBucketKeeps
  <2>4. ASSUME NEW k \in Keys, Admit(k) PROVE RateInv'
    BY <2>4, AdmitKeeps
  <2>5. ASSUME NEW k \in Keys, Refuse(k) PROVE RateInv'
    BY <2>5, RefuseKeeps
  <2>6. CASE UNCHANGED vars
    BY <2>6 DEF vars, RateInv, TypeOK, Unknown, Budgeted, AtMostTheLimit,
                PromiseBacked, Refilling, Credit, Debt, Full
  <2> QED
    BY <2>1, <2>2, <2>3, <2>4, <2>5, <2>6 DEF Next
<1> QED
  BY <1>1, <1>2, PTL DEF Spec

(* Type correctness of the rate limiter; no bucket ever holds less than    *)
(* nothing or more than its limit (allow, minFloat).                       *)
THEOREM RateTypeOK == Spec => []TypeOK
<1>1. RateInv => TypeOK
  BY DEF RateInv
<1> QED
  BY <1>1, RateInvariant, PTL

(* From any request on that passed, no more pass than a full bucket and    *)
(* the clock's way since (allow), whatever the clock does.                 *)
THEOREM LimitHolds == Spec => []AtMostTheLimit
<1>1. RateInv => AtMostTheLimit
  BY DEF RateInv
<1> QED
  BY <1>1, RateInvariant, PTL

(* A client that waits the announced time, and as long as the clock is     *)
(* behind or set back, passes (allow).                                     *)
THEOREM WaitIsEnough == Spec => []WaitSuffices
<1>1. RateInv => WaitSuffices
  <2> SUFFICES ASSUME RateInv, NEW k \in known, promise[k] # 0,
                      forward >= promise[k] + lag[k] + Second
               PROVE  Available(k) >= Per
    BY DEF WaitSuffices
  <2> DEFINE late == Refilling(k)
  <2>1. /\ k \in Keys /\ now \in Int /\ lastRefill[k] \in Int
        /\ tokens[k] \in Nat /\ promise[k] \in Int /\ lag[k] \in Int
        /\ forward \in Nat /\ Second \in Nat
        /\ Limit \in Nat /\ Per \in Nat /\ Full \in Nat /\ Per <= Full
    BY RateLimiterAssumption, FullIsNat DEF RateInv, TypeOK
  <2>2. late > 0 /\ late \in Int /\ tokens[k] + Limit * late >= Per
    BY <2>1 DEF RateInv, PromiseBacked, Refilling
  <2>3. Elapsed(k) >= late /\ Elapsed(k) \in Int
    BY <2>1 DEF Elapsed, Refilling
  <2> HIDE DEF late
  <2>4. Limit * late <= Limit * Elapsed(k)
    BY <2>1, <2>2, <2>3, TimesMonotone
  <2>5. /\ Limit * Elapsed(k) = Elapsed(k) * Limit
        /\ Elapsed(k) * Limit \in Int /\ Limit * late \in Int
    BY <2>1, <2>2, <2>3, SMT
  <2>6. Available(k) = LeastOf(Full, tokens[k] + Elapsed(k) * Limit)
    BY <2>2, <2>3 DEF Available
  <2> QED
    BY <2>1, <2>2, <2>4, <2>5, <2>6 DEF LeastOf
<1> QED
  BY <1>1, RateInvariant, PTL

=======================================================================
