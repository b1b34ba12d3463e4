------------------------- MODULE RateLimiter --------------------------
(***************************************************************************)
(* The token buckets of internal/api/ratelimit.go, one per key (an address *)
(* and a route, or a token and an action).                                 *)
(*                                                                         *)
(* Tokens are counted in parts: a token is Per parts, and a tick of the    *)
(* clock brings Limit parts, so that the arithmetic is exact.  The code    *)
(* counts in float64; a property here leaves room for its rounding.        *)
(*                                                                         *)
(* newRateLimiter reads the clock with time.Now().UTC(), which drops the   *)
(* monotonic reading: when the machine's clock is set, the limiter's goes  *)
(* with it.  `forward' is how far it has moved forward in all, because     *)
(* time passed or because it was set; a client that waits for some time    *)
(* finds it moved on by that time at least.                                *)
(***************************************************************************)
EXTENDS Integers, Sequences

CONSTANTS
    Keys,
    Limit,      \* tokens in a full bucket
    Per,        \* ticks in which an empty bucket fills
    Second,     \* ticks in a second
    MaxTime,    \* bound on forward
    MaxBack     \* bound on back

ASSUME RateLimiterAssumption ==
    /\ Limit \in Nat \ {0}
    /\ Per \in Nat \ {0}
    /\ Second \in Nat \ {0}
    /\ MaxTime \in Nat
    /\ MaxBack \in Nat

VARIABLES
    now,        \* what the clock says
    forward,    \* how far it has moved forward in all
    back,       \* how far it has been set back in all
    known,      \* the keys that have a bucket
    tokens,     \* Keys -> parts in the bucket
    lastRefill, \* Keys -> when the clock last filled it
    (* history *)
    passed,     \* Keys -> where `forward' was when a request passed
    promise,    \* Keys -> where `forward' will be after the announced wait,
                \*         0 if the last request passed
    lag         \* Keys -> ticks the clock was behind the last refill when it
                \*         was announced, and was set back since

vars ==
    <<now, forward, back, known, tokens, lastRefill, passed, promise, lag>>

Full == Limit * Per

TypeOK ==
    /\ now \in Int
    /\ forward \in Nat
    /\ back \in Nat
    /\ known \subseteq Keys
    /\ tokens \in [Keys -> 0 .. Full]
    /\ lastRefill \in [Keys -> Int]
    /\ passed \in [Keys -> Seq(Nat)]
    /\ promise \in [Keys -> Nat]
    /\ lag \in [Keys -> Nat]

Init ==
    /\ now = MaxBack /\ forward = 0 /\ back = 0
    /\ known = {}
    /\ tokens = [k \in Keys |-> 0]
    /\ lastRefill = [k \in Keys |-> 0]
    /\ passed = [k \in Keys |-> <<>>]
    /\ promise = [k \in Keys |-> 0]
    /\ lag = [k \in Keys |-> 0]

-----------------------------------------------------------------------
(* The clock.                                                              *)

Tick ==
    /\ forward < MaxTime
    /\ forward' = forward + 1
    /\ now' = now + 1
    /\ UNCHANGED <<back, known, tokens, lastRefill, passed, promise, lag>>

SetBack ==
    /\ back < MaxBack
    /\ back' = back + 1
    /\ now' = now - 1
    /\ lag' = [k \in Keys |-> IF promise[k] = 0 THEN 0 ELSE lag[k] + 1]
    /\ UNCHANGED <<forward, known, tokens, lastRefill, passed, promise>>

-----------------------------------------------------------------------
(* allow, under its mutex.  The limits of the routes are positive and the  *)
(* keys not empty, so its early return is never taken.                     *)

CeilDiv(a, b) == (a + b - 1) \div b
LeastOf(a, b) == IF a < b THEN a ELSE b
MostOf(a, b) == IF a < b THEN b ELSE a

Elapsed(k) == now - lastRefill[k]

(* What the bucket holds once it is refilled.                              *)
Available(k) ==
    IF Elapsed(k) > 0 THEN LeastOf(Full, tokens[k] + Elapsed(k) * Limit)
    ELSE tokens[k]

Refilled(k) == MostOf(now, lastRefill[k])

\* Mutant of Wait: the rate is forgotten.
WaitOneSecond(need) == Second

(* Whole seconds until the missing parts have come.                        *)
Wait(need) == MostOf(Second, Second * CeilDiv(need, Limit * Second))

\* Mutant of Fresh: the first request is not counted.
FreshFull == Full

Fresh == Full - Per

Pass(k) ==
    /\ passed' = [passed EXCEPT ![k] = Append(@, forward)]
    /\ promise' = [promise EXCEPT ![k] = 0]
    /\ lag' = [lag EXCEPT ![k] = 0]

(* A key's first request.                                                  *)
NewBucket(k) ==
    /\ k \notin known
    /\ known' = known \union {k}
    /\ tokens' = [tokens EXCEPT ![k] = Fresh]
    /\ lastRefill' = [lastRefill EXCEPT ![k] = now]
    /\ Pass(k)
    /\ UNCHANGED <<now, forward, back>>

Admit(k) ==
    /\ k \in known
    /\ Available(k) >= Per
    /\ tokens' = [tokens EXCEPT ![k] = Available(k) - Per]
    /\ lastRefill' = [lastRefill EXCEPT ![k] = Refilled(k)]
    /\ Pass(k)
    /\ UNCHANGED <<now, forward, back, known>>

(* The refused client is told how long to wait, and counts from now.  The  *)
(* refill counts from the last one, which a clock set back is behind.      *)
Refuse(k) ==
    /\ k \in known
    /\ Available(k) < Per
    /\ tokens' = [tokens EXCEPT ![k] = Available(k)]
    /\ lastRefill' = [lastRefill EXCEPT ![k] = Refilled(k)]
    /\ promise' = [promise EXCEPT ![k] = forward + Wait(Per - Available(k))]
    /\ lag' = [lag EXCEPT ![k] = Refilled(k) - now]
    /\ UNCHANGED <<now, forward, back, known, passed>>

Next ==
    \/ Tick
    \/ SetBack
    \/ \E k \in Keys : NewBucket(k) \/ Admit(k) \/ Refuse(k)

Spec == Init /\ [][Next]_vars

-----------------------------------------------------------------------
(* Properties.                                                             *)

(* Whatever the clock does, from any request on that passed no more pass   *)
(* than a full bucket and what the clock's way since has brought (allow,   *)
(* with the limits of limitByIP and limitForAction).                       *)
AtMostTheLimit ==
    \A k \in Keys : \A i \in 1 .. Len(passed[k]) :
        LET last == passed[k][Len(passed[k])] IN
        (Len(passed[k]) - i + 1) * Per <= Full + Limit * (last - passed[k][i])

(* A client that waits the announced time, counted from its refusal, and a *)
(* second more passes, unless another request with its key passed before   *)
(* it.  One case is excepted: if the clock had been set back behind the    *)
(* bucket's last refill when the wait was announced, or is set back while  *)
(* the client waits, the announced time is not enough, and the client may  *)
(* have to wait longer, by that much and no more (lag; elapsed in allow is *)
(* not positive until the clock has caught up).  The second is for         *)
(* rounding: with the limits of the router the code's floats can be short  *)
(* of a token by their last digit.                                         *)
WaitSuffices ==
    \A k \in known :
        promise[k] # 0 /\ forward >= promise[k] + lag[k] + Second =>
            Available(k) >= Per

=======================================================================
