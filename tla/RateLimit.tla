------------------------------- MODULE RateLimit -------------------------------
(***************************************************************************)
(* The token bucket of middleware/rate_limit.py.  A bucket holds the tokens *)
(* of a minute and refills at the pace of one minute's tokens a minute,    *)
(* whatever the limit of the path: measured in the time its refill takes,  *)
(* every full bucket holds Minute, and a token of key k is worth Cost(k).  *)
(* is_allowed does not await, so that one request is one step; the clock   *)
(* is taken not to run backwards, and arithmetic to be exact.              *)
(***************************************************************************)
EXTENDS Integers

CONSTANTS
    RateKeys,      \* client, path and method of a request
    SpecialKeys,   \* those with a limit of their own
    Minute,        \* a minute in ticks
    DefaultCost, SpecialCost, \* a minute by the tokens it has
    MaxMoment      \* bound: time

ASSUME RateConstants ==
    /\ SpecialKeys \subseteq RateKeys
    /\ Minute \in Nat /\ MaxMoment \in Nat
    /\ DefaultCost \in 1..Minute /\ SpecialCost \in 1..Minute

VARIABLES
    now,
    level,       \* what each bucket held at its last request
    lastRefill,
    spent        \* history: what each key was granted since each moment

rateVars == <<now, level, lastRefill, spent>>

Moments == 0..MaxMoment
Cost(k) == IF k \in SpecialKeys THEN SpecialCost ELSE DefaultCost

\* A key that was never seen has a full bucket.
RateInit ==
    /\ now = 0
    /\ level = [k \in RateKeys |-> Minute]
    /\ lastRefill = [k \in RateKeys |-> 0]
    /\ spent = [k \in RateKeys |-> [s \in Moments |-> 0]]

Refilled_Unbounded(k) == level[k] + (now - lastRefill[k])   \* mutated form
Refilled(k) ==
    LET sum == level[k] + (now - lastRefill[k]) IN
    IF sum < Minute THEN sum ELSE Minute

Allowed(k) == Refilled(k) >= Cost(k)

IsAllowed(k) ==
    /\ lastRefill' = [lastRefill EXCEPT ![k] = now]
    /\ level' = [level EXCEPT ![k] = Refilled(k) - (IF Allowed(k) THEN Cost(k) ELSE 0)]
    /\ spent' = IF Allowed(k)
                THEN [spent EXCEPT ![k] = [s \in Moments |-> @[s] + (IF s <= now THEN Cost(k) ELSE 0)]]
                ELSE spent
    /\ UNCHANGED now

TimePasses ==
    /\ now < MaxMoment /\ now' = now + 1
    /\ UNCHANGED <<level, lastRefill, spent>>

RateNext == (\E k \in RateKeys : IsAllowed(k)) \/ TimePasses

RateSpec == RateInit /\ [][RateNext]_rateVars

-----------------------------------------------------------------------------
(* Properties. *)

\* What a sliding window would allow: from no moment on is more granted than a
\* full bucket and the refill since.
WithinWindows(k) == \A s \in 0..now : spent[k][s] + Cost(k) <= Minute + (now - s)

\* The bucket, which remembers two numbers of a key's past, refuses a request
\* exactly if granting it would exceed the limit over some stretch of time.
LimitIsExact == \A k \in RateKeys : Allowed(k) <=> WithinWindows(k)
=============================================================================
