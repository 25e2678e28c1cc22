------------------------------- MODULE RateLimit -------------------------------
(***************************************************************************)
(* One bucket of the fixed-window rate limiter (backend/app/ratelimit.py): *)
(* INCR, EXPIRE on the first hit and TTL on a refusal are three calls of   *)
(* Redis, and a call may fail, or its answer be lost, or the process die   *)
(* between two of them.  Time is the moment Redis drops an expired key.    *)
(***************************************************************************)
EXTENDS Integers

CONSTANTS
    Callers,   \* the requests that may be in the limiter at a time
    Limit,     \* auth_rate_limit_per_minute
    MaxFaults  \* bound: Redis errors and crashes

ASSUME LimitAssumption == Limit \in Nat \ {0}

VARIABLES
    counter,  \* the key: its value, 0 when there is none, and whether it has a TTL
    hit,      \* hit[h]: where the request of h is in rate_limit
    faults,
    leaked    \* history: the EXPIRE of a key was lost

limiter == <<counter, hit, faults, leaked>>

NoKey == [count |-> 0, expires |-> FALSE]

Decided == {"admitted", "refused", "dropped"}

\* Mutant: the TTL is set on a count that never is.
CountedFromZero(count) == count = 0

FirstHit(count) == count = 1

\* Where the request goes once its EXPIRE, if any, is behind it.
Verdict(count) == IF count > Limit THEN "ttl" ELSE "admitted"

Incr(h) ==
    LET count == counter.count + 1
    IN  /\ hit[h] = "incr"
        /\ counter' = [counter EXCEPT !.count = count]
        /\ hit' = [hit EXCEPT ![h] = IF FirstHit(count) THEN "expire" ELSE Verdict(count)]
        /\ UNCHANGED <<faults, leaked>>

Expire(h) ==
    /\ hit[h] = "expire"
    /\ counter' = [counter EXCEPT !.expires = TRUE]
    /\ hit' = [hit EXCEPT ![h] = Verdict(1)]
    /\ UNCHANGED <<faults, leaked>>

\* 429, with the time left in Retry-After.
Ttl(h) ==
    /\ hit[h] = "ttl"
    /\ hit' = [hit EXCEPT ![h] = "refused"]
    /\ UNCHANGED <<counter, faults, leaked>>

InRedis == {"incr", "expire", "ttl"}

\* A Redis call fails, before or after it has taken effect: the request is let through.
\* Or the process dies with it: it is dropped.
Fault(h) ==
    /\ hit[h] \in InRedis /\ faults < MaxFaults
    /\ \E outcome \in {"admitted", "dropped"}, applied \in BOOLEAN :
          /\ hit' = [hit EXCEPT ![h] = outcome]
          /\ counter' = IF ~applied THEN counter
                        ELSE CASE hit[h] = "incr"   -> [counter EXCEPT !.count = @ + 1]
                               [] hit[h] = "expire" -> [counter EXCEPT !.expires = TRUE]
                               [] hit[h] = "ttl"    -> counter
          /\ leaked' = \/ leaked
                       \/ /\ counter'.count > 0 /\ ~counter'.expires
                          /\ hit[h] = "expire" \/ counter.count = 0
    /\ faults' = faults + 1

\* Redis drops a key whose TTL has passed.
WindowEnds ==
    /\ counter.expires
    /\ counter' = NoKey
    /\ UNCHANGED <<hit, faults, leaked>>

Limiting(h) == Incr(h) \/ Expire(h) \/ Ttl(h)

\* A bucket that refuses opens again, unless the EXPIRE of its key was lost: then it
\* stays limited for ever, and says in Retry-After that it will not.
BucketReopens ==
    (counter.count > Limit /\ ~leaked) ~> (counter.count = 0 \/ leaked)

=============================================================================
