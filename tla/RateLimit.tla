------------------------------ MODULE RateLimit ------------------------------
(***************************************************************************)
(* The token buckets of apps/server/src/ratelimit.ts: consume, which every *)
(* costly route calls, and the sweep that drops buckets once a minute.     *)
(*                                                                         *)
(* A key is the text `route:who`.  Tokens are measured in time: one token  *)
(* is worth the Period it takes to refill (1 / refillPerSec), so refilling *)
(* adds the time elapsed and a bucket is full at Capacity * Period.  The   *)
(* fractions of the code are exact here.                                   *)
(***************************************************************************)
EXTENDS Integers, Sequences

CONSTANTS
    Key,
    Period, Capacity,   \* limits of a key's route
    Colon,              \* keys whose ROUTE has a colon: `ws:chat_send:0x1`
    SweepEvery,         \* the sweep's interval
    NoBucket, NoPromise,
    MaxTime             \* bound on the clock

ASSUME RateLimitAssumption ==
    /\ Period \in [Key -> Nat \ {0}] /\ Capacity \in [Key -> Nat \ {0}]
    /\ Colon \subseteq Key
    /\ SweepEvery \in Nat \ {0}
    /\ NoBucket \notin [tokens : Nat, last : Nat]
    /\ NoPromise \notin Nat

VARIABLES
    now,
    bucket,     \* buckets
    due,        \* when the sweep's timer fires next
    sweeps,     \* history: sweeps so far
    admitted,   \* history: key -> the calls let through
    promise     \* key -> the time told with the last refusal: now + retryMs

vars == <<now, bucket, due, sweeps, admitted, promise>>

Full(k) == Capacity[k] * Period[k]

Init ==
    /\ now = 0
    /\ bucket = [k \in Key |-> NoBucket]
    /\ due = SweepEvery
    /\ sweeps = 0
    /\ admitted = [k \in Key |-> <<>>]
    /\ promise = [k \in Key |-> NoPromise]

Least(a, b) == IF a < b THEN a ELSE b

\* What consume finds in a key's bucket once it is created or refilled.
LevelMutant(k) ==
    IF bucket[k] = NoBucket THEN Full(k) ELSE bucket[k].tokens + (now - bucket[k].last)
Level(k) ==
    IF bucket[k] = NoBucket THEN Full(k)
    ELSE Least(Full(k), bucket[k].tokens + (now - bucket[k].last))

\* consume: a token is there.
Admit(k) ==
    /\ Level(k) >= Period[k]
    /\ bucket' = [bucket EXCEPT ![k] = [tokens |-> Level(k) - Period[k], last |-> now]]
    /\ admitted' = [admitted EXCEPT ![k] = Append(@, [at |-> now, sweeps |-> sweeps])]
    /\ promise' = [promise EXCEPT ![k] = NoPromise]
    /\ UNCHANGED <<now, due, sweeps>>

\* What a refused call leaves in the bucket.
KeptMutant(k) == 0
Kept(k) == Level(k)

\* consume: none is; the caller is told when to come back.
Refuse(k) ==
    /\ Level(k) < Period[k]
    /\ bucket' = [bucket EXCEPT ![k] = [tokens |-> Kept(k), last |-> now]]
    /\ promise' = [promise EXCEPT ![k] = now + (Period[k] - Level(k))]
    /\ UNCHANGED <<now, due, sweeps, admitted>>

\* The sweep looks the limit up under what precedes the FIRST colon: a route
\* that has one of its own is unknown there, and its buckets all go.  The others
\* go when the tokens left by the last call are a full bucket.
Drops(k) ==
    /\ bucket[k] # NoBucket
    /\ k \in Colon \/ bucket[k].tokens >= Full(k)

Sweep ==
    /\ now >= due
    /\ due' = due + SweepEvery
    /\ bucket' = [k \in Key |-> IF Drops(k) THEN NoBucket ELSE bucket[k]]
    /\ sweeps' = sweeps + 1
    /\ UNCHANGED <<now, admitted, promise>>

Tick ==
    /\ now < MaxTime
    /\ now' = now + 1
    /\ UNCHANGED <<bucket, due, sweeps, admitted, promise>>

Next ==
    \/ \E k \in Key : Admit(k) \/ Refuse(k)
    \/ Sweep
    \/ Tick

Spec == Init /\ [][Next]_vars

-----------------------------------------------------------------------------
(* Properties                                                              *)

Bucket == [tokens : Nat, last : Nat]
Call   == [at : Nat, sweeps : Nat]

\* Every variable has its type; no bucket is overfull or from the future.
TypeOK ==
    /\ now \in Nat /\ due \in Nat /\ sweeps \in Nat
    /\ bucket \in [Key -> Bucket \cup {NoBucket}]
    /\ \A k \in Key : bucket[k] # NoBucket => bucket[k].tokens <= Full(k) /\ bucket[k].last <= now
    /\ admitted \in [Key -> Seq(Call)]
    /\ promise \in [Key -> Nat \cup {NoPromise}]

\* Calls from the i-th to the j-th, at most: a full bucket at first, another one
\* after each sweep for the keys the sweep forgets, and the refill in between.
Allowance(k, from, to) ==
    (IF k \in Colon THEN Full(k) * (1 + (to.sweeps - from.sweeps)) ELSE Full(k))
        + (to.at - from.at)

\* "allows short bursts up to `capacity`, smooths sustained load": over EVERY
\* window of calls, wherever it starts, no key gets more calls through than a
\* burst and the refill of the window, whatever refusals, sweeps and idle times
\* lie inside; for keys the sweep forgets, one more burst per sweep.
WindowBound ==
    \A k \in Key : \A j \in 1..Len(admitted[k]) : \A i \in 1..j :
        (j - i + 1) * Period[k] <= Allowance(k, admitted[k][i], admitted[k][j])

\* `retryMs` is honest: a caller who comes back at the time it was told, with no
\* other call of its key let through meanwhile, is let through.
RetryHonest ==
    \A k \in Key : promise[k] # NoPromise /\ now >= promise[k] => Level(k) >= Period[k]

\* "drop fully-refilled buckets (no longer constraining anything)".
SweepStep ==
    \A k \in Key : bucket[k] # NoBucket /\ bucket'[k] = NoBucket => Level(k) = Full(k)
SweptIsIdle == [][SweepStep]_vars
=============================================================================
