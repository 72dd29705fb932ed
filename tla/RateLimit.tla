------------------------------- MODULE RateLimit -------------------------------
(***************************************************************************)
(* middleware/rate-limit: the requests of one client to one route are      *)
(* counted in a bucket, a row of rate_limit_buckets that one statement     *)
(* inserts, advances or starts over; and lib/cleanup, which deletes old    *)
(* buckets every night.  A request takes the time when it arrives and      *)
(* counts itself later, so the statements may run in another order than    *)
(* their times, and one may find its bucket gone.  Times are in seconds,   *)
(* which is what the statement compares.                                   *)
(***************************************************************************)
EXTENDS Integers, FiniteSets, Functions

CONSTANTS
  Buckets,       \* keys: the namespace of a route, and a client
  MaxOf, WindowOf,   \* per bucket: requests let through, and the seconds they are counted in
  Retention,     \* age in seconds from which the cleanup deletes a bucket
  Calls,         \* requests served at the same time
  Life,          \* seconds after which a request has counted itself or is gone
  MaxCount, Horizon  \* bounds: on the count of a bucket, and on time

(* An hour is longer than any window and a request in it.                  *)
ASSUME RateLimitAssumption ==
  /\ MaxOf \in [Buckets -> Nat \ {0}] /\ WindowOf \in [Buckets -> Nat \ {0}]
  /\ Retention \in Nat /\ Life \in Nat /\ MaxCount \in Nat /\ Horizon \in Nat
  /\ \A k \in Buckets : WindowOf[k] + Life <= Retention

VARIABLES
  clock,
  buckets,    \* table rate_limit_buckets: key -> row
  calls,      \* per request served: none, or its bucket and when it arrived
  admitted    \* history: the requests let through, by bucket, window and place in
              \* it, with the times when they arrived and were counted

limitVars == <<clock, buckets, calls, admitted>>

NoCall == [at |-> -1]
BucketRow == [count : Nat, start : Nat]

LimitInit ==
  /\ clock = 0
  /\ buckets = <<>>
  /\ calls = [c \in Calls |-> NoCall]
  /\ admitted = {}

(* nowISO is taken before the statement is sent.                           *)
Arrive(c) ==
  /\ calls[c] = NoCall
  /\ \E k \in Buckets : calls' = [calls EXCEPT ![c] = [key |-> k, at |-> clock]]
  /\ UNCHANGED <<clock, buckets, admitted>>

(* INSERT ... ON CONFLICT DO UPDATE ... RETURNING count.                   *)
Over(k, at) == at - buckets[k].start >= WindowOf[k]
Upserted(k, at) ==
  IF k \notin DOMAIN buckets \/ Over(k, at) THEN [count |-> 1, start |-> at]
  ELSE [buckets[k] EXCEPT !.count = @ + 1]

(* Past the maximum the answer is 429.                                     *)
CountCall(c) ==
  /\ calls[c] # NoCall
  /\ LET k == calls[c].key
         row == Upserted(k, calls[c].at)
     IN  /\ row.count <= MaxCount
         /\ buckets' = [x \in DOMAIN buckets \union {k} |-> IF x = k THEN row ELSE buckets[x]]
         /\ admitted' =
              IF row.count > MaxOf[k] THEN admitted
              ELSE admitted \union {[key |-> k, start |-> row.start, n |-> row.count,
                                     at |-> calls[c].at, done |-> clock]}
  /\ calls' = [calls EXCEPT ![c] = NoCall]
  /\ UNCHANGED clock

(* The statement fails or the Worker is evicted.                           *)
DropCall(c) ==
  /\ calls[c] # NoCall
  /\ calls' = [calls EXCEPT ![c] = NoCall]
  /\ UNCHANGED <<clock, buckets, admitted>>

(* runNightlyCleanup: by the start of the window, not by its end.          *)
(* Variant: deletes whatever did not start just now.                       *)
Outdated_AtOnce == {k \in DOMAIN buckets : buckets[k].start < clock}
Outdated == {k \in DOMAIN buckets : buckets[k].start < clock - Retention}
CleanBuckets ==
  /\ Outdated # {}
  /\ buckets' = Restrict(buckets, DOMAIN buckets \ Outdated)
  /\ UNCHANGED <<clock, calls, admitted>>

Elapse ==
  /\ clock < Horizon
  /\ \A c \in Calls : calls[c] # NoCall => clock - calls[c].at < Life
  /\ clock' = clock + 1
  /\ UNCHANGED <<buckets, calls, admitted>>

LimitNext ==
  \/ \E c \in Calls : Arrive(c) \/ CountCall(c) \/ DropCall(c)
  \/ CleanBuckets \/ Elapse

LimitSpec == LimitInit /\ [][LimitNext]_limitVars

-------------------------------------------------------------------------------
(* "Per-IP fixed-window rate limiter", with "small overshoots possible at  *)
(* the window boundary": of the requests that arrive and are counted in an *)
(* interval as long as the window, wherever it begins, at most twice the   *)
(* maximum are let through, in spite of statements that overtake one       *)
(* another and of buckets that the cleanup deletes.                        *)
Within(k, from) ==
  {a \in admitted : a.key = k /\ a.at >= from /\ a.done < from + WindowOf[k]}
LimitHolds ==
  \A k \in Buckets, from \in 0 .. clock : Cardinality(Within(k, from)) <= 2 * MaxOf[k]
===============================================================================
