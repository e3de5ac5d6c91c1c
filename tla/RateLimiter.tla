---------------------------- MODULE RateLimiter ----------------------------
(***************************************************************************)
(* The token buckets of the rate-limit middleware: RateLimiter.Allow and   *)
(* the cleanup goroutine.  Allow takes the time, looks its bucket up in    *)
(* the map or stores a new one, and only then takes the bucket's mutex, so *)
(* that a request works with a time, and on a bucket, that may both be     *)
(* stale by then; cleanup removes buckets from the map in between.         *)
(*                                                                         *)
(* Limit tokens are refilled over Window clock units (limit per 60         *)
(* seconds), in whole tokens.                                              *)
(***************************************************************************)
EXTENDS Integers

CONSTANTS
  Keys,          \* client and kind of limit
  Buckets,       \* the Bucket values that can be allocated, each once
  Procs,         \* request goroutines
  Limit,         \* tokens per window
  Window,        \* 60 seconds
  IdleLimit,     \* 10 minutes
  MaxLag,        \* assumed: how long a request may take from time.Now to the mutex
  MaxNow,        \* bound: how far the clock runs
  NoBucket

ASSUME LimiterConstants ==
  /\ Limit \in Nat \ {0} /\ Window \in Nat \ {0}
  /\ IdleLimit \in Nat /\ MaxLag \in Nat /\ MaxNow \in Nat
  /\ NoBucket \notin Buckets

(* In the code 2 * 60 + 3 * MaxLag <= 600: a lag of up to 160 seconds.  A bucket that
   has been idle for that long has lost to its cap what the first fill of the next
   one gives, even when a request that still holds it fills it again. *)
ASSUME LagIsShort == 2 * Window + 3 * MaxLag <= IdleLimit + 1

VARIABLES
  store,         \* store[k] : the bucket in the map under key k
  bucket,        \* the fields of each allocated bucket
  req,           \* req[p] : where the request p is in Allow
  sweep,         \* the cleanup goroutine: the time it took and the keys left
  now,
  total,         \* history: requests granted per key
  first          \* history: the time of the first bucket of each key

vars == <<store, bucket, req, sweep, now, total, first>>

-----------------------------------------------------------------------------
Times == 0 .. MaxNow

(* created and granted are history: the time the bucket was made with, and
   how many requests it has let through. *)
Bucket == [tokens : 0 .. Limit, lastRefill : Times, lastAccess : Times,
           created : Times, granted : Nat]

ASSUME NoBucketIsNone == NoBucket \notin Bucket

Idle == [at |-> "idle"]
Req == {Idle} \cup [at : {"load"}, key : Keys, time : Times]
              \cup [at : {"lock"}, key : Keys, time : Times, bucket : Buckets]

Asleep == [at |-> "asleep"]
Sweep == {Asleep} \cup [at : {"range"}, time : Times, left : SUBSET Keys]

TypeOK ==
  /\ store \in [Keys -> Buckets \cup {NoBucket}]
  /\ bucket \in [Buckets -> Bucket \cup {NoBucket}]
  /\ req \in [Procs -> Req]
  /\ sweep \in Sweep
  /\ now \in Times
  /\ total \in [Keys -> Nat]
  /\ first \in [Keys -> Times]

Init ==
  /\ store = [k \in Keys |-> NoBucket]
  /\ bucket = [b \in Buckets |-> NoBucket]
  /\ req = [p \in Procs |-> Idle]
  /\ sweep = Asleep
  /\ now = 0
  /\ total = [k \in Keys |-> 0]
  /\ first = [k \in Keys |-> MaxNow]

-----------------------------------------------------------------------------
Goto(p, r) == req' = [req EXCEPT ![p] = r]

(* now := time.Now() *)
Allow(p, k) ==
  /\ req[p] = Idle
  /\ Goto(p, [at |-> "load", key |-> k, time |-> now])
  /\ UNCHANGED <<store, bucket, sweep, now, total, first>>

(* LoadOrStore: the bucket in the map, or a full one dated by the request. *)
LoadBucket(p) ==
  LET r == req[p] IN
  /\ r.at = "load" /\ store[r.key] # NoBucket
  /\ Goto(p, [at |-> "lock", key |-> r.key, time |-> r.time, bucket |-> store[r.key]])
  /\ UNCHANGED <<store, bucket, sweep, now, total, first>>

StoreBucket(p, b) ==
  LET r == req[p] IN
  /\ r.at = "load" /\ store[r.key] = NoBucket
  /\ bucket[b] = NoBucket
  /\ store' = [store EXCEPT ![r.key] = b]
  /\ bucket' = [bucket EXCEPT ![b] =
                  [tokens |-> Limit, lastRefill |-> r.time,
                   lastAccess |-> r.time, created |-> r.time, granted |-> 0]]
  /\ first' = [first EXCEPT ![r.key] = IF r.time < @ THEN r.time ELSE @]
  /\ Goto(p, [at |-> "lock", key |-> r.key, time |-> r.time, bucket |-> b])
  /\ UNCHANGED <<sweep, now, total>>

(* int(elapsed.Seconds() * refillRate): whole tokens, and none when the
   request's time is before the last refill. *)
RefillTokens(b, t) ==
  IF t > b.lastRefill THEN (Limit * (t - b.lastRefill)) \div Window ELSE 0

(* Variants: a refill without the cap, and one that is never dated. *)
RefillUncapped(b, t) ==
  IF RefillTokens(b, t) > 0
    THEN [b EXCEPT !.tokens = @ + RefillTokens(b, t), !.lastRefill = t]
    ELSE b

RefillUndated(b, t) ==
  IF RefillTokens(b, t) > 0
    THEN [b EXCEPT !.tokens = IF @ + RefillTokens(b, t) > Limit
                                THEN Limit ELSE @ + RefillTokens(b, t)]
    ELSE b

Refill(b, t) ==
  IF RefillTokens(b, t) > 0
    THEN [b EXCEPT !.tokens = IF @ + RefillTokens(b, t) > Limit
                                THEN Limit ELSE @ + RefillTokens(b, t),
                   !.lastRefill = t]
    ELSE b

(* Variant: lastAccess is never brought up to date. *)
TouchNever(b, t) == b

Touch(b, t) == [b EXCEPT !.lastAccess = t]

Take(b) == [b EXCEPT !.tokens = @ - 1, !.granted = @ + 1]

(* The section under the bucket's mutex: touch, refill, take a token or refuse. *)
Decide(p) ==
  LET r == req[p]
      b == Refill(Touch(bucket[r.bucket], r.time), r.time) IN
  /\ r.at = "lock"
  /\ IF b.tokens > 0
       THEN /\ bucket' = [bucket EXCEPT ![r.bucket] = Take(b)]
            /\ total' = [total EXCEPT ![r.key] = @ + 1]
       ELSE /\ bucket' = [bucket EXCEPT ![r.bucket] = b]
            /\ UNCHANGED total
  /\ Goto(p, Idle)
  /\ UNCHANGED <<store, sweep, now, first>>

-----------------------------------------------------------------------------
(* The cleanup goroutine: a tick, and the time it takes. *)
SweepStart ==
  /\ sweep = Asleep
  /\ sweep' = [at |-> "range", time |-> now, left |-> Keys]
  /\ UNCHANGED <<store, bucket, req, now, total, first>>

(* One key of the Range, under the mutex of its bucket.  A request that has
   loaded the bucket keeps it. *)
SweepKey(k) ==
  /\ sweep.at = "range" /\ k \in sweep.left
  /\ store' = IF store[k] # NoBucket
                   /\ sweep.time - bucket[store[k]].lastAccess > IdleLimit
                THEN [store EXCEPT ![k] = NoBucket]
                ELSE store
  /\ sweep' = IF sweep.left = {k} THEN Asleep ELSE [sweep EXCEPT !.left = @ \ {k}]
  /\ UNCHANGED <<bucket, req, now, total, first>>

(* No request is held up for longer than MaxLag before it has its mutex. *)
Tick ==
  /\ now < MaxNow
  /\ \A p \in Procs : req[p] # Idle => now - req[p].time < MaxLag
  /\ now' = now + 1
  /\ UNCHANGED <<store, bucket, req, sweep, total, first>>

Next ==
  \/ \E p \in Procs :
       \/ \E k \in Keys : Allow(p, k)
       \/ LoadBucket(p)
       \/ \E b \in Buckets : StoreBucket(p, b)
       \/ Decide(p)
  \/ SweepStart
  \/ \E k \in Keys : SweepKey(k)
  \/ Tick

Spec == Init /\ [][Next]_vars

-----------------------------------------------------------------------------
(* Over its life a bucket lets through no more than its initial fill and what
   the rate gives up to the last refill, whichever stale times the requests
   bring and in whichever order they get the mutex. *)
BucketConforms ==
  \A b \in Buckets : bucket[b] # NoBucket =>
    Window * (bucket[b].granted + bucket[b].tokens)
      <= Window * Limit + Limit * (bucket[b].lastRefill - bucket[b].created)

(* A request that was overtaken by later ones does not turn the refill clock
   back: the same time is never paid for twice. *)
RefillClockMonotone ==
  [][\A b \in Buckets : bucket[b] # NoBucket =>
       bucket'[b].lastRefill >= bucket[b].lastRefill]_vars

(* Forgetting idle buckets gains a client nothing: over all its buckets, those
   removed from the map while requests still held them included, a key is
   granted no more than one bucket that was never removed would grant. *)
KeyConforms ==
  \A k \in Keys :
    Window * total[k] <= Window * Limit
      + (IF total[k] = 0 THEN 0 ELSE Limit * (now - first[k]))
=============================================================================
