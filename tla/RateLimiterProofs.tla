------------------------- MODULE RateLimiterProofs -------------------------
(* What RateLimiter promises of every bucket and of every key, for every limit,
   window and number of requests.  What is said of a single bucket holds whatever
   the lag of a request; only what a key is granted over all its buckets uses that
   Tick waits for requests, and that LagIsShort. *)
EXTENDS RateLimiter, TLAPS

-----------------------------------------------------------------------------
(* A whole number of tokens is no more than the exact refill. *)
LEMMA WholeTokens ==
  ASSUME NEW e \in Nat
  PROVE  /\ (Limit * e) \div Window \in Nat
         /\ Window * ((Limit * e) \div Window) <= Limit * e
<1>1. Limit \in Nat /\ Window \in Nat /\ Window > 0
  BY LimiterConstants
<1>2. Limit * e \in Nat
  BY <1>1
<1>3. ASSUME NEW x \in Nat, NEW w \in Nat, w > 0
      PROVE  x \div w \in Nat /\ w * (x \div w) <= x
  BY <1>3, Z3
<1> QED BY <1>1, <1>2, <1>3

(* The account of one bucket: what it granted and still holds is covered by
   its first fill and the refills up to lastRefill. *)
Conforms(b) ==
  Window * (b.granted + b.tokens)
    <= Window * Limit + Limit * (b.lastRefill - b.created)

(* A refill keeps a bucket within its type and its account, grants nothing,
   and never turns its clock back, whatever time the request brings. *)
LEMMA RefillKeeps ==
  ASSUME NEW b \in Bucket, NEW t \in Times
  PROVE  /\ Refill(b, t) \in Bucket
         /\ Refill(b, t).lastRefill >= b.lastRefill
         /\ Conforms(b) => Conforms(Refill(b, t))
<1> DEFINE n == RefillTokens(b, t)
           r == Refill(b, t)
<1>1. /\ Limit \in Nat /\ Window \in Nat /\ MaxNow \in Nat
      /\ b.tokens \in 0 .. Limit /\ b.granted \in Nat
      /\ b.lastRefill \in Times /\ b.created \in Times
  BY LimiterConstants DEF Bucket
<1>0. t > b.lastRefill => t - b.lastRefill \in Nat
  BY <1>1 DEF Times
<1>2. n \in Nat
  BY <1>0, WholeTokens DEF RefillTokens
<1>3. CASE ~(n > 0)
  BY <1>1, <1>3 DEF Refill, Times
<1>4. CASE n > 0
  <2>1. t > b.lastRefill /\ n = (Limit * (t - b.lastRefill)) \div Window
    BY <1>4 DEF RefillTokens
  <2>2. Window * n <= Limit * (t - b.lastRefill)
    BY <2>1, <1>0, WholeTokens
  <2>3. r = [b EXCEPT !.tokens = IF b.tokens + n > Limit THEN Limit ELSE b.tokens + n,
                      !.lastRefill = t]
    BY <1>4 DEF Refill
  <2> DEFINE m == IF b.tokens + n > Limit THEN Limit ELSE b.tokens + n
  <2>4. m \in 0 .. Limit
    BY <1>1, <1>2
  <2>5. r = [b EXCEPT !.tokens = m, !.lastRefill = t]
    BY <2>3
  <2>6. r \in Bucket
    <3> HIDE DEF n, r, m
    <3> QED BY <2>4, <2>5 DEF Bucket
  <2>7. /\ r.lastRefill = t /\ r.created = b.created /\ r.granted = b.granted
        /\ r.tokens \in Nat /\ r.tokens <= b.tokens + n
    BY <2>3, <1>1, <1>2 DEF Bucket, Times
  <2>8. ASSUME Conforms(b) PROVE Conforms(r)
    <3>1. Window * (b.granted + r.tokens) <= Window * (b.granted + b.tokens + n)
      BY <2>7, <1>1, <1>2
    <3>2. Window * (b.granted + b.tokens + n)
            = Window * (b.granted + b.tokens) + Window * n
      BY <1>1, <1>2
    <3>3. Limit * (b.lastRefill - b.created) + Limit * (t - b.lastRefill)
            = Limit * (t - b.created)
      BY <1>1 DEF Times
    <3>4. Window * (b.granted + b.tokens)
            <= Window * Limit + Limit * (b.lastRefill - b.created)
      BY <2>8 DEF Conforms
    <3> HIDE DEF n, r
    <3>5. /\ Window * (b.granted + r.tokens) \in Int
          /\ Window * (b.granted + b.tokens) \in Int
          /\ Window * n \in Int /\ Window * Limit \in Int
          /\ Limit * (b.lastRefill - b.created) \in Int
          /\ Limit * (t - b.lastRefill) \in Int
          /\ Limit * (t - b.created) \in Int
      BY <2>7, <1>1, <1>2 DEF Times
    <3> QED BY <2>2, <2>7, <3>1, <3>2, <3>3, <3>4, <3>5 DEF Conforms
  <2> QED BY <2>1, <2>6, <2>7, <2>8, <1>1 DEF Times
<1> QED BY <1>2, <1>3, <1>4

(* Taking a token moves it from what the bucket holds to what it granted. *)
LEMMA TakeKeeps ==
  ASSUME NEW b \in Bucket, b.tokens > 0
  PROVE  /\ Take(b) \in Bucket
         /\ Take(b).lastRefill = b.lastRefill
         /\ Conforms(b) => Conforms(Take(b))
<1>1. b.tokens \in 0 .. Limit /\ b.granted \in Nat /\ Limit \in Nat
  BY LimiterConstants DEF Bucket
<1>2. Take(b) \in Bucket
  <2> DEFINE m == b.tokens - 1
             g == b.granted + 1
  <2>1. m \in 0 .. Limit /\ g \in Nat
    BY <1>1
  <2>2. Take(b) = [b EXCEPT !.tokens = m, !.granted = g]
    BY DEF Take
  <2> HIDE DEF m, g
  <2> QED BY <2>1, <2>2 DEF Bucket
<1>3. /\ Take(b).lastRefill = b.lastRefill /\ Take(b).created = b.created
      /\ Take(b).granted = b.granted + 1 /\ Take(b).tokens = b.tokens - 1
  BY DEF Take, Bucket
<1>4. Take(b).granted + Take(b).tokens = b.granted + b.tokens
  BY <1>1, <1>3
<1> QED BY <1>2, <1>3, <1>4 DEF Conforms

(* Dating the last access changes neither type nor account of a bucket. *)
LEMMA TouchKeeps ==
  ASSUME NEW b \in Bucket, NEW t \in Times
  PROVE  /\ Touch(b, t) \in Bucket
         /\ Touch(b, t).lastRefill = b.lastRefill
         /\ Conforms(b) => Conforms(Touch(b, t))
  BY DEF Touch, Bucket, Conforms
-----------------------------------------------------------------------------
(* A bucket that is in the map, or in the hands of a request, is allocated. *)
Allocated ==
  /\ \A k \in Keys : store[k] # NoBucket => bucket[store[k]] \in Bucket
  /\ \A p \in Procs : req[p].at = "lock" => bucket[req[p].bucket] \in Bucket

Accounts == \A b \in Buckets : bucket[b] # NoBucket => Conforms(bucket[b])

IInv == TypeOK /\ Allocated /\ Accounts

(* The invariant holds when the server starts with an empty map. *)
LEMMA InitIInv == Init => IInv
<1> SUFFICES ASSUME Init PROVE IInv
  OBVIOUS
<1>1. Idle \in Req /\ Asleep \in Sweep /\ 0 \in Times /\ MaxNow \in Times
  BY LimiterConstants DEF Req, Sweep, Times
<1>2. TypeOK
  BY <1>1 DEF Init, TypeOK
<1>3. Allocated
  BY DEF Init, Allocated, Idle
<1>4. Accounts
  BY DEF Init, Accounts
<1> QED BY <1>2, <1>3, <1>4 DEF IInv

(* What a request holds while it is in Allow. *)
LEMMA RequestTypes ==
  ASSUME TypeOK, NEW p \in Procs, req[p].at \in {"load", "lock"}
  PROVE  /\ req[p].key \in Keys /\ req[p].time \in Times
         /\ req[p].at = "lock" => req[p].bucket \in Buckets
<1>1. req[p] \in Req
  BY DEF TypeOK
<1> QED BY <1>1 DEF Req, Idle

(* The steps that leave the buckets and the map alone only move requests, the
   sweep or the clock. *)
LEMMA AllowKeeps ==
  ASSUME IInv, NEW p \in Procs, NEW k \in Keys, Allow(p, k)
  PROVE  IInv'
<1> USE DEF Allow, Goto, IInv
<1> DEFINE r == [at |-> "load", key |-> k, time |-> now]
<1>1. r \in Req /\ r.at # "lock"
  BY DEF TypeOK, Req
<1>2. TypeOK'
  BY <1>1 DEF TypeOK
<1>3. Allocated'
  BY <1>1 DEF TypeOK, Allocated
<1>4. Accounts'
  BY DEF Accounts
<1> QED BY <1>2, <1>3, <1>4

(* sync.Map.Load gives a request only an allocated bucket. *)
LEMMA LoadKeeps ==
  ASSUME IInv, NEW p \in Procs, LoadBucket(p)
  PROVE  IInv'
<1> USE DEF LoadBucket, Goto, IInv
<1> DEFINE r == [at |-> "lock", key |-> req[p].key, time |-> req[p].time,
                 bucket |-> store[req[p].key]]
<1>1. req[p].key \in Keys /\ req[p].time \in Times
  BY RequestTypes
<1>2. store[req[p].key] \in Buckets
  BY <1>1 DEF TypeOK
<1>3. r \in Req
  BY <1>1, <1>2 DEF Req
<1>4. TypeOK'
  BY <1>3 DEF TypeOK
<1>5. bucket[r.bucket] \in Bucket
  BY <1>1 DEF Allocated
<1>6. Allocated'
  BY <1>5 DEF TypeOK, Allocated
<1>7. Accounts'
  BY DEF Accounts
<1> QED BY <1>4, <1>6, <1>7

(* sync.Map.LoadOrStore allocates a full bucket, or keeps the stored one. *)
LEMMA StoreKeeps ==
  ASSUME IInv, NEW p \in Procs, NEW b \in Buckets, StoreBucket(p, b)
  PROVE  IInv'
<1> USE DEF StoreBucket, Goto, IInv
<1> DEFINE r == [at |-> "lock", key |-> req[p].key, time |-> req[p].time, bucket |-> b]
           n == [tokens |-> Limit, lastRefill |-> req[p].time,
                 lastAccess |-> req[p].time, created |-> req[p].time, granted |-> 0]
<1>1. req[p].key \in Keys /\ req[p].time \in Times
  BY RequestTypes
<1>2. n \in Bucket
  BY <1>1, LimiterConstants DEF Bucket
<1>3. Conforms(n)
  BY <1>1, LimiterConstants DEF Conforms, Times
<1>4. r \in Req /\ r.bucket = b
  BY <1>1 DEF Req
<1>5. TypeOK'
  <2> HIDE DEF r, n
  <2>1. bucket' = [bucket EXCEPT ![b] = n] /\ req' = [req EXCEPT ![p] = r]
    BY DEF n, r
  <2>2. bucket' \in [Buckets -> Bucket \cup {NoBucket}] /\ req' \in [Procs -> Req]
    BY <1>2, <1>4, <2>1 DEF TypeOK
  <2>3. store' \in [Keys -> Buckets \cup {NoBucket}] /\ first' \in [Keys -> Times]
    BY <1>1 DEF TypeOK
  <2> QED BY <2>2, <2>3 DEF TypeOK
<1>6. Allocated'
  <2> HIDE DEF r, n
  <2>1. bucket' = [bucket EXCEPT ![b] = n] /\ req' = [req EXCEPT ![p] = r]
    BY DEF n, r
  <2>2. \A c \in Buckets : bucket[c] \in Bucket \/ c = b => bucket'[c] \in Bucket
    BY <1>2, <2>1 DEF TypeOK
  <2>3. ASSUME NEW k \in Keys, store'[k] # NoBucket
        PROVE  bucket'[store'[k]] \in Bucket
    BY <1>1, <2>2, <2>3 DEF TypeOK, Allocated
  <2>4. ASSUME NEW q \in Procs, req'[q].at = "lock"
        PROVE  bucket'[req'[q].bucket] \in Bucket
    <3>1. CASE q = p
      BY <3>1, <2>1, <2>2, <1>4 DEF TypeOK
    <3>2. CASE q # p
      <4>1. req'[q] = req[q]
        BY <3>2, <2>1 DEF TypeOK
      <4>2. req[q].bucket \in Buckets /\ bucket[req[q].bucket] \in Bucket
        BY <4>1, <2>4, RequestTypes DEF Allocated
      <4> QED BY <4>1, <4>2, <2>2
    <3> QED BY <3>1, <3>2
  <2> QED BY <2>3, <2>4 DEF Allocated
<1>7. Accounts'
  <2> HIDE DEF n
  <2>1. bucket' = [bucket EXCEPT ![b] = n]
    BY DEF n
  <2> QED BY <2>1, <1>3 DEF TypeOK, Accounts
<1> QED BY <1>5, <1>6, <1>7

(* The bucket a request decides on, as the three lemmas on its parts leave it. *)
LEMMA DecideBucket ==
  ASSUME IInv, NEW p \in Procs, Decide(p)
  PROVE  \E n \in Bucket :
           /\ bucket' = [bucket EXCEPT ![req[p].bucket] = n]
           /\ n.lastRefill >= bucket[req[p].bucket].lastRefill
           /\ Conforms(bucket[req[p].bucket]) => Conforms(n)
<1> USE DEF IInv
<1> DEFINE old == bucket[req[p].bucket]
           t   == req[p].time
           b   == Refill(Touch(old, t), t)
<1>1. req[p].at = "lock"
  BY DEF Decide
<1>2. t \in Times /\ old \in Bucket
  BY <1>1, RequestTypes DEF Allocated
<1>3. /\ Touch(old, t) \in Bucket
      /\ Touch(old, t).lastRefill = old.lastRefill
      /\ Conforms(old) => Conforms(Touch(old, t))
  BY <1>2, TouchKeeps
<1>4. /\ b \in Bucket /\ b.lastRefill >= old.lastRefill
      /\ Conforms(old) => Conforms(b)
  BY <1>2, <1>3, RefillKeeps
<1>5. CASE b.tokens > 0
  <2>1. bucket' = [bucket EXCEPT ![req[p].bucket] = Take(b)]
    BY <1>5 DEF Decide
  <2> HIDE DEF b, old
  <2>2. /\ Take(b) \in Bucket /\ Take(b).lastRefill = b.lastRefill
        /\ Conforms(b) => Conforms(Take(b))
    BY <1>4, <1>5, TakeKeeps
  <2> QED BY <1>4, <2>1, <2>2 DEF old
<1>6. CASE ~(b.tokens > 0)
  <2>1. bucket' = [bucket EXCEPT ![req[p].bucket] = b]
    BY <1>6 DEF Decide
  <2> HIDE DEF b
  <2> QED BY <1>4, <2>1
<1> QED BY <1>5, <1>6

(* The critical section of Allow keeps the invariant. *)
LEMMA DecideKeeps ==
  ASSUME IInv, NEW p \in Procs, Decide(p)
  PROVE  IInv'
<1> USE DEF IInv
<1>1. PICK n \in Bucket :
        /\ bucket' = [bucket EXCEPT ![req[p].bucket] = n]
        /\ Conforms(bucket[req[p].bucket]) => Conforms(n)
  BY DecideBucket
<1>2. /\ req[p].at = "lock" /\ req[p].key \in Keys /\ req[p].bucket \in Buckets
      /\ req' = [req EXCEPT ![p] = Idle]
      /\ UNCHANGED <<store, sweep, now, first>>
  BY RequestTypes DEF Decide, Goto
<1>3. Idle \in Req /\ Idle.at = "idle"
  BY DEF Req, Idle
<1>4. \A c \in Buckets : bucket[c] \in Bucket => bucket'[c] \in Bucket
  BY <1>1 DEF TypeOK
<1>5. total' \in [Keys -> Nat]
  BY <1>2 DEF TypeOK, Decide
<1>6. TypeOK'
  BY <1>1, <1>2, <1>3, <1>5 DEF TypeOK
<1>7. Allocated'
  <2>1. ASSUME NEW k \in Keys, store'[k] # NoBucket
        PROVE  bucket'[store'[k]] \in Bucket
    BY <1>2, <1>4, <2>1 DEF TypeOK, Allocated
  <2>2. ASSUME NEW q \in Procs, req'[q].at = "lock"
        PROVE  bucket'[req'[q].bucket] \in Bucket
    <3>1. req'[q] = req[q]
      BY <1>2, <1>3, <2>2 DEF TypeOK
    <3>2. req[q].bucket \in Buckets /\ bucket[req[q].bucket] \in Bucket
      BY <3>1, <2>2, RequestTypes DEF Allocated
    <3> QED BY <3>1, <3>2, <1>4
  <2> QED BY <2>1, <2>2 DEF Allocated
<1>8. Accounts'
  <2>1. bucket[req[p].bucket] \in Bucket
    BY <1>2 DEF Allocated
  <2>2. Conforms(n)
    BY <1>1, <1>2, <2>1, NoBucketIsNone DEF Accounts
  <2> QED BY <1>1, <1>2, <2>2 DEF TypeOK, Accounts
<1> QED BY <1>6, <1>7, <1>8

(* Cleanup only takes buckets out of the map. *)
LEMMA SweepKeeps ==
  ASSUME IInv, SweepStart \/ \E k \in Keys : SweepKey(k)
  PROVE  IInv'
<1> USE DEF IInv
<1>1. CASE SweepStart
  <2>1. sweep' \in Sweep
    BY <1>1 DEF SweepStart, Sweep, TypeOK
  <2> QED BY <1>1, <2>1 DEF SweepStart, TypeOK, Allocated, Accounts
<1>2. ASSUME NEW k \in Keys, SweepKey(k)
      PROVE  IInv'
  <2>1. sweep' \in Sweep
    <3>1. sweep \in Sweep /\ sweep.at = "range"
      BY <1>2 DEF SweepKey, TypeOK
    <3>2. /\ sweep \in [at : {"range"}, time : Times, left : SUBSET Keys]
      BY <3>1 DEF Sweep, Asleep
    <3> QED BY <1>2, <3>2 DEF SweepKey, Sweep
  <2>2. store' = [store EXCEPT ![k] = NoBucket] \/ store' = store
    BY <1>2 DEF SweepKey
  <2>3. UNCHANGED <<bucket, req, now, total, first>>
    BY <1>2 DEF SweepKey
  <2>4. TypeOK'
    BY <2>1, <2>2, <2>3 DEF TypeOK
  <2>5. Allocated'
    BY <2>2, <2>3 DEF TypeOK, Allocated
  <2>6. Accounts'
    BY <2>3 DEF Accounts
  <2> QED BY <2>4, <2>5, <2>6
<1> QED BY <1>1, <1>2

(* The clock can move on at any time. *)
LEMMA TickKeeps ==
  ASSUME IInv, Tick
  PROVE  IInv'
<1>1. now' \in Times
  BY LimiterConstants DEF IInv, TypeOK, Tick, Times
<1> QED BY <1>1 DEF IInv, TypeOK, Allocated, Accounts, Tick

(* Every step of the limiter keeps the invariant. *)
LEMMA NextKeepsIInv == IInv /\ [Next]_vars => IInv'
<1> SUFFICES ASSUME IInv, [Next]_vars PROVE IInv'
  OBVIOUS
<1>1. ASSUME NEW p \in Procs, NEW k \in Keys, Allow(p, k) PROVE IInv'
  BY <1>1, AllowKeeps
<1>2. ASSUME NEW p \in Procs, LoadBucket(p) PROVE IInv'
  BY <1>2, LoadKeeps
<1>3. ASSUME NEW p \in Procs, NEW b \in Buckets, StoreBucket(p, b) PROVE IInv'
  BY <1>3, StoreKeeps
<1>4. ASSUME NEW p \in Procs, Decide(p) PROVE IInv'
  BY <1>4, DecideKeeps
<1>5. CASE SweepStart \/ \E k \in Keys : SweepKey(k)
  BY <1>5, SweepKeeps
<1>6. CASE Tick
  BY <1>6, TickKeeps
<1>7. CASE UNCHANGED vars
  BY <1>7 DEF vars, IInv, TypeOK, Allocated, Accounts
<1> QED BY <1>1, <1>2, <1>3, <1>4, <1>5, <1>6, <1>7 DEF Next

(* The invariant holds in every reachable state of Allow and cleanup. *)
THEOREM Inductive == Spec => []IInv
<1> QED BY InitIInv, NextKeepsIInv, PTL DEF Spec

(* Type correctness: a bucket never holds less than no token or more than the
   limit, at whatever time a request decides on it. *)
THEOREM TypeCorrect == Spec => []TypeOK
<1>1. IInv => TypeOK
  BY DEF IInv
<1> QED BY <1>1, Inductive, PTL

(* Whatever stale times the requests bring, and in whichever order they take
   the mutex, a bucket lets through no more than its first fill and what the
   rate gives: RateLimiter.Allow. *)
THEOREM BucketsConform == Spec => []BucketConforms
<1>1. IInv => BucketConforms
  BY DEF IInv, Accounts, Conforms, BucketConforms
<1> QED BY <1>1, Inductive, PTL

(* No step turns the refill clock of a bucket back. *)
THEOREM ClockMonotone == Spec => RefillClockMonotone
<1> DEFINE Mono == \A b \in Buckets : bucket[b] # NoBucket =>
                     bucket'[b].lastRefill >= bucket[b].lastRefill
<1>1. ASSUME IInv, [Next]_vars PROVE [Mono]_vars
  <2>1. CASE UNCHANGED bucket
    <3>1. \A b \in Buckets : bucket[b] # NoBucket => bucket[b].lastRefill \in Times
      BY <1>1 DEF IInv, TypeOK, Bucket
    <3> QED BY <2>1, <3>1, LimiterConstants DEF Times
  <2>2. ASSUME NEW p \in Procs, NEW b \in Buckets, StoreBucket(p, b)
        PROVE  Mono
    <3>1. \A c \in Buckets : bucket[c] # NoBucket => bucket'[c] = bucket[c]
      BY <1>1, <2>2 DEF StoreBucket, IInv, TypeOK
    <3>2. \A c \in Buckets : bucket[c] # NoBucket => bucket[c].lastRefill \in Times
      BY <1>1 DEF IInv, TypeOK, Bucket
    <3> QED BY <3>1, <3>2, LimiterConstants DEF Times
  <2>3. ASSUME NEW p \in Procs, Decide(p)
        PROVE  Mono
    <3>1. PICK n \in Bucket :
            /\ bucket' = [bucket EXCEPT ![req[p].bucket] = n]
            /\ n.lastRefill >= bucket[req[p].bucket].lastRefill
      BY <1>1, <2>3, DecideBucket
    <3>2. \A c \in Buckets : bucket[c] # NoBucket => bucket[c].lastRefill \in Times
      BY <1>1 DEF IInv, TypeOK, Bucket
    <3>3. \A c \in Buckets : bucket'[c] = IF c = req[p].bucket THEN n ELSE bucket[c]
      BY <1>1, <3>1 DEF IInv, TypeOK
    <3> QED BY <3>1, <3>2, <3>3, LimiterConstants DEF Times
  <2> QED
    BY <1>1, <2>1, <2>2, <2>3
    DEF Next, vars, Allow, LoadBucket, SweepStart, SweepKey, Tick
<1>2. [][IInv /\ [Next]_vars => [Mono]_vars]_vars
  BY <1>1, PTL
<1> QED BY <1>1, Inductive, PTL DEF Spec, RefillClockMonotone
-----------------------------------------------------------------------------
(* What a key is granted over all its buckets.  At any time at most two of them
   are in use: the one in the map, and one that was removed while requests held
   it.  By LagIsShort those requests are gone before the next can be removed. *)

(* A request is at work no longer than MaxLag; a sweep takes its time before it
   uses it; a bucket's last access is dated no more than a lag before its refill. *)
Timely ==
  /\ \A p \in Procs : req[p].at # "idle" =>
       req[p].time <= now /\ now <= req[p].time + MaxLag
  /\ sweep.at = "range" => sweep.time <= now
  /\ \A b \in Buckets : bucket[b] # NoBucket =>
       /\ bucket[b].lastRefill <= now
       /\ bucket[b].lastRefill <= bucket[b].lastAccess + MaxLag

(* Each bucket in the map, or in the hands of a request, is one key's. *)
Owned(own) ==
  /\ own \in [Buckets -> Keys \cup {NoBucket}]
  /\ \A k \in Keys : store[k] # NoBucket => own[store[k]] = k
  /\ \A p \in Procs : req[p].at = "lock" => own[req[p].bucket] = req[p].key

(* What was granted before, or beside, the bucket that is in the map. *)
Earlier(k) == total[k] - (IF store[k] = NoBucket THEN 0 ELSE bucket[store[k]].granted)

(* No bucket of k has been removed yet. *)
FirstBucket(k) ==
  /\ Earlier(k) = 0
  /\ store[k] # NoBucket => first[k] <= bucket[store[k]].created
  /\ \A p \in Procs : (req[p].at = "lock" /\ req[p].key = k) => req[p].bucket = store[k]

(* The bucket b was removed at the time out, and whatever it still lets through
   has been paid for before a later bucket's first fill: it has not been refilled
   since it was idle, or has been, by a request that came before out. *)
PaidFor(k, b, out) ==
  LET paid == Limit * (out - MaxLag - first[k]) IN
  \/ /\ b.lastRefill + IdleLimit + 1 <= out + MaxLag
     /\ Window * Earlier(k) + Window * Limit + Limit * MaxLag <= paid
  \/ /\ b.lastRefill >= out - MaxLag
     /\ Window * Earlier(k) + Window * b.tokens + Limit * (out - b.lastRefill) <= paid

LaterBucket(own, k, b, out) ==
  /\ b \in Buckets /\ out \in Times
  /\ own[b] = k /\ store[k] # b /\ bucket[b] \in Bucket
  /\ out <= now /\ bucket[b].lastRefill <= out
  /\ PaidFor(k, bucket[b], out)
  /\ store[k] # NoBucket =>
       /\ bucket[store[k]].created >= out - MaxLag
       /\ bucket[store[k]].lastAccess >= out - MaxLag
  /\ \A p \in Procs : (req[p].at = "lock" /\ req[p].key = k) =>
       /\ req[p].time >= out - MaxLag
       /\ req[p].bucket = store[k] \/ (req[p].bucket = b /\ req[p].time <= out)

Settled(own, k) == FirstBucket(k) \/ \E b \in Buckets, out \in Times : LaterBucket(own, k, b, out)

Ledgers == \E own \in [Buckets -> Keys \cup {NoBucket}] :
             Owned(own) /\ \A k \in Keys : Settled(own, k)

KInv == IInv /\ Timely /\ Ledgers

(* What a refill does: it brings the bucket up to the time of the request, or
   there was not one window's time to pay for and it does nothing. *)
LEMMA RefillCases ==
  ASSUME NEW b \in Bucket, NEW t \in Times
  PROVE  \/ /\ Refill(b, t).lastRefill = t /\ t > b.lastRefill
            /\ Window * Refill(b, t).tokens
                 <= Window * b.tokens + Limit * (t - b.lastRefill)
            /\ Refill(b, t).granted = b.granted
            /\ Refill(b, t).created = b.created
            /\ Refill(b, t).lastAccess = b.lastAccess
         \/ Refill(b, t) = b /\ t - b.lastRefill < Window
<1> DEFINE n == RefillTokens(b, t)
           e == t - b.lastRefill
<1>1. /\ Limit \in Nat /\ Limit > 0 /\ Window \in Nat /\ Window > 0 /\ MaxNow \in Nat
      /\ b.tokens \in 0 .. Limit /\ b.lastRefill \in Int /\ t \in Int
  BY LimiterConstants DEF Bucket, Times
<1>0. t > b.lastRefill => e \in Nat
  BY <1>1
<1>2. n \in Nat
  BY <1>0, WholeTokens DEF RefillTokens
<1>3. CASE ~(n > 0)
  <2>1. Refill(b, t) = b
    BY <1>3 DEF Refill
  <2>2. ASSUME t > b.lastRefill PROVE e < Window
    <3>1. e \in Nat /\ (Limit * e) \div Window = 0
      BY <1>0, <1>2, <1>3, <2>2 DEF RefillTokens
    <3>2. Limit * e \in Nat /\ Limit * e >= e
      BY <1>1, <3>1
    <3>3. ASSUME NEW x \in Nat, NEW w \in Nat, w > 0, x \div w = 0
          PROVE  x < w
      BY <3>3, Z3
    <3>4. Limit * e < Window
      <4> HIDE DEF e
      <4> QED BY <1>1, <3>1, <3>2, <3>3
    <3> HIDE DEF e
    <3> QED BY <1>1, <3>1, <3>2, <3>4
  <2> QED BY <1>1, <2>1, <2>2
<1>4. CASE n > 0
  <2>1. t > b.lastRefill /\ n = (Limit * e) \div Window
    BY <1>4 DEF RefillTokens
  <2>2. Window * n <= Limit * e
    BY <2>1, <1>0, WholeTokens
  <2> DEFINE m == IF b.tokens + n > Limit THEN Limit ELSE b.tokens + n
  <2>3. Refill(b, t) = [b EXCEPT !.tokens = m, !.lastRefill = t]
    BY <1>4 DEF Refill
  <2>4. m \in Nat /\ m <= b.tokens + n
    BY <1>1, <1>2
  <2>5. Window * m <= Window * b.tokens + Window * n
    <3>1. ASSUME NEW x \in Nat, NEW y \in Nat, NEW z \in Nat, NEW w \in Nat, x <= y + z
          PROVE  w * x <= w * y + w * z
      BY <3>1, Z3
    <3> HIDE DEF m, n
    <3> QED BY <1>1, <1>2, <2>4, <3>1
  <2>6. /\ Refill(b, t).lastRefill = t /\ Refill(b, t).tokens = m
        /\ Refill(b, t).granted = b.granted /\ Refill(b, t).created = b.created
        /\ Refill(b, t).lastAccess = b.lastAccess
    <3> HIDE DEF m
    <3> QED BY <2>3 DEF Bucket
  <2>7. Window * m <= Window * b.tokens + Limit * e
    <3>1. /\ Window * m \in Int /\ Window * b.tokens \in Int
          /\ Window * n \in Int /\ Limit * e \in Int
      BY <1>1, <1>2, <2>4
    <3> HIDE DEF m, n, e
    <3> QED BY <2>2, <2>5, <3>1
  <2> QED BY <2>1, <2>6, <2>7
<1> QED BY <1>2, <1>3, <1>4

(* What a request's critical section does to its bucket and its key's total. *)
LEMMA DecideEffect ==
  ASSUME IInv, NEW p \in Procs, Decide(p)
  PROVE  \E n \in Bucket, d \in {0, 1}, old \in Bucket, t \in Times :
           /\ old = bucket[req[p].bucket] /\ t = req[p].time
           /\ bucket' = [bucket EXCEPT ![req[p].bucket] = n]
           /\ total' = [total EXCEPT ![req[p].key] = @ + d]
           /\ n.granted = old.granted + d
           /\ n.created = old.created /\ n.lastAccess = t
           /\ \/ /\ n.lastRefill = t /\ t > old.lastRefill
                 /\ Window * (n.tokens + d)
                      <= Window * old.tokens + Limit * (t - old.lastRefill)
                 /\ n.tokens + d <= Limit
              \/ /\ n.lastRefill = old.lastRefill
                 /\ n.tokens + d = old.tokens
                 /\ t - old.lastRefill < Window
<1>1. req[p].at = "lock" /\ req[p].key \in Keys
  BY RequestTypes DEF Decide, IInv
<1>2. PICK t \in Times : t = req[p].time
  BY <1>1, RequestTypes DEF IInv
<1>3. PICK old \in Bucket : old = bucket[req[p].bucket]
  BY <1>1 DEF Allocated, IInv
<1> DEFINE a == Touch(old, t)
           b == Refill(a, t)
<1>4. /\ a \in Bucket /\ a.lastRefill = old.lastRefill /\ a.tokens = old.tokens
      /\ a.granted = old.granted /\ a.created = old.created /\ a.lastAccess = t
  BY DEF Touch, Bucket
<1>5. b \in Bucket
  BY <1>4, RefillKeeps
<1>6. /\ b.granted = old.granted /\ b.created = old.created /\ b.lastAccess = t
      /\ \/ /\ b.lastRefill = t /\ t > old.lastRefill
            /\ Window * b.tokens <= Window * old.tokens + Limit * (t - old.lastRefill)
         \/ /\ b.lastRefill = old.lastRefill
            /\ b.tokens = old.tokens
            /\ t - old.lastRefill < Window
  <2> HIDE DEF a
  <2> QED BY <1>4, RefillCases
<1>7. b.tokens \in 0 .. Limit /\ b.granted \in Nat /\ Limit \in Nat /\ old.tokens \in Nat
  BY <1>5, LimiterConstants DEF Bucket
<1>8. CASE b.tokens > 0
  <2>1. /\ bucket' = [bucket EXCEPT ![req[p].bucket] = Take(b)]
        /\ total' = [total EXCEPT ![req[p].key] = @ + 1]
    BY <1>2, <1>3, <1>8 DEF Decide
  <2>2. Take(b) \in Bucket
    <3> HIDE DEF b
    <3> QED BY <1>5, <1>8, TakeKeeps
  <2>3. /\ Take(b).granted = b.granted + 1 /\ Take(b).tokens = b.tokens - 1
        /\ Take(b).lastRefill = b.lastRefill /\ Take(b).created = b.created
        /\ Take(b).lastAccess = b.lastAccess
    <3> HIDE DEF b
    <3> QED BY <1>5 DEF Take, Bucket
  <2>4. Take(b).tokens + 1 = b.tokens
    <3> HIDE DEF b
    <3> QED BY <1>7, <2>3
  <2>5. PICK n \in Bucket : n = Take(b)
    BY <2>2
  <2> HIDE DEF a, b
  <2>6. /\ n.granted = old.granted + 1 /\ n.created = old.created /\ n.lastAccess = t
        /\ n.lastRefill = b.lastRefill /\ n.tokens + 1 = b.tokens
    BY <1>6, <2>3, <2>4, <2>5
  <2>7. \/ /\ n.lastRefill = t /\ t > old.lastRefill
           /\ Window * (n.tokens + 1)
                <= Window * old.tokens + Limit * (t - old.lastRefill)
           /\ n.tokens + 1 <= Limit
        \/ /\ n.lastRefill = old.lastRefill
           /\ n.tokens + 1 = old.tokens
           /\ t - old.lastRefill < Window
    BY <1>6, <1>7, <2>6
  <2> WITNESS n \in Bucket, 1 \in {0, 1}, old \in Bucket, t \in Times
  <2> QED BY <1>2, <1>3, <2>1, <2>5, <2>6, <2>7
<1>9. CASE ~(b.tokens > 0)
  <2>1. bucket' = [bucket EXCEPT ![req[p].bucket] = b] /\ total' = total
    BY <1>2, <1>3, <1>9 DEF Decide
  <2>2. total' = [total EXCEPT ![req[p].key] = @ + 0]
    BY <1>1, <2>1 DEF IInv, TypeOK
  <2>3. PICK n \in Bucket : n = b
    BY <1>5
  <2> HIDE DEF a, b
  <2>4. n.tokens + 0 = n.tokens /\ old.granted + 0 = old.granted
    BY <1>6, <1>7, <2>3
  <2>5. \/ /\ n.lastRefill = t /\ t > old.lastRefill
           /\ Window * (n.tokens + 0)
                <= Window * old.tokens + Limit * (t - old.lastRefill)
           /\ n.tokens + 0 <= Limit
        \/ /\ n.lastRefill = old.lastRefill
           /\ n.tokens + 0 = old.tokens
           /\ t - old.lastRefill < Window
    BY <1>6, <1>7, <2>3, <2>4
  <2> WITNESS n \in Bucket, 0 \in {0, 1}, old \in Bucket, t \in Times
  <2> QED BY <1>2, <1>3, <1>6, <2>1, <2>2, <2>3, <2>4, <2>5
<1> QED BY <1>8, <1>9

(* Whatever leaves a key's buckets, total and requests alone leaves its account
   settled, at any later time. *)
LEMMA KeyUntouched ==
  ASSUME IInv, NEW own \in [Buckets -> Keys \cup {NoBucket}],
         NEW own2 \in [Buckets -> Keys \cup {NoBucket}],
         NEW k \in Keys, Owned(own), Settled(own, k),
         store'[k] = store[k], total'[k] = total[k], first'[k] = first[k],
         \A b \in Buckets : (own[b] = k /\ bucket[b] \in Bucket) =>
           bucket'[b] = bucket[b] /\ own2[b] = k,
         \A p \in Procs : (req'[p].at = "lock" /\ req'[p].key = k) => req'[p] = req[p],
         now \in Int, now' \in Int, now <= now'
  PROVE  Settled(own2, k)'
<1>1. store[k] # NoBucket => store[k] \in Buckets /\ bucket'[store[k]] = bucket[store[k]]
  BY DEF IInv, TypeOK, Allocated, Owned
<1>2. Earlier(k)' = Earlier(k)
  BY <1>1 DEF Earlier
<1>3. CASE FirstBucket(k)
  BY <1>1, <1>2, <1>3 DEF FirstBucket, Settled
<1>4. ASSUME NEW b \in Buckets, NEW out \in Times, LaterBucket(own, k, b, out)
      PROVE  Settled(own2, k)'
  <2>1. bucket'[b] = bucket[b] /\ own2[b] = k
    BY <1>4 DEF LaterBucket
  <2>2. PaidFor(k, bucket[b], out)' <=> PaidFor(k, bucket[b], out)
    BY <1>2, <2>1 DEF PaidFor
  <2>3. out <= now'
    BY <1>4, LimiterConstants DEF LaterBucket, Times
  <2>4. LaterBucket(own2, k, b, out)'
    BY <1>1, <1>4, <2>1, <2>2, <2>3 DEF LaterBucket
  <2> QED BY <2>4 DEF Settled
<1> QED BY <1>3, <1>4 DEF Settled

(* The account of a key, as long as the order of times is kept. *)
LEMMA GrantedSoFar ==
  ASSUME IInv, Timely, NEW own, NEW k \in Keys, Settled(own, k)
  PROVE  /\ store[k] # NoBucket =>
              Window * total[k] + Window * bucket[store[k]].tokens
                <= Window * Limit + Limit * (bucket[store[k]].lastRefill - first[k])
         /\ store[k] = NoBucket =>
              total[k] = 0 \/ Window * total[k] <= Limit * (now - first[k])
<1>1. /\ total[k] \in Nat /\ first[k] \in Int /\ now \in Int
      /\ Window \in Nat /\ Limit \in Nat /\ MaxLag \in Nat
  BY LimiterConstants DEF IInv, TypeOK, Times
<1>2. Earlier(k) \in Int
        /\ (store[k] # NoBucket => /\ bucket[store[k]] \in Bucket
                                   /\ total[k] = Earlier(k) + bucket[store[k]].granted
                                   /\ Conforms(bucket[store[k]]))
        /\ (store[k] = NoBucket => total[k] = Earlier(k))
  <2>1. CASE store[k] = NoBucket
    BY <1>1, <2>1 DEF Earlier
  <2>2. CASE store[k] # NoBucket
    <3>1. store[k] \in Buckets /\ bucket[store[k]] \in Bucket /\ Conforms(bucket[store[k]])
      BY <2>2, NoBucketIsNone DEF IInv, TypeOK, Allocated, Accounts
    <3>2. bucket[store[k]].granted \in Nat
      BY <3>1 DEF Bucket
    <3>3. Earlier(k) = total[k] - bucket[store[k]].granted
      BY <2>2 DEF Earlier
    <3> QED BY <1>1, <2>2, <3>1, <3>2, <3>3
  <2> QED BY <2>1, <2>2
(* What was granted earlier is paid for by the time before the bucket was made. *)
<1>3. \/ Earlier(k) = 0 /\ (store[k] # NoBucket => first[k] <= bucket[store[k]].created)
      \/ \E out \in Int : /\ Window * Earlier(k) <= Limit * (out - MaxLag - first[k])
                          /\ out <= now
                          /\ store[k] # NoBucket =>
                               bucket[store[k]].created >= out - MaxLag
  <2>1. CASE FirstBucket(k)
    BY <2>1 DEF FirstBucket
  <2>2. ASSUME NEW b \in Buckets, NEW out \in Times, LaterBucket(own, k, b, out)
        PROVE  /\ out \in Int /\ out <= now
               /\ Window * Earlier(k) <= Limit * (out - MaxLag - first[k])
               /\ store[k] # NoBucket => bucket[store[k]].created >= out - MaxLag
    <3>1. out \in Int
      BY LimiterConstants DEF Times
    <3>2. /\ bucket[b] \in Bucket /\ out <= now /\ bucket[b].lastRefill <= out
          /\ PaidFor(k, bucket[b], out)
          /\ store[k] # NoBucket => bucket[store[k]].created >= out - MaxLag
      BY <2>2 DEF LaterBucket
    <3>3. bucket[b].tokens \in Nat /\ bucket[b].lastRefill \in Int
      BY <3>2, LimiterConstants DEF Bucket, Times
    <3>4. /\ Window * Limit \in Nat /\ Limit * MaxLag \in Nat
          /\ Window * bucket[b].tokens \in Nat
          /\ Limit * (out - bucket[b].lastRefill) \in Nat
      BY <1>1, <3>1, <3>2, <3>3
    <3>5. Window * Earlier(k) \in Int /\ Limit * (out - MaxLag - first[k]) \in Int
      BY <1>1, <1>2, <3>1
    <3>6. ASSUME NEW x \in Int, NEW y \in Int, NEW u \in Nat, NEW v \in Nat, x + u + v <= y
          PROVE  x <= y
      BY <3>6
    <3> QED BY <3>1, <3>2, <3>4, <3>5, <3>6 DEF PaidFor
  <2> QED BY <2>1, <2>2 DEF Settled
<1>4. CASE store[k] = NoBucket
  <2>1. ASSUME NEW out \in Int, out <= now,
               Window * Earlier(k) <= Limit * (out - MaxLag - first[k])
        PROVE  Window * total[k] <= Limit * (now - first[k])
    <3>1. Limit * (out - MaxLag - first[k]) <= Limit * (now - first[k])
      <4>1. ASSUME NEW l \in Nat, NEW x \in Int, NEW y \in Int, x <= y PROVE l * x <= l * y
        BY <4>1, Z3
      <4> QED BY <1>1, <2>1, <4>1
    <3>2. /\ Limit * (out - MaxLag - first[k]) \in Int /\ Limit * (now - first[k]) \in Int
          /\ Window * total[k] \in Int
      BY <1>1
    <3> QED BY <1>2, <1>4, <2>1, <3>1, <3>2
  <2> QED BY <1>2, <1>3, <1>4, <2>1
<1>5. CASE store[k] # NoBucket
  <2> DEFINE c == bucket[store[k]]
  <2>1. c.created \in Int /\ c.lastRefill \in Int /\ c.granted \in Nat /\ c.tokens \in Nat
    BY <1>2, <1>5, LimiterConstants DEF Bucket, Times
  <2>2. Window * Earlier(k) <= Limit * (c.created - first[k])
    <3>0. ASSUME NEW l \in Nat, NEW x \in Int, NEW y \in Int, x <= y PROVE l * x <= l * y
      BY <3>0, Z3
    <3>1. CASE Earlier(k) = 0 /\ first[k] <= c.created
      <4>1. Limit * (c.created - first[k]) \in Nat /\ Window * Earlier(k) = 0
        BY <1>1, <2>1, <3>1
      <4> QED BY <4>1
    <3>2. ASSUME NEW out \in Int, c.created >= out - MaxLag,
                 Window * Earlier(k) <= Limit * (out - MaxLag - first[k])
          PROVE  Window * Earlier(k) <= Limit * (c.created - first[k])
      <4>1. Limit * (out - MaxLag - first[k]) <= Limit * (c.created - first[k])
        BY <1>1, <2>1, <3>0, <3>2
      <4>2. /\ Limit * (out - MaxLag - first[k]) \in Int
            /\ Limit * (c.created - first[k]) \in Int /\ Window * Earlier(k) \in Int
        BY <1>1, <1>2, <2>1
      <4> QED BY <3>2, <4>1, <4>2
    <3> QED BY <1>3, <1>5, <3>1, <3>2
  <2>3. Window * (c.granted + c.tokens) <= Window * Limit + Limit * (c.lastRefill - c.created)
    BY <1>2, <1>5 DEF Conforms
  <2>4. ASSUME NEW w \in Nat, NEW l \in Nat, NEW e \in Int, NEW g \in Nat, NEW tk \in Nat,
               NEW cr \in Int, NEW f \in Int, NEW lr \in Int,
               w * e <= l * (cr - f), w * (g + tk) <= w * l + l * (lr - cr)
        PROVE  w * (e + g) + w * tk <= w * l + l * (lr - f)
    <3>1. /\ w * (e + g) + w * tk = w * e + w * (g + tk)
          /\ l * (lr - f) = l * (cr - f) + l * (lr - cr)
      OBVIOUS
    <3>2. /\ w * e \in Int /\ w * (g + tk) \in Int /\ w * l \in Int
          /\ l * (cr - f) \in Int /\ l * (lr - cr) \in Int
      OBVIOUS
    <3>3. ASSUME NEW x \in Int, NEW y \in Int, NEW a \in Int, NEW b \in Int, NEW z \in Int,
                 x <= a, y <= z + b
          PROVE  x + y <= z + (a + b)
      BY <3>3
    <3> QED BY <2>4, <3>1, <3>2, <3>3
  <2>5. Window * (Earlier(k) + c.granted) + Window * c.tokens
          <= Window * Limit + Limit * (c.lastRefill - first[k])
    <3> HIDE DEF c
    <3> QED BY <1>1, <1>2, <2>1, <2>2, <2>3, <2>4
  <2> QED BY <1>2, <1>5, <2>5
<1> QED BY <1>4, <1>5

(* The dates stay in order: this is all the guard of Tick is for. *)
LEMMA TimesKeep ==
  ASSUME IInv, IInv', Timely, [Next]_vars
  PROVE  Timely'
<1>0. /\ now \in Int /\ MaxLag \in Nat /\ MaxNow \in Nat
      /\ \A p \in Procs : req[p].at \in {"load", "lock"} => req[p].time \in Int
      /\ \A p \in Procs : req[p].at \in {"idle", "load", "lock"}
      /\ \A p \in Procs : req[p].at = "idle" => req[p] = Idle
      /\ \A b \in Buckets : bucket[b] # NoBucket =>
           bucket[b].lastRefill \in Int /\ bucket[b].lastAccess \in Int
  <2>1. now \in Int /\ MaxLag \in Nat /\ MaxNow \in Nat
    BY LimiterConstants DEF IInv, TypeOK, Times
  <2>2. ASSUME NEW p \in Procs
        PROVE  /\ req[p].at \in {"idle", "load", "lock"}
               /\ req[p].at = "idle" => req[p] = Idle
               /\ req[p].at \in {"load", "lock"} => req[p].time \in Int
    <3>1. req[p] \in Req
      BY DEF IInv, TypeOK
    <3> QED BY <3>1, LimiterConstants DEF Req, Idle, Times
  <2>3. ASSUME NEW b \in Buckets, bucket[b] # NoBucket
        PROVE  bucket[b].lastRefill \in Int /\ bucket[b].lastAccess \in Int
    <3>1. bucket[b] \in Bucket
      BY <2>3 DEF IInv, TypeOK
    <3> QED BY <3>1, LimiterConstants DEF Bucket, Times
  <2> QED BY <2>1, <2>2, <2>3
<1>00. Idle.at = "idle"
  BY DEF Idle
<1>1. ASSUME NEW p \in Procs, NEW k \in Keys, Allow(p, k) PROVE Timely'
  <2>1. req' = [req EXCEPT ![p] = [at |-> "load", key |-> k, time |-> now]]
        /\ UNCHANGED <<store, bucket, sweep, now>>
    BY <1>1 DEF Allow, Goto
  <2>2. ASSUME NEW q \in Procs, req'[q].at # "idle"
        PROVE  req'[q].time <= now /\ now <= req'[q].time + MaxLag
    <3>1. CASE q = p
      BY <3>1, <2>1, <1>0 DEF IInv, TypeOK
    <3>2. CASE q # p
      BY <3>2, <2>1, <2>2 DEF IInv, TypeOK, Timely
    <3> QED BY <3>1, <3>2
  <2> QED BY <2>1, <2>2 DEF Timely
<1>2. ASSUME NEW p \in Procs, LoadBucket(p) PROVE Timely'
  <2>1. req' = [req EXCEPT ![p] = [at |-> "lock", key |-> req[p].key,
                                   time |-> req[p].time, bucket |-> store[req[p].key]]]
        /\ UNCHANGED <<store, bucket, sweep, now>> /\ req[p].at = "load"
    BY <1>2 DEF LoadBucket, Goto
  <2>2. \A q \in Procs : req'[q].at # "idle" =>
          req'[q].time = req[q].time /\ req[q].at # "idle"
    BY <2>1 DEF IInv, TypeOK
  <2> QED BY <2>1, <2>2 DEF Timely
<1>3. ASSUME NEW p \in Procs, NEW b \in Buckets, StoreBucket(p, b) PROVE Timely'
  <2> DEFINE n == [tokens |-> Limit, lastRefill |-> req[p].time,
                   lastAccess |-> req[p].time, created |-> req[p].time, granted |-> 0]
  <2>1. req' = [req EXCEPT ![p] = [at |-> "lock", key |-> req[p].key,
                                   time |-> req[p].time, bucket |-> b]]
        /\ UNCHANGED <<sweep, now>> /\ req[p].at = "load"
        /\ bucket' = [bucket EXCEPT ![b] = n]
    BY <1>3 DEF StoreBucket, Goto
  <2>2. \A q \in Procs : req'[q].at # "idle" =>
          req'[q].time = req[q].time /\ req[q].at # "idle"
    BY <2>1 DEF IInv, TypeOK
  <2>3. n.lastRefill <= now /\ n.lastRefill <= n.lastAccess + MaxLag
    BY <2>1, <1>0 DEF Timely
  <2>4. \A c \in Buckets : bucket'[c] # NoBucket =>
          bucket'[c] = n \/ (bucket[c] # NoBucket /\ bucket'[c] = bucket[c])
    BY <2>1 DEF IInv, TypeOK
  <2> HIDE DEF n
  <2> QED BY <2>1, <2>2, <2>3, <2>4 DEF Timely
<1>4. ASSUME NEW p \in Procs, Decide(p) PROVE Timely'
  <2>1. req' = [req EXCEPT ![p] = Idle] /\ UNCHANGED <<sweep, now>> /\ req[p].at = "lock"
    BY <1>4 DEF Decide, Goto
  <2>2. \A q \in Procs : req'[q].at # "idle" => req'[q] = req[q] /\ req[q].at # "idle"
    BY <2>1, <1>00 DEF IInv, TypeOK
  <2>3. PICK n \in Bucket, t \in Times, old \in Bucket :
          /\ old = bucket[req[p].bucket] /\ t = req[p].time
          /\ bucket' = [bucket EXCEPT ![req[p].bucket] = n]
          /\ n.lastAccess = t
          /\ n.lastRefill \in {t, old.lastRefill}
    BY <1>4, DecideEffect
  <2>4. n.lastRefill <= now /\ n.lastRefill <= n.lastAccess + MaxLag
    <3>1. req[p].bucket \in Buckets /\ bucket[req[p].bucket] # NoBucket
      BY <2>1, <2>3, RequestTypes, NoBucketIsNone DEF IInv
    <3>2. t <= now /\ now <= t + MaxLag /\ old.lastRefill <= now /\ t \in Int /\ old.lastRefill \in Int
      BY <3>1, <2>1, <2>3, <1>0 DEF Timely
    <3> QED BY <3>2, <2>3, <1>0
  <2>5. \A c \in Buckets : bucket'[c] # NoBucket =>
          bucket'[c] = n \/ (bucket[c] # NoBucket /\ bucket'[c] = bucket[c])
    BY <2>3 DEF IInv, TypeOK
  <2> QED BY <2>1, <2>2, <2>4, <2>5 DEF Timely
<1>5. CASE SweepStart
  <2>1. UNCHANGED <<bucket, req, now>> /\ sweep'.time = now
    BY <1>5 DEF SweepStart
  <2> QED BY <2>1, <1>0 DEF Timely
<1>6. ASSUME NEW k \in Keys, SweepKey(k) PROVE Timely'
  <2>1. UNCHANGED <<bucket, req, now>> /\ sweep.at = "range"
    BY <1>6 DEF SweepKey
  <2>2. sweep \in [at : {"range"}, time : Times, left : SUBSET Keys]
    BY <2>1 DEF IInv, TypeOK, Sweep, Asleep
  <2>3. sweep'.at = "range" => sweep'.time = sweep.time
    BY <1>6, <2>2 DEF SweepKey, Asleep
  <2> QED BY <2>1, <2>3 DEF Timely
<1>7. CASE Tick
  <2>1. UNCHANGED <<bucket, req, sweep>> /\ now' = now + 1
        /\ \A p \in Procs : req[p] # Idle => now - req[p].time < MaxLag
    BY <1>7 DEF Tick
  <2>2. ASSUME NEW q \in Procs, req[q].at # "idle"
        PROVE  req[q].time <= now' /\ now' <= req[q].time + MaxLag
    BY <2>1, <2>2, <1>0, <1>00 DEF Timely
  <2>3. sweep.at = "range" => sweep.time <= now'
    <3>1. sweep.at = "range" => sweep.time \in Int
      BY LimiterConstants DEF IInv, TypeOK, Sweep, Asleep, Times
    <3> QED BY <3>1, <2>1, <1>0 DEF Timely
  <2>4. \A b \in Buckets : bucket[b] # NoBucket => bucket[b].lastRefill <= now'
    BY <2>1, <1>0 DEF Timely
  <2> QED BY <2>1, <2>2, <2>3, <2>4 DEF Timely
<1>8. CASE UNCHANGED vars
  BY <1>8 DEF vars, Timely
<1> QED BY <1>1, <1>2, <1>3, <1>4, <1>5, <1>6, <1>7, <1>8 DEF Next

(* Limit pays more for more time. *)
LEMMA MorePaid ==
  ASSUME NEW x \in Int, NEW y \in Int, x <= y
  PROVE  Limit * x <= Limit * y
<1>1. ASSUME NEW l \in Nat, NEW u \in Int, NEW v \in Int, u <= v PROVE l * u <= l * v
  BY <1>1, Z3
<1> QED BY <1>1, LimiterConstants

(* A request that has taken the time holds no bucket yet. *)
LEMMA AllowSettles ==
  ASSUME KInv, NEW p \in Procs, NEW k \in Keys, Allow(p, k)
  PROVE  Ledgers'
<1>1. PICK own \in [Buckets -> Keys \cup {NoBucket}] :
        Owned(own) /\ \A j \in Keys : Settled(own, j)
  BY DEF KInv, Ledgers
<1>2. req' = [req EXCEPT ![p] = [at |-> "load", key |-> k, time |-> now]]
      /\ UNCHANGED <<store, bucket, sweep, now, total, first>>
  BY DEF Allow, Goto
<1>3. \A q \in Procs : req'[q].at = "lock" => req'[q] = req[q]
  BY <1>2 DEF KInv, IInv, TypeOK
<1>4. Owned(own)'
  BY <1>1, <1>2, <1>3 DEF Owned
<1>5. ASSUME NEW j \in Keys PROVE Settled(own, j)'
  <2>1. now \in Int /\ now <= now
    BY LimiterConstants DEF KInv, IInv, TypeOK, Times
  <2> QED BY <1>1, <1>2, <1>3, <2>1, KeyUntouched DEF KInv
<1> QED BY <1>1, <1>4, <1>5 DEF Ledgers

(* A request that loads the bucket in the map came after the last removal, but
   for its lag. *)
LEMMA LoadSettles ==
  ASSUME KInv, NEW p \in Procs, LoadBucket(p)
  PROVE  Ledgers'
<1>1. PICK own \in [Buckets -> Keys \cup {NoBucket}] :
        Owned(own) /\ \A j \in Keys : Settled(own, j)
  BY DEF KInv, Ledgers
<1>2. PICK k \in Keys : k = req[p].key /\ req[p].at = "load" /\ store[k] # NoBucket
  BY RequestTypes DEF LoadBucket, KInv, IInv
<1> DEFINE r == [at |-> "lock", key |-> k, time |-> req[p].time, bucket |-> store[k]]
<1>3. req' = [req EXCEPT ![p] = r] /\ UNCHANGED <<store, bucket, sweep, now, total, first>>
  BY <1>2 DEF LoadBucket, Goto
<1>4. \A q \in Procs : req'[q] = IF q = p THEN r ELSE req[q]
  BY <1>3 DEF KInv, IInv, TypeOK
<1>5. r.at = "lock" /\ r.key = k /\ r.time = req[p].time /\ r.bucket = store[k]
  OBVIOUS
<1>6. req[p].time <= now /\ now <= req[p].time + MaxLag
  BY <1>2 DEF KInv, Timely
<1>7. now \in Int /\ now <= now /\ MaxLag \in Nat /\ req[p].time \in Int
      /\ \A out \in Times : out \in Int
  <2>1. req[p].time \in Times
    BY <1>2, RequestTypes DEF KInv, IInv
  <2> QED BY <2>1, LimiterConstants DEF KInv, IInv, TypeOK, Times
<1> HIDE DEF r
<1>8. Owned(own)'
  BY <1>1, <1>2, <1>3, <1>4, <1>5 DEF Owned
<1>9. ASSUME NEW j \in Keys PROVE Settled(own, j)'
  <2>1. CASE j # k
    <3>1. \A q \in Procs : (req'[q].at = "lock" /\ req'[q].key = j) => req'[q] = req[q]
      BY <1>4, <1>5, <2>1
    <3> QED BY <1>1, <1>3, <1>7, <3>1, KeyUntouched DEF KInv
  <2>2. CASE j = k
    <3>0. Earlier(k)' = Earlier(k)
      BY <1>3 DEF Earlier
    <3>1. CASE FirstBucket(k)
      <4>1. FirstBucket(k)'
        BY <1>3, <1>4, <1>5, <3>0, <3>1 DEF FirstBucket
      <4> QED BY <2>2, <4>1 DEF Settled
    <3>2. ASSUME NEW b \in Buckets, NEW out \in Times, LaterBucket(own, k, b, out)
          PROVE  Settled(own, k)'
      <4>1. req[p].time >= out - MaxLag
        BY <1>6, <1>7, <3>2 DEF LaterBucket
      <4>2. PaidFor(k, bucket[b], out)' <=> PaidFor(k, bucket[b], out)
        BY <1>3, <3>0 DEF PaidFor
      <4>3. \A q \in Procs : (req'[q].at = "lock" /\ req'[q].key = k) =>
              /\ req'[q].time >= out - MaxLag
              /\ req'[q].bucket = store[k] \/ (req'[q].bucket = b /\ req'[q].time <= out)
        BY <1>4, <1>5, <3>2, <4>1 DEF LaterBucket
      <4>4. LaterBucket(own, k, b, out)'
        BY <1>3, <3>2, <4>2, <4>3 DEF LaterBucket
      <4> QED BY <4>4 DEF Settled
    <3> QED BY <1>1, <2>2, <3>1, <3>2 DEF Settled
  <2> QED BY <2>1, <2>2
<1> QED BY <1>1, <1>8, <1>9 DEF Ledgers

(* A new bucket is dated after the last removal, but for the lag of its request. *)
LEMMA StoreSettles ==
  ASSUME KInv, NEW p \in Procs, NEW b \in Buckets, StoreBucket(p, b)
  PROVE  Ledgers'
<1>1. PICK own \in [Buckets -> Keys \cup {NoBucket}] :
        Owned(own) /\ \A j \in Keys : Settled(own, j)
  BY DEF KInv, Ledgers
<1>2. PICK k \in Keys : k = req[p].key /\ req[p].at = "load" /\ store[k] = NoBucket
  BY RequestTypes DEF StoreBucket, KInv, IInv
<1> DEFINE t == req[p].time
           r == [at |-> "lock", key |-> k, time |-> t, bucket |-> b]
           n == [tokens |-> Limit, lastRefill |-> t, lastAccess |-> t,
                 created |-> t, granted |-> 0]
           own2 == [own EXCEPT ![b] = k]
<1>3. /\ req' = [req EXCEPT ![p] = r] /\ bucket' = [bucket EXCEPT ![b] = n]
      /\ store' = [store EXCEPT ![k] = b]
      /\ first' = [first EXCEPT ![k] = IF t < first[k] THEN t ELSE first[k]]
      /\ bucket[b] = NoBucket /\ UNCHANGED <<sweep, now, total>>
  BY <1>2 DEF StoreBucket, Goto, KInv, IInv, TypeOK
<1>4. /\ \A q \in Procs : req'[q] = IF q = p THEN r ELSE req[q]
      /\ \A c \in Buckets : bucket'[c] = IF c = b THEN n ELSE bucket[c]
      /\ \A j \in Keys : store'[j] = IF j = k THEN b ELSE store[j]
      /\ \A j \in Keys : j # k => first'[j] = first[j]
      /\ first'[k] = IF t < first[k] THEN t ELSE first[k]
  BY <1>3 DEF KInv, IInv, TypeOK
<1>5. r.at = "lock" /\ r.key = k /\ r.time = t /\ r.bucket = b
      /\ n.created = t /\ n.lastAccess = t /\ n.granted = 0
  OBVIOUS
<1>6. t <= now /\ now <= t + MaxLag
  BY <1>2 DEF KInv, Timely
<1>7. now \in Int /\ now <= now /\ MaxLag \in Nat /\ t \in Int /\ t \in Times
      /\ first[k] \in Int /\ total[k] \in Nat /\ \A out \in Times : out \in Int
  <2>1. t \in Times
    BY <1>2, RequestTypes DEF KInv, IInv
  <2> QED BY <2>1, LimiterConstants DEF KInv, IInv, TypeOK, Times
<1>8. /\ own2 \in [Buckets -> Keys \cup {NoBucket}] /\ own2[b] = k
      /\ \A c \in Buckets : c # b => own2[c] = own[c]
  OBVIOUS
<1>9. NoBucket \notin Bucket /\ NoBucket \notin Buckets
  BY NoBucketIsNone, LimiterConstants
<1>10. /\ \A j \in Keys : store[j] # NoBucket => store[j] \in Buckets /\ store[j] # b
       /\ \A q \in Procs : req[q].at = "lock" => req[q].bucket \in Buckets /\ req[q].bucket # b
  <2>1. ASSUME NEW j \in Keys, store[j] # NoBucket PROVE store[j] \in Buckets /\ store[j] # b
    BY <1>3, <1>9, <2>1 DEF KInv, IInv, TypeOK, Allocated
  <2>2. ASSUME NEW q \in Procs, req[q].at = "lock"
        PROVE  req[q].bucket \in Buckets /\ req[q].bucket # b
    BY <1>3, <1>9, <2>2, RequestTypes DEF KInv, IInv, Allocated
  <2> QED BY <2>1, <2>2
<1> HIDE DEF r, n, own2, t
<1>11. Owned(own2)'
  <2>1. ASSUME NEW j \in Keys, store'[j] # NoBucket PROVE own2[store'[j]] = j
    BY <1>1, <1>4, <1>8, <1>10, <2>1 DEF Owned
  <2>2. ASSUME NEW q \in Procs, req'[q].at = "lock" PROVE own2[req'[q].bucket] = req'[q].key
    BY <1>1, <1>4, <1>5, <1>8, <1>10, <2>2 DEF Owned
  <2> QED BY <1>8, <2>1, <2>2 DEF Owned
<1>12. ASSUME NEW j \in Keys PROVE Settled(own2, j)'
  <2>1. CASE j # k
    <3>1. \A q \in Procs : (req'[q].at = "lock" /\ req'[q].key = j) => req'[q] = req[q]
      BY <1>4, <1>5, <2>1
    <3>2. \A c \in Buckets : (own[c] = j /\ bucket[c] \in Bucket) =>
            bucket'[c] = bucket[c] /\ own2[c] = j
      BY <1>3, <1>4, <1>8, <1>9
    <3>3. store'[j] = store[j] /\ total'[j] = total[j] /\ first'[j] = first[j] /\ now' = now
      BY <1>3, <1>4, <2>1
    <3> QED BY <1>1, <1>7, <1>8, <3>1, <3>2, <3>3, KeyUntouched DEF KInv
  <2>2. CASE j = k
    <3>0. Earlier(k)' = Earlier(k)
      <4>1. Earlier(k) = total[k] - 0
        BY <1>2 DEF Earlier
      <4>2. Earlier(k)' = total[k] - 0
        BY <1>3, <1>4, <1>5, <1>9 DEF Earlier
      <4> QED BY <4>1, <4>2
    <3>1. first'[k] <= t /\ first'[k] <= first[k] /\ first'[k] \in Int
      BY <1>4, <1>7
    <3>2. CASE FirstBucket(k)
      <4>1. \A q \in Procs : (req'[q].at = "lock" /\ req'[q].key = k) => req'[q].bucket = store'[k]
        BY <1>2, <1>4, <1>5, <1>9, <1>10, <3>2 DEF FirstBucket
      <4>2. FirstBucket(k)'
        BY <1>4, <1>5, <3>0, <3>1, <3>2, <4>1 DEF FirstBucket
      <4> QED BY <2>2, <4>2 DEF Settled
    <3>3. ASSUME NEW c \in Buckets, NEW out \in Times, LaterBucket(own, k, c, out)
          PROVE  Settled(own2, k)'
      <4>1. c # b /\ bucket'[c] = bucket[c] /\ own2[c] = k /\ bucket[c] \in Bucket
        BY <1>3, <1>4, <1>8, <1>9, <3>3 DEF LaterBucket
      <4>2. t >= out - MaxLag
        <5>1. out <= now
          BY <3>3 DEF LaterBucket
        <5>2. out \in Int
          BY <1>7
        <5> QED BY <1>6, <1>7, <5>1, <5>2
      <4>3. PaidFor(k, bucket[c], out)'
        <5>1. PaidFor(k, bucket[c], out)
          BY <3>3 DEF LaterBucket
        <5>2. Limit * (out - MaxLag - first[k]) <= Limit * (out - MaxLag - first'[k])
          <6>3. out \in Int
            BY <1>7
          <6>1. PICK x \in Int : x = out - MaxLag - first[k]
            BY <1>7, <6>3
          <6>2. PICK y \in Int : y = out - MaxLag - first'[k]
            BY <1>7, <3>1, <6>3
          <6>4. x <= y
            BY <1>7, <3>1, <6>1, <6>2, <6>3
          <6> QED BY <6>1, <6>2, <6>4, MorePaid
        <5>3. /\ bucket[c].tokens \in Int /\ bucket[c].lastRefill \in Int /\ Earlier(k) \in Int
              /\ Limit \in Nat /\ Window \in Nat
          BY <1>2, <1>7, <4>1, LimiterConstants DEF Bucket, Times, Earlier
        <5>4. /\ Limit * (out - MaxLag - first[k]) \in Int
              /\ Limit * (out - MaxLag - first'[k]) \in Int
              /\ Window * Earlier(k) \in Int /\ Window * Limit \in Int /\ Limit * MaxLag \in Int
              /\ Window * bucket[c].tokens \in Int
              /\ Limit * (out - bucket[c].lastRefill) \in Int
          BY <1>7, <3>1, <5>3
        <5>5. ASSUME NEW x \in Int, NEW y \in Int, NEW z \in Int, NEW u \in Int, NEW v \in Int,
                     x + y + z <= u, u <= v
              PROVE  x + y + z <= v
          BY <5>5
        <5>6. bucket'[c].lastRefill = bucket[c].lastRefill /\ bucket'[c].tokens = bucket[c].tokens
          BY <4>1
        <5> QED BY <3>0, <5>1, <5>2, <5>4, <5>5, <5>6 DEF PaidFor
      <4>4. \A q \in Procs : (req'[q].at = "lock" /\ req'[q].key = k) =>
              /\ req'[q].time >= out - MaxLag
              /\ req'[q].bucket = store'[k] \/ (req'[q].bucket = c /\ req'[q].time <= out)
        <5>1. \A q \in Procs : (req[q].at = "lock" /\ req[q].key = k) =>
                /\ req[q].time >= out - MaxLag
                /\ req[q].bucket = c /\ req[q].time <= out
          BY <1>2, <1>9, <1>10, <3>3 DEF LaterBucket
        <5> QED BY <1>4, <1>5, <4>2, <5>1
      <4>5. bucket'[store'[k]].created >= out - MaxLag /\ bucket'[store'[k]].lastAccess >= out - MaxLag
        BY <1>4, <1>5, <4>2
      <4>6. LaterBucket(own2, k, c, out)'
        BY <1>3, <1>4, <3>3, <4>1, <4>3, <4>4, <4>5 DEF LaterBucket
      <4> QED BY <4>6 DEF Settled
    <3> QED BY <1>1, <2>2, <3>2, <3>3 DEF Settled
  <2> QED BY <2>1, <2>2
<1> QED BY <1>8, <1>11, <1>12 DEF Ledgers

(* What a request lets through is on the account of its bucket, the one in the map
   or the one before. *)
LEMMA DecideSettles ==
  ASSUME KInv, NEW p \in Procs, Decide(p)
  PROVE  Ledgers'
<1>1. PICK own \in [Buckets -> Keys \cup {NoBucket}] :
        Owned(own) /\ \A j \in Keys : Settled(own, j)
  BY DEF KInv, Ledgers
<1>2. PICK k \in Keys : k = req[p].key /\ req[p].at = "lock"
  BY RequestTypes DEF Decide, KInv, IInv
<1>3. PICK h \in Buckets : h = req[p].bucket
  BY <1>2, RequestTypes DEF KInv, IInv
<1>4. PICK n \in Bucket, d \in {0, 1}, old \in Bucket, t \in Times :
        /\ old = bucket[h] /\ t = req[p].time
        /\ bucket' = [bucket EXCEPT ![h] = n]
        /\ total' = [total EXCEPT ![k] = @ + d]
        /\ n.granted = old.granted + d
        /\ n.created = old.created /\ n.lastAccess = t
        /\ \/ /\ n.lastRefill = t /\ t > old.lastRefill
              /\ Window * (n.tokens + d)
                   <= Window * old.tokens + Limit * (t - old.lastRefill)
              /\ n.tokens + d <= Limit
           \/ /\ n.lastRefill = old.lastRefill
              /\ n.tokens + d = old.tokens
              /\ t - old.lastRefill < Window
  BY <1>2, <1>3, DecideEffect DEF KInv
<1>5. req' = [req EXCEPT ![p] = Idle] /\ UNCHANGED <<store, sweep, now, first>>
  BY DEF Decide, Goto
<1>6. /\ \A q \in Procs : req'[q].at = "lock" => req'[q] = req[q]
      /\ \A c \in Buckets : bucket'[c] = IF c = h THEN n ELSE bucket[c]
      /\ \A j \in Keys : total'[j] = IF j = k THEN total[k] + d ELSE total[j]
  <2>1. Idle.at = "idle"
    BY DEF Idle
  <2> QED BY <1>4, <1>5, <2>1 DEF KInv, IInv, TypeOK
<1>7. now \in Int /\ now <= now /\ MaxLag \in Nat /\ IdleLimit \in Nat /\ t \in Int
      /\ Limit \in Nat /\ Window \in Nat /\ Limit > 0 /\ Window > 0
      /\ total[k] \in Nat /\ first[k] \in Int /\ d \in Nat
  BY LimiterConstants DEF KInv, IInv, TypeOK, Times
<1>8. /\ old.tokens \in Nat /\ old.lastRefill \in Int /\ old.granted \in Nat
      /\ n.tokens \in Nat /\ n.lastRefill \in Int /\ n.granted \in Nat
  BY LimiterConstants DEF Bucket, Times
<1>9. own[h] = k
  BY <1>1, <1>2, <1>3 DEF Owned
<1>10. Owned(own)'
  BY <1>1, <1>5, <1>6 DEF Owned
<1>11. ASSUME NEW j \in Keys, j # k PROVE Settled(own, j)'
  <2>1. \A c \in Buckets : (own[c] = j /\ bucket[c] \in Bucket) =>
          bucket'[c] = bucket[c] /\ own[c] = j
    BY <1>6, <1>9, <1>11
  <2>2. \A q \in Procs : (req'[q].at = "lock" /\ req'[q].key = j) => req'[q] = req[q]
    BY <1>6
  <2>3. store'[j] = store[j] /\ total'[j] = total[j] /\ first'[j] = first[j] /\ now' = now
    BY <1>5, <1>6, <1>11
  <2> QED BY <1>1, <1>7, <2>1, <2>2, <2>3, KeyUntouched DEF KInv
<1>12. Settled(own, k)'
  <2>1. CASE store[k] = h
    <3>1. Earlier(k)' = Earlier(k)
      <4>1. Earlier(k) = total[k] - old.granted
        BY <1>4, <2>1, LimiterConstants DEF Earlier
      <4>2. Earlier(k)' = (total[k] + d) - n.granted
        BY <1>5, <1>6, <2>1, LimiterConstants DEF Earlier
      <4>3. (total[k] + d) - n.granted = total[k] - old.granted
        BY <1>4, <1>7, <1>8
      <4> QED BY <4>1, <4>2, <4>3
    <3>2. CASE FirstBucket(k)
      <4>1. FirstBucket(k)'
        BY <1>4, <1>5, <1>6, <2>1, <3>1, <3>2 DEF FirstBucket
      <4> QED BY <4>1 DEF Settled
    <3>3. ASSUME NEW b \in Buckets, NEW out \in Times, LaterBucket(own, k, b, out)
          PROVE  Settled(own, k)'
      <4>1. b # h /\ bucket'[b] = bucket[b]
        BY <1>6, <2>1, <3>3 DEF LaterBucket
      <4>2. PaidFor(k, bucket[b], out)' <=> PaidFor(k, bucket[b], out)
        BY <1>5, <3>1, <4>1 DEF PaidFor
      <4>3. t >= out - MaxLag
        BY <1>2, <1>4, <3>3 DEF LaterBucket
      <4>4. \A q \in Procs : (req'[q].at = "lock" /\ req'[q].key = k) =>
              /\ req'[q].time >= out - MaxLag
              /\ req'[q].bucket = store[k] \/ (req'[q].bucket = b /\ req'[q].time <= out)
        BY <1>6, <3>3 DEF LaterBucket
      <4>5. bucket'[h].created = bucket[h].created /\ bucket'[h].lastAccess = t
        BY <1>4, <1>6
      <4>6. LaterBucket(own, k, b, out)'
        BY <1>5, <2>1, <3>3, <4>1, <4>2, <4>3, <4>4, <4>5 DEF LaterBucket
      <4> QED BY <4>6 DEF Settled
    <3> QED BY <1>1, <3>2, <3>3 DEF Settled
  <2>2. CASE store[k] # h
    <3>0. Earlier(k)' = Earlier(k) + d
      <4>1. CASE store[k] = NoBucket
        <5>1. Earlier(k) = total[k] - 0 /\ Earlier(k)' = (total[k] + d) - 0
          BY <1>5, <1>6, <4>1 DEF Earlier
        <5> QED BY <1>7, <5>1
      <4>2. CASE store[k] # NoBucket
        <5>1. store[k] \in Buckets /\ bucket[store[k]] \in Bucket
          BY <4>2 DEF KInv, IInv, TypeOK, Allocated
        <5>2. bucket'[store[k]] = bucket[store[k]] /\ bucket[store[k]].granted \in Nat
          BY <1>6, <2>2, <5>1 DEF Bucket
        <5>3. /\ Earlier(k) = total[k] - bucket[store[k]].granted
              /\ Earlier(k)' = (total[k] + d) - bucket[store[k]].granted
          BY <1>5, <1>6, <4>2, <5>2 DEF Earlier
        <5> QED BY <1>7, <5>2, <5>3
      <4> QED BY <4>1, <4>2
    <3>1. PICK b \in Buckets, out \in Times : LaterBucket(own, k, b, out)
      BY <1>1, <1>2, <1>3, <2>2 DEF Settled, FirstBucket
    <3>2. /\ h = b /\ t <= out /\ t >= out - MaxLag
          /\ old.lastRefill <= out /\ PaidFor(k, old, out) /\ out \in Int
      BY <1>2, <1>3, <1>4, <2>2, <3>1, LimiterConstants DEF LaterBucket, Times
    <3>3. PICK e \in Int : e = Earlier(k)
      <4>1. store[k] # NoBucket => bucket[store[k]].granted \in Nat
        BY DEF KInv, IInv, TypeOK, Allocated, Bucket
      <4> QED BY <1>7, <4>1 DEF Earlier
    <3>4. PICK paid \in Int : paid = Limit * (out - MaxLag - first[k])
      BY <1>7, <3>2
    <3>5. \/ /\ old.lastRefill + IdleLimit + 1 <= out + MaxLag
             /\ Window * e + Window * Limit + Limit * MaxLag <= paid
          \/ /\ old.lastRefill >= out - MaxLag
             /\ Window * e + Window * old.tokens + Limit * (out - old.lastRefill) <= paid
      BY <3>2, <3>3, <3>4 DEF PaidFor
    <3>6. Window * (e + d) + Window * n.tokens = Window * e + Window * (n.tokens + d)
      BY <1>7, <1>8
    <3>7. /\ n.lastRefill >= out - MaxLag /\ n.lastRefill <= out
          /\ Window * (e + d) + Window * n.tokens + Limit * (out - n.lastRefill) <= paid
(* Refilled for the first time since it was idle: a full bucket and a lag's time. *)
      <4>1. CASE /\ old.lastRefill + IdleLimit + 1 <= out + MaxLag
                 /\ Window * e + Window * Limit + Limit * MaxLag <= paid
        <5>1. n.lastRefill = t /\ n.tokens + d <= Limit
          BY <1>4, <1>7, <1>8, <3>2, <4>1, LagIsShort
        <5>2. Window * (n.tokens + d) <= Window * Limit
          <6>1. ASSUME NEW w \in Nat, NEW x \in Nat, NEW y \in Nat, x <= y PROVE w * x <= w * y
            BY <6>1, Z3
          <6> QED BY <1>7, <1>8, <5>1, <6>1
        <5>3. Limit * (out - t) <= Limit * MaxLag
          BY <1>7, <3>2, MorePaid
        <5>4. /\ Window * e \in Int /\ Window * (n.tokens + d) \in Int /\ Window * Limit \in Int
              /\ Limit * (out - t) \in Int /\ Limit * MaxLag \in Int
          BY <1>7, <1>8, <3>2
        <5>5. ASSUME NEW x \in Int, NEW y \in Int, NEW z \in Int, NEW u \in Int, NEW v \in Int,
                     NEW w \in Int, x + y + z <= w, u <= y, v <= z
              PROVE  x + u + v <= w
          BY <5>5
        <5> QED BY <3>2, <3>6, <4>1, <5>1, <5>2, <5>3, <5>4, <5>5
(* Refilled before: a refill pays for no more than the time it takes. *)
      <4>2. CASE /\ old.lastRefill >= out - MaxLag
                 /\ Window * e + Window * old.tokens + Limit * (out - old.lastRefill) <= paid
        <5>1. Limit * (out - old.lastRefill)
                = Limit * (t - old.lastRefill) + Limit * (out - t)
          BY <1>7, <1>8, <3>2
        <5>2. /\ Window * e \in Int /\ Window * (n.tokens + d) \in Int
              /\ Window * old.tokens \in Int /\ Limit * (out - t) \in Int
              /\ Limit * (t - old.lastRefill) \in Int /\ Limit * (out - old.lastRefill) \in Int
          BY <1>7, <1>8, <3>2
        <5>3. CASE /\ n.lastRefill = t
                   /\ Window * (n.tokens + d)
                        <= Window * old.tokens + Limit * (t - old.lastRefill)
          <6>1. ASSUME NEW x \in Int, NEW y \in Int, NEW u \in Int, NEW v \in Int,
                       NEW z \in Int, NEW w \in Int,
                       x + y + (u + v) <= w, z <= y + u
                PROVE  x + z + v <= w
            BY <6>1
          <6> QED BY <3>2, <3>6, <4>2, <5>1, <5>2, <5>3, <6>1
        <5>4. CASE n.lastRefill = old.lastRefill /\ n.tokens + d = old.tokens
          BY <3>2, <3>6, <4>2, <5>4
        <5> QED BY <1>4, <5>3, <5>4
      <4> QED BY <3>5, <4>1, <4>2
    <3>8. PaidFor(k, n, out)'
      <4>1. Earlier(k)' = e + d /\ first'[k] = first[k]
        BY <1>5, <3>0, <3>3
      <4> QED BY <3>4, <3>7, <4>1 DEF PaidFor
    <3>9. bucket'[b] = n
      BY <1>6, <3>2
    <3>10. PaidFor(k, bucket[b], out)'
      BY <3>8, <3>9 DEF PaidFor
    <3>11. store[k] # NoBucket => bucket'[store[k]] = bucket[store[k]]
      BY <1>6, <2>2 DEF KInv, IInv, TypeOK
    <3>12. \A q \in Procs : (req'[q].at = "lock" /\ req'[q].key = k) =>
             /\ req'[q].time >= out - MaxLag
             /\ req'[q].bucket = store[k] \/ (req'[q].bucket = b /\ req'[q].time <= out)
      BY <1>6, <3>1 DEF LaterBucket
    <3>13. LaterBucket(own, k, b, out)'
      BY <1>5, <3>1, <3>7, <3>9, <3>10, <3>11, <3>12 DEF LaterBucket
    <3> QED BY <3>13 DEF Settled
  <2> QED BY <2>1, <2>2
<1> QED BY <1>1, <1>10, <1>11, <1>12 DEF Ledgers

(* Cleanup removes a bucket only when no request holds the one removed before, and
   the time it has been idle pays for the first fill of the next. *)
LEMMA RemovalSettles ==
  ASSUME KInv, NEW k \in Keys, SweepKey(k), store[k] # NoBucket,
         sweep.time - bucket[store[k]].lastAccess > IdleLimit,
         NEW own \in [Buckets -> Keys \cup {NoBucket}], Owned(own), Settled(own, k)
  PROVE  Settled(own, k)'
<1>1. /\ store' = [store EXCEPT ![k] = NoBucket]
      /\ UNCHANGED <<bucket, req, now, total, first>>
      /\ sweep.at = "range"
  BY DEF SweepKey
<1>2. store'[k] = NoBucket
  BY <1>1 DEF KInv, IInv, TypeOK
<1>3. PICK c \in Buckets : c = store[k] /\ own[c] = k /\ bucket[c] \in Bucket
  BY DEF KInv, IInv, TypeOK, Allocated, Owned
<1>4. /\ now \in Int /\ now \in Times /\ MaxLag \in Nat /\ IdleLimit \in Nat
      /\ Window \in Nat /\ Window > 0 /\ Limit \in Nat
      /\ total[k] \in Nat /\ first[k] \in Int
  BY LimiterConstants DEF KInv, IInv, TypeOK, Times
<1>5. /\ bucket[c].lastRefill \in Int /\ bucket[c].lastAccess \in Int
      /\ bucket[c].tokens \in Nat
  BY <1>3, LimiterConstants DEF Bucket, Times
<1>6. sweep.time \in Int /\ sweep.time <= now
  <2>1. sweep.time \in Int
    BY <1>1, LimiterConstants DEF KInv, IInv, TypeOK, Sweep, Asleep, Times
  <2> QED BY <1>1, <2>1 DEF KInv, Timely
<1>7. /\ bucket[c].lastRefill + IdleLimit + 1 <= now + MaxLag
      /\ bucket[c].lastRefill <= now
      /\ bucket[c].lastAccess + IdleLimit < now
  <2>1. bucket[c].lastRefill <= bucket[c].lastAccess + MaxLag /\ bucket[c].lastRefill <= now
    BY <1>3, NoBucketIsNone DEF KInv, Timely
  <2> QED BY <1>3, <1>4, <1>5, <1>6, <2>1
<1>8. \A q \in Procs : (req[q].at = "lock" /\ req[q].key = k) =>
        req[q].bucket = c /\ req[q].time <= now /\ req[q].time >= now - MaxLag
  <2> SUFFICES ASSUME NEW q \in Procs, req[q].at = "lock", req[q].key = k
               PROVE  req[q].bucket = c /\ req[q].time <= now /\ req[q].time >= now - MaxLag
    OBVIOUS
  <2>1. req[q].time \in Int
    <3>1. req[q].time \in Times
      BY RequestTypes DEF KInv, IInv
    <3> QED BY <3>1, LimiterConstants DEF Times
  <2>2. req[q].time <= now /\ now <= req[q].time + MaxLag
    BY DEF KInv, Timely
  <2>3. CASE FirstBucket(k)
    BY <1>3, <1>4, <2>1, <2>2, <2>3 DEF FirstBucket
  <2>4. ASSUME NEW b \in Buckets, NEW out \in Times, LaterBucket(own, k, b, out)
        PROVE  req[q].bucket = c
    <3>1. out \in Int
      BY LimiterConstants DEF Times
    <3>2. bucket[c].lastAccess >= out - MaxLag
      BY <1>3, <2>4 DEF LaterBucket
    <3>3. req[q].bucket = c \/ req[q].time <= out
      BY <1>3, <2>4 DEF LaterBucket
    <3>4. ~(req[q].time <= out)
      BY <1>4, <1>5, <1>7, <2>1, <2>2, <3>1, <3>2, LagIsShort
    <3> QED BY <3>3, <3>4
  <2> QED BY <1>4, <2>1, <2>2, <2>3, <2>4 DEF Settled, FirstBucket
<1>9. Earlier(k)' = total[k]
  <2>1. Earlier(k)' = total[k] - 0
    BY <1>1, <1>2 DEF Earlier
  <2> QED BY <1>4, <2>1
<1>10. Window * total[k] + Window * Limit + Limit * MaxLag
         <= Limit * (now - MaxLag - first[k])
  <2>1. Window * total[k] + Window * bucket[c].tokens
          <= Window * Limit + Limit * (bucket[c].lastRefill - first[k])
    BY <1>3, GrantedSoFar DEF KInv
  <2>2. PICK lr \in Int : lr = bucket[c].lastRefill
    BY <1>5
  <2>3. PICK f \in Int : f = first[k]
    BY <1>4
  <2>4. PICK m \in Int : m = now
    BY <1>4
  <2>5. Limit * (2 * Window + MaxLag) <= Limit * (m - MaxLag - lr)
    <3>1. 2 * Window + MaxLag <= m - MaxLag - lr
      BY <1>4, <1>7, <2>2, <2>4, LagIsShort
    <3>2. PICK x \in Int : x = 2 * Window + MaxLag
      BY <1>4
    <3>3. PICK y \in Int : y = m - MaxLag - lr
      BY <1>4
    <3> QED BY <3>1, <3>2, <3>3, MorePaid
  <2>6. /\ Limit * (2 * Window + MaxLag) = Window * Limit + Window * Limit + Limit * MaxLag
        /\ Limit * (m - MaxLag - f) = Limit * (m - MaxLag - lr) + Limit * (lr - f)
    BY <1>4
  <2>7. /\ Window * total[k] \in Int /\ Window * bucket[c].tokens \in Nat
        /\ Window * Limit \in Int /\ Limit * MaxLag \in Int
        /\ Limit * (m - MaxLag - lr) \in Int /\ Limit * (lr - f) \in Int
    BY <1>4, <1>5
  <2>8. ASSUME NEW g \in Int, NEW tk \in Nat, NEW wl \in Int, NEW lm \in Int,
               NEW a \in Int, NEW b \in Int,
               g + tk <= wl + b, wl + wl + lm <= a
        PROVE  g + wl + lm <= a + b
    BY <2>8
  <2>9. Window * total[k] + Window * Limit + Limit * MaxLag <= Limit * (m - MaxLag - f)
    BY <2>1, <2>2, <2>3, <2>5, <2>6, <2>7, <2>8
  <2> QED BY <2>3, <2>4, <2>9
<1>11. PICK out \in Times : out = now
  BY <1>4
<1>12. PaidFor(k, bucket[c], out)'
  BY <1>1, <1>7, <1>9, <1>10, <1>11 DEF PaidFor
<1>13. LaterBucket(own, k, c, out)'
  <2>1. c # NoBucket
    BY LimiterConstants
  <2>2. out <= now
    BY <1>4, <1>11
  <2> QED BY <1>1, <1>2, <1>3, <1>7, <1>8, <1>11, <1>12, <2>1, <2>2 DEF LaterBucket
<1> QED BY <1>13 DEF Settled

LEMMA SweepSettles ==
  ASSUME KInv, NEW k \in Keys, SweepKey(k)
  PROVE  Ledgers'
<1>1. PICK own \in [Buckets -> Keys \cup {NoBucket}] :
        Owned(own) /\ \A j \in Keys : Settled(own, j)
  BY DEF KInv, Ledgers
<1>2. UNCHANGED <<bucket, req, now, total, first>>
  BY DEF SweepKey
<1>3. now \in Int /\ now <= now
  BY LimiterConstants DEF KInv, IInv, TypeOK, Times
<1>4. \A j \in Keys : store'[j] = store[j] \/ store'[j] = NoBucket
  BY DEF SweepKey, KInv, IInv, TypeOK
<1>5. Owned(own)'
  BY <1>1, <1>2, <1>4 DEF Owned
<1>6. ASSUME NEW j \in Keys PROVE Settled(own, j)'
  <2>1. CASE store'[j] = store[j]
    BY <1>1, <1>2, <1>3, <2>1, KeyUntouched DEF KInv
  <2>2. CASE store'[j] # store[j]
    <3>1. /\ j = k /\ store[k] # NoBucket
          /\ sweep.time - bucket[store[k]].lastAccess > IdleLimit
      BY <2>2 DEF SweepKey, KInv, IInv, TypeOK
    <3> QED BY <1>1, <3>1, RemovalSettles
  <2> QED BY <2>1, <2>2
<1> QED BY <1>1, <1>5, <1>6 DEF Ledgers

(* Steps that move neither map, buckets, requests nor totals. *)
LEMMA WaitingSettles ==
  ASSUME KInv, SweepStart \/ Tick \/ UNCHANGED vars
  PROVE  Ledgers'
<1>1. PICK own \in [Buckets -> Keys \cup {NoBucket}] :
        Owned(own) /\ \A j \in Keys : Settled(own, j)
  BY DEF KInv, Ledgers
<1>2. UNCHANGED <<store, bucket, req, total, first>>
  BY DEF SweepStart, Tick, vars
<1>3. now \in Int /\ now' \in Int /\ now <= now'
  BY LimiterConstants DEF KInv, IInv, TypeOK, Times, SweepStart, Tick, vars
<1>4. Owned(own)'
  BY <1>1, <1>2 DEF Owned
<1>5. ASSUME NEW j \in Keys PROVE Settled(own, j)'
  BY <1>1, <1>2, <1>3, KeyUntouched DEF KInv
<1> QED BY <1>1, <1>4, <1>5 DEF Ledgers

LEMMA InitKInv == Init => KInv
<1> SUFFICES ASSUME Init PROVE KInv
  OBVIOUS
<1>1. Timely
  BY DEF Init, Timely, Idle, Asleep
<1> DEFINE own == [b \in Buckets |-> NoBucket]
<1>2. own \in [Buckets -> Keys \cup {NoBucket}]
  OBVIOUS
<1>3. Owned(own)
  <2>1. (\A k \in Keys : store[k] = NoBucket) /\ (\A p \in Procs : req[p].at # "lock")
    BY DEF Init, Idle
  <2> QED BY <1>2, <2>1 DEF Owned
<1>4. ASSUME NEW k \in Keys PROVE Settled(own, k)
  <2>1. Earlier(k) = 0 /\ store[k] = NoBucket
    BY DEF Init, Earlier
  <2> QED BY <2>1 DEF Init, Idle, Settled, FirstBucket
<1> HIDE DEF own
<1>5. Ledgers
  BY <1>2, <1>3, <1>4 DEF Ledgers
<1> QED BY <1>1, <1>5, InitIInv DEF KInv

LEMMA NextKeepsKInv == KInv /\ [Next]_vars => KInv'
<1> SUFFICES ASSUME KInv, [Next]_vars PROVE KInv'
  OBVIOUS
<1>1. IInv' /\ Timely'
  BY NextKeepsIInv, TimesKeep DEF KInv
<1>2. Ledgers'
  <2>1. ASSUME NEW p \in Procs, NEW k \in Keys, Allow(p, k) PROVE Ledgers'
    BY <2>1, AllowSettles
  <2>2. ASSUME NEW p \in Procs, LoadBucket(p) PROVE Ledgers'
    BY <2>2, LoadSettles
  <2>3. ASSUME NEW p \in Procs, NEW b \in Buckets, StoreBucket(p, b) PROVE Ledgers'
    BY <2>3, StoreSettles
  <2>4. ASSUME NEW p \in Procs, Decide(p) PROVE Ledgers'
    BY <2>4, DecideSettles
  <2>5. ASSUME NEW k \in Keys, SweepKey(k) PROVE Ledgers'
    BY <2>5, SweepSettles
  <2>6. CASE SweepStart \/ Tick \/ UNCHANGED vars
    BY <2>6, WaitingSettles
  <2> QED BY <2>1, <2>2, <2>3, <2>4, <2>5, <2>6 DEF Next
<1> QED BY <1>1, <1>2 DEF KInv

(* Over all its buckets, the removed ones that requests still held included, a key
   is granted no more than one bucket that was never removed would grant, when the
   idle limit is as long as LagIsShort says. *)
THEOREM KeysConform == Spec => []KeyConforms
<1>1. ASSUME KInv PROVE KeyConforms
  <2> SUFFICES ASSUME NEW k \in Keys
               PROVE  Window * total[k] <= Window * Limit
                        + (IF total[k] = 0 THEN 0 ELSE Limit * (now - first[k]))
    BY DEF KeyConforms
  <2>1. /\ total[k] \in Nat /\ first[k] \in Int /\ now \in Int
        /\ Window \in Nat /\ Limit \in Nat
    BY <1>1, LimiterConstants DEF KInv, IInv, TypeOK, Times
  <2>2. Window * Limit \in Nat /\ Window * total[k] \in Int /\ Limit * (now - first[k]) \in Int
    BY <2>1
  <2>3. PICK own \in [Buckets -> Keys \cup {NoBucket}] : Settled(own, k)
    BY <1>1 DEF KInv, Ledgers
  <2>4. CASE total[k] = 0
    BY <2>1, <2>2, <2>4
  <2>5. CASE total[k] # 0 /\ store[k] = NoBucket
    <3>1. Window * total[k] <= Limit * (now - first[k])
      BY <1>1, <2>3, <2>5, GrantedSoFar DEF KInv
    <3> QED BY <2>2, <2>5, <3>1
  <2>6. CASE total[k] # 0 /\ store[k] # NoBucket
    <3>1. PICK b \in Bucket : b = bucket[store[k]]
      BY <1>1, <2>6 DEF KInv, IInv, Allocated
    <3>2. Window * total[k] + Window * b.tokens
            <= Window * Limit + Limit * (b.lastRefill - first[k])
      BY <1>1, <2>3, <2>6, <3>1, GrantedSoFar DEF KInv
    <3>3. b.lastRefill \in Int /\ b.tokens \in Nat
      BY LimiterConstants DEF Bucket, Times
    <3>4. b.lastRefill <= now
      BY <1>1, <2>6, <3>1, NoBucketIsNone DEF KInv, IInv, TypeOK, Timely
    <3>5. Limit * (b.lastRefill - first[k]) <= Limit * (now - first[k])
      <4>1. PICK x \in Int : x = b.lastRefill - first[k]
        BY <2>1, <3>3
      <4>2. PICK y \in Int : y = now - first[k]
        BY <2>1
      <4> QED BY <2>1, <3>3, <3>4, <4>1, <4>2, MorePaid
    <3>6. Window * b.tokens \in Nat /\ Limit * (b.lastRefill - first[k]) \in Int
      BY <2>1, <3>3
    <3>7. ASSUME NEW g \in Int, NEW tk \in Nat, NEW wl \in Int, NEW x \in Int, NEW y \in Int,
                 g + tk <= wl + x, x <= y
          PROVE  g <= wl + y
      BY <3>7
    <3> QED BY <2>2, <2>6, <3>2, <3>5, <3>6, <3>7
  <2> QED BY <2>4, <2>5, <2>6
<1> QED BY <1>1, InitKInv, NextKeepsKInv, PTL DEF Spec
=============================================================================
