--------------------------- MODULE MCRateLimiter ---------------------------
(* One key and three requests at a time; the idle limit is three windows (it is
   ten in the code), so that a bucket comes and goes within the clock's run. *)
EXTENDS RateLimiter, TLC

CONSTANTS k1, b1, b2, p1, p2, p3

MCKeys     == {k1}
MCBuckets  == {b1, b2}
MCProcs    == {p1, p2, p3}

(* Requests and buckets are interchangeable: no definition names one. *)
MCSymmetry == Permutations(MCProcs) \cup Permutations(MCBuckets)
=============================================================================
