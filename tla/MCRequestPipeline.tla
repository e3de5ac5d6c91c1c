------------------------- MODULE MCRequestPipeline -------------------------
(* The owners of two organizations, one login or refresh and one request at a
   time, and a clock that outlasts a refresh token and what it can fetch. *)
EXTENDS RequestPipeline, TLC

CONSTANTS u1, u2, o1, o2, p1, r1

MCUsers    == {u1, u2}
MCOrgs     == {o1, o2}
MCRoles    == {"owner", "admin"}
MCProcs    == {p1}
MCRequests == {r1}

MCInitUsers ==
  [u \in MCUsers |-> [org |-> IF u = u1 THEN o1 ELSE o2, role |-> "owner",
                      deletedAt |-> None]]

(* Each owner with the organization: no definition names one. *)
MCSymmetry == {(u1 :> u2) @@ (u2 :> u1) @@ (o1 :> o2) @@ (o2 :> o1)}
=============================================================================
