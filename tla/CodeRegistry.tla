---------------------------- MODULE CodeRegistry ----------------------------
(***************************************************************************)
(* What the link table promises its users about short codes: within an     *)
(* organization a code is claimed at most once, by one link, and the claim *)
(* is never moved to another link nor given up.  A claim is one atomic     *)
(* step; the code that makes it (links.Service.CreateLink) is three        *)
(* database statements long and runs concurrently with itself.             *)
(***************************************************************************)
CONSTANTS Orgs, Codes, Ids

VARIABLE claims      \* the set of <<org, code, link id>> claimed so far

Claims == Orgs \X Codes \X Ids

(* Every link that exists before the first step has claimed its code.      *)
Init == claims \subseteq Claims

(* The code is free in that organization and the link id is a new one.     *)
Claim(o, c, i) ==
  /\ \A k \in claims : <<k[1], k[2]>> # <<o, c>>
  /\ \A k \in claims : k[3] # i
  /\ claims' = claims \cup {<<o, c, i>>}

Next == \E o \in Orgs, c \in Codes, i \in Ids : Claim(o, c, i)

Spec == Init /\ [][Next]_claims
=============================================================================
