----------------------------- MODULE MCRedirect -----------------------------
(* Two tenants whose databases hold a link each on the same code, one API
   request and three visits by two visitors.  The contents of a link differ
   by their status. *)
EXTENDS Redirect, TLC

CONSTANTS never, o1, o2, i1, i2, good1, s1, v1, v2, p1

MCOrgs     == {o1, o2}
MCIds      == {i1, i2}
MCDests    == {good1}
MCShort    == {s1}
MCNone     == {}
MCVisitors == {v1, v2}
MCProcs    == {p1}

MCExpiries == {never}
MCStatuses == {"active", "archived", "hidden"}

(* Visitors are interchangeable: no definition names one.  So are the two
   tenants, each with its link: the tables below treat them alike. *)
SwapTenants == (o1 :> o2) @@ (o2 :> o1) @@ (i1 :> i2) @@ (i2 :> i1)
MCSymmetry == Permutations(MCVisitors) \cup {SwapTenants}

MCInitTable ==
  [o \in MCOrgs |-> [i \in MCIds |->
     IF <<o, i>> \in {<<o1, i1>>, <<o2, i2>>}
       THEN [code |-> s1, dest |-> good1, status |-> "active",
             expires |-> never, clicks |-> 0]
       ELSE NoRow]]
=============================================================================
