------------------------------ MODULE MCLinks ------------------------------
(* A small instance of Links: two databases, one of which already holds an
   active link on a code generateRandomCode may draw again. *)
EXTENDS Links

CONSTANTS o1, o2, i1, i2, i3, i4, good1, good2, bad, s1, l1, r1, never, p1, p2

MCOrgs      == {o1, o2}
MCIds       == {i1, i2, i3, i4}
MCGoodDests == {good1, good2}
MCBadDests  == {bad}
MCProcs     == {p1, p2}
MCShort     == {s1}
MCLong      == {l1}
MCUser      == {s1, r1}
MCBadCodes  == {r1}
MCExpiries  == {never}

(* "hidden" stands for the strings that nobody has documented; the code tells it as
   little from "paused" as this module does. *)
MCStatuses  == {"active", "paused", "archived", "hidden"}

OldLink == [code |-> s1, dest |-> good1, status |-> "active",
            expires |-> never, clicks |-> 0]

MCInitTable == [o \in MCOrgs |-> [i \in MCIds |->
                  IF o = o1 /\ i = i1 THEN OldLink ELSE NoRow]]
=============================================================================
