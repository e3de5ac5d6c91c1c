------------------------------ MODULE MCTraffic ------------------------------
(* One domain that can move between two organizations, whose links have rules of
   both kinds, two visitors, one job and one reader at a time. *)
EXTENDS Traffic, TLC

CONSTANTS d1, shared, o1, o2, v1, v2, j1, c1, a1, a2, url1, url2

MCDomains  == {d1}
MCOrgs     == {o1, o2}
MCVisitors == {v1, v2}
MCJobs     == {j1}
MCReaders  == {c1}
MCURLs     == {url1, url2}
MCLimits   == {2, 3}
MCRanges   == {<<0, 2>>}

MCInitDomains == [d \in MCDomains |-> o2]
MCClients  == [ip : {a1, a2}, ua : {{"iphone", "mac os"}}]

(* A rule for mobiles with no URL in it hides the one for the country. *)
MCLinks == [o \in MCOrgs |->
  [dest |-> url1, rules |-> [device |-> [d \in {"mobile"} |-> NoURL],
                             geo |-> [g \in {"US"} |-> url2]]]]

(* No definition names a visitor or an address. *)
MCSymmetry == Permutations(MCVisitors) \cup Permutations({a1, a2})
=============================================================================
