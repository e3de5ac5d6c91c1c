----------------------------- MODULE MCAccounts -----------------------------
(* One organization founded and one invite issued in the behaviour itself, and
   signups that race for it. *)
EXTENDS Accounts, TLC

CONSTANTS o1, o2, u1, u2, u3, i1, s1, e1, e2, e3, p1, p2

MCOrgs    == {o1, o2}
MCUsers   == {u1, u2, u3}
MCInvites == {i1}
MCSlugs   == {s1}
MCEmails  == {e1, e2, e3}
MCRoles   == {"owner", "admin", "member"}
MCQuotas  == {0, 1}
MCTimes   == {0}
MCProcs   == {p1, p2}
=============================================================================
