----------------------------- MODULE Membership -----------------------------
(***************************************************************************)
(* What the global database promises about who belongs to which            *)
(* organization, with every request that succeeds one atomic step: an      *)
(* organization is founded with its owner, a member that may invites into  *)
(* its own organization, and an invite makes one new member at a time and  *)
(* counts it.  Nothing is ever changed or taken back.  An invite may admit *)
(* Slack members more than it says, but never any when it says none.       *)
(***************************************************************************)
EXTENDS Integers

CONSTANTS OrgIds, UserIds, InviteIds, Slugs, Emails, Roles, Quotas,
          Expiries,   \* the times an invite may expire at
          Slack, NoRow, NoInvite

VARIABLES orgs, users, invites

rows == <<orgs, users, invites>>

Init ==
  /\ orgs = [o \in OrgIds |-> NoRow]
  /\ users = [u \in UserIds |-> NoRow]
  /\ invites = [i \in InviteIds |-> NoRow]

(* A user can be added: its id and its address are new. *)
Free(u, e) ==
  /\ users[u] = NoRow
  /\ \A w \in UserIds : users[w] # NoRow => users[w].email # e

Found(o, u, s, e) ==
  /\ orgs[o] = NoRow /\ Free(u, e)
  /\ \A q \in OrgIds : orgs[q] # NoRow => orgs[q].slug # s
  /\ orgs' = [orgs EXCEPT ![o] = [slug |-> s]]
  /\ users' = [users EXCEPT ![u] = [email |-> e, org |-> o, role |-> "owner",
                                    via |-> NoInvite]]
  /\ UNCHANGED invites

Issue(i, u, r, q, x) ==
  /\ invites[i] = NoRow
  /\ users[u] # NoRow /\ users[u].role \in {"owner", "admin"}
  /\ invites' = [invites EXCEPT ![i] = [org |-> users[u].org, role |-> r,
                                        maxUses |-> q, uses |-> 0, expires |-> x]]
  /\ UNCHANGED <<orgs, users>>

Join(i, u, e) ==
  /\ invites[i] # NoRow /\ Free(u, e)
  /\ invites[i].maxUses > 0 /\ invites[i].uses < invites[i].maxUses + Slack
  /\ users' = [users EXCEPT ![u] = [email |-> e, org |-> invites[i].org,
                                    role |-> invites[i].role, via |-> i]]
  /\ invites' = [invites EXCEPT ![i].uses = @ + 1]
  /\ UNCHANGED orgs

Next ==
  \/ \E o \in OrgIds, u \in UserIds, s \in Slugs, e \in Emails : Found(o, u, s, e)
  \/ \E i \in InviteIds, u \in UserIds, r \in Roles, q \in Quotas, x \in Expiries :
       Issue(i, u, r, q, x)
  \/ \E i \in InviteIds, u \in UserIds, e \in Emails : Join(i, u, e)

Spec == Init /\ [][Next]_rows
=============================================================================
