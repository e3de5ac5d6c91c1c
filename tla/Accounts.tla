------------------------------ MODULE Accounts ------------------------------
(***************************************************************************)
(* Organizations, users and invites in the global database, and the three  *)
(* requests that write them: AuthHandler.Signup, OrgHandler.Create and     *)
(* InviteHandler.Create.  A transaction takes the database's only write    *)
(* lock at its first write and what it has written is seen by others when  *)
(* it commits; the checks that come before it are statements of their own. *)
(*                                                                         *)
(* The path, the plan, the hashed password and the tokens of an answer are *)
(* left out; an organization's slug stands for slug and domain, which are  *)
(* both UNIQUE.                                                            *)
(***************************************************************************)
EXTENDS Integers, FiniteSets

CONSTANTS
  OrgIds, UserIds, InviteIds,   \* the UUIDs of the rows
  Slugs,         \* organization slugs a request may ask for
  Emails,        \* email addresses IsCorporateEmail accepts
  Roles,         \* roles an invite may carry: the request's, unchecked
  Quotas,        \* values of max_uses a request may ask for
  Lifetimes,     \* expires_in_hours, in clock units
  Procs,         \* request goroutines
  NoRow, NoProc, NoInvite,
  MaxNow,        \* bound: how far the clock runs
  MaxRequests    \* bound: requests issued in a behaviour

ASSUME AccountConstants ==
  /\ IsFiniteSet(Procs) /\ IsFiniteSet(UserIds)
  /\ Quotas \subseteq Int /\ Lifetimes \subseteq Int
  /\ MaxNow \in Nat /\ MaxRequests \in Nat
  /\ NoProc \notin Procs /\ NoInvite \notin InviteIds
  /\ {"owner", "admin"} \subseteq Roles

Org    == [slug : Slugs]
User   == [email : Emails, org : OrgIds, role : Roles,
           via : InviteIds \cup {NoInvite}]
Invite == [org : OrgIds, role : Roles, maxUses : Quotas, uses : Nat,
           expires : Int]

ASSUME NoRowIsNoRow == NoRow \notin Org \cup User \cup Invite

VARIABLES
  orgs, users, invites,   \* the committed rows
  writer,        \* the request whose transaction holds the write lock
  job,           \* job[p] : what the request p is about to do
  now,           \* the wall clock
  requests       \* how many requests have been issued

vars == <<orgs, users, invites, writer, job, now, requests>>

-----------------------------------------------------------------------------
Idle == [kind |-> "idle"]

(* Signup: about to look for the email, to INSERT, to UPDATE the invite, to
   commit (bump: the uncommitted increment), to answer. *)
SignupKinds == {"find", "join", "bump", "commit"}
SignupJob == [kind : SignupKinds, invite : InviteIds, email : Emails,
              user : UserIds, bump : {0, 1}]
(* OrgHandler.Create: about to INSERT the organization, its owner, commit. *)
OrgJob == [kind : {"org", "owner", "found"}, org : OrgIds, user : UserIds,
           slug : Slugs, email : Emails]
AnswerJob == [kind : {"answer"}]
Job == {Idle} \cup SignupJob \cup OrgJob \cup AnswerJob

TypeOK ==
  /\ orgs \in [OrgIds -> Org \cup {NoRow}]
  /\ users \in [UserIds -> User \cup {NoRow}]
  /\ invites \in [InviteIds -> Invite \cup {NoRow}]
  /\ writer \in Procs \cup {NoProc}
  /\ job \in [Procs -> Job]
  /\ now \in 0 .. MaxNow
  /\ requests \in 0 .. MaxRequests

Init ==
  /\ orgs = [o \in OrgIds |-> NoRow]
  /\ users = [u \in UserIds |-> NoRow]
  /\ invites = [i \in InviteIds |-> NoRow]
  /\ writer = NoProc
  /\ job = [p \in Procs |-> Idle]
  /\ now = 0
  /\ requests = 0

(* The UUIDs a request draws are held by no row and no other request. *)
NewOrg(o)  == orgs[o] = NoRow /\ \A p \in Procs : "org" \in DOMAIN job[p] => job[p].org # o
NewUser(u) == users[u] = NoRow /\ \A p \in Procs : "user" \in DOMAIN job[p] => job[p].user # u

EmailTaken(e) == \E u \in UserIds : users[u] # NoRow /\ users[u].email = e
SlugTaken(s)  == \E o \in OrgIds : orgs[o] # NoRow /\ orgs[o].slug = s

Begin(p) ==
  /\ job[p] = Idle
  /\ requests < MaxRequests
  /\ requests' = requests + 1

Goto(p, j) == job' = [job EXCEPT ![p] = j]

-----------------------------------------------------------------------------
(* Variant: the test of max_uses off by one. *)
UsableOnceMore(i) ==
  /\ invites[i] # NoRow
  /\ invites[i].uses <= invites[i].maxUses
  /\ invites[i].expires >= now

(* The invite can be used: pending (no code gives it another status), not used
   up, not expired. *)
Usable(i) ==
  /\ invites[i] # NoRow
  /\ invites[i].uses < invites[i].maxUses
  /\ invites[i].expires >= now

(* Signup reads the invite and checks it; the address is one of Emails.  When
   a check fails it answers 400 and nothing changes. *)
Signup(p, i, e, u) ==
  /\ Begin(p)
  /\ Usable(i)
  /\ NewUser(u)
  /\ Goto(p, [kind |-> "find", invite |-> i, email |-> e, user |-> u, bump |-> 0])
  /\ UNCHANGED <<orgs, users, invites, writer, now>>

(* userRepo.GetByEmail: 409 when the user exists. *)
FindUser(p) ==
  LET j == job[p] IN
  /\ j.kind = "find"
  /\ Goto(p, IF EmailTaken(j.email) THEN Idle ELSE [j EXCEPT !.kind = "join"])
  /\ UNCHANGED <<orgs, users, invites, writer, now, requests>>

(* Variant: the row goes in on the strength of the earlier check alone. *)
InsertUserUnchecked(p) ==
  LET j == job[p] IN
  /\ j.kind = "join" /\ writer = NoProc
  /\ writer' = p
  /\ Goto(p, [j EXCEPT !.kind = "bump"])
  /\ UNCHANGED <<orgs, users, invites, now, requests>>

(* Begin and userRepo.CreateTx: wait for the lock, then the UNIQUE email. *)
InsertUser(p) ==
  LET j == job[p] IN
  /\ j.kind = "join" /\ writer = NoProc
  /\ IF EmailTaken(j.email)
       THEN writer' = writer /\ Goto(p, Idle)
       ELSE writer' = p /\ Goto(p, [j EXCEPT !.kind = "bump"])
  /\ UNCHANGED <<orgs, users, invites, now, requests>>

(* Variant: the increment on a connection of its own (IncrementUses). *)
BumpInviteAtOnce(p) ==
  LET j == job[p] IN
  /\ j.kind = "bump"
  /\ invites' = [invites EXCEPT ![j.invite].uses = @ + 1]
  /\ Goto(p, [j EXCEPT !.kind = "commit"])
  /\ UNCHANGED <<orgs, users, writer, now, requests>>

(* Variant: the increment retried after it took effect. *)
BumpInviteRetried(p) ==
  LET j == job[p] IN
  /\ j.kind = "bump"
  /\ \E k \in {"bump", "commit"} : Goto(p, [j EXCEPT !.kind = k, !.bump = @ + 1])
  /\ UNCHANGED <<orgs, users, invites, writer, now, requests>>

(* inviteRepo.IncrementUsesTx: current_uses + 1, whatever max_uses says. *)
BumpInvite(p) ==
  LET j == job[p] IN
  /\ j.kind = "bump"
  /\ Goto(p, [j EXCEPT !.kind = "commit", !.bump = 1])
  /\ UNCHANGED <<orgs, users, invites, writer, now, requests>>

CommitSignup(p) ==
  LET j == job[p] IN
  /\ j.kind = "commit"
  /\ users' = [users EXCEPT ![j.user] =
                 [email |-> j.email, org |-> invites[j.invite].org,
                  role |-> invites[j.invite].role, via |-> j.invite]]
  /\ invites' = [invites EXCEPT ![j.invite].uses = @ + j.bump]
  /\ writer' = NoProc
  /\ Goto(p, [kind |-> "answer"])
  /\ UNCHANGED <<orgs, now, requests>>

-----------------------------------------------------------------------------
(* POST /organizations, up to the transaction. *)
CreateOrg(p, o, u, s, e) ==
  /\ Begin(p)
  /\ NewOrg(o) /\ NewUser(u)
  /\ Goto(p, [kind |-> "org", org |-> o, user |-> u, slug |-> s, email |-> e])
  /\ UNCHANGED <<orgs, users, invites, writer, now>>

(* Variant: the organization inserted outside the transaction. *)
InsertOrgAtOnce(p) ==
  LET j == job[p] IN
  /\ j.kind = "org" /\ writer = NoProc
  /\ IF SlugTaken(j.slug)
       THEN Goto(p, Idle) /\ UNCHANGED <<orgs, writer>>
       ELSE /\ orgs' = [orgs EXCEPT ![j.org] = [slug |-> j.slug]]
            /\ writer' = p /\ Goto(p, [j EXCEPT !.kind = "owner"])
  /\ UNCHANGED <<users, invites, now, requests>>

(* orgRepo.CreateTx: the lock, then the UNIQUE slug and domain. *)
InsertOrg(p) ==
  LET j == job[p] IN
  /\ j.kind = "org" /\ writer = NoProc
  /\ IF SlugTaken(j.slug)
       THEN writer' = writer /\ Goto(p, Idle)
       ELSE writer' = p /\ Goto(p, [j EXCEPT !.kind = "owner"])
  /\ UNCHANGED <<orgs, users, invites, now, requests>>

(* userRepo.CreateTx: on a taken email the deferred Rollback undoes both. *)
InsertOwner(p) ==
  LET j == job[p] IN
  /\ j.kind = "owner"
  /\ IF EmailTaken(j.email)
       THEN writer' = NoProc /\ Goto(p, Idle)
       ELSE writer' = writer /\ Goto(p, [j EXCEPT !.kind = "found"])
  /\ UNCHANGED <<orgs, users, invites, now, requests>>

CommitOrg(p) ==
  LET j == job[p] IN
  /\ j.kind = "found"
  /\ orgs' = [orgs EXCEPT ![j.org] = [slug |-> j.slug]]
  /\ users' = [users EXCEPT ![j.user] = [email |-> j.email, org |-> j.org,
                                         role |-> "owner", via |-> NoInvite]]
  /\ writer' = NoProc
  /\ Goto(p, [kind |-> "answer"])
  /\ UNCHANGED <<invites, now, requests>>

(* POST /invites by an admin or owner: one INSERT.  max_uses, the role and the
   lifetime are stored as they come. *)
CreateInvite(p, i, u, r, q, t) ==
  /\ Begin(p)
  /\ invites[i] = NoRow
  /\ users[u] # NoRow /\ users[u].role \in {"owner", "admin"}
  /\ writer = NoProc
  /\ invites' = [invites EXCEPT ![i] =
                   [org |-> users[u].org, role |-> r, maxUses |-> q,
                    uses |-> 0, expires |-> now + t]]
  /\ UNCHANGED <<orgs, users, writer, job, now>>

-----------------------------------------------------------------------------
(* The tokens are made and the answer goes out, or it fails: the row is
   committed either way. *)
Answer(p) ==
  /\ job[p].kind = "answer"
  /\ Goto(p, Idle)
  /\ UNCHANGED <<orgs, users, invites, writer, now, requests>>

(* The lock is not free within the busy timeout: SQLITE_BUSY. *)
Busy(p) ==
  /\ job[p].kind \in {"join", "org"} /\ writer # NoProc
  /\ Goto(p, Idle)
  /\ UNCHANGED <<orgs, users, invites, writer, now, requests>>

(* Variant: no deferred Rollback. *)
FailWithoutRollback(p) ==
  /\ job[p] # Idle
  /\ Goto(p, Idle)
  /\ UNCHANGED <<orgs, users, invites, writer, now, requests>>

(* A statement, bcrypt or the commit fails: the deferred Rollback drops what
   the transaction wrote and releases the lock. *)
Fail(p) ==
  /\ job[p] # Idle
  /\ Goto(p, Idle)
  /\ writer' = IF writer = p THEN NoProc ELSE writer
  /\ UNCHANGED <<orgs, users, invites, now, requests>>

(* The process dies; the journal rolls an open transaction back. *)
Crash ==
  /\ job' = [p \in Procs |-> Idle]
  /\ writer' = NoProc
  /\ UNCHANGED <<orgs, users, invites, now, requests>>

Tick ==
  /\ now < MaxNow
  /\ now' = now + 1
  /\ UNCHANGED <<orgs, users, invites, writer, job, requests>>

Proceed(p) ==
  \/ FindUser(p) \/ InsertUser(p) \/ BumpInvite(p) \/ CommitSignup(p)
  \/ InsertOrg(p) \/ InsertOwner(p) \/ CommitOrg(p)
  \/ Answer(p) \/ Busy(p)

Issue(p) ==
  \/ \E i \in InviteIds, e \in Emails, u \in UserIds : Signup(p, i, e, u)
  \/ \E o \in OrgIds, u \in UserIds, s \in Slugs, e \in Emails :
       CreateOrg(p, o, u, s, e)
  \/ \E i \in InviteIds, u \in UserIds, r \in Roles, q \in Quotas, t \in Lifetimes :
       CreateInvite(p, i, u, r, q, t)

Next ==
  \/ \E p \in Procs : Issue(p) \/ Proceed(p) \/ Fail(p)
  \/ Crash \/ Tick

Safety == Init /\ [][Next]_vars

(* A goroutine that can run is scheduled; one that waits for the lock gets it
   or the busy timeout. *)
Spec == Safety /\ \A p \in Procs : WF_vars(Proceed(p))

-----------------------------------------------------------------------------
Via(i) == {u \in UserIds : users[u] # NoRow /\ users[u].via = i}

(* current_uses counts exactly the users that joined by the invite, whatever
   fails, crashes or interleaves: user and increment commit together. *)
UsesCountUsers ==
  \A i \in InviteIds : invites[i] # NoRow =>
    invites[i].uses = Cardinality(Via(i))

(* The signups that have passed the check of the invite and not committed. *)
PastCheck(i) ==
  {p \in Procs : job[p].kind \in SignupKinds /\ job[p].invite = i}

(* The check of max_uses and the increment are not one step, so max_uses can
   be exceeded; by no more than the number of concurrent signups, less one. *)
BoundedOvershoot ==
  \A i \in InviteIds : invites[i] # NoRow =>
    \/ invites[i].uses + Cardinality(PastCheck(i)) <= invites[i].maxUses
                                                       + Cardinality(Procs) - 1
    \/ invites[i].uses = 0 /\ PastCheck(i) = {}

(* max_uses bounds the users an invite admits. *)
MaxUsesRespected ==
  \A i \in InviteIds : invites[i] # NoRow /\ invites[i].maxUses > 0 =>
    invites[i].uses <= invites[i].maxUses

(* Neither two signups nor a signup and an organization's owner end up with
   the same address, nor two organizations with the same slug. *)
UniqueRows ==
  /\ \A u, w \in UserIds :
       (users[u] # NoRow /\ users[w] # NoRow /\ users[u].email = users[w].email)
         => u = w
  /\ \A o, q \in OrgIds :
       (orgs[o] # NoRow /\ orgs[q] # NoRow /\ orgs[o].slug = orgs[q].slug)
         => o = q

(* No organization is ever seen without its owner, and no user without the
   organization it belongs to. *)
OrgsAreOwned ==
  /\ \A o \in OrgIds : orgs[o] # NoRow =>
       \E u \in UserIds : /\ users[u] # NoRow /\ users[u].org = o
                          /\ users[u].role = "owner"
  /\ \A u \in UserIds : users[u] # NoRow => orgs[users[u].org] # NoRow

Members == INSTANCE Membership WITH
  Slack <- Cardinality(Procs) - 1,
  Expiries <- {n + t : n \in 0 .. MaxNow, t \in Lifetimes}

(* The requests, many statements each, that race, fail and die half-way are, by
   the rows they commit, the atomic steps of Membership. *)
ImplementsMembership == Members!Spec

(* A transaction never keeps the write lock for good, whichever of its steps
   fails, so that no request can stop every later one from writing. *)
LockReleased == writer # NoProc ~> writer = NoProc
=============================================================================
