--------------------------- MODULE AccountsProofs ---------------------------
(* What Accounts promises for any organizations, users and invites and any number
   of requests at a time.  The requests that race are kept apart by three things:
   the write lock, the UNIQUE columns checked under it, and the fresh UUIDs. *)
EXTENDS Accounts, FiniteSetTheorems, TLAPS

-----------------------------------------------------------------------------
(* The inductive invariant. *)

OrgKinds == {"org", "owner", "found"}
InTransaction == {"bump", "commit", "owner", "found"}
HasUser(j) == j.kind \in SignupKinds \cup OrgKinds
HasOrg(j)  == j.kind \in OrgKinds

(* An open transaction has the write lock. *)
Held == \A p \in Procs : job[p].kind \in InTransaction => writer = p

(* The UUIDs drawn are no row's and no other request's. *)
Drawn ==
  /\ \A p \in Procs : HasUser(job[p]) => users[job[p].user] = NoRow
  /\ \A p \in Procs : HasOrg(job[p]) => orgs[job[p].org] = NoRow
  /\ \A p, q \in Procs :
       (HasUser(job[p]) /\ HasUser(job[q]) /\ job[p].user = job[q].user) => p = q
  /\ \A p, q \in Procs :
       (HasOrg(job[p]) /\ HasOrg(job[q]) /\ job[p].org = job[q].org) => p = q

(* What a request at j has checked still holds: the UNIQUE columns, under the lock,
   and that the invite is there, for good, and is not one that admits nobody. *)
JobChecked(j) ==
  /\ j.kind \in {"bump", "commit", "found"} => ~EmailTaken(j.email)
  /\ j.kind \in {"owner", "found"} => ~SlugTaken(j.slug)
  /\ j.kind \in SignupKinds =>
       /\ invites[j.invite] # NoRow /\ invites[j.invite].maxUses > 0
       /\ j.bump = IF j.kind = "commit" THEN 1 ELSE 0

Checked == \A p \in Procs : JobChecked(job[p])

(* Foreign keys. *)
Rooted ==
  /\ \A i \in InviteIds : invites[i] # NoRow => orgs[invites[i].org] # NoRow
  /\ \A u \in UserIds : (users[u] # NoRow /\ users[u].via \in InviteIds) =>
       invites[users[u].via] # NoRow

Rows == UniqueRows /\ OrgsAreOwned /\ Rooted /\ UsesCountUsers
Jobs == Held /\ Drawn /\ Checked /\ BoundedOvershoot

IInv == TypeOK /\ Rows /\ Jobs

-----------------------------------------------------------------------------
(* The fields of a request by where it is. *)
LEMMA JobKinds ==
  ASSUME NEW j \in Job
  PROVE  /\ j.kind \in {"idle", "answer"} \cup SignupKinds \cup OrgKinds
         /\ j.kind \in SignupKinds =>
              /\ j \in SignupJob /\ j.invite \in InviteIds /\ j.email \in Emails
              /\ j.user \in UserIds /\ j.bump \in {0, 1}
         /\ j.kind \in OrgKinds =>
              /\ j \in OrgJob /\ j.org \in OrgIds /\ j.user \in UserIds
              /\ j.slug \in Slugs /\ j.email \in Emails
         /\ HasUser(j) => j.user \in UserIds
         /\ HasOrg(j) => j.org \in OrgIds
BY DEF Job, Idle, SignupJob, SignupKinds, OrgJob, OrgKinds, AnswerJob, HasUser, HasOrg

LEMMA JobFields ==
  ASSUME NEW j \in Job
  PROVE  /\ HasUser(j) => "user" \in DOMAIN j
         /\ HasOrg(j) => "org" \in DOMAIN j
BY DEF Job, Idle, SignupJob, SignupKinds, OrgJob, OrgKinds, AnswerJob, HasUser, HasOrg

LEMMA IdleJobs ==
  /\ Idle \in Job /\ [kind |-> "answer"] \in Job
  /\ ~HasUser(Idle) /\ ~HasOrg(Idle) /\ JobChecked(Idle)
  /\ Idle.kind \notin InTransaction \cup SignupKinds
BY DEF Job, Idle, AnswerJob, HasUser, HasOrg, JobChecked, SignupKinds, OrgKinds, InTransaction

LEMMA NewOnes ==
  ASSUME TypeOK
  PROVE  /\ \A u \in UserIds : NewUser(u) =>
              users[u] = NoRow /\ \A p \in Procs : HasUser(job[p]) => job[p].user # u
         /\ \A o \in OrgIds : NewOrg(o) =>
              orgs[o] = NoRow /\ \A p \in Procs : HasOrg(job[p]) => job[p].org # o
BY JobFields DEF TypeOK, NewUser, NewOrg

(* The signups past their check, and their number. *)
LEMMA Counts ==
  ASSUME NEW i
  PROVE  /\ IsFiniteSet(PastCheck(i)) /\ Cardinality(PastCheck(i)) \in Nat
         /\ Cardinality(PastCheck(i)) <= Cardinality(Procs) /\ Cardinality(Procs) \in Nat
         /\ IsFiniteSet(Via(i)) /\ Cardinality(Via(i)) \in Nat
<1>1. IsFiniteSet(Procs) /\ IsFiniteSet(UserIds)
  BY AccountConstants
<1>2. PastCheck(i) \subseteq Procs /\ Via(i) \subseteq UserIds
  BY DEF PastCheck, Via
<1> QED BY <1>1, <1>2, FS_Subset, FS_CardinalityType

LEMMA InviteRows ==
  ASSUME TypeOK, NEW i \in InviteIds, invites[i] # NoRow
  PROVE  /\ invites[i] \in Invite /\ invites[i].uses \in Nat /\ invites[i].maxUses \in Int
         /\ invites[i].org \in OrgIds /\ invites[i].role \in Roles
BY AccountConstants DEF TypeOK, Invite

LEMMA Moved ==
  ASSUME TypeOK, NEW p \in Procs, NEW c \in Job, Goto(p, c)
  PROVE  /\ job' \in [Procs -> Job] /\ job'[p] = c
         /\ \A q \in Procs : q # p => job'[q] = job[q]
BY DEF TypeOK, Goto

-----------------------------------------------------------------------------
(* Steps that write no row. *)

LEMMA RowsKept ==
  ASSUME Rows, UNCHANGED <<orgs, users, invites>>
  PROVE  Rows'
<1>1. \A i : Via(i)' = Via(i)
  BY DEF Via
<1> QED BY <1>1 DEF Rows, UniqueRows, OrgsAreOwned, Rooted, UsesCountUsers

(* One request more, or fewer, is past the check of i. *)
LEMMA OvershootKept ==
  ASSUME IInv, NEW i \in InviteIds, invites'[i] = invites[i], invites[i] # NoRow,
         \/ PastCheck(i)' \subseteq PastCheck(i)
         \/ invites[i].uses < invites[i].maxUses
  PROVE  \/ invites'[i].uses + Cardinality(PastCheck(i)') <= invites'[i].maxUses
                                                             + Cardinality(Procs) - 1
         \/ invites'[i].uses = 0 /\ PastCheck(i)' = {}
<1>1. invites[i].uses \in Nat /\ invites[i].maxUses \in Int
  BY InviteRows DEF IInv
<1>2. PICK c \in Nat, d \in Nat, n \in Nat :
        /\ c = Cardinality(PastCheck(i)) /\ d = Cardinality(PastCheck(i)')
        /\ n = Cardinality(Procs) /\ d <= n
        /\ PastCheck(i)' \subseteq PastCheck(i) => d <= c
  <2>1. IsFiniteSet(Procs) /\ PastCheck(i) \subseteq Procs /\ PastCheck(i)' \subseteq Procs
    BY AccountConstants DEF PastCheck
  <2> QED BY <2>1, FS_Subset, FS_CardinalityType
<1>3. \/ invites[i].uses + c <= invites[i].maxUses + n - 1
      \/ invites[i].uses = 0 /\ PastCheck(i) = {}
  BY <1>2 DEF IInv, Jobs, BoundedOvershoot
<1>4. CASE invites[i].uses < invites[i].maxUses
  BY <1>1, <1>2, <1>4
<1>5. CASE PastCheck(i)' \subseteq PastCheck(i)
  BY <1>1, <1>2, <1>3, <1>5
<1> QED BY <1>4, <1>5

(* A request moves from one place to the next. *)
LEMMA JobStep ==
  ASSUME IInv, NEW p \in Procs, NEW c \in Job, Goto(p, c),
         UNCHANGED <<orgs, users, invites, now>>, requests' \in 0 .. MaxRequests,
         writer' \in {writer, p, NoProc},
         writer' # writer => writer \in {p, NoProc},
         c.kind \in InTransaction => writer' = p,
         HasUser(c) => (HasUser(job[p]) /\ c.user = job[p].user) \/ NewUser(c.user),
         HasOrg(c) => (HasOrg(job[p]) /\ c.org = job[p].org) \/ NewOrg(c.org),
         JobChecked(c),
         c.kind \in SignupKinds =>
           \/ job[p].kind \in SignupKinds /\ job[p].invite = c.invite
           \/ Usable(c.invite)
  PROVE  IInv'
<1>1. /\ TypeOK /\ job' \in [Procs -> Job] /\ job'[p] = c
      /\ \A q \in Procs : q # p => job'[q] = job[q]
  BY Moved DEF IInv
<1>2. TypeOK'
  BY <1>1 DEF TypeOK
<1>3. Rows'
  BY RowsKept DEF IInv
<1>4. Held'
  <2> SUFFICES ASSUME NEW q \in Procs, job'[q].kind \in InTransaction
               PROVE  writer' = q
    BY DEF Held
  <2>1. CASE q = p
    BY <1>1, <2>1
  <2>2. CASE q # p
    <3>1. writer = q
      BY <1>1, <2>2 DEF IInv, Jobs, Held
    <3> QED BY <2>2, <3>1, AccountConstants
  <2> QED BY <2>1, <2>2
<1>5. Drawn'
  <2>1. \A q \in Procs : HasUser(job'[q]) => users[job'[q].user] = NoRow
    BY <1>1, JobKinds, NewOnes DEF IInv, Jobs, Drawn
  <2>2. \A q \in Procs : HasOrg(job'[q]) => orgs[job'[q].org] = NoRow
    BY <1>1, JobKinds, NewOnes DEF IInv, Jobs, Drawn
  <2>3. ASSUME NEW q \in Procs, NEW r \in Procs, HasUser(job'[q]), HasUser(job'[r]),
               job'[q].user = job'[r].user
        PROVE  q = r
    BY <1>1, <2>3, JobKinds, NewOnes DEF IInv, Jobs, Drawn
  <2>4. ASSUME NEW q \in Procs, NEW r \in Procs, HasOrg(job'[q]), HasOrg(job'[r]),
               job'[q].org = job'[r].org
        PROVE  q = r
    BY <1>1, <2>4, JobKinds, NewOnes DEF IInv, Jobs, Drawn
  <2> QED BY <2>1, <2>2, <2>3, <2>4 DEF Drawn, HasUser, HasOrg
<1>6. Checked'
  <2>1. \A q \in Procs : JobChecked(job'[q])
    BY <1>1 DEF IInv, Jobs, Checked
  <2>2. \A q \in Procs : JobChecked(job[q])' <=> JobChecked(job'[q])
    BY DEF JobChecked, EmailTaken, SlugTaken
  <2> QED BY <2>1, <2>2 DEF Checked
<1>7. BoundedOvershoot'
  <2> SUFFICES ASSUME NEW i \in InviteIds, invites'[i] # NoRow
               PROVE  \/ invites'[i].uses + Cardinality(PastCheck(i)')
                             <= invites'[i].maxUses + Cardinality(Procs) - 1
                      \/ invites'[i].uses = 0 /\ PastCheck(i)' = {}
    BY DEF BoundedOvershoot
  <2>1. \/ PastCheck(i)' \subseteq PastCheck(i)
        \/ invites[i].uses < invites[i].maxUses
    BY <1>1 DEF PastCheck, Usable
  <2> QED BY <2>1, OvershootKept
<1> QED BY <1>2, <1>3, <1>4, <1>5, <1>6, <1>7 DEF IInv, Jobs

LEMMA SignupAt ==
  ASSUME NEW j \in SignupJob, NEW k \in SignupKinds
  PROVE  \E c \in Job :
           /\ c = [j EXCEPT !.kind = k] /\ c.kind = k /\ c.bump = j.bump
           /\ c.invite = j.invite /\ c.user = j.user /\ c.email = j.email
           /\ HasUser(c) /\ HasUser(j) /\ ~HasOrg(c)
<1> DEFINE c == [kind |-> k, invite |-> j.invite, email |-> j.email, user |-> j.user,
                 bump |-> j.bump]
<1>1. c \in Job
  BY DEF SignupJob, Job
<1>2. c = [j EXCEPT !.kind = k]
  BY DEF SignupJob
<1>3. HasUser(c) /\ HasUser(j) /\ ~HasOrg(c)
  BY DEF HasUser, HasOrg, SignupJob, SignupKinds, OrgKinds
<1> QED BY <1>1, <1>2, <1>3

LEMMA SignupBumped ==
  ASSUME NEW j \in SignupJob
  PROVE  \E c \in Job :
           /\ c = [j EXCEPT !.kind = "commit", !.bump = 1] /\ c.kind = "commit"
           /\ c.bump = 1 /\ c.invite = j.invite /\ c.user = j.user /\ c.email = j.email
           /\ HasUser(c) /\ HasUser(j) /\ ~HasOrg(c)
<1> DEFINE c == [kind |-> "commit", invite |-> j.invite, email |-> j.email,
                 user |-> j.user, bump |-> 1]
<1>1. c \in Job
  BY DEF SignupJob, Job, SignupKinds
<1>2. c = [j EXCEPT !.kind = "commit", !.bump = 1]
  <2> DEFINE d == [kind |-> "commit", invite |-> j.invite, email |-> j.email,
                   user |-> j.user, bump |-> j.bump]
  <2>1. d = [j EXCEPT !.kind = "commit"]
    BY DEF SignupJob
  <2>2. c = [d EXCEPT !.bump = 1]
    OBVIOUS
  <2>3. [j EXCEPT !.kind = "commit", !.bump = 1]
          = [[j EXCEPT !.kind = "commit"] EXCEPT !.bump = 1]
    OBVIOUS
  <2> QED BY <2>1, <2>2, <2>3
<1>3. HasUser(c) /\ HasUser(j) /\ ~HasOrg(c)
  BY DEF HasUser, HasOrg, SignupJob, SignupKinds, OrgKinds
<1> QED BY <1>1, <1>2, <1>3

LEMMA OrgAt ==
  ASSUME NEW j \in OrgJob, NEW k \in OrgKinds
  PROVE  \E c \in Job :
           /\ c = [j EXCEPT !.kind = k] /\ c.kind = k /\ c.org = j.org
           /\ c.user = j.user /\ c.slug = j.slug /\ c.email = j.email
           /\ HasUser(c) /\ HasUser(j) /\ HasOrg(c) /\ HasOrg(j)
<1> DEFINE c == [kind |-> k, org |-> j.org, user |-> j.user, slug |-> j.slug,
                 email |-> j.email]
<1>1. c \in Job
  BY DEF OrgJob, Job, OrgKinds
<1>2. c = [j EXCEPT !.kind = k]
  BY DEF OrgJob
<1>3. HasUser(c) /\ HasUser(j) /\ HasOrg(c) /\ HasOrg(j)
  BY DEF HasUser, HasOrg, OrgJob, OrgKinds
<1> QED BY <1>1, <1>2, <1>3

LEMMA RequestCount ==
  ASSUME TypeOK, requests' = requests \/ (requests' = requests + 1 /\ requests < MaxRequests)
  PROVE  requests' \in 0 .. MaxRequests
BY AccountConstants DEF TypeOK

LEMMA SignupStep ==
  ASSUME IInv, NEW p \in Procs, NEW i \in InviteIds, NEW e \in Emails, NEW u \in UserIds,
         Signup(p, i, e, u)
  PROVE  IInv'
<1>1. PICK c \in Job :
        c = [kind |-> "find", invite |-> i, email |-> e, user |-> u, bump |-> 0]
  BY DEF Job, SignupJob, SignupKinds
<1>2. c.kind = "find" /\ c.invite = i /\ c.user = u /\ c.bump = 0
  BY <1>1
<1>3. /\ Goto(p, c) /\ NewUser(u) /\ Usable(i)
      /\ UNCHANGED <<orgs, users, invites, writer, now>>
      /\ requests' = requests + 1 /\ requests < MaxRequests
  BY <1>1 DEF Signup, Begin
<1>4. JobChecked(c)
  <2>1. invites[i].uses \in Nat /\ invites[i].maxUses \in Int
    BY <1>3, InviteRows DEF IInv, Usable
  <2> QED BY <2>1, <1>2, <1>3 DEF JobChecked, Usable
<1>5. ~HasOrg(c) /\ c.kind \notin InTransaction
  BY <1>2 DEF HasOrg, OrgKinds, InTransaction
<1>6. requests' \in 0 .. MaxRequests
  BY <1>3, RequestCount DEF IInv
<1> QED BY <1>2, <1>3, <1>4, <1>5, <1>6, JobStep

LEMMA CreateOrgStep ==
  ASSUME IInv, NEW p \in Procs, NEW o \in OrgIds, NEW u \in UserIds, NEW s \in Slugs,
         NEW e \in Emails, CreateOrg(p, o, u, s, e)
  PROVE  IInv'
<1>1. PICK c \in Job :
        c = [kind |-> "org", org |-> o, user |-> u, slug |-> s, email |-> e]
  BY DEF Job, OrgJob
<1>2. c.kind = "org" /\ c.org = o /\ c.user = u
  BY <1>1
<1>3. /\ Goto(p, c) /\ NewUser(u) /\ NewOrg(o)
      /\ UNCHANGED <<orgs, users, invites, writer, now>>
      /\ requests' = requests + 1 /\ requests < MaxRequests
  BY <1>1 DEF CreateOrg, Begin
<1>4. JobChecked(c)
  BY <1>2 DEF JobChecked, SignupKinds
<1>5. c.kind \notin InTransaction \cup SignupKinds
  BY <1>2 DEF InTransaction, SignupKinds
<1>6. requests' \in 0 .. MaxRequests
  BY <1>3, RequestCount DEF IInv
<1> QED BY <1>2, <1>3, <1>4, <1>5, <1>6, JobStep

(* A request ends without a row. *)
LEMMA EndStep ==
  ASSUME IInv, NEW p \in Procs, NEW c \in {Idle, [kind |-> "answer"]}, Goto(p, c),
         UNCHANGED <<orgs, users, invites, now, requests>>,
         writer' = writer \/ (writer = p /\ writer' = NoProc)
  PROVE  IInv'
<1>1. c \in Job /\ ~HasUser(c) /\ ~HasOrg(c) /\ JobChecked(c)
      /\ c.kind \notin InTransaction \cup SignupKinds
  BY DEF Job, Idle, AnswerJob, HasUser, HasOrg, JobChecked, SignupKinds, OrgKinds, InTransaction
<1>2. requests' \in 0 .. MaxRequests
  BY RequestCount DEF IInv
<1> QED BY <1>1, <1>2, JobStep

LEMMA SignupJobStep ==
  ASSUME IInv, NEW p \in Procs, FindUser(p) \/ InsertUser(p) \/ BumpInvite(p)
  PROVE  IInv'
<1>1. PICK j \in SignupJob : j = job[p] /\ j.kind \in SignupKinds
  BY JobKinds DEF IInv, TypeOK, FindUser, InsertUser, BumpInvite, SignupKinds
<1>2. JobChecked(j)
  BY <1>1 DEF IInv, Jobs, Checked
<1>3. requests' \in 0 .. MaxRequests /\ UNCHANGED <<orgs, users, invites, now, requests>>
  BY RequestCount DEF IInv, FindUser, InsertUser, BumpInvite
<1>4. CASE Goto(p, Idle) /\ writer' = writer
  BY <1>3, <1>4, EndStep
<1>5. CASE j.kind = "find" /\ Goto(p, [j EXCEPT !.kind = "join"]) /\ writer' = writer
  <2>1. "join" \in SignupKinds /\ "join" \notin InTransaction /\ j.bump = 0
    BY <1>1, <1>2, <1>5 DEF SignupKinds, InTransaction, JobChecked
  <2>2. PICK c \in Job :
          /\ c = [j EXCEPT !.kind = "join"] /\ c.kind = "join" /\ c.bump = 0
          /\ c.invite = j.invite /\ c.user = j.user
          /\ HasUser(c) /\ HasUser(j) /\ ~HasOrg(c)
    BY <2>1, SignupAt
  <2>3. JobChecked(c)
    BY <1>1, <1>2, <2>2 DEF JobChecked
  <2> QED BY <1>1, <1>3, <1>5, <2>1, <2>2, <2>3, JobStep
<1>6. CASE /\ j.kind = "join" /\ writer = NoProc /\ writer' = p /\ ~EmailTaken(j.email)
           /\ Goto(p, [j EXCEPT !.kind = "bump"])
  <2>1. "bump" \in SignupKinds /\ j.bump = 0
    BY <1>1, <1>2, <1>6 DEF SignupKinds, JobChecked
  <2>2. PICK c \in Job :
          /\ c = [j EXCEPT !.kind = "bump"] /\ c.kind = "bump" /\ c.bump = 0
          /\ c.invite = j.invite /\ c.user = j.user /\ c.email = j.email
          /\ HasUser(c) /\ HasUser(j) /\ ~HasOrg(c)
    BY <2>1, SignupAt
  <2>3. JobChecked(c)
    BY <1>1, <1>2, <1>6, <2>2 DEF JobChecked
  <2> QED BY <1>1, <1>3, <1>6, <2>2, <2>3, JobStep
<1>7. CASE /\ j.kind = "bump" /\ writer' = writer
           /\ Goto(p, [j EXCEPT !.kind = "commit", !.bump = 1])
  <2>1. PICK c \in Job :
          /\ c = [j EXCEPT !.kind = "commit", !.bump = 1] /\ c.kind = "commit" /\ c.bump = 1
          /\ c.invite = j.invite /\ c.user = j.user /\ c.email = j.email
          /\ HasUser(c) /\ HasUser(j) /\ ~HasOrg(c)
    BY SignupBumped
  <2>2. JobChecked(c)
    BY <1>1, <1>2, <1>7, <2>1 DEF JobChecked
  <2>3. writer = p
    BY <1>1, <1>7 DEF IInv, Jobs, Held, InTransaction
  <2> QED BY <1>1, <1>3, <1>7, <2>1, <2>2, <2>3, JobStep
<1> QED BY <1>1, <1>4, <1>5, <1>6, <1>7 DEF FindUser, InsertUser, BumpInvite

LEMMA OrgJobStep ==
  ASSUME IInv, NEW p \in Procs, InsertOrg(p) \/ InsertOwner(p)
  PROVE  IInv'
<1>1. PICK j \in OrgJob : j = job[p] /\ j.kind \in OrgKinds
  BY JobKinds DEF IInv, TypeOK, InsertOrg, InsertOwner, OrgKinds
<1>2. JobChecked(j)
  BY <1>1 DEF IInv, Jobs, Checked
<1>3. requests' \in 0 .. MaxRequests /\ UNCHANGED <<orgs, users, invites, now, requests>>
  BY RequestCount DEF IInv, InsertOrg, InsertOwner
<1>4. j.kind = "owner" => writer = p
  BY <1>1 DEF IInv, Jobs, Held, InTransaction
<1>5. CASE Goto(p, Idle) /\ (writer' = writer \/ (writer = p /\ writer' = NoProc))
  BY <1>3, <1>5, EndStep
<1>6. CASE /\ j.kind = "org" /\ writer = NoProc /\ writer' = p /\ ~SlugTaken(j.slug)
           /\ Goto(p, [j EXCEPT !.kind = "owner"])
  <2>1. "owner" \in OrgKinds /\ "owner" \notin SignupKinds
    BY DEF OrgKinds, SignupKinds
  <2>2. PICK c \in Job :
          /\ c = [j EXCEPT !.kind = "owner"] /\ c.kind = "owner" /\ c.org = j.org
          /\ c.user = j.user /\ c.slug = j.slug
          /\ HasUser(c) /\ HasUser(j) /\ HasOrg(c) /\ HasOrg(j)
    BY <2>1, OrgAt
  <2>3. JobChecked(c)
    BY <1>6, <2>1, <2>2 DEF JobChecked
  <2> QED BY <1>1, <1>3, <1>6, <2>1, <2>2, <2>3, JobStep
<1>7. CASE /\ j.kind = "owner" /\ writer' = writer /\ ~EmailTaken(j.email)
           /\ Goto(p, [j EXCEPT !.kind = "found"])
  <2>1. "found" \in OrgKinds /\ "found" \notin SignupKinds
    BY DEF OrgKinds, SignupKinds
  <2>2. PICK c \in Job :
          /\ c = [j EXCEPT !.kind = "found"] /\ c.kind = "found" /\ c.org = j.org
          /\ c.user = j.user /\ c.slug = j.slug /\ c.email = j.email
          /\ HasUser(c) /\ HasUser(j) /\ HasOrg(c) /\ HasOrg(j)
    BY <2>1, OrgAt
  <2>3. JobChecked(c)
    BY <1>2, <1>7, <2>1, <2>2 DEF JobChecked
  <2> QED BY <1>1, <1>3, <1>4, <1>7, <2>1, <2>2, <2>3, JobStep
<1> QED BY <1>1, <1>4, <1>5, <1>6, <1>7 DEF InsertOrg, InsertOwner

LEMMA EndsStep ==
  ASSUME IInv, NEW p \in Procs, Answer(p) \/ Busy(p) \/ Fail(p)
  PROVE  IInv'
BY EndStep DEF Answer, Busy, Fail

LEMMA CrashStep ==
  ASSUME IInv, Crash
  PROVE  IInv'
<1>1. \A q \in Procs : job'[q] = Idle
  BY DEF Crash
<1>2. TypeOK'
  BY IdleJobs DEF IInv, TypeOK, Crash
<1>3. Rows'
  BY RowsKept DEF IInv, Crash
<1>4. Held' /\ Drawn'
  BY <1>1, IdleJobs DEF Held, Drawn
<1>5. Checked'
  BY <1>1 DEF Checked, JobChecked, Idle, SignupKinds
<1>6. BoundedOvershoot'
  <2> SUFFICES ASSUME NEW i \in InviteIds, invites'[i] # NoRow
               PROVE  \/ invites'[i].uses + Cardinality(PastCheck(i)')
                             <= invites'[i].maxUses + Cardinality(Procs) - 1
                      \/ invites'[i].uses = 0 /\ PastCheck(i)' = {}
    BY DEF BoundedOvershoot
  <2>1. PastCheck(i)' \subseteq PastCheck(i)
    BY <1>1, IdleJobs DEF PastCheck
  <2> QED BY <2>1, OvershootKept DEF Crash
<1> QED BY <1>2, <1>3, <1>4, <1>5, <1>6 DEF IInv, Jobs

LEMMA QuietStep ==
  ASSUME IInv, UNCHANGED <<orgs, users, invites, writer, job, requests>>,
         now' \in 0 .. MaxNow
  PROVE  IInv'
<1>1. TypeOK'
  BY DEF IInv, TypeOK
<1>2. Rows'
  BY RowsKept DEF IInv
<1>3. Held' /\ Drawn'
  BY DEF IInv, Jobs, Held, Drawn
<1>4. Checked'
  BY DEF IInv, Jobs, Checked, JobChecked, EmailTaken, SlugTaken
<1>5. \A i : PastCheck(i)' = PastCheck(i)
  BY DEF PastCheck
<1>6. BoundedOvershoot'
  BY <1>5 DEF IInv, Jobs, BoundedOvershoot
<1> QED BY <1>1, <1>2, <1>3, <1>4, <1>6 DEF IInv, Jobs

-----------------------------------------------------------------------------
(* The steps that write rows. *)

(* While p has the write lock no other request is in a transaction, so what the
   others have checked is not about the rows p commits. *)
LEMMA OthersWait ==
  ASSUME IInv, NEW p \in Procs, job[p].kind \in InTransaction,
         NEW q \in Procs, q # p
  PROVE  job[q].kind \notin InTransaction
BY AccountConstants DEF IInv, Jobs, Held

LEMMA InviteBumped ==
  ASSUME NEW i \in Invite, NEW n \in {i.uses + 1}
  PROVE  \E r \in Invite :
           /\ r = [i EXCEPT !.uses = n] /\ r.uses = i.uses + 1
           /\ r.maxUses = i.maxUses /\ r.org = i.org /\ r.role = i.role
<1> DEFINE r == [org |-> i.org, role |-> i.role, maxUses |-> i.maxUses,
                 uses |-> n, expires |-> i.expires]
<1>1. i.uses \in Nat
  BY DEF Invite
<1>2. r \in Invite
  BY <1>1 DEF Invite
<1>3. r = [i EXCEPT !.uses = n]
  BY DEF Invite
<1> QED BY <1>2, <1>3

LEMMA CommitSignupStep ==
  ASSUME IInv, NEW p \in Procs, CommitSignup(p)
  PROVE  IInv'
<1>1. PICK j \in SignupJob :
        /\ j = job[p] /\ j.kind = "commit"
        /\ j.invite \in InviteIds /\ j.user \in UserIds /\ j.email \in Emails
  BY JobKinds DEF IInv, TypeOK, CommitSignup, SignupKinds
<1>2. /\ invites[j.invite] # NoRow /\ j.bump = 1 /\ ~EmailTaken(j.email)
      /\ users[j.user] = NoRow
  BY <1>1 DEF IInv, Jobs, Checked, JobChecked, Drawn, HasUser, SignupKinds
<1>3. PICK i \in Invite : i = invites[j.invite]
  BY <1>1, <1>2, InviteRows DEF IInv
<1>4. /\ i.uses \in Nat /\ i.maxUses \in Int /\ i.org \in OrgIds /\ i.role \in Roles
  BY <1>3, AccountConstants DEF Invite
<1>5. PICK n : n = i.uses + 1
  OBVIOUS
<1>6. PICK r \in Invite :
        /\ r = [i EXCEPT !.uses = n] /\ r.uses = i.uses + 1
        /\ r.maxUses = i.maxUses /\ r.org = i.org /\ r.role = i.role
  BY <1>5, InviteBumped
<1>7. PICK v \in User :
        v = [email |-> j.email, org |-> i.org, role |-> i.role, via |-> j.invite]
  BY <1>1, <1>4 DEF User
<1>8. v.email = j.email /\ v.org = i.org /\ v.via = j.invite
  BY <1>7
<1>9. v # NoRow /\ r # NoRow
  BY NoRowIsNoRow
<1>10. /\ users' = [users EXCEPT ![j.user] = v]
       /\ invites' = [invites EXCEPT ![j.invite].uses = @ + j.bump]
       /\ writer' = NoProc /\ Goto(p, [kind |-> "answer"])
       /\ UNCHANGED <<orgs, now, requests>>
  BY <1>1, <1>3, <1>7 DEF CommitSignup
<1>11. invites' = [invites EXCEPT ![j.invite] = r]
  BY <1>1, <1>2, <1>3, <1>5, <1>6, <1>10 DEF IInv, TypeOK
<1>12. /\ invites'[j.invite] = r
       /\ \A k \in InviteIds : k # j.invite => invites'[k] = invites[k]
       /\ users'[j.user] = v
       /\ \A u \in UserIds : u # j.user => users'[u] = users[u]
  BY <1>1, <1>10, <1>11 DEF IInv, TypeOK
<1>13. /\ job' \in [Procs -> Job] /\ job'[p] = [kind |-> "answer"]
       /\ \A q \in Procs : q # p => job'[q] = job[q]
  BY <1>10, IdleJobs, Moved DEF IInv
<1>14. job'[p].kind = "answer"
  BY <1>13
<1>15. TypeOK'
  BY <1>1, <1>10, <1>11, <1>13 DEF IInv, TypeOK
<1>16. UniqueRows'
  BY <1>2, <1>8, <1>10, <1>12 DEF IInv, Rows, UniqueRows, EmailTaken
<1>17. OrgsAreOwned'
  <2>1. orgs[i.org] # NoRow
    BY <1>1, <1>2, <1>3 DEF IInv, Rows, Rooted
  <2>2. \A u \in UserIds : users'[u] # NoRow => orgs'[users'[u].org] # NoRow
    BY <2>1, <1>8, <1>10, <1>12 DEF IInv, Rows, OrgsAreOwned
  <2>3. \A u \in UserIds : users[u] # NoRow => users'[u] = users[u]
    BY <1>2, <1>12
  <2> QED BY <2>2, <2>3, <1>10 DEF IInv, Rows, OrgsAreOwned
<1>18. Rooted'
  <2>1. \A k \in InviteIds : invites'[k] # NoRow =>
          invites[k] # NoRow /\ invites'[k].org = invites[k].org
    BY <1>2, <1>3, <1>6, <1>12
  <2>2. \A k \in InviteIds : invites[k] # NoRow => invites'[k] # NoRow
    BY <1>9, <1>12
  <2>3. \A u \in UserIds : (users'[u] # NoRow /\ users'[u].via \in InviteIds) =>
          invites'[users'[u].via] # NoRow
    BY <2>2, <1>2, <1>8, <1>12 DEF IInv, Rows, Rooted
  <2> QED BY <2>1, <2>3, <1>10 DEF IInv, Rows, Rooted
<1>19. UsesCountUsers'
  <2> SUFFICES ASSUME NEW k \in InviteIds, invites'[k] # NoRow
               PROVE  invites'[k].uses = Cardinality(Via(k)')
    BY DEF UsesCountUsers
  <2>1. CASE k # j.invite
    <3>1. Via(k)' = Via(k)
      BY <2>1, <1>1, <1>2, <1>8, <1>12 DEF Via
    <3> QED BY <2>1, <3>1, <1>12 DEF IInv, Rows, UsesCountUsers
  <2>2. CASE k = j.invite
    <3>1. Via(k)' = Via(k) \cup {j.user} /\ j.user \notin Via(k)
      BY <2>2, <1>1, <1>2, <1>8, <1>9, <1>12 DEF Via
    <3>2. IsFiniteSet(Via(k))
      BY Counts
    <3>3. Cardinality(Via(k)') = Cardinality(Via(k)) + 1
      BY <3>1, <3>2, FS_AddElement
    <3>4. i.uses = Cardinality(Via(k))
      BY <2>2, <1>2, <1>3 DEF IInv, Rows, UsesCountUsers
    <3> QED BY <2>2, <3>3, <3>4, <1>6, <1>12
  <2> QED BY <2>1, <2>2
<1>20. Held'
  BY <1>1, <1>13, <1>14, OthersWait DEF Held, InTransaction
<1>21. Drawn'
  <2>1. ~HasUser(job'[p]) /\ ~HasOrg(job'[p])
    BY <1>13, IdleJobs DEF HasUser, HasOrg, SignupKinds, OrgKinds
  <2>2. HasUser(job[p])
    BY <1>1 DEF HasUser, SignupKinds
  <2>3. \A q \in Procs : q # p /\ HasUser(job[q]) =>
          job[q].user # j.user /\ job[q].user \in UserIds
    BY <2>2, <1>1, JobKinds DEF IInv, Jobs, Drawn, TypeOK
  <2>4. \A q \in Procs : HasUser(job'[q]) => users'[job'[q].user] = NoRow
    BY <2>1, <2>3, <1>12, <1>13 DEF IInv, Jobs, Drawn
  <2>5. \A q \in Procs : HasOrg(job'[q]) => orgs'[job'[q].org] = NoRow
    BY <2>1, <1>10, <1>13 DEF IInv, Jobs, Drawn
  <2> QED BY <2>1, <2>4, <2>5, <1>13 DEF IInv, Jobs, Drawn, HasUser, HasOrg
<1>22. Checked'
  <2> SUFFICES ASSUME NEW q \in Procs PROVE JobChecked(job[q])'
    BY DEF Checked
  <2>1. CASE q = p
    BY <2>1, <1>14 DEF JobChecked, SignupKinds
  <2>2. CASE q # p
    <3>1. job'[q] = job[q] /\ job[q].kind \notin InTransaction
      BY <2>2, <1>1, <1>13, OthersWait DEF InTransaction
    <3>2. job[q].kind \in SignupKinds =>
            /\ invites[job[q].invite] # NoRow /\ invites[job[q].invite].maxUses > 0
            /\ job[q].bump = 0 /\ job[q].invite \in InviteIds
      BY <3>1, JobKinds DEF IInv, Jobs, Checked, JobChecked, TypeOK, InTransaction
    <3>3. \A k \in InviteIds : (invites[k] # NoRow /\ invites[k].maxUses > 0) =>
            invites'[k] # NoRow /\ invites'[k].maxUses > 0
      BY <1>3, <1>6, <1>9, <1>12
    <3> QED BY <3>1, <3>2, <3>3 DEF JobChecked, InTransaction
  <2> QED BY <2>1, <2>2
<1>23. BoundedOvershoot'
  <2> SUFFICES ASSUME NEW k \in InviteIds, invites'[k] # NoRow
               PROVE  \/ invites'[k].uses + Cardinality(PastCheck(k)')
                             <= invites'[k].maxUses + Cardinality(Procs) - 1
                      \/ invites'[k].uses = 0 /\ PastCheck(k)' = {}
    BY DEF BoundedOvershoot
  <2>1. CASE k # j.invite
    <3>1. PastCheck(k)' \subseteq PastCheck(k)
      BY <1>13, <1>14 DEF PastCheck, SignupKinds
    <3> QED BY <2>1, <3>1, <1>12, OvershootKept
  <2>2. CASE k = j.invite
    <3>1. PastCheck(k)' = PastCheck(k) \ {p} /\ p \in PastCheck(k)
      BY <2>2, <1>1, <1>13, <1>14 DEF PastCheck, SignupKinds
    <3>2. /\ Cardinality(PastCheck(k)') = Cardinality(PastCheck(k)) - 1
          /\ Cardinality(PastCheck(k)) \in Nat /\ Cardinality(Procs) \in Nat
      BY <3>1, Counts, FS_RemoveElement
    <3>3. i.uses + Cardinality(PastCheck(k)) <= i.maxUses + Cardinality(Procs) - 1
      BY <2>2, <3>1, <1>2, <1>3 DEF IInv, Jobs, BoundedOvershoot
    <3> QED BY <2>2, <3>2, <3>3, <1>4, <1>6, <1>12
  <2> QED BY <2>1, <2>2
<1> QED BY <1>15, <1>16, <1>17, <1>18, <1>19, <1>20, <1>21, <1>22, <1>23
        DEF IInv, Rows, Jobs

LEMMA CommitOrgStep ==
  ASSUME IInv, NEW p \in Procs, CommitOrg(p)
  PROVE  IInv'
<1>1. PICK j \in OrgJob :
        /\ j = job[p] /\ j.kind = "found" /\ j.org \in OrgIds /\ j.user \in UserIds
        /\ j.slug \in Slugs /\ j.email \in Emails
  BY JobKinds DEF IInv, TypeOK, CommitOrg, OrgKinds
<1>2. /\ ~SlugTaken(j.slug) /\ ~EmailTaken(j.email)
      /\ orgs[j.org] = NoRow /\ users[j.user] = NoRow
  BY <1>1 DEF IInv, Jobs, Checked, JobChecked, Drawn, HasUser, HasOrg, OrgKinds
<1>3. PICK v \in User :
        v = [email |-> j.email, org |-> j.org, role |-> "owner", via |-> NoInvite]
  BY <1>1, AccountConstants DEF User
<1>4. PICK o \in Org : o = [slug |-> j.slug]
  BY <1>1 DEF Org
<1>5. /\ v.email = j.email /\ v.org = j.org /\ v.role = "owner" /\ v.via = NoInvite
      /\ o.slug = j.slug /\ v # NoRow /\ o # NoRow
  BY <1>3, <1>4, NoRowIsNoRow
<1>6. /\ orgs' = [orgs EXCEPT ![j.org] = o] /\ users' = [users EXCEPT ![j.user] = v]
      /\ writer' = NoProc /\ Goto(p, [kind |-> "answer"])
      /\ UNCHANGED <<invites, now, requests>>
  BY <1>1, <1>3, <1>4 DEF CommitOrg
<1>7. /\ orgs'[j.org] = o /\ \A q \in OrgIds : q # j.org => orgs'[q] = orgs[q]
      /\ users'[j.user] = v /\ \A u \in UserIds : u # j.user => users'[u] = users[u]
  BY <1>1, <1>6 DEF IInv, TypeOK
<1>8. /\ job' \in [Procs -> Job] /\ job'[p] = [kind |-> "answer"]
      /\ \A q \in Procs : q # p => job'[q] = job[q]
  BY <1>6, IdleJobs, Moved DEF IInv
<1>9. job'[p].kind = "answer"
  BY <1>8
<1>10. TypeOK'
  BY <1>1, <1>6, <1>8 DEF IInv, TypeOK
<1>11. UniqueRows'
  BY <1>2, <1>5, <1>6, <1>7 DEF IInv, Rows, UniqueRows, EmailTaken, SlugTaken
<1>12. \A q \in OrgIds : orgs[q] # NoRow => orgs'[q] # NoRow
  BY <1>2, <1>7
<1>13. OrgsAreOwned'
  <2>1. ASSUME NEW q \in OrgIds, orgs'[q] # NoRow
        PROVE  \E u \in UserIds : /\ users'[u] # NoRow /\ users'[u].org = q
                                  /\ users'[u].role = "owner"
    <3>1. CASE q = j.org
      BY <3>1, <1>1, <1>5, <1>7
    <3>2. CASE q # j.org
      <4>1. PICK u \in UserIds : /\ users[u] # NoRow /\ users[u].org = q
                                 /\ users[u].role = "owner"
        BY <2>1, <3>2, <1>7 DEF IInv, Rows, OrgsAreOwned
      <4> QED BY <4>1, <1>2, <1>7
    <3> QED BY <3>1, <3>2
  <2>2. ASSUME NEW u \in UserIds, users'[u] # NoRow
        PROVE  orgs'[users'[u].org] # NoRow
    <3>1. CASE u = j.user
      BY <3>1, <1>5, <1>7
    <3>2. CASE u # j.user
      <4>1. users'[u] = users[u] /\ users[u].org \in OrgIds /\ orgs[users[u].org] # NoRow
        BY <2>2, <3>2, <1>7 DEF IInv, TypeOK, User, Rows, OrgsAreOwned
      <4> QED BY <4>1, <1>12
    <3> QED BY <3>1, <3>2
  <2> QED BY <2>1, <2>2 DEF OrgsAreOwned
<1>14. Rooted'
  <2>1. ASSUME NEW i \in InviteIds, invites'[i] # NoRow PROVE orgs'[invites'[i].org] # NoRow
    <3>1. invites'[i] = invites[i] /\ invites[i].org \in OrgIds
      BY <2>1, <1>6, InviteRows DEF IInv
    <3> QED BY <2>1, <3>1, <1>12 DEF IInv, Rows, Rooted
  <2>2. ASSUME NEW u \in UserIds, users'[u] # NoRow, users'[u].via \in InviteIds
        PROVE  invites'[users'[u].via] # NoRow
    <3>1. u # j.user
      BY <2>2, <1>5, <1>7, AccountConstants
    <3> QED BY <2>2, <3>1, <1>6, <1>7 DEF IInv, Rows, Rooted
  <2> QED BY <2>1, <2>2 DEF Rooted
<1>15. UsesCountUsers'
  <2>1. \A i \in InviteIds : Via(i)' = Via(i)
    BY <1>1, <1>2, <1>5, <1>7, AccountConstants DEF Via
  <2> QED BY <2>1, <1>6 DEF IInv, Rows, UsesCountUsers
<1>16. Held'
  BY <1>1, <1>8, <1>9, OthersWait DEF Held, InTransaction
<1>17. Drawn'
  <2>1. ~HasUser(job'[p]) /\ ~HasOrg(job'[p])
    BY <1>9 DEF HasUser, HasOrg, SignupKinds, OrgKinds
  <2>2. HasUser(job[p]) /\ HasOrg(job[p])
    BY <1>1 DEF HasUser, HasOrg, OrgKinds
  <2>3. \A q \in Procs : q # p /\ HasUser(job[q]) =>
          job[q].user # j.user /\ job[q].user \in UserIds
    BY <2>2, <1>1, JobKinds DEF IInv, Jobs, Drawn, TypeOK
  <2>4. \A q \in Procs : q # p /\ HasOrg(job[q]) =>
          job[q].org # j.org /\ job[q].org \in OrgIds
    BY <2>2, <1>1, JobKinds DEF IInv, Jobs, Drawn, TypeOK
  <2>5. \A q \in Procs : HasUser(job'[q]) => users'[job'[q].user] = NoRow
    BY <2>1, <2>3, <1>7, <1>8 DEF IInv, Jobs, Drawn
  <2>6. \A q \in Procs : HasOrg(job'[q]) => orgs'[job'[q].org] = NoRow
    BY <2>1, <2>4, <1>7, <1>8 DEF IInv, Jobs, Drawn
  <2> QED BY <2>1, <2>5, <2>6, <1>8 DEF IInv, Jobs, Drawn, HasUser, HasOrg
<1>18. Checked'
  <2> SUFFICES ASSUME NEW q \in Procs PROVE JobChecked(job[q])'
    BY DEF Checked
  <2>1. CASE q = p
    BY <2>1, <1>9 DEF JobChecked, SignupKinds
  <2>2. CASE q # p
    <3>1. job'[q] = job[q] /\ job[q].kind \notin InTransaction
      BY <2>2, <1>1, <1>8, OthersWait DEF InTransaction
    <3> QED BY <3>1, <1>6 DEF IInv, Jobs, Checked, JobChecked, InTransaction
  <2> QED BY <2>1, <2>2
<1>19. BoundedOvershoot'
  <2> SUFFICES ASSUME NEW k \in InviteIds, invites'[k] # NoRow
               PROVE  \/ invites'[k].uses + Cardinality(PastCheck(k)')
                             <= invites'[k].maxUses + Cardinality(Procs) - 1
                      \/ invites'[k].uses = 0 /\ PastCheck(k)' = {}
    BY DEF BoundedOvershoot
  <2>1. PastCheck(k)' \subseteq PastCheck(k)
    BY <1>8, <1>9 DEF PastCheck, SignupKinds
  <2> QED BY <2>1, <1>6, OvershootKept
<1> QED BY <1>10, <1>11, <1>13, <1>14, <1>15, <1>16, <1>17, <1>18, <1>19
        DEF IInv, Rows, Jobs

LEMMA CreateInviteStep ==
  ASSUME IInv, NEW p \in Procs, NEW i \in InviteIds, NEW u \in UserIds, NEW r \in Roles,
         NEW q \in Quotas, NEW t \in Lifetimes, CreateInvite(p, i, u, r, q, t)
  PROVE  IInv'
<1>1. /\ invites[i] = NoRow /\ users[u] # NoRow
      /\ users[u].org \in OrgIds /\ orgs[users[u].org] # NoRow
  BY DEF IInv, TypeOK, User, Rows, OrgsAreOwned, CreateInvite
<1>2. PICK o \in OrgIds : o = users[u].org
  BY <1>1
<1>3. PICK x \in Int : x = now + t
  BY AccountConstants DEF IInv, TypeOK
<1>4. PICK n \in Invite :
        n = [org |-> o, role |-> r, maxUses |-> q, uses |-> 0, expires |-> x]
  <2>1. q \in Quotas /\ 0 \in Nat
    OBVIOUS
  <2> QED BY <1>2, <1>3, <2>1 DEF Invite
<1>5. n.org = o /\ n.uses = 0 /\ n # NoRow
  BY <1>4, NoRowIsNoRow
<1>6. /\ invites' = [invites EXCEPT ![i] = n]
      /\ UNCHANGED <<orgs, users, writer, job, now>>
      /\ requests' = requests + 1 /\ requests < MaxRequests
  BY <1>2, <1>3, <1>4 DEF CreateInvite, Begin
<1>7. invites'[i] = n /\ \A k \in InviteIds : k # i => invites'[k] = invites[k]
  BY <1>6 DEF IInv, TypeOK
<1>8. TypeOK'
  BY <1>6, RequestCount DEF IInv, TypeOK
<1>9. \A k \in InviteIds : invites[k] # NoRow => invites'[k] = invites[k]
  BY <1>1, <1>7
<1>10. \A w \in UserIds : users[w] # NoRow => users[w].via # i
  BY <1>1 DEF IInv, Rows, Rooted
<1>11. \A p_1 \in Procs : job[p_1].kind \in SignupKinds =>
         job[p_1].invite \in InviteIds \ {i} /\ invites[job[p_1].invite] # NoRow
  BY <1>1, JobKinds DEF IInv, TypeOK, Jobs, Checked, JobChecked
<1>12. \A k : Via(k)' = Via(k) /\ PastCheck(k)' = PastCheck(k)
  BY <1>6 DEF Via, PastCheck
<1>13. Via(i) = {} /\ PastCheck(i) = {}
  BY <1>10, <1>11 DEF Via, PastCheck
<1>14. UniqueRows' /\ OrgsAreOwned'
  BY <1>6 DEF IInv, Rows, UniqueRows, OrgsAreOwned
<1>15. Rooted'
  BY <1>1, <1>2, <1>5, <1>6, <1>7, <1>9 DEF IInv, Rows, Rooted
<1>16. UsesCountUsers'
  <2>1. Cardinality({}) = 0
    BY FS_EmptySet
  <2> QED BY <2>1, <1>5, <1>7, <1>12, <1>13 DEF IInv, Rows, UsesCountUsers
<1>17. Held' /\ Drawn'
  BY <1>6 DEF IInv, Jobs, Held, Drawn
<1>18. Checked'
  BY <1>6, <1>9, <1>11 DEF IInv, Jobs, Checked, JobChecked, EmailTaken, SlugTaken
<1>19. BoundedOvershoot'
  BY <1>5, <1>7, <1>12, <1>13 DEF IInv, Jobs, BoundedOvershoot
<1> QED BY <1>8, <1>14, <1>15, <1>16, <1>17, <1>18, <1>19 DEF IInv, Rows, Jobs

-----------------------------------------------------------------------------
LEMMA Start ==
  ASSUME Init
  PROVE  IInv
<1>1. \A p \in Procs : job[p] = Idle
  BY DEF Init
<1>2. TypeOK
  BY IdleJobs, AccountConstants DEF Init, TypeOK
<1>3. Rows
  BY DEF Init, Rows, UniqueRows, OrgsAreOwned, Rooted, UsesCountUsers
<1>4. Held /\ Drawn /\ Checked
  BY <1>1, IdleJobs DEF Held, Drawn, Checked
<1>5. BoundedOvershoot
  BY DEF Init, BoundedOvershoot
<1> QED BY <1>2, <1>3, <1>4, <1>5 DEF IInv, Jobs

LEMMA Inductive ==
  ASSUME IInv, [Next]_vars
  PROVE  IInv'
<1>1. CASE \E p \in Procs : Issue(p)
  BY <1>1, SignupStep, CreateOrgStep, CreateInviteStep DEF Issue
<1>2. CASE \E p \in Procs : Proceed(p) \/ Fail(p)
  BY <1>2, SignupJobStep, CommitSignupStep, OrgJobStep, CommitOrgStep, EndsStep DEF Proceed
<1>3. CASE Crash
  BY <1>3, CrashStep
<1>4. CASE Tick
  <2>1. now' \in 0 .. MaxNow
    BY <1>4, AccountConstants DEF IInv, TypeOK, Tick
  <2> QED BY <1>4, <2>1, QuietStep DEF Tick
<1>5. CASE UNCHANGED vars
  BY <1>5, QuietStep DEF vars, IInv, TypeOK
<1> QED BY <1>1, <1>2, <1>3, <1>4, <1>5 DEF Next

LEMMA AlwaysIInv == Safety => []IInv
<1>1. Init => IInv
  BY Start
<1>2. IInv /\ [Next]_vars => IInv'
  BY Inductive
<1> QED BY <1>1, <1>2, PTL DEF Safety

-----------------------------------------------------------------------------
(* Every row and every request keeps its shape: AuthHandler.Signup,
   OrgHandler.Create and InviteHandler.Create on the global database. *)
THEOREM AccountTypes == Spec => []TypeOK
<1>1. IInv => TypeOK
  BY DEF IInv
<1> QED BY <1>1, AlwaysIInv, PTL DEF Spec

(* current_uses of an invite is the number of users that joined by it, for any
   number of concurrent signups, failures and crashes. *)
THEOREM InviteUsesAreUsers == Spec => []UsesCountUsers
<1>1. IInv => UsesCountUsers
  BY DEF IInv, Rows
<1> QED BY <1>1, AlwaysIInv, PTL DEF Spec

(* An invite admits at most Cardinality(Procs) - 1 users more than max_uses says:
   the check of Usable is not repeated under the lock. *)
THEOREM InviteOvershootIsBounded == Spec => []BoundedOvershoot
<1>1. IInv => BoundedOvershoot
  BY DEF IInv, Jobs
<1> QED BY <1>1, AlwaysIInv, PTL DEF Spec

(* max_uses, which accounts_max_uses shows can be exceeded, bounds the users of an
   invite as soon as signups do not race. *)
THEOREM MaxUsesHoldsWithoutRaces ==
  ASSUME Cardinality(Procs) = 1
  PROVE  Spec => []MaxUsesRespected
<1>1. ASSUME TypeOK, BoundedOvershoot, NEW i \in InviteIds, invites[i] # NoRow,
             invites[i].maxUses > 0
      PROVE  invites[i].uses <= invites[i].maxUses
  <2>1. invites[i].uses \in Nat /\ invites[i].maxUses \in Int
    BY <1>1, InviteRows
  <2>2. PICK n \in Nat : n = Cardinality(PastCheck(i))
    BY Counts
  <2>3. invites[i].uses + n <= invites[i].maxUses + 1 - 1 \/ invites[i].uses = 0
    BY <1>1, <2>2 DEF BoundedOvershoot
  <2> QED BY <1>1, <2>1, <2>2, <2>3
<1>2. TypeOK /\ BoundedOvershoot => MaxUsesRespected
  BY <1>1 DEF MaxUsesRespected
<1> QED BY <1>2, AccountTypes, InviteOvershootIsBounded, PTL

(* The email of a user and the slug of an organization stay unique however the
   checks before the transactions race. *)
THEOREM AccountsAreUnique == Spec => []UniqueRows
<1>1. IInv => UniqueRows
  BY DEF IInv, Rows
<1> QED BY <1>1, AlwaysIInv, PTL DEF Spec

(* An organization and its owner appear in one step or not at all. *)
THEOREM OrganizationsAreOwned == Spec => []OrgsAreOwned
<1>1. IInv => OrgsAreOwned
  BY DEF IInv, Rows
<1> QED BY <1>1, AlwaysIInv, PTL DEF Spec
-----------------------------------------------------------------------------
(* Membership. *)

LEMMA SignupJoins ==
  ASSUME IInv, NEW p \in Procs, CommitSignup(p)
  PROVE  Members!Next
<1>1. PICK j \in SignupJob :
        /\ j = job[p] /\ j.kind = "commit"
        /\ j.invite \in InviteIds /\ j.user \in UserIds /\ j.email \in Emails
  BY JobKinds DEF IInv, TypeOK, CommitSignup, SignupKinds
<1>2. /\ invites[j.invite] # NoRow /\ invites[j.invite].maxUses > 0 /\ j.bump = 1
      /\ ~EmailTaken(j.email) /\ users[j.user] = NoRow
  BY <1>1 DEF IInv, Jobs, Checked, JobChecked, Drawn, HasUser, SignupKinds
<1>3. invites[j.invite].uses < invites[j.invite].maxUses + (Cardinality(Procs) - 1)
  <2>1. p \in PastCheck(j.invite)
    BY <1>1 DEF PastCheck, SignupKinds
  <2>2. Cardinality(PastCheck(j.invite)) \in Nat \ {0} /\ Cardinality(Procs) \in Nat
    BY <2>1, Counts, FS_EmptySet
  <2>3. invites[j.invite].uses \in Nat /\ invites[j.invite].maxUses \in Int
    BY <1>1, <1>2, InviteRows DEF IInv
  <2>4. invites[j.invite].uses + Cardinality(PastCheck(j.invite))
          <= invites[j.invite].maxUses + Cardinality(Procs) - 1
    BY <2>1, <1>1, <1>2 DEF IInv, Jobs, BoundedOvershoot
  <2> QED BY <2>2, <2>3, <2>4
<1>4. invites' = [invites EXCEPT ![j.invite].uses = @ + 1]
  BY <1>1, <1>2 DEF CommitSignup
<1>5. Members!Join(j.invite, j.user, j.email)
  BY <1>1, <1>2, <1>3, <1>4 DEF CommitSignup, EmailTaken, Members!Join, Members!Free
<1> QED BY <1>1, <1>5 DEF Members!Next

LEMMA OrgFounds ==
  ASSUME IInv, NEW p \in Procs, CommitOrg(p)
  PROVE  Members!Next
<1>1. PICK j \in OrgJob :
        /\ j = job[p] /\ j.kind = "found" /\ j.org \in OrgIds /\ j.user \in UserIds
        /\ j.slug \in Slugs /\ j.email \in Emails
  BY JobKinds DEF IInv, TypeOK, CommitOrg, OrgKinds
<1>2. /\ ~SlugTaken(j.slug) /\ ~EmailTaken(j.email)
      /\ orgs[j.org] = NoRow /\ users[j.user] = NoRow
  BY <1>1 DEF IInv, Jobs, Checked, JobChecked, Drawn, HasUser, HasOrg, OrgKinds
<1>3. Members!Found(j.org, j.user, j.slug, j.email)
  BY <1>1, <1>2 DEF CommitOrg, SlugTaken, EmailTaken, Members!Found, Members!Free
<1> QED BY <1>1, <1>3 DEF Members!Next

LEMMA InviteIssues ==
  ASSUME IInv, NEW p \in Procs, NEW i \in InviteIds, NEW u \in UserIds, NEW r \in Roles,
         NEW q \in Quotas, NEW t \in Lifetimes, CreateInvite(p, i, u, r, q, t)
  PROVE  Members!Next
<1>1. PICK x \in {n + l : n \in 0 .. MaxNow, l \in Lifetimes} : x = now + t
  BY DEF IInv, TypeOK
<1>2. Members!Issue(i, u, r, q, x)
  BY <1>1 DEF CreateInvite, Members!Issue
<1> QED BY <1>1, <1>2 DEF Members!Next

(* A signup, the founding of an organization and an invite are by the rows they
   commit one atomic step each, and no other step commits any: lookups, waiting,
   failures, crashes and the order in which requests race are invisible. *)
THEOREM AccountsImplementMembership == Spec => ImplementsMembership
<1>1. Init => Members!Init
  BY DEF Init, Members!Init
<1>2. ASSUME IInv, [Next]_vars
      PROVE  [Members!Next]_(Members!rows)
  <2>1. ASSUME NEW p \in Procs, Issue(p)
        PROVE  Members!Next \/ UNCHANGED Members!rows
    BY <1>2, <2>1, InviteIssues DEF Issue, Signup, CreateOrg, Members!rows
  <2>2. ASSUME NEW p \in Procs, Proceed(p)
        PROVE  Members!Next \/ UNCHANGED Members!rows
    BY <1>2, <2>2, SignupJoins, OrgFounds
    DEF Proceed, FindUser, InsertUser, BumpInvite, InsertOrg, InsertOwner, Answer, Busy,
        Members!rows
  <2>3. CASE Crash \/ Tick \/ UNCHANGED vars \/ \E p \in Procs : Fail(p)
    BY <2>3 DEF Crash, Tick, Fail, vars, Members!rows
  <2> QED BY <1>2, <2>1, <2>2, <2>3 DEF Next
<1> QED BY <1>1, <1>2, AlwaysIInv, PTL DEF Spec, Safety, ImplementsMembership, Members!Spec

(* What can be said of the rows can now be shown of Membership's three steps.  The
   founder of an organization is its owner; everybody else is in the organization and
   has the role that the invite they came by was issued for. *)
AsInvited ==
  \A u \in UserIds : users[u] # NoRow =>
    IF users[u].via = NoInvite
      THEN users[u].role = "owner"
      ELSE LET i == users[u].via IN
           /\ i \in InviteIds /\ invites[i] # NoRow
           /\ users[u].org = invites[i].org /\ users[u].role = invites[i].role

LEMMA MembershipKeepsRoles ==
  ASSUME TypeOK, TypeOK', AsInvited, [Members!Next]_(Members!rows)
  PROVE  AsInvited'
<1> DEFINE Invited(u, us, is) ==
      us[u] # NoRow =>
        IF us[u].via = NoInvite
          THEN us[u].role = "owner"
          ELSE /\ us[u].via \in InviteIds /\ is[us[u].via] # NoRow
               /\ us[u].org = is[us[u].via].org /\ us[u].role = is[us[u].via].role
<1>1. AsInvited <=> \A u \in UserIds : Invited(u, users, invites)
  BY DEF AsInvited
<1>2. AsInvited' <=> \A u \in UserIds : Invited(u, users', invites')
  BY DEF AsInvited
<1>3. ASSUME NEW o \in OrgIds, NEW w \in UserIds, NEW s \in Slugs, NEW e \in Emails,
             Members!Found(o, w, s, e), NEW u \in UserIds
      PROVE  Invited(u, users', invites')
  BY <1>1, <1>3 DEF Members!Found, TypeOK
<1>4. ASSUME NEW i \in InviteIds, NEW w \in UserIds, NEW r \in Roles, NEW q \in Quotas,
             NEW x, Members!Issue(i, w, r, q, x), NEW u \in UserIds
      PROVE  Invited(u, users', invites')
  <2>1. users' = users /\ invites[i] = NoRow
        /\ \A k \in InviteIds : k # i => invites'[k] = invites[k]
    BY <1>4 DEF Members!Issue, TypeOK
  <2> QED BY <1>1, <2>1
<1>5. ASSUME NEW i \in InviteIds, NEW w \in UserIds, NEW e \in Emails,
             Members!Join(i, w, e), NEW u \in UserIds
      PROVE  Invited(u, users', invites')
  <2>1. invites[i] \in Invite /\ invites[i] # NoRow
    BY <1>5 DEF Members!Join, TypeOK
  <2>2. \A k \in InviteIds : /\ invites[k] # NoRow => invites'[k] # NoRow
                             /\ invites'[k].org = invites[k].org
                             /\ invites'[k].role = invites[k].role
    <3>1. PICK v : v = [invites[i] EXCEPT !.uses = @ + 1]
      OBVIOUS
    <3>2. v.org = invites[i].org /\ v.role = invites[i].role /\ v \in Invite
      BY <2>1, <3>1 DEF Invite
    <3>3. \A k \in InviteIds : invites'[k] = IF k = i THEN v ELSE invites[k]
      BY <1>5, <3>1 DEF Members!Join, TypeOK
    <3> QED BY <3>2, <3>3, NoRowIsNoRow
  <2>3. /\ u # w => users'[u] = users[u]
        /\ users'[w].via = i /\ users'[w].org = invites[i].org
        /\ users'[w].role = invites[i].role
    BY <1>5 DEF Members!Join, TypeOK
  <2> QED BY <1>1, <2>1, <2>2, <2>3, AccountConstants
<1>6. CASE UNCHANGED Members!rows
  BY <1>1, <1>2, <1>6 DEF Members!rows
<1> HIDE DEF Invited
<1> QED BY <1>2, <1>3, <1>4, <1>5, <1>6 DEF Members!Next

(* Every user is the owner who founded an organization, or is in the organization
   of the invite used at signup, with the role that invite grants; and no later
   step parts the two, whatever requests race. *)
THEOREM UsersAreAsInvited == Spec => []AsInvited
<1>1. Init => AsInvited
  BY DEF Init, AsInvited
<1>2. Spec => [][Members!Next]_(Members!rows)
  BY AccountsImplementMembership, PTL DEF ImplementsMembership, Members!Spec
<1>3. TypeOK /\ TypeOK' /\ AsInvited /\ [Members!Next]_(Members!rows) => AsInvited'
  BY MembershipKeepsRoles
<1> QED BY <1>1, <1>2, <1>3, AccountTypes, PTL DEF Spec, Safety

-----------------------------------------------------------------------------
(* What LockReleased rests on, for any number of requests. *)

(* Who has the write lock is inside its transaction. *)
LockAtWork == writer # NoProc => job[writer].kind \in InTransaction

(* How many steps a request at j still has before it, its answer included. *)
Left(j) ==
  CASE j.kind = "idle" -> 0
    [] j.kind = "answer" -> 1
    [] j.kind \in {"commit", "found"} -> 2
    [] j.kind \in {"bump", "owner"} -> 3
    [] j.kind \in {"join", "org"} -> 4
    [] j.kind = "find" -> 5

Nearer ==
  \A p \in Procs : (job[p] # Idle /\ job'[p] # job[p]) => Left(job'[p]) < Left(job[p])

(* What a step that takes p to c does to the write lock. *)
LockFollows(p, c) ==
  \/ writer' = NoProc
  \/ writer' \in {writer, p} /\ c.kind \in InTransaction
  \/ writer' = writer /\ job[p].kind \notin InTransaction

LEMMA LockKept ==
  ASSUME TypeOK, LockAtWork, NEW p \in Procs, NEW c \in Job, Goto(p, c),
         LockFollows(p, c)
  PROVE  LockAtWork'
<1>1. job'[p] = c /\ \A q \in Procs : q # p => job'[q] = job[q]
  BY Moved
<1>2. writer \in Procs \cup {NoProc}
  BY DEF TypeOK
<1> QED BY <1>1, <1>2 DEF LockAtWork, LockFollows

LEMMA NearerByOne ==
  ASSUME TypeOK, NEW p \in Procs, NEW c \in Job, Goto(p, c),
         job[p] = Idle \/ Left(c) < Left(job[p])
  PROVE  Nearer
BY Moved DEF Nearer

LEMMA Lefts ==
  ASSUME NEW j
  PROVE  /\ j.kind \in {"commit", "found"} => Left(j) = 2
         /\ j.kind \in {"bump", "owner"} => Left(j) = 3
         /\ j.kind \in {"join", "org"} => Left(j) = 4
         /\ j.kind = "find" => Left(j) = 5
BY DEF Left

LEMMA Ended ==
  /\ Idle \in Job /\ Left(Idle) = 0
  /\ [kind |-> "answer"] \in Job /\ Left([kind |-> "answer"]) = 1
  /\ \A j \in Job : j # Idle => Left(j) > 0
BY DEF Left, Job, Idle, SignupJob, SignupKinds, OrgJob, AnswerJob

LEMMA SignupOnward ==
  ASSUME TypeOK, NEW p \in Procs,
         FindUser(p) \/ InsertUser(p) \/ BumpInvite(p) \/ CommitSignup(p)
  PROVE  \E c \in Job : Goto(p, c) /\ Left(c) < Left(job[p]) /\ LockFollows(p, c)
<1>1. PICK j \in SignupJob : j = job[p]
  BY JobKinds DEF TypeOK, FindUser, InsertUser, BumpInvite, CommitSignup, SignupKinds
<1>2. CASE FindUser(p)
  <2>1. PICK c \in Job : c = [j EXCEPT !.kind = "join"] /\ c.kind = "join"
    BY SignupAt DEF SignupKinds
  <2>2. j = job[p] /\ j.kind = "find"
    BY <1>1, <1>2 DEF FindUser
  <2>3. \/ Goto(p, Idle) /\ LockFollows(p, Idle)
        \/ Goto(p, c) /\ LockFollows(p, c)
    BY <1>1, <1>2, <2>1 DEF FindUser, LockFollows, InTransaction
  <2>4. Left(c) = 4 /\ Left(j) = 5
    BY <2>1, <2>2, Lefts
  <2> QED BY <2>2, <2>3, <2>4, Ended
<1>3. CASE InsertUser(p)
  <2>1. PICK c \in Job : c = [j EXCEPT !.kind = "bump"] /\ c.kind = "bump"
    BY SignupAt DEF SignupKinds
  <2>2. j = job[p] /\ j.kind = "join"
    BY <1>1, <1>3 DEF InsertUser
  <2>3. \/ Goto(p, Idle) /\ LockFollows(p, Idle)
        \/ Goto(p, c) /\ LockFollows(p, c)
    BY <1>1, <1>3, <2>1 DEF InsertUser, LockFollows, InTransaction
  <2>4. Left(c) = 3 /\ Left(j) = 4
    BY <2>1, <2>2, Lefts
  <2> QED BY <2>2, <2>3, <2>4, Ended
<1>4. CASE BumpInvite(p)
  <2>1. PICK c \in Job : c = [j EXCEPT !.kind = "commit", !.bump = 1] /\ c.kind = "commit"
    BY SignupBumped
  <2>2. j = job[p] /\ j.kind = "bump"
    BY <1>1, <1>4 DEF BumpInvite
  <2>3. Goto(p, c) /\ LockFollows(p, c)
    BY <1>1, <1>4, <2>1 DEF BumpInvite, LockFollows, InTransaction
  <2>4. Left(c) = 2 /\ Left(j) = 3
    BY <2>1, <2>2, Lefts
  <2> QED BY <2>2, <2>3, <2>4, Ended
<1>5. CASE CommitSignup(p)
  BY <1>1, <1>5, Ended, Lefts DEF CommitSignup, LockFollows
<1> QED BY <1>2, <1>3, <1>4, <1>5

LEMMA OrgOnward ==
  ASSUME TypeOK, NEW p \in Procs, InsertOrg(p) \/ InsertOwner(p) \/ CommitOrg(p)
  PROVE  \E c \in Job : Goto(p, c) /\ Left(c) < Left(job[p]) /\ LockFollows(p, c)
<1>1. PICK j \in OrgJob : j = job[p]
  BY JobKinds DEF TypeOK, InsertOrg, InsertOwner, CommitOrg, OrgKinds
<1>2. CASE InsertOrg(p)
  <2>1. PICK c \in Job : c = [j EXCEPT !.kind = "owner"] /\ c.kind = "owner"
    BY OrgAt DEF OrgKinds
  <2>2. j = job[p] /\ j.kind = "org"
    BY <1>1, <1>2 DEF InsertOrg
  <2>3. \/ Goto(p, Idle) /\ LockFollows(p, Idle)
        \/ Goto(p, c) /\ LockFollows(p, c)
    BY <1>1, <1>2, <2>1 DEF InsertOrg, LockFollows, InTransaction
  <2>4. Left(c) = 3 /\ Left(j) = 4
    BY <2>1, <2>2, Lefts
  <2> QED BY <2>2, <2>3, <2>4, Ended
<1>3. CASE InsertOwner(p)
  <2>1. PICK c \in Job : c = [j EXCEPT !.kind = "found"] /\ c.kind = "found"
    BY OrgAt DEF OrgKinds
  <2>2. j = job[p] /\ j.kind = "owner"
    BY <1>1, <1>3 DEF InsertOwner
  <2>3. \/ Goto(p, Idle) /\ LockFollows(p, Idle)
        \/ Goto(p, c) /\ LockFollows(p, c)
    BY <1>1, <1>3, <2>1 DEF InsertOwner, LockFollows, InTransaction
  <2>4. Left(c) = 2 /\ Left(j) = 3
    BY <2>1, <2>2, Lefts
  <2> QED BY <2>2, <2>3, <2>4, Ended
<1>4. CASE CommitOrg(p)
  BY <1>1, <1>4, Ended, Lefts DEF CommitOrg, LockFollows
<1> QED BY <1>2, <1>3, <1>4

LEMMA EndsOnward ==
  ASSUME IInv, NEW p \in Procs, Answer(p) \/ Busy(p) \/ Fail(p)
  PROVE  \E c \in Job : Goto(p, c) /\ Left(c) < Left(job[p]) /\ LockFollows(p, c)
<1>1. Goto(p, Idle) /\ job[p] # Idle /\ job[p] \in Job
  BY DEF IInv, TypeOK, Answer, Busy, Fail, Idle
<1>2. LockFollows(p, Idle)
  <2>1. CASE Fail(p)
    BY <2>1 DEF Fail, LockFollows, IInv, Jobs, Held
  <2>2. CASE Answer(p) \/ Busy(p)
    BY <2>2 DEF Answer, Busy, LockFollows, InTransaction
  <2> QED BY <2>1, <2>2
<1> QED BY <1>1, <1>2, Ended

LEMMA LockStep ==
  ASSUME IInv, LockAtWork, [Next]_vars
  PROVE  LockAtWork' /\ Nearer
<1>1. ASSUME NEW p \in Procs, Issue(p)
      PROVE  LockAtWork' /\ Nearer
  <2> USE DEF IInv
  <2>1. job[p] = Idle /\ UNCHANGED writer
    BY <1>1 DEF Issue, Signup, CreateOrg, CreateInvite, Begin
  <2>2. \A q \in Procs : q # p => job'[q] = job[q]
    BY <1>1 DEF TypeOK, Issue, Signup, CreateOrg, CreateInvite, Goto
  <2>3. writer # p /\ writer \in Procs \cup {NoProc}
    BY <2>1, AccountConstants DEF TypeOK, LockAtWork, Idle, InTransaction
  <2> QED BY <2>1, <2>2, <2>3 DEF LockAtWork, Nearer
<1>2. ASSUME NEW p \in Procs, Proceed(p) \/ Fail(p)
      PROVE  LockAtWork' /\ Nearer
  <2>1. PICK c \in Job : Goto(p, c) /\ Left(c) < Left(job[p]) /\ LockFollows(p, c)
    BY <1>2, SignupOnward, OrgOnward, EndsOnward DEF Proceed, IInv
  <2> QED BY <2>1, LockKept, NearerByOne DEF IInv
<1>3. CASE Crash
  BY <1>3, Ended DEF Crash, LockAtWork, Nearer, IInv, TypeOK
<1>4. CASE Tick \/ UNCHANGED vars
  BY <1>4 DEF Tick, vars, LockAtWork, Nearer
<1> QED BY <1>1, <1>2, <1>3, <1>4 DEF Next

(* The write lock is never kept by a request that is not, or no longer, in a
   transaction of Signup or OrgHandler.Create: one that failed, was refused or
   died has given it back. *)
THEOREM LockHolderIsAtWork == Spec => []LockAtWork
<1>1. Init => LockAtWork
  BY DEF Init, LockAtWork
<1>2. IInv /\ LockAtWork /\ [Next]_vars => LockAtWork'
  BY LockStep
<1> QED BY <1>1, <1>2, AlwaysIInv, PTL DEF Spec, Safety

(* A request never goes back: each of its steps leaves strictly fewer before it,
   five at most, so that a holder of the lock is at most two from giving it back. *)
THEOREM RequestsComeNearer == Spec => [][Nearer]_vars
<1>1. IInv /\ LockAtWork /\ [Next]_vars => [Nearer]_vars
  BY LockStep
<1> QED BY <1>1, AlwaysIInv, LockHolderIsAtWork, PTL DEF Spec, Safety
=============================================================================
