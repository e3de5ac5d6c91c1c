----------------------- MODULE RequestPipelineProofs -----------------------
(* What RequestPipeline promises for any users, lives of tokens, routes taken
   and number of requests, under the assumption MaxLag names: no request is at
   work for longer.  The argument is a chain of dates: a row of users is read
   while its request is at work, a token is signed from it no more than MaxLag
   later and dies a life after that, and a request that was let in by it is
   answered no more than MaxLag after it came. *)
EXTENDS RequestPipeline, TLAPS

-----------------------------------------------------------------------------
(* The inductive invariant. *)

(* User u has the role r, or had it until the time t at least. *)
RoleUntil(u, r, t) ==
  \/ users[u].role = r
  \/ \E f \in former : f.uid = u /\ f.role = r /\ f.until >= t

(* User u was not deleted before t. *)
NotDeletedBefore(u, t) ==
  users[u].deletedAt = None \/ users[u].deletedAt >= t

(* An access token tells the truth about its organization, and about its role
   and the user's being there as of the time its row was read. *)
TokenOK(t) ==
  /\ t.uid # None =>
       /\ t.exp <= now + AccessTTL
       /\ t.oid = users[t.uid].org
       /\ RoleUntil(t.uid, t.role, t.exp - AccessTTL - MaxLag)
       /\ NotDeletedBefore(t.uid, t.exp - (RefreshTTL + AccessTTL + 2 * MaxLag))
  /\ t.sub # None =>
       /\ t.exp <= now + RefreshTTL
       /\ NotDeletedBefore(t.sub, t.exp - RefreshTTL - MaxLag)

AtWork(at) == at <= now /\ now <= at + MaxLag

(* Only a login looked whether the user had been deleted. *)
SessionOK(s) ==
  s.kind # "idle" =>
    /\ AtWork(s.at)
    /\ s.row.org = users[s.uid].org
    /\ RoleUntil(s.uid, s.row.role, s.at)
    /\ NotDeletedBefore(s.uid, IF s.kind = "login" THEN s.at
                               ELSE s.at - RefreshTTL - MaxLag)

(* What the middlewares behind a request have made sure of. *)
Passed(q) ==
  /\ q.pos <= Len(q.route.chain) + 1
  /\ (q.route.chain # Public /\ q.pos >= 2) => q.claims # None /\ Claims \in q.context
  /\ (q.route.chain # Public /\ q.pos >= 3) =>
       q.tenant = q.claims.oid /\ q.claims.oid # None
  /\ (q.route.chain = Manager /\ q.pos >= 4) => q.claims.role \in q.route.roles

RequestOK(q) ==
  /\ AtWork(q.at)
  /\ q.token # None => TokenOK(q.token)
  /\ q.claims # None => TokenOK(q.claims) /\ q.at < q.claims.exp
  /\ Passed(q)

Sessions == {session[p] : p \in Procs}
Active   == {req[r] : r \in Requests} \ {NoRequest}

Dated ==
  /\ \A t \in tokens : TokenOK(t)
  /\ \A s \in Sessions : SessionOK(s)
  /\ \A q \in Active : RequestOK(q)

IInv == TypeOK /\ Dated

-----------------------------------------------------------------------------
(* Constants, and the fields of records by their kind. *)

LEMMA Naturals == AccessTTL \in Nat /\ RefreshTTL \in Nat /\ MaxLag \in Nat
BY TokenConstants

LEMMA TimesAreInts == Times \subseteq Nat /\ Times \subseteq Int /\ None \notin Times
<1>1. MaxNow \in Nat
  BY TokenConstants
<1> QED BY <1>1, NoneIsNoTime DEF Times

LEMMA TokenKinds ==
  ASSUME NEW t \in Token
  PROVE  /\ t.exp \in Nat
         /\ t.uid # None => /\ t.uid \in Users /\ t.oid \in Orgs /\ t.role \in Roles
                            /\ t.oid # None /\ t.sub = None
         /\ t.sub # None => t.sub \in Users
         /\ t.oid # None => t.uid # None
BY TokenConstants DEF Token, Access, Refresh

LEMMA SessionKinds ==
  ASSUME NEW s \in Session, s.kind # "idle"
  PROVE  /\ s.kind \in {"login", "refresh"} /\ s.uid \in Users /\ s.row \in User
         /\ s.at \in Times
BY DEF Session, Idle

LEMMA UserFields ==
  ASSUME TokensTypeOK, NEW u \in Users
  PROVE  /\ users[u] \in User /\ users[u].org \in Orgs /\ users[u].role \in Roles
         /\ users[u].deletedAt = None \/ users[u].deletedAt \in Times
BY DEF TokensTypeOK, User

LEMMA RequestKinds ==
  ASSUME NEW q \in Request
  PROVE  /\ q.pos \in 1 .. 4 /\ q.route \in Routes /\ q.token \in Token \cup {None}
         /\ q.context \in SUBSET ContextKeys /\ q.claims \in Token \cup {None}
         /\ q.tenant \in Orgs \cup {None} /\ q.at \in Times
BY DEF Request

LEMMA ActiveRequests ==
  ASSUME TypeOK PROVE Active \subseteq Request
BY DEF TypeOK, Active

LEMMA SessionsAreSessions ==
  ASSUME TokensTypeOK PROVE Sessions \subseteq Session
BY DEF TokensTypeOK, Sessions

(* The chains of the router, and which of them ends in requireRole. *)
LEMMA Chains ==
  ASSUME NEW route \in Routes
  PROVE  /\ route.chain \in {Public, Member, Manager, Limited}
         /\ route.roles = {} <=> route.chain # Manager
<1>1. Public # Manager /\ Member # Manager /\ Limited # Manager
  BY DEF Public, Member, Manager, Limited
<1>2. Managers # {} /\ {"owner"} # {}
  BY DEF Managers
<1> QED BY <1>1, <1>2 DEF Routes, Route

LEMMA ChainLengths ==
  /\ Len(Public) = 0 /\ Len(Member) = 2 /\ Len(Manager) = 3 /\ Len(Limited) = 3
  /\ Member # Public /\ Manager # Public /\ Limited # Public
BY DEF Public, Member, Manager, Limited

(* Which middleware stands where. *)
LEMMA Stages ==
  ASSUME NEW c \in {Public, Member, Manager, Limited}, NEW i \in 1 .. 4
  PROVE  /\ Len(c) \in 0 .. 3
         /\ Chain(c, i) = "auth"    => c # Public /\ i = 1
         /\ Chain(c, i) = "tenant"  => c # Public /\ i = 2
         /\ Chain(c, i) = "role"    => c = Manager /\ i = 3
         /\ Chain(c, i) = "rate"    => c = Limited /\ i = 3
         /\ Chain(c, i) # "handler" => i <= Len(c)
         /\ (Chain(c, i) = "handler" /\ c # Public) => i >= 3
         /\ (Chain(c, i) = "handler" /\ c = Manager) => i >= 4
<1>1. CASE c = Public
  BY <1>1, ChainLengths DEF Chain
<1>2. CASE c = Member
  <2>1. Member[1] = "auth" /\ Member[2] = "tenant"
    BY DEF Member
  <2>2. Member # Manager
    BY ChainLengths
  <2> QED BY <1>2, <2>1, <2>2, ChainLengths DEF Chain
<1>3. CASE c = Manager
  <2>1. Manager[1] = "auth" /\ Manager[2] = "tenant" /\ Manager[3] = "role"
    BY DEF Manager
  <2> QED BY <1>3, <2>1, ChainLengths DEF Chain
<1>4. CASE c = Limited
  <2>1. Limited[1] = "auth" /\ Limited[2] = "tenant" /\ Limited[3] = "rate"
    BY DEF Limited
  <2>2. Limited # Manager
    BY DEF Limited, Manager
  <2> QED BY <1>4, <2>1, <2>2, ChainLengths DEF Chain
<1> QED BY <1>1, <1>2, <1>3, <1>4

-----------------------------------------------------------------------------
(* What no step takes away: the past of the users, and the time. *)
Keeps ==
  /\ now' \in Times /\ now <= now'
  /\ \A u \in Users : users'[u].org = users[u].org
  /\ \A u \in Users, r \in Roles, t \in Int :
       (t <= now /\ RoleUntil(u, r, t)) => RoleUntil(u, r, t)'
  /\ \A u \in Users, t \in Int :
       (t <= now /\ NotDeletedBefore(u, t)) => NotDeletedBefore(u, t)'

LEMMA UnchangedKeeps ==
  ASSUME TokensTypeOK, UNCHANGED <<users, former>>, now' \in Times, now <= now'
  PROVE  Keeps
BY DEF Keeps, RoleUntil, NotDeletedBefore

LEMMA ChangeRoleKeeps ==
  ASSUME TokensTypeOK, NEW u \in Users, NEW r \in Roles, ChangeRole(u, r)
  PROVE  Keeps /\ TokensTypeOK'
<1>1. now \in Times /\ now' = now /\ now \in Int
  BY TimesAreInts DEF ChangeRole, TokensTypeOK
<1>2. users' = [users EXCEPT ![u].role = r]
  BY DEF ChangeRole
<1>3. former' = former \cup {[uid |-> u, role |-> users[u].role, until |-> now]}
  BY DEF ChangeRole
<1>4. users \in [Users -> User]
  BY DEF TokensTypeOK
<1>5. /\ users'[u].role = r /\ users'[u].org = users[u].org
      /\ users'[u].deletedAt = users[u].deletedAt /\ users'[u] \in User
  BY <1>2, <1>4 DEF User
<1>6. \A w \in Users : w # u => users'[w] = users[w]
  BY <1>2, <1>4
<1>7. users' \in [Users -> User]
  BY <1>2, <1>4, <1>5, <1>6
<1>8. TokensTypeOK'
  <2>1. former' \subseteq [uid : Users, role : Roles, until : Times]
    BY <1>1, <1>3, UserFields DEF TokensTypeOK
  <2>2. edits' \in 0 .. MaxEdits
    BY TokenConstants DEF ChangeRole, TokensTypeOK
  <2> QED BY <1>1, <1>7, <2>1, <2>2 DEF TokensTypeOK, ChangeRole
<1>9. \A w \in Users : /\ users'[w].org = users[w].org
                       /\ users'[w].deletedAt = users[w].deletedAt
  BY <1>5, <1>6
<1>10. ASSUME NEW w \in Users, NEW q \in Roles, NEW t \in Int, t <= now, RoleUntil(w, q, t)
       PROVE  RoleUntil(w, q, t)'
  <2>1. CASE \E f \in former : f.uid = w /\ f.role = q /\ f.until >= t
    BY <2>1, <1>3 DEF RoleUntil
  <2>2. CASE users[w].role = q
    <3>1. CASE w = u
      <4> DEFINE f == [uid |-> u, role |-> users[u].role, until |-> now]
      <4>1. f \in former'
        BY <1>3
      <4>2. f.uid = w /\ f.role = q /\ f.until >= t
        BY <1>10, <2>2, <3>1, <1>1
      <4> QED BY <4>1, <4>2 DEF RoleUntil
    <3>2. CASE w # u
      BY <3>2, <2>2, <1>6 DEF RoleUntil
    <3> QED BY <3>1, <3>2
  <2> QED BY <1>10, <2>1, <2>2 DEF RoleUntil
<1> QED BY <1>1, <1>8, <1>9, <1>10 DEF Keeps, NotDeletedBefore

LEMMA DeleteUserKeeps ==
  ASSUME TokensTypeOK, NEW u \in Users, DeleteUser(u)
  PROVE  Keeps /\ TokensTypeOK'
<1>1. now \in Times /\ now' = now /\ now \in Int /\ former' = former
  BY TimesAreInts DEF DeleteUser, TokensTypeOK
<1>2. users' = [users EXCEPT ![u].deletedAt = now]
  BY DEF DeleteUser
<1>3. users \in [Users -> User]
  BY DEF TokensTypeOK
<1>4. /\ users'[u].role = users[u].role /\ users'[u].org = users[u].org
      /\ users'[u].deletedAt = now /\ users'[u] \in User
  BY <1>1, <1>2, <1>3 DEF User
<1>5. \A w \in Users : w # u => users'[w] = users[w]
  BY <1>2, <1>3
<1>6. users' \in [Users -> User]
  BY <1>2, <1>3, <1>4, <1>5
<1>7. edits' \in 0 .. MaxEdits
  BY TokenConstants DEF DeleteUser, TokensTypeOK
<1>8. TokensTypeOK'
  BY <1>1, <1>6, <1>7 DEF TokensTypeOK, DeleteUser
<1>9. \A w \in Users : /\ users'[w].org = users[w].org
                       /\ users'[w].role = users[w].role
  BY <1>4, <1>5
<1>10. ASSUME NEW w \in Users, NEW t \in Int, t <= now, NotDeletedBefore(w, t)
       PROVE  NotDeletedBefore(w, t)'
  BY <1>1, <1>4, <1>5, <1>10 DEF NotDeletedBefore
<1> QED BY <1>1, <1>8, <1>9, <1>10 DEF Keeps, RoleUntil

-----------------------------------------------------------------------------
(* What is true of a token, a session or a request stays true. *)

LEMMA TokenKeeps ==
  ASSUME TokensTypeOK, Keeps, NEW t \in Token, TokenOK(t)
  PROVE  TokenOK(t)'
<1>1. /\ now \in Int /\ now' \in Int /\ now <= now'
      /\ AccessTTL \in Int /\ RefreshTTL \in Int /\ MaxLag \in Int
      /\ AccessTTL >= 0 /\ RefreshTTL >= 0 /\ MaxLag >= 0 /\ t.exp \in Int
  <2>1. now \in Times /\ now' \in Times /\ now <= now'
    BY DEF Keeps, TokensTypeOK
  <2>2. t.exp \in Nat
    BY TokenKinds
  <2> QED BY <2>1, <2>2, TimesAreInts, Naturals
<1>2. ASSUME t.uid # None
      PROVE  /\ t.exp <= now' + AccessTTL
             /\ t.oid = users'[t.uid].org
             /\ RoleUntil(t.uid, t.role, t.exp - AccessTTL - MaxLag)'
             /\ NotDeletedBefore(t.uid, t.exp - (RefreshTTL + AccessTTL + 2 * MaxLag))'
  <2>1. /\ t.uid \in Users /\ t.role \in Roles
        /\ t.exp <= now + AccessTTL /\ t.oid = users[t.uid].org
        /\ RoleUntil(t.uid, t.role, t.exp - AccessTTL - MaxLag)
        /\ NotDeletedBefore(t.uid, t.exp - (RefreshTTL + AccessTTL + 2 * MaxLag))
    BY <1>2, TokenKinds DEF TokenOK
  <2>2. /\ t.exp - AccessTTL - MaxLag \in Int /\ t.exp - AccessTTL - MaxLag <= now
        /\ t.exp - (RefreshTTL + AccessTTL + 2 * MaxLag) \in Int
        /\ t.exp - (RefreshTTL + AccessTTL + 2 * MaxLag) <= now
        /\ t.exp <= now' + AccessTTL
    BY <1>1, <2>1
  <2> QED BY <2>1, <2>2 DEF Keeps
<1>3. ASSUME t.sub # None
      PROVE  /\ t.exp <= now' + RefreshTTL
             /\ NotDeletedBefore(t.sub, t.exp - RefreshTTL - MaxLag)'
  <2>1. /\ t.sub \in Users /\ t.exp <= now + RefreshTTL
        /\ NotDeletedBefore(t.sub, t.exp - RefreshTTL - MaxLag)
    BY <1>3, TokenKinds DEF TokenOK
  <2>2. /\ t.exp - RefreshTTL - MaxLag \in Int /\ t.exp - RefreshTTL - MaxLag <= now
        /\ t.exp <= now' + RefreshTTL
    BY <1>1, <2>1
  <2> QED BY <2>1, <2>2 DEF Keeps
<1> QED BY <1>2, <1>3 DEF TokenOK

LEMMA SessionKeeps ==
  ASSUME TokensTypeOK, Keeps, NEW s \in Session, SessionOK(s),
         s.kind # "idle" => now' <= s.at + MaxLag
  PROVE  SessionOK(s)'
<1> SUFFICES ASSUME s.kind # "idle"
             PROVE  /\ AtWork(s.at)'
                    /\ s.row.org = users'[s.uid].org
                    /\ RoleUntil(s.uid, s.row.role, s.at)'
                    /\ NotDeletedBefore(s.uid, IF s.kind = "login" THEN s.at
                                               ELSE s.at - RefreshTTL - MaxLag)'
  BY DEF SessionOK
<1>1. /\ AtWork(s.at) /\ s.row.org = users[s.uid].org
      /\ RoleUntil(s.uid, s.row.role, s.at)
      /\ NotDeletedBefore(s.uid, IF s.kind = "login" THEN s.at
                                 ELSE s.at - RefreshTTL - MaxLag)
  BY DEF SessionOK
<1>2. s.uid \in Users /\ s.row.role \in Roles /\ s.at \in Int
  BY SessionKinds, TimesAreInts DEF User
<1>3. /\ now \in Int /\ now' \in Int /\ now <= now'
      /\ RefreshTTL \in Int /\ MaxLag \in Int /\ RefreshTTL >= 0 /\ MaxLag >= 0
  BY TimesAreInts, Naturals DEF Keeps, TokensTypeOK
<1>4. s.at <= now /\ s.at - RefreshTTL - MaxLag \in Int
      /\ s.at - RefreshTTL - MaxLag <= now /\ s.at <= now'
  BY <1>1, <1>2, <1>3 DEF AtWork
<1>5. AtWork(s.at)'
  BY <1>4 DEF AtWork
<1>6. RoleUntil(s.uid, s.row.role, s.at)'
  BY <1>1, <1>2, <1>4 DEF Keeps
<1>7. CASE s.kind = "login"
  BY <1>1, <1>2, <1>4, <1>5, <1>6, <1>7 DEF Keeps
<1>8. CASE s.kind # "login"
  BY <1>1, <1>2, <1>4, <1>5, <1>6, <1>8 DEF Keeps
<1> QED BY <1>7, <1>8

LEMMA RequestKeeps ==
  ASSUME TokensTypeOK, Keeps, NEW q \in Request, RequestOK(q), now' <= q.at + MaxLag
  PROVE  RequestOK(q)'
<1>1. q.at \in Int /\ now \in Int /\ now' \in Int
  BY RequestKinds, TimesAreInts DEF Keeps, TokensTypeOK
<1>2. AtWork(q.at)'
  BY <1>1 DEF RequestOK, AtWork, Keeps
<1>3. q.token # None => TokenOK(q.token)'
  BY TokenKeeps, RequestKinds DEF RequestOK
<1>4. q.claims # None => TokenOK(q.claims)' /\ q.at < q.claims.exp
  BY TokenKeeps, RequestKinds DEF RequestOK
<1> QED BY <1>2, <1>3, <1>4 DEF RequestOK, Passed

-----------------------------------------------------------------------------
(* The invariant is carried over when every token, session and request of the
   new state is an old one or satisfies its part on its own. *)
LEMMA Carry ==
  ASSUME IInv, TypeOK', Keeps, now' = now,
         \A t \in tokens' : t \in tokens \/ TokenOK(t)',
         \A s \in Sessions' : s \in Sessions \/ SessionOK(s)',
         \A q \in Active' : q \in Active \/ RequestOK(q)'
  PROVE  IInv'
<1>1. TokensTypeOK /\ tokens \subseteq Token
  BY DEF IInv, TypeOK, TokensTypeOK
<1>2. \A t \in tokens' : TokenOK(t)'
  BY <1>1, TokenKeeps DEF IInv, Dated
<1>3. \A s \in Sessions : SessionOK(s)'
  <2> SUFFICES ASSUME NEW s \in Sessions PROVE SessionOK(s)'
    OBVIOUS
  <2>1. s \in Session /\ SessionOK(s)
    BY <1>1, SessionsAreSessions DEF IInv, Dated
  <2>2. s.kind # "idle" => now' <= s.at + MaxLag
    BY <2>1 DEF SessionOK, AtWork
  <2> QED BY <1>1, <2>1, <2>2, SessionKeeps
<1>4. \A q \in Active : RequestOK(q)'
  <2> SUFFICES ASSUME NEW q \in Active PROVE RequestOK(q)'
    OBVIOUS
  <2>1. q \in Request /\ RequestOK(q)
    BY ActiveRequests DEF IInv, Dated
  <2>2. now' <= q.at + MaxLag
    BY <2>1 DEF RequestOK, AtWork
  <2> QED BY <1>1, <2>1, <2>2, RequestKeeps
<1>5. Dated'
  BY <1>2, <1>3, <1>4 DEF Dated
<1> QED BY <1>5 DEF IInv

(* One session changes, or one request. *)
LEMMA SessionSet ==
  ASSUME TokensTypeOK, NEW p \in Procs, NEW s \in Session, Goto(p, s)
  PROVE  session' \in [Procs -> Session] /\ Sessions' \subseteq Sessions \cup {s}
BY DEF TokensTypeOK, Goto, Sessions

LEMMA RequestSet ==
  ASSUME TypeOK, NEW r \in Requests, NEW q \in Request \cup {NoRequest},
         req' = [req EXCEPT ![r] = q]
  PROVE  /\ req' \in [Requests -> Request \cup {NoRequest}]
         /\ Active' \subseteq Active \cup {q}
         /\ q = NoRequest => Active' \subseteq Active
BY DEF TypeOK, Active

-----------------------------------------------------------------------------
(* Sessions and tokens. *)

LEMMA LoginStep ==
  ASSUME IInv, NEW p \in Procs, NEW u \in Users, Login(p, u), UNCHANGED <<req, arrived>>
  PROVE  IInv'
<1>1. TokensTypeOK /\ now \in Times /\ now \in Int /\ MaxLag \in Nat
  BY TimesAreInts, Naturals DEF IInv, TypeOK, TokensTypeOK
<1>2. PICK s \in Session :
         s = [kind |-> "login", uid |-> u, row |-> users[u], at |-> now]
  BY <1>1, UserFields DEF Session
<1>3. Goto(p, s) /\ users[u].deletedAt = None
  BY <1>2 DEF Login
<1>4. s.kind = "login" /\ s.uid = u /\ s.row = users[u] /\ s.at = now
  BY <1>2
<1>5. session' \in [Procs -> Session] /\ Sessions' \subseteq Sessions \cup {s}
  BY <1>1, <1>3, SessionSet
<1>6. UNCHANGED <<users, tokens, now, former, edits>>
  BY DEF Login
<1>7. SessionOK(s)'
  BY <1>1, <1>3, <1>4, <1>6 DEF SessionOK, AtWork, RoleUntil, NotDeletedBefore
<1>8. TypeOK'
  BY <1>5, <1>6 DEF IInv, TypeOK, TokensTypeOK
<1>9. Keeps
  BY <1>1, <1>6, UnchangedKeeps
<1>10. Active' = Active
  BY DEF Active
<1> QED BY <1>5, <1>6, <1>7, <1>8, <1>9, <1>10, Carry

LEMMA RefreshStep ==
  ASSUME IInv, NEW p \in Procs, NEW t \in tokens, BeginRefresh(p, t),
         UNCHANGED <<req, arrived>>
  PROVE  IInv'
<1>1. TokensTypeOK /\ now \in Times /\ now \in Int /\ MaxLag \in Nat /\ RefreshTTL \in Nat
  BY TimesAreInts, Naturals DEF IInv, TypeOK, TokensTypeOK
<1>2. t \in Token /\ TokenOK(t)
  BY DEF IInv, TypeOK, TokensTypeOK, Dated
<1>3. now < t.exp /\ t.sub # None
  BY DEF BeginRefresh, ValidateToken
<1>4. t.sub \in Users /\ t.exp \in Nat
  BY <1>2, <1>3, TokenKinds
<1>5. PICK s \in Session :
         s = [kind |-> "refresh", uid |-> t.sub, row |-> users[t.sub], at |-> now]
  BY <1>1, <1>4, UserFields DEF Session
<1>6. Goto(p, s)
  BY <1>5 DEF BeginRefresh
<1>7. s.kind = "refresh" /\ s.uid = t.sub /\ s.row = users[t.sub] /\ s.at = now
  BY <1>5
<1>8. session' \in [Procs -> Session] /\ Sessions' \subseteq Sessions \cup {s}
  BY <1>1, <1>6, SessionSet
<1>9. UNCHANGED <<users, tokens, now, former, edits>>
  BY DEF BeginRefresh
<1>10. NotDeletedBefore(t.sub, now - RefreshTTL - MaxLag)
  <2>1. NotDeletedBefore(t.sub, t.exp - RefreshTTL - MaxLag)
    BY <1>2, <1>3 DEF TokenOK
  <2>2. users[t.sub].deletedAt = None \/ users[t.sub].deletedAt \in Int
    BY <1>1, <1>4, UserFields, TimesAreInts
  <2> QED BY <1>1, <1>3, <1>4, <2>1, <2>2 DEF NotDeletedBefore
<1>11. SessionOK(s)
  BY <1>1, <1>7, <1>10 DEF SessionOK, AtWork, RoleUntil
<1>12. TypeOK'
  BY <1>8, <1>9 DEF IInv, TypeOK, TokensTypeOK
<1>13. Keeps
  BY <1>1, <1>9, UnchangedKeeps
<1>14. Active' = Active
  BY DEF Active
<1>15. SessionOK(s)'
  BY <1>9, <1>11 DEF SessionOK, AtWork, RoleUntil, NotDeletedBefore
<1> QED BY <1>8, <1>9, <1>12, <1>13, <1>14, <1>15, Carry

(* What holds until a time holds until any earlier one. *)
LEMMA Earlier ==
  ASSUME TokensTypeOK, NEW u \in Users, NEW r, NEW t \in Int, NEW w \in Int, w <= t
  PROVE  /\ RoleUntil(u, r, t) => RoleUntil(u, r, w)
         /\ NotDeletedBefore(u, t) => NotDeletedBefore(u, w)
<1>1. \A f \in former : f.until \in Int
  BY TimesAreInts DEF TokensTypeOK
<1>2. users[u].deletedAt = None \/ users[u].deletedAt \in Int
  BY UserFields, TimesAreInts
<1>3. \A x \in Int : x >= t => x >= w
  OBVIOUS
<1> QED BY <1>1, <1>2, <1>3 DEF RoleUntil, NotDeletedBefore

(* The dates of the tokens signed for a session at work. *)
LEMMA Signed ==
  ASSUME TokensTypeOK, NEW s \in Session, SessionOK(s), s.kind # "idle"
  PROVE  /\ AccessToken(s) \in Token /\ TokenOK(AccessToken(s))
         /\ s.kind = "login" =>
              RefreshToken(s) \in Token /\ TokenOK(RefreshToken(s))
<1>1. /\ now \in Nat /\ s.at \in Int /\ s.at <= now /\ now <= s.at + MaxLag
      /\ AccessTTL \in Nat /\ RefreshTTL \in Nat /\ MaxLag \in Nat
      /\ s.uid \in Users /\ s.row \in User /\ s.row.org = users[s.uid].org
  BY TimesAreInts, Naturals, SessionKinds DEF TokensTypeOK, SessionOK, AtWork
<1>2. s.row.org \in Orgs /\ s.row.role \in Roles /\ s.uid # None
  BY <1>1, TokenConstants DEF User
<1>3. now + AccessTTL \in Nat /\ now + RefreshTTL \in Nat
  BY <1>1
<1>4. RoleUntil(s.uid, s.row.role, now - MaxLag)
  <2>1. RoleUntil(s.uid, s.row.role, s.at)
    BY DEF SessionOK
  <2>2. now - MaxLag \in Int /\ now - MaxLag <= s.at
    BY <1>1
  <2> QED BY <1>1, <2>1, <2>2, Earlier
<1>5. NotDeletedBefore(s.uid, now - RefreshTTL - 2 * MaxLag)
  <2>1. now - RefreshTTL - 2 * MaxLag \in Int
    BY <1>1
  <2>2. CASE s.kind = "login"
    <3>1. NotDeletedBefore(s.uid, s.at)
      BY <2>2 DEF SessionOK
    <3>2. now - RefreshTTL - 2 * MaxLag <= s.at
      BY <1>1
    <3> QED BY <1>1, <2>1, <3>1, <3>2, Earlier
  <2>3. CASE s.kind # "login"
    <3>1. NotDeletedBefore(s.uid, s.at - RefreshTTL - MaxLag)
      BY <2>3 DEF SessionOK
    <3>2. /\ s.at - RefreshTTL - MaxLag \in Int
          /\ now - RefreshTTL - 2 * MaxLag <= s.at - RefreshTTL - MaxLag
      BY <1>1
    <3> QED BY <1>1, <2>1, <3>1, <3>2, Earlier
  <2> QED BY <2>2, <2>3
<1>6. AccessToken(s) \in Token
  BY <1>1, <1>2, <1>3 DEF AccessToken, Token, Access
<1>7. TokenOK(AccessToken(s))
  <2>1. PICK a \in Token : a = AccessToken(s)
    BY <1>6
  <2>2. /\ a.uid = s.uid /\ a.oid = s.row.org /\ a.role = s.row.role
        /\ a.exp = now + AccessTTL /\ a.sub = None
    BY <2>1 DEF AccessToken
  <2>3. /\ a.exp - AccessTTL - MaxLag = now - MaxLag
        /\ a.exp - (RefreshTTL + AccessTTL + 2 * MaxLag) = now - RefreshTTL - 2 * MaxLag
        /\ a.exp <= now + AccessTTL
    BY <1>1, <2>2
  <2>4. TokenOK(a)
    BY <1>1, <1>4, <1>5, <2>2, <2>3 DEF TokenOK
  <2> QED BY <2>1, <2>4
<1>8. ASSUME s.kind = "login"
      PROVE  RefreshToken(s) \in Token /\ TokenOK(RefreshToken(s))
  <2>1. PICK a \in Token : a = RefreshToken(s)
    BY <1>1, <1>3 DEF RefreshToken, Token, Refresh
  <2>2. a.uid = None /\ a.sub = s.uid /\ a.exp = now + RefreshTTL
    BY <2>1 DEF RefreshToken
  <2>3. a.exp - RefreshTTL - MaxLag \in Int /\ a.exp - RefreshTTL - MaxLag <= s.at
        /\ a.exp <= now + RefreshTTL
    BY <1>1, <2>2
  <2>4. NotDeletedBefore(s.uid, s.at)
    BY <1>8 DEF SessionOK
  <2>5. NotDeletedBefore(s.uid, a.exp - RefreshTTL - MaxLag)
    BY <1>1, <2>3, <2>4, Earlier
  <2>6. TokenOK(a)
    BY <2>2, <2>3, <2>5 DEF TokenOK
  <2> QED BY <2>1, <2>6
<1> QED BY <1>6, <1>7, <1>8

LEMMA IdleIsOK == Idle \in Session /\ SessionOK(Idle) /\ SessionOK(Idle)'
BY DEF Session, Idle, SessionOK

LEMMA IssueStep ==
  ASSUME IInv, NEW p \in Procs, Issue(p), UNCHANGED <<req, arrived>>
  PROVE  IInv'
<1>1. TokensTypeOK /\ now \in Times
  BY DEF IInv, TypeOK, TokensTypeOK
<1>2. /\ session[p] \in Session /\ session[p].kind # "idle" /\ session[p] \in Sessions
      /\ SessionOK(session[p])
  BY <1>1 DEF IInv, Dated, Sessions, Issue, TokensTypeOK
<1>3. PICK a \in Token : a = AccessToken(session[p]) /\ TokenOK(a)
  BY <1>1, <1>2, Signed
<1>4. PICK B \in SUBSET Token :
        /\ B = IF session[p].kind = "login" THEN {RefreshToken(session[p])} ELSE {}
        /\ \A b \in B : TokenOK(b)
  <2> DEFINE C == IF session[p].kind = "login" THEN {RefreshToken(session[p])} ELSE {}
  <2>1. C \in SUBSET Token /\ \A b \in C : TokenOK(b)
    BY <1>1, <1>2, Signed
  <2> QED BY <2>1
<1>5. tokens' = tokens \cup {a} \cup B
  BY <1>3, <1>4 DEF Issue
<1>6. UNCHANGED <<users, now, former, edits>> /\ Goto(p, Idle)
  BY DEF Issue
<1>7. session' \in [Procs -> Session] /\ Sessions' \subseteq Sessions \cup {Idle}
  BY <1>1, <1>6, SessionSet, IdleIsOK
<1>8. TypeOK'
  BY <1>5, <1>6, <1>7 DEF IInv, TypeOK, TokensTypeOK
<1>9. Keeps
  BY <1>1, <1>6, TimesAreInts, UnchangedKeeps
<1>10. \A t \in tokens' : t \in tokens \/ TokenOK(t)'
  BY <1>1, <1>3, <1>4, <1>5, <1>9, TokenKeeps
<1>11. Active' = Active
  BY DEF Active
<1> QED BY <1>6, <1>7, <1>8, <1>9, <1>10, <1>11, IdleIsOK, Carry

LEMMA AbandonStep ==
  ASSUME IInv, NEW p \in Procs, Abandon(p), UNCHANGED <<req, arrived>>
  PROVE  IInv'
<1>1. TokensTypeOK /\ now \in Times
  BY DEF IInv, TypeOK, TokensTypeOK
<1>2. UNCHANGED <<users, tokens, now, former, edits>> /\ Goto(p, Idle)
  BY DEF Abandon
<1>3. session' \in [Procs -> Session] /\ Sessions' \subseteq Sessions \cup {Idle}
  BY <1>1, <1>2, SessionSet, IdleIsOK
<1>4. TypeOK' /\ Active' = Active
  BY <1>2, <1>3 DEF IInv, TypeOK, TokensTypeOK, Active
<1>5. Keeps
  BY <1>1, <1>2, TimesAreInts, UnchangedKeeps
<1> QED BY <1>2, <1>3, <1>4, <1>5, IdleIsOK, Carry

(* Rows of users are edited, and tokens forgotten. *)
LEMMA OutsideStep ==
  ASSUME IInv, Edit \/ (\E t \in tokens : Forget(t)), UNCHANGED <<req, arrived>>
  PROVE  IInv'
<1>1. TokensTypeOK
  BY DEF IInv, TypeOK
<1>2. Active' = Active /\ Sessions' = Sessions /\ now' = now /\ tokens' \subseteq tokens
  BY DEF Active, Sessions, Edit, DeleteUser, ChangeRole, Forget
<1>3. Keeps /\ TokensTypeOK'
  <2>1. CASE Edit
    BY <1>1, <2>1, ChangeRoleKeeps, DeleteUserKeeps DEF Edit
  <2>2. CASE \E t \in tokens : Forget(t)
    <3>1. UNCHANGED <<users, session, now, former, edits>>
      BY <2>2 DEF Forget
    <3>2. now \in Times /\ now' \in Times /\ now <= now'
      BY <1>1, <1>2, TimesAreInts DEF TokensTypeOK
    <3> QED BY <1>1, <1>2, <3>1, <3>2, UnchangedKeeps DEF TokensTypeOK
  <2> QED BY <2>1, <2>2
<1>4. TypeOK'
  BY <1>3 DEF IInv, TypeOK
<1> QED BY <1>2, <1>3, <1>4, Carry

LEMMA TickStep ==
  ASSUME IInv, Tick
  PROVE  IInv'
<1>1. TokensTypeOK /\ now \in Nat /\ MaxNow \in Nat /\ MaxLag \in Nat
  BY TimesAreInts, Naturals, TokenConstants DEF IInv, TypeOK, TokensTypeOK
<1>2. now' = now + 1 /\ now < MaxNow /\ UNCHANGED <<users, tokens, session, former, edits, req, arrived>>
  BY DEF Tick
<1>3. now' \in Times /\ now <= now'
  BY <1>1, <1>2 DEF Times
<1>4. Keeps /\ TypeOK'
  BY <1>1, <1>2, <1>3, UnchangedKeeps DEF IInv, TypeOK, TokensTypeOK
<1>5. Sessions' = Sessions /\ Active' = Active
  BY <1>2 DEF Sessions, Active
<1>6. \A t \in tokens' : TokenOK(t)'
  BY <1>1, <1>2, <1>4, TokenKeeps DEF IInv, Dated, TokensTypeOK
<1>7. \A s \in Sessions : SessionOK(s)'
  <2> SUFFICES ASSUME NEW s \in Sessions PROVE SessionOK(s)'
    OBVIOUS
  <2>1. s \in Session /\ SessionOK(s)
    BY <1>1, SessionsAreSessions DEF IInv, Dated
  <2>2. s.kind # "idle" => s.at \in Int /\ now - s.at < MaxLag
    BY <2>1, SessionKinds, TimesAreInts DEF Tick, Sessions
  <2>3. s.kind # "idle" => now' <= s.at + MaxLag
    BY <1>1, <1>2, <2>2
  <2> QED BY <1>1, <1>4, <2>1, <2>3, SessionKeeps
<1>8. \A q \in Active : RequestOK(q)'
  <2> SUFFICES ASSUME NEW q \in Active PROVE RequestOK(q)'
    OBVIOUS
  <2>1. q \in Request /\ RequestOK(q)
    BY ActiveRequests DEF IInv, Dated
  <2>2. q.at \in Int /\ now - q.at < MaxLag
    BY <2>1, RequestKinds, TimesAreInts DEF Tick, Active
  <2>3. now' <= q.at + MaxLag
    BY <1>1, <1>2, <2>2
  <2> QED BY <1>1, <1>4, <2>1, <2>3, RequestKeeps
<1> QED BY <1>4, <1>5, <1>6, <1>7, <1>8 DEF IInv, Dated

-----------------------------------------------------------------------------
(* Requests. *)

(* A step that replaces one request by another that is in order. *)
LEMMA Replaced ==
  ASSUME IInv, NEW r \in Requests, NEW q \in Request \cup {NoRequest},
         q = NoRequest \/ RequestOK(q),
         req' = [req EXCEPT ![r] = q], UNCHANGED tokenVars, arrived' \in 0 .. MaxRequests
  PROVE  IInv'
<1>1. TypeOK /\ TokensTypeOK /\ now \in Times
  BY DEF IInv, TypeOK, TokensTypeOK
<1>2. UNCHANGED <<users, tokens, session, now, former, edits>>
  BY DEF tokenVars
<1>3. /\ req' \in [Requests -> Request \cup {NoRequest}]
      /\ Active' \subseteq Active \cup {q}
      /\ q = NoRequest => Active' \subseteq Active
  BY <1>1, RequestSet
<1>4. TypeOK' /\ Sessions' = Sessions
  BY <1>1, <1>2, <1>3 DEF TypeOK, TokensTypeOK, Sessions
<1>5. Keeps
  BY <1>1, <1>2, TimesAreInts, UnchangedKeeps
<1>6. q # NoRequest => RequestOK(q)'
  <2> SUFFICES ASSUME q # NoRequest PROVE RequestOK(q)'
    OBVIOUS
  <2>1. q \in Request /\ RequestOK(q)
    OBVIOUS
  <2>2. now' <= q.at + MaxLag
    BY <1>2, <2>1 DEF RequestOK, AtWork
  <2> QED BY <1>1, <1>5, <2>1, <2>2, RequestKeeps
<1> QED BY <1>2, <1>3, <1>4, <1>5, <1>6, Carry

LEMMA AnsweredStep ==
  ASSUME IInv, NEW r \in Requests, Answered(r)
  PROVE  IInv'
<1>1. arrived' \in 0 .. MaxRequests
  BY DEF Answered, IInv, TypeOK
<1> QED BY <1>1, Replaced DEF Answered

LEMMA ArriveStep ==
  ASSUME IInv, NEW r \in Requests, NEW route \in Routes, NEW t \in tokens \cup {None},
         Arrive(r, route, t)
  PROVE  IInv'
<1>1. now \in Times /\ now \in Int /\ MaxLag \in Nat /\ tokens \subseteq Token
      /\ arrived \in 0 .. MaxRequests /\ MaxRequests \in Nat
  BY TimesAreInts, Naturals, PipelineConstants DEF IInv, TypeOK, TokensTypeOK
<1>2. PICK q \in Request :
        q = [pos |-> 1, route |-> route, token |-> t, context |-> {Params},
             claims |-> None, tenant |-> None, at |-> now]
  <2>1. t \in Token \cup {None} /\ {Params} \in SUBSET ContextKeys
    BY <1>1 DEF ContextKeys
  <2>2. [pos |-> 1, route |-> route, token |-> t, context |-> {Params},
         claims |-> None, tenant |-> None, at |-> now] \in Request
    BY <1>1, <2>1 DEF Request
  <2> QED BY <2>2
<1>3. q.pos = 1 /\ q.route = route /\ q.token = t /\ q.claims = None /\ q.at = now
  BY <1>2
<1>4. q.token # None => TokenOK(q.token)
  BY <1>3 DEF IInv, Dated
<1>5. Len(q.route.chain) >= 0 /\ Len(q.route.chain) \in Int
  BY <1>3, Chains, ChainLengths
<1>6. Passed(q)
  BY <1>3, <1>5 DEF Passed
<1>7. RequestOK(q)
  BY <1>1, <1>3, <1>4, <1>6 DEF RequestOK, AtWork
<1>8. arrived' \in 0 .. MaxRequests /\ UNCHANGED tokenVars /\ req' = [req EXCEPT ![r] = q]
  BY <1>1, <1>2 DEF Arrive
<1> QED BY <1>7, <1>8, Replaced

(* The request a middleware has in hand. *)
LEMMA InHand ==
  ASSUME IInv, NEW r \in Requests, Stage(r) # "none"
  PROVE  /\ req[r] \in Request /\ req[r] \in Active /\ RequestOK(req[r])
         /\ req[r].route.chain \in {Public, Member, Manager, Limited}
         /\ Stage(r) = Chain(req[r].route.chain, req[r].pos)
<1>1. req[r] # NoRequest /\ req[r] \in Request /\ req[r] \in Active
  BY DEF Stage, IInv, TypeOK, Active
<1> QED BY <1>1, Chains, RequestKinds DEF Stage, IInv, Dated

(* A request that is passed on with q in its place. *)
LEMMA ForwardStep ==
  ASSUME IInv, NEW r \in Requests, Stage(r) \in {"auth", "tenant", "role", "rate"},
         NEW q \in Request, Forward(r, q), RequestOK(q),
         q.pos = req[r].pos, q.route = req[r].route,
         Stage(r) = "auth" => q.claims # None /\ Claims \in q.context,
         Stage(r) = "tenant" => q.tenant = q.claims.oid /\ q.claims.oid # None,
         Stage(r) = "role" => q.claims.role \in q.route.roles
  PROVE  IInv'
<1> DEFINE c == q.route.chain
           i == q.pos
<1>1. /\ c \in {Public, Member, Manager, Limited} /\ i \in 1 .. 4
      /\ Stage(r) = Chain(c, i)
  BY InHand, RequestKinds
<1>2. Stage(r) # "handler"
  OBVIOUS
<1>3. /\ Len(c) \in 0 .. 3 /\ i <= Len(c) /\ i + 1 \in 1 .. 4
      /\ Stage(r) = "auth"   => c # Public /\ i = 1
      /\ Stage(r) = "tenant" => c # Public /\ i = 2
      /\ Stage(r) = "role"   => c = Manager /\ i = 3
      /\ Stage(r) = "rate"   => c = Limited /\ i = 3
  BY <1>1, <1>2, Stages
<1>4. PICK n \in Request : n = [q EXCEPT !.pos = i + 1]
  BY <1>3 DEF Request
<1>5. /\ n.pos = i + 1 /\ n.route = q.route /\ n.token = q.token /\ n.at = q.at
      /\ n.context = q.context /\ n.claims = q.claims /\ n.tenant = q.tenant
  BY <1>4 DEF Request
<1>6. Passed(n)
  <2>1. Passed(q)
    BY DEF RequestOK
  <2>2. n.pos <= Len(n.route.chain) + 1
    BY <1>1, <1>3, <1>5
  <2>3. (c # Public /\ n.pos >= 2) => n.claims # None /\ Claims \in n.context
    BY <1>1, <1>3, <1>5, <2>1 DEF Passed
  <2>4. (c # Public /\ n.pos >= 3) => n.tenant = n.claims.oid /\ n.claims.oid # None
    BY <1>1, <1>3, <1>5, <2>1 DEF Passed
  <2>5. (c = Manager /\ n.pos >= 4) => n.claims.role \in n.route.roles
    BY <1>1, <1>3, <1>5, <2>1, ChainLengths DEF Passed, Manager, Limited
  <2> QED BY <1>5, <2>2, <2>3, <2>4, <2>5 DEF Passed
<1>7. RequestOK(n)
  BY <1>5, <1>6 DEF RequestOK
<1>8. req' = [req EXCEPT ![r] = n] /\ UNCHANGED tokenVars
  BY <1>4 DEF Forward
<1>9. arrived' \in 0 .. MaxRequests
  BY DEF Forward, IInv, TypeOK
<1> QED BY <1>7, <1>8, <1>9, Replaced

LEMMA AuthenticateStep ==
  ASSUME IInv, NEW r \in Requests, Authenticate(r)
  PROVE  IInv'
<1>1. CASE Answered(r)
  BY <1>1, AnsweredStep
<1>2. CASE ~Answered(r)
  <2>1. PICK q \in Request : q = req[r] /\ RequestOK(q) /\ q.pos = 1
    <3>1. req[r].pos = 1
      BY InHand, RequestKinds, Stages DEF Authenticate
    <3> QED BY <3>1, InHand DEF Authenticate
  <2>2. /\ Stage(r) = "auth" /\ q.token # None /\ now < q.token.exp
        /\ Forward(r, [q EXCEPT !.context = @ \cup {Claims}, !.claims = q.token])
    BY <1>2, <2>1 DEF Authenticate, ValidateToken
  <2>3. PICK n \in Request :
          n = [q EXCEPT !.context = @ \cup {Claims}, !.claims = q.token]
    BY <2>1, <2>2 DEF Request, ContextKeys
  <2>4. /\ n.pos = q.pos /\ n.route = q.route /\ n.token = q.token /\ n.at = q.at
        /\ n.claims = q.token /\ Claims \in n.context
    BY <2>3 DEF Request
  <2>5. Passed(n)
    BY <2>1, <2>4 DEF RequestOK, Passed
  <2>6. n.at < n.claims.exp
    <3>1. q.at \in Int /\ now \in Int /\ q.token.exp \in Int
      BY <2>1, <2>2, RequestKinds, TokenKinds, TimesAreInts DEF IInv, TypeOK, TokensTypeOK
    <3>2. q.at <= now
      BY <2>1 DEF RequestOK, AtWork
    <3> QED BY <2>2, <2>4, <3>1, <3>2
  <2>7. RequestOK(n)
    BY <2>1, <2>2, <2>4, <2>5, <2>6 DEF RequestOK
  <2>8. Forward(r, n)
    BY <2>2, <2>3
  <2> QED BY <2>1, <2>2, <2>4, <2>7, <2>8, ForwardStep
<1> QED BY <1>1, <1>2

LEMMA FindTenantStep ==
  ASSUME IInv, NEW r \in Requests, FindTenant(r)
  PROVE  IInv'
<1>1. CASE Answered(r)
  BY <1>1, AnsweredStep
<1>2. CASE ~Answered(r)
  <2>1. PICK q \in Request :
          q = req[r] /\ RequestOK(q) /\ q.pos = 2 /\ q.route.chain # Public
    <3>1. req[r].pos = 2 /\ req[r].route.chain # Public
      BY InHand, RequestKinds, Stages DEF FindTenant
    <3> QED BY <3>1, InHand DEF FindTenant
  <2>2. /\ Stage(r) = "tenant" /\ q.claims.oid # None /\ q.claims # None
        /\ Forward(r, [q EXCEPT !.context = @ \cup {Tenant}, !.tenant = q.claims.oid])
    BY <1>2, <2>1 DEF FindTenant, RequestOK, Passed
  <2>3. q.claims \in Token /\ q.claims.oid \in Orgs
    BY <2>1, <2>2, RequestKinds, TokenKinds
  <2>4. PICK n \in Request :
          n = [q EXCEPT !.context = @ \cup {Tenant}, !.tenant = q.claims.oid]
    BY <2>1, <2>3 DEF Request, ContextKeys
  <2>5. /\ n.pos = q.pos /\ n.route = q.route /\ n.token = q.token /\ n.at = q.at
        /\ n.claims = q.claims /\ n.tenant = n.claims.oid
        /\ Claims \in q.context => Claims \in n.context
    BY <2>4 DEF Request
  <2>6. RequestOK(n)
    BY <2>1, <2>2, <2>5 DEF RequestOK, Passed
  <2>7. Forward(r, n)
    BY <2>2, <2>4
  <2> QED BY <2>1, <2>2, <2>5, <2>6, <2>7, ForwardStep
<1> QED BY <1>1, <1>2

LEMMA RequireRoleStep ==
  ASSUME IInv, NEW r \in Requests, RequireRole(r)
  PROVE  IInv'
<1>1. Stage(r) = "role"
  BY DEF RequireRole
<1>2. PICK q \in Request : q = req[r] /\ RequestOK(q)
  BY <1>1, InHand
<1>3. (Forward(r, q) /\ q.claims.role \in q.route.roles) \/ Answered(r)
  BY <1>2 DEF RequireRole
<1> QED BY <1>1, <1>2, <1>3, AnsweredStep, ForwardStep

LEMMA LimitRateStep ==
  ASSUME IInv, NEW r \in Requests, LimitRate(r)
  PROVE  IInv'
<1>1. Stage(r) = "rate"
  BY DEF LimitRate
<1>2. PICK q \in Request : q = req[r] /\ RequestOK(q)
  BY <1>1, InHand
<1>3. Forward(r, q) \/ Answered(r)
  BY <1>2 DEF LimitRate
<1> QED BY <1>1, <1>2, <1>3, AnsweredStep, ForwardStep

-----------------------------------------------------------------------------
(* The invariant holds from the start and through every step. *)

LEMMA Start == Init => IInv
<1> SUFFICES ASSUME Init PROVE IInv
  OBVIOUS
<1>1. 0 \in Times /\ 0 \in 0 .. MaxEdits /\ 0 \in 0 .. MaxRequests
  BY TokenConstants, PipelineConstants DEF Times
<1>2. TypeOK
  BY <1>1, InitUsersAreUsers DEF Init, TokensInit, TypeOK, TokensTypeOK, Session
<1>3. \A s \in Sessions : SessionOK(s)
  BY IdleIsOK DEF Init, TokensInit, Sessions
<1>4. Active = {}
  BY DEF Init, Active
<1> QED BY <1>2, <1>3, <1>4 DEF Init, TokensInit, IInv, Dated

LEMMA Inductive == IInv /\ [Next]_vars => IInv'
<1> SUFFICES ASSUME IInv, [Next]_vars PROVE IInv'
  OBVIOUS
<1>1. ASSUME NEW p \in Procs, SessionStep(p), UNCHANGED <<req, arrived>>
      PROVE  IInv'
  BY <1>1, LoginStep, RefreshStep, IssueStep, AbandonStep DEF SessionStep
<1>2. CASE (Edit \/ \E t \in tokens : Forget(t)) /\ UNCHANGED <<req, arrived>>
  BY <1>2, OutsideStep
<1>3. ASSUME NEW r \in Requests, Pass(r)
      PROVE  IInv'
  BY <1>3, AuthenticateStep, FindTenantStep, RequireRoleStep, LimitRateStep, AnsweredStep
     DEF Pass, Handle, Fail
<1>4. ASSUME NEW r \in Requests, NEW route \in Routes, NEW t \in tokens \cup {None},
             Arrive(r, route, t)
      PROVE  IInv'
  BY <1>4, ArriveStep
<1>5. CASE Tick
  BY <1>5, TickStep
<1>6. CASE UNCHANGED vars
  BY <1>6 DEF vars, IInv, TypeOK, TokensTypeOK, Dated, Sessions, Active, TokenOK,
              SessionOK, RequestOK, RoleUntil, NotDeletedBefore, AtWork, Passed
<1> QED BY <1>1, <1>2, <1>3, <1>4, <1>5, <1>6 DEF Next

-----------------------------------------------------------------------------
(* What follows from the invariant. *)

LEMMA EndOfSessions == IInv => SessionsEnd
<1> SUFFICES ASSUME IInv, NEW t \in tokens, t.uid # None, now < t.exp,
                    users[t.uid].deletedAt # None
             PROVE  now < users[t.uid].deletedAt + RefreshTTL + AccessTTL + 2 * MaxLag
  BY DEF SessionsEnd, ValidateToken
<1>1. t \in Token /\ TokenOK(t) /\ TokensTypeOK
  BY DEF IInv, TypeOK, TokensTypeOK, Dated
<1>2. /\ t.exp \in Int /\ users[t.uid].deletedAt \in Int /\ now \in Int
      /\ AccessTTL \in Int /\ RefreshTTL \in Int /\ MaxLag \in Int
  BY <1>1, TokenKinds, UserFields, TimesAreInts, Naturals DEF TokensTypeOK
<1>3. users[t.uid].deletedAt >= t.exp - (RefreshTTL + AccessTTL + 2 * MaxLag)
  BY <1>1 DEF TokenOK, NotDeletedBefore
<1> QED BY <1>2, <1>3

LEMMA Authorized == IInv => AuthorizedRecently
<1> SUFFICES ASSUME IInv, NEW r \in Requests, Stage(r) = "handler",
                    req[r].route.chain # Public
             PROVE  LET c == req[r].claims IN
                    /\ c.uid # None
                    /\ req[r].tenant = users[c.uid].org
                    /\ req[r].route.roles = {} \/ c.role \in req[r].route.roles
                    /\ HadRole(c.uid, c.role)
  BY DEF AuthorizedRecently
<1>1. PICK q \in Request : q = req[r] /\ RequestOK(q)
  BY InHand
<1>2. PICK c \in Token \cup {None} : c = q.claims
  BY RequestKinds
<1>3. q.pos >= 3 /\ (q.route.chain = Manager => q.pos >= 4) /\ q.pos \in Int
  BY <1>1, InHand, RequestKinds, Stages
<1>4. c # None /\ q.tenant = c.oid /\ c.oid # None
  BY <1>1, <1>2, <1>3 DEF RequestOK, Passed
<1>5. c \in Token /\ TokenOK(c) /\ q.at < c.exp /\ AtWork(q.at)
  BY <1>1, <1>2, <1>4 DEF RequestOK
<1>6. c.uid # None /\ c.oid = users[c.uid].org
  BY <1>4, <1>5, TokenKinds DEF TokenOK
<1>7. q.route.roles = {} \/ c.role \in q.route.roles
  BY <1>1, <1>2, <1>3, Chains, RequestKinds DEF RequestOK, Passed
<1>8. HadRole(c.uid, c.role)
  <2>1. RoleUntil(c.uid, c.role, c.exp - AccessTTL - MaxLag)
    BY <1>5, <1>6 DEF TokenOK
  <2>2. /\ c.exp \in Int /\ now \in Int /\ q.at \in Int /\ now <= q.at + MaxLag
        /\ AccessTTL \in Int /\ MaxLag \in Int
    BY <1>5, TokenKinds, RequestKinds, TimesAreInts, Naturals
       DEF IInv, TypeOK, TokensTypeOK, AtWork
  <2>3. \A f \in former : f.until \in Int
    BY TimesAreInts DEF IInv, TypeOK, TokensTypeOK
  <2>4. \A x \in Int : x >= c.exp - AccessTTL - MaxLag => now < x + AccessTTL + 2 * MaxLag
    BY <1>5, <2>2
  <2> QED BY <2>1, <2>3, <2>4 DEF RoleUntil, HadRole
<1> QED BY <1>1, <1>2, <1>4, <1>6, <1>7, <1>8

LEMMA ClaimsAreThere == IInv => ClaimsBeforeRoles
<1> SUFFICES ASSUME IInv, NEW r \in Requests, Stage(r) = "role"
             PROVE  Claims \in req[r].context
  BY DEF ClaimsBeforeRoles
<1>1. RequestOK(req[r]) /\ req[r].route.chain = Manager /\ req[r].pos = 3
  BY InHand, RequestKinds, Stages
<1> QED BY <1>1, ChainLengths DEF RequestOK, Passed

LEMMA AlwaysIInv == Spec => []IInv
BY Start, Inductive, PTL DEF Spec

(* Every variable keeps its type. *)
THEOREM PipelineTypes == Spec => []TypeOK
<1>1. IInv => TypeOK
  BY DEF IInv
<1> QED BY <1>1, AlwaysIInv, PTL

(* However many refreshes a client strings together, and whether or not Refresh
   looks at deleted_at, no access token of a deleted user is good for longer than
   a refresh token and an access token live, and twice the time a request takes. *)
THEOREM SessionsOfDeletedUsersEnd == Spec => []SessionsEnd
BY AlwaysIInv, EndOfSessions, PTL

(* A handler behind the middlewares runs for the organization of the user whose
   token was sent, and in a role of the route that the user has or had a moment
   ago. *)
THEOREM HandlersAreAuthorized == Spec => []AuthorizedRecently
BY AlwaysIInv, Authorized, PTL

(* requireRole never runs before AuthMiddleware has stored the claims: its
   unchecked type assertion does not panic on any route of the router. *)
THEOREM RolesAfterClaims == Spec => []ClaimsBeforeRoles
BY AlwaysIInv, ClaimsAreThere, PTL
-----------------------------------------------------------------------------
(* How far the disagreement that request_pipeline_context shows goes. *)

(* What is in the context of a request, by the middlewares it has passed. *)
Stored(chain, pos) ==
  {Params} \cup (IF chain # Public /\ pos >= 2 THEN {Claims} ELSE {})
           \cup (IF chain # Public /\ pos >= 3 THEN {Tenant} ELSE {})

ContextStored ==
  \A r \in Requests :
    req[r] # NoRequest => req[r].context = Stored(req[r].route.chain, req[r].pos)

PlainKeys == {PlainParams, PlainClaims, PlainTenant}

(* A handler misses something exactly when it asks for one of the plain keys, and
   then it misses it on every request. *)
OnlyPlainKeysAreMissing ==
  \A r \in Requests : Stage(r) = "handler" =>
    req[r].route.asks \ req[r].context = req[r].route.asks \cap PlainKeys

(* No public handler asks for what only a middleware stores. *)
LEMMA Asks ==
  ASSUME NEW route \in Routes
  PROVE  /\ route.asks \subseteq ContextKeys
         /\ route.chain = Public => route.asks \subseteq {Params} \cup PlainKeys
BY DEF Routes, Route, ContextKeys, PlainKeys, Public, Member, Manager, Limited

LEMMA ForwardStores ==
  ASSUME IInv, ContextStored, NEW r \in Requests, NEW q \in Request, Forward(r, q),
         q.context = Stored(q.route.chain, q.pos + 1)
  PROVE  ContextStored'
<1>1. PICK n : n = [q EXCEPT !.pos = @ + 1]
  OBVIOUS
<1>2. n.route = q.route /\ n.context = q.context /\ n.pos = q.pos + 1
  BY <1>1 DEF Request
<1>3. req' = [req EXCEPT ![r] = n]
  BY <1>1 DEF Forward
<1>4. \A p \in Requests : req'[p] = IF p = r THEN n ELSE req[p]
  BY <1>3 DEF IInv, TypeOK
<1>5. n.context = Stored(n.route.chain, n.pos)
  BY <1>2
<1>6. ASSUME NEW p \in Requests, req'[p] # NoRequest
      PROVE  req'[p].context = Stored(req'[p].route.chain, req'[p].pos)
  BY <1>4, <1>5, <1>6 DEF ContextStored
<1> QED BY <1>6 DEF ContextStored, Stored

LEMMA StoredKeeps ==
  ASSUME IInv, ContextStored, [Next]_vars
  PROVE  ContextStored'
<1>1. ASSUME req' = req PROVE ContextStored'
  BY <1>1 DEF ContextStored, Stored
<1>2. ASSUME NEW r \in Requests, Answered(r) PROVE ContextStored'
  <2>1. \A p \in Requests : req'[p] = IF p = r THEN NoRequest ELSE req[p]
    BY <1>2 DEF Answered, IInv, TypeOK
  <2> QED BY <2>1 DEF ContextStored, Stored
<1>3. ASSUME NEW r \in Requests, NEW route \in Routes, NEW t, Arrive(r, route, t)
      PROVE  ContextStored'
  <2>1. PICK q : q = [pos |-> 1, route |-> route, token |-> t, context |-> {Params},
                      claims |-> None, tenant |-> None, at |-> now]
    OBVIOUS
  <2>2. \A p \in Requests : req'[p] = IF p = r THEN q ELSE req[p]
    BY <1>3, <2>1 DEF Arrive, IInv, TypeOK
  <2>3. q.context = Stored(q.route.chain, q.pos)
    BY <2>1 DEF Stored
  <2>4. ASSUME NEW p \in Requests, req'[p] # NoRequest
        PROVE  req'[p].context = Stored(req'[p].route.chain, req'[p].pos)
    BY <2>2, <2>3, <2>4 DEF ContextStored
  <2> QED BY <2>4 DEF ContextStored, Stored
<1>4. ASSUME NEW r \in Requests, Stage(r) # "none"
      PROVE  /\ req[r] \in Request /\ req[r].pos \in 1 .. 4
             /\ req[r].route.chain \in {Public, Member, Manager, Limited}
             /\ Stage(r) = Chain(req[r].route.chain, req[r].pos)
             /\ req[r].context = Stored(req[r].route.chain, req[r].pos)
  BY <1>4, InHand, RequestKinds DEF ContextStored, Stage
<1>5. ASSUME NEW r \in Requests, Authenticate(r) PROVE ContextStored'
  <2>1. Stage(r) = "auth"
    BY <1>5 DEF Authenticate
  <2>2. PICK q \in Request : /\ q = req[r] /\ q.pos = 1 /\ q.route.chain # Public
                             /\ q.context = Stored(q.route.chain, 1)
    BY <1>4, <2>1, Stages
  <2>3. CASE q.token # None /\ ValidateToken(q.token)
    <3>1. PICK n \in Request :
            n = [q EXCEPT !.context = @ \cup {Claims}, !.claims = q.token]
      BY <2>3 DEF Request, ContextKeys
    <3>2. /\ n.route = q.route /\ n.pos = 1 /\ n.context = q.context \cup {Claims}
      BY <2>2, <3>1 DEF Request
    <3>3. Forward(r, n)
      BY <1>5, <2>2, <2>3, <3>1 DEF Authenticate
    <3>4. n.context = Stored(n.route.chain, n.pos + 1)
      BY <2>2, <3>2 DEF Stored
    <3> QED BY <3>3, <3>4, ForwardStores
  <2> QED BY <1>2, <1>5, <2>2, <2>3 DEF Authenticate
<1>6. ASSUME NEW r \in Requests, FindTenant(r) PROVE ContextStored'
  <2>1. Stage(r) = "tenant"
    BY <1>6 DEF FindTenant
  <2>2. PICK q \in Request : /\ q = req[r] /\ q.pos = 2 /\ q.route.chain # Public
                             /\ q.context = Stored(q.route.chain, 2)
    BY <1>4, <2>1, Stages
  <2>3. CASE Claims \in q.context /\ q.claims.oid # None
    <3>1. q.claims # None
      BY <2>1, <2>2, InHand DEF RequestOK, Passed
    <3>2. q.claims.oid \in Orgs
      BY <2>3, <3>1, RequestKinds, TokenKinds
    <3>3. PICK n \in Request :
            n = [q EXCEPT !.context = @ \cup {Tenant}, !.tenant = q.claims.oid]
      BY <3>2 DEF Request, ContextKeys
    <3>4. /\ n.route = q.route /\ n.pos = 2 /\ n.context = q.context \cup {Tenant}
      BY <2>2, <3>3 DEF Request
    <3>5. Forward(r, n)
      BY <1>6, <2>2, <2>3, <3>3 DEF FindTenant
    <3>6. n.context = Stored(n.route.chain, n.pos + 1)
      BY <2>2, <3>4 DEF Stored
    <3> QED BY <3>5, <3>6, ForwardStores
  <2> QED BY <1>2, <1>6, <2>2, <2>3 DEF FindTenant
<1>7. ASSUME NEW r \in Requests, RequireRole(r) \/ LimitRate(r) PROVE ContextStored'
  <2>1. Stage(r) \in {"role", "rate"}
    BY <1>7 DEF RequireRole, LimitRate
  <2>2. PICK q \in Request : /\ q = req[r] /\ q.pos = 3
                             /\ q.context = Stored(q.route.chain, 3)
    BY <1>4, <2>1, Stages
  <2>3. q.context = Stored(q.route.chain, q.pos + 1)
    BY <2>2 DEF Stored
  <2>4. Forward(r, q) \/ Answered(r)
    BY <1>7, <2>2 DEF RequireRole, LimitRate
  <2> QED BY <1>2, <2>3, <2>4, ForwardStores
<1>8. ASSUME NEW r \in Requests, Handle(r) \/ Fail(r) PROVE ContextStored'
  BY <1>2, <1>8 DEF Handle, Fail
<1>9. Tick \/ UNCHANGED vars => req' = req
  BY DEF Tick, vars
<1> QED BY <1>1, <1>3, <1>5, <1>6, <1>7, <1>8, <1>9 DEF Next, Pass

(* A handler that takes its values under the typed keys always finds them, on every
   route and whatever the token; one that asks for a plain string never does. *)
THEOREM TypedContextIsFound == Spec => []OnlyPlainKeysAreMissing
<1>1. Init => ContextStored
  BY DEF Init, ContextStored
<1>2. IInv /\ ContextStored /\ [Next]_vars => ContextStored'
  BY StoredKeeps
<1>3. ASSUME IInv, ContextStored, NEW r \in Requests, Stage(r) = "handler"
      PROVE  req[r].route.asks \ req[r].context = req[r].route.asks \cap PlainKeys
  <2>1. PICK q \in Request : q = req[r] /\ q # NoRequest
    BY <1>3, InHand DEF Stage
  <2>2. /\ q.route \in Routes /\ q.pos \in 1 .. 4
        /\ q.context = Stored(q.route.chain, q.pos)
    BY <1>3, <2>1, RequestKinds DEF ContextStored
  <2>3. q.route.chain # Public => q.pos >= 3
    BY <1>3, <2>1, InHand, RequestKinds, Stages
  <2>4. q.route.chain = Public => q.context = {Params}
    BY <2>2 DEF Stored
  <2>5. q.route.chain # Public => q.context = {Params, Claims, Tenant}
    BY <2>2, <2>3 DEF Stored
  <2>6. /\ {Params, Claims, Tenant} \cap PlainKeys = {}
        /\ ContextKeys = {Params, Claims, Tenant} \cup PlainKeys
    BY DEF ContextKeys, PlainKeys, Params, Claims, Tenant,
           PlainParams, PlainClaims, PlainTenant
  <2> QED BY <2>1, <2>2, <2>4, <2>5, <2>6, Asks
<1>4. IInv /\ ContextStored => OnlyPlainKeysAreMissing
  BY <1>3 DEF OnlyPlainKeysAreMissing
<1> QED BY <1>1, <1>2, <1>4, AlwaysIInv, PTL DEF Spec
=============================================================================
