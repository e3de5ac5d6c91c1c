------------------------------- MODULE Tokens -------------------------------
(***************************************************************************)
(* Login, refresh and the two kinds of token.  The server keeps no record  *)
(* of a session: a token is good until it expires, an access token carries *)
(* the role and organization its user had when it was signed, and a        *)
(* refresh token fetches a new one from the users table.  Nothing is       *)
(* revoked; what bounds the life of a session whose user has been deleted, *)
(* or has lost a role, are the expiry times alone.                         *)
(*                                                                         *)
(* Signatures are taken to be sound: a token that was not issued here is a *)
(* token that cannot be used.                                              *)
(***************************************************************************)
EXTENDS Integers, FiniteSets

CONSTANTS
  Users, Orgs, Roles,
  Procs,         \* goroutines of login and refresh requests
  InitUsers,     \* the rows of users when the server starts
  None,          \* an empty string in a claim, a NULL in a row
  AccessTTL, RefreshTTL,
  MaxLag,        \* assumed: how long a request is at work
  MaxNow,        \* bound: how far the clock runs
  MaxTokens,     \* bound: tokens in circulation
  MaxEdits       \* bound: changes of a row of users

ASSUME TokenConstants ==
  /\ None \notin Users \cup Orgs \cup Roles
  /\ AccessTTL \in Nat /\ RefreshTTL \in Nat
  /\ MaxLag \in Nat /\ MaxNow \in Nat /\ MaxTokens \in Nat /\ MaxEdits \in Nat

ASSUME NoneIsNoTime == None \notin Int

Times == 0 .. MaxNow

User == [org : Orgs, role : Roles, deletedAt : Times \cup {None}]

ASSUME InitUsersAreUsers == InitUsers \in [Users -> User]

VARIABLES
  users,         \* the rows of users
  tokens,        \* the tokens handed out
  session,       \* session[p] : the login or refresh p is at work on
  now,           \* the wall clock
  former,        \* history: roles users no longer have, and until when
  edits          \* how often a row was changed

tokenVars == <<users, tokens, session, now, former, edits>>

(* auth.Claims: an access token has no Subject, a refresh token nothing else. *)
Access  == [sub : {None}, uid : Users, oid : Orgs, role : Roles, exp : Nat]
Refresh == [sub : Users, uid : {None}, oid : {None}, role : {None}, exp : Nat]
Token   == Access \cup Refresh

Idle == [kind |-> "idle"]
(* The row has been read (at), and for a refresh the token checked. *)
Session == {Idle} \cup [kind : {"login", "refresh"}, uid : Users, row : User,
                        at : Times]

TokensTypeOK ==
  /\ users \in [Users -> User]
  /\ tokens \subseteq Token
  /\ session \in [Procs -> Session]
  /\ now \in Times
  /\ former \subseteq [uid : Users, role : Roles, until : Times]
  /\ edits \in 0 .. MaxEdits

TokensInit ==
  /\ users = InitUsers
  /\ tokens = {}
  /\ session = [p \in Procs |-> Idle]
  /\ now = 0
  /\ former = {}
  /\ edits = 0

(* ValidateToken: exp must lie ahead. *)
ValidateToken(t) == now < t.exp

Goto(p, s) == session' = [session EXCEPT ![p] = s]

-----------------------------------------------------------------------------
(* Login: GetByEmail, the test of deleted_at, bcrypt.  Everything else is a
   401, or a 500 when the query fails. *)
Login(p, u) ==
  /\ session[p] = Idle
  /\ users[u].deletedAt = None
  /\ Goto(p, [kind |-> "login", uid |-> u, row |-> users[u], at |-> now])
  /\ UNCHANGED <<users, tokens, now, former, edits>>

(* Variant: the identity taken from whichever claim is there. *)
RefreshAnyToken(p, t) ==
  /\ session[p] = Idle
  /\ ValidateToken(t)
  /\ LET u == IF t.sub = None THEN t.uid ELSE t.sub IN
     Goto(p, [kind |-> "refresh", uid |-> u, row |-> users[u], at |-> now])
  /\ UNCHANGED <<users, tokens, now, former, edits>>

(* Refresh: any valid token will do, but GetByID is asked for its Subject, which
   no row has when it is empty.  deleted_at is not looked at. *)
BeginRefresh(p, t) ==
  /\ session[p] = Idle
  /\ ValidateToken(t) /\ t.sub # None
  /\ Goto(p, [kind |-> "refresh", uid |-> t.sub, row |-> users[t.sub], at |-> now])
  /\ UNCHANGED <<users, tokens, now, former, edits>>

(* Variant: the life of the other token. *)
AccessTokenLong(s) ==
  [sub |-> None, uid |-> s.uid, oid |-> s.row.org, role |-> s.row.role,
   exp |-> now + RefreshTTL]

(* Variant: signed from the claims of the token that was sent. *)
AccessTokenOfClaims(s) ==
  [sub |-> None, uid |-> s.uid, oid |-> IF s.kind = "login" THEN s.row.org ELSE None,
   role |-> IF s.kind = "login" THEN s.row.role ELSE None, exp |-> now + AccessTTL]

(* GenerateAccessToken, from the row as it was read. *)
AccessToken(s) ==
  [sub |-> None, uid |-> s.uid, oid |-> s.row.org, role |-> s.row.role,
   exp |-> now + AccessTTL]

(* GenerateRefreshToken *)
RefreshToken(s) ==
  [sub |-> s.uid, uid |-> None, oid |-> None, role |-> None,
   exp |-> now + RefreshTTL]

(* The tokens are signed and sent: both after a login, the access token after a
   refresh.  last_login_at, which a login writes and nothing reads, is left out. *)
Issue(p) ==
  LET s == session[p] IN
  /\ s.kind # "idle"
  /\ tokens' = tokens \cup {AccessToken(s)}
                 \cup (IF s.kind = "login" THEN {RefreshToken(s)} ELSE {})
  /\ Cardinality(tokens') <= MaxTokens
  /\ Goto(p, Idle)
  /\ UNCHANGED <<users, now, former, edits>>

(* Signing fails, or the answer is lost. *)
Abandon(p) ==
  /\ session[p].kind # "idle"
  /\ Goto(p, Idle)
  /\ UNCHANGED <<users, tokens, now, former, edits>>

-----------------------------------------------------------------------------
(* What happens to a row of users outside this code: PATCH /users/:id/role and
   DELETE /users/:id answer 501, so an operator does it in the database. *)
ChangeRole(u, r) ==
  /\ edits < MaxEdits /\ edits' = edits + 1
  /\ users[u].role # r
  /\ former' = former \cup {[uid |-> u, role |-> users[u].role, until |-> now]}
  /\ users' = [users EXCEPT ![u].role = r]
  /\ UNCHANGED <<tokens, session, now>>

DeleteUser(u) ==
  /\ edits < MaxEdits /\ edits' = edits + 1
  /\ users[u].deletedAt = None
  /\ users' = [users EXCEPT ![u].deletedAt = now]
  /\ UNCHANGED <<tokens, session, now, former>>

(* A client loses or discards a token. *)
Forget(t) ==
  /\ tokens' = tokens \ {t}
  /\ UNCHANGED <<users, session, now, former, edits>>

SessionStep(p) ==
  \/ \E u \in Users : Login(p, u)
  \/ \E t \in tokens : BeginRefresh(p, t)
  \/ Issue(p) \/ Abandon(p)

Edit == \E u \in Users : DeleteUser(u) \/ \E r \in Roles : ChangeRole(u, r)

-----------------------------------------------------------------------------
(* A deleted user is out in the end, although a refresh never looks at
   deleted_at and nothing is revoked: no access token of the user outlives the
   refresh token of the last login by more than its own life. *)
SessionsEnd ==
  \A t \in tokens :
    (t.uid # None /\ ValidateToken(t)) =>
      \/ users[t.uid].deletedAt = None
      \/ now < users[t.uid].deletedAt + RefreshTTL + AccessTTL + 2 * MaxLag
=============================================================================
