-------------------------- MODULE RequestPipeline --------------------------
(***************************************************************************)
(* A request on its way through the router: wrap puts the path parameters  *)
(* into the context, chain runs the middlewares of the route in the order  *)
(* they are listed, each of them answers or adds to the context and goes   *)
(* on, and the handler takes what it needs out of the context with an      *)
(* unchecked type assertion, which panics when the value is not there.     *)
(***************************************************************************)
EXTENDS Tokens, Sequences

CONSTANTS
  Requests,      \* request goroutines
  MaxRequests    \* bound: requests in a behaviour

ASSUME PipelineConstants ==
  /\ {"owner", "admin"} \subseteq Roles
  /\ MaxRequests \in Nat

VARIABLES
  req,           \* req[r] : where the request r is
  arrived        \* how many requests have arrived

vars == <<users, tokens, session, now, former, edits, req, arrived>>

-----------------------------------------------------------------------------
(* Context values by key and type: the middlewares store under the type Key,
   some handlers ask for plain strings and for another TenantContext. *)
Params == "Key params"
Claims == "Key claims"
Tenant == "Key tenant, *middleware.TenantContext"
PlainParams == "params"
PlainClaims == "claims"
PlainTenant == "tenant, *database.TenantContext"
ContextKeys == {Params, Claims, Tenant, PlainParams, PlainClaims, PlainTenant}

Public  == <<>>
Member  == <<"auth", "tenant">>
Manager == <<"auth", "tenant", "role">>
Limited == <<"auth", "tenant", "rate">>

(* The routes, by middlewares, roles and what the handler asks for. *)
Route(c, rs, ks) == [chain |-> c, roles |-> rs, asks |-> ks]
Managers == {"admin", "owner"}

Routes == {
  Route(Public, {}, {}),                                \* health, auth, SAML, new org
  Route(Public, {}, {PlainParams}),                     \* /:short_code
  Route(Member, {}, {}),                                \* domains, a user
  Route(Member, {}, {Tenant}),                          \* current organization
  Route(Manager, Managers, {}),                         \* 501 and stubs
  Route(Manager, Managers, {Tenant}),                   \* add a domain
  Route(Manager, Managers, {Tenant, Claims}),           \* create an invite
  Route(Manager, {"owner"}, {}),                        \* role of a user, delete one
  Route(Limited, {}, {}),                               \* overview
  Route(Limited, {}, {PlainTenant}),                    \* list links
  Route(Limited, {}, {PlainTenant, PlainClaims}),       \* create a link
  Route(Limited, {}, {PlainTenant, PlainParams}),       \* a link, its statistics
  Route(Manager, Managers, {PlainTenant}),              \* create, list webhooks
  Route(Manager, Managers, {PlainTenant, PlainParams}), \* a webhook
  Route(Manager, Managers, {PlainClaims}),              \* API keys, audit log
  Route(Manager, Managers, {PlainParams}) }             \* revoke a key

(* pos: the stage the request is at; token: what the header carries; claims,
   tenant: what is in the context under Claims and Tenant. *)
NoRequest == [pos |-> 0]
Request == [pos : 1 .. 4, route : Routes, token : Token \cup {None},
            context : SUBSET ContextKeys, claims : Token \cup {None},
            tenant : Orgs \cup {None}, at : Times]

TypeOK ==
  /\ TokensTypeOK
  /\ req \in [Requests -> Request \cup {NoRequest}]
  /\ arrived \in 0 .. MaxRequests

Init ==
  /\ TokensInit
  /\ req = [r \in Requests |-> NoRequest]
  /\ arrived = 0

-----------------------------------------------------------------------------
(* Variant: the loop of chain run forwards, the last middleware outermost. *)
ChainForwards(c, i) == IF i > Len(c) THEN "handler" ELSE c[Len(c) + 1 - i]

(* chain wraps the handler from the last middleware to the first: the i-th to run
   is the i-th of the list, and the handler comes last. *)
Chain(c, i) == IF i > Len(c) THEN "handler" ELSE c[i]

Stage(r) == IF req[r] = NoRequest THEN "none"
            ELSE Chain(req[r].route.chain, req[r].pos)

(* wrap: the parameters are in the context before any middleware runs.  Only
   the routes behind AuthMiddleware look at the header. *)
Arrive(r, route, t) ==
  /\ req[r] = NoRequest
  /\ arrived < MaxRequests
  /\ route.chain = Public => t = None
  /\ arrived' = arrived + 1
  /\ req' = [req EXCEPT ![r] =
       [pos |-> 1, route |-> route, token |-> t, context |-> {Params},
        claims |-> None, tenant |-> None, at |-> now]]
  /\ UNCHANGED tokenVars

(* The request is answered, or its goroutine panics and net/http drops it. *)
Answered(r) ==
  /\ req' = [req EXCEPT ![r] = NoRequest]
  /\ UNCHANGED <<tokenVars, arrived>>

(* next(w, r.WithContext(ctx)) *)
Forward(r, q) ==
  /\ req' = [req EXCEPT ![r] = [q EXCEPT !.pos = @ + 1]]
  /\ UNCHANGED <<tokenVars, arrived>>

(* AuthMiddleware.Handle: 401 without a well-formed header and a valid token. *)
Authenticate(r) ==
  LET q == req[r] IN
  /\ Stage(r) = "auth"
  /\ IF q.token # None /\ ValidateToken(q.token)
       THEN Forward(r, [q EXCEPT !.context = @ \cup {Claims}, !.claims = q.token])
       ELSE Answered(r)

(* TenantMiddleware.Handle: 401 without claims; 403 when no organization has the
   claimed id, as for the empty one of a refresh token. *)
FindTenant(r) ==
  LET q == req[r] IN
  /\ Stage(r) = "tenant"
  /\ IF Claims \in q.context /\ q.claims.oid # None
       THEN Forward(r, [q EXCEPT !.context = @ \cup {Tenant}, !.tenant = q.claims.oid])
       ELSE Answered(r)

(* requireRole: an unchecked assertion on the claims, then 403 for other roles. *)
RequireRole(r) ==
  LET q == req[r] IN
  /\ Stage(r) = "role"
  /\ IF Claims \in q.context /\ q.claims.role \in q.route.roles
       THEN Forward(r, q) ELSE Answered(r)

(* RateLimit: a checked assertion that falls back to the peer's address; 429 when
   the bucket is empty (module RateLimiter), else on. *)
LimitRate(r) ==
  /\ Stage(r) = "rate"
  /\ Forward(r, req[r]) \/ Answered(r)

(* The handler answers, or panics when the context lacks what it asks for. *)
Handle(r) == Stage(r) = "handler" /\ Answered(r)

(* A query of a middleware fails, or the pool cannot open the database: 500. *)
Fail(r) == Stage(r) = "tenant" /\ Answered(r)

(* No login, refresh or request is at work for longer than MaxLag. *)
Tick ==
  /\ now < MaxNow
  /\ \A p \in Procs : session[p].kind # "idle" => now - session[p].at < MaxLag
  /\ \A r \in Requests : req[r] # NoRequest => now - req[r].at < MaxLag
  /\ now' = now + 1
  /\ UNCHANGED <<users, tokens, session, former, edits, req, arrived>>

Pass(r) ==
  \/ Authenticate(r) \/ FindTenant(r) \/ RequireRole(r) \/ LimitRate(r)
  \/ Handle(r) \/ Fail(r)

Next ==
  \/ (\E p \in Procs : SessionStep(p)) /\ UNCHANGED <<req, arrived>>
  \/ (Edit \/ \E t \in tokens : Forget(t)) /\ UNCHANGED <<req, arrived>>
  \/ \E r \in Requests : Pass(r)
  \/ \E r \in Requests, route \in Routes, t \in tokens \cup {None} :
       Arrive(r, route, t)
  \/ Tick

Spec == Init /\ [][Next]_vars

-----------------------------------------------------------------------------
(* What claims say of a role is at most as old as a token lives and a request
   takes: the user has the role still, or had it until then. *)
HadRole(u, r) ==
  \/ users[u].role = r
  \/ \E f \in former : /\ f.uid = u /\ f.role = r
                       /\ now < f.until + AccessTTL + 2 * MaxLag

(* A handler behind the middlewares runs for the organization of the user who
   sent the request, and with a role of its route that this user has or had a
   short while ago: neither a refresh token, nor a token that has run out, nor one
   that went through any number of refreshes gets further. *)
AuthorizedRecently ==
  \A r \in Requests :
    (Stage(r) = "handler" /\ req[r].route.chain # Public) =>
      LET c == req[r].claims IN
      /\ c.uid # None
      /\ req[r].tenant = users[c.uid].org
      /\ req[r].route.roles = {} \/ c.role \in req[r].route.roles
      /\ HadRole(c.uid, c.role)

(* No middleware asks for what only a later one stores: the unchecked assertion
   of requireRole never panics on any route. *)
ClaimsBeforeRoles ==
  \A r \in Requests : Stage(r) = "role" => Claims \in req[r].context

(* Every handler finds the values it takes out of the context. *)
HandlersFindContext ==
  \A r \in Requests : Stage(r) = "handler" => req[r].route.asks \subseteq req[r].context
=============================================================================
