-------------------------------- MODULE Hosts --------------------------------
(***************************************************************************)
(* Which organization a visit is for: RedirectHandler.resolveOrgFromDomain *)
(* with domainCache, a sync.Map in front of the domains table, and         *)
(* getOrgByID behind it.  Nothing removes an entry when a domain changes   *)
(* hands or loses its verification: only its age does, at the next visit.  *)
(* No code of the server verifies or moves a domain; an operator does, in   *)
(* the database.                                                           *)
(***************************************************************************)
EXTENDS Integers

CONSTANTS
  Domains,       \* host names other than the shared one
  SharedDomain,  \* the host of SystemOrg, never looked up
  Orgs, SystemOrg,
  NoOrg,         \* no verified row of that domain
  InitDomains,   \* the verified rows of domains when the server starts
  Visitors,      \* goroutines serving GET /:short_code
  NotCached,
  DomainTTL,     \* life of an entry of domainCache: 15 minutes
  MaxNow,        \* bound: how far the clock runs
  MaxVisits,     \* bound: visits in a behaviour
  MaxEvents      \* bound: moves of domains; of Traffic, jobs and pagings too

ASSUME HostConstants ==
  /\ SharedDomain \notin Domains
  /\ SystemOrg \in Orgs /\ NoOrg \notin Orgs
  /\ InitDomains \in [Domains -> Orgs \cup {NoOrg}]
  /\ DomainTTL \in Nat /\ MaxNow \in Nat /\ MaxVisits \in Nat /\ MaxEvents \in Nat

VARIABLES
  domains,       \* domains[d] : the organization d is verified for
  domainCache,   \* RedirectHandler.domainCache
  visit,         \* visit[v] : what the handler goroutine v is about to do
  now,           \* the wall clock
  visits,        \* how many visits have arrived
  events,        \* how many of these there were
  moved          \* history: the owners a domain no longer has, and until when

hostVars == <<domains, domainCache, visit, now, visits, events, moved>>

Times == 0 .. MaxNow

(* cachedOrgID; readAt is history: when the row was read. *)
Cached == [org : Orgs, cachedAt : Times, readAt : Times]

ASSUME NotCachedIsNone == NotCached \notin Cached

NoVisit == [kind |-> "idle"]
(* found: the organization is known.  The rest is history: when its domain was
   read, when the entry it came from was dated, when it was found there. *)
Visit == {NoVisit}
  \cup [kind : {"load", "delete", "query"}, domain : Domains]
  \cup [kind : {"store"}, domain : Domains, org : Orgs, readAt : Times]
  \cup [kind : {"found"}, domain : Domains \cup {SharedDomain}, org : Orgs,
        readAt : Times, cachedAt : Times, foundAt : Times, hit : BOOLEAN]

HostsTypeOK ==
  /\ domains \in [Domains -> Orgs \cup {NoOrg}]
  /\ domainCache \in [Domains -> Cached \cup {NotCached}]
  /\ visit \in [Visitors -> Visit]
  /\ now \in Times
  /\ visits \in 0 .. MaxVisits
  /\ events \in 0 .. MaxEvents
  /\ moved \subseteq [domain : Domains, org : Orgs, until : Times]

HostsInit ==
  /\ domains = InitDomains
  /\ domainCache = [d \in Domains |-> NotCached]
  /\ visit = [v \in Visitors |-> NoVisit]
  /\ now = 0
  /\ visits = 0
  /\ events = 0
  /\ moved = {}

Goto(v, w) == visit' = [visit EXCEPT ![v] = w]

Found(d, o, readAt, cachedAt, hit) ==
  [kind |-> "found", domain |-> d, org |-> o, readAt |-> readAt,
   cachedAt |-> cachedAt, foundAt |-> now, hit |-> hit]

-----------------------------------------------------------------------------
(* GET /:short_code, with the port cut off the host. *)
Arrive(v, d) ==
  /\ visit[v] = NoVisit
  /\ visits < MaxVisits /\ visits' = visits + 1
  /\ Goto(v, IF d = SharedDomain THEN Found(d, SystemOrg, now, now, FALSE)
                                 ELSE [kind |-> "load", domain |-> d])
  /\ UNCHANGED <<domains, domainCache, now, events, moved>>

(* Variant: an entry is good for as long as it is in the map. *)
LoadDomainAnyAge(v) ==
  LET w == visit[v]  e == domainCache[w.domain] IN
  /\ w.kind = "load"
  /\ Goto(v, IF e = NotCached THEN [w EXCEPT !.kind = "query"]
             ELSE Found(w.domain, e.org, e.readAt, e.cachedAt, TRUE))
  /\ UNCHANGED <<domains, domainCache, now, visits, events, moved>>

(* domainCache.Load and the test of the age, which is strict. *)
LoadDomain(v) ==
  LET w == visit[v]  e == domainCache[w.domain] IN
  /\ w.kind = "load"
  /\ \/ /\ e = NotCached
        /\ Goto(v, [w EXCEPT !.kind = "query"])
     \/ /\ e # NotCached /\ now - e.cachedAt < DomainTTL
        /\ Goto(v, Found(w.domain, e.org, e.readAt, e.cachedAt, TRUE))
     \/ /\ e # NotCached /\ now - e.cachedAt >= DomainTTL
        /\ Goto(v, [w EXCEPT !.kind = "delete"])
  /\ UNCHANGED <<domains, domainCache, now, visits, events, moved>>

(* The Delete takes whatever is under the key by now. *)
DeleteDomain(v) ==
  LET w == visit[v] IN
  /\ w.kind = "delete"
  /\ domainCache' = [domainCache EXCEPT ![w.domain] = NotCached]
  /\ Goto(v, [w EXCEPT !.kind = "query"])
  /\ UNCHANGED <<domains, now, visits, events, moved>>

(* SELECT organization_id ... AND verified = 1.  Without a row, 404. *)
QueryDomain(v) ==
  LET w == visit[v] IN
  /\ w.kind = "query"
  /\ Goto(v, IF domains[w.domain] = NoOrg THEN NoVisit
             ELSE [kind |-> "store", domain |-> w.domain,
                   org |-> domains[w.domain], readAt |-> now])
  /\ UNCHANGED <<domains, domainCache, now, visits, events, moved>>

(* The entry is dated by the Store, not by the query. *)
StoreDomain(v) ==
  LET w == visit[v] IN
  /\ w.kind = "store"
  /\ domainCache' = [domainCache EXCEPT ![w.domain] =
                       [org |-> w.org, cachedAt |-> now, readAt |-> w.readAt]]
  /\ visit' = [visit EXCEPT ![v] =
       [kind |-> "found", domain |-> w.domain, org |-> w.org,
        readAt |-> w.readAt, cachedAt |-> now, foundAt |-> w.readAt,
        hit |-> FALSE]]
  /\ UNCHANGED <<domains, now, visits, events, moved>>

(* The query of the domain fails (404), or getOrgByID does (500). *)
GiveUp(v) ==
  /\ visit[v].kind \in {"query", "found"}
  /\ Goto(v, NoVisit)
  /\ UNCHANGED <<domains, domainCache, now, visits, events, moved>>

(* External: a row of domains moves to another organization, is verified, or
   loses its verification. *)
MoveDomain(d, o) ==
  /\ events < MaxEvents /\ events' = events + 1
  /\ domains[d] # o
  /\ domains' = [domains EXCEPT ![d] = o]
  /\ moved' = IF domains[d] = NoOrg THEN moved
              ELSE moved \cup {[domain |-> d, org |-> domains[d], until |-> now]}
  /\ UNCHANGED <<domainCache, visit, now, visits>>

Resolve(v) ==
  \/ \E d \in Domains \cup {SharedDomain} : Arrive(v, d)
  \/ LoadDomain(v) \/ DeleteDomain(v) \/ QueryDomain(v) \/ StoreDomain(v)
  \/ GiveUp(v)

-----------------------------------------------------------------------------
(* A visit is for the organization its domain is verified for, or was until
   less than the life of an entry ago, give or take the time the fill of the
   cache took; one that read the table itself, until it read it.  Two visits
   whose Delete and Store cross never make an entry younger than what it holds. *)
HostStaleness ==
  \A v \in Visitors :
    LET w == visit[v] IN
    (w.kind = "found" /\ w.domain # SharedDomain) =>
      \/ domains[w.domain] = w.org
      \/ \E m \in moved :
           /\ m.domain = w.domain /\ m.org = w.org
           /\ IF w.hit THEN w.foundAt - m.until < DomainTTL + (w.cachedAt - w.readAt)
                       ELSE m.until >= w.readAt
=============================================================================
