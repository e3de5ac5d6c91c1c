------------------------------ MODULE Redirect ------------------------------
(***************************************************************************)
(* The public redirect route over the link table: RedirectHandler.Handle   *)
(* with the read-through LinkCache in front of the tenant databases and    *)
(* the ClickLogger goroutines behind it, while API requests keep writing   *)
(* the table (module Links).  A write never touches the cache, so a visit  *)
(* can be answered from a row that has changed since; what the module      *)
(* establishes is for how long, and that tenants and click counts are kept *)
(* apart and accounted for all the same.                                   *)
(*                                                                         *)
(* A visit starts when the host has been resolved to an organization that  *)
(* exists; a host or organization that is unknown is answered 404 or 500   *)
(* without touching any state modelled here.                               *)
(***************************************************************************)
EXTENDS Links

CONSTANTS
  Visitors,      \* goroutines serving GET /:short_code
  TTL,           \* life of a cache entry: five minutes
  NoEntry,       \* nothing cached under that key
  MaxNow,        \* bound: how far the clock runs
  MaxVisits      \* bound: visits in a behaviour

ASSUME RedirectConstants ==
  /\ TTL \in Nat /\ MaxNow \in Nat /\ MaxVisits \in Nat

VARIABLES
  cache,         \* LinkCache.store
  visit,         \* visit[v] : what the handler goroutine v is about to do
  now,           \* the wall clock, in units the TTL is a multiple of
  log,           \* log[i] : the click log of link i and its goroutines
  visits,        \* how many visits have arrived
  replaced       \* history: the contents a row no longer has, and until when

redirectVars == <<cache, visit, now, log, visits, replaced>>
vars == <<table, job, requests, cache, visit, now, log, visits, replaced>>

-----------------------------------------------------------------------------
Times == 0 .. MaxNow

(* What the handler uses of a row. *)
Link == [id : Ids, dest : GoodDests, status : Statuses]

LinkOf(o, i) == [id |-> i, dest |-> table[o][i].dest,
                 status |-> table[o][i].status]

(* CachedLink; readAt is history: when its content was read from the table. *)
Entry == [link : Link, cachedAt : Times, readAt : Times]

NoVisit == [kind |-> "idle"]
LookupVisit == [kind : {"get", "evict", "query"}, org : Orgs, code : Codes]
FillVisit   == [kind : {"set"}, org : Orgs, code : Codes,
                link : Link, readAt : Times]
FoundVisit  == [kind : {"decide"}, org : Orgs, code : Codes, link : Link,
                hit : BOOLEAN, readAt : Times, cachedAt : Times,
                foundAt : Times]
Visit == {NoVisit} \cup LookupVisit \cup FillVisit \cup FoundVisit

(* served: redirects answered; inserting, counting: LogClick goroutines before
   their INSERT and before their UPDATE; rows: rows of clicks; lostRows and
   lostCounts: INSERTs and UPDATEs that failed or died with the process. *)
ClickLog == [served : Nat, inserting : Nat, counting : Nat,
             rows : Nat, lostRows : Nat, lostCounts : Nat]

NoClicks == [served |-> 0, inserting |-> 0, counting |-> 0,
             rows |-> 0, lostRows |-> 0, lostCounts |-> 0]

RedirectTypeOK ==
  /\ LinksTypeOK
  /\ cache \in [Orgs \X Codes -> Entry \cup {NoEntry}]
  /\ visit \in [Visitors -> Visit]
  /\ now \in Times
  /\ log \in [Ids -> ClickLog]
  /\ visits \in 0 .. MaxVisits
  /\ replaced \subseteq [link : Link, at : Times]

RedirectInit ==
  /\ LinksInit
  /\ cache = [k \in Orgs \X Codes |-> NoEntry]
  /\ visit = [v \in Visitors |-> NoVisit]
  /\ now = 0
  /\ log = [i \in Ids |-> NoClicks]
  /\ visits = 0
  /\ replaced = {}

-----------------------------------------------------------------------------
(* Variant: the cache keyed by the short code alone. *)
CacheKeyOfCode(o, c) == <<CHOOSE q \in Orgs : TRUE, c>>

(* orgID + ":" + shortCode *)
CacheKey(o, c) == <<o, c>>

Goto(v, w) == visit' = [visit EXCEPT ![v] = w]

(* GET /:short_code, with the organization its host resolved to. *)
Arrive(v, o, c) ==
  /\ visit[v] = NoVisit
  /\ visits < MaxVisits
  /\ visits' = visits + 1
  /\ Goto(v, [kind |-> "get", org |-> o, code |-> c])
  /\ UNCHANGED <<table, job, requests, cache, now, log, replaced>>

Fresh(e) == now - e.cachedAt <= TTL

FoundInCache(w, e) ==
  [kind |-> "decide", org |-> w.org, code |-> w.code, link |-> e.link,
   hit |-> TRUE, readAt |-> e.readAt, cachedAt |-> e.cachedAt, foundAt |-> now]

(* Variant: an entry is served for as long as it is in the map. *)
CacheGetAnyAge(v) ==
  LET w == visit[v]
      e == cache[CacheKey(w.org, w.code)] IN
  /\ w.kind = "get"
  /\ Goto(v, IF e = NoEntry THEN [w EXCEPT !.kind = "query"]
                            ELSE FoundInCache(w, e))
  /\ UNCHANGED <<table, job, requests, cache, now, log, visits, replaced>>

(* LinkCache.Get: Load and the test of the age.  An entry that is too old is
   deleted by a second operation on the map. *)
CacheGet(v) ==
  LET w == visit[v]
      e == cache[CacheKey(w.org, w.code)] IN
  /\ w.kind = "get"
  /\ \/ e = NoEntry /\ Goto(v, [w EXCEPT !.kind = "query"])
     \/ e # NoEntry /\ Fresh(e) /\ Goto(v, FoundInCache(w, e))
     \/ e # NoEntry /\ ~Fresh(e) /\ Goto(v, [w EXCEPT !.kind = "evict"])
  /\ UNCHANGED <<table, job, requests, cache, now, log, visits, replaced>>

(* The Delete of LinkCache.Get takes whatever is under the key by now, an
   entry stored since the Load included. *)
CacheEvict(v) ==
  LET w == visit[v] IN
  /\ w.kind = "evict"
  /\ cache' = [cache EXCEPT ![CacheKey(w.org, w.code)] = NoEntry]
  /\ Goto(v, [w EXCEPT !.kind = "query"])
  /\ UNCHANGED <<table, job, requests, now, log, visits, replaced>>

(* Repository.GetByShortCode, whatever the status of the link. *)
QueryLink(v, i) ==
  LET w == visit[v] IN
  /\ w.kind = "query"
  /\ Stored(w.org, i) /\ table[w.org][i].code = w.code
  /\ Goto(v, [kind |-> "set", org |-> w.org, code |-> w.code,
              link |-> LinkOf(w.org, i), readAt |-> now])
  /\ UNCHANGED <<table, job, requests, cache, now, log, visits, replaced>>

(* No such code, or the query fails: 404 either way, and nothing is cached. *)
QueryFails(v) ==
  /\ visit[v].kind = "query"
  /\ Goto(v, NoVisit)
  /\ UNCHANGED <<table, job, requests, cache, now, log, visits, replaced>>

(* Variant: an entry stored without its date (the zero time). *)
CacheSetUndated(v) ==
  LET w == visit[v] IN
  /\ w.kind = "set"
  /\ cache' = [cache EXCEPT ![CacheKey(w.org, w.code)] =
                 [link |-> w.link, cachedAt |-> -1, readAt |-> w.readAt]]
  /\ Goto(v, [kind |-> "decide", org |-> w.org, code |-> w.code,
              link |-> w.link, hit |-> FALSE, readAt |-> w.readAt,
              cachedAt |-> now, foundAt |-> w.readAt])
  /\ UNCHANGED <<table, job, requests, now, log, visits, replaced>>

(* LinkCache.Set: the entry is dated by the Set, not by the query. *)
CacheSet(v) ==
  LET w == visit[v] IN
  /\ w.kind = "set"
  /\ cache' = [cache EXCEPT ![CacheKey(w.org, w.code)] =
                 [link |-> w.link, cachedAt |-> now, readAt |-> w.readAt]]
  /\ Goto(v, [kind |-> "decide", org |-> w.org, code |-> w.code,
              link |-> w.link, hit |-> FALSE, readAt |-> w.readAt,
              cachedAt |-> now, foundAt |-> w.readAt])
  /\ UNCHANGED <<table, job, requests, now, log, visits, replaced>>

(* The rest of Handle: 410 unless the link is active, else start LogClick and
   answer 301 or 302. *)
RefuseInactive(v) ==
  /\ visit[v].kind = "decide" /\ visit[v].link.status # "active"
  /\ Goto(v, NoVisit)
  /\ UNCHANGED <<table, job, requests, cache, now, log, visits, replaced>>

AnswerRedirect(v) ==
  LET w == visit[v] IN
  /\ w.kind = "decide" /\ w.link.status = "active"
  /\ log' = [log EXCEPT ![w.link.id].served = @ + 1,
                        ![w.link.id].inserting = @ + 1]
  /\ Goto(v, NoVisit)
  /\ UNCHANGED <<table, job, requests, cache, now, visits, replaced>>

(* TenantPool.Get fails on the way to LogClick: its error is dropped, and the
   redirect is answered without a click. *)
AnswerUnlogged(v) ==
  LET w == visit[v] IN
  /\ w.kind = "decide" /\ w.link.status = "active"
  /\ log' = [log EXCEPT ![w.link.id].served = @ + 1,
                        ![w.link.id].lostRows = @ + 1,
                        ![w.link.id].lostCounts = @ + 1]
  /\ Goto(v, NoVisit)
  /\ UNCHANGED <<table, job, requests, cache, now, visits, replaced>>

-----------------------------------------------------------------------------
(* Variant: a failed INSERT ends LogClick. *)
InsertClickOrReturn(i) ==
  /\ log[i].inserting > 0
  /\ \E failed \in BOOLEAN :
       log' = [log EXCEPT ![i].inserting = @ - 1,
                          ![i].counting = IF failed THEN @ ELSE @ + 1,
                          ![i].rows = IF failed THEN @ ELSE @ + 1,
                          ![i].lostRows = IF failed THEN @ + 1 ELSE @]
  /\ UNCHANGED <<table, job, requests, cache, visit, now, visits, replaced>>

(* LogClick, first statement: INSERT INTO clicks.  A failure is only logged. *)
InsertClick(i) ==
  /\ log[i].inserting > 0
  /\ \E failed \in BOOLEAN :
       log' = [log EXCEPT ![i].inserting = @ - 1, ![i].counting = @ + 1,
                          ![i].rows = IF failed THEN @ ELSE @ + 1,
                          ![i].lostRows = IF failed THEN @ + 1 ELSE @]
  /\ UNCHANGED <<table, job, requests, cache, visit, now, visits, replaced>>

(* Second statement: click_count = click_count + 1, in one UPDATE. *)
CountClick(o, i) ==
  /\ Stored(o, i) /\ log[i].counting > 0
  /\ table' = [table EXCEPT ![o][i].clicks = @ + 1]
  /\ log' = [log EXCEPT ![i].counting = @ - 1]
  /\ UNCHANGED <<job, requests, cache, visit, now, visits, replaced>>

CountFails(i) ==
  /\ log[i].counting > 0
  /\ log' = [log EXCEPT ![i].counting = @ - 1, ![i].lostCounts = @ + 1]
  /\ UNCHANGED <<table, job, requests, cache, visit, now, visits, replaced>>

-----------------------------------------------------------------------------
(* An API request takes a step of module Links; the contents it replaces are
   remembered with the time. *)
WriteStep ==
  /\ RequestStep
  /\ replaced' = replaced \cup
       {[link |-> LinkOf(k[1], k[2]), at |-> now] :
          k \in {x \in Orgs \X Ids :
                   /\ Stored(x[1], x[2]) /\ Stored(x[1], x[2])'
                   /\ LinkOf(x[1], x[2]) # LinkOf(x[1], x[2])'}}
  /\ UNCHANGED <<cache, visit, now, log, visits>>

Tick ==
  /\ now < MaxNow
  /\ now' = now + 1
  /\ UNCHANGED <<table, job, requests, cache, visit, log, visits, replaced>>

(* The process dies: requests, visits, the cache and the LogClick goroutines
   are gone. *)
CrashServer ==
  /\ CrashRequests
  /\ cache' = [k \in Orgs \X Codes |-> NoEntry]
  /\ visit' = [v \in Visitors |-> NoVisit]
  /\ log' = [i \in Ids |->
               [log[i] EXCEPT !.lostRows = @ + log[i].inserting,
                              !.lostCounts = @ + log[i].inserting + log[i].counting,
                              !.inserting = 0, !.counting = 0]]
  /\ UNCHANGED <<table, requests, now, visits, replaced>>

Serve(v) ==
  \/ \E o \in Orgs, c \in Codes : Arrive(v, o, c)
  \/ CacheGet(v) \/ CacheEvict(v)
  \/ \E i \in Ids : QueryLink(v, i)
  \/ QueryFails(v) \/ CacheSet(v)
  \/ RefuseInactive(v) \/ AnswerRedirect(v) \/ AnswerUnlogged(v)

LogStep ==
  \/ \E i \in Ids : InsertClick(i) \/ CountFails(i)
  \/ \E o \in Orgs, i \in Ids : CountClick(o, i)

RedirectNext ==
  \/ \E v \in Visitors : Serve(v)
  \/ LogStep \/ WriteStep \/ Tick \/ CrashServer

RedirectSpec == RedirectInit /\ [][RedirectNext]_vars

-----------------------------------------------------------------------------
OwnLink(o, c, l) == Stored(o, l.id) /\ table[o][l.id].code = c

(* Whatever is cached for a code of an organization, and whatever a visit is
   about to be redirected by, is the link of that organization that holds the
   code: two tenants that use the same code never see each other's link. *)
TenantIsolation ==
  /\ \A o \in Orgs, c \in Codes :
       cache[<<o, c>>] # NoEntry => OwnLink(o, c, cache[<<o, c>>].link)
  /\ \A v \in Visitors :
       visit[v].kind \in {"set", "decide"} =>
         OwnLink(visit[v].org, visit[v].code, visit[v].link)

(* A visit is answered by the content its link has now, or had until no longer
   ago than the TTL and the time the fill of the cache took; a visit that read
   the database itself, by one the link had when it was read. *)
Allowance(w) == IF w.hit THEN TTL + (w.cachedAt - w.readAt) ELSE 0

BoundedStaleness ==
  \A v \in Visitors :
    LET w == visit[v] IN
    w.kind = "decide" =>
      \/ LinkOf(w.org, w.link.id) = w.link
      \/ \E r \in replaced : /\ r.link = w.link
                             /\ r.at >= w.foundAt - Allowance(w)

(* click_count when the server started *)
FirstCount(o, i) == IF InitTable[o][i] = NoRow THEN 0 ELSE InitTable[o][i].clicks

(* Every redirect answered is a row of clicks, a goroutine still to insert it,
   or an INSERT that was lost; and it is in click_count, in a goroutine still
   to count it, or an UPDATE that was lost.  No concurrent PATCH, archive or
   crash makes a click count twice or vanish otherwise. *)
ClicksAccounted ==
  \A o \in Orgs, i \in Ids :
    Stored(o, i) =>
      LET l == log[i] IN
      /\ l.served = l.rows + l.lostRows + l.inserting
      /\ l.served = (table[o][i].clicks - FirstCount(o, i))
                      + l.lostCounts + l.counting + l.inserting
=============================================================================
