------------------------------- MODULE Traffic -------------------------------
(***************************************************************************)
(* From a visit to its statistics: a visit whose host has been resolved    *)
(* (module Hosts) is redirected by the rules of its link (module Rules)    *)
(* and leaves a click, dated when LogClick starts and inserted later.      *)
(* Behind the table of clicks are its readers: ComputeDailyStats and       *)
(* UpsertDailyStats, which some job runs for a day, and GetLinkClicks,     *)
(* which a client pages through, both while clicks go on arriving.         *)
(*                                                                         *)
(* Every organization has one active link here: which link a code finds is *)
(* module Redirect's subject.                                              *)
(***************************************************************************)
EXTENDS Hosts, Rules, FiniteSets

CONSTANTS
  Links,         \* Links[o] : the link of organization o
  Clients,       \* visitors' connections: [ip, ua]
  Jobs,          \* goroutines computing daily statistics
  Readers,       \* clients paging through clicks
  Limits,        \* what they ask for as limit; 0 for nothing, or no number
  Ranges,        \* of times they ask for
  NoStat,        \* no row in daily_stats
  DayLength,     \* in units of the clock
  MaxLimit, DefaultLimit,   \* of GetLinkClicks: 100 and 50
  MaxClicks      \* bound: redirects answered

ASSUME TrafficConstants ==
  /\ Links \in [Orgs -> [dest : URLs, rules : [device : RuleMap(Devices),
                                               geo : RuleMap({"US", "GB"})]]]
  /\ Limits \subseteq Int
  /\ DayLength \in Nat \ {0}
  /\ MaxLimit \in Nat /\ DefaultLimit \in 1 .. MaxLimit
  /\ Ranges \subseteq Int \X Int
  /\ MaxClicks \in Nat

VARIABLES
  clicks,        \* the rows of clicks of all tenants
  inserting,     \* clicks whose LogClick has not inserted them yet
  served,        \* how many clicks were stamped, rows inserted
  job,           \* job[j] : the statistics j is computing
  daily,         \* daily[<<o, d>>] : the row of daily_stats
  reader         \* reader[c] : how far c has paged

trafficVars == <<clicks, inserting, served, job, daily, reader>>
vars == <<domains, domainCache, visit, now, visits, events, moved,
          clicks, inserting, served, job, daily, reader>>

-----------------------------------------------------------------------------
Days == {t \div DayLength : t \in Times}

(* ip_address is RemoteAddr, with the port: an address per connection. *)
Addresses == {c.ip : c \in Clients}
Stamped == [id : 1 .. MaxClicks, org : Orgs, stamp : Times, ip : Addresses, url : URLs]
Row     == [id : 1 .. MaxClicks, org : Orgs, stamp : Times, ip : Addresses, url : URLs,
            row : 1 .. MaxClicks]

Stat == [clicks : Nat, ips : Nat, country : {"", "US"}, settled : BOOLEAN]

ASSUME NoStatIsNone == NoStat \notin Stat

NoJob == [kind |-> "idle"]
(* settled is history: the day was over and no click of it in flight when the
   job began, and no query has failed since. *)
Job == {NoJob} \cup [kind : {"clicks", "ips", "country", "upsert"}, org : Orgs,
                     day : Days, stat : Stat]

NoPaging == [kind |-> "idle"]
(* want is history: the rows in the range at the first page; seen: the rows
   that were on a page; whole: no page was cut short by an error. *)
Paging == {NoPaging} \cup [kind : {"paging", "done"}, org : Orgs,
   range : Ranges, limit : Limits, page : 1 .. (MaxClicks + 1), want : SUBSET Row,
   seen : SUBSET Row, whole : BOOLEAN]

TypeOK ==
  /\ HostsTypeOK
  /\ clicks \subseteq Row /\ inserting \subseteq Stamped
  /\ served \in 0 .. MaxClicks
  /\ job \in [Jobs -> Job]
  /\ daily \in [Orgs \X Days -> Stat \cup {NoStat}]
  /\ reader \in [Readers -> Paging]

Init ==
  /\ HostsInit
  /\ clicks = {} /\ inserting = {} /\ served = 0
  /\ job = [j \in Jobs |-> NoJob]
  /\ daily = [k \in Orgs \X Days |-> NoStat]
  /\ reader = [c \in Readers |-> NoPaging]

-----------------------------------------------------------------------------
(* The end of Handle: the redirect, and LogClick with the time it starts at.  A
   dropped error of TenantPool.Get leaves no click (module Redirect). *)
Answer(v, c) ==
  LET o == visit[v].org IN
  /\ visit[v].kind = "found"
  /\ served < MaxClicks /\ served' = served + 1
  /\ inserting' = inserting \cup
       {[id |-> served + 1, org |-> o, stamp |-> now, ip |-> c.ip,
         url |-> FinalURL(Links[o], c.ua, c.ip)]}
  /\ Goto(v, NoVisit)
  /\ UNCHANGED <<domains, domainCache, now, visits, events, moved, clicks, job, daily,
                 reader>>

(* INSERT INTO clicks; rowids go up. *)
InsertClick(k) ==
  /\ inserting' = inserting \ {k}
  /\ clicks' = clicks \cup
       {[id |-> k.id, org |-> k.org, stamp |-> k.stamp, ip |-> k.ip, url |-> k.url,
         row |-> Cardinality(clicks) + 1]}
  /\ UNCHANGED <<hostVars, served, job, daily, reader>>

(* The INSERT fails and is only logged. *)
LoseClick(k) ==
  /\ inserting' = inserting \ {k}
  /\ UNCHANGED <<hostVars, clicks, served, job, daily, reader>>

-----------------------------------------------------------------------------
(* timestamp >= startTs AND timestamp < endTs *)
OfDay(K, o, d) ==
  {k \in K : /\ k.org = o
             /\ k.stamp >= d * DayLength /\ k.stamp < (d + 1) * DayLength}

AddressesOf(K) == {k.ip : k \in K}

(* A job takes up a link and a day.  The day may still be running. *)
BeginStats(j, o, d) ==
  /\ job[j] = NoJob
  /\ events < MaxEvents /\ events' = events + 1
  /\ job' = [job EXCEPT ![j] =
       [kind |-> "clicks", org |-> o, day |-> d,
        stat |-> [clicks |-> 0, ips |-> 0, country |-> "",
                  settled |-> /\ now >= (d + 1) * DayLength
                              /\ OfDay(inserting, o, d) = {}]]]
  /\ UNCHANGED <<domains, domainCache, visit, now, visits, moved, clicks,
                 inserting, served, daily, reader>>

Proceed(j, next, stat) ==
  /\ job' = [job EXCEPT ![j] = [@ EXCEPT !.kind = next, !.stat = stat]]
  /\ UNCHANGED <<hostVars, clicks, inserting, served, daily, reader>>

(* ComputeDailyStats: three queries, each on its own. *)
CountClicks(j) ==
  LET w == job[j] IN
  /\ w.kind = "clicks"
  /\ Proceed(j, "ips", [w.stat EXCEPT
       !.clicks = Cardinality(OfDay(clicks, w.org, w.day))])

(* Variant: a query without the end of the day. *)
CountAddressesOpenEnded(j) ==
  LET w == job[j] IN
  /\ w.kind = "ips"
  /\ Proceed(j, "country", [w.stat EXCEPT
       !.ips = Cardinality(AddressesOf(UNION {OfDay(clicks, w.org, d) :
                                       d \in {e \in Days : e >= w.day}}))])

CountAddresses(j) ==
  LET w == job[j] IN
  /\ w.kind = "ips"
  /\ Proceed(j, "country", [w.stat EXCEPT
       !.ips = Cardinality(AddressesOf(OfDay(clicks, w.org, w.day)))])

(* Every click is from the one country of DummyResolver; without a click there is
   no row to scan, and the column stays empty. *)
TopCountry(j) ==
  LET w == job[j] IN
  /\ w.kind = "country"
  /\ Proceed(j, "upsert", [w.stat EXCEPT
       !.country = IF OfDay(clicks, w.org, w.day) = {} THEN "" ELSE Lookup("")])

(* A query fails: its error is dropped, the column stays zero, the next one runs. *)
QueryFails(j) ==
  LET w == job[j]
      after == [clicks |-> "ips", ips |-> "country", country |-> "upsert"] IN
  /\ w.kind \in DOMAIN after
  /\ Proceed(j, after[w.kind], [w.stat EXCEPT !.settled = FALSE])

(* UpsertDailyStats: ON CONFLICT(link_id, date) DO UPDATE, the last one wins. *)
UpsertDailyStats(j) ==
  LET w == job[j] IN
  /\ w.kind = "upsert"
  /\ daily' = [daily EXCEPT ![<<w.org, w.day>>] = w.stat]
  /\ job' = [job EXCEPT ![j] = NoJob]
  /\ UNCHANGED <<hostVars, clicks, inserting, served, reader>>

UpsertFails(j) ==
  /\ job[j].kind = "upsert"
  /\ job' = [job EXCEPT ![j] = NoJob]
  /\ UNCHANGED <<hostVars, clicks, inserting, served, daily, reader>>

StatsStep(j) ==
  \/ \E o \in Orgs, d \in Days : BeginStats(j, o, d)
  \/ CountClicks(j) \/ CountAddresses(j) \/ TopCountry(j) \/ QueryFails(j)
  \/ UpsertDailyStats(j) \/ UpsertFails(j)

-----------------------------------------------------------------------------
InRange(o, range) ==
  {k \in clicks : k.org = o /\ k.stamp >= range[1] /\ k.stamp <= range[2]}

(* ORDER BY timestamp DESC over idx_clicks_link_time: rows of one time come in
   the order of their rowids. *)
Before(k, K) ==
  Cardinality({l \in K : \/ l.stamp > k.stamp
                         \/ l.stamp = k.stamp /\ l.row < k.row})

Clamped(limit) == IF limit < 1 \/ limit > MaxLimit THEN DefaultLimit ELSE limit

(* Variant: the offset computed with the limit as it was asked for. *)
OffsetOfLimitAsked(page, limit) == (page - 1) * limit

Offset(page, limit) == (page - 1) * Clamped(limit)

(* GetClicks: the first n rows of the page. *)
Page(w, n) ==
  LET K == InRange(w.org, w.range)
      offset == Offset(w.page, w.limit) IN
  {k \in K : Before(k, K) \in offset .. (offset + n - 1)}

(* A client starts to page through a range it names. *)
BeginPaging(c, o, range, limit) ==
  /\ reader[c].kind # "paging"
  /\ events < MaxEvents /\ events' = events + 1
  /\ reader' = [reader EXCEPT ![c] =
       [kind |-> "paging", org |-> o, range |-> range, limit |-> limit,
        page |-> 1, want |-> InRange(o, range), seen |-> {}, whole |-> TRUE]]
  /\ UNCHANGED <<domains, domainCache, visit, now, visits, moved, clicks,
                 inserting, served, job, daily>>

(* GetLinkClicks.  The client goes on until a page comes short. *)
GetLinkClicks(c) ==
  LET w == reader[c]
      n == Clamped(w.limit)
      got == Page(w, n) IN
  /\ w.kind = "paging"
  /\ reader' = [reader EXCEPT ![c] = [w EXCEPT
       !.kind = IF Cardinality(got) < n THEN "done" ELSE @,
       !.page = IF Cardinality(got) < n THEN @ ELSE @ + 1,
       !.seen = @ \cup got]]
  /\ UNCHANGED <<hostVars, clicks, inserting, served, job, daily>>

(* rows.Next ends early with an error nobody asks for: the page is answered as
   if it were the last. *)
CutPage(c) ==
  LET w == reader[c] IN
  /\ w.kind = "paging"
  /\ \E n \in 0 .. (Cardinality(Page(w, Clamped(w.limit))) - 1) :
       reader' = [reader EXCEPT ![c] = [w EXCEPT
         !.kind = "done", !.seen = @ \cup Page(w, n), !.whole = FALSE]]
  /\ UNCHANGED <<hostVars, clicks, inserting, served, job, daily>>

-----------------------------------------------------------------------------
Tick ==
  /\ now < MaxNow
  /\ now' = now + 1
  /\ UNCHANGED <<domains, domainCache, visit, visits, events, moved, clicks, inserting,
                 served, job, daily, reader>>

(* The process dies, with its cache, its visits, the clicks in flight and the
   jobs; clients start over. *)
Crash ==
  /\ domainCache' = [d \in Domains |-> NotCached]
  /\ visit' = [v \in Visitors |-> NoVisit]
  /\ inserting' = {}
  /\ job' = [j \in Jobs |-> NoJob]
  /\ reader' = [c \in Readers |-> NoPaging]
  /\ UNCHANGED <<domains, now, visits, events, moved, clicks, served, daily>>

Next ==
  \/ (\E v \in Visitors : Resolve(v)) /\ UNCHANGED trafficVars
  \/ (\E d \in Domains, o \in Orgs \cup {NoOrg} : MoveDomain(d, o))
       /\ UNCHANGED trafficVars
  \/ \E v \in Visitors, c \in Clients : Answer(v, c)
  \/ \E k \in inserting : InsertClick(k) \/ LoseClick(k)
  \/ \E j \in Jobs : StatsStep(j)
  \/ \E c \in Readers, o \in Orgs, g \in Ranges, l \in Limits : BeginPaging(c, o, g, l)
  \/ \E c \in Readers : GetLinkClicks(c) \/ CutPage(c)
  \/ Tick \/ Crash

Spec == Init /\ [][Next]_vars

-----------------------------------------------------------------------------
(* Statistics of a day that was over, with no click of it in flight, when their
   job began, and none of whose queries failed, are those of the rows of that day
   and stay so: the three queries saw the same rows although clicks of later days
   went on arriving between them, and no second job changes them but by an
   unsettled row. *)
ClosedDayIsExact ==
  \A o \in Orgs, d \in Days :
    LET s == daily[<<o, d>>]  K == OfDay(clicks, o, d) IN
    (s # NoStat /\ s.settled) =>
      /\ s.clicks = Cardinality(K)
      /\ s.ips = Cardinality(AddressesOf(K))
      /\ s.country = IF K = {} THEN "" ELSE "US"

(* A client that pages to the end by number, none of its pages cut short, has
   seen every click that was in its range when it began: clicks that arrive
   meanwhile move older ones to a later page, never past the reader. *)
PagesMissNothing ==
  \A c \in Readers :
    (reader[c].kind = "done" /\ reader[c].whole) => reader[c].want \subseteq reader[c].seen
=============================================================================
