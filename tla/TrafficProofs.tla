---------------------------- MODULE TrafficProofs ----------------------------
(* What Traffic promises for any domains, visitors, links, jobs, readers, times to
   live and sizes of a page: where a visit goes, what a closed day counts, and that
   paging misses nothing. *)
EXTENDS Traffic, FiniteSetTheorems, TLAPS

-----------------------------------------------------------------------------
(* The rank of a click in the order of GetClicks, Before(k, K), numbers the clicks
   K from 0 on without gaps. *)

Ordered(K) ==
  /\ IsFiniteSet(K)
  /\ \A k \in K : k.stamp \in Int /\ k.row \in Int
  /\ \A k, l \in K : k.row = l.row => k = l

Ahead(k, K) ==
  {l \in K : \/ l.stamp > k.stamp
             \/ l.stamp = k.stamp /\ l.row < k.row}

LEMMA Ranks ==
  ASSUME NEW K, Ordered(K), NEW k \in K
  PROVE  /\ Before(k, K) = Cardinality(Ahead(k, K)) /\ IsFiniteSet(Ahead(k, K))
         /\ Before(k, K) \in 0 .. (Cardinality(K) - 1)
         /\ Cardinality(K) \in Nat
<1>1. IsFiniteSet(K) /\ Cardinality(K) \in Nat
  BY FS_CardinalityType DEF Ordered
<1>2. Before(k, K) = Cardinality(Ahead(k, K))
  BY DEF Before, Ahead
<1>3. Ahead(k, K) \subseteq K \ {k}
  BY DEF Ahead, Ordered
<1>4. IsFiniteSet(K \ {k}) /\ Cardinality(K \ {k}) = Cardinality(K) - 1
  BY <1>1, FS_RemoveElement
<1>5. IsFiniteSet(Ahead(k, K)) /\ Cardinality(Ahead(k, K)) <= Cardinality(K) - 1
  BY <1>3, <1>4, FS_Subset
<1>6. Cardinality(Ahead(k, K)) \in Nat
  BY <1>5, FS_CardinalityType
<1> QED BY <1>1, <1>2, <1>5, <1>6

LEMMA RanksFollowTheOrder ==
  ASSUME NEW K, Ordered(K), NEW k \in K, NEW l \in K, l \in Ahead(k, K)
  PROVE  Before(l, K) < Before(k, K)
<1>1. /\ IsFiniteSet(Ahead(l, K)) /\ IsFiniteSet(Ahead(k, K))
      /\ Before(k, K) = Cardinality(Ahead(k, K))
      /\ Before(l, K) = Cardinality(Ahead(l, K))
      /\ Before(k, K) \in Int /\ Before(l, K) \in Int
  BY Ranks
<1>2. Ahead(l, K) \cup {l} \subseteq Ahead(k, K) /\ l \notin Ahead(l, K)
  BY DEF Ahead, Ordered
<1>3. Cardinality(Ahead(l, K) \cup {l}) = Cardinality(Ahead(l, K)) + 1
  BY <1>1, <1>2, FS_AddElement
<1>4. Cardinality(Ahead(l, K) \cup {l}) <= Cardinality(Ahead(k, K))
  BY <1>1, <1>2, FS_Subset
<1> QED BY <1>1, <1>3, <1>4

LEMMA RanksDiffer ==
  ASSUME NEW K, Ordered(K), NEW k \in K, NEW l \in K, k # l
  PROVE  Before(k, K) # Before(l, K)
<1>1. l \in Ahead(k, K) \/ k \in Ahead(l, K)
  BY DEF Ahead, Ordered
<1>2. Before(k, K) \in Int /\ Before(l, K) \in Int
  BY Ranks
<1> QED BY <1>1, <1>2, RanksFollowTheOrder

LEMMA RanksHaveNoGap ==
  ASSUME NEW K, Ordered(K), NEW n \in 0 .. (Cardinality(K) - 1)
  PROVE  \E k \in K : Before(k, K) = n
<1> DEFINE T == 0 .. (Cardinality(K) - 1)
           f == [k \in K |-> Before(k, K)]
<1>1. IsFiniteSet(K) /\ Cardinality(K) \in Nat
  BY FS_CardinalityType DEF Ordered
<1>2. IsFiniteSet(T) /\ Cardinality(T) = Cardinality(K)
  BY <1>1, FS_Interval
<1>3. f \in Injection(K, T)
  <2>1. f \in [K -> T]
    BY Ranks
  <2>2. \A k, l \in K : f[k] = f[l] => k = l
    BY RanksDiffer
  <2> QED BY <2>1, <2>2 DEF Injection, IsInjective
<1>4. f \in Surjection(K, T)
  BY <1>2, <1>3, FS_Injection
<1>5. \A t \in T : \E k \in K : f[k] = t
  BY <1>4 DEF Surjection
<1> QED BY <1>5

(* A page before a click that is there is full. *)
LEMMA PagesAreFull ==
  ASSUME NEW K, Ordered(K), NEW o \in Nat, NEW n \in Nat, NEW k \in K,
         Before(k, K) >= o + n
  PROVE  Cardinality({l \in K : Before(l, K) \in o .. (o + n - 1)}) >= n
<1> DEFINE P == {l \in K : Before(l, K) \in o .. (o + n - 1)}
           T == o .. (o + n - 1)
           f == [l \in P |-> Before(l, K)]
<1>1. IsFiniteSet(P)
  BY FS_Subset DEF Ordered
<1>2. Before(k, K) \in 0 .. (Cardinality(K) - 1) /\ Cardinality(K) \in Nat
  BY Ranks
<1>3. \A t \in T : \E l \in P : f[l] = t
  <2> SUFFICES ASSUME NEW t \in T PROVE \E l \in P : f[l] = t
    OBVIOUS
  <2>1. t \in 0 .. (Cardinality(K) - 1)
    BY <1>2
  <2> QED BY <2>1, RanksHaveNoGap
<1>4. f \in Surjection(P, T)
  BY <1>3 DEF Surjection
<1>5. Cardinality(T) <= Cardinality(P) /\ Cardinality(T) = n
  BY <1>1, <1>4, FS_Surjection, FS_Interval
<1> QED BY <1>5

(* Clicks that arrive move a click back, never forward. *)
LEMMA RanksGrow ==
  ASSUME NEW K, NEW L, Ordered(K), Ordered(L), K \subseteq L, NEW k \in K
  PROVE  Before(k, K) <= Before(k, L)
<1>1. /\ Before(k, K) = Cardinality(Ahead(k, K)) /\ Before(k, L) = Cardinality(Ahead(k, L))
      /\ IsFiniteSet(Ahead(k, L))
  BY Ranks
<1>2. Ahead(k, K) \subseteq Ahead(k, L)
  BY DEF Ahead
<1> QED BY <1>1, <1>2, FS_Subset

-----------------------------------------------------------------------------
(* Hosts: an organization found for a domain was its owner at readAt or later. *)

Owned(d, o, t) ==
  \/ domains[d] = o
  \/ \E m \in moved : m.domain = d /\ m.org = o /\ m.until >= t

EntryOwned(d, e) ==
  e.readAt <= e.cachedAt /\ e.cachedAt <= now /\ Owned(d, e.org, e.readAt)

VisitOwned(w) ==
  /\ w.kind = "store" => w.readAt <= now /\ Owned(w.domain, w.org, w.readAt)
  /\ (w.kind = "found" /\ w.domain # SharedDomain) =>
       /\ w.readAt <= now /\ Owned(w.domain, w.org, w.readAt)
       /\ w.hit => w.foundAt - w.cachedAt < DomainTTL

Entries == \A d \in Domains : domainCache[d] # NotCached => EntryOwned(d, domainCache[d])
Finds  == \A v \in Visitors : VisitOwned(visit[v])

HInv == HostsTypeOK /\ Entries /\ Finds

LEMMA VisitFields ==
  ASSUME NEW w \in Visit
  PROVE  /\ w.kind \in {"idle", "load", "delete", "query", "store", "found"}
         /\ w.kind \in {"load", "delete", "query"} => w.domain \in Domains
         /\ w.kind = "store" => w.domain \in Domains /\ w.org \in Orgs /\ w.readAt \in Times
         /\ w.kind = "found" =>
              /\ w.domain \in Domains \cup {SharedDomain} /\ w.org \in Orgs
              /\ w.readAt \in Times /\ w.cachedAt \in Times /\ w.foundAt \in Times
              /\ w.hit \in BOOLEAN
BY DEF Visit, NoVisit

LEMMA Numbers ==
  /\ \A t \in Times : t \in Nat
  /\ DomainTTL \in Nat /\ MaxNow \in Nat
  /\ MaxVisits \in Nat /\ MaxEvents \in Nat /\ SharedDomain \notin Domains
BY HostConstants DEF Times

LEMMA NoVisitOwned ==
  NoVisit \in Visit /\ VisitOwned(NoVisit)
BY DEF Visit, NoVisit, VisitOwned

(* Who has owned a domain stays known, whatever moves. *)
LEMMA OwnedStays ==
  ASSUME NEW d \in Domains, NEW o \in Orgs, NEW t \in Times, t <= now, now \in Times,
         Owned(d, o, t),
         \/ UNCHANGED <<domains, moved>>
         \/ /\ HostsTypeOK /\ \E e \in Domains, q \in Orgs \cup {NoOrg} : MoveDomain(e, q)
  PROVE  Owned(d, o, t)'
<1>1. CASE UNCHANGED <<domains, moved>>
  BY <1>1 DEF Owned
<1>2. CASE HostsTypeOK /\ \E e \in Domains, q \in Orgs \cup {NoOrg} : MoveDomain(e, q)
  <2>1. PICK e \in Domains, q \in Orgs \cup {NoOrg} : MoveDomain(e, q)
    BY <1>2
  <2>2. moved \subseteq moved'
    BY <2>1 DEF MoveDomain
  <2>3. CASE domains[d] = o /\ e = d
    <3>1. o # NoOrg
      BY HostConstants
    <3>2. [domain |-> d, org |-> o, until |-> now] \in moved'
      BY <2>1, <2>3, <3>1 DEF MoveDomain
    <3> QED BY <3>2 DEF Owned
  <2>4. CASE domains[d] = o /\ e # d
    BY <1>2, <2>1, <2>4 DEF Owned, MoveDomain, HostsTypeOK
  <2>5. CASE domains[d] # o
    BY <2>2, <2>5 DEF Owned
  <2> QED BY <2>3, <2>4, <2>5
<1> QED BY <1>1, <1>2

LEMMA EntryStays ==
  ASSUME HInv, NEW d \in Domains, NEW e \in Cached, EntryOwned(d, e),
         now' \in Times, now <= now',
         \/ UNCHANGED <<domains, moved>>
         \/ \E f \in Domains, q \in Orgs \cup {NoOrg} : MoveDomain(f, q)
  PROVE  EntryOwned(d, e)'
<1>1. e.org \in Orgs /\ e.readAt \in Times /\ e.cachedAt \in Times
  BY DEF Cached
<1>2. e.readAt <= e.cachedAt /\ e.cachedAt <= now /\ Owned(d, e.org, e.readAt)
  BY DEF EntryOwned
<1>3. now \in Times
  BY DEF HInv, HostsTypeOK
<1>4. now \in Nat /\ now' \in Nat /\ e.readAt \in Nat /\ e.cachedAt \in Nat
  BY <1>1, <1>3, Numbers
<1>5. e.readAt <= now /\ e.cachedAt <= now'
  BY <1>2, <1>4
<1>6. Owned(d, e.org, e.readAt)'
  BY <1>1, <1>2, <1>3, <1>5, OwnedStays DEF HInv
<1> QED BY <1>2, <1>5, <1>6 DEF EntryOwned

LEMMA VisitStays ==
  ASSUME HInv, NEW w \in Visit, VisitOwned(w), now' \in Times, now <= now',
         \/ UNCHANGED <<domains, moved>>
         \/ \E e \in Domains, q \in Orgs \cup {NoOrg} : MoveDomain(e, q)
  PROVE  VisitOwned(w)'
<1>1. now \in Times
  BY DEF HInv, HostsTypeOK
<1>2. ASSUME w.kind = "store" \/ (w.kind = "found" /\ w.domain # SharedDomain)
      PROVE  w.readAt <= now' /\ Owned(w.domain, w.org, w.readAt)'
  <2>1. /\ w.domain \in Domains /\ w.org \in Orgs /\ w.readAt \in Times
        /\ w.readAt <= now /\ Owned(w.domain, w.org, w.readAt)
    BY <1>2, VisitFields DEF VisitOwned
  <2>2. now \in Nat /\ now' \in Nat /\ w.readAt \in Nat
    BY <2>1, <1>1, Numbers
  <2>3. w.readAt <= now'
    BY <2>1, <2>2
  <2> QED BY <2>1, <2>3, <1>1, OwnedStays DEF HInv
<1> QED BY <1>2 DEF VisitOwned

LEMMA HostStep ==
  ASSUME HInv, now' \in Times, now <= now',
         visits' \in 0 .. MaxVisits, events' \in 0 .. MaxEvents,
         \/ UNCHANGED <<domains, moved>>
         \/ \E f \in Domains, q \in Orgs \cup {NoOrg} : MoveDomain(f, q),
         domainCache' \in [Domains -> Cached \cup {NotCached}],
         \A d \in Domains : \/ domainCache'[d] \in {domainCache[d], NotCached}
                            \/ EntryOwned(d, domainCache[d])',
         visit' \in [Visitors -> Visit],
         \A v \in Visitors : visit'[v] = visit[v] \/ VisitOwned(visit[v])'
  PROVE  HInv'
<1>1. domains' \in [Domains -> Orgs \cup {NoOrg}]
      /\ moved' \subseteq [domain : Domains, org : Orgs, until : Times]
  BY DEF HInv, HostsTypeOK, MoveDomain
<1>2. HostsTypeOK'
  BY <1>1 DEF HostsTypeOK
<1>3. Entries'
  <2> SUFFICES ASSUME NEW d \in Domains, domainCache'[d] # NotCached
               PROVE  EntryOwned(d, domainCache[d])'
    BY DEF Entries
  <2>1. CASE domainCache'[d] = domainCache[d]
    <3>1. PICK e \in Cached : e = domainCache[d]
      BY <2>1 DEF HInv, HostsTypeOK
    <3>2. EntryOwned(d, e)
      BY <2>1, <3>1 DEF HInv, Entries
    <3>3. EntryOwned(d, e)'
      BY <3>2, EntryStays
    <3> QED BY <2>1, <3>1, <3>3 DEF EntryOwned, Owned
  <2> QED BY <2>1
<1>4. Finds'
  <2> SUFFICES ASSUME NEW v \in Visitors PROVE VisitOwned(visit[v])'
    BY DEF Finds
  <2>1. CASE visit'[v] = visit[v]
    <3>1. PICK w \in Visit : w = visit[v]
      BY DEF HInv, HostsTypeOK
    <3>2. VisitOwned(w)
      BY <3>1 DEF HInv, Finds
    <3>3. VisitOwned(w)'
      BY <3>2, VisitStays
    <3> QED BY <2>1, <3>1, <3>3 DEF VisitOwned, Owned
  <2> QED BY <2>1
<1> QED BY <1>2, <1>3, <1>4 DEF HInv

(* A visit goes on to w; nothing moves meanwhile. *)
LEMMA VisitStep ==
  ASSUME HInv, NEW v \in Visitors, NEW w \in Visit, Goto(v, w), VisitOwned(w),
         domainCache' \in [Domains -> Cached \cup {NotCached}],
         \A d \in Domains : \/ domainCache'[d] \in {domainCache[d], NotCached}
                            \/ EntryOwned(d, domainCache[d])',
         visits' \in 0 .. MaxVisits, UNCHANGED <<domains, moved, now, events>>
  PROVE  HInv'
<1>1. /\ visit' \in [Visitors -> Visit] /\ visit'[v] = w
      /\ \A u \in Visitors : u # v => visit'[u] = visit[u]
  BY DEF HInv, HostsTypeOK, Goto
<1>2. VisitOwned(visit[v])'
  BY <1>1 DEF VisitOwned, Owned
<1>3. now' \in Times /\ now <= now' /\ events' \in 0 .. MaxEvents
  BY Numbers DEF HInv, HostsTypeOK
<1> QED BY <1>1, <1>2, <1>3, HostStep

LEMMA ArriveStep ==
  ASSUME HInv, NEW v \in Visitors, NEW d \in Domains \cup {SharedDomain}, Arrive(v, d)
  PROVE  HInv'
<1>1. now \in Times /\ now \in Nat
  BY Numbers DEF HInv, HostsTypeOK
<1>2. PICK w \in Visit : /\ Goto(v, w) /\ w.kind \in {"load", "found"}
                         /\ w.kind = "found" => w.domain = SharedDomain
  <2>1. CASE d = SharedDomain
    <3>1. Found(d, SystemOrg, now, now, FALSE) \in Visit
      BY <1>1, <2>1, HostConstants DEF Found, Visit
    <3>2. Goto(v, Found(d, SystemOrg, now, now, FALSE))
      BY <2>1 DEF Arrive
    <3> QED BY <2>1, <3>1, <3>2 DEF Found
  <2>2. CASE d # SharedDomain
    <3>1. [kind |-> "load", domain |-> d] \in Visit
      BY <2>2 DEF Visit
    <3>2. Goto(v, [kind |-> "load", domain |-> d])
      BY <2>2 DEF Arrive
    <3> QED BY <3>1, <3>2
  <2> QED BY <2>1, <2>2
<1>3. VisitOwned(w)
  BY <1>2 DEF VisitOwned
<1>4. visits' \in 0 .. MaxVisits
  BY Numbers DEF HInv, HostsTypeOK, Arrive
<1>5. UNCHANGED <<domains, domainCache, now, events, moved>>
  BY DEF Arrive
<1> QED BY <1>2, <1>3, <1>4, <1>5, VisitStep DEF HInv, HostsTypeOK

LEMMA AtDomain ==
  ASSUME NEW w \in Visit, w.kind \in {"load", "delete", "query"},
         NEW k \in {"load", "delete", "query"}
  PROVE  /\ [w EXCEPT !.kind = k] \in Visit /\ VisitOwned([w EXCEPT !.kind = k])
         /\ w.domain \in Domains
<1>1. w.domain \in Domains /\ w \in [kind : {"load", "delete", "query"}, domain : Domains]
  BY DEF Visit, NoVisit
<1>2. [w EXCEPT !.kind = k] \in [kind : {"load", "delete", "query"}, domain : Domains]
      /\ [w EXCEPT !.kind = k].kind = k
  BY <1>1
<1> QED BY <1>1, <1>2 DEF Visit, VisitOwned

LEMMA LoadDomainStep ==
  ASSUME HInv, NEW v \in Visitors, LoadDomain(v)
  PROVE  HInv'
<1>1. PICK w \in Visit : w = visit[v] /\ w.kind = "load" /\ w.domain \in Domains
  BY VisitFields DEF HInv, HostsTypeOK, LoadDomain
<1>2. /\ UNCHANGED <<domains, domainCache, now, visits, events, moved>>
      /\ visits' \in 0 .. MaxVisits
  BY DEF HInv, HostsTypeOK, LoadDomain
<1>3. ASSUME NEW k \in {"query", "delete"}, Goto(v, [w EXCEPT !.kind = k])
      PROVE  HInv'
  BY <1>1, <1>2, <1>3, AtDomain, VisitStep DEF HInv, HostsTypeOK
<1>4. CASE /\ domainCache[w.domain] # NotCached
           /\ now - domainCache[w.domain].cachedAt < DomainTTL
           /\ Goto(v, Found(w.domain, domainCache[w.domain].org, domainCache[w.domain].readAt,
                            domainCache[w.domain].cachedAt, TRUE))
  <2>1. PICK e \in Cached : e = domainCache[w.domain]
    BY <1>1, <1>4 DEF HInv, HostsTypeOK
  <2>2. EntryOwned(w.domain, e) /\ e.org \in Orgs /\ e.readAt \in Times /\ e.cachedAt \in Times
    BY <1>1, <1>4, <2>1 DEF HInv, Entries, Cached
  <2>3. now \in Times /\ now \in Nat /\ e.readAt \in Nat /\ e.cachedAt \in Nat
    BY <2>2, Numbers DEF HInv, HostsTypeOK
  <2>4. PICK n \in Times : n = now
    BY <2>3
  <2>5. PICK f \in Visit :
          f = [kind |-> "found", domain |-> w.domain, org |-> e.org, readAt |-> e.readAt,
               cachedAt |-> e.cachedAt, foundAt |-> n, hit |-> TRUE]
    BY <1>1, <2>2 DEF Visit
  <2>6. Goto(v, f)
    BY <1>4, <2>1, <2>4, <2>5 DEF Found
  <2>7. e.readAt <= now /\ Owned(w.domain, e.org, e.readAt)
    BY <2>2, <2>3 DEF EntryOwned
  <2>8. /\ f.kind = "found" /\ f.domain = w.domain /\ f.org = e.org /\ f.readAt = e.readAt
        /\ f.cachedAt = e.cachedAt /\ f.foundAt = now
    BY <2>4, <2>5
  <2>9. VisitOwned(f)
    BY <1>4, <2>1, <2>7, <2>8 DEF VisitOwned
  <2> QED BY <1>2, <2>6, <2>9, VisitStep DEF HInv, HostsTypeOK
<1> QED BY <1>1, <1>3, <1>4 DEF LoadDomain

LEMMA DeleteDomainStep ==
  ASSUME HInv, NEW v \in Visitors, DeleteDomain(v)
  PROVE  HInv'
<1>1. PICK w \in Visit : w = visit[v] /\ w.kind = "delete"
  BY DEF HInv, HostsTypeOK, DeleteDomain
<1>2. /\ [w EXCEPT !.kind = "query"] \in Visit /\ VisitOwned([w EXCEPT !.kind = "query"])
      /\ Goto(v, [w EXCEPT !.kind = "query"])
  BY <1>1, AtDomain DEF DeleteDomain
<1>3. PICK f \in Visit : f = [w EXCEPT !.kind = "query"]
  BY <1>2
<1>4. /\ domainCache' \in [Domains -> Cached \cup {NotCached}]
      /\ \A d \in Domains : domainCache'[d] \in {domainCache[d], NotCached}
      /\ UNCHANGED <<domains, moved, now, events>> /\ visits' \in 0 .. MaxVisits
  BY DEF HInv, HostsTypeOK, DeleteDomain
<1> QED BY <1>2, <1>3, <1>4, VisitStep

LEMMA LeaveStep ==
  ASSUME HInv, NEW v \in Visitors, Goto(v, NoVisit),
         UNCHANGED <<domains, domainCache, now, visits, events, moved>>
  PROVE  HInv'
<1>1. visits' \in 0 .. MaxVisits
  BY DEF HInv, HostsTypeOK
<1> QED BY <1>1, NoVisitOwned, VisitStep DEF HInv, HostsTypeOK

LEMMA QueryDomainStep ==
  ASSUME HInv, NEW v \in Visitors, QueryDomain(v)
  PROVE  HInv'
<1>1. PICK w \in Visit : w = visit[v] /\ w.kind = "query" /\ w.domain \in Domains
  BY VisitFields DEF HInv, HostsTypeOK, QueryDomain
<1>2. /\ UNCHANGED <<domains, domainCache, now, visits, events, moved>>
      /\ visits' \in 0 .. MaxVisits
  BY DEF HInv, HostsTypeOK, QueryDomain
<1>3. CASE domains[w.domain] = NoOrg
  BY <1>1, <1>2, <1>3, LeaveStep DEF QueryDomain
<1>4. CASE domains[w.domain] # NoOrg
  <2>1. PICK o \in Orgs : o = domains[w.domain]
    BY <1>1, <1>4 DEF HInv, HostsTypeOK
  <2>2. PICK n \in Times : n = now
    BY DEF HInv, HostsTypeOK
  <2>3. PICK f \in Visit :
          f = [kind |-> "store", domain |-> w.domain, org |-> o, readAt |-> n]
    BY <1>1 DEF Visit
  <2>4. Goto(v, f)
    BY <1>1, <1>4, <2>1, <2>2, <2>3 DEF QueryDomain
  <2>5. f.kind = "store" /\ f.domain = w.domain /\ f.org = o /\ f.readAt = n
    BY <2>3
  <2>6. n <= now
    BY <2>2, Numbers
  <2>7. VisitOwned(f)
    BY <2>1, <2>5, <2>6 DEF VisitOwned, Owned
  <2> QED BY <1>2, <2>4, <2>7, VisitStep DEF HInv, HostsTypeOK
<1> QED BY <1>3, <1>4

LEMMA StoreDomainStep ==
  ASSUME HInv, NEW v \in Visitors, StoreDomain(v)
  PROVE  HInv'
<1>1. PICK w \in Visit :
        /\ w = visit[v] /\ w.kind = "store" /\ w.domain \in Domains
        /\ w.org \in Orgs /\ w.readAt \in Times
  BY VisitFields DEF HInv, HostsTypeOK, StoreDomain
<1>2. w.readAt <= now /\ Owned(w.domain, w.org, w.readAt)
  BY <1>1 DEF HInv, Finds, VisitOwned
<1>3. PICK n \in Times : n = now /\ n \in Nat /\ w.readAt \in Nat
  BY <1>1, Numbers DEF HInv, HostsTypeOK
<1>4. PICK e \in Cached : e = [org |-> w.org, cachedAt |-> n, readAt |-> w.readAt]
  BY <1>1 DEF Cached
<1>5. PICK f \in Visit :
        f = [kind |-> "found", domain |-> w.domain, org |-> w.org, readAt |-> w.readAt,
             cachedAt |-> n, foundAt |-> w.readAt, hit |-> FALSE]
  BY <1>1 DEF Visit
<1>6. /\ domainCache' = [domainCache EXCEPT ![w.domain] = e] /\ Goto(v, f)
      /\ UNCHANGED <<domains, now, visits, events, moved>>
  BY <1>1, <1>3, <1>4, <1>5 DEF StoreDomain, Goto
<1>7. /\ e.org = w.org /\ e.cachedAt = n /\ e.readAt = w.readAt
      /\ f.kind = "found" /\ f.domain = w.domain /\ f.org = w.org /\ f.readAt = w.readAt
      /\ f.hit = FALSE
  BY <1>4, <1>5
<1>8. VisitOwned(f)
  BY <1>2, <1>7 DEF VisitOwned
<1>9. /\ domainCache' \in [Domains -> Cached \cup {NotCached}] /\ domainCache'[w.domain] = e
      /\ \A d \in Domains : d # w.domain => domainCache'[d] = domainCache[d]
  BY <1>1, <1>6 DEF HInv, HostsTypeOK
<1>10. EntryOwned(w.domain, domainCache[w.domain])'
  BY <1>2, <1>3, <1>6, <1>7, <1>9 DEF EntryOwned, Owned
<1>11. visits' \in 0 .. MaxVisits
  BY <1>6 DEF HInv, HostsTypeOK
<1> QED BY <1>6, <1>8, <1>9, <1>10, <1>11, VisitStep

LEMMA MoveDomainStep ==
  ASSUME HInv, NEW d \in Domains, NEW o \in Orgs \cup {NoOrg}, MoveDomain(d, o)
  PROVE  HInv'
<1>1. UNCHANGED <<domainCache, visit, now, visits>> /\ events' \in 0 .. MaxEvents
  BY Numbers DEF HInv, HostsTypeOK, MoveDomain
<1>2. now' \in Times /\ now <= now' /\ visits' \in 0 .. MaxVisits
  BY <1>1, Numbers DEF HInv, HostsTypeOK
<1> QED BY <1>1, <1>2, HostStep DEF HInv, HostsTypeOK

LEMMA ResolveStep ==
  ASSUME HInv, NEW v \in Visitors, Resolve(v)
  PROVE  HInv'
<1>1. CASE GiveUp(v)
  BY <1>1, LeaveStep DEF GiveUp
<1> QED BY <1>1, ArriveStep, LoadDomainStep, DeleteDomainStep, QueryDomainStep,
           StoreDomainStep DEF Resolve

(* A visit is over when it is answered; time, events and crashes do no harm. *)
LEMMA HostsElsewhere ==
  ASSUME HInv, UNCHANGED <<domains, moved, visits>>,
         now' \in Times, now <= now', events' \in 0 .. MaxEvents,
         \/ UNCHANGED <<domainCache, visit>>
         \/ UNCHANGED domainCache /\ \E v \in Visitors : Goto(v, NoVisit)
         \/ /\ domainCache' = [d \in Domains |-> NotCached]
            /\ visit' = [v \in Visitors |-> NoVisit]
  PROVE  HInv'
<1>1. visits' \in 0 .. MaxVisits
  BY DEF HInv, HostsTypeOK
<1>2. /\ domainCache' \in [Domains -> Cached \cup {NotCached}]
      /\ \A d \in Domains : domainCache'[d] \in {domainCache[d], NotCached}
  BY DEF HInv, HostsTypeOK
<1>3. visit' \in [Visitors -> Visit]
      /\ \A v \in Visitors : visit'[v] = visit[v] \/ visit'[v] = NoVisit
  BY NoVisitOwned DEF HInv, HostsTypeOK, Goto
<1>4. VisitOwned(NoVisit)'
  BY DEF VisitOwned, NoVisit
<1>5. \A v \in Visitors : visit'[v] = NoVisit => VisitOwned(visit[v])'
  BY <1>4 DEF VisitOwned, Owned
<1> QED BY <1>1, <1>2, <1>3, <1>5, HostStep

LEMMA HostsStart ==
  ASSUME HostsInit
  PROVE  HInv
<1>1. HostsTypeOK
  BY NoVisitOwned, HostConstants, Numbers DEF HostsInit, HostsTypeOK, Times
<1>2. Entries /\ Finds
  BY NoVisitOwned DEF HostsInit, Entries, Finds
<1> QED BY <1>1, <1>2 DEF HInv

LEMMA HostsAreFresh ==
  ASSUME HInv
  PROVE  HostStaleness
<1> SUFFICES ASSUME NEW v \in Visitors, visit[v].kind = "found",
                    visit[v].domain # SharedDomain, domains[visit[v].domain] # visit[v].org
             PROVE  \E m \in moved :
                      /\ m.domain = visit[v].domain /\ m.org = visit[v].org
                      /\ IF visit[v].hit
                           THEN visit[v].foundAt - m.until
                                  < DomainTTL + (visit[v].cachedAt - visit[v].readAt)
                           ELSE m.until >= visit[v].readAt
  BY DEF HostStaleness
<1>1. PICK w \in Visit : w = visit[v]
  BY DEF HInv, HostsTypeOK
<1>2. /\ Owned(w.domain, w.org, w.readAt)
      /\ w.hit => w.foundAt - w.cachedAt < DomainTTL
      /\ w.readAt \in Nat /\ w.cachedAt \in Nat /\ w.foundAt \in Nat
  BY <1>1, VisitFields, Numbers DEF HInv, Finds, VisitOwned
<1>3. PICK m \in moved : m.domain = w.domain /\ m.org = w.org /\ m.until >= w.readAt
  BY <1>1, <1>2 DEF Owned
<1>4. m.until \in Nat
  BY Numbers DEF HInv, HostsTypeOK
<1>5. w.hit => w.foundAt - m.until < DomainTTL + (w.cachedAt - w.readAt)
  BY <1>2, <1>3, <1>4, Numbers
<1> QED BY <1>1, <1>3, <1>5

-----------------------------------------------------------------------------
(* Clicks, jobs and readers. *)

(* Rowids are given out once, and a click in flight is a redirect not yet a row. *)
Numbered ==
  /\ IsFiniteSet(clicks) /\ IsFiniteSet(inserting)
  /\ Cardinality(clicks) + Cardinality(inserting) <= served
  /\ \A k \in clicks : k.row <= Cardinality(clicks)
  /\ \A k, l \in clicks : k.row = l.row => k = l

(* No click of that day will come. *)
Over(o, d) == now >= (d + 1) * DayLength /\ OfDay(inserting, o, d) = {}

(* What a job at kind has counted for a day that is over is still so. *)
ExactSoFar(kind, s, o, d) ==
  s.settled =>
    /\ Over(o, d)
    /\ kind \in {"ips", "country", "upsert"} => s.clicks = Cardinality(OfDay(clicks, o, d))
    /\ kind \in {"country", "upsert"} =>
         s.ips = Cardinality(AddressesOf(OfDay(clicks, o, d)))
    /\ kind = "upsert" => s.country = IF OfDay(clicks, o, d) = {} THEN "" ELSE "US"

JobsExact ==
  \A j \in Jobs : job[j] # NoJob =>
    ExactSoFar(job[j].kind, job[j].stat, job[j].org, job[j].day)

DailyExact ==
  \A o \in Orgs, d \in Days : daily[<<o, d>>] # NoStat =>
    ExactSoFar("upsert", daily[<<o, d>>], o, d)

(* A reader has seen what it wanted of the clicks ahead of its page. *)
ReaderCaughtUp(w) ==
  w.kind \in {"paging", "done"} =>
    /\ w.want \subseteq InRange(w.org, w.range)
    /\ w.kind = "paging" =>
         \A k \in w.want : Before(k, InRange(w.org, w.range)) < Offset(w.page, w.limit)
                             => k \in w.seen
    /\ (w.kind = "done" /\ w.whole) => w.want \subseteq w.seen

Paged == \A c \in Readers : ReaderCaughtUp(reader[c])

IInv == TypeOK /\ HInv /\ Numbered /\ JobsExact /\ DailyExact /\ Paged

LEMMA ClickFields ==
  ASSUME TypeOK
  PROVE  /\ \A k \in clicks : /\ k.org \in Orgs /\ k.stamp \in Nat /\ k.stamp \in Times
                              /\ k.row \in Nat /\ k.ip \in Addresses
         /\ \A k \in inserting : /\ k.org \in Orgs /\ k.stamp \in Nat /\ k.stamp \in Times
                                 /\ k.ip \in Addresses /\ k.id \in 1 .. MaxClicks
                                 /\ k.url \in URLs
BY Numbers, TrafficConstants DEF TypeOK, Row, Stamped

LEMMA RangesOrdered ==
  ASSUME TypeOK, Numbered, NEW o, NEW g
  PROVE  /\ Ordered(InRange(o, g)) /\ InRange(o, g) \subseteq clicks
         /\ Cardinality(InRange(o, g)) <= Cardinality(clicks)
<1>1. InRange(o, g) \subseteq clicks
  BY DEF InRange
<1>2. IsFiniteSet(InRange(o, g)) /\ Cardinality(InRange(o, g)) <= Cardinality(clicks)
  BY <1>1, FS_Subset DEF Numbered
<1>3. \A k \in InRange(o, g) : k.stamp \in Int /\ k.row \in Int
  BY <1>1, ClickFields
<1> QED BY <1>1, <1>2, <1>3 DEF Ordered, Numbered

LEMMA DayLengths ==
  /\ Days \subseteq Int
  /\ \A d \in Days : d * DayLength \in Int /\ (d + 1) * DayLength \in Int
<1>1. Days \subseteq Int
  BY Numbers, TrafficConstants DEF Days
<1>2. DayLength \in Int
  BY TrafficConstants
<1> QED BY <1>1, <1>2

(* What may happen to the clicks: a new one is stamped now, a row is one that was
   in flight, and rows stay. *)
ClicksGoOn ==
  /\ now' \in Times /\ now <= now'
  /\ \A k \in inserting' : k \in inserting \/ k.stamp = now
  /\ clicks \subseteq clicks'
  /\ \A k \in clicks' : k \in clicks \/ \E l \in inserting : l.org = k.org /\ l.stamp = k.stamp

LEMMA DayStays ==
  ASSUME TypeOK, ClicksGoOn, NEW o, NEW d \in Days, Over(o, d)
  PROVE  Over(o, d)' /\ OfDay(clicks, o, d)' = OfDay(clicks, o, d)
<1>1. PICK e \in Int : e = (d + 1) * DayLength
  BY DayLengths
<1>2. now \in Nat /\ now' \in Nat /\ now >= e
  BY <1>1, Numbers DEF TypeOK, HostsTypeOK, ClicksGoOn, Over
<1>3. now' >= (d + 1) * DayLength
  BY <1>1, <1>2 DEF ClicksGoOn
<1>4. OfDay(inserting', o, d) = {}
  BY <1>1, <1>2 DEF ClicksGoOn, Over, OfDay
<1>5. OfDay(clicks', o, d) = OfDay(clicks, o, d)
  BY DEF ClicksGoOn, Over, OfDay
<1> QED BY <1>3, <1>4, <1>5 DEF Over, OfDay

LEMMA ExactStays ==
  ASSUME TypeOK, ClicksGoOn, NEW kind, NEW s, NEW o, NEW d \in Days,
         ExactSoFar(kind, s, o, d)
  PROVE  ExactSoFar(kind, s, o, d)'
<1> SUFFICES ASSUME s.settled
             PROVE  ExactSoFar(kind, s, o, d)'
  BY DEF ExactSoFar
<1>1. Over(o, d)
  BY DEF ExactSoFar
<1>2. Over(o, d)' /\ OfDay(clicks, o, d)' = OfDay(clicks, o, d)
  BY <1>1, DayStays
<1>3. AddressesOf(OfDay(clicks, o, d))' = AddressesOf(OfDay(clicks, o, d))
  BY <1>2 DEF AddressesOf
<1> QED BY <1>2, <1>3 DEF ExactSoFar

LEMMA PagingFields ==
  ASSUME NEW w \in Paging
  PROVE  /\ w.kind \in {"idle", "paging", "done"}
         /\ w.kind \in {"paging", "done"} =>
              /\ w.org \in Orgs /\ w.range \in Ranges /\ w.limit \in Limits
              /\ w.page \in 1 .. (MaxClicks + 1) /\ w.want \subseteq Row /\ w.seen \subseteq Row
              /\ w.whole \in BOOLEAN
BY DEF Paging, NoPaging

LEMMA Pages ==
  ASSUME NEW p \in 1 .. (MaxClicks + 1), NEW l \in Limits
  PROVE  /\ Clamped(l) \in Nat \ {0} /\ Offset(p, l) \in Nat
         /\ Offset(p, l) >= p - 1 /\ Offset(p + 1, l) = Offset(p, l) + Clamped(l)
         /\ Offset(1, l) = 0
<1>1. PICK n \in Nat \ {0} : n = Clamped(l)
  BY TrafficConstants DEF Clamped
<1>2. PICK q \in Nat : q = p - 1
  BY TrafficConstants
<1>3. q * n \in Nat /\ q * n >= q /\ (q + 1) * n = q * n + n /\ 0 * n = 0
  OBVIOUS
<1>4. Offset(p, l) = q * n /\ Offset(p + 1, l) = (q + 1) * n /\ Offset(1, l) = 0 * n
  <2>1. p + 1 - 1 = q + 1
    BY <1>2
  <2> QED BY <1>1, <1>2, <2>1 DEF Offset
<1> QED BY <1>1, <1>2, <1>3, <1>4

LEMMA ReaderStays ==
  ASSUME TypeOK, Numbered, TypeOK', Numbered', clicks \subseteq clicks',
         NEW w \in Paging, ReaderCaughtUp(w)
  PROVE  ReaderCaughtUp(w)'
<1> SUFFICES ASSUME w.kind \in {"paging", "done"}
             PROVE  ReaderCaughtUp(w)'
  BY DEF ReaderCaughtUp
<1>1. PICK K : K = InRange(w.org, w.range)
  OBVIOUS
<1>2. PICK L : L = InRange(w.org, w.range)'
  OBVIOUS
<1>3. Ordered(K)
  BY <1>1, RangesOrdered
<1>4. Ordered(L)
  <2>1. IsFiniteSet(L)
    <3>1. L \subseteq clicks'
      BY <1>2 DEF InRange
    <3>2. PICK C : C = clicks'
      OBVIOUS
    <3> QED BY <3>1, <3>2, FS_Subset DEF Numbered
  <2>2. \A k \in L : k \in clicks' /\ k.stamp \in Int /\ k.row \in Int
    BY <1>2, Numbers DEF InRange, TypeOK, Row
  <2> QED BY <2>1, <2>2 DEF Ordered, Numbered
<1>5. K \subseteq L
  BY <1>1, <1>2 DEF InRange
<1>6. w.want \subseteq K
  BY <1>1 DEF ReaderCaughtUp
<1>7. ASSUME w.kind = "paging", NEW k \in w.want, Before(k, L) < Offset(w.page, w.limit)
      PROVE  k \in w.seen
  <2>1. Before(k, K) <= Before(k, L) /\ Before(k, K) \in Int /\ Before(k, L) \in Int
    BY <1>3, <1>4, <1>5, <1>6, Ranks, RanksGrow
  <2>2. Offset(w.page, w.limit) \in Int
    BY Pages, PagingFields
  <2>3. Before(k, K) < Offset(w.page, w.limit)
    BY <1>7, <2>1, <2>2
  <2> QED BY <1>1, <1>7, <2>3 DEF ReaderCaughtUp
<1> QED BY <1>2, <1>5, <1>6, <1>7 DEF ReaderCaughtUp

LEMMA JobFields ==
  ASSUME NEW w \in Job
  PROVE  /\ w # NoJob <=> w.kind # "idle"
         /\ w.kind \in {"idle", "clicks", "ips", "country", "upsert"}
         /\ w # NoJob => w.org \in Orgs /\ w.day \in Days /\ w.stat \in Stat
BY DEF Job, NoJob

LEMMA StatFields ==
  ASSUME NEW s \in Stat
  PROVE  s.clicks \in Nat /\ s.ips \in Nat /\ s.country \in {"", "US"}
         /\ s.settled \in BOOLEAN
BY DEF Stat

(* A step that keeps what the jobs, the table and the readers it leaves alone rely
   on, and is right about those it changes. *)
LEMMA TrafficStep ==
  ASSUME IInv, TypeOK', HInv', Numbered', ClicksGoOn,
         \A j \in Jobs : \/ job'[j] \in {job[j], NoJob}
                         \/ ExactSoFar(job[j].kind, job[j].stat, job[j].org, job[j].day)',
         \A o \in Orgs, d \in Days : \/ daily'[<<o, d>>] = daily[<<o, d>>]
                                     \/ ExactSoFar("upsert", daily[<<o, d>>], o, d)',
         \A c \in Readers : \/ reader'[c] \in {reader[c], NoPaging}
                            \/ ReaderCaughtUp(reader[c])'
  PROVE  IInv'
<1>1. JobsExact'
  <2> SUFFICES ASSUME NEW j \in Jobs, job'[j] # NoJob
               PROVE  ExactSoFar(job[j].kind, job[j].stat, job[j].org, job[j].day)'
    BY DEF JobsExact
  <2>1. CASE job'[j] = job[j]
    <3>1. PICK w \in Job : w = job[j]
      BY DEF IInv, TypeOK
    <3>2. ExactSoFar(w.kind, w.stat, w.org, w.day) /\ w.day \in Days
      BY <2>1, <3>1, JobFields DEF IInv, JobsExact
    <3>3. ExactSoFar(w.kind, w.stat, w.org, w.day)'
      BY <3>2, ExactStays DEF IInv
    <3> QED BY <2>1, <3>1, <3>3
  <2> QED BY <2>1
<1>2. DailyExact'
  <2> SUFFICES ASSUME NEW o \in Orgs, NEW d \in Days, daily'[<<o, d>>] # NoStat
               PROVE  ExactSoFar("upsert", daily[<<o, d>>], o, d)'
    BY DEF DailyExact
  <2>1. CASE daily'[<<o, d>>] = daily[<<o, d>>]
    <3>1. PICK s : s = daily[<<o, d>>]
      OBVIOUS
    <3>2. ExactSoFar("upsert", s, o, d)
      BY <2>1, <3>1 DEF IInv, DailyExact
    <3>3. ExactSoFar("upsert", s, o, d)'
      BY <3>2, ExactStays DEF IInv
    <3> QED BY <2>1, <3>1, <3>3
  <2> QED BY <2>1
<1>3. Paged'
  <2> SUFFICES ASSUME NEW c \in Readers PROVE ReaderCaughtUp(reader[c])'
    BY DEF Paged
  <2>1. CASE reader'[c] = reader[c]
    <3>1. PICK w \in Paging : w = reader[c]
      BY DEF IInv, TypeOK
    <3>2. ReaderCaughtUp(w)'
      BY <3>1, ReaderStays DEF IInv, Paged, ClicksGoOn
    <3> QED BY <2>1, <3>1, <3>2
  <2>2. CASE reader'[c] = NoPaging
    BY <2>2 DEF NoPaging, ReaderCaughtUp
  <2> QED BY <2>1, <2>2
<1> QED BY <1>1, <1>2, <1>3 DEF IInv

LEMMA ClicksStay ==
  ASSUME IInv, UNCHANGED <<clicks, inserting>>, now' \in Times, now <= now'
  PROVE  ClicksGoOn
BY DEF ClicksGoOn

LEMMA QuietStep ==
  ASSUME IInv, HInv', UNCHANGED trafficVars, now <= now'
  PROVE  IInv'
<1>1. TypeOK'
  BY DEF IInv, HInv, TypeOK, trafficVars
<1>2. Numbered'
  BY DEF IInv, Numbered, trafficVars
<1>3. ClicksGoOn
  BY ClicksStay DEF HInv, HostsTypeOK, trafficVars
<1> QED BY <1>1, <1>2, <1>3, TrafficStep DEF trafficVars

LEMMA HostTypes ==
  ASSUME IInv
  PROVE  /\ now \in Times /\ now \in Nat /\ events \in 0 .. MaxEvents /\ MaxEvents \in Nat
         /\ served \in 0 .. MaxClicks /\ MaxClicks \in Nat
         /\ Cardinality(clicks) \in Nat /\ Cardinality(inserting) \in Nat
         /\ HInv
BY Numbers, TrafficConstants, FS_CardinalityType DEF IInv, HInv, HostsTypeOK, TypeOK, Numbered

LEMMA FinalURLs ==
  ASSUME NEW o \in Orgs, NEW c \in Clients
  PROVE  FinalURL(Links[o], c.ua, c.ip) \in URLs
<1>1. PICK l : l = Links[o] /\ l.dest \in URLs
                /\ l.rules.device \in RuleMap(Devices) /\ l.rules.geo \in RuleMap({"US", "GB"})
  BY TrafficConstants
<1>2. \A K : \A f \in RuleMap(K) : \A x \in DOMAIN f : f[x] \in URLs \cup {NoURL}
  BY DEF RuleMap
<1>3. \A d, g : Evaluate(l.rules, d, g) \in URLs \cup {NoURL}
  BY <1>1, <1>2 DEF Evaluate
<1> QED BY <1>1, <1>3 DEF FinalURL

LEMMA AnswerStep ==
  ASSUME IInv, NEW v \in Visitors, NEW c \in Clients, Answer(v, c)
  PROVE  IInv'
<1>1. PICK w \in Visit : w = visit[v] /\ w.kind = "found" /\ w.org \in Orgs
  BY VisitFields DEF IInv, TypeOK, HostsTypeOK, Answer
<1>2. PICK n \in 1 .. MaxClicks : n = served + 1
  BY HostTypes DEF Answer
<1>3. PICK t \in Times : t = now
  BY HostTypes
<1>4. PICK k \in Stamped :
        k = [id |-> n, org |-> w.org, stamp |-> t, ip |-> c.ip,
             url |-> FinalURL(Links[w.org], c.ua, c.ip)]
  BY <1>1, FinalURLs DEF Stamped, Addresses
<1>5. k.stamp = now
  BY <1>3, <1>4
<1>6. /\ inserting' = inserting \cup {k} /\ served' = served + 1 /\ served < MaxClicks
      /\ Goto(v, NoVisit)
      /\ UNCHANGED <<domains, domainCache, now, visits, events, moved, clicks, job, daily,
                     reader>>
  BY <1>1, <1>2, <1>3, <1>4 DEF Answer
<1>7. HInv'
  BY <1>6, HostTypes, HostsElsewhere
<1>8. TypeOK'
  BY <1>6, <1>7, HostTypes DEF IInv, HInv, TypeOK
<1>9. Numbered'
  <2>1. IsFiniteSet(inserting \cup {k})
        /\ Cardinality(inserting \cup {k}) <= Cardinality(inserting) + 1
    <3>1. PICK S : S = inserting /\ IsFiniteSet(S)
      BY DEF IInv, Numbered
    <3>2. /\ IsFiniteSet(S \cup {k})
          /\ Cardinality(S \cup {k}) = IF k \in S THEN Cardinality(S) ELSE Cardinality(S) + 1
      BY <3>1, FS_AddElement
    <3>3. Cardinality(S) \in Nat
      BY <3>1, FS_CardinalityType
    <3> QED BY <3>1, <3>2, <3>3
  <2>2. Cardinality(inserting \cup {k}) \in Nat
    BY <2>1, FS_CardinalityType
  <2>3. Cardinality(clicks) + Cardinality(inserting \cup {k}) <= served + 1
    BY <2>1, <2>2, HostTypes DEF IInv, Numbered
  <2> QED BY <1>6, <2>1, <2>3 DEF IInv, Numbered
<1>10. ClicksGoOn
  BY <1>5, <1>6, HostTypes DEF ClicksGoOn
<1> QED BY <1>6, <1>7, <1>8, <1>9, <1>10, TrafficStep

LEMMA InsertClickStep ==
  ASSUME IInv, NEW k \in inserting, InsertClick(k)
  PROVE  IInv'
<1>1. /\ k.org \in Orgs /\ k.stamp \in Times /\ k.ip \in Addresses
      /\ k.id \in 1 .. MaxClicks /\ k.url \in URLs
  BY ClickFields DEF IInv
<1>2. IsFiniteSet(inserting \ {k})
      /\ Cardinality(inserting \ {k}) = Cardinality(inserting) - 1
      /\ Cardinality(inserting \ {k}) \in Nat
  BY FS_RemoveElement, FS_CardinalityType DEF IInv, Numbered
<1>3. PICK r \in 1 .. MaxClicks : r = Cardinality(clicks) + 1
  BY <1>2, HostTypes DEF IInv, Numbered
<1>4. PICK x \in Row :
        x = [id |-> k.id, org |-> k.org, stamp |-> k.stamp, ip |-> k.ip, url |-> k.url,
             row |-> r]
  BY <1>1 DEF Row
<1>5. x.org = k.org /\ x.stamp = k.stamp /\ x.row = Cardinality(clicks) + 1
  BY <1>3, <1>4
<1>6. /\ inserting' = inserting \ {k} /\ clicks' = clicks \cup {x}
      /\ UNCHANGED <<hostVars, served, job, daily, reader>>
  BY <1>3, <1>4 DEF InsertClick
<1>7. HInv'
  BY <1>6, HostTypes, HostsElsewhere DEF hostVars
<1>8. TypeOK'
  BY <1>6, <1>7 DEF IInv, HInv, TypeOK
<1>9. x \notin clicks
  BY <1>5, HostTypes, ClickFields DEF IInv, Numbered
<1>10. IsFiniteSet(clicks \cup {x})
       /\ Cardinality(clicks \cup {x}) = Cardinality(clicks) + 1
  BY <1>9, FS_AddElement DEF IInv, Numbered
<1>11. Numbered'
  <2>1. \A l \in clicks \cup {x} : l.row <= Cardinality(clicks) + 1
    BY <1>5, HostTypes, ClickFields DEF IInv, Numbered
  <2>2. \A l \in clicks : l.row # x.row
    BY <1>5, HostTypes, ClickFields DEF IInv, Numbered
  <2>3. Cardinality(clicks \cup {x}) + Cardinality(inserting \ {k}) <= served
    BY <1>2, <1>10, HostTypes DEF IInv, Numbered
  <2>4. \A l, m \in clicks \cup {x} : l.row = m.row => l = m
    BY <2>2 DEF IInv, Numbered
  <2> QED BY <1>2, <1>6, <1>10, <2>1, <2>3, <2>4 DEF Numbered
<1>12. ClicksGoOn
  BY <1>5, <1>6, HostTypes DEF ClicksGoOn, hostVars
<1> QED BY <1>6, <1>7, <1>8, <1>11, <1>12, TrafficStep

LEMMA LoseClickStep ==
  ASSUME IInv, NEW k \in inserting, LoseClick(k)
  PROVE  IInv'
<1>1. /\ inserting' = inserting \ {k}
      /\ UNCHANGED <<hostVars, clicks, served, job, daily, reader>>
  BY DEF LoseClick
<1>2. HInv'
  BY <1>1, HostTypes, HostsElsewhere DEF hostVars
<1>3. TypeOK'
  BY <1>1, <1>2 DEF IInv, HInv, TypeOK
<1>4. IsFiniteSet(inserting \ {k})
      /\ Cardinality(inserting \ {k}) = Cardinality(inserting) - 1
  BY FS_RemoveElement DEF IInv, Numbered
<1>5. Numbered'
  BY <1>1, <1>4, HostTypes DEF IInv, Numbered
<1>6. ClicksGoOn
  BY <1>1, HostTypes DEF ClicksGoOn, hostVars
<1> QED BY <1>1, <1>2, <1>3, <1>5, <1>6, TrafficStep

-----------------------------------------------------------------------------
(* The jobs. *)
LEMMA DaysAreFinite ==
  ASSUME IInv, NEW o, NEW d
  PROVE  /\ Cardinality(OfDay(clicks, o, d)) \in Nat
         /\ Cardinality(AddressesOf(OfDay(clicks, o, d))) \in Nat
<1>1. PICK K : K = OfDay(clicks, o, d) /\ IsFiniteSet(K)
  <2>1. OfDay(clicks, o, d) \subseteq clicks
    BY DEF OfDay
  <2> QED BY <2>1, FS_Subset DEF IInv, Numbered
<1>2. IsFiniteSet(AddressesOf(K))
  <2>1. PICK f : f = [k \in K |-> k.ip]
    OBVIOUS
  <2>2. f \in Surjection(K, AddressesOf(K))
    BY <2>1 DEF Surjection, AddressesOf
  <2> QED BY <1>1, <2>2, FS_Surjection
<1> QED BY <1>1, <1>2, FS_CardinalityType

(* Records with a field replaced. *)
Countries == {"", "US"}
AtWork == {"clicks", "ips", "country", "upsert"}

LEMMA StatClicks ==
  ASSUME NEW s \in Stat, NEW n \in Nat
  PROVE  \E t \in Stat :
           /\ t = [s EXCEPT !.clicks = n]
           /\ t.clicks = n /\ t.ips = s.ips
           /\ t.country = s.country /\ t.settled = s.settled
<1> DEFINE t == [clicks |-> n, ips |-> s.ips, country |-> s.country, settled |-> s.settled]
<1>1. t \in Stat
  BY DEF Stat
<1>2. PICK A, B, C, D : s \in [clicks : A, ips : B, country : C, settled : D]
  BY DEF Stat
<1>3. t = [s EXCEPT !.clicks = n]
  BY <1>2
<1> QED BY <1>1, <1>3

LEMMA StatAddresses ==
  ASSUME NEW s \in Stat, NEW n \in Nat
  PROVE  \E t \in Stat :
           /\ t = [s EXCEPT !.ips = n]
           /\ t.clicks = s.clicks /\ t.ips = n
           /\ t.country = s.country /\ t.settled = s.settled
<1> DEFINE t == [clicks |-> s.clicks, ips |-> n, country |-> s.country, settled |-> s.settled]
<1>1. t \in Stat
  BY DEF Stat
<1>2. PICK A, B, C, D : s \in [clicks : A, ips : B, country : C, settled : D]
  BY DEF Stat
<1>3. t = [s EXCEPT !.ips = n]
  BY <1>2
<1> QED BY <1>1, <1>3

LEMMA StatCountry ==
  ASSUME NEW s \in Stat, NEW c \in Countries
  PROVE  \E t \in Stat :
           /\ t = [s EXCEPT !.country = c]
           /\ t.clicks = s.clicks /\ t.ips = s.ips
           /\ t.country = c /\ t.settled = s.settled
<1> DEFINE t == [clicks |-> s.clicks, ips |-> s.ips, country |-> c, settled |-> s.settled]
<1>1. t \in Stat
  BY DEF Stat, Countries
<1>2. PICK A, B, C, D : s \in [clicks : A, ips : B, country : C, settled : D]
  BY DEF Stat
<1>3. t = [s EXCEPT !.country = c]
  BY <1>2
<1> QED BY <1>1, <1>3

LEMMA StatUnsettled ==
  ASSUME NEW s \in Stat
  PROVE  \E t \in Stat :
           /\ t = [s EXCEPT !.settled = FALSE]
           /\ t.clicks = s.clicks /\ t.ips = s.ips
           /\ t.country = s.country /\ t.settled = FALSE
<1> DEFINE t == [clicks |-> s.clicks, ips |-> s.ips, country |-> s.country, settled |-> FALSE]
<1>1. t \in Stat
  BY DEF Stat
<1>2. PICK A, B, C, D : s \in [clicks : A, ips : B, country : C, settled : D]
  BY DEF Stat
<1>3. \A n : [clicks |-> s.clicks, ips |-> s.ips, country |-> s.country, settled |-> n]
              = [s EXCEPT !.settled = n]
  BY <1>2
<1> QED BY <1>1, <1>3

LEMMA JobGoesOn ==
  ASSUME NEW w \in Job, w # NoJob, NEW kind \in AtWork, NEW s \in Stat
  PROVE  [kind |-> kind, org |-> w.org, day |-> w.day, stat |-> s] \in Job
BY DEF Job, AtWork

LEMMA JobAt ==
  ASSUME NEW w \in Job, w # NoJob, NEW kind \in AtWork
  PROVE  [kind |-> kind, org |-> w.org, day |-> w.day, stat |-> w.stat]
           = [w EXCEPT !.kind = kind]
<1>1. w \in [kind : AtWork, org : Orgs, day : Days, stat : Stat]
  BY DEF Job, AtWork
<1> QED BY <1>1

LEMMA FreshJob ==
  ASSUME NEW n \in Nat, NEW c \in Countries, NEW b \in BOOLEAN, NEW kind \in AtWork,
         NEW o \in Orgs, NEW d \in Days
  PROVE  LET s == [clicks |-> n, ips |-> n, country |-> c, settled |-> b] IN
           s \in Stat /\ [kind |-> kind, org |-> o, day |-> d, stat |-> s] \in Job
<1> DEFINE s == [clicks |-> n, ips |-> n, country |-> c, settled |-> b]
<1>1. s \in Stat
  BY DEF Stat, Countries
<1>2. \A t \in Stat : [kind |-> kind, org |-> o, day |-> d, stat |-> t] \in Job
  BY DEF Job, AtWork
<1> QED BY <1>1, <1>2

(* The next query of job j, with what it returns. *)
LEMMA ProceedStep ==
  ASSUME IInv, NEW j \in Jobs, NEW next \in AtWork,
         NEW s \in Stat, job[j] # NoJob, Proceed(j, next, s),
         ExactSoFar(next, s, job[j].org, job[j].day)
  PROVE  IInv'
<1>1. PICK w \in Job : w = job[j] /\ w # NoJob
  BY DEF IInv, TypeOK
<1>2. PICK x \in Job : x = [kind |-> next, org |-> w.org, day |-> w.day, stat |-> s]
                       /\ x.kind = next /\ x.stat = s /\ x.org = w.org /\ x.day = w.day
  BY <1>1, JobGoesOn
<1>3. /\ job' = [job EXCEPT ![j] = x]
      /\ UNCHANGED <<hostVars, clicks, inserting, served, daily, reader>>
  <2>1. PICK c : c = [kind |-> next, org |-> w.org, day |-> w.day, stat |-> w.stat]
                 /\ c = [w EXCEPT !.kind = next]
    BY <1>1, JobAt
  <2>2. x = [c EXCEPT !.stat = s]
    BY <1>2, <2>1
  <2>3. [w EXCEPT !.kind = next, !.stat = s] = [[w EXCEPT !.kind = next] EXCEPT !.stat = s]
    OBVIOUS
  <2>4. x = [job[j] EXCEPT !.kind = next, !.stat = s]
    BY <1>1, <2>1, <2>2, <2>3
  <2> QED BY <2>4 DEF Proceed
<1>4. HInv' /\ Numbered' /\ ClicksGoOn
  BY <1>3, HostTypes, HostsElsewhere, ClicksStay DEF hostVars, IInv, Numbered
<1>5. TypeOK'
  BY <1>3, <1>4 DEF IInv, HInv, TypeOK
<1>6. ExactSoFar(next, s, w.org, w.day)'
  BY <1>1, <1>4, JobFields, ExactStays DEF IInv
<1>7. job'[j] = x /\ \A i \in Jobs : i # j => job'[i] = job[i]
  BY <1>3 DEF IInv, TypeOK
<1>8. ExactSoFar(job[j].kind, job[j].stat, job[j].org, job[j].day)'
  BY <1>2, <1>6, <1>7
<1> QED BY <1>3, <1>4, <1>5, <1>7, <1>8, TrafficStep

LEMMA JobAtWork ==
  ASSUME IInv, NEW j \in Jobs, job[j].kind # "idle"
  PROVE  /\ job[j] # NoJob /\ job[j].stat \in Stat
         /\ job[j].org \in Orgs /\ job[j].day \in Days
         /\ job[j].kind \in {"clicks", "ips", "country", "upsert"}
         /\ ExactSoFar(job[j].kind, job[j].stat, job[j].org, job[j].day)
<1>1. PICK w \in Job : w = job[j]
  BY DEF IInv, TypeOK
<1> QED BY <1>1, JobFields DEF IInv, JobsExact

LEMMA CountClicksStep ==
  ASSUME IInv, NEW j \in Jobs, CountClicks(j)
  PROVE  IInv'
<1>1. PICK s \in Stat : s = job[j].stat
  BY JobAtWork DEF CountClicks
<1>2. PICK n \in Nat : n = Cardinality(OfDay(clicks, job[j].org, job[j].day))
  BY DaysAreFinite
<1>3. PICK t \in Stat : t = [s EXCEPT !.clicks = n] /\ t.clicks = n /\ t.settled = s.settled
  BY StatClicks
<1>4. ExactSoFar("ips", t, job[j].org, job[j].day)
  BY <1>1, <1>2, <1>3, JobAtWork DEF ExactSoFar, CountClicks
<1> QED BY <1>1, <1>2, <1>3, <1>4, JobAtWork, ProceedStep DEF CountClicks, AtWork

LEMMA CountAddressesStep ==
  ASSUME IInv, NEW j \in Jobs, CountAddresses(j)
  PROVE  IInv'
<1>1. PICK s \in Stat : s = job[j].stat
  BY JobAtWork DEF CountAddresses
<1>2. PICK n \in Nat : n = Cardinality(AddressesOf(OfDay(clicks, job[j].org, job[j].day)))
  BY DaysAreFinite
<1>3. PICK t \in Stat : t = [s EXCEPT !.ips = n] /\ t.ips = n /\ t.clicks = s.clicks
                        /\ t.settled = s.settled
  BY StatAddresses
<1>4. ExactSoFar("country", t, job[j].org, job[j].day)
  BY <1>1, <1>2, <1>3, JobAtWork DEF ExactSoFar, CountAddresses
<1> QED BY <1>1, <1>2, <1>3, <1>4, JobAtWork, ProceedStep DEF CountAddresses, AtWork

LEMMA TopCountryStep ==
  ASSUME IInv, NEW j \in Jobs, TopCountry(j)
  PROVE  IInv'
<1>1. PICK s \in Stat : s = job[j].stat
  BY JobAtWork DEF TopCountry
<1>2. PICK n \in Countries :
        n = IF OfDay(clicks, job[j].org, job[j].day) = {} THEN "" ELSE "US"
  BY DEF Countries
<1>3. PICK t \in Stat : t = [s EXCEPT !.country = n] /\ t.country = n /\ t.clicks = s.clicks
                        /\ t.ips = s.ips /\ t.settled = s.settled
  BY StatCountry
<1>4. ExactSoFar("upsert", t, job[j].org, job[j].day)
  BY <1>1, <1>2, <1>3, JobAtWork DEF ExactSoFar, TopCountry
<1>5. Lookup("") = "US"
  BY DEF Lookup
<1> QED BY <1>1, <1>2, <1>3, <1>4, <1>5, JobAtWork, ProceedStep DEF TopCountry, AtWork

LEMMA QueryFailsStep ==
  ASSUME IInv, NEW j \in Jobs, QueryFails(j)
  PROVE  IInv'
<1>1. PICK s \in Stat : s = job[j].stat
  BY JobAtWork DEF QueryFails
<1>2. PICK next \in AtWork :
        next = [clicks |-> "ips", ips |-> "country", country |-> "upsert"][job[j].kind]
  BY DEF QueryFails, AtWork
<1>3. PICK t \in Stat : t = [s EXCEPT !.settled = FALSE] /\ ~t.settled
  BY StatUnsettled
<1>4. ExactSoFar(next, t, job[j].org, job[j].day)
  BY <1>3 DEF ExactSoFar
<1>5. job[j].kind # "idle"
  BY DEF QueryFails
<1> QED BY <1>1, <1>2, <1>3, <1>4, <1>5, JobAtWork, ProceedStep DEF QueryFails

(* A job ends; its row, if it leaves one, is what it has counted. *)
LEMMA JobEnds ==
  ASSUME IInv, NEW j \in Jobs, job' = [job EXCEPT ![j] = NoJob],
         UNCHANGED <<hostVars, clicks, inserting, served, reader>>,
         daily' \in [Orgs \X Days -> Stat \cup {NoStat}],
         \A o \in Orgs, d \in Days : \/ daily'[<<o, d>>] = daily[<<o, d>>]
                                     \/ ExactSoFar("upsert", daily[<<o, d>>], o, d)'
  PROVE  IInv'
<1>1. HInv' /\ Numbered' /\ ClicksGoOn
  BY HostTypes, HostsElsewhere, ClicksStay DEF hostVars, IInv, Numbered
<1>2. NoJob \in Job
  BY DEF Job
<1>3. job' \in [Jobs -> Job] /\ \A i \in Jobs : job'[i] \in {job[i], NoJob}
  BY <1>2 DEF IInv, TypeOK
<1>4. TypeOK'
  BY <1>1, <1>3 DEF IInv, HInv, TypeOK
<1> QED BY <1>1, <1>3, <1>4, TrafficStep

LEMMA UpsertDailyStatsStep ==
  ASSUME IInv, NEW j \in Jobs, UpsertDailyStats(j)
  PROVE  IInv'
<1>1. PICK s \in Stat, o \in Orgs, d \in Days :
        /\ s = job[j].stat /\ o = job[j].org /\ d = job[j].day
        /\ ExactSoFar("upsert", s, o, d)
  BY JobAtWork DEF UpsertDailyStats
<1>2. /\ daily' = [daily EXCEPT ![<<o, d>>] = s]
      /\ job' = [job EXCEPT ![j] = NoJob]
      /\ UNCHANGED <<hostVars, clicks, inserting, served, reader>>
  BY <1>1 DEF UpsertDailyStats
<1>3. ClicksGoOn
  BY <1>2, HostTypes, ClicksStay DEF hostVars
<1>4. ExactSoFar("upsert", s, o, d)'
  BY <1>1, <1>3, ExactStays DEF IInv
<1>5. /\ daily' \in [Orgs \X Days -> Stat \cup {NoStat}] /\ daily'[<<o, d>>] = s
      /\ \A k \in Orgs \X Days : k # <<o, d>> => daily'[k] = daily[k]
  BY <1>2 DEF IInv, TypeOK
<1>6. ASSUME NEW p \in Orgs, NEW e \in Days
      PROVE  daily'[<<p, e>>] = daily[<<p, e>>] \/ ExactSoFar("upsert", daily[<<p, e>>], p, e)'
  <2>1. CASE <<p, e>> = <<o, d>>
    <3>1. p = o /\ e = d /\ daily'[<<p, e>>] = s
      BY <1>5, <2>1
    <3> QED BY <1>4, <3>1
  <2> QED BY <1>5, <2>1
<1> QED BY <1>2, <1>5, <1>6, JobEnds

LEMMA UpsertFailsStep ==
  ASSUME IInv, NEW j \in Jobs, UpsertFails(j)
  PROVE  IInv'
BY JobEnds DEF UpsertFails, IInv, TypeOK

LEMMA BeginStatsStep ==
  ASSUME IInv, NEW j \in Jobs, NEW o \in Orgs, NEW d \in Days, BeginStats(j, o, d)
  PROVE  IInv'
<1>1. PICK b \in BOOLEAN : b = (now >= (d + 1) * DayLength /\ OfDay(inserting, o, d) = {})
  OBVIOUS
<1>2. PICK s \in Stat :
        s = [clicks |-> 0, ips |-> 0, country |-> "", settled |-> b] /\ s.settled = b
  <2> 0 \in Nat /\ "" \in Countries /\ "clicks" \in AtWork
    BY DEF Countries, AtWork
  <2> QED BY FreshJob
<1>3. PICK x \in Job : x = [kind |-> "clicks", org |-> o, day |-> d, stat |-> s]
                       /\ x.kind = "clicks" /\ x.org = o /\ x.day = d /\ x.stat = s
  <2> 0 \in Nat /\ "" \in Countries /\ "clicks" \in AtWork
    BY DEF Countries, AtWork
  <2> QED BY <1>2, FreshJob
<1>4. /\ job' = [job EXCEPT ![j] = x] /\ events < MaxEvents /\ events' = events + 1
      /\ UNCHANGED <<domains, domainCache, visit, now, visits, moved, clicks, inserting,
                     served, daily, reader>>
  BY <1>1, <1>2, <1>3 DEF BeginStats
<1>5. events' \in 0 .. MaxEvents /\ now <= now' /\ now' \in Times
  BY <1>4, HostTypes
<1>6. HInv' /\ Numbered' /\ ClicksGoOn
  BY <1>4, <1>5, HostTypes, HostsElsewhere, ClicksStay DEF IInv, Numbered
<1>7. TypeOK'
  BY <1>4, <1>6 DEF IInv, HInv, TypeOK
<1>8. ExactSoFar("clicks", s, o, d)
  BY <1>1, <1>2 DEF ExactSoFar, Over
<1>9. ExactSoFar("clicks", s, o, d)'
  BY <1>6, <1>8, ExactStays DEF IInv
<1>10. job'[j] = x /\ \A i \in Jobs : i # j => job'[i] = job[i]
  BY <1>4 DEF IInv, TypeOK
<1>11. ExactSoFar(job[j].kind, job[j].stat, job[j].org, job[j].day)'
  BY <1>3, <1>9, <1>10
<1> QED BY <1>4, <1>6, <1>7, <1>10, <1>11, TrafficStep

LEMMA StatsStepStep ==
  ASSUME IInv, NEW j \in Jobs, StatsStep(j)
  PROVE  IInv'
BY BeginStatsStep, CountClicksStep, CountAddressesStep, TopCountryStep, QueryFailsStep,
   UpsertDailyStatsStep, UpsertFailsStep DEF StatsStep

-----------------------------------------------------------------------------
(* The readers. *)

(* One page G, of n from offset f, of a reader that wants W and has seen S. *)
LEMMA OnePage ==
  ASSUME NEW K, Ordered(K), NEW W, W \subseteq K, NEW S, NEW f \in Nat, NEW n \in Nat \ {0},
         \A k \in W : Before(k, K) < f => k \in S,
         NEW G, G \subseteq K, \A k \in K : k \in G <=> Before(k, K) \in f .. (f + n - 1)
  PROVE  /\ Cardinality(G) \in Nat
         /\ Cardinality(G) < n => W \subseteq S \cup G
         /\ \A k \in W : Before(k, K) < f + n => k \in S \cup G
         /\ ~(Cardinality(G) < n) => f < Cardinality(K)
<1>1. IsFiniteSet(G) /\ Cardinality(G) \in Nat
  <2>1. G \subseteq K /\ IsFiniteSet(K)
    BY DEF Ordered
  <2> QED BY <2>1, FS_Subset, FS_CardinalityType
<1>2. \A k \in K : Before(k, K) \in Nat /\ Before(k, K) < Cardinality(K)
                   /\ Cardinality(K) \in Nat
  BY Ranks
<1>3. ASSUME NEW k \in W, Before(k, K) < f + n
      PROVE  k \in S \cup G
  <2>1. Before(k, K) \in Nat /\ k \in K
    BY <1>2
  <2>2. CASE Before(k, K) < f
    BY <2>2
  <2>3. CASE ~(Before(k, K) < f)
    <3>1. Before(k, K) \in f .. (f + n - 1)
      BY <1>3, <2>1, <2>3
    <3> QED BY <2>1, <3>1
  <2> QED BY <2>2, <2>3
<1>4. ASSUME Cardinality(G) < n, NEW k \in W
      PROVE  k \in S \cup G
  <2>1. ~(Before(k, K) >= f + n)
    <3> SUFFICES ASSUME Before(k, K) >= f + n PROVE FALSE
      OBVIOUS
    <3>1. G = {l \in K : Before(l, K) \in f .. (f + n - 1)}
      OBVIOUS
    <3>2. Cardinality(G) >= n
      BY <3>1, PagesAreFull
    <3> QED BY <1>1, <1>4, <3>2
  <2>2. Before(k, K) < f + n
    BY <1>2, <2>1
  <2> QED BY <1>3, <2>2
<1>5. ASSUME ~(Cardinality(G) < n)
      PROVE  f < Cardinality(K)
  <2>1. G # {}
    BY <1>1, <1>5, FS_EmptySet
  <2>2. PICK k \in K : Before(k, K) \in f .. (f + n - 1)
    BY <2>1
  <2> QED BY <1>2, <2>2
<1> QED BY <1>1, <1>3, <1>4, <1>5

LEMMA ReaderMoves ==
  ASSUME IInv, NEW c \in Readers, NEW x \in Paging, reader' = [reader EXCEPT ![c] = x],
         events' \in 0 .. MaxEvents, ReaderCaughtUp(x),
         UNCHANGED <<domains, domainCache, visit, now, visits, moved, clicks, inserting,
                     served, job, daily>>
  PROVE  IInv'
<1>1. now <= now' /\ now' \in Times
  BY HostTypes
<1>2. HInv' /\ Numbered' /\ ClicksGoOn
  BY <1>1, HostTypes, HostsElsewhere, ClicksStay DEF IInv, Numbered
<1>3. TypeOK'
  BY <1>2 DEF IInv, HInv, TypeOK
<1>4. ReaderCaughtUp(x)'
  BY <1>2, <1>3, ReaderStays DEF IInv
<1>5. reader'[c] = x /\ \A b \in Readers : b # c => reader'[b] = reader[b]
  BY DEF IInv, TypeOK
<1>6. ReaderCaughtUp(reader[c])'
  BY <1>4, <1>5
<1> QED BY <1>2, <1>3, <1>5, <1>6, TrafficStep

(* What a reader's record becomes on a page. *)
LEMMA ReaderGoesOn ==
  ASSUME NEW w \in Paging, w.kind \in {"paging", "done"}, NEW k \in {"paging", "done"},
         NEW p \in 1 .. (MaxClicks + 1), NEW s \in SUBSET Row, NEW b \in BOOLEAN
  PROVE  [kind |-> k, org |-> w.org, range |-> w.range, limit |-> w.limit, page |-> p,
          want |-> w.want, seen |-> s, whole |-> b] \in Paging
BY PagingFields DEF Paging

LEMMA ReaderStarts ==
  ASSUME NEW o \in Orgs, NEW g \in Ranges, NEW l \in Limits, NEW p \in 1 .. (MaxClicks + 1),
         NEW K \in SUBSET Row, NEW s \in SUBSET Row, NEW b \in BOOLEAN
  PROVE  [kind |-> "paging", org |-> o, range |-> g, limit |-> l, page |-> p,
          want |-> K, seen |-> s, whole |-> b] \in Paging
BY DEF Paging

LEMMA ReaderAtPage ==
  ASSUME NEW w \in Paging, w.kind = "paging", NEW k, NEW p, NEW s
  PROVE  [kind |-> k, org |-> w.org, range |-> w.range, limit |-> w.limit, page |-> p,
          want |-> w.want, seen |-> s, whole |-> w.whole]
           = [w EXCEPT !.kind = k, !.page = p, !.seen = s]
<1> DEFINE c == [kind |-> k, org |-> w.org, range |-> w.range, limit |-> w.limit, page |-> w.page,
               want |-> w.want, seen |-> w.seen, whole |-> w.whole]
           d == [kind |-> k, org |-> w.org, range |-> w.range, limit |-> w.limit, page |-> p,
               want |-> w.want, seen |-> w.seen, whole |-> w.whole]
           e == [kind |-> k, org |-> w.org, range |-> w.range, limit |-> w.limit, page |-> p,
               want |-> w.want, seen |-> s, whole |-> w.whole]
<1>1. w \in [kind : {"paging", "done"}, org : Orgs, range : Ranges, limit : Limits,
             page : 1 .. (MaxClicks + 1), want : SUBSET Row, seen : SUBSET Row,
             whole : BOOLEAN]
  BY DEF Paging, NoPaging
<1>2. PICK A, E, F, H :
        w \in [kind : A, org : Orgs, range : Ranges, limit : Limits, page : E, want : F,
               seen : F, whole : H]
  BY <1>1
<1>3. c = [w EXCEPT !.kind = k]
  BY <1>2
<1>4. d = [c EXCEPT !.page = p]
  OBVIOUS
<1>5. e = [d EXCEPT !.seen = s]
  OBVIOUS
<1>6. [w EXCEPT !.kind = k, !.page = p, !.seen = s]
        = [[[w EXCEPT !.kind = k] EXCEPT !.page = p] EXCEPT !.seen = s]
  OBVIOUS
<1> QED BY <1>3, <1>4, <1>5, <1>6

LEMMA ReaderEnds ==
  ASSUME NEW w \in Paging, w.kind = "paging", NEW k
  PROVE  [kind |-> k, org |-> w.org, range |-> w.range, limit |-> w.limit, page |-> w.page,
          want |-> w.want, seen |-> w.seen, whole |-> w.whole] = [w EXCEPT !.kind = k]
<1>1. w \in [kind : {"paging", "done"}, org : Orgs, range : Ranges, limit : Limits,
             page : 1 .. (MaxClicks + 1), want : SUBSET Row, seen : SUBSET Row,
             whole : BOOLEAN]
  BY DEF Paging, NoPaging
<1>2. PICK A, E, F, H :
        w \in [kind : A, org : Orgs, range : Ranges, limit : Limits, page : E, want : F,
               seen : F, whole : H]
  BY <1>1
<1> QED BY <1>2

LEMMA BeginPagingStep ==
  ASSUME IInv, NEW c \in Readers, NEW o \in Orgs, NEW g \in Ranges, NEW l \in Limits,
         BeginPaging(c, o, g, l)
  PROVE  IInv'
<1>1. PICK K : K = InRange(o, g) /\ Ordered(K) /\ K \subseteq Row
  BY RangesOrdered DEF IInv, TypeOK
<1>2. 1 \in 1 .. (MaxClicks + 1)
  BY HostTypes
<1>3. PICK x \in Paging :
        /\ x = [kind |-> "paging", org |-> o, range |-> g, limit |-> l, page |-> 1,
                want |-> K, seen |-> {}, whole |-> TRUE]
        /\ x.kind = "paging" /\ x.org = o /\ x.range = g /\ x.limit = l /\ x.page = 1
        /\ x.want = K
  <2>1. K \in SUBSET Row /\ {} \in SUBSET Row /\ TRUE \in BOOLEAN
    BY <1>1
  <2> QED BY <1>2, <2>1, ReaderStarts
<1>4. /\ reader' = [reader EXCEPT ![c] = x] /\ events < MaxEvents /\ events' = events + 1
      /\ UNCHANGED <<domains, domainCache, visit, now, visits, moved, clicks, inserting,
                     served, job, daily>>
  BY <1>1, <1>3 DEF BeginPaging
<1>5. events' \in 0 .. MaxEvents
  BY <1>4, HostTypes
<1>6. \A k \in K : Before(k, K) \in Nat
  BY <1>1, Ranks
<1>7. Offset(1, l) = 0
  BY <1>2, Pages
<1>8. \A k \in K : ~(Before(k, K) < Offset(1, l))
  BY <1>6, <1>7
<1>9. ReaderCaughtUp(x)
  BY <1>1, <1>3, <1>8 DEF ReaderCaughtUp
<1> QED BY <1>4, <1>5, <1>9, ReaderMoves

(* What a reader at a page stands on. *)
LEMMA ReaderAt ==
  ASSUME IInv, NEW c \in Readers, reader[c].kind = "paging"
  PROVE  \E w \in Paging, K \in SUBSET Row, n \in Nat \ {0}, f \in Nat :
           /\ w = reader[c] /\ w.kind = "paging" /\ w.page \in 1 .. (MaxClicks + 1)
           /\ w.want \subseteq K /\ w.seen \in SUBSET Row /\ w.whole \in BOOLEAN
           /\ w.limit \in Limits
           /\ K = InRange(w.org, w.range) /\ Ordered(K) /\ Cardinality(K) <= MaxClicks
           /\ n = Clamped(w.limit) /\ f = Offset(w.page, w.limit)
           /\ \A k \in w.want : Before(k, K) < f => k \in w.seen
<1>1. PICK w \in Paging : w = reader[c] /\ w.kind = "paging"
  BY DEF IInv, TypeOK
<1>2. /\ w.limit \in Limits /\ w.page \in 1 .. (MaxClicks + 1) /\ w.seen \in SUBSET Row
      /\ w.whole \in BOOLEAN
  BY <1>1, PagingFields
<1>3. PICK K : K = InRange(w.org, w.range)
  OBVIOUS
<1>4. Ordered(K) /\ K \subseteq clicks /\ Cardinality(K) <= Cardinality(clicks)
  BY <1>3, RangesOrdered DEF IInv
<1>5. K \in SUBSET Row /\ Cardinality(K) <= MaxClicks
  <2>1. Cardinality(clicks) <= MaxClicks
    BY HostTypes DEF IInv, Numbered
  <2>2. Cardinality(K) \in Nat
    BY <1>4, FS_CardinalityType DEF Ordered
  <2> QED BY <1>4, <2>1, <2>2, HostTypes DEF IInv, TypeOK
<1>6. PICK n \in Nat \ {0} : n = Clamped(w.limit)
  BY <1>2, Pages
<1>7. PICK f \in Nat : f = Offset(w.page, w.limit)
  BY <1>2, Pages
<1>8. w.want \subseteq K /\ \A k \in w.want : Before(k, K) < f => k \in w.seen
  BY <1>1, <1>3, <1>7 DEF IInv, Paged, ReaderCaughtUp
<1> QED BY <1>1, <1>2, <1>3, <1>4, <1>5, <1>6, <1>7, <1>8

LEMMA GetLinkClicksStep ==
  ASSUME IInv, NEW c \in Readers, GetLinkClicks(c)
  PROVE  IInv'
<1>1. PICK w \in Paging, K \in SUBSET Row, n \in Nat \ {0}, f \in Nat :
           /\ w = reader[c] /\ w.kind = "paging" /\ w.page \in 1 .. (MaxClicks + 1)
           /\ w.want \subseteq K /\ w.seen \in SUBSET Row /\ w.whole \in BOOLEAN
           /\ w.limit \in Limits
           /\ K = InRange(w.org, w.range) /\ Ordered(K) /\ Cardinality(K) <= MaxClicks
           /\ n = Clamped(w.limit) /\ f = Offset(w.page, w.limit)
           /\ \A k \in w.want : Before(k, K) < f => k \in w.seen
  BY ReaderAt DEF GetLinkClicks
<1>2. PICK G : G = {k \in K : Before(k, K) \in f .. (f + n - 1)}
  OBVIOUS
<1>3. G = Page(w, n) /\ G \in SUBSET Row
  BY <1>1, <1>2 DEF Page
<1>4. /\ Cardinality(G) \in Nat
      /\ Cardinality(G) < n => w.want \subseteq w.seen \cup G
      /\ \A k \in w.want : Before(k, K) < f + n => k \in w.seen \cup G
      /\ ~(Cardinality(G) < n) => f < Cardinality(K)
  <2>1. PICK W, S : W = w.want /\ S = w.seen
    OBVIOUS
  <2>2. W \subseteq K /\ Ordered(K) /\ \A k \in W : Before(k, K) < f => k \in S
    BY <1>1, <2>1
  <2>3. /\ Cardinality(G) \in Nat
        /\ Cardinality(G) < n => W \subseteq S \cup G
        /\ \A k \in W : Before(k, K) < f + n => k \in S \cup G
        /\ ~(Cardinality(G) < n) => f < Cardinality(K)
    <3>1. G \subseteq K /\ \A k \in K : k \in G <=> Before(k, K) \in f .. (f + n - 1)
      BY <1>2
    <3> QED BY <2>2, <3>1, OnePage
  <2> QED BY <2>1, <2>3
<1>5. PICK s \in SUBSET Row : s = w.seen \cup G
  BY <1>1, <1>3
<1>6. PICK k \in {"paging", "done"} : k = IF Cardinality(G) < n THEN "done" ELSE "paging"
  OBVIOUS
<1>7. PICK p \in 1 .. (MaxClicks + 1) : p = IF Cardinality(G) < n THEN w.page ELSE w.page + 1
  <2>1. CASE Cardinality(G) < n
    BY <1>1, <2>1
  <2>2. CASE ~(Cardinality(G) < n)
    <3>1. f < Cardinality(K) /\ Cardinality(K) \in Nat
      BY <1>1, <1>4, <2>2, FS_CardinalityType DEF Ordered
    <3>2. f >= w.page - 1
      BY <1>1, Pages
    <3>3. w.page + 1 \in 1 .. (MaxClicks + 1)
      BY <1>1, <3>1, <3>2, HostTypes
    <3> QED BY <2>2, <3>3
  <2> QED BY <2>1, <2>2
<1>8. PICK x \in Paging :
        /\ x = [kind |-> k, org |-> w.org, range |-> w.range, limit |-> w.limit, page |-> p,
                want |-> w.want, seen |-> s, whole |-> w.whole]
        /\ x.kind = k /\ x.org = w.org /\ x.range = w.range /\ x.limit = w.limit
        /\ x.page = p /\ x.want = w.want /\ x.seen = s /\ x.whole = w.whole
  <2>1. PICK b \in BOOLEAN : b = w.whole
    BY <1>1
  <2>2. w.kind \in {"paging", "done"}
    BY <1>1
  <2>3. [kind |-> k, org |-> w.org, range |-> w.range, limit |-> w.limit, page |-> p,
         want |-> w.want, seen |-> s, whole |-> b] \in Paging
    BY <2>2, ReaderGoesOn
  <2> QED BY <2>1, <2>3
<1>9. /\ reader' = [reader EXCEPT ![c] = x]
      /\ UNCHANGED <<hostVars, clicks, inserting, served, job, daily>>
  <2>1. w.kind = "paging"
    BY <1>1
  <2>2. x = [w EXCEPT !.kind = k, !.page = p, !.seen = s]
    BY <1>8, <2>1, ReaderAtPage
  <2>3. /\ reader' = [reader EXCEPT ![c] = [w EXCEPT
             !.kind = IF Cardinality(G) < n THEN "done" ELSE w.kind,
             !.page = IF Cardinality(G) < n THEN w.page ELSE w.page + 1,
             !.seen = w.seen \cup G]]
        /\ UNCHANGED <<hostVars, clicks, inserting, served, job, daily>>
    BY <1>1, <1>3 DEF GetLinkClicks
  <2> QED BY <2>1, <2>2, <2>3, <1>5, <1>6, <1>7
<1>10. Offset(w.page + 1, w.limit) = f + n
  BY <1>1, Pages
<1>11. ReaderCaughtUp(x)
  <2>1. CASE Cardinality(G) < n
    BY <1>1, <1>4, <1>5, <1>6, <1>8, <2>1 DEF ReaderCaughtUp
  <2>2. CASE ~(Cardinality(G) < n)
    <3>1. x.kind = "paging" /\ Offset(x.page, x.limit) = f + n
      BY <1>6, <1>7, <1>8, <1>10, <2>2
    <3> QED BY <1>1, <1>4, <1>5, <1>8, <3>1 DEF ReaderCaughtUp
  <2> QED BY <2>1, <2>2
<1> QED BY <1>9, <1>11, HostTypes, ReaderMoves DEF hostVars

LEMMA CutPageStep ==
  ASSUME IInv, NEW c \in Readers, CutPage(c)
  PROVE  IInv'
<1>1. PICK w \in Paging, K \in SUBSET Row :
           /\ w = reader[c] /\ w.kind = "paging" /\ w.page \in 1 .. (MaxClicks + 1)
           /\ w.want \subseteq K /\ w.seen \in SUBSET Row
           /\ K = InRange(w.org, w.range)
  BY ReaderAt DEF CutPage
<1>2. PICK n :
        /\ reader' = [reader EXCEPT ![c] = [w EXCEPT
             !.kind = "done", !.seen = w.seen \cup Page(w, n), !.whole = FALSE]]
        /\ UNCHANGED <<hostVars, clicks, inserting, served, job, daily>>
  BY <1>1 DEF CutPage
<1>3. PICK s \in SUBSET Row : s = w.seen \cup Page(w, n)
  BY <1>1 DEF Page
<1>4. PICK b \in BOOLEAN : b = FALSE
  OBVIOUS
<1>5. PICK k \in {"paging", "done"} : k = "done"
  OBVIOUS
<1>6. PICK x \in Paging :
        /\ x = [kind |-> k, org |-> w.org, range |-> w.range, limit |-> w.limit,
                page |-> w.page, want |-> w.want, seen |-> s, whole |-> b]
        /\ x.kind = k /\ x.org = w.org /\ x.range = w.range /\ x.want = w.want
        /\ x.whole = b
  <2>1. w.kind \in {"paging", "done"}
    BY <1>1
  <2>2. [kind |-> k, org |-> w.org, range |-> w.range, limit |-> w.limit,
         page |-> w.page, want |-> w.want, seen |-> s, whole |-> b] \in Paging
    BY <1>1, <2>1, ReaderGoesOn
  <2> QED BY <2>2
<1>7. reader' = [reader EXCEPT ![c] = x]
  <2>1. w.kind = "paging"
    BY <1>1
  <2> DEFINE r == [kind |-> k, org |-> w.org, range |-> w.range, limit |-> w.limit,
                   page |-> w.page, want |-> w.want, seen |-> w.seen, whole |-> w.whole]
             d == [kind |-> k, org |-> w.org, range |-> w.range, limit |-> w.limit,
                   page |-> w.page, want |-> w.want, seen |-> s, whole |-> w.whole]
  <2>2. r = [w EXCEPT !.kind = k]
    BY <2>1, ReaderEnds
  <2>3. d = [r EXCEPT !.seen = s]
    OBVIOUS
  <2>4. x = [d EXCEPT !.whole = b]
    BY <1>6
  <2>5. [w EXCEPT !.kind = k, !.seen = s, !.whole = b]
          = [[[w EXCEPT !.kind = k] EXCEPT !.seen = s] EXCEPT !.whole = b]
    OBVIOUS
  <2>6. x = [w EXCEPT !.kind = k, !.seen = s, !.whole = b]
    BY <2>2, <2>3, <2>4, <2>5
  <2> QED BY <2>6, <1>2, <1>3, <1>4, <1>5
<1>8. ReaderCaughtUp(x)
  BY <1>1, <1>4, <1>5, <1>6 DEF ReaderCaughtUp
<1> QED BY <1>2, <1>7, <1>8, HostTypes, ReaderMoves DEF hostVars

-----------------------------------------------------------------------------
LEMMA CrashStep ==
  ASSUME IInv, Crash
  PROVE  IInv'
<1>1. HInv'
  BY HostTypes, HostsElsewhere DEF Crash
<1>2. NoJob \in Job /\ NoPaging \in Paging
  BY DEF Job, Paging
<1>3. TypeOK'
  BY <1>1, <1>2 DEF Crash, IInv, HInv, TypeOK
<1>4. IsFiniteSet(inserting') /\ Cardinality(inserting') = 0
  BY FS_EmptySet DEF Crash
<1>5. Numbered'
  BY <1>4, HostTypes DEF Crash, IInv, Numbered
<1>6. ClicksGoOn
  BY HostTypes DEF Crash, ClicksGoOn
<1>7. (\A j \in Jobs : job'[j] = NoJob) /\ (\A c \in Readers : reader'[c] = NoPaging)
      /\ daily' = daily
  BY DEF Crash
<1> QED BY <1>1, <1>3, <1>5, <1>6, <1>7, TrafficStep

LEMMA TickStep ==
  ASSUME IInv, Tick
  PROVE  IInv'
<1>1. now' \in Times /\ now <= now'
  BY HostTypes, Numbers, HostConstants DEF Tick, Times
<1>2. HInv'
  BY <1>1, HostTypes, HostsElsewhere DEF Tick
<1> QED BY <1>1, <1>2, QuietStep DEF Tick, trafficVars

LEMMA HostsMove ==
  ASSUME IInv, UNCHANGED trafficVars,
         \/ \E v \in Visitors : Resolve(v)
         \/ \E d \in Domains, o \in Orgs \cup {NoOrg} : MoveDomain(d, o)
  PROVE  IInv'
<1>1. HInv'
  BY HostTypes, ResolveStep, MoveDomainStep
<1>2. now' = now
  BY DEF Resolve, Arrive, LoadDomain, DeleteDomain, QueryDomain, StoreDomain, GiveUp,
         MoveDomain, hostVars
<1> QED BY <1>1, <1>2, HostTypes, QuietStep

LEMMA Start ==
  ASSUME Init
  PROVE  IInv
<1>1. HInv
  BY HostsStart DEF Init
<1>2. NoJob \in Job /\ NoPaging \in Paging
  BY DEF Job, Paging
<1>3. TypeOK
  BY <1>1, <1>2, TrafficConstants DEF Init, HInv, TypeOK
<1>4. Numbered
  BY FS_EmptySet DEF Init, Numbered
<1>5. JobsExact /\ DailyExact
  BY DEF Init, JobsExact, DailyExact
<1>6. Paged
  BY DEF Init, Paged, ReaderCaughtUp, NoPaging
<1> QED BY <1>1, <1>3, <1>4, <1>5, <1>6 DEF IInv

LEMMA Inductive ==
  ASSUME IInv, [Next]_vars
  PROVE  IInv'
<1>1. CASE (\E v \in Visitors : Resolve(v)) /\ UNCHANGED trafficVars
  BY <1>1, HostsMove
<1>2. CASE (\E d \in Domains, o \in Orgs \cup {NoOrg} : MoveDomain(d, o))
           /\ UNCHANGED trafficVars
  BY <1>2, HostsMove
<1>3. CASE \E v \in Visitors, c \in Clients : Answer(v, c)
  BY <1>3, AnswerStep
<1>4. CASE \E k \in inserting : InsertClick(k) \/ LoseClick(k)
  <2>1. PICK k \in inserting : InsertClick(k) \/ LoseClick(k)
    BY <1>4
  <2> QED BY <2>1, InsertClickStep, LoseClickStep
<1>5. CASE \E j \in Jobs : StatsStep(j)
  BY <1>5, StatsStepStep
<1>6. CASE \E c \in Readers, o \in Orgs, g \in Ranges, l \in Limits : BeginPaging(c, o, g, l)
  BY <1>6, BeginPagingStep
<1>7. CASE \E c \in Readers : GetLinkClicks(c) \/ CutPage(c)
  BY <1>7, GetLinkClicksStep, CutPageStep
<1>8. CASE Tick
  BY <1>8, TickStep
<1>9. CASE Crash
  BY <1>9, CrashStep
<1>10. CASE UNCHANGED vars
  <2>1. HInv' /\ now' = now
    BY <1>10, HostTypes, HostsElsewhere DEF vars
  <2> QED BY <1>10, <2>1, HostTypes, QuietStep DEF vars, trafficVars
<1> QED BY <1>1, <1>2, <1>3, <1>4, <1>5, <1>6, <1>7, <1>8, <1>9, <1>10 DEF Next

LEMMA AlwaysIInv == Spec => []IInv
BY Start, Inductive, PTL DEF Spec

(* The rows of clicks, the jobs and the readers keep their types: no rowid and no
   page number runs past the number of redirects answered. *)
THEOREM TrafficTypes == Spec => []TypeOK
<1>1. IInv => TypeOK
  BY DEF IInv
<1> QED BY <1>1, AlwaysIInv, PTL

(* However many domains move between however many organizations, a visit that is
   sent to an organization that no longer has the domain was resolved from what
   the cache was allowed to keep, or from a query of before the move. *)
THEOREM VisitsFindTheirOwner == Spec => []HostStaleness
<1>1. IInv => HostStaleness
  BY HostsAreFresh DEF IInv
<1> QED BY <1>1, AlwaysIInv, PTL

(* The three queries of ComputeDailyStats need no transaction for a day that is
   over: whatever clicks of later days arrive between them, the row they leave is
   exact and stays so. *)
THEOREM SettledDaysAreExact == Spec => []ClosedDayIsExact
<1>1. IInv => ClosedDayIsExact
  BY DEF IInv, DailyExact, ExactSoFar, ClosedDayIsExact
<1> QED BY <1>1, AlwaysIInv, PTL

(* Paging by number, newest first, over a table that grows meanwhile skips no
   click that was there at the first page, for every limit asked for. *)
THEOREM PagingIsComplete == Spec => []PagesMissNothing
<1>1. IInv => PagesMissNothing
  BY DEF IInv, Paged, ReaderCaughtUp, PagesMissNothing
<1> QED BY <1>1, AlwaysIInv, PTL
=============================================================================
