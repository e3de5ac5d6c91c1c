----------------------------- MODULE LinkProofs -----------------------------
(***************************************************************************)
(* The theorems of Links and of Redirect, which extends it.                *)
(*                                                                         *)
(* First the link table under any number of concurrent API requests, over  *)
(* any number of organizations, ids and codes: what is stored has been     *)
(* validated, short codes stay unique, the table implements CodeRegistry.  *)
(* The invariant is inductive as it stands, because the UNIQUE constraint  *)
(* is checked in the same step as the INSERT: the earlier                  *)
(* ExistsByShortCode plays no part in the proof.                           *)
(*                                                                         *)
(* Then the redirect with its cache and click goroutines, for any number   *)
(* of visitors and any life of an entry: nothing malformed is cached or    *)
(* served, no tenant is shown another's link, no content is older than its *)
(* entry may be, and every click is accounted for.  What the first part    *)
(* shows of the table carries over, because the redirect writes nothing to *)
(* it but click counts.                                                    *)
(***************************************************************************)
EXTENDS Redirect, TLAPS

IInv == LinksTypeOK /\ UniqueCodes

(* The step leaves every stored row stored, with its code, and stores none. *)
KeepsCodes ==
  \A o \in Orgs, i \in Ids :
    /\ Stored(o, i)' <=> Stored(o, i)
    /\ Stored(o, i) => table'[o][i].code = table[o][i].code

(* It leaves the click counts alone as well. *)
KeepsRows ==
  /\ KeepsCodes
  /\ \A o \in Orgs, i \in Ids :
       Stored(o, i) => table'[o][i].clicks = table[o][i].clicks

-----------------------------------------------------------------------------
(* The table a server finds satisfies the invariant. *)
LEMMA InitIInv == LinksInit => IInv
<1> SUFFICES ASSUME LinksInit PROVE IInv
  OBVIOUS
<1>1. LinksTypeOK
  BY LinkConstants DEF LinksInit, LinksTypeOK, Job
<1>2. UniqueCodes
  BY LinkConstants DEF LinksInit, UniqueCodes
<1> QED BY <1>1, <1>2 DEF IInv

(* Uniqueness speaks of codes only. *)
LEMMA KeptCodesStayUnique ==
  ASSUME UniqueCodes, KeepsCodes
  PROVE  UniqueCodes'
<1>1. UniqueIn(table)'
  BY DEF UniqueCodes, KeepsCodes, UniqueIn, Stored
<1>2. IdsIn(table)'
  BY DEF UniqueCodes, KeepsCodes, IdsIn, Stored
<1> QED BY <1>1, <1>2 DEF UniqueCodes

(* For CodeRegistry, a step that keeps the codes is a stutter. *)
LEMMA KeptCodesStayClaimed ==
  ASSUME KeepsCodes
  PROVE  claimed' = claimed
<1>1. ASSUME NEW k \in Orgs \X Codes \X Ids
      PROVE  (table'[k[1]][k[3]] # NoRow /\ table'[k[1]][k[3]].code = k[2])
               <=> (table[k[1]][k[3]] # NoRow /\ table[k[1]][k[3]].code = k[2])
  <2>1. k[1] \in Orgs /\ k[3] \in Ids
    OBVIOUS
  <2> QED BY <2>1 DEF KeepsCodes, Stored
<1> QED BY <1>1 DEF claimed

-----------------------------------------------------------------------------
(* Every write of a row in place, a PATCH or an archive. *)
LEMMA WriteInPlace ==
  ASSUME LinksTypeOK, NEW o \in Orgs, NEW i \in Ids, Stored(o, i),
         NEW d \in GoodDests, NEW s \in Statuses,
         table' = [table EXCEPT ![o][i].dest = d, ![o][i].status = s]
                  \/ table' = [table EXCEPT ![o][i].status = s]
  PROVE  table' \in Tables /\ KeepsRows
<1> DEFINE old == table[o][i]
<1>1. old \in Row
  BY DEF LinksTypeOK, Tables, Stored
<1>2. PICK new \in Row : /\ table' = [table EXCEPT ![o][i] = new]
                         /\ new.code = old.code /\ new.clicks = old.clicks
  <2>1. CASE table' = [table EXCEPT ![o][i].dest = d, ![o][i].status = s]
    <3> DEFINE new == [old EXCEPT !.dest = d, !.status = s]
    <3>1. new \in Row /\ new.code = old.code /\ new.clicks = old.clicks
      BY <1>1 DEF Row
    <3>2. table' = [table EXCEPT ![o][i] = new]
      BY <2>1 DEF LinksTypeOK, Tables
    <3> QED BY <3>1, <3>2
  <2>2. CASE table' = [table EXCEPT ![o][i].status = s]
    <3> DEFINE new == [old EXCEPT !.status = s]
    <3>1. new \in Row /\ new.code = old.code /\ new.clicks = old.clicks
      BY <1>1 DEF Row
    <3>2. table' = [table EXCEPT ![o][i] = new]
      BY <2>2 DEF LinksTypeOK, Tables
    <3> QED BY <3>1, <3>2
  <2> QED BY <2>1, <2>2
<1>3. new # NoRow
  BY LinkConstants
<1>4. table' \in Tables
  BY <1>2 DEF LinksTypeOK, Tables
<1>5. KeepsRows
  BY <1>2, <1>3 DEF KeepsRows, KeepsCodes, Stored, LinksTypeOK, Tables
<1> QED BY <1>4, <1>5

(* The requests that only move on: no statement of theirs has written yet. *)
LEMMA JobStepKeeps ==
  ASSUME LinksTypeOK, UNCHANGED table, job' \in [Procs -> Job],
         requests' \in 0 .. MaxRequests
  PROVE  LinksTypeOK' /\ KeepsRows
BY DEF LinksTypeOK, KeepsRows, KeepsCodes, Stored

(* Taking up a request counts it within its bound. *)
LEMMA BeginTypes ==
  ASSUME LinksTypeOK, NEW p \in Procs, Begin(p)
  PROVE  requests' \in 0 .. MaxRequests
BY LinkConstants DEF LinksTypeOK, Begin

(* Giving one request another well-formed job keeps all jobs well-formed. *)
LEMMA SetJob ==
  ASSUME LinksTypeOK, NEW p \in Procs, NEW j \in Job,
         job' = [job EXCEPT ![p] = j]
  PROVE  job' \in [Procs -> Job]
BY DEF LinksTypeOK

(* The fields a job has, by its kind. *)
LEMMA JobKinds ==
  ASSUME LinksTypeOK, NEW p \in Procs
  PROVE  /\ job[p].kind = "check"  => job[p] \in CheckJob
         /\ job[p].kind = "insert" => job[p] \in InsertJob
         /\ job[p].kind = "update" => job[p] \in UpdateJob
         /\ Idle \in Job
<1>1. job[p] \in Job
  BY DEF LinksTypeOK
<1>2. job[p] \in CheckJob => job[p].kind = "check"
  BY DEF CheckJob
<1>3. job[p] \in InsertJob => job[p].kind = "insert"
  BY DEF InsertJob
<1>4. job[p] \in UpdateJob => job[p].kind = "update"
  BY DEF UpdateJob
<1>5. job[p] = Idle => job[p].kind = "idle"
  BY DEF Idle
<1> QED BY <1>1, <1>2, <1>3, <1>4, <1>5 DEF Job

-----------------------------------------------------------------------------
(* The handlers, up to their first statement, write nothing. *)
LEMMA IssueKeeps ==
  ASSUME LinksTypeOK, NEW p \in Procs, Issue(p)
  PROVE  LinksTypeOK' /\ KeepsRows
<1>1. ASSUME NEW o \in Orgs, NEW d \in Dests, NEW e \in Expiries,
             NEW c \in UserCodes \cup {NoCode}, CreateLink(p, o, d, e, c)
      PROVE  LinksTypeOK' /\ KeepsRows
  <2> DEFINE j == [kind |-> "check", org |-> o, dest |-> d, expires |-> e,
                   custom |-> c, tries |-> 0]
  <2>1. j \in Job
    BY <1>1, LinkConstants DEF Job, CheckJob, CreateLink, ValidLink
  <2>2. UNCHANGED table /\ job' = [job EXCEPT ![p] = j] /\ Begin(p)
    BY <1>1 DEF CreateLink
  <2> HIDE DEF j
  <2> QED BY <2>1, <2>2, SetJob, BeginTypes, JobStepKeeps
<1>2. ASSUME NEW o \in Orgs, NEW i \in Ids, NEW a \in Patches,
             UpdateLink(p, o, i, a)
      PROVE  LinksTypeOK' /\ KeepsRows
  <2> DEFINE j == [kind |-> "update", org |-> o, id |-> i, asked |-> a,
                   dest   |-> Merge(a.dest, table[o][i].dest),
                   status |-> Merge(a.status, table[o][i].status)]
  <2>1. table[o][i] \in Row
    BY <1>2 DEF UpdateLink, LinksTypeOK, Tables, Stored
  <2>2. /\ Merge(a.dest, table[o][i].dest) \in GoodDests
        /\ Merge(a.status, table[o][i].status) \in Statuses
    BY <1>2, <2>1 DEF Merge, Patches, Row, UpdateLink, ValidLink
  <2>3. j \in Job
    BY <2>2 DEF Job, UpdateJob, Patches
  <2>4. UNCHANGED table /\ job' = [job EXCEPT ![p] = j] /\ Begin(p)
    BY <1>2 DEF UpdateLink
  <2> HIDE DEF j
  <2> QED BY <2>3, <2>4, SetJob, BeginTypes, JobStepKeeps
<1>3. ASSUME NEW o \in Orgs, NEW i \in Ids, ArchiveLink(p, o, i)
      PROVE  LinksTypeOK' /\ KeepsRows
  <2>1. UNCHANGED job /\ requests' \in 0 .. MaxRequests
    BY <1>3, BeginTypes DEF ArchiveLink
  <2>2. CASE Stored(o, i)
    <3>1. table' = [table EXCEPT ![o][i].status = "archived"]
      BY <1>3, <2>2 DEF ArchiveLink
    <3>2. "archived" \in Statuses
      BY LinkConstants
    <3>3. table[o][i] \in Row
      BY <2>2 DEF LinksTypeOK, Tables, Stored
    <3>4. table[o][i].dest \in GoodDests
      BY <3>3 DEF Row
    <3>5. table' \in Tables /\ KeepsRows
      BY <2>2, <3>1, <3>2, <3>4, WriteInPlace
    <3> QED BY <2>1, <3>5 DEF LinksTypeOK
  <2>3. CASE ~Stored(o, i)
    <3>1. UNCHANGED table
      BY <1>3, <2>3 DEF ArchiveLink
    <3> QED BY <2>1, <3>1, JobStepKeeps DEF LinksTypeOK
  <2> QED BY <2>2, <2>3
<1> QED BY <1>1, <1>2, <1>3 DEF Issue

(* Short code generation only looks the table up. *)
LEMMA CheckKeeps ==
  ASSUME LinksTypeOK, NEW p \in Procs,
         CheckCustom(p) \/ \E c \in ShortCodes \cup LongCodes : CheckRandom(p, c)
  PROVE  LinksTypeOK' /\ KeepsRows
<1> DEFINE j == job[p]
<1>1. j \in CheckJob /\ Idle \in Job
  BY JobKinds DEF CheckCustom, CheckRandom
<1>2. \A c \in Codes : ToInsert(j, c) \in Job
  BY <1>1 DEF ToInsert, Job, InsertJob, CheckJob
<1>3. j.tries < MaxRetries => [j EXCEPT !.tries = @ + 1] \in Job
  <2>1. ASSUME j.tries < MaxRetries
        PROVE  j.tries + 1 \in 0 .. MaxRetries
    BY <1>1, <2>1, LinkConstants DEF CheckJob
  <2> QED BY <1>1, <2>1 DEF Job, CheckJob
<1>4. UNCHANGED <<table, requests>>
  BY DEF CheckCustom, CheckRandom
<1>5. CASE CheckCustom(p)
  <2>1. j.custom \in Codes
    BY <1>1, <1>5 DEF CheckCustom, CheckJob, Codes
  <2>2. PICK k \in Job : job' = [job EXCEPT ![p] = k]
    BY <1>1, <1>2, <1>5, <2>1 DEF CheckCustom
  <2>3. job' \in [Procs -> Job]
    BY <2>2, SetJob
  <2> QED BY <1>4, <2>3, JobStepKeeps DEF LinksTypeOK
<1>6. ASSUME NEW c \in ShortCodes \cup LongCodes, CheckRandom(p, c)
      PROVE  LinksTypeOK' /\ KeepsRows
  <2>1. c \in Codes
    BY DEF Codes
  <2>2. \E k \in Job : job' = [job EXCEPT ![p] = k]
    <3>1. CASE ~CodeTaken(j.org, c)
      BY <3>1, <1>2, <1>6, <2>1 DEF CheckRandom
    <3>2. CASE CodeTaken(j.org, c) /\ j.tries < MaxRetries
      BY <3>2, <1>3, <1>6 DEF CheckRandom
    <3>3. CASE CodeTaken(j.org, c) /\ ~(j.tries < MaxRetries)
      BY <3>3, <1>1, <1>6 DEF CheckRandom
    <3> QED BY <3>1, <3>2, <3>3
  <2>3. job' \in [Procs -> Job]
    BY <2>2, SetJob
  <2> QED BY <1>4, <2>3, JobStepKeeps DEF LinksTypeOK
<1> QED BY <1>5, <1>6

(* The UPDATEs of PATCH and DELETE write in place. *)
LEMMA WriteKeeps ==
  ASSUME LinksTypeOK, NEW p \in Procs, WriteUpdate(p)
  PROVE  LinksTypeOK' /\ KeepsRows
<1> DEFINE j == job[p]
<1>1. j \in UpdateJob /\ Idle \in Job
  BY JobKinds DEF WriteUpdate
<1>2. /\ j.org \in Orgs /\ j.id \in Ids
      /\ j.dest \in GoodDests /\ j.status \in Statuses
  BY <1>1 DEF UpdateJob
<1>3. UNCHANGED requests /\ job' \in [Procs -> Job]
  BY <1>1, SetJob DEF WriteUpdate
<1>4. CASE Stored(j.org, j.id)
  <2>1. table' = [table EXCEPT ![j.org][j.id].dest = j.dest,
                               ![j.org][j.id].status = j.status]
    BY <1>4 DEF WriteUpdate
  <2>2. table' \in Tables /\ KeepsRows
    <3> HIDE DEF j
    <3> QED BY <1>2, <1>4, <2>1, WriteInPlace
  <2> QED BY <1>3, <2>2 DEF LinksTypeOK
<1>5. CASE ~Stored(j.org, j.id)
  <2>1. UNCHANGED table
    BY <1>5 DEF WriteUpdate
  <2> QED BY <1>3, <2>1, JobStepKeeps DEF LinksTypeOK
<1> QED BY <1>4, <1>5

(* What a request leaves behind when it ends early: nothing. *)
LEMMA EndKeeps ==
  ASSUME LinksTypeOK,
         \/ \E p \in Procs : InsertRefused(p) \/ StatementFails(p)
         \/ Crash
  PROVE  LinksTypeOK' /\ KeepsRows
<1>1. Idle \in Job
  BY DEF Job
<1>2. UNCHANGED <<table, requests>>
  BY DEF InsertRefused, StatementFails, Crash
<1>3. job' \in [Procs -> Job]
  BY <1>1 DEF LinksTypeOK, InsertRefused, StatementFails, Crash, CrashRequests
<1> QED BY <1>2, <1>3, JobStepKeeps DEF LinksTypeOK

(* The one step that adds a row claims a code, and the UNIQUE constraint in
   its guard is what CodeRegistry asks of a claim. *)
LEMMA InsertClaims ==
  ASSUME IInv, NEW p \in Procs, NEW i \in Ids, InsertLink(p, i)
  PROVE  IInv' /\ Registry!Claim(job[p].org, job[p].code, i)
                     /\ job[p].org \in Orgs /\ job[p].code \in Codes
<1> USE DEF IInv
<1> DEFINE o == job[p].org
           c == job[p].code
           new == [code |-> c, dest |-> job[p].dest, status |-> "active",
                   expires |-> job[p].expires, clicks |-> 0]
<1>1. job[p] \in InsertJob /\ Idle \in Job
  BY JobKinds DEF InsertLink
<1>2. o \in Orgs /\ c \in Codes
  BY <1>1 DEF InsertJob
<1>3. new \in Row /\ new.code = c
  BY <1>1, <1>2, LinkConstants DEF InsertJob, Row
<1>4. /\ \A q \in Orgs : table[q][i] = NoRow
      /\ \A m \in Ids : table[o][m] # NoRow => table[o][m].code # c
  BY DEF InsertLink, CodeTaken, Stored
<1>5. table' = [table EXCEPT ![o][i] = new]
  BY DEF InsertLink
<1> HIDE DEF o, c, new
<1>6. new # NoRow
  BY <1>3, LinkConstants
<1>7. table' \in Tables
  BY <1>2, <1>3, <1>5 DEF LinksTypeOK, Tables
<1>8. \A q \in Orgs, m \in Ids :
        table'[q][m] = IF q = o /\ m = i THEN new ELSE table[q][m]
  BY <1>2, <1>5 DEF LinksTypeOK, Tables
<1>9. LinksTypeOK'
  BY <1>1, <1>7, SetJob DEF LinksTypeOK, InsertLink
<1>10. UniqueIn(table)'
  BY <1>2, <1>3, <1>4, <1>6, <1>8 DEF UniqueCodes, UniqueIn
<1>11. IdsIn(table)'
  BY <1>2, <1>4, <1>6, <1>8 DEF UniqueCodes, IdsIn
<1>12. Registry!Claim(o, c, i)
  <2>1. ASSUME NEW k \in claimed
        PROVE  <<k[1], k[2]>> # <<o, c>> /\ k[3] # i
    <3>1. /\ k[1] \in Orgs /\ k[2] \in Codes /\ k[3] \in Ids
          /\ table[k[1]][k[3]] # NoRow /\ table[k[1]][k[3]].code = k[2]
      BY DEF claimed
    <3>2. k[3] # i
      BY <3>1, <1>4
    <3>3. k[1] # o \/ k[2] # c
      BY <3>1, <1>4
    <3> QED BY <3>2, <3>3
  <2>2. claimed' = claimed \cup {<<o, c, i>>}
    <3>1. ASSUME NEW k \in Orgs \X Codes \X Ids
          PROVE  (table'[k[1]][k[3]] # NoRow /\ table'[k[1]][k[3]].code = k[2])
                   <=> \/ table[k[1]][k[3]] # NoRow /\ table[k[1]][k[3]].code = k[2]
                       \/ k = <<o, c, i>>
      <4>1. k[1] \in Orgs /\ k[2] \in Codes /\ k[3] \in Ids
            /\ k = <<k[1], k[2], k[3]>>
        OBVIOUS
      <4>2. CASE k[1] = o /\ k[3] = i
        BY <4>1, <4>2, <1>3, <1>4, <1>6, <1>8
      <4>3. CASE ~(k[1] = o /\ k[3] = i)
        BY <4>1, <4>3, <1>8
      <4> QED BY <4>2, <4>3
    <3>2. <<o, c, i>> \in Orgs \X Codes \X Ids
      BY <1>2
    <3> QED BY <3>1, <3>2 DEF claimed
  <2> QED BY <2>1, <2>2 DEF Registry!Claim
<1> QED BY <1>2, <1>9, <1>10, <1>11, <1>12 DEF UniqueCodes, o, c

(* Every step inserts a row, or keeps rows, codes and counts as they are. *)
LEMMA StepCases ==
  ASSUME IInv, [LinksNext]_linkVars
  PROVE  \/ LinksTypeOK' /\ KeepsRows
         \/ \E p \in Procs, i \in Ids : InsertLink(p, i)
<1>1. LinksTypeOK
  BY DEF IInv
<1>2. ASSUME NEW p \in Procs, Issue(p)
      PROVE  LinksTypeOK' /\ KeepsRows
  BY <1>1, <1>2, IssueKeeps
<1>3. ASSUME NEW p \in Procs, Proceed(p)
      PROVE  \/ LinksTypeOK' /\ KeepsRows
             \/ \E i \in Ids : InsertLink(p, i)
  BY <1>1, <1>3, CheckKeeps, WriteKeeps, EndKeeps DEF Proceed
<1>4. ASSUME NEW p \in Procs, StatementFails(p)
      PROVE  LinksTypeOK' /\ KeepsRows
  BY <1>1, <1>4, EndKeeps
<1>5. CASE Crash
  BY <1>1, <1>5, EndKeeps
<1>6. CASE UNCHANGED linkVars
  BY <1>1, <1>6, JobStepKeeps DEF linkVars, LinksTypeOK
<1> QED BY <1>2, <1>3, <1>4, <1>5, <1>6 DEF LinksNext, RequestStep

(* Every step of LinksNext keeps the invariant. *)
LEMMA NextKeepsIInv == IInv /\ [LinksNext]_linkVars => IInv'
<1> SUFFICES ASSUME IInv, [LinksNext]_linkVars PROVE IInv'
  OBVIOUS
<1>1. CASE LinksTypeOK' /\ KeepsRows
  BY <1>1, KeptCodesStayUnique DEF IInv, KeepsRows
<1>2. ASSUME NEW p \in Procs, NEW i \in Ids, InsertLink(p, i)
      PROVE  IInv'
  BY <1>2, InsertClaims
<1> QED BY <1>1, <1>2, StepCases

(* The invariant holds in every state of every run of the API requests
   (LinkHandler and Service of the link engine). *)
THEOREM Inductive == LinksSafety => []IInv
<1> QED BY InitIInv, NextKeepsIInv, PTL DEF LinksSafety

-----------------------------------------------------------------------------
(* Type correctness: every destination that is stored, or about to be, is one that
   ValidateLink accepts, although a PATCH merges into a row that others write; the
   status may be any string a PATCH has asked for; and no request outgrows its
   retries. *)
THEOREM TypeCorrect == LinksSafety => []LinksTypeOK
<1>1. IInv => LinksTypeOK
  BY DEF IInv
<1> QED BY <1>1, Inductive, PTL

(* Short codes are unique in each database, and a link id names one row, under
   any interleaving of creates, patches, archives, failures and crashes. *)
THEOREM CodesAreUnique == LinksSafety => []UniqueCodes
<1>1. IInv => UniqueCodes
  BY DEF IInv
<1> QED BY <1>1, Inductive, PTL

(* The three statements of CreateLink, interleaved with everything else,
   implement the atomic claim of CodeRegistry: a code, once claimed, is never
   moved to another link nor freed. *)
THEOREM TableImplementsRegistry == LinksSafety => ImplementsRegistry
<1>1. LinksInit => Registry!Init
  BY DEF claimed, Registry!Init, Registry!Claims
<1>2. ASSUME IInv, [LinksNext]_linkVars
      PROVE  [Registry!Next]_claimed
  <2>1. CASE KeepsCodes
    BY <2>1, KeptCodesStayClaimed
  <2>2. ASSUME NEW p \in Procs, NEW i \in Ids, InsertLink(p, i)
        PROVE  Registry!Next
    BY <1>2, <2>2, InsertClaims DEF Registry!Next
  <2> QED BY <1>2, <2>1, <2>2, StepCases DEF KeepsRows
<1> QED
  BY <1>1, <1>2, Inductive, PTL
  DEF LinksSafety, ImplementsRegistry, Registry!Spec

-----------------------------------------------------------------------------
(* What RequestsEnd rests on: every statement of a request is one of finitely many. *)

(* The statements a request at j still runs, at most: the lookups of the codes it
   may yet draw, and its INSERT or UPDATE. *)
Statements(j) == CASE j.kind = "check" -> MaxRetries - j.tries + 2
                   [] j.kind \in {"insert", "update"} -> 1
                   [] OTHER -> 0

(* A statement brings its request nearer the end, and nothing that other requests
   do sets it back; only a new request has more to run than before. *)
ComesNearer ==
  \A p \in Procs :
    /\ Proceed(p) => Statements(job'[p]) < Statements(job[p])
    /\ \/ job'[p] = job[p]
       \/ Statements(job'[p]) < Statements(job[p])
       \/ job[p] = Idle /\ requests' = requests + 1 /\ Statements(job'[p]) <= MaxRetries + 2

LEMMA StatementsOf ==
  ASSUME NEW j
  PROVE  /\ j.kind = "check" => Statements(j) = MaxRetries - j.tries + 2
         /\ j.kind \in {"insert", "update"} => Statements(j) = 1
         /\ j.kind = "idle" => Statements(j) = 0
BY DEF Statements

LEMMA StatementsLeft ==
  /\ Statements(Idle) = 0
  /\ \A j \in Job : j # Idle => Statements(j) \in 1 .. MaxRetries + 2
  /\ \A j \in CheckJob, c \in Codes :
       /\ Statements(ToInsert(j, c)) = 1 /\ 1 < Statements(j)
       /\ j.tries < MaxRetries => Statements([j EXCEPT !.tries = @ + 1]) < Statements(j)
<1>1. Statements(Idle) = 0
  BY StatementsOf DEF Idle
<1>2. ASSUME NEW j \in CheckJob
      PROVE  Statements(j) \in 2 .. MaxRetries + 2
  <2>1. j.tries \in 0 .. MaxRetries /\ Statements(j) = MaxRetries - j.tries + 2
    BY StatementsOf DEF CheckJob
  <2> QED BY <2>1, LinkConstants
<1>3. \A j \in InsertJob \cup UpdateJob : Statements(j) = 1
  BY StatementsOf DEF InsertJob, UpdateJob
<1>4. ASSUME NEW j \in Job, j # Idle
      PROVE  Statements(j) \in 1 .. MaxRetries + 2
  BY <1>2, <1>3, <1>4, LinkConstants DEF Job
<1>5. ASSUME NEW j \in CheckJob, NEW c \in Codes
      PROVE  Statements(ToInsert(j, c)) = 1
  BY StatementsOf DEF ToInsert
<1>6. ASSUME NEW j \in CheckJob, j.tries < MaxRetries
      PROVE  Statements([j EXCEPT !.tries = @ + 1]) < Statements(j)
  <2>1. PICK k : k = [j EXCEPT !.tries = @ + 1]
    OBVIOUS
  <2>2. k.kind = "check" /\ k.tries = j.tries + 1 /\ j.kind = "check"
    BY <2>1 DEF CheckJob
  <2>3. /\ Statements(k) = MaxRetries - (j.tries + 1) + 2
        /\ Statements(j) = MaxRetries - j.tries + 2
        /\ j.tries \in Int
    BY <2>2, StatementsOf DEF CheckJob
  <2> QED BY <2>1, <2>3, LinkConstants
<1>7. ASSUME NEW j \in CheckJob PROVE 1 < Statements(j)
  BY <1>2, <1>7, LinkConstants
<1> QED BY <1>1, <1>4, <1>5, <1>6, <1>7

LEMMA ProceedNears ==
  ASSUME LinksTypeOK, NEW p \in Procs, Proceed(p)
  PROVE  /\ Statements(job'[p]) < Statements(job[p])
         /\ \A q \in Procs : q # p => job'[q] = job[q]
<1>1. PICK j \in Job : j = job[p]
  BY DEF LinksTypeOK
<1>2. ASSUME NEW k, job' = [job EXCEPT ![p] = k]
      PROVE  job'[p] = k /\ \A q \in Procs : q # p => job'[q] = job[q]
  BY <1>2 DEF LinksTypeOK
<1>3. Statements(Idle) = 0 /\ (j # Idle => 0 < Statements(j))
  BY StatementsLeft, LinkConstants
<1>4. CASE CheckCustom(p)
  <2>1. j \in CheckJob
    BY <1>1, <1>4, JobKinds DEF CheckCustom
  <2>2. j.custom \in Codes
    BY <1>1, <1>4, <2>1 DEF CheckCustom, CheckJob, Codes
  <2>3. PICK k \in {Idle, ToInsert(j, j.custom)} : job' = [job EXCEPT ![p] = k]
    BY <1>1, <1>4 DEF CheckCustom
  <2>4. Statements(k) \in {0, 1} /\ 1 < Statements(j)
    BY <1>3, <2>1, <2>2, StatementsLeft
  <2>5. Statements(k) < Statements(j)
    <3>1. Statements(j) \in Int
      BY <2>1, StatementsLeft, LinkConstants DEF Idle, CheckJob, Job
    <3> QED BY <2>4, <3>1
  <2> QED BY <1>1, <1>2, <2>3, <2>5
<1>5. ASSUME NEW c \in ShortCodes \cup LongCodes, CheckRandom(p, c)
      PROVE  /\ Statements(job'[p]) < Statements(job[p])
             /\ \A q \in Procs : q # p => job'[q] = job[q]
  <2>1. j \in CheckJob /\ j # Idle
    BY <1>1, <1>5, JobKinds DEF CheckRandom, Idle, CheckJob
  <2>2. c \in Codes
    BY DEF Codes
  <2>3. PICK k : /\ job' = [job EXCEPT ![p] = k]
                 /\ \/ k \in {Idle, ToInsert(j, c)}
                    \/ j.tries < MaxRetries /\ k = [j EXCEPT !.tries = @ + 1]
    BY <1>1, <1>5 DEF CheckRandom
  <2>4. CASE k \in {Idle, ToInsert(j, c)}
    <3>1. Statements(k) \in {0, 1} /\ 1 < Statements(j)
      BY <1>3, <2>1, <2>2, <2>4, StatementsLeft
    <3>2. Statements(j) \in 1 .. MaxRetries + 2
      BY <2>1, StatementsLeft
    <3>3. Statements(k) < Statements(j)
      BY <3>1, <3>2, LinkConstants
    <3> QED BY <1>1, <1>2, <2>3, <3>3
  <2>5. CASE j.tries < MaxRetries /\ k = [j EXCEPT !.tries = @ + 1]
    <3>1. Statements(k) < Statements(j)
      BY <2>1, <2>2, <2>5, StatementsLeft
    <3> QED BY <1>1, <1>2, <2>3, <3>1
  <2> QED BY <2>3, <2>4, <2>5
<1>6. CASE (\E i \in Ids : InsertLink(p, i)) \/ InsertRefused(p) \/ WriteUpdate(p)
  <2>1. job' = [job EXCEPT ![p] = Idle] /\ j.kind \in {"insert", "update"}
    BY <1>1, <1>6 DEF InsertLink, InsertRefused, WriteUpdate
  <2>2. j # Idle
    BY <2>1 DEF Idle
  <2> QED BY <1>1, <1>2, <1>3, <2>1, <2>2
<1> QED BY <1>4, <1>5, <1>6 DEF Proceed

(* A request ends after MaxRetries + 2 statements at most, however the drawn codes
   collide and whatever concurrent requests do. *)
THEOREM LinkRequestsComeNearer == LinksSafety => [][ComesNearer]_linkVars
<1>1. ASSUME LinksTypeOK, LinksTypeOK', [LinksNext]_linkVars
      PROVE  ComesNearer
  <2> DEFINE Nears(p) == \/ job'[p] = job[p]
                         \/ Statements(job'[p]) < Statements(job[p])
                         \/ /\ job[p] = Idle /\ requests' = requests + 1
                            /\ Statements(job'[p]) <= MaxRetries + 2
  <2>1. \A q \in Procs : /\ job[q] \in Job /\ job'[q] \in Job
                         /\ Statements(job'[q]) <= MaxRetries + 2
    <3>1. \A q \in Procs : job[q] \in Job /\ job'[q] \in Job
      BY <1>1 DEF LinksTypeOK
    <3>2. \A j \in Job : Statements(j) <= MaxRetries + 2
      BY StatementsLeft, LinkConstants
    <3> QED BY <3>1, <3>2
  <2>2. ASSUME NEW p \in Procs, Issue(p) PROVE \A q \in Procs : Nears(q)
    <3>1. Begin(p) /\ ((\E j : job' = [job EXCEPT ![p] = j]) \/ job' = job)
      BY <2>2 DEF Issue, CreateLink, UpdateLink, ArchiveLink
    <3>2. \A q \in Procs : q # p => job'[q] = job[q]
      BY <1>1, <3>1 DEF LinksTypeOK
    <3> QED BY <2>1, <3>1, <3>2 DEF Begin
  <2>3. ASSUME NEW p \in Procs, Proceed(p) PROVE \A q \in Procs : Nears(q)
    BY <1>1, <2>3, ProceedNears
  <2>4. ASSUME NEW p \in Procs, StatementFails(p) \/ Crash PROVE \A q \in Procs : Nears(q)
    <3> SUFFICES ASSUME NEW q \in Procs PROVE Nears(q)
      OBVIOUS
    <3>1. job'[q] = job[q] \/ job'[q] = Idle
      BY <1>1, <2>4 DEF StatementFails, Crash, CrashRequests, LinksTypeOK
    <3>2. job[q] # Idle => Statements(Idle) < Statements(job[q])
      BY <2>1, StatementsLeft, LinkConstants
    <3> QED BY <3>1, <3>2
  <2>5. UNCHANGED linkVars => \A q \in Procs : Nears(q)
    BY DEF linkVars
  <2>6. \A q \in Procs : Nears(q)
    <3> HIDE DEF Nears
    <3> QED BY <1>1, <2>2, <2>3, <2>4, <2>5 DEF LinksNext, RequestStep
  <2>7. \A p \in Procs : Proceed(p) => Statements(job'[p]) < Statements(job[p])
    BY <1>1, ProceedNears
  <2> QED BY <2>6, <2>7 DEF ComesNearer
<1> QED BY <1>1, TypeCorrect, PTL DEF LinksSafety

-----------------------------------------------------------------------------
(* ArchiveSticks, which links_archive refutes, holds when requests do not race: the
   status a PATCH writes back is then still the one it read. *)
StatusFresh ==
  \A p \in Procs :
    (job[p].kind = "update" /\ job[p].asked.status = Unset
       /\ Stored(job[p].org, job[p].id))
      => table[job[p].org][job[p].id].status = job[p].status

(* A step by the only goroutine there is. *)
LEMMA AloneStep ==
  ASSUME LinksTypeOK, StatusFresh, [LinksNext]_linkVars,
         NEW p \in Procs, \A q \in Procs : q = p
  PROVE  /\ \/ job'[p].kind # "update"
            \/ job' = job /\ table' = table
            \/ \E o \in Orgs, i \in Ids, a \in Patches : UpdateLink(p, o, i, a)
         /\ \/ table' = table
            \/ WriteUpdate(p)
            \/ \E i \in Ids : InsertLink(p, i)
            \/ \E o \in Orgs, i \in Ids : ArchiveLink(p, o, i)
<1> DEFINE Ended == job'[p].kind # "update"
<1>1. ASSUME NEW j, job' = [job EXCEPT ![p] = j], j.kind # "update" PROVE Ended
  BY <1>1 DEF LinksTypeOK
<1>2. Idle.kind # "update" /\ \A j, c : ToInsert(j, c).kind # "update"
  BY DEF Idle, ToInsert
<1>3. ASSUME NEW o \in Orgs, NEW d \in Dests, NEW e \in Expiries,
             NEW c \in UserCodes \cup {NoCode}, CreateLink(p, o, d, e, c)
      PROVE  Ended /\ table' = table
  <2>1. PICK j : j = [kind |-> "check", org |-> o, dest |-> d, expires |-> e,
                      custom |-> c, tries |-> 0]
    OBVIOUS
  <2>2. j.kind # "update" /\ job' = [job EXCEPT ![p] = j]
    BY <1>3, <2>1 DEF CreateLink
  <2> QED BY <1>1, <1>3, <2>2 DEF CreateLink
<1>4. ASSUME CheckCustom(p) PROVE Ended /\ table' = table
  BY <1>1, <1>2, <1>4 DEF CheckCustom
<1>5. ASSUME NEW c, CheckRandom(p, c) PROVE Ended /\ table' = table
  <2>1. job[p] \in CheckJob
    BY <1>5, JobKinds DEF CheckRandom
  <2>2. [job[p] EXCEPT !.tries = @ + 1].kind # "update"
    BY <2>1 DEF CheckJob
  <2>3. \E j : j.kind # "update" /\ job' = [job EXCEPT ![p] = j]
    BY <1>2, <1>5, <2>2 DEF CheckRandom
  <2> QED BY <1>1, <1>5, <2>3 DEF CheckRandom
<1>6. ASSUME (\E i \in Ids : InsertLink(p, i)) \/ WriteUpdate(p) PROVE Ended
  BY <1>1, <1>2, <1>6 DEF InsertLink, WriteUpdate
<1>7. ASSUME InsertRefused(p) \/ StatementFails(p) PROVE Ended /\ table' = table
  BY <1>1, <1>2, <1>7 DEF InsertRefused, StatementFails
<1>8. ASSUME Crash PROVE Ended /\ table' = table
  BY <1>2, <1>8 DEF Crash, CrashRequests
<1>9. ASSUME NEW o \in Orgs, NEW i \in Ids, ArchiveLink(p, o, i)
      PROVE  Ended
  BY <1>9 DEF ArchiveLink, Begin, Idle
<1>10. ASSUME NEW o \in Orgs, NEW i \in Ids, NEW a \in Patches, UpdateLink(p, o, i, a)
       PROVE  table' = table
  BY <1>10 DEF UpdateLink
<1>11. UNCHANGED linkVars => job' = job /\ table' = table
  BY DEF linkVars
<1> HIDE DEF Ended
<1>12. CASE \E q \in Procs : Issue(q)
  BY <1>3, <1>9, <1>10, <1>12 DEF Issue, Ended
<1>13. CASE \E q \in Procs : Proceed(q)
  BY <1>4, <1>5, <1>6, <1>7, <1>13 DEF Proceed, Ended
<1>14. CASE (\E q \in Procs : StatementFails(q)) \/ Crash \/ UNCHANGED linkVars
  BY <1>7, <1>8, <1>11, <1>14 DEF Ended
<1> QED BY <1>12, <1>13, <1>14 DEF LinksNext, RequestStep

LEMMA AloneKeepsFresh ==
  ASSUME LinksTypeOK, StatusFresh, [LinksNext]_linkVars, \A p, q \in Procs : p = q
  PROVE  StatusFresh'
<1> SUFFICES ASSUME NEW p \in Procs, job'[p].kind = "update",
                    job'[p].asked.status = Unset, Stored(job[p].org, job[p].id)'
             PROVE  table'[job'[p].org][job'[p].id].status = job'[p].status
  BY DEF StatusFresh
<1>1. CASE job' = job /\ table' = table
  BY <1>1 DEF StatusFresh, Stored
<1>2. ASSUME NEW o \in Orgs, NEW i \in Ids, NEW a \in Patches, UpdateLink(p, o, i, a)
      PROVE  table'[job'[p].org][job'[p].id].status = job'[p].status
  <2>1. /\ job'[p].org = o /\ job'[p].id = i /\ job'[p].asked = a
        /\ job'[p].status = Merge(a.status, table[o][i].status) /\ table' = table
    BY <1>2 DEF UpdateLink, LinksTypeOK
  <2> QED BY <2>1 DEF Merge
<1> QED BY <1>1, <1>2, AloneStep

(* Without a race DELETE archives for good: no PATCH that says nothing of the status
   brings an archived link back. *)
THEOREM ArchiveSticksWithoutRaces ==
  ASSUME \A p, q \in Procs : p = q
  PROVE  LinksSafety => ArchiveSticks
<1>1. LinksInit => StatusFresh
  BY DEF LinksInit, StatusFresh, Idle
<1>2. LinksTypeOK /\ StatusFresh /\ [LinksNext]_linkVars => StatusFresh'
  BY AloneKeepsFresh
<1> DEFINE Sticks ==
      \A o \in Orgs, i \in Ids :
        (Stored(o, i) /\ table[o][i].status = "archived"
           /\ Stored(o, i)' /\ table'[o][i].status # "archived")
        => \E p \in Procs : /\ job[p].kind = "update"
                            /\ job[p].id = i
                            /\ job[p].asked.status # Unset
                            /\ job'[p] = Idle
<1>3. ASSUME LinksTypeOK, StatusFresh, LinksNext
      PROVE  Sticks
  <2> SUFFICES ASSUME NEW o \in Orgs, NEW i \in Ids,
                      Stored(o, i), table[o][i].status = "archived",
                      Stored(o, i)', table'[o][i].status # "archived"
               PROVE  \E p \in Procs : /\ job[p].kind = "update" /\ job[p].id = i
                                       /\ job[p].asked.status # Unset /\ job'[p] = Idle
    OBVIOUS
  <2>1. PICK p \in Procs : /\ \A q \in Procs : q = p
                           /\ \/ table' = table
                              \/ WriteUpdate(p)
                              \/ \E k \in Ids : InsertLink(p, k)
                              \/ \E q \in Orgs, k \in Ids : ArchiveLink(p, q, k)
    <3>1. table' # table
      OBVIOUS
    <3>2. \E p \in Procs : TRUE
      BY <1>3, <3>1 DEF LinksNext, RequestStep, Crash
    <3> QED BY <1>3, <3>2, AloneStep
  <2>2. table \in Tables
    BY <1>3 DEF LinksTypeOK
  <2>3. CASE WriteUpdate(p)
    <3>1. /\ job[p] \in UpdateJob /\ job'[p] = Idle /\ job[p].kind = "update"
      BY <1>3, <2>3, JobKinds DEF WriteUpdate, LinksTypeOK
    <3>2. PICK j \in UpdateJob : j = job[p]
      BY <3>1
    <3>3. j.org \in Orgs /\ j.id \in Ids
      BY DEF UpdateJob
    <3>4. o = j.org /\ i = j.id /\ table'[o][i].status = j.status
      <4>1. ~(o = j.org /\ i = j.id) => table'[o][i] = table[o][i]
        BY <2>2, <2>3, <3>2, <3>3 DEF WriteUpdate, Tables
      <4>2. (o = j.org /\ i = j.id) => table'[o][i].status = j.status
        BY <2>2, <2>3, <3>2, <3>3 DEF WriteUpdate, Tables, Stored, Row
      <4> QED BY <4>1, <4>2
    <3>5. j.asked.status # Unset
      BY <1>3, <3>1, <3>2, <3>4 DEF StatusFresh
    <3> QED BY <3>1, <3>2, <3>4, <3>5
  <2>4. ASSUME NEW k \in Ids, InsertLink(p, k) PROVE FALSE
    BY <2>2, <2>4 DEF InsertLink, Tables, Stored
  <2>5. ASSUME NEW q \in Orgs, NEW k \in Ids, ArchiveLink(p, q, k) PROVE FALSE
    BY <2>2, <2>5 DEF ArchiveLink, Tables, Stored, Row
  <2> QED BY <2>1, <2>3, <2>4, <2>5
<1>4. LinksTypeOK /\ StatusFresh /\ [LinksNext]_linkVars => [Sticks]_linkVars
  BY <1>3
<1> HIDE DEF Sticks
<1>5. LinksSafety => [][Sticks]_linkVars
  BY <1>1, <1>2, <1>4, TypeCorrect, PTL DEF LinksSafety
<1> QED BY <1>5 DEF Sticks, ArchiveSticks

-----------------------------------------------------------------------------
(* The redirect. *)

RedirectTypes ==
  /\ cache \in [Orgs \X Codes -> Entry \cup {NoEntry}]
  /\ visit \in [Visitors -> Visit]
  /\ now \in Times
  /\ log \in [Ids -> ClickLog]
  /\ visits \in 0 .. MaxVisits
  /\ replaced \subseteq [link : Link, at : Times]

(* The click log l agrees with n clicks counted in click_count. *)
Balanced(l, n) ==
  /\ l.served = l.rows + l.lostRows + l.inserting
  /\ l.served = n + l.lostCounts + l.counting + l.inserting

Counted(o, i) == table[o][i].clicks - FirstCount(o, i)

(* ClicksAccounted alone is not inductive: a new row must find its click log
   empty and no earlier count to its id. *)
Accounts ==
  /\ \A o \in Orgs, i \in Ids : Stored(o, i) => Balanced(log[i], Counted(o, i))
  /\ \A o \in Orgs, i \in Ids : InitTable[o][i] # NoRow => Stored(o, i)
  /\ \A i \in Ids : (\A o \in Orgs : ~Stored(o, i)) => log[i] = NoClicks

RInv == IInv /\ RedirectTypes /\ TenantIsolation /\ Accounts

(* A step of the redirect itself: no statement of an API request. *)
VisitStep ==
  \/ \E v \in Visitors : Serve(v)
  \/ \E i \in Ids : InsertClick(i) \/ CountFails(i)
  \/ Tick

(* No link is removed or given another code. *)
KeepsLinks ==
  \A o \in Orgs, i \in Ids :
    Stored(o, i) => Stored(o, i)' /\ table'[o][i].code = table[o][i].code

-----------------------------------------------------------------------------
(* The steps of the redirect that are not LogClick's UPDATE leave the API's
   state alone. *)
LEMMA VisitStepsKeepLinks ==
  ASSUME VisitStep
  PROVE  UNCHANGED linkVars
BY DEF VisitStep, Serve, Arrive, CacheGet, CacheEvict, QueryLink, QueryFails,
       CacheSet, RefuseInactive, AnswerRedirect, AnswerUnlogged, InsertClick,
       CountFails, Tick, linkVars

(* LogClick's UPDATE touches one count. *)
LEMMA CountTypes ==
  ASSUME IInv, RedirectTypes, NEW o \in Orgs, NEW i \in Ids, CountClick(o, i)
  PROVE  /\ LinksTypeOK' /\ KeepsCodes
         /\ \A q \in Orgs, m \in Ids : Stored(q, m) =>
              table'[q][m].clicks = IF q = o /\ m = i THEN table[o][i].clicks + 1
                                                      ELSE table[q][m].clicks
<1> DEFINE old == table[o][i]
           new == [old EXCEPT !.clicks = @ + 1]
<1>1. old \in Row
  BY DEF CountClick, IInv, LinksTypeOK, Tables, Stored
<1>2. new \in Row /\ new.code = old.code /\ new.clicks = old.clicks + 1
  BY <1>1 DEF Row
<1>3. table' = [table EXCEPT ![o][i] = new]
  BY DEF CountClick, IInv, LinksTypeOK, Tables
<1>4. new # NoRow /\ old # NoRow
  BY <1>1, <1>2, LinkConstants
<1>5. UNCHANGED <<job, requests>>
  BY DEF CountClick
<1> HIDE DEF new
<1>6. \A q \in Orgs, m \in Ids :
        table'[q][m] = IF q = o /\ m = i THEN new ELSE table[q][m]
  BY <1>3 DEF IInv, LinksTypeOK, Tables
<1>7. table' \in Tables
  BY <1>2, <1>3 DEF IInv, LinksTypeOK, Tables
<1>8. LinksTypeOK'
  BY <1>5, <1>7 DEF IInv, LinksTypeOK
<1>9. KeepsCodes
  BY <1>2, <1>4, <1>6 DEF KeepsCodes, Stored
<1> QED BY <1>2, <1>6, <1>8, <1>9

(* An INSERT disturbs no other row and starts to count from zero. *)
LEMMA InsertAdds ==
  ASSUME LinksTypeOK, NEW p \in Procs, NEW i \in Ids, InsertLink(p, i)
  PROVE  /\ job[p].org \in Orgs
         /\ \A q \in Orgs : ~Stored(q, i)
         /\ \A q \in Orgs, m \in Ids :
              ~(q = job[p].org /\ m = i) => table'[q][m] = table[q][m]
         /\ table'[job[p].org][i] # NoRow
         /\ table'[job[p].org][i].clicks = 0
<1> DEFINE o == job[p].org
           new == [code |-> job[p].code, dest |-> job[p].dest, status |-> "active",
                   expires |-> job[p].expires, clicks |-> 0]
<1>1. job[p] \in InsertJob
  BY JobKinds DEF InsertLink
<1>2. o \in Orgs /\ new \in Row /\ new.clicks = 0
  BY <1>1, LinkConstants DEF InsertJob, Row
<1>3. table' = [table EXCEPT ![o][i] = new] /\ \A q \in Orgs : ~Stored(q, i)
  BY DEF InsertLink
<1>4. new # NoRow
  BY <1>2, LinkConstants
<1> HIDE DEF o, new
<1>5. \A q \in Orgs, m \in Ids :
        table'[q][m] = IF q = o /\ m = i THEN new ELSE table[q][m]
  BY <1>2, <1>3 DEF LinksTypeOK, Tables
<1>6. /\ o \in Orgs
      /\ table'[o][i] # NoRow /\ table'[o][i].clicks = 0
      /\ \A q \in Orgs, m \in Ids :
           ~(q = o /\ m = i) => table'[q][m] = table[q][m]
  BY <1>2, <1>4, <1>5
<1> QED BY <1>3, <1>6 DEF o

(* Whatever the step, the table stays in order and keeps its links. *)
LEMMA LinksStay ==
  ASSUME IInv, RedirectTypes, [RedirectNext]_vars
  PROVE  IInv' /\ KeepsLinks
<1>1. ASSUME [LinksNext]_linkVars
      PROVE  IInv' /\ KeepsLinks
  <2>1. IInv'
    BY <1>1, NextKeepsIInv
  <2>2. CASE KeepsRows
    BY <2>1, <2>2 DEF KeepsRows, KeepsCodes, KeepsLinks
  <2>3. ASSUME NEW p \in Procs, NEW i \in Ids, InsertLink(p, i)
        PROVE  KeepsLinks
    BY <2>3, InsertAdds DEF KeepsLinks, IInv, Stored
  <2> QED BY <1>1, <2>1, <2>2, <2>3, StepCases
<1>2. CASE VisitStep
  BY <1>1, <1>2, VisitStepsKeepLinks
<1>3. ASSUME NEW o \in Orgs, NEW i \in Ids, CountClick(o, i)
      PROVE  IInv' /\ KeepsLinks
  BY <1>3, CountTypes, KeptCodesStayUnique DEF IInv, KeepsCodes, KeepsLinks
<1>4. CASE WriteStep
  BY <1>1, <1>4 DEF WriteStep, LinksNext
<1>5. CASE CrashServer
  BY <1>1, <1>5 DEF CrashServer, LinksNext, Crash
<1>6. CASE UNCHANGED vars
  BY <1>1, <1>6 DEF vars, linkVars
<1> QED BY <1>2, <1>3, <1>4, <1>5, <1>6 DEF RedirectNext, LogStep, VisitStep

-----------------------------------------------------------------------------
(* The fields a visit has, by its kind. *)
LEMMA VisitKinds ==
  ASSUME RedirectTypes, NEW v \in Visitors
  PROVE  /\ visit[v].kind \in {"get", "evict", "query"} => visit[v] \in LookupVisit
         /\ visit[v].kind = "set" => visit[v] \in FillVisit
         /\ visit[v].kind = "decide" => visit[v] \in FoundVisit
         /\ NoVisit \in Visit /\ NoVisit.kind = "idle"
<1>1. visit[v] \in Visit
  BY DEF RedirectTypes
<1>2. visit[v] \in LookupVisit => visit[v].kind \in {"get", "evict", "query"}
  BY DEF LookupVisit
<1>3. visit[v] \in FillVisit => visit[v].kind = "set"
  BY DEF FillVisit
<1>4. visit[v] \in FoundVisit => visit[v].kind = "decide"
  BY DEF FoundVisit
<1>5. visit[v] = NoVisit => visit[v].kind = "idle"
  BY DEF NoVisit
<1> QED BY <1>1, <1>2, <1>3, <1>4, <1>5 DEF Visit, NoVisit

(* The link of a stored row. *)
LEMMA LinkTypes ==
  ASSUME LinksTypeOK, NEW o \in Orgs, NEW i \in Ids, Stored(o, i)
  PROVE  LinkOf(o, i) \in Link /\ LinkOf(o, i).id = i
<1>1. table[o][i] \in Row
  BY DEF LinksTypeOK, Tables, Stored
<1> QED BY <1>1 DEF Row, Link, LinkOf

-----------------------------------------------------------------------------
(* The visitor v goes on to w, a visit that shows no other tenant's link. *)
LEMMA Moves ==
  ASSUME RedirectTypes, TenantIsolation, UNCHANGED table,
         NEW v \in Visitors, NEW w \in Visit, Goto(v, w),
         w.kind \in {"set", "decide"} => OwnLink(w.org, w.code, w.link)
  PROVE  /\ visit' \in [Visitors -> Visit]
         /\ \A u \in Visitors :
              visit'[u].kind \in {"set", "decide"} =>
                OwnLink(visit'[u].org, visit'[u].code, visit'[u].link)
<1>1. visit' = [visit EXCEPT ![v] = w]
  BY DEF Goto
<1>2. visit' \in [Visitors -> Visit]
  BY <1>1 DEF RedirectTypes
<1>3. \A u \in Visitors : visit'[u] = IF u = v THEN w ELSE visit[u]
  BY <1>1 DEF RedirectTypes
<1> QED BY <1>2, <1>3 DEF TenantIsolation

(* The cache, the clock and the rest of the state, for one step of a visit. *)
LEMMA VisitKeeps ==
  ASSUME RedirectTypes, TenantIsolation, UNCHANGED table,
         NEW v \in Visitors, NEW w \in Visit, Goto(v, w),
         w.kind \in {"set", "decide"} => OwnLink(w.org, w.code, w.link),
         UNCHANGED <<cache, now, replaced>>,
         log' \in [Ids -> ClickLog], visits' \in 0 .. MaxVisits
  PROVE  RedirectTypes' /\ TenantIsolation'
<1>1. /\ visit' \in [Visitors -> Visit]
      /\ \A u \in Visitors :
           visit'[u].kind \in {"set", "decide"} =>
             OwnLink(visit'[u].org, visit'[u].code, visit'[u].link)
  BY Moves
<1>2. RedirectTypes'
  BY <1>1 DEF RedirectTypes
<1>3. TenantIsolation'
  BY <1>1 DEF TenantIsolation, OwnLink, Stored
<1> QED BY <1>2, <1>3

(* LinkCache.Get, its Delete, and the query behind it. *)
LEMMA LookupKeeps ==
  ASSUME IInv, RedirectTypes, TenantIsolation, NEW v \in Visitors,
         \/ CacheGet(v) \/ CacheEvict(v) \/ QueryFails(v)
         \/ \E i \in Ids : QueryLink(v, i)
  PROVE  RedirectTypes' /\ TenantIsolation'
<1> DEFINE w == visit[v]
           key == <<w.org, w.code>>
           e == cache[key]
<1> USE VisitKinds
<1>1. CASE CacheGet(v)
  <2>1. w \in LookupVisit
    BY <1>1 DEF CacheGet
  <2>2. w.org \in Orgs /\ w.code \in Codes
    BY <2>1 DEF LookupVisit
  <2>3. e \in Entry \cup {NoEntry}
    BY <2>2 DEF RedirectTypes
  <2>4. UNCHANGED <<table, cache, now, log, visits, replaced>>
    BY <1>1 DEF CacheGet
  <2>5. \A k \in {"query", "evict"} :
          [w EXCEPT !.kind = k] \in Visit /\ [w EXCEPT !.kind = k].kind = k
    BY <2>1 DEF LookupVisit, Visit
  <2>6. CASE e # NoEntry /\ Goto(v, FoundInCache(w, e))
    <3>1. e \in Entry
      BY <2>3, <2>6
    <3>2. FoundInCache(w, e) \in Visit
      BY <2>2, <3>1 DEF FoundInCache, Visit, FoundVisit, Entry, RedirectTypes
    <3>3. OwnLink(w.org, w.code, e.link)
      BY <2>2, <2>6 DEF TenantIsolation
    <3>4. /\ FoundInCache(w, e).org = w.org
          /\ FoundInCache(w, e).code = w.code
          /\ FoundInCache(w, e).link = e.link
      BY DEF FoundInCache
    <3>5. log' \in [Ids -> ClickLog] /\ visits' \in 0 .. MaxVisits
      BY <2>4 DEF RedirectTypes
    <3> HIDE DEF w, e
    <3> QED BY <2>4, <2>6, <3>2, <3>3, <3>4, <3>5, VisitKeeps
  <2>7. ASSUME NEW k \in {"query", "evict"}, Goto(v, [w EXCEPT !.kind = k])
        PROVE  RedirectTypes' /\ TenantIsolation'
    <3>1. log' \in [Ids -> ClickLog] /\ visits' \in 0 .. MaxVisits
      BY <2>4 DEF RedirectTypes
    <3> QED BY <2>4, <2>5, <2>7, <3>1, VisitKeeps
  <2> QED BY <1>1, <2>6, <2>7 DEF CacheGet, CacheKey
<1>2. CASE CacheEvict(v)
  <2>1. w \in LookupVisit
    BY <1>2 DEF CacheEvict
  <2> DEFINE q == [w EXCEPT !.kind = "query"]
  <2>2. q \in Visit /\ q.kind = "query"
    BY <2>1 DEF LookupVisit, Visit
  <2>3. /\ UNCHANGED <<table, now, log, visits, replaced>> /\ Goto(v, q)
        /\ cache' = [cache EXCEPT ![key] = NoEntry]
    BY <1>2 DEF CacheEvict, CacheKey
  <2> HIDE DEF q
  <2>4. /\ visit' \in [Visitors -> Visit]
        /\ \A u \in Visitors :
             visit'[u].kind \in {"set", "decide"} =>
               OwnLink(visit'[u].org, visit'[u].code, visit'[u].link)
    BY <2>2, <2>3, Moves
  <2>5. \A k \in Orgs \X Codes : cache'[k] = NoEntry \/ cache'[k] = cache[k]
    BY <2>3 DEF RedirectTypes
  <2>6. RedirectTypes'
    BY <2>3, <2>4 DEF RedirectTypes
  <2>7. TenantIsolation'
    BY <2>3, <2>4, <2>5 DEF TenantIsolation, OwnLink, Stored
  <2> QED BY <2>6, <2>7
<1>3. CASE QueryFails(v)
  <2>1. /\ UNCHANGED <<table, cache, now, log, visits, replaced>>
        /\ Goto(v, NoVisit)
    BY <1>3 DEF QueryFails
  <2> QED BY <2>1, VisitKeeps DEF RedirectTypes
<1>4. ASSUME NEW i \in Ids, QueryLink(v, i)
      PROVE  RedirectTypes' /\ TenantIsolation'
  <2>1. w \in LookupVisit
    BY <1>4 DEF QueryLink
  <2>2. w.org \in Orgs /\ w.code \in Codes
    BY <2>1 DEF LookupVisit
  <2> DEFINE f == [kind |-> "set", org |-> w.org, code |-> w.code,
                   link |-> LinkOf(w.org, i), readAt |-> now]
  <2>3. /\ UNCHANGED <<table, cache, now, log, visits, replaced>> /\ Goto(v, f)
        /\ Stored(w.org, i) /\ table[w.org][i].code = w.code
    BY <1>4 DEF QueryLink
  <2>4. LinkOf(w.org, i) \in Link /\ LinkOf(w.org, i).id = i
    BY <2>2, <2>3, LinkTypes DEF IInv
  <2>5. f \in Visit
    BY <2>2, <2>4 DEF Visit, FillVisit, RedirectTypes
  <2>6. OwnLink(f.org, f.code, f.link)
    BY <2>3, <2>4 DEF OwnLink
  <2>7. log' \in [Ids -> ClickLog] /\ visits' \in 0 .. MaxVisits
    BY <2>3 DEF RedirectTypes
  <2> HIDE DEF f
  <2> QED BY <2>3, <2>5, <2>6, <2>7, VisitKeeps
<1> QED BY <1>1, <1>2, <1>3, <1>4

(* Changing the counts of one click log keeps the logs well-formed. *)
LEMMA SetLog ==
  ASSUME RedirectTypes, NEW i \in Ids, NEW l \in ClickLog,
         log' = [log EXCEPT ![i] = l]
  PROVE  log' \in [Ids -> ClickLog]
BY DEF RedirectTypes

(* A log that a step turns l into without a click lost track of. *)
Moved(l, k) == k \in ClickLog /\ \A n \in Int : Balanced(l, n) => Balanced(k, n)

(* A redirect answered, with a goroutine started for it or without. *)
LEMMA ServedMoves ==
  ASSUME NEW l \in ClickLog
  PROVE  /\ Moved(l, [l EXCEPT !.served = @ + 1, !.inserting = @ + 1])
         /\ Moved(l, [l EXCEPT !.served = @ + 1, !.lostRows = @ + 1,
                               !.lostCounts = @ + 1])
<1>1. l.served + 1 \in Nat /\ l.inserting + 1 \in Nat
      /\ l.lostRows + 1 \in Nat /\ l.lostCounts + 1 \in Nat
  BY DEF ClickLog
<1> DEFINE k == [l EXCEPT !.served = @ + 1, !.inserting = @ + 1]
           m == [l EXCEPT !.served = @ + 1, !.lostRows = @ + 1,
                          !.lostCounts = @ + 1]
<1>2. k \in ClickLog /\ m \in ClickLog
  BY <1>1 DEF ClickLog
<1>3. \A n \in Int : Balanced(l, n) => Balanced(k, n)
  BY DEF ClickLog, Balanced
<1>4. \A n \in Int : Balanced(l, n) => Balanced(m, n)
  BY DEF ClickLog, Balanced
<1> QED BY <1>2, <1>3, <1>4 DEF Moved

(* The INSERT of a click, whether it fails or not. *)
LEMMA InsertedMoves ==
  ASSUME NEW l \in ClickLog, l.inserting > 0, NEW failed \in BOOLEAN
  PROVE  Moved(l, [l EXCEPT !.inserting = @ - 1, !.counting = @ + 1,
                            !.rows = IF failed THEN @ ELSE @ + 1,
                            !.lostRows = IF failed THEN @ + 1 ELSE @])
<1>1. l.inserting - 1 \in Nat /\ l.counting + 1 \in Nat
      /\ l.rows + 1 \in Nat /\ l.lostRows + 1 \in Nat
  BY DEF ClickLog
<1> DEFINE k == [l EXCEPT !.inserting = @ - 1, !.counting = @ + 1,
                          !.rows = IF failed THEN @ ELSE @ + 1,
                          !.lostRows = IF failed THEN @ + 1 ELSE @]
<1>2. k \in ClickLog
  BY <1>1 DEF ClickLog
<1>3. /\ k.served = l.served /\ k.lostCounts = l.lostCounts
      /\ k.inserting = l.inserting - 1 /\ k.counting = l.counting + 1
      /\ k.rows + k.lostRows = l.rows + l.lostRows + 1
  BY DEF ClickLog
<1>4. \A n \in Int : Balanced(l, n) => Balanced(k, n)
  <2> HIDE DEF k
  <2> QED BY <1>2, <1>3 DEF ClickLog, Balanced
<1> QED BY <1>2, <1>4 DEF Moved

(* The UPDATE of click_count, done or failed. *)
LEMMA CountedMoves ==
  ASSUME NEW l \in ClickLog, l.counting > 0
  PROVE  /\ Moved(l, [l EXCEPT !.counting = @ - 1, !.lostCounts = @ + 1])
         /\ [l EXCEPT !.counting = @ - 1] \in ClickLog
         /\ \A n \in Int : Balanced(l, n) =>
                             Balanced([l EXCEPT !.counting = @ - 1], n + 1)
<1>1. l.counting - 1 \in Nat /\ l.lostCounts + 1 \in Nat
  BY DEF ClickLog
<1> DEFINE k == [l EXCEPT !.counting = @ - 1, !.lostCounts = @ + 1]
           m == [l EXCEPT !.counting = @ - 1]
<1>2. k \in ClickLog /\ m \in ClickLog
  BY <1>1 DEF ClickLog
<1>3. \A n \in Int : Balanced(l, n) => Balanced(k, n)
  BY DEF ClickLog, Balanced
<1>4. \A n \in Int : Balanced(l, n) => Balanced(m, n + 1)
  BY DEF ClickLog, Balanced
<1> QED BY <1>2, <1>3, <1>4 DEF Moved

(* A crash turns what the goroutines had still to do into losses. *)
LEMMA LostMoves ==
  ASSUME NEW l \in ClickLog
  PROVE  Moved(l, [l EXCEPT !.lostRows = @ + l.inserting,
                            !.lostCounts = @ + l.inserting + l.counting,
                            !.inserting = 0, !.counting = 0])
<1>1. l.lostRows + l.inserting \in Nat
      /\ l.lostCounts + l.inserting + l.counting \in Nat
  BY DEF ClickLog
<1> DEFINE k == [l EXCEPT !.lostRows = @ + l.inserting,
                          !.lostCounts = @ + l.inserting + l.counting,
                          !.inserting = 0, !.counting = 0]
<1>2. k \in ClickLog
  BY <1>1 DEF ClickLog
<1>3. /\ k.served = l.served /\ k.rows = l.rows
      /\ k.lostRows = l.lostRows + l.inserting
      /\ k.lostCounts = l.lostCounts + l.inserting + l.counting
      /\ k.inserting = 0 /\ k.counting = 0
  BY DEF ClickLog
<1>4. \A n \in Int : Balanced(l, n) => Balanced(k, n)
  <2> HIDE DEF k
  <2> QED BY <1>2, <1>3 DEF ClickLog, Balanced
<1> QED BY <1>2, <1>4 DEF Moved

(* What an answered visit does to the log of its link. *)
LEMMA AnswerLogs ==
  ASSUME RedirectTypes, NEW v \in Visitors, AnswerRedirect(v) \/ AnswerUnlogged(v)
  PROVE  /\ visit[v] \in FoundVisit /\ visit[v].link.id \in Ids
         /\ \E k : /\ Moved(log[visit[v].link.id], k)
                   /\ log' = [log EXCEPT ![visit[v].link.id] = k]
<1> DEFINE i == visit[v].link.id
           l == log[i]
<1>1. visit[v] \in FoundVisit
  BY VisitKinds DEF AnswerRedirect, AnswerUnlogged
<1>2. i \in Ids
  BY <1>1 DEF FoundVisit, Link
<1>3. l \in ClickLog
  BY <1>2 DEF RedirectTypes
<1>4. \/ log' = [log EXCEPT ![i].served = @ + 1, ![i].inserting = @ + 1]
      \/ log' = [log EXCEPT ![i].served = @ + 1, ![i].lostRows = @ + 1,
                            ![i].lostCounts = @ + 1]
  BY DEF AnswerRedirect, AnswerUnlogged
<1> HIDE DEF i
<1>5. \E k : Moved(l, k) /\ log' = [log EXCEPT ![i] = k]
  <2>1. CASE log' = [log EXCEPT ![i].served = @ + 1, ![i].inserting = @ + 1]
    <3>1. log' = [log EXCEPT ![i] = [l EXCEPT !.served = @ + 1, !.inserting = @ + 1]]
      BY <1>2, <2>1 DEF RedirectTypes
    <3> QED BY <1>3, <3>1, ServedMoves
  <2>2. CASE log' = [log EXCEPT ![i].served = @ + 1, ![i].lostRows = @ + 1,
                                ![i].lostCounts = @ + 1]
    <3>1. log' = [log EXCEPT ![i] = [l EXCEPT !.served = @ + 1,
                                       !.lostRows = @ + 1, !.lostCounts = @ + 1]]
      BY <1>2, <2>2 DEF RedirectTypes
    <3> QED BY <1>3, <3>1, ServedMoves
  <2> QED BY <1>4, <2>1, <2>2
<1> QED BY <1>1, <1>2, <1>5 DEF i

(* An empty log is well-formed. *)
LEMMA LogTypes == NoClicks \in ClickLog
BY DEF NoClicks, ClickLog

(* The arrival of a visit, LinkCache.Set, and the answer. *)
LEMMA AnswerKeeps ==
  ASSUME RedirectTypes, TenantIsolation, NEW v \in Visitors,
         \/ \E o \in Orgs, c \in Codes : Arrive(v, o, c)
         \/ CacheSet(v) \/ RefuseInactive(v)
         \/ AnswerRedirect(v) \/ AnswerUnlogged(v)
  PROVE  RedirectTypes' /\ TenantIsolation'
<1> DEFINE w == visit[v]
<1> USE VisitKinds
<1>1. ASSUME NEW o \in Orgs, NEW c \in Codes, Arrive(v, o, c)
      PROVE  RedirectTypes' /\ TenantIsolation'
  <2> DEFINE g == [kind |-> "get", org |-> o, code |-> c]
  <2>1. /\ UNCHANGED <<table, cache, now, log, replaced>> /\ Goto(v, g)
        /\ visits < MaxVisits /\ visits' = visits + 1
    BY <1>1 DEF Arrive
  <2>2. g \in Visit /\ g.kind = "get"
    BY DEF Visit, LookupVisit
  <2>3. log' \in [Ids -> ClickLog] /\ visits' \in 0 .. MaxVisits
    BY <2>1, RedirectConstants DEF RedirectTypes
  <2> HIDE DEF g
  <2> QED BY <2>1, <2>2, <2>3, VisitKeeps
<1>2. CASE CacheSet(v)
  <2>1. w \in FillVisit
    BY <1>2 DEF CacheSet
  <2>2. /\ w.org \in Orgs /\ w.code \in Codes /\ w.link \in Link
        /\ w.readAt \in Times /\ OwnLink(w.org, w.code, w.link)
    BY <2>1 DEF FillVisit, TenantIsolation
  <2> DEFINE k == <<w.org, w.code>>
             e == [link |-> w.link, cachedAt |-> now, readAt |-> w.readAt]
             d == [kind |-> "decide", org |-> w.org, code |-> w.code,
                   link |-> w.link, hit |-> FALSE, readAt |-> w.readAt,
                   cachedAt |-> now, foundAt |-> w.readAt]
  <2>3. /\ UNCHANGED <<table, now, log, visits, replaced>> /\ Goto(v, d)
        /\ cache' = [cache EXCEPT ![k] = e]
    BY <1>2 DEF CacheSet, CacheKey
  <2>4. e \in Entry /\ e.link = w.link
    BY <2>2 DEF Entry, RedirectTypes
  <2>5. d \in Visit
    BY <2>2 DEF Visit, FoundVisit, RedirectTypes
  <2>6. OwnLink(d.org, d.code, d.link)
    BY <2>2
  <2> HIDE DEF e, d
  <2>7. /\ visit' \in [Visitors -> Visit]
        /\ \A u \in Visitors :
             visit'[u].kind \in {"set", "decide"} =>
               OwnLink(visit'[u].org, visit'[u].code, visit'[u].link)
    BY <2>3, <2>5, <2>6, Moves
  <2>8. RedirectTypes'
    BY <2>3, <2>4, <2>7 DEF RedirectTypes
  <2>9. \A o \in Orgs, c \in Codes :
          cache'[<<o, c>>] # NoEntry => OwnLink(o, c, cache'[<<o, c>>].link)
    <3> SUFFICES ASSUME NEW o \in Orgs, NEW c \in Codes, cache'[<<o, c>>] # NoEntry
                 PROVE  OwnLink(o, c, cache'[<<o, c>>].link)
      OBVIOUS
    <3>1. CASE o = w.org /\ c = w.code
      BY <2>2, <2>3, <2>4, <3>1 DEF RedirectTypes
    <3>2. CASE ~(o = w.org /\ c = w.code)
      <4>1. cache'[<<o, c>>] = cache[<<o, c>>]
        BY <2>3, <3>2 DEF RedirectTypes
      <4> QED BY <4>1 DEF TenantIsolation
    <3> QED BY <3>1, <3>2
  <2>10. TenantIsolation'
    BY <2>3, <2>7, <2>9 DEF TenantIsolation, OwnLink, Stored
  <2> QED BY <2>8, <2>10
<1>3. ASSUME NoVisit.kind = "idle", UNCHANGED <<table, cache, now, replaced, visits>>,
             Goto(v, NoVisit), log' \in [Ids -> ClickLog]
      PROVE  RedirectTypes' /\ TenantIsolation'
  BY <1>3, VisitKeeps DEF RedirectTypes
<1>4. CASE RefuseInactive(v)
  BY <1>3, <1>4 DEF RefuseInactive, RedirectTypes
<1>5. CASE AnswerRedirect(v) \/ AnswerUnlogged(v)
  <2>1. log' \in [Ids -> ClickLog]
    BY <1>5, AnswerLogs, SetLog DEF Moved
  <2> QED BY <1>3, <1>5, <2>1 DEF AnswerRedirect, AnswerUnlogged
<1> QED BY <1>1, <1>2, <1>4, <1>5

-----------------------------------------------------------------------------
(* A link that is kept is still its own tenant's. *)
LEMMA KeptLinksStayOwn ==
  ASSUME RedirectTypes, TenantIsolation, KeepsLinks, UNCHANGED <<cache, visit>>
  PROVE  TenantIsolation'
<1>1. \A o \in Orgs, c \in Codes, l \in Link :
        OwnLink(o, c, l) => table'[o][l.id] # NoRow /\ table'[o][l.id].code = c
  BY DEF OwnLink, KeepsLinks, Stored, Link
<1>2. ASSUME NEW o \in Orgs, NEW c \in Codes, cache[<<o, c>>] # NoEntry
      PROVE  OwnLink(o, c, cache[<<o, c>>].link)'
  <2>1. cache[<<o, c>>] \in Entry
    BY <1>2 DEF RedirectTypes
  <2>2. cache[<<o, c>>].link \in Link
    BY <2>1 DEF Entry
  <2> QED BY <1>1, <1>2, <2>2 DEF TenantIsolation, OwnLink, Stored
<1>3. ASSUME NEW v \in Visitors, visit[v].kind \in {"set", "decide"}
      PROVE  OwnLink(visit[v].org, visit[v].code, visit[v].link)'
  <2>1. visit[v] \in FillVisit \cup FoundVisit
    BY <1>3, VisitKinds
  <2>2. /\ visit[v].org \in Orgs /\ visit[v].code \in Codes
        /\ visit[v].link \in Link
    BY <2>1 DEF FillVisit, FoundVisit
  <2> QED BY <1>1, <1>3, <2>2 DEF TenantIsolation, OwnLink, Stored
<1> QED BY <1>2, <1>3 DEF TenantIsolation

(* The LogClick goroutines, but for the UPDATE that succeeds. *)
LEMMA LogMovesOn ==
  ASSUME RedirectTypes, NEW i \in Ids, InsertClick(i) \/ CountFails(i)
  PROVE  /\ log[i] # NoClicks
         /\ \E k : Moved(log[i], k) /\ log' = [log EXCEPT ![i] = k]
<1> DEFINE l == log[i]
<1>1. l \in ClickLog
  BY DEF RedirectTypes
<1>2. l # NoClicks
  <2>1. l.inserting > 0 \/ l.counting > 0
    BY DEF InsertClick, CountFails
  <2>2. NoClicks.inserting = 0 /\ NoClicks.counting = 0
    BY DEF NoClicks
  <2> QED BY <2>1, <2>2
<1>3. CASE InsertClick(i)
  <2>1. PICK failed \in BOOLEAN :
          log' = [log EXCEPT ![i].inserting = @ - 1, ![i].counting = @ + 1,
                             ![i].rows = IF failed THEN @ ELSE @ + 1,
                             ![i].lostRows = IF failed THEN @ + 1 ELSE @]
    BY <1>3 DEF InsertClick
  <2>2. log' = [log EXCEPT ![i] =
                 [l EXCEPT !.inserting = @ - 1, !.counting = @ + 1,
                           !.rows = IF failed THEN @ ELSE @ + 1,
                           !.lostRows = IF failed THEN @ + 1 ELSE @]]
    BY <2>1 DEF RedirectTypes
  <2> QED BY <1>1, <1>2, <1>3, <2>2, InsertedMoves DEF InsertClick
<1>4. CASE CountFails(i)
  <2>1. log' = [log EXCEPT ![i] = [l EXCEPT !.counting = @ - 1,
                                            !.lostCounts = @ + 1]]
    BY <1>4 DEF CountFails, RedirectTypes
  <2> QED BY <1>1, <1>2, <1>4, <2>1, CountedMoves DEF CountFails
<1> QED BY <1>3, <1>4

(* UPDATE links SET click_count = click_count + 1. *)
LEMMA CountLogs ==
  ASSUME RedirectTypes, NEW o \in Orgs, NEW i \in Ids, CountClick(o, i)
  PROVE  /\ log' \in [Ids -> ClickLog]
         /\ \A m \in Ids : m # i => log'[m] = log[m]
         /\ \A n \in Int : Balanced(log[i], n) => Balanced(log'[i], n + 1)
<1> DEFINE k == [log[i] EXCEPT !.counting = @ - 1]
<1>1. log[i] \in ClickLog /\ log[i].counting > 0
  BY DEF RedirectTypes, CountClick
<1>2. log' = [log EXCEPT ![i] = k]
  BY DEF RedirectTypes, CountClick
<1>3. k \in ClickLog
  BY <1>1, CountedMoves
<1>4. \A n \in Int : Balanced(log[i], n) => Balanced(k, n + 1)
  BY <1>1, CountedMoves
<1> HIDE DEF k
<1>5. log' \in [Ids -> ClickLog]
  BY <1>2, <1>3, SetLog
<1>6. log'[i] = k /\ \A m \in Ids : m # i => log'[m] = log[m]
  BY <1>2 DEF RedirectTypes
<1> QED BY <1>4, <1>5, <1>6

(* The crash of the server. *)
LEMMA CrashLogs ==
  ASSUME RedirectTypes, CrashServer
  PROVE  /\ log' \in [Ids -> ClickLog]
         /\ \A i \in Ids : Moved(log[i], log'[i])
         /\ \A i \in Ids : log[i] = NoClicks => log'[i] = NoClicks
<1> DEFINE lost(l) == [l EXCEPT !.lostRows = @ + l.inserting,
                                !.lostCounts = @ + l.inserting + l.counting,
                                !.inserting = 0, !.counting = 0]
<1>1. log' = [i \in Ids |-> lost(log[i])]
  BY DEF CrashServer
<1>2. \A i \in Ids : Moved(log[i], lost(log[i]))
  BY LostMoves DEF RedirectTypes
<1>3. lost(NoClicks) = NoClicks
  <2> DEFINE n == NoClicks
             k == lost(n)
  <2>1. n \in ClickLog
    BY DEF NoClicks, ClickLog
  <2>2. k \in ClickLog
    BY <2>1, LostMoves DEF Moved
  <2>3. /\ n.served = 0 /\ n.inserting = 0 /\ n.counting = 0
        /\ n.rows = 0 /\ n.lostRows = 0 /\ n.lostCounts = 0
    BY DEF NoClicks
  <2>4. /\ k.served = 0 /\ k.inserting = 0 /\ k.counting = 0
        /\ k.rows = 0 /\ k.lostRows = 0 /\ k.lostCounts = 0
    BY <2>1, <2>3 DEF ClickLog
  <2> HIDE DEF n, k
  <2>5. k = n
    BY <2>1, <2>2, <2>3, <2>4 DEF ClickLog
  <2> QED BY <2>5 DEF n, k
<1> HIDE DEF lost
<1> QED BY <1>1, <1>2, <1>3 DEF Moved

-----------------------------------------------------------------------------
(* A step of an API request leaves the redirect's state alone, but for the
   history of the contents it replaces. *)
LEMMA WriteTypes ==
  ASSUME IInv, RedirectTypes, WriteStep
  PROVE  RedirectTypes'
<1> DEFINE old == {x \in Orgs \X Ids :
                     /\ Stored(x[1], x[2]) /\ Stored(x[1], x[2])'
                     /\ LinkOf(x[1], x[2]) # LinkOf(x[1], x[2])'}
<1>1. /\ UNCHANGED <<cache, visit, now, log, visits>>
      /\ replaced' = replaced \cup
           {[link |-> LinkOf(k[1], k[2]), at |-> now] : k \in old}
  BY DEF WriteStep
<1>2. \A k \in old : LinkOf(k[1], k[2]) \in Link
  BY LinkTypes DEF IInv
<1> HIDE DEF old
<1>3. replaced' \subseteq [link : Link, at : Times]
  BY <1>1, <1>2 DEF RedirectTypes
<1> QED BY <1>1, <1>3 DEF RedirectTypes

(* Every step keeps the state well-formed and the tenants apart. *)
LEMMA TenantsStayApart ==
  ASSUME RInv, [RedirectNext]_vars
  PROVE  RedirectTypes' /\ TenantIsolation'
<1> USE DEF RInv
<1>1. KeepsLinks
  BY LinksStay
<1>2. ASSUME NEW v \in Visitors, Serve(v)
      PROVE  RedirectTypes' /\ TenantIsolation'
  BY <1>2, LookupKeeps, AnswerKeeps DEF Serve
<1>3. ASSUME NEW i \in Ids, InsertClick(i) \/ CountFails(i)
      PROVE  RedirectTypes' /\ TenantIsolation'
  <2>1. /\ UNCHANGED <<cache, visit, now, visits, replaced>>
        /\ log' \in [Ids -> ClickLog]
    BY <1>3, LogMovesOn, SetLog DEF Moved, InsertClick, CountFails
  <2> QED BY <1>1, <2>1, KeptLinksStayOwn DEF RedirectTypes
<1>4. ASSUME NEW o \in Orgs, NEW i \in Ids, CountClick(o, i)
      PROVE  RedirectTypes' /\ TenantIsolation'
  <2>1. /\ UNCHANGED <<cache, visit, now, visits, replaced>>
        /\ log' \in [Ids -> ClickLog]
    BY <1>4, CountLogs DEF CountClick
  <2> QED BY <1>1, <2>1, KeptLinksStayOwn DEF RedirectTypes
<1>5. CASE WriteStep
  BY <1>1, <1>5, WriteTypes, KeptLinksStayOwn DEF WriteStep
<1>6. CASE Tick
  <2>1. /\ UNCHANGED <<cache, visit, log, visits, replaced>>
        /\ now' \in Times
    BY <1>6, RedirectConstants DEF Tick, RedirectTypes, Times
  <2> QED BY <1>1, <2>1, KeptLinksStayOwn DEF RedirectTypes
<1>7. CASE CrashServer
  <2>1. /\ UNCHANGED <<table, now, visits, replaced>>
        /\ cache' = [k \in Orgs \X Codes |-> NoEntry]
        /\ visit' = [v \in Visitors |-> NoVisit]
        /\ log' \in [Ids -> ClickLog]
    BY <1>7, CrashLogs DEF CrashServer
  <2>2. NoVisit \in Visit /\ NoVisit.kind = "idle"
    BY DEF Visit, NoVisit
  <2>3. RedirectTypes'
    BY <2>1, <2>2 DEF RedirectTypes
  <2>4. TenantIsolation'
    BY <2>1, <2>2 DEF TenantIsolation
  <2> QED BY <2>3, <2>4
<1>8. CASE UNCHANGED vars
  BY <1>1, <1>8, KeptLinksStayOwn DEF vars, RedirectTypes
<1> QED BY <1>2, <1>3, <1>4, <1>5, <1>6, <1>7, <1>8 DEF RedirectNext, LogStep

-----------------------------------------------------------------------------
(* What has been counted for a link is a number. *)
LEMMA CountedInt ==
  ASSUME LinksTypeOK, NEW o \in Orgs, NEW i \in Ids
  PROVE  /\ FirstCount(o, i) \in Nat
         /\ Stored(o, i) => table[o][i] \in Row /\ Counted(o, i) \in Int
<1>1. InitTable[o][i] \in Row \cup {NoRow}
  BY LinkConstants DEF Tables
<1>2. FirstCount(o, i) \in Nat
  BY <1>1 DEF FirstCount, Row
<1>3. Stored(o, i) => table[o][i] \in Row
  BY DEF LinksTypeOK, Tables, Stored
<1> QED BY <1>2, <1>3 DEF Counted, Row

(* A step that counts nothing and moves clicks only within the logs of links
   that are stored keeps the accounts. *)
LEMMA MovedKeeps ==
  ASSUME LinksTypeOK, Accounts, KeepsRows,
         \A i \in Ids : log'[i] = log[i] \/ Moved(log[i], log'[i]),
         \A i \in Ids : log[i] = NoClicks =>
            log'[i] = NoClicks \/ \E o \in Orgs : Stored(o, i)
  PROVE  Accounts'
<1>1. ASSUME NEW o \in Orgs, NEW i \in Ids, Stored(o, i)'
      PROVE  Balanced(log[i], Counted(o, i))'
  <2>1. Stored(o, i) /\ table'[o][i].clicks = table[o][i].clicks
    BY <1>1 DEF KeepsRows, KeepsCodes
  <2>2. Balanced(log[i], Counted(o, i)) /\ Counted(o, i) \in Int
    BY <2>1, CountedInt DEF Accounts
  <2>3. Balanced(log'[i], Counted(o, i))
    BY <2>2 DEF Moved
  <2> QED BY <2>1, <2>3 DEF Counted, Balanced, FirstCount
<1>2. \A o \in Orgs, i \in Ids : InitTable[o][i] # NoRow => Stored(o, i)'
  BY DEF Accounts, KeepsRows, KeepsCodes
<1>3. \A i \in Ids : (\A o \in Orgs : ~Stored(o, i)') => log'[i] = NoClicks
  BY DEF Accounts, KeepsRows, KeepsCodes
<1> QED BY <1>1, <1>2, <1>3 DEF Accounts, Stored

(* A new row starts from an empty log. *)
LEMMA NewRowsBalance ==
  ASSUME LinksTypeOK, Accounts, UNCHANGED log,
         NEW p \in Procs, NEW i \in Ids, InsertLink(p, i)
  PROVE  Accounts'
<1> DEFINE q == job[p].org
<1>1. /\ q \in Orgs /\ table'[q][i] # NoRow /\ table'[q][i].clicks = 0
      /\ \A o \in Orgs : ~Stored(o, i)
      /\ \A o \in Orgs, m \in Ids :
           ~(o = q /\ m = i) => table'[o][m] = table[o][m]
  BY InsertAdds
<1> HIDE DEF q
<1>2. log[i] = NoClicks /\ \A o \in Orgs : InitTable[o][i] = NoRow
  BY <1>1 DEF Accounts
<1>3. ASSUME NEW o \in Orgs, NEW m \in Ids, Stored(o, m)'
      PROVE  Balanced(log[m], Counted(o, m))'
  <2>1. CASE o = q /\ m = i
    <3>1. FirstCount(o, m) = 0
      BY <1>2, <2>1 DEF FirstCount
    <3>2. table'[o][m].clicks - FirstCount(o, m) = 0
      BY <1>1, <2>1, <3>1
    <3>3. Balanced(NoClicks, 0)
      BY DEF Balanced, NoClicks
    <3>4. log'[m] = NoClicks
      BY <1>2, <2>1
    <3> QED BY <3>2, <3>3, <3>4 DEF Counted, Balanced, FirstCount
  <2>2. CASE ~(o = q /\ m = i)
    <3>1. table'[o][m] = table[o][m] /\ Stored(o, m)
      BY <1>1, <1>3, <2>2 DEF Stored
    <3>2. Balanced(log[m], Counted(o, m))
      BY <3>1 DEF Accounts
    <3> QED BY <3>1, <3>2 DEF Counted, Balanced, FirstCount
  <2> QED BY <2>1, <2>2
<1>4. \A o \in Orgs, m \in Ids : InitTable[o][m] # NoRow => Stored(o, m)'
  BY <1>1 DEF Accounts, Stored
<1>5. \A m \in Ids : (\A o \in Orgs : ~Stored(o, m)') => log'[m] = NoClicks
  BY <1>1 DEF Accounts, Stored
<1> QED BY <1>3, <1>4, <1>5 DEF Accounts, Stored

(* The UPDATE moves a click from its goroutine to the count of its link, and
   the id of a link names one row only. *)
LEMMA CountBalances ==
  ASSUME IInv, RedirectTypes, Accounts,
         NEW o \in Orgs, NEW i \in Ids, CountClick(o, i)
  PROVE  Accounts'
<1>1. /\ KeepsCodes
      /\ \A q \in Orgs, m \in Ids : Stored(q, m) =>
           table'[q][m].clicks = IF q = o /\ m = i THEN table[o][i].clicks + 1
                                                   ELSE table[q][m].clicks
  BY CountTypes
<1>2. Stored(o, i)
  BY DEF CountClick
<1>3. ASSUME NEW q \in Orgs, NEW m \in Ids, Stored(q, m)'
      PROVE  Balanced(log[m], Counted(q, m))'
  <2>1. Stored(q, m)
    BY <1>1, <1>3 DEF KeepsCodes
  <2>2. /\ Balanced(log[m], Counted(q, m)) /\ Counted(q, m) \in Int
        /\ table[q][m] \in Row /\ FirstCount(q, m) \in Nat
    BY <2>1, CountedInt DEF Accounts, IInv
  <2>3. CASE m = i
    <3>1. q = o
      BY <1>2, <2>1, <2>3 DEF IInv, UniqueCodes, IdsIn, Stored
    <3>2. Balanced(log'[m], Counted(q, m) + 1)
      BY <2>2, <2>3, CountLogs
    <3>3. table'[q][m].clicks - FirstCount(q, m) = Counted(q, m) + 1
      BY <1>1, <2>1, <2>2, <2>3, <3>1 DEF Counted, Row
    <3> QED BY <3>2, <3>3 DEF Counted, Balanced, FirstCount
  <2>4. CASE m # i
    <3>1. log'[m] = log[m] /\ table'[q][m].clicks = table[q][m].clicks
      BY <1>1, <2>1, <2>4, CountLogs
    <3> QED BY <2>2, <3>1 DEF Counted, Balanced, FirstCount
  <2> QED BY <2>3, <2>4
<1>4. \A q \in Orgs, m \in Ids : InitTable[q][m] # NoRow => Stored(q, m)'
  BY <1>1 DEF Accounts, KeepsCodes
<1>5. \A m \in Ids : (\A q \in Orgs : ~Stored(q, m)') => log'[m] = NoClicks
  <2> SUFFICES ASSUME NEW m \in Ids, \A q \in Orgs : ~Stored(q, m)'
               PROVE  log'[m] = NoClicks
    OBVIOUS
  <2>1. \A q \in Orgs : ~Stored(q, m)
    BY <1>1 DEF KeepsCodes
  <2>2. m # i
    BY <1>2, <2>1
  <2> QED BY <2>1, <2>2, CountLogs DEF Accounts
<1> QED BY <1>3, <1>4, <1>5 DEF Accounts, Stored

(* Every step keeps the accounts. *)
LEMMA AccountsStay ==
  ASSUME RInv, [RedirectNext]_vars
  PROVE  Accounts'
<1> USE DEF RInv
<1>1. LinksTypeOK
  BY DEF IInv
<1>2. ASSUME UNCHANGED <<table, log>>
      PROVE  Accounts'
  BY <1>1, <1>2, MovedKeeps DEF KeepsRows, KeepsCodes, Stored
<1>3. ASSUME NEW v \in Visitors, Serve(v)
      PROVE  Accounts'
  <2>1. CASE AnswerRedirect(v) \/ AnswerUnlogged(v)
    <3> DEFINE i == visit[v].link.id
    <3>1. i \in Ids /\ visit[v] \in FoundVisit
      BY <2>1, AnswerLogs
    <3>2. PICK k : Moved(log[i], k) /\ log' = [log EXCEPT ![i] = k]
      BY <2>1, AnswerLogs
    <3>3. OwnLink(visit[v].org, visit[v].code, visit[v].link)
      BY <2>1 DEF AnswerRedirect, AnswerUnlogged, TenantIsolation
    <3>4. \E o \in Orgs : Stored(o, i)
      BY <3>1, <3>3 DEF OwnLink, FoundVisit
    <3>5. UNCHANGED table
      BY <2>1 DEF AnswerRedirect, AnswerUnlogged
    <3> HIDE DEF i
    <3>6. \A m \in Ids : log'[m] = IF m = i THEN k ELSE log[m]
      BY <3>1, <3>2 DEF RedirectTypes
    <3>7. KeepsRows
      BY <3>5 DEF KeepsRows, KeepsCodes, Stored
    <3> QED BY <1>1, <3>2, <3>4, <3>6, <3>7, MovedKeeps
  <2>2. CASE ~(AnswerRedirect(v) \/ AnswerUnlogged(v))
    <3>1. UNCHANGED <<table, log>>
      BY <1>3, <2>2 DEF Serve, Arrive, CacheGet, CacheEvict, QueryLink,
                        QueryFails, CacheSet, RefuseInactive
    <3> QED BY <1>2, <3>1
  <2> QED BY <2>1, <2>2
<1>4. ASSUME NEW i \in Ids, InsertClick(i) \/ CountFails(i)
      PROVE  Accounts'
  <2>1. PICK k : Moved(log[i], k) /\ log' = [log EXCEPT ![i] = k]
    BY <1>4, LogMovesOn
  <2>2. log[i] # NoClicks
    BY <1>4, LogMovesOn
  <2>3. \A m \in Ids : log'[m] = IF m = i THEN k ELSE log[m]
    BY <2>1 DEF RedirectTypes
  <2>4. KeepsRows
    BY <1>4 DEF InsertClick, CountFails, KeepsRows, KeepsCodes, Stored
  <2> QED BY <1>1, <2>1, <2>2, <2>3, <2>4, MovedKeeps
<1>5. ASSUME NEW o \in Orgs, NEW i \in Ids, CountClick(o, i)
      PROVE  Accounts'
  BY <1>5, CountBalances
<1>6. CASE WriteStep
  <2>1. RequestStep /\ UNCHANGED log
    BY <1>6 DEF WriteStep
  <2>2. \/ KeepsRows
        \/ \E p \in Procs, i \in Ids : InsertLink(p, i)
    BY <2>1, StepCases DEF LinksNext
  <2>3. CASE KeepsRows
    BY <1>1, <2>1, <2>3, MovedKeeps
  <2>4. ASSUME NEW p \in Procs, NEW i \in Ids, InsertLink(p, i)
        PROVE  Accounts'
    BY <1>1, <2>1, <2>4, NewRowsBalance
  <2> QED BY <2>2, <2>3, <2>4
<1>7. CASE Tick
  BY <1>2, <1>7 DEF Tick
<1>8. CASE CrashServer
  <2>1. KeepsRows
    BY <1>8 DEF CrashServer, KeepsRows, KeepsCodes, Stored
  <2> QED BY <1>1, <1>8, <2>1, CrashLogs, MovedKeeps
<1>9. CASE UNCHANGED vars
  BY <1>2, <1>9 DEF vars
<1> QED BY <1>3, <1>4, <1>5, <1>6, <1>7, <1>8, <1>9 DEF RedirectNext, LogStep

-----------------------------------------------------------------------------
(* A server starts with an empty cache and nothing to account for. *)
LEMMA InitRInv == RedirectInit => RInv
<1> SUFFICES ASSUME RedirectInit PROVE RInv
  OBVIOUS
<1>1. IInv /\ table = InitTable
  BY InitIInv DEF RedirectInit, LinksInit
<1>2. NoVisit \in Visit /\ NoVisit.kind = "idle"
  BY DEF Visit, NoVisit
<1>3. RedirectTypes
  BY <1>2, LogTypes, RedirectConstants DEF RedirectInit, RedirectTypes, Times
<1>4. TenantIsolation
  BY <1>2 DEF RedirectInit, TenantIsolation
<1>5. ASSUME NEW o \in Orgs, NEW i \in Ids, Stored(o, i)
      PROVE  Balanced(log[i], Counted(o, i))
  <2>1. table[o][i] \in Row
    BY <1>1, <1>5, CountedInt DEF IInv
  <2>2. Counted(o, i) = 0
    BY <1>1, <1>5, <2>1 DEF Counted, FirstCount, Stored, Row
  <2>3. log[i] = NoClicks
    BY DEF RedirectInit
  <2> QED BY <2>2, <2>3 DEF Balanced, NoClicks
<1>6. Accounts
  BY <1>1, <1>5 DEF Accounts, Stored, RedirectInit
<1> QED BY <1>1, <1>3, <1>4, <1>6 DEF RInv

(* The invariant holds in every state of every run of the redirect and the
   API requests together. *)
THEOREM RedirectInductive == RedirectSpec => []RInv
<1>1. RInv /\ [RedirectNext]_vars => RInv'
  BY LinksStay, TenantsStayApart, AccountsStay DEF RInv
<1> QED BY <1>1, InitRInv, PTL DEF RedirectSpec

(* Type correctness: nothing malformed is ever cached, served or logged; in
   particular no count of a click log falls below zero. *)
THEOREM RedirectTypeCorrect == RedirectSpec => []RedirectTypeOK
<1>1. RInv => RedirectTypeOK
  BY DEF RInv, IInv, RedirectTypes, RedirectTypeOK
<1> QED BY <1>1, RedirectInductive, PTL

(* Whatever LinkCache holds under a code of an organization, and whatever
   Handle is about to answer, is that organization's own link: for any number
   of tenants that share codes, any writes and crashes in between. *)
THEOREM TenantsAreIsolated == RedirectSpec => []TenantIsolation
<1>1. RInv => TenantIsolation
  BY DEF RInv
<1> QED BY <1>1, RedirectInductive, PTL

(* Every redirect Handle answers stays accounted for, in the rows of clicks
   and in click_count: no PATCH, archive, failed statement or crash makes one
   count twice, or vanish without being one of the losses LogClick permits. *)
THEOREM ClicksAreAccounted == RedirectSpec => []ClicksAccounted
<1>1. RInv => ClicksAccounted
  BY DEF RInv, Accounts, Balanced, Counted, ClicksAccounted
<1> QED BY <1>1, RedirectInductive, PTL

-----------------------------------------------------------------------------
(* How old what is served can be. *)

(* At time t, not later than now, the link was l; if it no longer is, the write
   that changed it came at t or later. *)
KnownSince(o, l, t) ==
  /\ t <= now
  /\ \/ LinkOf(o, l.id) = l
     \/ \E r \in replaced : r.link = l /\ r.at >= t

VisitKnown(w) ==
  w.kind \in {"set", "decide"} =>
    /\ KnownSince(w.org, w.link, w.readAt)
    /\ w.kind = "decide" =>
         IF w.hit THEN w.foundAt - w.cachedAt <= TTL ELSE w.foundAt = w.readAt

Known ==
  /\ \A o \in Orgs, c \in Codes : cache[<<o, c>>] # NoEntry =>
       KnownSince(o, cache[<<o, c>>].link, cache[<<o, c>>].readAt)
  /\ \A v \in Visitors : VisitKnown(visit[v])

LEMMA TimesAreNumbers == \A t \in Times : t \in Nat
BY RedirectConstants DEF Times

(* Nothing but a write changes what a link says, and a write remembers it. *)
LEMMA LinksChangeByWrites ==
  ASSUME RInv, [RedirectNext]_vars, NEW o \in Orgs, NEW i \in Ids, Stored(o, i)
  PROVE  /\ replaced \subseteq replaced' /\ now <= now'
         /\ \/ LinkOf(o, i)' = LinkOf(o, i)
            \/ \E r \in replaced' : r.link = LinkOf(o, i) /\ r.at = now
<1>1. now \in Nat
  BY TimesAreNumbers DEF RInv, RedirectTypes
<1>2. CASE VisitStep
  <2>1. table' = table /\ replaced' = replaced /\ (now' = now \/ now' = now + 1)
    BY <1>2, VisitStepsKeepLinks
       DEF VisitStep, Serve, Arrive, CacheGet, CacheEvict, QueryLink, QueryFails, CacheSet,
           RefuseInactive, AnswerRedirect, AnswerUnlogged, InsertClick, CountFails, Tick,
           linkVars
  <2> QED BY <1>1, <2>1 DEF LinkOf
<1>3. ASSUME NEW q \in Orgs, NEW m \in Ids, CountClick(q, m)
      PROVE  replaced' = replaced /\ now' = now /\ LinkOf(o, i)' = LinkOf(o, i)
  <2>1. PICK n : table' = [table EXCEPT ![q][m].clicks = n]
    BY <1>3 DEF CountClick
  <2>2. table \in Tables /\ table[o][i] \in Row
    BY DEF RInv, IInv, LinksTypeOK, Tables, Stored
  <2>3. table'[o][i].dest = table[o][i].dest /\ table'[o][i].status = table[o][i].status
    BY <2>1, <2>2 DEF Tables, Row
  <2> QED BY <1>3, <2>3 DEF CountClick, LinkOf
<1>4. CASE WriteStep
  <2>1. /\ now' = now /\ replaced \subseteq replaced'
        /\ \A k \in Orgs \X Ids :
             (/\ Stored(k[1], k[2]) /\ Stored(k[1], k[2])'
              /\ LinkOf(k[1], k[2]) # LinkOf(k[1], k[2])')
               => [link |-> LinkOf(k[1], k[2]), at |-> now] \in replaced'
    BY <1>4 DEF WriteStep
  <2> DEFINE k == <<o, i>>
  <2>2. k \in Orgs \X Ids /\ k[1] = o /\ k[2] = i
    OBVIOUS
  <2>3. (Stored(o, i) /\ Stored(o, i)' /\ LinkOf(o, i) # LinkOf(o, i)')
          => [link |-> LinkOf(o, i), at |-> now] \in replaced'
    BY <2>1, <2>2 DEF LinkOf, Stored
  <2>4. Stored(o, i)'
    BY LinksStay DEF RInv, KeepsLinks, Stored
  <2>5. CASE LinkOf(o, i) # LinkOf(o, i)'
    <3>1. [link |-> LinkOf(o, i), at |-> now] \in replaced'
      BY <2>4, <2>5, <2>3
    <3> QED BY <1>1, <2>1, <3>1
  <2> QED BY <1>1, <2>1, <2>5
<1>5. CASE CrashServer
  <2>1. table' = table /\ replaced' = replaced /\ now' = now
    BY <1>5 DEF CrashServer
  <2> QED BY <1>1, <2>1 DEF LinkOf
<1>6. CASE UNCHANGED vars
  BY <1>1, <1>6 DEF vars, LinkOf
<1> QED BY <1>1, <1>2, <1>3, <1>4, <1>5, <1>6 DEF RedirectNext, LogStep, VisitStep

LEMMA KnownStays ==
  ASSUME RInv, RInv', [RedirectNext]_vars, NEW o \in Orgs, NEW l \in Link, NEW t \in Times,
         Stored(o, l.id), KnownSince(o, l, t)
  PROVE  KnownSince(o, l, t)'
<1>1. l.id \in Ids /\ t \in Nat /\ now \in Nat /\ now' \in Nat
  BY TimesAreNumbers DEF Link, RInv, RedirectTypes
<1>2. /\ replaced \subseteq replaced' /\ now <= now'
      /\ \/ LinkOf(o, l.id)' = LinkOf(o, l.id)
         \/ \E r \in replaced' : r.link = LinkOf(o, l.id) /\ r.at = now
  BY <1>1, LinksChangeByWrites
<1>3. t <= now'
  BY <1>1, <1>2 DEF KnownSince
<1>4. CASE LinkOf(o, l.id) = l
  BY <1>1, <1>2, <1>3, <1>4 DEF KnownSince
<1>5. CASE \E r \in replaced : r.link = l /\ r.at >= t
  BY <1>2, <1>3, <1>5 DEF KnownSince
<1> QED BY <1>4, <1>5 DEF KnownSince

(* An entry or a visit that a step leaves alone stays known. *)
LEMMA KnownStep ==
  ASSUME RInv, RInv', Known, [RedirectNext]_vars,
         \A o \in Orgs, c \in Codes :
           \/ cache'[<<o, c>>] \in {cache[<<o, c>>], NoEntry}
           \/ KnownSince(o, cache[<<o, c>>].link, cache[<<o, c>>].readAt)',
         \A v \in Visitors : visit'[v] = visit[v] \/ VisitKnown(visit[v])'
  PROVE  Known'
<1>1. ASSUME NEW o \in Orgs, NEW c \in Codes, cache'[<<o, c>>] # NoEntry
      PROVE  KnownSince(o, cache[<<o, c>>].link, cache[<<o, c>>].readAt)'
  <2>1. CASE cache'[<<o, c>>] = cache[<<o, c>>]
    <3>1. PICK e \in Entry : e = cache[<<o, c>>]
      BY <1>1, <2>1 DEF RInv, RedirectTypes
    <3>2. /\ e.link \in Link /\ e.readAt \in Times /\ Stored(o, e.link.id)
          /\ KnownSince(o, e.link, e.readAt)
      BY <1>1, <2>1, <3>1 DEF Entry, RInv, TenantIsolation, OwnLink, Known
    <3>3. KnownSince(o, e.link, e.readAt)'
      BY <3>2, KnownStays
    <3> QED BY <2>1, <3>1, <3>3
  <2> QED BY <1>1, <2>1
<1>2. ASSUME NEW v \in Visitors
      PROVE  VisitKnown(visit[v])'
  <2>1. CASE visit'[v] = visit[v]
    <3>1. PICK w \in Visit : w = visit[v] /\ VisitKnown(w)
      BY DEF RInv, RedirectTypes, Known
    <3>2. ASSUME w.kind \in {"set", "decide"}
          PROVE  KnownSince(w.org, w.link, w.readAt)'
      <4>1. w \in FillVisit \cup FoundVisit
        BY <3>1, <3>2, VisitKinds DEF RInv
      <4>2. /\ w.org \in Orgs /\ w.link \in Link /\ w.readAt \in Times
            /\ Stored(w.org, w.link.id) /\ KnownSince(w.org, w.link, w.readAt)
        BY <3>1, <3>2, <4>1 DEF FillVisit, FoundVisit, RInv, TenantIsolation, OwnLink,
                                VisitKnown
      <4> QED BY <4>2, KnownStays
    <3>3. VisitKnown(w)'
      BY <3>1, <3>2 DEF VisitKnown
    <3> QED BY <2>1, <3>1, <3>3
  <2> QED BY <2>1
<1> QED BY <1>1, <1>2 DEF Known

(* The visitor v goes on to w, and the cache is left alone. *)
LEMMA KnownMove ==
  ASSUME RInv, RInv', Known, [RedirectNext]_vars, NEW v \in Visitors, NEW w,
         Goto(v, w), VisitKnown(w)',
         \A o \in Orgs, c \in Codes : cache'[<<o, c>>] \in {cache[<<o, c>>], NoEntry}
  PROVE  Known'
<1>1. visit'[v] = w /\ \A u \in Visitors : u # v => visit'[u] = visit[u]
  BY DEF Goto, RInv, RedirectTypes
<1>2. VisitKnown(visit[v])'
  BY <1>1
<1> QED BY <1>1, <1>2, KnownStep

LEMMA LookupKnown ==
  ASSUME RInv, RInv', Known, [RedirectNext]_vars, NEW v \in Visitors,
         CacheGet(v) \/ CacheEvict(v)
  PROVE  Known'
<1>1. PICK w \in LookupVisit : w = visit[v] /\ w.org \in Orgs /\ w.code \in Codes
  BY VisitKinds DEF CacheGet, CacheEvict, RInv, LookupVisit
<1>2. ASSUME NEW k \in {"query", "evict"}, Goto(v, [w EXCEPT !.kind = k]),
             \A o \in Orgs, c \in Codes : cache'[<<o, c>>] \in {cache[<<o, c>>], NoEntry}
      PROVE  Known'
  <2>1. PICK f : f = [w EXCEPT !.kind = k]
    OBVIOUS
  <2>2. f.kind = k
    <3>1. w \in [kind : {"get", "evict", "query"}, org : Orgs, code : Codes]
      BY DEF LookupVisit
    <3> QED BY <2>1, <3>1
  <2>3. VisitKnown(f)'
    BY <2>2 DEF VisitKnown
  <2> QED BY <1>2, <2>1, <2>3, KnownMove
<1>3. ASSUME UNCHANGED <<table, cache, now, replaced>>,
             cache[<<w.org, w.code>>] # NoEntry, Fresh(cache[<<w.org, w.code>>]),
             Goto(v, FoundInCache(w, cache[<<w.org, w.code>>]))
      PROVE  Known'
  <2>1. PICK e \in Entry : e = cache[<<w.org, w.code>>]
    BY <1>1, <1>3 DEF RInv, RedirectTypes
  <2>2. PICK n : n = now
    OBVIOUS
  <2>3. PICK f : f = [kind |-> "decide", org |-> w.org, code |-> w.code, link |-> e.link,
                      hit |-> TRUE, readAt |-> e.readAt, cachedAt |-> e.cachedAt,
                      foundAt |-> n]
    OBVIOUS
  <2>4. /\ f.kind = "decide" /\ f.org = w.org /\ f.link = e.link /\ f.hit
        /\ f.readAt = e.readAt /\ f.cachedAt = e.cachedAt /\ f.foundAt = now
    BY <2>2, <2>3
  <2>5. Goto(v, f)
    BY <1>3, <2>1, <2>2, <2>3 DEF FoundInCache
  <2>6. KnownSince(w.org, e.link, e.readAt)'
    BY <1>1, <1>3, <2>1 DEF Known, KnownSince, LinkOf
  <2>7. VisitKnown(f)'
    BY <1>3, <2>1, <2>4, <2>6 DEF VisitKnown, Fresh
  <2> QED BY <1>3, <2>5, <2>7, KnownMove
<1>4. CASE CacheGet(v)
  BY <1>1, <1>2, <1>3, <1>4 DEF CacheGet, CacheKey
<1>5. CASE CacheEvict(v)
  <2>1. \A o \in Orgs, c \in Codes : cache'[<<o, c>>] \in {cache[<<o, c>>], NoEntry}
    BY <1>5 DEF CacheEvict, CacheKey, RInv, RedirectTypes
  <2> QED BY <1>1, <1>2, <1>5, <2>1 DEF CacheEvict
<1> QED BY <1>4, <1>5

LEMMA QueryKnown ==
  ASSUME RInv, RInv', Known, [RedirectNext]_vars, NEW v \in Visitors, NEW i \in Ids,
         QueryLink(v, i)
  PROVE  Known'
<1>1. PICK w \in LookupVisit : w = visit[v] /\ w.org \in Orgs /\ w.code \in Codes
  BY VisitKinds DEF QueryLink, RInv, LookupVisit
<1>2. PICK l \in Link : l = LinkOf(w.org, i) /\ l.id = i
  BY <1>1, LinkTypes DEF QueryLink, RInv, IInv
<1>3. PICK n : n = now
  OBVIOUS
<1>4. PICK f : f = [kind |-> "set", org |-> w.org, code |-> w.code, link |-> l,
                    readAt |-> n]
  OBVIOUS
<1>5. f.kind = "set" /\ f.org = w.org /\ f.link = l /\ f.readAt = now
  BY <1>3, <1>4
<1>6. Goto(v, f) /\ UNCHANGED <<table, cache, now, replaced>>
  BY <1>1, <1>2, <1>3, <1>4 DEF QueryLink
<1>7. now <= now
  BY TimesAreNumbers DEF RInv, RedirectTypes
<1>8. KnownSince(w.org, l, now)'
  BY <1>2, <1>6, <1>7 DEF KnownSince, LinkOf
<1>9. VisitKnown(f)'
  BY <1>5, <1>6, <1>8 DEF VisitKnown
<1> QED BY <1>6, <1>9, KnownMove

LEMMA CacheSetKnown ==
  ASSUME RInv, RInv', Known, [RedirectNext]_vars, NEW v \in Visitors, CacheSet(v)
  PROVE  Known'
<1>1. PICK w \in FillVisit : w = visit[v] /\ w.kind = "set" /\ w.org \in Orgs /\ w.code \in Codes
  BY VisitKinds DEF CacheSet, RInv, FillVisit
<1>2. PICK n : n = now
  OBVIOUS
<1>3. PICK e : e = [link |-> w.link, cachedAt |-> n, readAt |-> w.readAt]
  OBVIOUS
<1>4. PICK f : f = [kind |-> "decide", org |-> w.org, code |-> w.code, link |-> w.link,
                    hit |-> FALSE, readAt |-> w.readAt, cachedAt |-> n,
                    foundAt |-> w.readAt]
  OBVIOUS
<1>5. /\ e.link = w.link /\ e.readAt = w.readAt
      /\ f.kind = "decide" /\ f.org = w.org /\ f.link = w.link /\ ~f.hit
      /\ f.readAt = w.readAt /\ f.foundAt = w.readAt
  BY <1>3, <1>4
<1>6. /\ Goto(v, f) /\ UNCHANGED <<table, now, replaced>>
      /\ cache' = [cache EXCEPT ![<<w.org, w.code>>] = e]
  BY <1>1, <1>2, <1>3, <1>4 DEF CacheSet, CacheKey
<1>7. KnownSince(w.org, w.link, w.readAt)'
  BY <1>1, <1>6 DEF Known, VisitKnown, KnownSince, LinkOf
<1>8. VisitKnown(f)'
  BY <1>5, <1>7 DEF VisitKnown
<1>9. visit'[v] = f /\ \A u \in Visitors : u # v => visit'[u] = visit[u]
  BY <1>6 DEF Goto, RInv, RedirectTypes
<1>10. VisitKnown(visit[v])'
  BY <1>8, <1>9
<1>11. ASSUME NEW o \in Orgs, NEW c \in Codes
       PROVE  \/ cache'[<<o, c>>] \in {cache[<<o, c>>], NoEntry}
              \/ KnownSince(o, cache[<<o, c>>].link, cache[<<o, c>>].readAt)'
  <2>1. CASE o = w.org /\ c = w.code
    <3>1. cache'[<<o, c>>] = e
      BY <1>6, <2>1 DEF RInv, RedirectTypes
    <3> QED BY <1>5, <1>7, <2>1, <3>1
  <2>2. CASE ~(o = w.org /\ c = w.code)
    BY <1>6, <2>2 DEF RInv, RedirectTypes
  <2> QED BY <2>1, <2>2
<1> QED BY <1>9, <1>10, <1>11, KnownStep

LEMMA StepsKeepKnown ==
  ASSUME RInv, RInv', Known, [RedirectNext]_vars
  PROVE  Known'
<1>1. ASSUME NEW v \in Visitors, UNCHANGED cache, Goto(v, NoVisit)
      PROVE  Known'
  <2>1. VisitKnown(NoVisit)'
    BY DEF VisitKnown, NoVisit
  <2> QED BY <1>1, <2>1, KnownMove
<1>2. ASSUME NEW v \in Visitors, NEW o \in Orgs, NEW c \in Codes, Arrive(v, o, c)
      PROVE  Known'
  <2>1. PICK f : f = [kind |-> "get", org |-> o, code |-> c]
    OBVIOUS
  <2>2. VisitKnown(f)'
    <3>1. f.kind = "get"
      BY <2>1
    <3> QED BY <3>1 DEF VisitKnown
  <2> QED BY <1>2, <2>1, <2>2, KnownMove DEF Arrive
<1>3. CASE \E v \in Visitors : Serve(v)
  <2>1. PICK v \in Visitors : Serve(v)
    BY <1>3
  <2>2. CASE QueryFails(v) \/ RefuseInactive(v) \/ AnswerRedirect(v) \/ AnswerUnlogged(v)
    BY <1>1, <2>2 DEF QueryFails, RefuseInactive, AnswerRedirect, AnswerUnlogged
  <2> QED BY <1>2, <2>1, <2>2, LookupKnown, QueryKnown, CacheSetKnown DEF Serve
<1>4. CASE UNCHANGED <<cache, visit>>
  BY <1>4, KnownStep
<1>5. CASE CrashServer
  <2>1. \A v \in Visitors : visit'[v] = NoVisit
    BY <1>5 DEF CrashServer
  <2>2. \A v \in Visitors : VisitKnown(visit[v])'
    BY <2>1 DEF VisitKnown, NoVisit
  <2>3. \A o \in Orgs, c \in Codes : cache'[<<o, c>>] = NoEntry
    BY <1>5 DEF CrashServer
  <2> QED BY <2>2, <2>3, KnownStep
<1>6. LogStep \/ WriteStep \/ Tick \/ UNCHANGED vars => UNCHANGED <<cache, visit>>
  BY DEF LogStep, InsertClick, CountFails, CountClick, WriteStep, Tick, vars
<1> QED BY <1>3, <1>4, <1>5, <1>6 DEF RedirectNext

(* However many writes, fills and evictions interleave, a visit is answered by what
   its link says, or by what it said no longer ago than the life of an entry and the
   time its fill took: the bound LinkCache gives is kept although no write tells the
   cache, and although an entry is dated by its Set and not by its query. *)
THEOREM StalenessIsBounded == RedirectSpec => []BoundedStaleness
<1>1. RedirectInit => Known
  BY DEF RedirectInit, Known, VisitKnown, NoVisit
<1>2. RInv /\ RInv' /\ Known /\ [RedirectNext]_vars => Known'
  BY StepsKeepKnown
<1>3. RInv /\ Known => BoundedStaleness
  <2> SUFFICES ASSUME RInv, Known, NEW v \in Visitors, visit[v].kind = "decide",
                      LinkOf(visit[v].org, visit[v].link.id) # visit[v].link
               PROVE  \E r \in replaced : /\ r.link = visit[v].link
                                          /\ r.at >= visit[v].foundAt - Allowance(visit[v])
    BY DEF BoundedStaleness
  <2>1. PICK w \in FoundVisit : w = visit[v] /\ VisitKnown(w)
    BY VisitKinds DEF RInv, Known
  <2>2. w.readAt \in Nat /\ w.cachedAt \in Nat /\ w.foundAt \in Nat /\ w.hit \in BOOLEAN
    BY TimesAreNumbers DEF FoundVisit
  <2>3. PICK r \in replaced : r.link = w.link /\ r.at >= w.readAt
    BY <2>1 DEF VisitKnown, KnownSince
  <2>4. r.at \in Nat
    BY TimesAreNumbers DEF RInv, RedirectTypes
  <2>5. IF w.hit THEN w.foundAt - w.cachedAt <= TTL ELSE w.foundAt = w.readAt
    BY <2>1 DEF VisitKnown
  <2>6. r.at >= w.foundAt - Allowance(w)
    BY <2>2, <2>3, <2>4, <2>5, RedirectConstants DEF Allowance
  <2> QED BY <2>1, <2>3, <2>6
<1> QED BY <1>1, <1>2, <1>3, RedirectInductive, PTL DEF RedirectSpec
=============================================================================
