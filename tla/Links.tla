------------------------------- MODULE Links -------------------------------
(***************************************************************************)
(* The link table of the tenant databases and the API requests that write  *)
(* it: links.Service (CreateLink, UpdateLink, ArchiveLink) over            *)
(* links.Repository.  Every SQL statement is one atomic step; a request is *)
(* a sequence of statements without a transaction around them, so the      *)
(* statements of concurrent requests interleave.                           *)
(*                                                                         *)
(* A row keeps the fields the properties tell apart.  dest stands for all  *)
(* the fields a PATCH may set (title, redirect_type, rules and             *)
(* default_utm_params are merged, validated and written the same way).     *)
(* The status is merged too, but not validated: a PATCH may store any      *)
(* string, and the code tells only "active" from the others.               *)
(***************************************************************************)
EXTENDS Integers, FiniteSets

CONSTANTS
  Orgs,          \* organizations; each has a database of its own
  Ids,           \* link ids (UUIDs: unique over all databases)
  GoodDests,     \* destinations ValidateLink accepts
  BadDests,      \* destinations (or redirect types) ValidateLink refuses
  Statuses,      \* strings a PATCH may give for the status, documented or not
  ShortCodes,    \* the codes of length 7 that generateRandomCode can return
  LongCodes,     \* those of length 8
  UserCodes,     \* custom codes a request may ask for
  BadCodes,      \* the codes isValidShortCode refuses (format or reserved)
  NoCode,        \* the request names no custom code
  Expiries,      \* values of expires_at, NoExpiry among them
  Unset,         \* a field the PATCH body leaves empty
  NoRow,         \* no such link
  Procs,         \* API request goroutines
  MaxRetries,    \* 5 in GenerateShortCode
  InitTable,     \* the links stored before the server starts
  MaxRequests    \* bound: API requests issued in a behaviour

Dests    == GoodDests \cup BadDests
Codes    == ShortCodes \cup LongCodes \cup UserCodes

(* What is stored has passed ValidateLink, which looks at the destination and
   never at the status. *)
Row == [code : Codes, dest : GoodDests, status : Statuses,
        expires : Expiries, clicks : Nat]

Tables == [Orgs -> [Ids -> Row \cup {NoRow}]]

(* No two links of one database have the same short code:
   UNIQUE(short_code). *)
UniqueIn(tbl) ==
  \A o \in Orgs : \A i, j \in Ids :
    (tbl[o][i] # NoRow /\ tbl[o][j] # NoRow /\ tbl[o][i].code = tbl[o][j].code)
       => i = j

(* A UUID names a row in one database only. *)
IdsIn(tbl) ==
  \A i \in Ids : \A o, q \in Orgs :
    (tbl[o][i] # NoRow /\ tbl[q][i] # NoRow) => o = q

ASSUME LinkConstants ==
  /\ NoRow \notin Row
  /\ NoCode \notin Codes
  /\ {"active", "archived"} \subseteq Statuses
  /\ Unset \notin Dests \cup Statuses
  /\ GoodDests \cap BadDests = {}
  /\ BadCodes \subseteq Codes
  /\ MaxRetries \in Nat
  /\ MaxRequests \in Nat
  /\ InitTable \in Tables /\ UniqueIn(InitTable) /\ IdsIn(InitTable)

VARIABLES
  table,         \* table[o][i] : the row of link i in the database of o
  job,           \* job[p] : what the API request p is about to do
  requests       \* how many API requests have been issued

linkVars == <<table, job, requests>>

-----------------------------------------------------------------------------
(* The stages of a request: about to check a code, to INSERT, to UPDATE.   *)
Idle == [kind |-> "idle"]

CheckJob  == [kind : {"check"}, org : Orgs, dest : GoodDests, expires : Expiries,
              custom : UserCodes \cup {NoCode}, tries : 0 .. MaxRetries]
InsertJob == [kind : {"insert"}, org : Orgs, dest : GoodDests, expires : Expiries,
              code : Codes]
UpdateJob == [kind : {"update"}, org : Orgs, id : Ids, dest : GoodDests,
              status : Statuses, asked : [dest : Dests \cup {Unset},
                                          status : Statuses \cup {Unset}]]
Job == {Idle} \cup CheckJob \cup InsertJob \cup UpdateJob

(* The rows and the requests are well formed.  Beyond types this says that nothing
   is stored, or about to be, with a destination ValidateLink refuses, and that no
   request counts more collisions than it may retry.  Nothing is said of the status
   but that somebody asked for it. *)
LinksTypeOK ==
  /\ table \in Tables
  /\ job \in [Procs -> Job]
  /\ requests \in 0 .. MaxRequests

LinksInit ==
  /\ table = InitTable
  /\ job = [p \in Procs |-> Idle]
  /\ requests = 0

Stored(o, i) == table[o][i] # NoRow

ValidLink(d) == d \in GoodDests

IsValidShortCode(c) == c \notin BadCodes

(* ExistsByShortCode *)
CodeTaken(o, c) == \E i \in Ids : Stored(o, i) /\ table[o][i].code = c

(* generateRandomCode: length 7, and one more for the attempt after the
   last retry.  The drawn code is not checked against isValidShortCode. *)
RandomCodes(tries) == IF tries < MaxRetries THEN ShortCodes ELSE LongCodes

Begin(p) ==
  /\ job[p] = Idle
  /\ requests < MaxRequests
  /\ requests' = requests + 1

-----------------------------------------------------------------------------
(* POST /links, up to the availability check.  A link or a custom code that
   does not validate is answered 400 and changes nothing. *)
CreateLink(p, o, d, e, c) ==
  /\ Begin(p)
  /\ ValidLink(d)
  /\ c # NoCode => IsValidShortCode(c)
  /\ job' = [job EXCEPT ![p] = [kind |-> "check", org |-> o, dest |-> d,
                                expires |-> e, custom |-> c, tries |-> 0]]
  /\ UNCHANGED table

ToInsert(j, c) == [kind |-> "insert", org |-> j.org, dest |-> j.dest,
                   expires |-> j.expires, code |-> c]

(* The custom code is looked up; when it is taken the request is refused. *)
CheckCustom(p) ==
  LET j == job[p] IN
  /\ j.kind = "check" /\ j.custom # NoCode
  /\ job' = [job EXCEPT ![p] = IF CodeTaken(j.org, j.custom)
                                 THEN Idle
                                 ELSE ToInsert(j, j.custom)]
  /\ UNCHANGED <<table, requests>>

(* Variants of the retry loop a slip would give: one turn too many, and a loop
   that forgets to count. *)
CheckRandomOneMore(p, c) ==
  LET j == job[p] IN
  /\ j.kind = "check" /\ j.custom = NoCode
  /\ c \in RandomCodes(j.tries)
  /\ job' = [job EXCEPT ![p] =
               CASE ~CodeTaken(j.org, c) -> ToInsert(j, c)
                 [] OTHER                -> [j EXCEPT !.tries = @ + 1]]
  /\ UNCHANGED <<table, requests>>

CheckRandomForever(p, c) ==
  LET j == job[p] IN
  /\ j.kind = "check" /\ j.custom = NoCode
  /\ c \in RandomCodes(j.tries)
  /\ job' = [job EXCEPT ![p] = IF CodeTaken(j.org, c) THEN j ELSE ToInsert(j, c)]
  /\ UNCHANGED <<table, requests>>

(* One turn of the retry loop: draw a code, look it up, and draw again while
   attempts remain. *)
CheckRandom(p, c) ==
  LET j == job[p] IN
  /\ j.kind = "check" /\ j.custom = NoCode
  /\ c \in RandomCodes(j.tries)
  /\ job' = [job EXCEPT ![p] =
               CASE ~CodeTaken(j.org, c)   -> ToInsert(j, c)
                 [] CodeTaken(j.org, c) /\ j.tries < MaxRetries
                                           -> [j EXCEPT !.tries = @ + 1]
                 [] OTHER                  -> Idle]
  /\ UNCHANGED <<table, requests>>

(* Variant: the table without its UNIQUE constraint. *)
InsertLinkUnconstrained(p, i) ==
  LET j == job[p] IN
  /\ j.kind = "insert"
  /\ \A o \in Orgs : ~Stored(o, i)
  /\ table' = [table EXCEPT ![j.org][i] =
                 [code |-> j.code, dest |-> j.dest, status |-> "active",
                  expires |-> j.expires, clicks |-> 0]]
  /\ job' = [job EXCEPT ![p] = Idle]
  /\ UNCHANGED requests

(* Repository.Create.  The code may have been taken since it was checked: the
   UNIQUE constraint then fails the INSERT and the request. *)
InsertLink(p, i) ==
  LET j == job[p] IN
  /\ j.kind = "insert"
  /\ \A o \in Orgs : ~Stored(o, i)
  /\ ~CodeTaken(j.org, j.code)
  /\ table' = [table EXCEPT ![j.org][i] =
                 [code |-> j.code, dest |-> j.dest, status |-> "active",
                  expires |-> j.expires, clicks |-> 0]]
  /\ job' = [job EXCEPT ![p] = Idle]
  /\ UNCHANGED requests

InsertRefused(p) ==
  LET j == job[p] IN
  /\ j.kind = "insert"
  /\ CodeTaken(j.org, j.code)
  /\ job' = [job EXCEPT ![p] = Idle]
  /\ UNCHANGED <<table, requests>>

Merge(new, old) == IF new = Unset THEN old ELSE new

(* Variant: a PATCH that is not validated again. *)
UpdateLinkUnvalidated(p, o, i, asked) ==
  /\ Begin(p)
  /\ Stored(o, i)
  /\ job' = [job EXCEPT ![p] =
               [kind |-> "update", org |-> o, id |-> i, asked |-> asked,
                dest   |-> Merge(asked.dest, table[o][i].dest),
                status |-> Merge(asked.status, table[o][i].status)]]
  /\ UNCHANGED table

(* PATCH /links/:id, first statement: read the row, merge the fields the body
   sets, validate.  An unknown link or an invalid result ends the request. *)
UpdateLink(p, o, i, asked) ==
  /\ Begin(p)
  /\ Stored(o, i)
  /\ ValidLink(Merge(asked.dest, table[o][i].dest))
  /\ job' = [job EXCEPT ![p] =
               [kind |-> "update", org |-> o, id |-> i, asked |-> asked,
                dest   |-> Merge(asked.dest, table[o][i].dest),
                status |-> Merge(asked.status, table[o][i].status)]]
  /\ UNCHANGED table

(* Second statement, Repository.Update: every updatable column is written,
   those the body left alone with the value read before. *)
WriteUpdate(p) ==
  LET j == job[p] IN
  /\ j.kind = "update"
  /\ table' = IF Stored(j.org, j.id)
                THEN [table EXCEPT ![j.org][j.id].dest = j.dest,
                                   ![j.org][j.id].status = j.status]
                ELSE table
  /\ job' = [job EXCEPT ![p] = Idle]
  /\ UNCHANGED requests

(* Variant: a DELETE that removes the row, which frees its code. *)
ArchiveLinkDeletes(p, o, i) ==
  /\ Begin(p)
  /\ table' = [table EXCEPT ![o][i] = NoRow]
  /\ UNCHANGED job

(* DELETE /links/:id: one UPDATE; an unknown id matches no row and is still
   answered 200. *)
ArchiveLink(p, o, i) ==
  /\ Begin(p)
  /\ table' = IF Stored(o, i)
                THEN [table EXCEPT ![o][i].status = "archived"]
                ELSE table
  /\ UNCHANGED job

(* A statement fails (SQLITE_BUSY, I/O): the handler returns the error. *)
StatementFails(p) ==
  /\ job[p] # Idle
  /\ job' = [job EXCEPT ![p] = Idle]
  /\ UNCHANGED <<table, requests>>

(* The server process dies; only the database survives. *)
CrashRequests == job' = [p \in Procs |-> Idle]

Crash == CrashRequests /\ UNCHANGED <<table, requests>>

-----------------------------------------------------------------------------
(* What a body may ask for; neither the handler nor the table restricts the
   status. *)
Patches == [dest : Dests \cup {Unset}, status : Statuses \cup {Unset}]

(* What goes on by itself once a request is under way. *)
Proceed(p) ==
  \/ CheckCustom(p)
  \/ \E c \in ShortCodes \cup LongCodes : CheckRandom(p, c)
  \/ \E i \in Ids : InsertLink(p, i)
  \/ InsertRefused(p)
  \/ WriteUpdate(p)

Issue(p) ==
  \/ \E o \in Orgs, d \in Dests, e \in Expiries, c \in UserCodes \cup {NoCode} :
       CreateLink(p, o, d, e, c)
  \/ \E o \in Orgs, i \in Ids, a \in Patches : UpdateLink(p, o, i, a)
  \/ \E o \in Orgs, i \in Ids : ArchiveLink(p, o, i)

RequestStep == \E p \in Procs : Issue(p) \/ Proceed(p) \/ StatementFails(p)

LinksNext == RequestStep \/ Crash

LinksSafety == LinksInit /\ [][LinksNext]_linkVars

(* A goroutine that has a statement to run is scheduled and runs it. *)
LinksSpec == LinksSafety /\ \A p \in Procs : WF_linkVars(Proceed(p))

-----------------------------------------------------------------------------
(* Two concurrent creates that both found a code free must not both keep it:
   short codes stay unique in each database and a UUID names one row. *)
UniqueCodes == UniqueIn(table) /\ IdsIn(table)

(* Creating, updating and archiving links claims short codes one at a time and
   never moves or frees one: a redirect handed out stays with its link. *)
claimed == {k \in Orgs \X Codes \X Ids :
              table[k[1]][k[3]] # NoRow /\ table[k[1]][k[3]].code = k[2]}

Registry == INSTANCE CodeRegistry WITH claims <- claimed

ImplementsRegistry == Registry!Spec

(* However often the drawn codes collide, a request comes to an end. *)
RequestsEnd == \A p \in Procs : job[p] # Idle ~> job[p] = Idle

(* The DELETE route archives a link: an archived link leaves that status only
   by the write of a PATCH whose body sets the status. *)
ArchiveSticks ==
  [][\A o \in Orgs, i \in Ids :
       (Stored(o, i) /\ table[o][i].status = "archived"
          /\ Stored(o, i)' /\ table'[o][i].status # "archived")
       => \E p \in Procs : /\ job[p].kind = "update"
                           /\ job[p].id = i
                           /\ job[p].asked.status # Unset
                           /\ job'[p] = Idle]_linkVars

=============================================================================
