------------------------- MODULE TenantProvisioning -------------------------
(***************************************************************************)
(* How a tenant database gets its schema: the goroutine OrgHandler.Create  *)
(* starts after its commit, which runs the tenant migrations and drops     *)
(* every error, racing any number of runs of cmd/migrate, which stops at   *)
(* the first error and reports it.                                         *)
(*                                                                         *)
(* A migration file is CREATE TABLE IF NOT EXISTS followed by its CREATE   *)
(* INDEX IF NOT EXISTS; the indexes of a file are one object here.         *)
(***************************************************************************)
EXTENDS Integers, Sequences

CONSTANTS
  Tools,         \* runs of cmd/migrate --target tenant
  MaxFaults      \* bound: failing statements, reads and crashes

ASSUME ProvisioningConstants == MaxFaults \in Nat /\ "server" \notin Tools

(* migrations/tenant in the order of ReadDir, by the statements of a file. *)
CreateLinks    == <<"links", "idx_links">>
CreateClicks   == <<"clicks", "idx_clicks">>
CreateWebhooks == <<"webhooks", "idx_webhooks">>
CreateStats    == <<"daily_stats", "idx_daily_stats">>

Migrations == <<CreateLinks, CreateClicks, CreateWebhooks, CreateStats>>
Objects == UNION {{Migrations[f][s] : s \in 1 .. 2} : f \in 1 .. 4}

Runners == Tools \cup {"server"}

VARIABLES
  org,           \* the organization has been committed
  dir,           \* the directory of the database file exists
  schema,        \* the tables and indexes of the tenant database
  run,           \* run[r] : how far the migrations of runner r are
  faults         \* history: failures and crashes so far

vars == <<org, dir, schema, run, faults>>

(* Statement s of file f is next; "done": the last file has been run; "failed":
   returned early; "off": not started. *)
Running == [at : {"run"}, file : 1 .. 4, stmt : 1 .. 2]
Run == Running \cup [at : {"off", "mkdir", "done", "failed"}]

TypeOK ==
  /\ org \in BOOLEAN
  /\ dir \in BOOLEAN
  /\ schema \subseteq Objects
  /\ run \in [Runners -> Run]
  /\ faults \in 0 .. MaxFaults

Init ==
  /\ org = FALSE /\ dir = FALSE /\ schema = {}
  /\ run = [r \in Runners |-> [at |-> "off"]]
  /\ faults = 0

First == [at |-> "run", file |-> 1, stmt |-> 1]

(* Variant: the walk over the files ends early. *)
NextFileShort(f) == IF f = 2 THEN [at |-> "done"]
                             ELSE [at |-> "run", file |-> f + 1, stmt |-> 1]

(* What follows file f. *)
NextFile(f) == IF f = 4 THEN [at |-> "done"]
                        ELSE [at |-> "run", file |-> f + 1, stmt |-> 1]

(* Variant: one statement too many. *)
AfterOneMore(j) == IF j.stmt <= 2 THEN [j EXCEPT !.stmt = @ + 1] ELSE NextFile(j.file)

(* What follows the statement at j. *)
After(j) == IF j.stmt = 1 THEN [j EXCEPT !.stmt = 2] ELSE NextFile(j.file)

Goto(r, j) == run' = [run EXCEPT ![r] = j]

Fault == faults < MaxFaults /\ faults' = faults + 1

-----------------------------------------------------------------------------
(* OrgHandler.Create commits and starts the goroutine; the answer is not held
   back for it. *)
CommitOrg ==
  /\ ~org
  /\ org' = TRUE
  /\ Goto("server", [at |-> "mkdir"])
  /\ UNCHANGED <<dir, schema, faults>>

(* MkdirAll, sql.Open (which touches no file) and ReadDir; an error of any of
   them ends the goroutine. *)
MakeDir ==
  /\ run["server"].at = "mkdir"
  /\ dir' = TRUE
  /\ Goto("server", First)
  /\ UNCHANGED <<org, schema, faults>>

MakeDirFails ==
  /\ run["server"].at = "mkdir"
  /\ Fault
  /\ \E d \in {dir, TRUE} : dir' = d
  /\ Goto("server", [at |-> "failed"])
  /\ UNCHANGED <<org, schema>>

(* The operator runs cmd/migrate for an organization the global database has:
   the file path comes from there, and no directory is made. *)
StartTool(t) ==
  /\ run[t].at # "run"
  /\ org
  /\ Goto(t, First)
  /\ UNCHANGED <<org, dir, schema, faults>>

(* Variant: CREATE without IF NOT EXISTS. *)
ApplyOnce(r) ==
  LET j == run[r] IN
  /\ j.at = "run" /\ dir
  /\ LET o == Migrations[j.file][j.stmt] IN
     IF o \in schema
       THEN schema' = schema /\ Goto(r, [at |-> "failed"])
       ELSE schema' = schema \cup {o} /\ Goto(r, After(j))
  /\ UNCHANGED <<org, dir, faults>>

(* The next statement of Exec, which creates what is not there yet. *)
Apply(r) ==
  LET j == run[r] IN
  /\ j.at = "run" /\ dir
  /\ schema' = schema \cup {Migrations[j.file][j.stmt]}
  /\ Goto(r, After(j))
  /\ UNCHANGED <<org, dir, faults>>

(* In the goroutine a statement that fails (or a file that cannot be read) ends
   the Exec of its file, and the next file is run all the same. *)
SkipFile ==
  LET j == run["server"] IN
  /\ j.at = "run" /\ Fault
  /\ Goto("server", NextFile(j.file))
  /\ UNCHANGED <<org, dir, schema>>

(* Variant: the tool goes on after an error, as the goroutine does. *)
StopToolGoesOn(t) ==
  LET j == run[t] IN
  /\ j.at = "run"
  /\ IF dir THEN Fault ELSE faults' = faults
  /\ Goto(t, NextFile(j.file))
  /\ UNCHANGED <<org, dir, schema>>

(* runMigrations returns the first error; without the directory every statement
   is one.  log.Fatal reports it. *)
StopTool(t) ==
  LET j == run[t] IN
  /\ j.at = "run"
  /\ IF dir THEN Fault ELSE faults' = faults
  /\ Goto(t, [at |-> "failed"])
  /\ UNCHANGED <<org, dir, schema>>

(* The server dies: the goroutine is not started again. *)
CrashServer ==
  /\ run["server"].at \in {"mkdir", "run"}
  /\ Fault
  /\ Goto("server", [at |-> "failed"])
  /\ UNCHANGED <<org, dir, schema>>

Next ==
  \/ CommitOrg \/ MakeDir \/ MakeDirFails \/ SkipFile \/ CrashServer
  \/ \E r \in Runners : Apply(r)
  \/ \E t \in Tools : StartTool(t) \/ StopTool(t)

(* Goroutine and tool run on; nobody has to start the tool or send a request. *)
Spec == /\ Init /\ [][Next]_vars
        /\ WF_vars(MakeDir) /\ \A r \in Runners : WF_vars(Apply(r))

-----------------------------------------------------------------------------
Complete == schema = Objects

(* A run of the tool that reports success has left a complete schema, even when
   the goroutine and other runs raced it and failed half-way. *)
ReportedIsComplete ==
  \A t \in Tools : run[t].at = "done" => Complete

(* The migrations can be run again and side by side: a run fails only when a
   statement really failed or the directory was not there. *)
RerunsSucceed ==
  [][\A r \in Runners :
       (run[r].at = "run" /\ run'[r].at = "failed") => faults' > faults \/ ~dir]_vars

(* A committed organization gets its whole schema from the goroutine alone,
   unless something fails or the server dies, which nothing repairs. *)
ProvisionedOrFault == org ~> (Complete \/ faults > 0)
=============================================================================
