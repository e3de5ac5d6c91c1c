---------------------- MODULE TenantProvisioningProofs ----------------------
(* What TenantProvisioning promises of any number of runs of cmd/migrate beside the
   goroutine of OrgHandler.Create, and of any number of failures.  What the files
   hold plays no part, only that a run takes their statements in order. *)
EXTENDS TenantProvisioning, TLAPS

(* The objects are those of the statements. *)
LEMMA ObjectsOfFiles ==
  /\ \A f \in 1 .. 4, s \in 1 .. 2 : Migrations[f][s] \in Objects
  /\ \A o \in Objects : \E f \in 1 .. 4, s \in 1 .. 2 : o = Migrations[f][s]
<1> DEFINE file(f) == {Migrations[f][s] : s \in 1 .. 2}
<1>1. Objects = UNION {file(f) : f \in 1 .. 4}
  BY DEF Objects
<1>2. \A f : \A s \in 1 .. 2 : Migrations[f][s] \in file(f)
  OBVIOUS
<1>3. \A f : \A o \in file(f) : \E s \in 1 .. 2 : o = Migrations[f][s]
  OBVIOUS
<1> HIDE DEF file
<1> QED BY <1>1, <1>2, <1>3

(* The states of a runner, as TypeOK lists them. *)
LEMMA RunStates ==
  /\ First \in Running
  /\ [at |-> "mkdir"] \in Run /\ [at |-> "failed"] \in Run /\ [at |-> "off"] \in Run
  /\ \A r \in Run : r.at = "run" => r \in Running
  /\ \A j \in Running : /\ j.file \in 1 .. 4 /\ j.stmt \in 1 .. 2 /\ j.at = "run"
                        /\ Migrations[j.file][j.stmt] \in Objects
                        /\ NextFile(j.file) \in Run /\ After(j) \in Run
<1>1. First \in Running
  BY DEF First, Running
<1>2. [at |-> "mkdir"] \in Run /\ [at |-> "failed"] \in Run /\ [at |-> "off"] \in Run
  BY DEF Run
<1>3. \A r \in Run : r.at = "run" => r \in Running
  BY DEF Run
<1>4. ASSUME NEW j \in Running
      PROVE  /\ j.file \in 1 .. 4 /\ j.stmt \in 1 .. 2 /\ j.at = "run"
             /\ Migrations[j.file][j.stmt] \in Objects
             /\ NextFile(j.file) \in Run /\ After(j) \in Run
  <2>1. j.file \in 1 .. 4 /\ j.stmt \in 1 .. 2 /\ j.at = "run"
    BY DEF Running
  <2>2. Migrations[j.file][j.stmt] \in Objects
    BY <2>1, ObjectsOfFiles
  <2>3. NextFile(j.file) \in Run
    <3>1. CASE j.file = 4
      BY <3>1 DEF NextFile, Run
    <3>2. CASE j.file # 4
      <4>1. j.file + 1 \in 1 .. 4
        BY <2>1, <3>2
      <4> QED BY <3>2, <4>1 DEF NextFile, Run, Running
    <3> QED BY <3>1, <3>2
  <2>4. [j EXCEPT !.stmt = 2] \in Running
    BY DEF Running
  <2> QED BY <2>1, <2>2, <2>3, <2>4 DEF After, Run
<1> QED BY <1>1, <1>2, <1>3, <1>4

-----------------------------------------------------------------------------
(* Every step is one of one runner, which goes to another of its states, or is the
   start of a runner. *)
LEMMA TypesKeep ==
  ASSUME TypeOK, [Next]_vars
  PROVE  TypeOK'
<1>1. MaxFaults \in Nat /\ "server" \in Runners /\ Tools \subseteq Runners
  BY ProvisioningConstants DEF Runners
<1>2. ASSUME Fault PROVE faults' \in 0 .. MaxFaults
  BY <1>1, <1>2 DEF Fault, TypeOK
<1>3. ASSUME NEW r \in Runners, NEW j \in Run, Goto(r, j) PROVE run' \in [Runners -> Run]
  BY <1>3 DEF Goto, TypeOK
<1>4. \A r \in Runners : run[r].at = "run" => run[r] \in Running
  BY RunStates DEF TypeOK
<1>5. CASE CommitOrg
  BY <1>1, <1>3, <1>5, RunStates DEF CommitOrg, TypeOK
<1>6. CASE MakeDir
  <2>1. First \in Run
    BY RunStates DEF Run
  <2> QED BY <1>1, <1>3, <1>6, <2>1 DEF MakeDir, TypeOK
<1>7. CASE MakeDirFails
  BY <1>1, <1>2, <1>3, <1>7, RunStates DEF MakeDirFails, TypeOK
<1>8. CASE SkipFile
  BY <1>1, <1>2, <1>3, <1>4, <1>8, RunStates DEF SkipFile, TypeOK
<1>9. CASE CrashServer
  BY <1>1, <1>2, <1>3, <1>9, RunStates DEF CrashServer, TypeOK
<1>10. ASSUME NEW r \in Runners, Apply(r) PROVE TypeOK'
  <2>1. run[r] \in Running
    BY <1>4, <1>10 DEF Apply
  <2>2. run' \in [Runners -> Run]
    BY <1>3, <1>10, <2>1, RunStates DEF Apply
  <2>3. schema' \subseteq Objects
    BY <1>10, <2>1, RunStates DEF Apply, TypeOK
  <2> QED BY <1>10, <2>2, <2>3 DEF Apply, TypeOK
<1>11. ASSUME NEW t \in Tools, StartTool(t) PROVE TypeOK'
  <2>1. First \in Run
    BY RunStates DEF Run
  <2> QED BY <1>1, <1>3, <1>11, <2>1 DEF StartTool, TypeOK
<1>12. ASSUME NEW t \in Tools, StopTool(t) PROVE TypeOK'
  BY <1>1, <1>2, <1>3, <1>12, RunStates DEF StopTool, TypeOK
<1>13. CASE UNCHANGED vars
  BY <1>13 DEF vars, TypeOK
<1> QED BY <1>5, <1>6, <1>7, <1>8, <1>9, <1>10, <1>11, <1>12, <1>13 DEF Next

LEMMA InitTypes == Init => TypeOK
<1>1. MaxFaults \in Nat
  BY ProvisioningConstants
<1>2. [at |-> "off"] \in Run
  BY RunStates
<1>3. ASSUME Init PROVE run \in [Runners -> Run]
  BY <1>2, <1>3 DEF Init
<1>4. 0 \in 0 .. MaxFaults
  BY <1>1
<1> QED BY <1>3, <1>4, Zenon DEF Init, TypeOK

(* Types of the provisioning: a runner's place is always a statement of a file. *)
THEOREM ProvisioningTypes == Spec => []TypeOK
<1> QED BY InitTypes, TypesKeep, PTL DEF Spec

-----------------------------------------------------------------------------
(* Statement s of file f comes before the one at j. *)
Earlier(f, s, j) == f < j.file \/ (f = j.file /\ s < j.stmt)

(* A run of the tool has left behind whatever it has passed: it never goes on
   after an error, unlike the goroutine. *)
Passed ==
  \A t \in Tools :
    /\ run[t].at = "run" =>
         \A f \in 1 .. 4, s \in 1 .. 2 : Earlier(f, s, run[t]) => Migrations[f][s] \in schema
    /\ run[t].at = "done" =>
         \A f \in 1 .. 4, s \in 1 .. 2 : Migrations[f][s] \in schema

(* A step that leaves a run of the tool where it is, or makes it fail, and drops
   nothing from the schema keeps what it has left behind. *)
LEMMA PassedStays ==
  ASSUME Passed, schema \subseteq schema',
         \A t \in Tools : run'[t] = run[t] \/ run'[t].at = "failed" \/ run'[t] = First
  PROVE  Passed'
<1>1. \A f \in 1 .. 4, s \in 1 .. 2 : ~ Earlier(f, s, First)
  BY DEF Earlier, First
<1>2. First.at = "run"
  BY DEF First
<1>3. ASSUME NEW t \in Tools
      PROVE  /\ run'[t].at = "run" =>
                  \A f \in 1 .. 4, s \in 1 .. 2 :
                    Earlier(f, s, run'[t]) => Migrations[f][s] \in schema'
             /\ run'[t].at = "done" =>
                  \A f \in 1 .. 4, s \in 1 .. 2 : Migrations[f][s] \in schema'
  BY <1>1, <1>2 DEF Passed
<1>4. \A t \in Tools, f \in 1 .. 4, s \in 1 .. 2 :
        Earlier(f, s, run[t])' <=> Earlier(f, s, run'[t])
  BY DEF Earlier
<1> QED BY <1>3, <1>4 DEF Passed

(* What comes before the place after j is what comes before j, and j itself. *)
LEMMA AfterOne ==
  ASSUME NEW j \in Running, NEW f \in 1 .. 4, NEW s \in 1 .. 2
  PROVE  /\ After(j).at \in {"run", "done"}
         /\ (After(j).at = "run" /\ Earlier(f, s, After(j))) =>
              Earlier(f, s, j) \/ (f = j.file /\ s = j.stmt)
         /\ After(j).at = "done" => Earlier(f, s, j) \/ (f = j.file /\ s = j.stmt)
<1>1. j.file \in 1 .. 4 /\ j.stmt \in 1 .. 2 /\ j.at = "run"
  BY DEF Running
<1>2. CASE j.stmt = 1
  <2>1. After(j) = [j EXCEPT !.stmt = 2]
    BY <1>2 DEF After
  <2>2. After(j).at = "run" /\ After(j).file = j.file /\ After(j).stmt = 2
    BY <2>1 DEF Running
  <2> QED BY <1>1, <1>2, <2>2 DEF Earlier
<1>3. CASE j.stmt = 2 /\ j.file = 4
  <2>1. After(j) = [at |-> "done"]
    BY <1>3 DEF After, NextFile
  <2>2. After(j).at = "done"
    BY <2>1
  <2> QED BY <1>1, <1>3, <2>2 DEF Earlier
<1>4. CASE j.stmt = 2 /\ j.file # 4
  <2>1. After(j) = [at |-> "run", file |-> j.file + 1, stmt |-> 1]
    BY <1>4 DEF After, NextFile
  <2>2. After(j).at = "run" /\ After(j).file = j.file + 1 /\ After(j).stmt = 1
    BY <2>1
  <2> QED BY <1>1, <1>4, <2>2 DEF Earlier
<1> QED BY <1>1, <1>2, <1>3, <1>4

LEMMA PassedKeeps ==
  ASSUME TypeOK, Passed, [Next]_vars
  PROVE  Passed'
<1>1. "server" \in Runners /\ "server" \notin Tools /\ Tools \subseteq Runners
  BY ProvisioningConstants DEF Runners
<1>2. CASE CommitOrg \/ MakeDir \/ MakeDirFails \/ SkipFile \/ CrashServer
  <2>1. schema' = schema /\ \E j : Goto("server", j)
    BY <1>2 DEF CommitOrg, MakeDir, MakeDirFails, SkipFile, CrashServer
  <2>2. \A t \in Tools : run'[t] = run[t]
    BY <1>1, <2>1 DEF Goto, TypeOK
  <2> QED BY <2>1, <2>2, PassedStays
<1>3. ASSUME NEW t \in Tools, StartTool(t) \/ StopTool(t) PROVE Passed'
  <2>1. schema' = schema /\ (Goto(t, First) \/ Goto(t, [at |-> "failed"]))
    BY <1>3 DEF StartTool, StopTool
  <2>2. \A u \in Tools : run'[u] = run[u] \/ run'[u].at = "failed" \/ run'[u] = First
    BY <1>1, <2>1 DEF Goto, TypeOK
  <2> QED BY <2>1, <2>2, PassedStays
<1>4. CASE Apply("server")
  <2>1. schema \subseteq schema' /\ \E j : Goto("server", j)
    BY <1>4 DEF Apply
  <2>2. \A t \in Tools : run'[t] = run[t]
    BY <1>1, <2>1 DEF Goto, TypeOK
  <2> QED BY <2>1, <2>2, PassedStays
<1>5. ASSUME NEW t \in Tools, Apply(t) PROVE Passed'
  <2>1. PICK j \in Running : j = run[t]
    BY <1>1, <1>5, RunStates DEF Apply, TypeOK
  <2>2. /\ schema' = schema \cup {Migrations[j.file][j.stmt]}
        /\ run' = [run EXCEPT ![t] = After(j)]
    BY <1>5, <2>1 DEF Apply, Goto
  <2>3. \A u \in Tools : run'[u] = IF u = t THEN After(j) ELSE run[u]
    BY <1>1, <2>2 DEF TypeOK
  <2>4. j.at = "run"
    BY RunStates
  <2>5. \A f \in 1 .. 4, s \in 1 .. 2 : Earlier(f, s, j) => Migrations[f][s] \in schema
    BY <2>1, <2>4 DEF Passed
  <2>6. ASSUME NEW f \in 1 .. 4, NEW s \in 1 .. 2
        PROVE  /\ (After(j).at = "run" /\ Earlier(f, s, After(j))) => Migrations[f][s] \in schema'
               /\ After(j).at = "done" => Migrations[f][s] \in schema'
    BY <2>2, <2>5, AfterOne
  <2>7. ASSUME NEW u \in Tools, u # t
        PROVE  /\ run'[u].at = "run" =>
                    \A f \in 1 .. 4, s \in 1 .. 2 :
                      Earlier(f, s, run'[u]) => Migrations[f][s] \in schema'
               /\ run'[u].at = "done" =>
                    \A f \in 1 .. 4, s \in 1 .. 2 : Migrations[f][s] \in schema'
    BY <2>2, <2>3, <2>7 DEF Passed
  <2>8. \A u \in Tools, f \in 1 .. 4, s \in 1 .. 2 :
          Earlier(f, s, run[u])' <=> Earlier(f, s, run'[u])
    BY DEF Earlier
  <2>9. ASSUME NEW u \in Tools
        PROVE  /\ run'[u].at = "run" =>
                    \A f \in 1 .. 4, s \in 1 .. 2 :
                      Earlier(f, s, run'[u]) => Migrations[f][s] \in schema'
               /\ run'[u].at = "done" =>
                    \A f \in 1 .. 4, s \in 1 .. 2 : Migrations[f][s] \in schema'
    <3>1. CASE u = t
      <4>1. run'[u] = After(j)
        BY <2>3, <3>1
      <4> QED BY <2>6, <4>1
    <3> QED BY <2>7, <3>1
  <2> QED BY <2>8, <2>9 DEF Passed
<1>6. CASE UNCHANGED vars
  BY <1>6, PassedStays DEF vars
<1> QED BY <1>2, <1>3, <1>4, <1>5, <1>6 DEF Next, Runners

LEMMA InitPassed == Init => Passed
<1> SUFFICES ASSUME Init PROVE Passed
  OBVIOUS
<1>1. \A t \in Tools : run[t].at = "off"
  BY DEF Init, Runners
<1> QED BY <1>1 DEF Passed

(* A run of cmd/migrate that reports success has left a whole schema, however many
   others, the goroutine among them, raced it and stopped half-way. *)
THEOREM SuccessMeansComplete == Spec => []ReportedIsComplete
<1>1. TypeOK /\ Passed => ReportedIsComplete
  <2> SUFFICES ASSUME TypeOK, Passed, NEW t \in Tools, run[t].at = "done"
               PROVE  schema = Objects
    BY DEF ReportedIsComplete, Complete
  <2>1. \A f \in 1 .. 4, s \in 1 .. 2 : Migrations[f][s] \in schema
    BY DEF Passed
  <2>2. Objects \subseteq schema
    BY <2>1, ObjectsOfFiles
  <2> QED BY <2>2 DEF TypeOK
<1>2. Init => TypeOK /\ Passed
  BY InitTypes, InitPassed
<1>3. TypeOK /\ Passed /\ [Next]_vars => TypeOK' /\ Passed'
  BY TypesKeep, PassedKeeps
<1> QED BY <1>1, <1>2, <1>3, PTL DEF Spec

-----------------------------------------------------------------------------
(* The migrations can be run again, beside the goroutine and beside themselves: a
   run fails by a failure of its own, or for want of the directory. *)
THEOREM MigrationsCanBeRepeated == Spec => RerunsSucceed
<1> DEFINE Ok(r) == (run[r].at = "run" /\ run'[r].at = "failed") => faults' > faults \/ ~dir
<1>1. ASSUME TypeOK, Next PROVE \A r \in Runners : Ok(r)
  <2>0. /\ faults \in Int
        /\ \A j \in Running : After(j).at # "failed" /\ NextFile(j.file).at # "failed"
        /\ First.at # "failed"
    <3>1. \A j \in Running : NextFile(j.file).at # "failed"
      BY DEF NextFile
    <3>2. \A j \in Running : After(j).at \in {"run", "done"}
      BY AfterOne
    <3> QED BY <1>1, <3>1, <3>2 DEF TypeOK, First
  <2>1. "server" \in Runners /\ Tools \subseteq Runners
    BY DEF Runners
  <2>2. ASSUME NEW r \in Runners, NEW j, Goto(r, j), j.at # "failed"
        PROVE  \A q \in Runners : Ok(q)
    BY <1>1, <2>2 DEF Goto, TypeOK
  <2>3. ASSUME Fault PROVE \A q \in Runners : Ok(q)
    BY <2>0, <2>3 DEF Fault
  <2>4. \A r \in Runners : run[r].at = "run" => run[r] \in Running
    BY <1>1, RunStates DEF TypeOK
  <2>5. CASE CommitOrg \/ MakeDir
    <3>1. \E j : Goto("server", j) /\ j.at # "failed"
      BY <2>0, <2>5 DEF CommitOrg, MakeDir
    <3> QED BY <2>1, <2>2, <3>1
  <2>6. CASE MakeDirFails \/ SkipFile \/ CrashServer
    BY <2>3, <2>6 DEF MakeDirFails, SkipFile, CrashServer
  <2>7. ASSUME NEW r \in Runners, Apply(r) PROVE \A q \in Runners : Ok(q)
    BY <2>0, <2>2, <2>4, <2>7 DEF Apply
  <2>8. ASSUME NEW t \in Tools, StartTool(t) PROVE \A q \in Runners : Ok(q)
    BY <2>0, <2>1, <2>2, <2>8 DEF StartTool
  <2>9. ASSUME NEW t \in Tools, StopTool(t) PROVE \A q \in Runners : Ok(q)
    <3>1. CASE dir
      BY <2>3, <2>9, <3>1 DEF StopTool
    <3>2. CASE ~dir
      BY <3>2
    <3> QED BY <3>1, <3>2
  <2> QED BY <1>1, <2>5, <2>6, <2>7, <2>8, <2>9 DEF Next
<1>2. TypeOK /\ [Next]_vars => [\A r \in Runners : Ok(r)]_vars
  BY <1>1
<1> HIDE DEF Ok
<1>3. [][TypeOK /\ [Next]_vars => [\A r \in Runners : Ok(r)]_vars]_vars
  BY <1>2, PTL
<1>4. Spec => [][\A r \in Runners : Ok(r)]_vars
  BY <1>3, ProvisioningTypes, PTL DEF Spec
<1> QED BY <1>4 DEF Ok, RerunsSucceed
-----------------------------------------------------------------------------
(* What ProvisionedOrFault rests on, beside the scheduler. *)

(* As long as nothing has failed, an organization's schema is complete or the next
   step of its goroutine is there to be taken: MakeDir's guard holds, or Apply's. *)
GoroutineOwes ==
  org /\ faults = 0 =>
    Complete \/ run["server"].at = "mkdir" \/ (run["server"].at = "run" /\ dir)

(* Statements a runner at j still has to run, the start and the directory counted. *)
Left(j) == CASE j.at = "off" -> 10
             [] j.at = "mkdir" -> 9
             [] j.at = "run" -> 11 - 2 * j.file - j.stmt
             [] OTHER -> 0

(* A run only goes forward: it is never set back, save that an operator may start
   the tool again, and each statement brings its end nearer. *)
RunsGoForward ==
  /\ \A r \in Runners : \/ run'[r] = run[r]
                        \/ Left(run'[r]) < Left(run[r])
                        \/ r \in Tools /\ run'[r] = First
  /\ \A r \in Runners : Apply(r) => Left(run'[r]) < Left(run[r])
  /\ MakeDir => Left(run'["server"]) < Left(run["server"])

LEMMA Lefts ==
  ASSUME NEW j
  PROVE  /\ j.at = "off" => Left(j) = 10
         /\ j.at = "mkdir" => Left(j) = 9
         /\ j.at = "run" => Left(j) = 11 - 2 * j.file - j.stmt
         /\ j.at \in {"done", "failed"} => Left(j) = 0
BY DEF Left

LEMMA LeftFalls ==
  /\ Left(First) = 8 /\ Left([at |-> "mkdir"]) = 9 /\ Left([at |-> "failed"]) = 0
  /\ \A j \in Running : /\ Left(j) \in 1 .. 8
                        /\ Left(NextFile(j.file)) < Left(j) /\ Left(After(j)) < Left(j)
<1>1. Left(First) = 8 /\ Left([at |-> "mkdir"]) = 9 /\ Left([at |-> "failed"]) = 0
  BY Lefts DEF First
<1>2. ASSUME NEW j \in Running
      PROVE  /\ Left(j) \in 1 .. 8
             /\ Left(NextFile(j.file)) < Left(j) /\ Left(After(j)) < Left(j)
  <2>1. j.file \in 1 .. 4 /\ j.stmt \in 1 .. 2 /\ Left(j) = 11 - 2 * j.file - j.stmt
    BY Lefts DEF Running
  <2>2. Left(NextFile(j.file)) = IF j.file = 4 THEN 0 ELSE 11 - 2 * (j.file + 1) - 1
    <3>1. CASE j.file = 4
      BY <3>1, Lefts DEF NextFile
    <3>2. CASE j.file # 4
      <4>1. PICK k : k = [at |-> "run", file |-> j.file + 1, stmt |-> 1]
        OBVIOUS
      <4>2. Left(k) = 11 - 2 * (j.file + 1) - 1
        BY <4>1, Lefts
      <4> QED BY <3>2, <4>1, <4>2 DEF NextFile
    <3> QED BY <3>1, <3>2
  <2>3. j.stmt = 1 => Left(After(j)) = 11 - 2 * j.file - 2
    <3> SUFFICES ASSUME j.stmt = 1 PROVE Left(After(j)) = 11 - 2 * j.file - 2
      OBVIOUS
    <3>1. PICK k : k = [j EXCEPT !.stmt = 2]
      OBVIOUS
    <3>2. k.at = "run" /\ k.file = j.file /\ k.stmt = 2
      BY <3>1 DEF Running
    <3> QED BY <3>1, <3>2, Lefts DEF After
  <2>4. j.stmt # 1 => Left(After(j)) = Left(NextFile(j.file))
    BY DEF After
  <2> QED BY <2>1, <2>2, <2>3, <2>4
<1> QED BY <1>1, <1>2

(* The goroutine's place, and what it has left behind if nothing has failed. *)
Behind(j) == \A f \in 1 .. 4, s \in 1 .. 2 : Earlier(f, s, j) => Migrations[f][s] \in schema

AtWork(j) ==
  /\ org <=> j.at # "off"
  /\ faults = 0 => /\ j.at # "failed"
                   /\ j.at = "run" => dir /\ Behind(j)
                   /\ j.at = "done" => Complete

ServerAtWork == AtWork(run["server"])

LEMMA ServerGoesOn ==
  ASSUME TypeOK, ServerAtWork, org' = org, dir => dir', schema \subseteq schema',
         schema' \subseteq Objects, run'["server"] = run["server"], faults' = 0 => faults = 0
  PROVE  ServerAtWork'
<1>1. Complete => Complete'
  BY DEF Complete
<1>2. \A f, s : Earlier(f, s, run["server"])' <=> Earlier(f, s, run["server"])
  BY DEF Earlier
<1>3. faults' = 0 /\ run["server"].at = "run" => dir' /\ Behind(run["server"])'
  BY <1>2 DEF ServerAtWork, AtWork, Behind
<1> QED BY <1>1, <1>3 DEF ServerAtWork, AtWork

(* The goroutine takes a statement. *)
LEMMA ServerApplies ==
  ASSUME TypeOK, TypeOK', ServerAtWork, Apply("server")
  PROVE  ServerAtWork'
<1>1. PICK j \in Running : j = run["server"]
  BY RunStates DEF Apply, TypeOK, Runners
<1>2. /\ j.at = "run" /\ dir /\ dir' = dir /\ org' = org /\ faults' = faults
      /\ schema' = schema \cup {Migrations[j.file][j.stmt]}
      /\ run'["server"] = After(j)
  BY <1>1 DEF Apply, Goto, TypeOK, Runners
<1>3. org /\ (faults = 0 => Behind(j))
  BY <1>1, <1>2 DEF ServerAtWork, AtWork
<1>4. PICK k : k = After(j)
  OBVIOUS
<1>5. ASSUME NEW f \in 1 .. 4, NEW s \in 1 .. 2, faults = 0
      PROVE  /\ (k.at = "run" /\ Earlier(f, s, k)) => Migrations[f][s] \in schema'
             /\ k.at = "done" => Migrations[f][s] \in schema'
  BY <1>2, <1>3, <1>4, <1>5, AfterOne DEF Behind
<1>6. k.at \in {"run", "done"}
  BY <1>4, AfterOne
<1>7. faults = 0 /\ k.at = "done" => Complete'
  <2> SUFFICES ASSUME faults = 0, k.at = "done" PROVE Objects \subseteq schema'
    BY DEF Complete, TypeOK
  <2> QED BY <1>5, ObjectsOfFiles
<1>8. \A f, s : Earlier(f, s, run["server"])' <=> Earlier(f, s, k)
  BY <1>2, <1>4 DEF Earlier
<1>9. faults = 0 /\ k.at = "run" => Behind(run["server"])'
  BY <1>5, <1>8 DEF Behind
<1> QED BY <1>2, <1>3, <1>4, <1>6, <1>7, <1>9 DEF ServerAtWork, AtWork

LEMMA ServerKeeps ==
  ASSUME TypeOK, TypeOK', ServerAtWork, [Next]_vars
  PROVE  ServerAtWork'
<1>1. "server" \in Runners /\ "server" \notin Tools /\ Tools \subseteq Runners
  BY ProvisioningConstants DEF Runners
<1>2. ASSUME NEW r \in Runners, NEW j, Goto(r, j)
      PROVE  run'[r] = j /\ \A q \in Runners : q # r => run'[q] = run[q]
  BY <1>2 DEF Goto, TypeOK
<1>3. Fault => faults' # 0
  BY DEF Fault, TypeOK
<1>4. schema' \subseteq Objects
  BY DEF TypeOK
<1>5. CASE CommitOrg
  <2>1. org' /\ run'["server"].at = "mkdir"
    BY <1>1, <1>2, <1>5 DEF CommitOrg
  <2> QED BY <2>1 DEF ServerAtWork, AtWork
<1>6. CASE MakeDir
  <2>1. org' = org /\ dir' /\ run'["server"] = First /\ run["server"].at = "mkdir"
    BY <1>1, <1>2, <1>6 DEF MakeDir
  <2>2. \A f \in 1 .. 4, s \in 1 .. 2 : ~ Earlier(f, s, run["server"])'
    BY <2>1 DEF Earlier, First
  <2> QED BY <2>1, <2>2 DEF ServerAtWork, AtWork, Behind, First
<1>7. CASE MakeDirFails \/ SkipFile \/ CrashServer
  <2>1. /\ org' = org /\ faults' # 0 /\ run["server"].at \in {"mkdir", "run"}
        /\ run'["server"].at # "off"
    <3>1. \A f : NextFile(f).at # "off"
      BY DEF NextFile
    <3>2. [at |-> "failed"].at # "off"
      OBVIOUS
    <3>3. \E j : j.at # "off" /\ Goto("server", j)
      BY <1>7, <3>1, <3>2 DEF MakeDirFails, SkipFile, CrashServer
    <3>4. org' = org /\ Fault /\ run["server"].at \in {"mkdir", "run"}
      BY <1>7 DEF MakeDirFails, SkipFile, CrashServer
    <3> QED BY <1>1, <1>2, <1>3, <3>3, <3>4
  <2> QED BY <2>1 DEF ServerAtWork, AtWork
<1>8. ASSUME NEW t \in Tools, StartTool(t) \/ StopTool(t) \/ Apply(t)
      PROVE  ServerAtWork'
  <2>1. /\ org' = org /\ dir' = dir /\ schema \subseteq schema'
        /\ faults' = 0 => faults = 0
    BY <1>3, <1>8 DEF StartTool, StopTool, Apply
  <2>2. run'["server"] = run["server"]
    BY <1>1, <1>2, <1>8 DEF StartTool, StopTool, Apply
  <2> QED BY <1>4, <2>1, <2>2, ServerGoesOn
<1>9. CASE UNCHANGED vars
  BY <1>4, <1>9, ServerGoesOn DEF vars
<1> QED BY <1>5, <1>6, <1>7, <1>8, <1>9, ServerApplies DEF Next, Runners

(* Until something fails, the goroutine owes a step that can be taken or has left
   the whole schema: nothing the tools do beside it can stop or block it. *)
THEOREM GoroutineIsNeverStuck == Spec => []GoroutineOwes
<1>1. Init => ServerAtWork
  BY ProvisioningConstants DEF Init, ServerAtWork, AtWork, Runners
<1>2. TypeOK /\ TypeOK' /\ ServerAtWork /\ [Next]_vars => ServerAtWork'
  BY ServerKeeps
<1>3. TypeOK /\ ServerAtWork => GoroutineOwes
  BY DEF ServerAtWork, AtWork, GoroutineOwes, TypeOK, Run, Running, Runners
<1> QED BY <1>1, <1>2, <1>3, ProvisioningTypes, PTL DEF Spec

LEMMA GoesForward ==
  ASSUME TypeOK, ServerAtWork, [Next]_vars
  PROVE  RunsGoForward
<1>1. "server" \in Runners /\ "server" \notin Tools /\ Tools \subseteq Runners
  BY ProvisioningConstants DEF Runners
<1>2. ASSUME NEW r \in Runners, NEW j, Goto(r, j)
      PROVE  run'[r] = j /\ \A q \in Runners : q # r => run'[q] = run[q]
  BY <1>2 DEF Goto, TypeOK
<1>3. \A r \in Runners : run[r].at = "run" => run[r] \in Running
  BY RunStates DEF TypeOK
<1>4. \A r \in Runners : run[r].at \in {"run", "mkdir"} => 0 < Left(run[r])
  BY <1>3, Lefts, LeftFalls
<1>5. CommitOrg => Left(run'["server"]) < Left(run["server"])
  <2> SUFFICES ASSUME CommitOrg PROVE Left(run'["server"]) < Left(run["server"])
    OBVIOUS
  <2>1. run["server"].at = "off" /\ run'["server"] = [at |-> "mkdir"]
    BY <1>1, <1>2 DEF CommitOrg, ServerAtWork, AtWork
  <2>2. Left(run["server"]) = 10 /\ Left(run'["server"]) = 9
    BY <2>1, Lefts, LeftFalls
  <2> QED BY <2>2
<1>6. MakeDir => Left(run'["server"]) < Left(run["server"])
  <2> SUFFICES ASSUME MakeDir PROVE Left(run'["server"]) < Left(run["server"])
    OBVIOUS
  <2>1. run["server"].at = "mkdir" /\ run'["server"] = First
    BY <1>1, <1>2 DEF MakeDir
  <2>2. Left(run["server"]) = 9 /\ Left(run'["server"]) = 8
    BY <2>1, Lefts, LeftFalls
  <2> QED BY <2>2
<1>7. ASSUME NEW r \in Runners, Apply(r) PROVE Left(run'[r]) < Left(run[r])
  <2>1. PICK j \in Running : j = run[r]
    BY <1>3, <1>7 DEF Apply
  <2>2. run'[r] = After(j)
    BY <1>7, <2>1 DEF Apply, Goto, TypeOK
  <2> QED BY <2>1, <2>2, LeftFalls
<1>8. SkipFile => Left(run'["server"]) < Left(run["server"])
  <2> SUFFICES ASSUME SkipFile PROVE Left(run'["server"]) < Left(run["server"])
    OBVIOUS
  <2>1. PICK j \in Running : j = run["server"]
    BY <1>1, <1>3 DEF SkipFile
  <2>2. run'["server"] = NextFile(j.file)
    BY <1>1, <2>1 DEF SkipFile, Goto, TypeOK
  <2> QED BY <2>1, <2>2, LeftFalls
<1>9. ASSUME NEW r \in Runners, run[r].at \in {"run", "mkdir"}, Goto(r, [at |-> "failed"])
      PROVE  Left(run'[r]) < Left(run[r])
  <2>1. run'[r] = [at |-> "failed"]
    BY <1>2, <1>9
  <2>2. Left(run'[r]) = 0
    BY <2>1, LeftFalls
  <2> QED BY <1>4, <1>9, <2>2
<1>10. \E r \in Runners : /\ \A q \in Runners : q # r => run'[q] = run[q]
                          /\ \/ run'[r] = run[r]
                             \/ Left(run'[r]) < Left(run[r])
                             \/ r \in Tools /\ run'[r] = First
  <2> DEFINE Forward(r) == /\ \A q \in Runners : q # r => run'[q] = run[q]
                           /\ \/ run'[r] = run[r]
                              \/ Left(run'[r]) < Left(run[r])
                              \/ r \in Tools /\ run'[r] = First
  <2>1. CASE CommitOrg \/ MakeDir \/ SkipFile
    <3>1. \E j : Goto("server", j)
      BY <2>1 DEF CommitOrg, MakeDir, SkipFile
    <3>2. Left(run'["server"]) < Left(run["server"])
      BY <1>5, <1>6, <1>8, <2>1
    <3> QED BY <1>1, <1>2, <3>1, <3>2
  <2>2. CASE MakeDirFails \/ CrashServer
    <3>1. run["server"].at \in {"run", "mkdir"} /\ Goto("server", [at |-> "failed"])
      BY <2>2 DEF MakeDirFails, CrashServer
    <3> QED BY <1>1, <1>2, <1>9, <3>1
  <2>3. ASSUME NEW t \in Tools, StopTool(t) PROVE Forward(t)
    <3>1. run[t].at = "run" /\ Goto(t, [at |-> "failed"])
      BY <2>3 DEF StopTool
    <3> QED BY <1>1, <1>2, <1>9, <3>1
  <2>4. ASSUME NEW t \in Tools, StartTool(t) PROVE Forward(t)
    BY <1>1, <1>2, <2>4 DEF StartTool
  <2>5. ASSUME NEW r \in Runners, Apply(r) PROVE Forward(r)
    <3>1. \E j : Goto(r, j)
      BY <2>5 DEF Apply
    <3> QED BY <1>2, <1>7, <2>5, <3>1
  <2>6. CASE UNCHANGED vars
    BY <1>1, <2>6 DEF vars
  <2>7. (\E r \in Runners : Forward(r)) \/ CommitOrg \/ MakeDir \/ SkipFile
          \/ MakeDirFails \/ CrashServer \/ UNCHANGED vars
    <3> HIDE DEF Forward
    <3> QED BY <1>1, <2>3, <2>4, <2>5 DEF Next
  <2> QED BY <2>1, <2>2, <2>6, <2>7
<1> QED BY <1>6, <1>7, <1>10 DEF RunsGoForward

(* Neither the goroutine nor a run of the tool repeats or skips back: each comes to
   an end after eight statements at most, whatever fails and whoever runs beside. *)
THEOREM MigrationsGoForward == Spec => [][RunsGoForward]_vars
<1>1. Init => ServerAtWork
  BY ProvisioningConstants DEF Init, ServerAtWork, AtWork, Runners
<1>2. TypeOK /\ TypeOK' /\ ServerAtWork /\ [Next]_vars => ServerAtWork' /\ RunsGoForward
  BY ServerKeeps, GoesForward
<1> QED BY <1>1, <1>2, ProvisioningTypes, PTL DEF Spec
=============================================================================
