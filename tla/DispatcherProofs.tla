------------------------- MODULE DispatcherProofs -------------------------
(* Theorems about Dispatcher, for every number of daemons, repositories,    *)
(* issues, runs and operators, and every budget.                            *)
EXTENDS Dispatcher, FiniteSetTheorems, TLAPS

---------------------------------------------------------------------------
(* Type correctness.                                                        *)

LEMMA InitType == Init => TypeOK
<1> SUFFICES ASSUME Init PROVE TypeOK OBVIOUS
<1>1. JobTypeOK BY DEF Init, JobTypeOK, Labels
<1>2. CycleTypeOK BY DEF Init, CycleTypeOK
<1>3. StoreTypeOK BY DEF Init, StoreTypeOK
<1>4. LeadTypeOK BY DEF Init, LeadTypeOK
<1>5. PeopleTypeOK BY DEF Init, PeopleTypeOK
<1> QED BY <1>1, <1>2, <1>3, <1>4, <1>5 DEF TypeOK

\* The two ways a daemon moves on.
LEMMA GoType ==
  ASSUME JobTypeOK, NEW d \in Daemons, NEW label \in Labels,
         Go(d, label), UNCHANGED jobVars
  PROVE  JobTypeOK'
  BY DEF JobTypeOK, Go, jobVars

LEMMA DropType ==
  ASSUME JobTypeOK, NEW d \in Daemons, NEW label \in Labels, Drop(d, label)
  PROVE  JobTypeOK'
  BY DEF JobTypeOK, Drop, Go

LEMMA AbandonType ==
  ASSUME JobTypeOK, CycleTypeOK, NEW d \in Daemons, AbandonRepo(d)
  PROVE  JobTypeOK' /\ CycleTypeOK'
<1>1. JobTypeOK' BY DropType DEF AbandonRepo, Labels
<1>2. CycleTypeOK' BY DEF AbandonRepo, CycleTypeOK
<1> QED BY <1>1, <1>2

\* A group of variables keeps its types when none of them changes.
LEMMA StutterType ==
  /\ JobTypeOK /\ UNCHANGED <<pc, jobVars>> => JobTypeOK'
  /\ CycleTypeOK /\ UNCHANGED cycleVars => CycleTypeOK'
  /\ StoreTypeOK /\ UNCHANGED <<issueStatus, runStatus, runIssue, hasPid, budgetVars>>
       => StoreTypeOK'
  /\ LeadTypeOK /\ UNCHANGED leadVars => LeadTypeOK'
  /\ PeopleTypeOK /\ UNCHANGED peopleVars => PeopleTypeOK'
  BY DEF JobTypeOK, CycleTypeOK, StoreTypeOK, LeadTypeOK, PeopleTypeOK,
         jobVars, cycleVars, budgetVars, leadVars, peopleVars

LEMMA AdmitType ==
  ASSUME TypeOK, NEW d \in Daemons, NEW allowed, NEW next \in Labels,
         Admit(d, allowed, next)
  PROVE  TypeOK'
<1>1. JobTypeOK'
  <2>1. CASE allowed BY <2>1, GoType DEF Admit, TypeOK
  <2>2. CASE ~allowed BY <2>2, DropType DEF Admit, TypeOK, Labels
  <2> QED BY <2>1, <2>2
<1> QED BY <1>1, StutterType DEF Admit, TypeOK

LEMMA CollectedType ==
  ASSUME LeadTypeOK, NEW d \in Daemons
  PROVE  Collected(d) \in [Runs -> {"none", "live", "zombie", "gone"}]
  BY DEF LeadTypeOK, Collected

\* Every step of a daemon's poll keeps the types.
LEMMA PollType ==
  ASSUME TypeOK, NEW d \in Daemons,
         \/ PollStart(d) \/ ListIssues(d) \/ JudgeIssue(d)
         \/ SeenIssue(d) \/ SeenNoIssue(d) \/ InsertIssue(d)
         \/ CheckGlobalCap(d) \/ CheckRepoCap(d) \/ CheckGlobalDay(d) \/ CheckRepoDay(d)
  PROVE  TypeOK'
<1> USE StutterType DEF TypeOK
<1>1. CASE PollStart(d)
  <2>1. JobTypeOK' BY <1>1, GoType DEF PollStart, Labels
  <2>2. CycleTypeOK' BY <1>1 DEF PollStart, CycleTypeOK
  <2> QED BY <1>1, <2>1, <2>2 DEF PollStart
<1>2. CASE ListIssues(d)
  <2> DEFINE Rows(open, labelled) ==
               {[issue |-> i, fresh |-> lastComment[i] = "none",
                 labelled |-> i \in labelled] : i \in open}
  <2>1. PICK repo \in reposLeft[d] :
          \E open \in SUBSET {i \in Issues : RepoOf[i] = repo} :
            \E labelled \in SUBSET (IF "label" \in Triggers[repo] THEN open ELSE {}) :
              /\ todo' = [todo EXCEPT ![d] = Rows(open, labelled)]
              /\ reposLeft' = [reposLeft EXCEPT ![d] = @ \ {repo}]
    BY <1>2 DEF ListIssues
  <2>2. PICK open \in SUBSET {i \in Issues : RepoOf[i] = repo} :
          \E labelled \in SUBSET (IF "label" \in Triggers[repo] THEN open ELSE {}) :
            /\ todo' = [todo EXCEPT ![d] = Rows(open, labelled)]
            /\ reposLeft' = [reposLeft EXCEPT ![d] = @ \ {repo}]
    BY <2>1
  <2>3. PICK labelled \in SUBSET (IF "label" \in Triggers[repo] THEN open ELSE {}) :
            /\ todo' = [todo EXCEPT ![d] = Rows(open, labelled)]
            /\ reposLeft' = [reposLeft EXCEPT ![d] = @ \ {repo}]
    BY <2>2
  <2>4. Rows(open, labelled) \subseteq Snapshot
    <3>1. ASSUME NEW i \in open
          PROVE  [issue |-> i, fresh |-> lastComment[i] = "none",
                  labelled |-> i \in labelled] \in Snapshot
      <4>1. i \in Issues OBVIOUS
      <4>2. \A a, b \in BOOLEAN : [issue |-> i, fresh |-> a, labelled |-> b] \in Snapshot
        BY <4>1 DEF Snapshot
      <4>3. (lastComment[i] = "none") \in BOOLEAN /\ (i \in labelled) \in BOOLEAN
        OBVIOUS
      <4> QED BY <4>2, <4>3, Zenon
    <3> QED BY <3>1, Zenon
  <2> HIDE DEF Rows
  <2>5. CycleTypeOK' BY <1>2, <2>3, <2>4 DEF ListIssues, CycleTypeOK
  <2> QED BY <1>2, <2>5 DEF ListIssues
<1>3. CASE JudgeIssue(d)
  <2>1. PICK s \in todo[d], fetched \in BOOLEAN :
               /\ here' = [here EXCEPT ![d] = s.issue]
               /\ reason' = [reason EXCEPT ![d] = ReasonFor(s, fetched)]
               /\ todo' = [todo EXCEPT ![d] = @ \ {s}]
    BY <1>3, Zenon DEF JudgeIssue
  <2>2. s.issue \in Issues BY DEF Snapshot, CycleTypeOK
  <2>3. ReasonFor(s, fetched) \in {"none", "auto", "adw"}
    BY DEF ReasonFor
  <2>4. JobTypeOK'
    BY <1>3, <2>1, <2>2, <2>3 DEF JudgeIssue, JobTypeOK, Go, Labels
  <2>5. CycleTypeOK' BY <1>3, <2>1 DEF JudgeIssue, CycleTypeOK
  <2> QED BY <1>3, <2>4, <2>5 DEF JudgeIssue
<1>4. CASE SeenIssue(d)
  <2>1. JobTypeOK' BY <1>4, GoType, DropType DEF SeenIssue, Labels
  <2> QED BY <1>4, <2>1 DEF SeenIssue
<1>5. CASE SeenNoIssue(d)
  <2>1. JobTypeOK' BY <1>5, GoType DEF SeenNoIssue, Labels
  <2> QED BY <1>5, <2>1 DEF SeenNoIssue
<1>6. CASE InsertIssue(d)
  <2>1. StoreTypeOK' BY <1>6 DEF InsertIssue, StoreTypeOK, budgetVars
  <2>2. JobTypeOK' /\ CycleTypeOK'
    <3>1. CASE issueStatus[here[d]] = "absent"
      BY <1>6, <3>1, GoType, DropType DEF InsertIssue, Labels
    <3>2. CASE issueStatus[here[d]] # "absent"
      BY <1>6, <3>2, AbandonType DEF InsertIssue
    <3> QED BY <3>1, <3>2
  <2> QED BY <1>6, <2>1, <2>2 DEF InsertIssue
<1>7. CASE CheckGlobalCap(d) BY <1>7, AdmitType DEF CheckGlobalCap, Labels
<1>8. CASE CheckRepoCap(d) BY <1>8, AdmitType DEF CheckRepoCap, Labels
<1>9. CASE CheckGlobalDay(d) BY <1>9, AdmitType DEF CheckGlobalDay, Labels
<1>10. CASE CheckRepoDay(d) BY <1>10, AdmitType DEF CheckRepoDay, Labels
<1> QED BY <1>1, <1>2, <1>3, <1>4, <1>5, <1>6, <1>7, <1>8, <1>9, <1>10

\* Every step of a daemon's dispatch keeps the types.
LEMMA DispatchType ==
  ASSUME TypeOK, NEW d \in Daemons,
         \/ SyncClone(d) \/ CreateRun(d) \/ StartRun(d) \/ RecordDispatch(d)
         \/ RefuseRuntime(d) \/ Spawn(d) \/ SpawnFails(d) \/ FailSpawn(d)
         \/ WritePid(d) \/ MarkDispatched(d)
  PROVE  TypeOK'
<1> USE StutterType DEF TypeOK
<1>1. CASE SyncClone(d)
  <2>1. JobTypeOK' /\ CycleTypeOK'
    <3>1. CASE Go(d, "create") /\ UNCHANGED <<jobVars, cycleVars>>
      BY <3>1, GoType DEF Labels
    <3>2. CASE AbandonRepo(d) BY <3>2, AbandonType
    <3> QED BY <1>1, <3>1, <3>2 DEF SyncClone
  <2>2. LeadTypeOK' BY <1>1, CollectedType DEF SyncClone, LeadTypeOK
  <2> QED BY <1>1, <2>1, <2>2 DEF SyncClone
<1>2. CASE CreateRun(d)
  <2>1. JobTypeOK' BY <1>2 DEF CreateRun, Go, JobTypeOK, Labels
  <2>2. StoreTypeOK' BY <1>2 DEF CreateRun, JobTypeOK, StoreTypeOK, ActiveStatuses, budgetVars
  <2> QED BY <1>2, <2>1, <2>2 DEF CreateRun
<1>3. CASE StartRun(d)
  <2>1. JobTypeOK' BY <1>3, GoType DEF StartRun, Labels
  <2>2. StoreTypeOK' BY <1>3 DEF StartRun, StoreTypeOK, ActiveStatuses, budgetVars
  <2> QED BY <1>3, <2>1, <2>2 DEF StartRun
<1>4. CASE RecordDispatch(d)
  <2>1. JobTypeOK' BY <1>4, GoType DEF RecordDispatch, Labels
  <2>2. StoreTypeOK' BY <1>4 DEF RecordDispatch, StoreTypeOK
  <2> QED BY <1>4, <2>1, <2>2 DEF RecordDispatch
<1>5. CASE RefuseRuntime(d) BY <1>5, AbandonType DEF RefuseRuntime
<1>6. CASE Spawn(d)
  <2>1. JobTypeOK' BY <1>6, GoType DEF Spawn, Labels
  <2>2. LeadTypeOK' BY <1>6, CollectedType DEF Spawn, LeadTypeOK
  <2>3. PeopleTypeOK'
    <3>1. \/ UNCHANGED overridden
          \/ overridden' = [overridden EXCEPT ![here[d]] = overridden[here[d]] + 1]
      <4>1. overridden \in [Issues -> Nat] BY DEF PeopleTypeOK
      <4> QED BY <1>6, <4>1 DEF Spawn
    <3>2. UNCHANGED <<lastComment, asked, asks, retried, faults>> BY <1>6 DEF Spawn
    <3> QED BY <3>1, <3>2 DEF PeopleTypeOK
  <2> QED BY <1>6, <2>1, <2>2, <2>3 DEF Spawn
<1>7. CASE SpawnFails(d)
  <2>1. JobTypeOK' BY <1>7, GoType DEF SpawnFails, Labels
  <2> QED BY <1>7, <2>1 DEF SpawnFails
<1>8. CASE FailSpawn(d)
  <2>1. JobTypeOK' BY <1>8, DropType DEF FailSpawn, Labels
  <2>2. StoreTypeOK' BY <1>8 DEF FailSpawn, StoreTypeOK, FinalStatuses, budgetVars
  <2> QED BY <1>8, <2>1, <2>2 DEF FailSpawn
<1>9. CASE WritePid(d)
  <2>1. JobTypeOK' BY <1>9, GoType DEF WritePid, Labels
  <2>2. StoreTypeOK' BY <1>9 DEF WritePid, StoreTypeOK, budgetVars
  <2> QED BY <1>9, <2>1, <2>2 DEF WritePid
<1>10. CASE MarkDispatched(d)
  <2>1. JobTypeOK' BY <1>10, DropType DEF MarkDispatched, Labels
  <2>2. StoreTypeOK'
    BY <1>10 DEF MarkDispatched, StoreTypeOK, TerminalIssueStatuses, budgetVars
  <2>3. PeopleTypeOK' BY <1>10 DEF MarkDispatched, PeopleTypeOK, peopleVars
  <2> QED BY <1>10, <2>1, <2>2, <2>3 DEF MarkDispatched
<1> QED BY <1>1, <1>2, <1>3, <1>4, <1>5, <1>6, <1>7, <1>8, <1>9, <1>10

\* Every step of a daemon's reap keeps the types.
LEMMA ReapType ==
  ASSUME TypeOK, NEW d \in Daemons,
         \/ ListActiveRuns(d) \/ ReapExited(d) \/ SkipRunning(d) \/ KillHung(d)
         \/ CloseRun(d) \/ CloseIssue(d) \/ EndCycle(d)
  PROVE  TypeOK'
<1> USE StutterType DEF TypeOK
<1>1. CASE ListActiveRuns(d)
  <2>1. JobTypeOK' BY <1>1, GoType DEF ListActiveRuns, Labels
  <2>2. CycleTypeOK' BY <1>1 DEF ListActiveRuns, CycleTypeOK, Active
  <2> QED BY <1>1, <2>1, <2>2 DEF ListActiveRuns
<1>2. CASE ReapExited(d)
  <2>1. PICK r \in left[d] :
          /\ proc' = [proc EXCEPT ![r] = "gone"]
          /\ left' = [left EXCEPT ![d] = @ \ {r}]
          /\ mine' = [mine EXCEPT ![d] = r]
          /\ verdict' = [verdict EXCEPT ![d] = Inferred(r)]
    BY <1>2 DEF ReapExited
  <2>2. r \in Runs BY DEF CycleTypeOK
  <2>3. Inferred(r) \in FinalStatuses BY DEF Inferred, FinalStatuses
  <2>4. JobTypeOK' BY <1>2, <2>1, <2>2, <2>3 DEF ReapExited, JobTypeOK, Go, Labels
  <2>5. CycleTypeOK' BY <1>2, <2>1 DEF ReapExited, CycleTypeOK
  <2>6. LeadTypeOK' BY <1>2, <2>1 DEF ReapExited, LeadTypeOK
  <2> QED BY <1>2, <2>4, <2>5, <2>6 DEF ReapExited
<1>3. CASE SkipRunning(d)
  <2>1. CycleTypeOK' BY <1>3 DEF SkipRunning, CycleTypeOK
  <2> QED BY <1>3, <2>1 DEF SkipRunning
<1>4. CASE KillHung(d)
  <2>1. PICK r \in left[d] :
          /\ proc' = [proc EXCEPT ![r] = IF parent[r] = NoDaemon THEN "gone" ELSE "zombie"]
          /\ left' = [left EXCEPT ![d] = @ \ {r}]
          /\ mine' = [mine EXCEPT ![d] = r]
          /\ verdict' = [verdict EXCEPT ![d] = "failed"]
    BY <1>4 DEF KillHung
  <2>2. r \in Runs BY DEF CycleTypeOK
  <2>3. JobTypeOK'
    BY <1>4, <2>1, <2>2 DEF KillHung, JobTypeOK, Go, Labels, FinalStatuses
  <2>4. CycleTypeOK' BY <1>4, <2>1 DEF KillHung, CycleTypeOK
  <2>5. LeadTypeOK' BY <1>4, <2>1 DEF KillHung, Interrupted, LeadTypeOK
  <2> QED BY <1>4, <2>3, <2>4, <2>5 DEF KillHung
<1>5. CASE CloseRun(d)
  <2>1. JobTypeOK' BY <1>5, GoType DEF CloseRun, Labels
  <2>2. StoreTypeOK' BY <1>5 DEF CloseRun, StoreTypeOK, JobTypeOK, budgetVars
  <2> QED BY <1>5, <2>1, <2>2 DEF CloseRun
<1>6. CASE CloseIssue(d)
  <2>1. JobTypeOK' BY <1>6, DropType DEF CloseIssue, Labels
  <2>2. StoreTypeOK'
    BY <1>6 DEF CloseIssue, StoreTypeOK, TerminalIssueStatuses, budgetVars
  <2> QED BY <1>6, <2>1, <2>2 DEF CloseIssue
<1>7. CASE EndCycle(d)
  <2>1. JobTypeOK' BY <1>7, GoType DEF EndCycle, Labels
  <2> QED BY <1>7, <2>1 DEF EndCycle
<1> QED BY <1>1, <1>2, <1>3, <1>4, <1>5, <1>6, <1>7

\* The steps of Leads, users, operators, the calendar and the machine.
LEMMA WorldType ==
  ASSUME TypeOK,
         \/ \E r \in Runs : LeadSaves(r) \/ LeadComments(r) \/ LeadExits(r) \/ Ages(r)
         \/ \E i \in Issues : UserAsks(i) \/ UserComments(i)
         \/ \E o \in Operators : RetryWrite(o) \/ \E i \in Issues : RetryCheck(o, i)
         \/ NewDay
         \/ \E d \in Daemons : Crash(d) \/ StoreFails(d)
  PROVE  TypeOK'
<1> USE StutterType DEF TypeOK
<1>1. ASSUME NEW r \in Runs, LeadSaves(r) PROVE TypeOK'
  <2>1. LeadTypeOK' BY <1>1 DEF LeadSaves, LeadTypeOK
  <2> QED BY <1>1, <2>1 DEF LeadSaves
<1>2. ASSUME NEW r \in Runs, LeadComments(r) PROVE TypeOK'
  <2>1. PeopleTypeOK' BY <1>2 DEF LeadComments, PeopleTypeOK
  <2> QED BY <1>2, <2>1 DEF LeadComments
<1>3. ASSUME NEW r \in Runs, LeadExits(r) PROVE TypeOK'
  <2>1. LeadTypeOK' BY <1>3 DEF LeadExits, Interrupted, LeadTypeOK
  <2> QED BY <1>3, <2>1 DEF LeadExits
<1>4. ASSUME NEW r \in Runs, Ages(r) PROVE TypeOK'
  <2>1. LeadTypeOK' BY <1>4 DEF Ages, LeadTypeOK
  <2> QED BY <1>4, <2>1 DEF Ages
<1>5. ASSUME NEW i \in Issues, UserAsks(i) PROVE TypeOK'
  <2>1. PeopleTypeOK' BY <1>5 DEF UserAsks, PeopleTypeOK
  <2> QED BY <1>5, <2>1 DEF UserAsks
<1>6. ASSUME NEW i \in Issues, UserComments(i) PROVE TypeOK'
  <2>1. PeopleTypeOK' BY <1>6 DEF UserComments, PeopleTypeOK
  <2> QED BY <1>6, <2>1 DEF UserComments
<1>7. ASSUME NEW o \in Operators, RetryWrite(o) PROVE TypeOK'
  <2>1. StoreTypeOK' BY <1>7 DEF RetryWrite, StoreTypeOK, budgetVars
  <2>2. asks[o] \in Issues BY <1>7 DEF RetryWrite, PeopleTypeOK
  <2>3. PeopleTypeOK' BY <1>7, <2>2 DEF RetryWrite, PeopleTypeOK
  <2> QED BY <1>7, <2>1, <2>3 DEF RetryWrite
<1>8. ASSUME NEW o \in Operators, NEW i \in Issues, RetryCheck(o, i) PROVE TypeOK'
  <2>1. PeopleTypeOK' BY <1>8 DEF RetryCheck, PeopleTypeOK
  <2> QED BY <1>8, <2>1 DEF RetryCheck
<1>9. CASE NewDay
  <2>1. StoreTypeOK' BY <1>9 DEF NewDay, StoreTypeOK
  <2> QED BY <1>9, <2>1 DEF NewDay
<1>10. ASSUME NEW d \in Daemons, Crash(d) PROVE TypeOK'
  <2>1. JobTypeOK' BY <1>10, DropType DEF Crash, Labels
  <2>2. CycleTypeOK' BY <1>10 DEF Crash, CycleTypeOK
  <2>3. LeadTypeOK' BY <1>10 DEF Crash, LeadTypeOK
  <2>4. PeopleTypeOK' BY <1>10 DEF Crash, PeopleTypeOK
  <2> QED BY <1>10, <2>1, <2>2, <2>3, <2>4 DEF Crash
<1>11. ASSUME NEW d \in Daemons, StoreFails(d) PROVE TypeOK'
  <2>1. JobTypeOK' /\ CycleTypeOK'
    <3>1. CASE AbandonRepo(d) BY <3>1, AbandonType
    <3>2. CASE /\ Drop(d, "idle")
               /\ reposLeft' = [reposLeft EXCEPT ![d] = {}]
               /\ todo' = [todo EXCEPT ![d] = {}]
               /\ left' = [left EXCEPT ![d] = {}]
      BY <3>2, DropType DEF CycleTypeOK, Labels
    <3> QED BY <1>11, <3>1, <3>2 DEF StoreFails
  <2>2. PeopleTypeOK' BY <1>11 DEF StoreFails, PeopleTypeOK
  <2> QED BY <1>11, <2>1, <2>2 DEF StoreFails
<1> QED BY <1>1, <1>2, <1>3, <1>4, <1>5, <1>6, <1>7, <1>8, <1>9, <1>10, <1>11

\* The variables of a dispatcher always hold what their columns, locals and
\* processes can hold, in every execution of any number of processes.
THEOREM TypeCorrect == Spec => []TypeOK
<1>1. TypeOK /\ [Next]_vars => TypeOK'
  <2> SUFFICES ASSUME TypeOK, [Next]_vars PROVE TypeOK' OBVIOUS
  <2>1. CASE UNCHANGED vars
    BY <2>1, StutterType DEF vars, TypeOK, cycleVars, budgetVars
  <2>2. ASSUME NEW d \in Daemons, Cycle(d) PROVE TypeOK'
    BY <2>2, PollType, DispatchType, ReapType DEF Cycle
  <2> QED BY <2>1, <2>2, WorldType DEF Next
<1> QED BY InitType, <1>1, PTL DEF Spec

---------------------------------------------------------------------------
(* The concurrency caps.  The argument has two parts: a Lead that is alive   *)
(* has an active row (LaunchInv), and the active rows together with the      *)
(* daemons that have been admitted and not yet inserted theirs stay under    *)
(* the cap plus one per further daemon (CapInv).                             *)

USE DEF LaunchInv, Launching, Closing, Active, LiveLeads, ActiveStatuses, FinalStatuses

LEMMA InitLaunch == Init => LaunchInv
  BY DEF Init

\* Steps that start no Lead and write no row: at most Leads stop, listings
\* shrink and daemons move to places where they hold no run.
LEMMA QuietLaunch ==
  ASSUME TypeOK, LaunchInv, UNCHANGED <<runStatus, hasPid>>,
         \A r \in Runs : \/ proc'[r] = proc[r]
                         \/ proc[r] \in {"live", "zombie"} /\ proc'[r] \in {"zombie", "gone"},
         \A d \in Daemons : left'[d] \subseteq left[d],
         \A d \in Daemons : \/ /\ pc'[d] = pc[d] /\ mine'[d] = mine[d]
                               /\ verdict'[d] = verdict[d]
                            \/ pc'[d] \notin Launching \union Closing
  PROVE  LaunchInv'
  BY DEF TypeOK, CycleTypeOK

LEMMA CycleLaunch ==
  ASSUME TypeOK, LaunchInv, NEW d \in Daemons, Cycle(d)
  PROVE  LaunchInv'
<1> USE DEF TypeOK, JobTypeOK, CycleTypeOK, jobVars, cycleVars, leadVars
<1>1. CASE PollStart(d) BY <1>1, QuietLaunch DEF PollStart, Go
<1>2. CASE ListIssues(d) BY <1>2, QuietLaunch DEF ListIssues
<1>3. CASE JudgeIssue(d) BY <1>3, QuietLaunch DEF JudgeIssue, Go
<1>4. CASE SeenIssue(d) BY <1>4, QuietLaunch DEF SeenIssue, Go, Drop
<1>5. CASE SeenNoIssue(d) BY <1>5, QuietLaunch DEF SeenNoIssue, Go
<1>6. CASE InsertIssue(d) BY <1>6, QuietLaunch DEF InsertIssue, AbandonRepo, Go, Drop
<1>7. CASE CheckGlobalCap(d) BY <1>7, QuietLaunch DEF CheckGlobalCap, Admit, Go, Drop
<1>8. CASE CheckRepoCap(d) BY <1>8, QuietLaunch DEF CheckRepoCap, Admit, Go, Drop
<1>9. CASE CheckGlobalDay(d) BY <1>9, QuietLaunch DEF CheckGlobalDay, Admit, Go, Drop
<1>10. CASE CheckRepoDay(d) BY <1>10, QuietLaunch DEF CheckRepoDay, Admit, Go, Drop
<1>11. CASE SyncClone(d)
  <2>1. \A r \in Runs : \/ proc'[r] = proc[r]
                        \/ proc[r] = "zombie" /\ proc'[r] = "gone"
    BY <1>11 DEF SyncClone, Collected, LeadTypeOK
  <2> QED BY <1>11, <2>1, QuietLaunch DEF SyncClone, AbandonRepo, Go, Drop
<1>12. CASE CreateRun(d)
  BY <1>12 DEF CreateRun, Go, StoreTypeOK, LeadTypeOK
<1>13. CASE StartRun(d)
  BY <1>13 DEF StartRun, Go, StoreTypeOK, LeadTypeOK
<1>14. CASE RecordDispatch(d)
  BY <1>14 DEF RecordDispatch, Go, StoreTypeOK, LeadTypeOK
<1>15. CASE RefuseRuntime(d) BY <1>15, QuietLaunch DEF RefuseRuntime, AbandonRepo, Go, Drop
<1>16. CASE Spawn(d)
  <2>1. \A r \in Runs \ {mine[d]} : \/ proc'[r] = proc[r]
                                    \/ proc[r] = "zombie" /\ proc'[r] = "gone"
    BY <1>16 DEF Spawn, Collected, LeadTypeOK
  <2>2. proc'[mine[d]] = "live" BY <1>16 DEF Spawn, Collected
  <2> QED BY <1>16, <2>1, <2>2 DEF Spawn, Go
<1>17. CASE SpawnFails(d) BY <1>17 DEF SpawnFails, Go
<1>18. CASE FailSpawn(d)
  <2>1. mine[d] \in Runs /\ proc[mine[d]] = "none" BY <1>18 DEF FailSpawn
  <2>2. \A e \in Daemons \ {d} : pc[e] \in Launching => mine[e] # mine[d]
    BY <1>18 DEF FailSpawn
  <2>3. /\ \A r \in Runs \ {mine[d]} : runStatus'[r] = runStatus[r]
        /\ runStatus'[mine[d]] = "failed"
    BY <1>18, <2>1 DEF FailSpawn, StoreTypeOK
  <2>4. /\ \A e \in Daemons \ {d} : pc'[e] = pc[e] /\ mine'[e] = mine[e]
                                     /\ verdict'[e] = verdict[e]
        /\ pc'[d] = "scan"
        /\ UNCHANGED <<hasPid, proc, left>>
    BY <1>18 DEF FailSpawn, Drop, Go
  <2> QED BY <2>1, <2>2, <2>3, <2>4, SMTT(30) DEF LeadTypeOK
<1>19. CASE WritePid(d)
  BY <1>19 DEF WritePid, Go, StoreTypeOK, LeadTypeOK
<1>20. CASE MarkDispatched(d) BY <1>20, QuietLaunch DEF MarkDispatched, Drop, Go
<1>21. CASE ListActiveRuns(d)
  BY <1>21 DEF ListActiveRuns, Go
<1>22. CASE ReapExited(d)
  <2>1. PICK r \in left[d] :
          /\ proc[r] = "gone" \/ (proc[r] = "zombie" /\ parent[r] = d)
          /\ proc' = [proc EXCEPT ![r] = "gone"]
          /\ left' = [left EXCEPT ![d] = @ \ {r}]
          /\ mine' = [mine EXCEPT ![d] = r]
          /\ verdict' = [verdict EXCEPT ![d] = Inferred(r)]
    BY <1>22 DEF ReapExited
  <2>2. Inferred(r) \in FinalStatuses BY DEF Inferred
  <2>3. r \in Runs /\ hasPid[r] OBVIOUS
  <2> QED BY <1>22, <2>1, <2>2, <2>3 DEF ReapExited, Go, LeadTypeOK, StoreTypeOK
<1>23. CASE SkipRunning(d)
  BY <1>23, QuietLaunch DEF SkipRunning
<1>24. CASE KillHung(d)
  <2>1. PICK r \in left[d] :
          /\ Answers(d, r)
          /\ proc' = [proc EXCEPT ![r] = IF parent[r] = NoDaemon THEN "gone" ELSE "zombie"]
          /\ left' = [left EXCEPT ![d] = @ \ {r}]
          /\ mine' = [mine EXCEPT ![d] = r]
          /\ verdict' = [verdict EXCEPT ![d] = "failed"]
    BY <1>24 DEF KillHung
  <2>2. r \in Runs /\ hasPid[r] OBVIOUS
  <2> QED BY <1>24, <2>1, <2>2 DEF KillHung, Go, LeadTypeOK, StoreTypeOK
<1>25. CASE CloseRun(d)
  BY <1>25, SMTT(30) DEF CloseRun, Go, StoreTypeOK, LeadTypeOK
<1>26. CASE CloseIssue(d) BY <1>26, QuietLaunch DEF CloseIssue, Drop, Go
<1>27. CASE EndCycle(d) BY <1>27, QuietLaunch DEF EndCycle, Go
<1> QED
  BY <1>1, <1>2, <1>3, <1>4, <1>5, <1>6, <1>7, <1>8, <1>9, <1>10, <1>11, <1>12,
     <1>13, <1>14, <1>15, <1>16, <1>17, <1>18, <1>19, <1>20, <1>21, <1>22, <1>23,
     <1>24, <1>25, <1>26, <1>27 DEF Cycle

LEMMA WorldLaunch ==
  ASSUME TypeOK, LaunchInv,
         \/ \E r \in Runs : LeadSaves(r) \/ LeadComments(r) \/ LeadExits(r) \/ Ages(r)
         \/ \E i \in Issues : UserAsks(i) \/ UserComments(i)
         \/ \E o \in Operators : RetryWrite(o) \/ \E i \in Issues : RetryCheck(o, i)
         \/ NewDay
         \/ \E d \in Daemons : Crash(d) \/ StoreFails(d)
  PROVE  LaunchInv'
<1> USE DEF TypeOK, JobTypeOK, CycleTypeOK, LeadTypeOK, jobVars, cycleVars, leadVars
<1>1. ASSUME NEW r \in Runs, LeadExits(r) PROVE LaunchInv'
  BY <1>1, QuietLaunch DEF LeadExits
<1>2. ASSUME NEW d \in Daemons, Crash(d) PROVE LaunchInv'
  <2>1. \A r \in Runs : \/ proc'[r] = proc[r]
                        \/ proc[r] \in {"live", "zombie"} /\ proc'[r] = "gone"
    BY <1>2 DEF Crash
  <2>2. UNCHANGED <<runStatus, hasPid>> BY <1>2 DEF Crash
  <2>3. \A e \in Daemons : left'[e] \subseteq left[e] BY <1>2 DEF Crash
  <2>4. \A e \in Daemons : \/ /\ pc'[e] = pc[e] /\ mine'[e] = mine[e]
                               /\ verdict'[e] = verdict[e]
                            \/ pc'[e] \notin Launching \union Closing
    BY <1>2 DEF Crash, Drop, Go
  <2> QED BY <2>1, <2>2, <2>3, <2>4, QuietLaunch
<1>3. ASSUME NEW d \in Daemons, StoreFails(d) PROVE LaunchInv'
  BY <1>3, QuietLaunch, SMTT(30) DEF StoreFails, AbandonRepo, Drop, Go
<1>4. CASE UNCHANGED <<pc, mine, verdict, left, runStatus, hasPid, proc>>
  BY <1>4, QuietLaunch
<1>5. ASSUME NEW r \in Runs, LeadSaves(r) \/ LeadComments(r) \/ Ages(r) PROVE LaunchInv'
  BY <1>4, <1>5 DEF LeadSaves, LeadComments, Ages
<1>6. ASSUME NEW i \in Issues, UserAsks(i) \/ UserComments(i) PROVE LaunchInv'
  BY <1>4, <1>6 DEF UserAsks, UserComments
<1>7. ASSUME NEW o \in Operators, RetryWrite(o) \/ \E i \in Issues : RetryCheck(o, i)
      PROVE LaunchInv'
  BY <1>4, <1>7 DEF RetryWrite, RetryCheck
<1>8. CASE NewDay BY <1>4, <1>8 DEF NewDay
<1> QED BY <1>1, <1>2, <1>3, <1>5, <1>6, <1>7, <1>8

\* A run that is being launched is hidden from every reaper and belongs to
\* one daemon, and a Lead that is alive has an active row.
THEOREM LaunchSafe == Spec => []LaunchInv
<1>1. TypeOK /\ LaunchInv /\ [Next]_vars => LaunchInv'
  <2> SUFFICES ASSUME TypeOK, LaunchInv, [Next]_vars PROVE LaunchInv' OBVIOUS
  <2>1. CASE UNCHANGED vars
    BY <2>1, QuietLaunch DEF vars, jobVars, cycleVars, leadVars
  <2> QED BY <2>1, CycleLaunch, WorldLaunch DEF Next
<1> QED BY InitLaunch, TypeCorrect, <1>1, PTL DEF Spec

---------------------------------------------------------------------------
(* Counting: a finite set that is counted, and one of daemons let in.       *)

HIDE DEF LaunchInv, Launching, Closing, Active, LiveLeads

LEMMA CardinalityIsNat ==
  ASSUME NEW S, IsFiniteSet(S) PROVE Cardinality(S) \in Nat
  BY FS_CardinalityType

LEMMA SumShrinks ==
  ASSUME NEW A, NEW B, IsFiniteSet(A), IsFiniteSet(B), NEW k \in Int,
         NEW A2 \in SUBSET A, NEW B2 \in SUBSET B,
         Cardinality(A) + Cardinality(B) <= k
  PROVE  Cardinality(A2) + Cardinality(B2) <= k
<1>1. Cardinality(A2) <= Cardinality(A) /\ Cardinality(B2) <= Cardinality(B)
  BY FS_Subset
<1>2. /\ Cardinality(A) \in Nat /\ Cardinality(B) \in Nat
      /\ Cardinality(A2) \in Nat /\ Cardinality(B2) \in Nat
  BY FS_Subset, FS_CardinalityType
<1> QED BY <1>1, <1>2

\* One daemon turns its admission into one more element.
LEMMA SumMoves ==
  ASSUME NEW A, NEW B, IsFiniteSet(A), IsFiniteSet(B), NEW k \in Int,
         NEW x, NEW d \in B, NEW A2 \in SUBSET (A \union {x}), NEW B2 \in SUBSET (B \ {d}),
         Cardinality(A) + Cardinality(B) <= k
  PROVE  Cardinality(A2) + Cardinality(B2) <= k
<1>1. /\ IsFiniteSet(A \union {x})
      /\ Cardinality(A \union {x}) <= Cardinality(A) + 1
  <2>1. Cardinality(A) \in Nat BY CardinalityIsNat
  <2>2. /\ IsFiniteSet(A \union {x})
        /\ Cardinality(A \union {x}) = IF x \in A THEN Cardinality(A) ELSE Cardinality(A) + 1
    BY FS_AddElement, Zenon
  <2> QED BY <2>1, <2>2
<1>2. /\ IsFiniteSet(B \ {d})
      /\ Cardinality(B \ {d}) = Cardinality(B) - 1
  BY FS_RemoveElement
<1>3. Cardinality(A2) <= Cardinality(A \union {x}) /\ Cardinality(B2) <= Cardinality(B \ {d})
  BY <1>1, <1>2, FS_Subset
<1>4. /\ Cardinality(A) \in Nat /\ Cardinality(B) \in Nat
      /\ Cardinality(A \union {x}) \in Nat
      /\ Cardinality(A2) \in Nat /\ Cardinality(B2) \in Nat
  BY <1>1, <1>2, FS_Subset, CardinalityIsNat
<1> QED BY <1>1, <1>2, <1>3, <1>4

\* A daemon is let in under the cap: at worst all daemons are in.
LEMMA SumEnters ==
  ASSUME NEW A, NEW D, IsFiniteSet(A), IsFiniteSet(D), NEW m \in Nat,
         NEW A2 \in SUBSET A, NEW D2 \in SUBSET D,
         Cardinality(A) < m
  PROVE  Cardinality(A2) + Cardinality(D2) <= m + Cardinality(D) - 1
<1>1. Cardinality(A2) <= Cardinality(A) /\ Cardinality(D2) <= Cardinality(D)
  BY FS_Subset
<1>2. /\ Cardinality(A) \in Nat /\ Cardinality(D) \in Nat
      /\ Cardinality(A2) \in Nat /\ Cardinality(D2) \in Nat
  BY FS_Subset, CardinalityIsNat
<1> QED BY <1>1, <1>2

LEMMA Finite ==
  /\ IsFiniteSet(Active) /\ IsFiniteSet(Admitted) /\ IsFiniteSet(LiveLeads)
  /\ IsFiniteSet(UsedToday) /\ IsFiniteSet(AdmittedToday)
  /\ \A repo : /\ IsFiniteSet(ActiveOf(repo)) /\ IsFiniteSet(AdmittedTo(repo))
  /\ Cardinality(Daemons) \in Nat \ {0}
<1>1. /\ Active \in SUBSET Runs /\ LiveLeads \in SUBSET Runs /\ UsedToday \in SUBSET Runs
      /\ Admitted \in SUBSET Daemons /\ AdmittedToday \in SUBSET Daemons
      /\ \A repo : ActiveOf(repo) \in SUBSET Runs /\ AdmittedTo(repo) \in SUBSET Daemons
  BY DEF Active, LiveLeads, UsedToday, Admitted, AdmittedToday, ActiveOf, AdmittedTo
<1>2. Cardinality(Daemons) \in Nat \ {0}
  BY ActorsAssumption, CardinalityIsNat, FS_EmptySet
<1>3. \A S : S \in SUBSET Runs \/ S \in SUBSET Daemons => IsFiniteSet(S)
  BY ActorsAssumption, FS_Subset
<1> QED BY <1>1, <1>2, <1>3

LEMMA InitCaps == Init => CapInv /\ DayInv
<1> SUFFICES ASSUME Init PROVE CapInv /\ DayInv OBVIOUS
<1>1. /\ Active = {} /\ UsedToday = {} /\ Admitted = {} /\ AdmittedToday = {}
      /\ \A repo : ActiveOf(repo) = {} /\ AdmittedTo(repo) = {}
  BY DEF Init, Active, UsedToday, Admitted, AdmittedToday, ActiveOf, AdmittedTo
<1>2. Cardinality({}) = 0 BY FS_EmptySet
<1>3. CapInv BY <1>1, <1>2, Finite, BudgetAssumption DEF CapInv
<1>4. DayInv
  <2>1. day = 1 /\ (\A r \in Runs : counted[r] = 0) /\ Launched = {}
        /\ (\A d \in Daemons : pc[d] = "idle")
    BY DEF Init, Launched
  <2> QED BY <1>1, <1>2, <2>1, Finite, BudgetAssumption DEF DayInv
<1> QED BY <1>3, <1>4

\* Steps that insert no row and pass no cap check keep CapInv.
LEMMA QuietCaps ==
  ASSUME TypeOK, CapInv,
         \A r \in Runs : /\ runStatus'[r] \in ActiveStatuses => runStatus[r] \in ActiveStatuses
                         /\ runIssue'[r] = runIssue[r],
         \A d \in Daemons : pc'[d] \in {"repo_cap", "global_day", "repo_day", "sync", "create"} =>
           /\ here'[d] = here[d]
           /\ pc[d] \in {"repo_cap", "global_day", "repo_day", "sync", "create"}
           /\ pc[d] = "repo_cap" => pc'[d] = "repo_cap"
  PROVE  CapInv'
<1>1. Active' \in SUBSET Active /\ Admitted' \in SUBSET Admitted
  BY DEF Active, Admitted
<1>2. ASSUME NEW repo \in Repos
      PROVE  ActiveOf(repo)' \in SUBSET ActiveOf(repo)
             /\ AdmittedTo(repo)' \in SUBSET AdmittedTo(repo)
  BY DEF Active, ActiveOf, AdmittedTo
<1>3. Cardinality(Active') + Cardinality(Admitted') <= MaxConcurrent + Cardinality(Daemons) - 1
  BY <1>1, Finite, SumShrinks, BudgetAssumption DEF CapInv
<1>4. ASSUME NEW repo \in Repos
      PROVE  Cardinality(ActiveOf(repo)') + Cardinality(AdmittedTo(repo)')
               <= RepoMaxConcurrent + Cardinality(Daemons) - 1
  BY <1>2, Finite, SumShrinks, BudgetAssumption DEF CapInv
<1> QED BY <1>3, <1>4 DEF CapInv

LEMMA CycleCaps ==
  ASSUME TypeOK, LaunchInv, CapInv, NEW d \in Daemons, Cycle(d)
  PROVE  CapInv'
<1> USE DEF TypeOK, JobTypeOK, jobVars, cycleVars, Go, Drop
<1>1. CASE PollStart(d) BY <1>1, QuietCaps DEF PollStart
<1>2. CASE ListIssues(d) BY <1>2, QuietCaps DEF ListIssues
<1>3. CASE JudgeIssue(d) BY <1>3, QuietCaps DEF JudgeIssue
<1>4. CASE SeenIssue(d) BY <1>4, QuietCaps DEF SeenIssue
<1>5. CASE SeenNoIssue(d) BY <1>5, QuietCaps DEF SeenNoIssue
<1>6. CASE InsertIssue(d) BY <1>6, QuietCaps DEF InsertIssue, AbandonRepo
<1>7. CASE CheckGlobalCap(d)
  <2>1. CASE Cardinality(Active) < MaxConcurrent
    <3>1. /\ Active' = Active /\ Admitted' \in SUBSET Daemons
          /\ \A repo : ActiveOf(repo)' = ActiveOf(repo) /\ AdmittedTo(repo)' = AdmittedTo(repo)
      BY <1>7, <2>1 DEF CheckGlobalCap, Admit, Active, ActiveOf, Admitted, AdmittedTo
    <3>2. Cardinality(Active') + Cardinality(Admitted') <= MaxConcurrent + Cardinality(Daemons) - 1
      BY <2>1, <3>1, Finite, SumEnters, ActorsAssumption, BudgetAssumption
    <3> QED BY <3>1, <3>2 DEF CapInv
  <2>2. CASE ~(Cardinality(Active) < MaxConcurrent)
    BY <1>7, <2>2, QuietCaps DEF CheckGlobalCap, Admit
  <2> QED BY <2>1, <2>2
<1>8. CASE CheckRepoCap(d)
  <2> DEFINE repo == RepoOf[here[d]]
  <2>1. CASE Cardinality(ActiveOf(repo)) < RepoMaxConcurrent
    <3>1. /\ Active' = Active /\ Admitted' = Admitted
          /\ \A p : ActiveOf(p)' = ActiveOf(p)
          /\ \A p : AdmittedTo(p)' \in SUBSET Daemons
          /\ \A p : p # repo => AdmittedTo(p)' = AdmittedTo(p)
      BY <1>8, <2>1 DEF CheckRepoCap, Admit, Active, ActiveOf, Admitted, AdmittedTo
    <3> HIDE DEF repo
    <3>2. ASSUME NEW p \in Repos, p = repo
          PROVE  Cardinality(ActiveOf(p)') + Cardinality(AdmittedTo(p)')
                   <= RepoMaxConcurrent + Cardinality(Daemons) - 1
      <4>1. /\ ActiveOf(p)' \in SUBSET ActiveOf(p) /\ AdmittedTo(p)' \in SUBSET Daemons
            /\ IsFiniteSet(ActiveOf(p)) /\ IsFiniteSet(Daemons)
            /\ RepoMaxConcurrent \in Nat /\ Cardinality(ActiveOf(p)) < RepoMaxConcurrent
        BY <2>1, <3>1, <3>2, Finite, ActorsAssumption, BudgetAssumption
      <4> QED BY <4>1, SumEnters
    <3>3. ASSUME NEW p \in Repos, p # repo
          PROVE  Cardinality(ActiveOf(p)') + Cardinality(AdmittedTo(p)')
                   <= RepoMaxConcurrent + Cardinality(Daemons) - 1
      BY <3>1, <3>3 DEF CapInv
    <3>4. Cardinality(Active') + Cardinality(Admitted') <= MaxConcurrent + Cardinality(Daemons) - 1
      BY <3>1 DEF CapInv
    <3> QED BY <3>2, <3>3, <3>4 DEF CapInv
  <2>2. CASE ~(Cardinality(ActiveOf(repo)) < RepoMaxConcurrent)
    BY <1>8, <2>2, QuietCaps DEF CheckRepoCap, Admit
  <2> QED BY <2>1, <2>2
<1>9. CASE CheckGlobalDay(d) BY <1>9, QuietCaps DEF CheckGlobalDay, Admit
<1>10. CASE CheckRepoDay(d) BY <1>10, QuietCaps DEF CheckRepoDay, Admit
<1>11. CASE SyncClone(d) BY <1>11, QuietCaps DEF SyncClone, AbandonRepo
<1>12. CASE CreateRun(d)
  <2> DEFINE repo == RepoOf[here[d]]
  <2>1. PICK r \in Runs : /\ runStatus[r] = "none"
                          /\ runStatus' = [runStatus EXCEPT ![r] = "pending"]
                          /\ runIssue' = [runIssue EXCEPT ![r] = here[d]]
    BY <1>12 DEF CreateRun
  <2>2. /\ Active' \in SUBSET (Active \union {r})
        /\ d \in Admitted /\ Admitted' \in SUBSET (Admitted \ {d})
    BY <1>12, <2>1 DEF CreateRun, Active, Admitted, StoreTypeOK
  <2>3. ASSUME NEW p \in Repos, p = repo
        PROVE  /\ ActiveOf(p)' \in SUBSET (ActiveOf(p) \union {r})
               /\ d \in AdmittedTo(p) /\ AdmittedTo(p)' \in SUBSET (AdmittedTo(p) \ {d})
    BY <1>12, <2>1, <2>3 DEF CreateRun, Active, ActiveOf, AdmittedTo, StoreTypeOK
  <2>4. ASSUME NEW p \in Repos, p # repo
        PROVE  /\ ActiveOf(p)' \in SUBSET ActiveOf(p)
               /\ AdmittedTo(p)' \in SUBSET AdmittedTo(p)
    BY <1>12, <2>1, <2>4 DEF CreateRun, Active, ActiveOf, AdmittedTo, StoreTypeOK
  <2>5. Cardinality(Active') + Cardinality(Admitted') <= MaxConcurrent + Cardinality(Daemons) - 1
    <3>1. /\ IsFiniteSet(Active) /\ IsFiniteSet(Admitted)
          /\ MaxConcurrent + Cardinality(Daemons) - 1 \in Int
          /\ Cardinality(Active) + Cardinality(Admitted)
               <= MaxConcurrent + Cardinality(Daemons) - 1
      BY Finite, BudgetAssumption DEF CapInv
    <3> QED BY <2>2, <3>1, SumMoves
  <2> HIDE DEF repo
  <2>6. ASSUME NEW p \in Repos
        PROVE  Cardinality(ActiveOf(p)') + Cardinality(AdmittedTo(p)')
                 <= RepoMaxConcurrent + Cardinality(Daemons) - 1
    <3>1. CASE p = repo
      <4>1. /\ IsFiniteSet(ActiveOf(p)) /\ IsFiniteSet(AdmittedTo(p))
            /\ RepoMaxConcurrent + Cardinality(Daemons) - 1 \in Int
            /\ Cardinality(ActiveOf(p)) + Cardinality(AdmittedTo(p))
                 <= RepoMaxConcurrent + Cardinality(Daemons) - 1
        BY Finite, BudgetAssumption DEF CapInv
      <4>2. /\ ActiveOf(p)' \in SUBSET (ActiveOf(p) \union {r})
            /\ d \in AdmittedTo(p) /\ AdmittedTo(p)' \in SUBSET (AdmittedTo(p) \ {d})
        BY <2>3, <3>1
      <4> QED BY <4>1, <4>2, SumMoves, ZenonT(30)
    <3>2. CASE p # repo BY <2>4, <3>2, Finite, SumShrinks, BudgetAssumption DEF CapInv
    <3> QED BY <3>1, <3>2
  <2> QED BY <2>5, <2>6 DEF CapInv
<1>13. CASE StartRun(d)
  <2>1. runStatus[mine[d]] \in ActiveStatuses
    BY <1>13 DEF StartRun, LaunchInv, Launching, Active
  <2> QED BY <1>13, <2>1, QuietCaps DEF StartRun, StoreTypeOK
<1>14. CASE RecordDispatch(d) BY <1>14, QuietCaps DEF RecordDispatch
<1>15. CASE RefuseRuntime(d) BY <1>15, QuietCaps DEF RefuseRuntime, AbandonRepo
<1>16. CASE Spawn(d) BY <1>16, QuietCaps DEF Spawn
<1>17. CASE SpawnFails(d) BY <1>17, QuietCaps DEF SpawnFails
<1>18. CASE FailSpawn(d)
  BY <1>18, QuietCaps DEF FailSpawn, StoreTypeOK, ActiveStatuses
<1>19. CASE WritePid(d) BY <1>19, QuietCaps DEF WritePid
<1>20. CASE MarkDispatched(d) BY <1>20, QuietCaps DEF MarkDispatched
<1>21. CASE ListActiveRuns(d) BY <1>21, QuietCaps DEF ListActiveRuns
<1>22. CASE ReapExited(d) BY <1>22, QuietCaps DEF ReapExited
<1>23. CASE SkipRunning(d) BY <1>23, QuietCaps DEF SkipRunning
<1>24. CASE KillHung(d) BY <1>24, QuietCaps DEF KillHung
<1>25. CASE CloseRun(d)
  <2>1. verdict[d] \in FinalStatuses BY <1>25 DEF CloseRun, LaunchInv, Closing
  <2> QED BY <1>25, <2>1, QuietCaps DEF CloseRun, StoreTypeOK, ActiveStatuses, FinalStatuses
<1>26. CASE CloseIssue(d) BY <1>26, QuietCaps DEF CloseIssue
<1>27. CASE EndCycle(d) BY <1>27, QuietCaps DEF EndCycle
<1> QED
  BY <1>1, <1>2, <1>3, <1>4, <1>5, <1>6, <1>7, <1>8, <1>9, <1>10, <1>11, <1>12,
     <1>13, <1>14, <1>15, <1>16, <1>17, <1>18, <1>19, <1>20, <1>21, <1>22, <1>23,
     <1>24, <1>25, <1>26, <1>27 DEF Cycle

\* Nothing but a daemon's own cycle inserts a row or passes a check.
LEMMA WorldCaps ==
  ASSUME TypeOK, CapInv,
         \/ \E r \in Runs : LeadSaves(r) \/ LeadComments(r) \/ LeadExits(r) \/ Ages(r)
         \/ \E i \in Issues : UserAsks(i) \/ UserComments(i)
         \/ \E o \in Operators : RetryWrite(o) \/ \E i \in Issues : RetryCheck(o, i)
         \/ NewDay
         \/ \E d \in Daemons : Crash(d) \/ StoreFails(d)
  PROVE  CapInv'
<1> USE DEF TypeOK, JobTypeOK, jobVars
<1>1. CASE UNCHANGED <<pc, here, runStatus, runIssue>> BY <1>1, QuietCaps
<1>2. ASSUME NEW r \in Runs, LeadSaves(r) \/ LeadComments(r) \/ LeadExits(r) \/ Ages(r)
      PROVE  CapInv'
  BY <1>1, <1>2 DEF LeadSaves, LeadComments, LeadExits, Ages
<1>3. ASSUME NEW i \in Issues, UserAsks(i) \/ UserComments(i) PROVE CapInv'
  BY <1>1, <1>3 DEF UserAsks, UserComments
<1>4. ASSUME NEW o \in Operators, RetryWrite(o) \/ \E i \in Issues : RetryCheck(o, i)
      PROVE CapInv'
  BY <1>1, <1>4 DEF RetryWrite, RetryCheck
<1>5. CASE NewDay BY <1>1, <1>5 DEF NewDay
<1>6. ASSUME NEW d \in Daemons, Crash(d) PROVE CapInv'
  BY <1>6, QuietCaps DEF Crash, Drop, Go
<1>7. ASSUME NEW d \in Daemons, StoreFails(d) PROVE CapInv'
  BY <1>7, QuietCaps DEF StoreFails, AbandonRepo, Drop, Go
<1> QED BY <1>2, <1>3, <1>4, <1>5, <1>6, <1>7

LEMMA CapInvHolds == Spec => []CapInv
<1>1. TypeOK /\ LaunchInv /\ CapInv /\ [Next]_vars => CapInv'
  <2> SUFFICES ASSUME TypeOK, LaunchInv, CapInv, [Next]_vars PROVE CapInv' OBVIOUS
  <2>1. CASE UNCHANGED vars
    BY <2>1, QuietCaps DEF vars, jobVars
  <2> QED BY <2>1, CycleCaps, WorldCaps DEF Next
<1>2. Init => CapInv BY InitCaps
<1> QED BY <1>1, <1>2, TypeCorrect, LaunchSafe, PTL DEF Spec

\* However many dispatcher processes share the database, crash or fail, the
\* Leads alive at one time exceed max_concurrent_runs, and those of one
\* repository its own cap, by at most one per further process.
THEOREM CapsHold == Spec => []ConcurrencyCaps
<1>1. LaunchInv /\ CapInv => ConcurrencyCaps
  <2> SUFFICES ASSUME LaunchInv, CapInv PROVE ConcurrencyCaps OBVIOUS
  <2>1. LiveLeads \in SUBSET Active BY DEF LaunchInv, Active, LiveLeads
  <2>2. Cardinality(LiveLeads) <= Cardinality(Active) /\ Cardinality(LiveLeads) \in Nat
    BY <2>1, Finite, FS_Subset, CardinalityIsNat
  <2>3. ASSUME NEW repo \in Repos
        PROVE  Cardinality({r \in LiveLeads : RepoOf[runIssue[r]] = repo})
                 <= RepoMaxConcurrent + Cardinality(Daemons) - 1
    <3> DEFINE live == {r \in LiveLeads : RepoOf[runIssue[r]] = repo}
    <3>1. live \in SUBSET ActiveOf(repo) BY <2>1 DEF ActiveOf
    <3> HIDE DEF live
    <3>2. IsFiniteSet(live) /\ Cardinality(live) <= Cardinality(ActiveOf(repo))
      BY <3>1, Finite, FS_Subset
    <3>3. /\ Cardinality(ActiveOf(repo)) \in Nat /\ Cardinality(AdmittedTo(repo)) \in Nat
          /\ Cardinality(live) \in Nat
      BY <3>2, Finite, CardinalityIsNat
    <3>4. Cardinality(live) <= RepoMaxConcurrent + Cardinality(Daemons) - 1
      BY <3>2, <3>3, Finite, BudgetAssumption DEF CapInv
    <3> QED BY <3>4 DEF live
  <2>4. Cardinality(Active) \in Nat /\ Cardinality(Admitted) \in Nat
    BY Finite, CardinalityIsNat
  <2>5. Cardinality(LiveLeads) <= MaxConcurrent + Cardinality(Daemons) - 1
    BY <2>2, <2>4, Finite, BudgetAssumption DEF CapInv
  <2> QED BY <2>3, <2>5 DEF ConcurrencyCaps
<1> QED BY CapInvHolds, LaunchSafe, <1>1, PTL

---------------------------------------------------------------------------
(* The daily run budget.                                                    *)

\* Steps that count no run, start no Lead and pass no check of the daily
\* budget keep DayInv.
LEMMA QuietDay ==
  ASSUME TypeOK, DayInv, UNCHANGED budgetVars,
         \A r \in Runs : proc'[r] # "none" => proc[r] # "none",
         \A d \in Daemons : /\ pc'[d] \in {"repo_day", "sync", "create", "start", "count"} =>
                                 pc[d] \in {"repo_day", "sync", "create", "start", "count"}
                            /\ pc'[d] = "spawn" => pc[d] = "spawn" /\ mine'[d] = mine[d]
  PROVE  DayInv'
<1>1. UsedToday' = UsedToday /\ AdmittedToday' \in SUBSET AdmittedToday
  BY DEF UsedToday, AdmittedToday, budgetVars
<1>2. Cardinality(UsedToday') + Cardinality(AdmittedToday')
        <= MaxRunsPerDay + Cardinality(Daemons) - 1
  <2>1. /\ IsFiniteSet(UsedToday) /\ IsFiniteSet(AdmittedToday)
        /\ MaxRunsPerDay + Cardinality(Daemons) - 1 \in Int
        /\ Cardinality(UsedToday) + Cardinality(AdmittedToday)
             <= MaxRunsPerDay + Cardinality(Daemons) - 1
    BY Finite, BudgetAssumption DEF DayInv
  <2>2. UsedToday' \in SUBSET UsedToday BY <1>1
  <2> QED BY <1>1, <2>1, <2>2, SumShrinks
<1>3. /\ day' # 0 /\ \A r \in Runs : counted'[r] <= day'
      /\ \A r \in Launched' : counted'[r] # 0
      /\ \A d \in Daemons : pc'[d] = "spawn" => counted'[mine'[d]] # 0
  BY DEF DayInv, budgetVars, Launched
<1> QED BY <1>2, <1>3 DEF DayInv

\* A run is counted by a daemon that was let in.
LEMMA DayMoves ==
  ASSUME DayInv, NEW r, NEW d \in AdmittedToday,
         UsedToday' \in SUBSET (UsedToday \union {r}),
         AdmittedToday' \in SUBSET (AdmittedToday \ {d})
  PROVE  Cardinality(UsedToday') + Cardinality(AdmittedToday')
           <= MaxRunsPerDay + Cardinality(Daemons) - 1
<1>1. /\ IsFiniteSet(UsedToday) /\ IsFiniteSet(AdmittedToday)
      /\ MaxRunsPerDay + Cardinality(Daemons) - 1 \in Int
      /\ Cardinality(UsedToday) + Cardinality(AdmittedToday)
           <= MaxRunsPerDay + Cardinality(Daemons) - 1
  BY Finite, BudgetAssumption DEF DayInv
<1> QED BY <1>1, SumMoves, ZenonT(30)

LEMMA CycleDay ==
  ASSUME TypeOK, LaunchInv, DayInv, NEW d \in Daemons, Cycle(d)
  PROVE  DayInv'
<1> USE DEF TypeOK, JobTypeOK, jobVars, budgetVars, leadVars, Go, Drop
<1>1. CASE PollStart(d) BY <1>1, QuietDay DEF PollStart
<1>2. CASE ListIssues(d) BY <1>2, QuietDay DEF ListIssues
<1>3. CASE JudgeIssue(d) BY <1>3, QuietDay DEF JudgeIssue
<1>4. CASE SeenIssue(d) BY <1>4, QuietDay DEF SeenIssue
<1>5. CASE SeenNoIssue(d) BY <1>5, QuietDay DEF SeenNoIssue
<1>6. CASE InsertIssue(d) BY <1>6, QuietDay DEF InsertIssue, AbandonRepo
<1>7. CASE CheckGlobalCap(d) BY <1>7, QuietDay DEF CheckGlobalCap, Admit
<1>8. CASE CheckRepoCap(d) BY <1>8, QuietDay DEF CheckRepoCap, Admit
<1>9. CASE CheckGlobalDay(d)
  <2>1. CASE Cardinality(UsedToday) < MaxRunsPerDay
    <3>1. /\ UsedToday' = UsedToday /\ AdmittedToday' \in SUBSET Daemons
      BY <1>9 DEF CheckGlobalDay, Admit, UsedToday, AdmittedToday
    <3>2. Cardinality(UsedToday') + Cardinality(AdmittedToday')
            <= MaxRunsPerDay + Cardinality(Daemons) - 1
      <4>1. /\ IsFiniteSet(UsedToday) /\ IsFiniteSet(Daemons) /\ MaxRunsPerDay \in Nat
            /\ UsedToday' \in SUBSET UsedToday
        BY <3>1, Finite, ActorsAssumption, BudgetAssumption
      <4> QED BY <2>1, <3>1, <4>1, SumEnters
    <3>3. /\ UNCHANGED <<counted, day, proc>>
          /\ \A e \in Daemons : pc'[e] = "spawn" => pc[e] = "spawn" /\ mine'[e] = mine[e]
      BY <1>9 DEF CheckGlobalDay, Admit
    <3> QED BY <3>2, <3>3 DEF DayInv, Launched
  <2>2. CASE ~(Cardinality(UsedToday) < MaxRunsPerDay)
    BY <1>9, <2>2, QuietDay DEF CheckGlobalDay, Admit
  <2> QED BY <2>1, <2>2
<1>10. CASE CheckRepoDay(d) BY <1>10, QuietDay DEF CheckRepoDay, Admit
<1>11. CASE SyncClone(d) BY <1>11, QuietDay DEF SyncClone, AbandonRepo, Collected
<1>12. CASE CreateRun(d) BY <1>12, QuietDay DEF CreateRun
<1>13. CASE StartRun(d) BY <1>13, QuietDay DEF StartRun
<1>14. CASE RecordDispatch(d)
  <2>1. mine[d] \in Runs BY <1>14 DEF RecordDispatch, LaunchInv, Launching, Active
  <2>2. /\ UsedToday' \in SUBSET (UsedToday \union {mine[d]})
        /\ d \in AdmittedToday /\ AdmittedToday' \in SUBSET (AdmittedToday \ {d})
    BY <1>14, <2>1 DEF RecordDispatch, UsedToday, AdmittedToday, StoreTypeOK
  <2>3. Cardinality(UsedToday') + Cardinality(AdmittedToday')
          <= MaxRunsPerDay + Cardinality(Daemons) - 1
    BY <2>2, DayMoves
  <2>4. /\ day' = day /\ day \in Nat /\ proc' = proc /\ mine' = mine
        /\ \A r \in Runs : counted'[r] = IF r = mine[d] THEN day ELSE counted[r]
        /\ \A e \in Daemons : pc'[e] = "spawn" => e = d \/ pc[e] = "spawn"
    BY <1>14 DEF RecordDispatch, StoreTypeOK
  <2>5. \A e \in Daemons : pc[e] = "spawn" => mine[e] \in Runs
    BY DEF LaunchInv, Launching, Active
  <2> QED BY <2>1, <2>3, <2>4, <2>5 DEF DayInv, Launched
<1>15. CASE RefuseRuntime(d) BY <1>15, QuietDay DEF RefuseRuntime, AbandonRepo
<1>16. CASE Spawn(d)
  <2>1. /\ counted[mine[d]] # 0
        /\ \A r \in Runs : proc'[r] # "none" => r = mine[d] \/ proc[r] # "none"
    BY <1>16 DEF Spawn, Collected, DayInv, LeadTypeOK
  <2>2. /\ UsedToday' = UsedToday /\ AdmittedToday' = AdmittedToday
        /\ counted' = counted /\ day' = day /\ mine' = mine
        /\ \A e \in Daemons : pc'[e] = "spawn" => pc[e] = "spawn"
    BY <1>16 DEF Spawn, UsedToday, AdmittedToday
  <2> QED BY <2>1, <2>2 DEF DayInv, Launched
<1>17. CASE SpawnFails(d) BY <1>17, QuietDay DEF SpawnFails
<1>18. CASE FailSpawn(d) BY <1>18, QuietDay DEF FailSpawn
<1>19. CASE WritePid(d) BY <1>19, QuietDay DEF WritePid
<1>20. CASE MarkDispatched(d) BY <1>20, QuietDay DEF MarkDispatched
<1>21. CASE ListActiveRuns(d) BY <1>21, QuietDay DEF ListActiveRuns
<1>22. CASE ReapExited(d)
  <2>1. \A r \in Runs : proc'[r] # "none" => proc[r] # "none"
    BY <1>22 DEF ReapExited, Collected, LeadTypeOK
  <2> QED BY <1>22, <2>1, QuietDay DEF ReapExited
<1>23. CASE SkipRunning(d) BY <1>23, QuietDay DEF SkipRunning
<1>24. CASE KillHung(d)
  <2>1. PICK r \in left[d] :
          /\ Answers(d, r)
          /\ proc' = [proc EXCEPT ![r] = IF parent[r] = NoDaemon THEN "gone" ELSE "zombie"]
    BY <1>24 DEF KillHung
  <2>2. \A q \in Runs : proc'[q] # "none" => proc[q] # "none"
    BY <2>1 DEF LeadTypeOK, CycleTypeOK, Answers
  <2> QED BY <1>24, <2>2, QuietDay DEF KillHung
<1>25. CASE CloseRun(d) BY <1>25, QuietDay DEF CloseRun
<1>26. CASE CloseIssue(d) BY <1>26, QuietDay DEF CloseIssue
<1>27. CASE EndCycle(d) BY <1>27, QuietDay DEF EndCycle
<1> QED
  BY <1>1, <1>2, <1>3, <1>4, <1>5, <1>6, <1>7, <1>8, <1>9, <1>10, <1>11, <1>12,
     <1>13, <1>14, <1>15, <1>16, <1>17, <1>18, <1>19, <1>20, <1>21, <1>22, <1>23,
     <1>24, <1>25, <1>26, <1>27 DEF Cycle

\* At midnight the count of the day is empty again, and at worst every daemon
\* has been let in the day before.
LEMMA WorldDay ==
  ASSUME TypeOK, DayInv,
         \/ \E r \in Runs : LeadSaves(r) \/ LeadComments(r) \/ LeadExits(r) \/ Ages(r)
         \/ \E i \in Issues : UserAsks(i) \/ UserComments(i)
         \/ \E o \in Operators : RetryWrite(o) \/ \E i \in Issues : RetryCheck(o, i)
         \/ NewDay
         \/ \E d \in Daemons : Crash(d) \/ StoreFails(d)
  PROVE  DayInv'
<1> USE DEF TypeOK, JobTypeOK, jobVars, budgetVars, leadVars
<1>1. CASE UNCHANGED <<pc, mine, counted, day, proc>> BY <1>1, QuietDay
<1>2. ASSUME NEW r \in Runs, LeadSaves(r) \/ LeadComments(r) \/ Ages(r) PROVE DayInv'
  BY <1>1, <1>2 DEF LeadSaves, LeadComments, Ages
<1>3. ASSUME NEW r \in Runs, LeadExits(r) PROVE DayInv'
  <2>1. \A q \in Runs : proc'[q] # "none" => proc[q] # "none"
    BY <1>3 DEF LeadExits, LeadTypeOK
  <2> QED BY <1>3, <2>1, QuietDay DEF LeadExits
<1>4. ASSUME NEW i \in Issues, UserAsks(i) \/ UserComments(i) PROVE DayInv'
  BY <1>1, <1>4 DEF UserAsks, UserComments
<1>5. ASSUME NEW o \in Operators, RetryWrite(o) \/ \E i \in Issues : RetryCheck(o, i)
      PROVE DayInv'
  BY <1>1, <1>5 DEF RetryWrite, RetryCheck
<1>6. CASE NewDay
  <2>1. /\ day \in Nat /\ day' = day + 1 /\ \A r \in Runs : counted[r] \in Nat
        /\ pc' = pc /\ mine' = mine /\ counted' = counted /\ proc' = proc
    BY <1>6 DEF NewDay, StoreTypeOK
  <2>2. UsedToday' = {} /\ AdmittedToday' \in SUBSET Daemons
    BY <2>1 DEF UsedToday, AdmittedToday, DayInv
  <2>3. /\ IsFiniteSet({}) /\ IsFiniteSet(Daemons) /\ MaxRunsPerDay \in Nat
        /\ Cardinality({}) < MaxRunsPerDay /\ UsedToday' \in SUBSET {}
    BY <2>2, FS_EmptySet, ActorsAssumption, BudgetAssumption
  <2>4. Cardinality(UsedToday') + Cardinality(AdmittedToday')
          <= MaxRunsPerDay + Cardinality(Daemons) - 1
    BY <2>2, <2>3, SumEnters
  <2> QED BY <2>1, <2>4 DEF DayInv, Launched
<1>7. ASSUME NEW d \in Daemons, Crash(d) PROVE DayInv'
  <2>1. \A q \in Runs : proc'[q] # "none" => proc[q] # "none"
    BY <1>7 DEF Crash, LeadTypeOK
  <2> QED BY <1>7, <2>1, QuietDay DEF Crash, Drop, Go
<1>8. ASSUME NEW d \in Daemons, StoreFails(d) PROVE DayInv'
  BY <1>8, QuietDay DEF StoreFails, AbandonRepo, Drop, Go
<1> QED BY <1>2, <1>3, <1>4, <1>5, <1>6, <1>7, <1>8

\* Every Lead was counted on some day before it was launched, and the runs
\* counted on one day exceed the daily cap by at most one per further process.
THEOREM DailyCapHolds == Spec => []DailyCap
<1>1. TypeOK /\ LaunchInv /\ DayInv /\ [Next]_vars => DayInv'
  <2> SUFFICES ASSUME TypeOK, LaunchInv, DayInv, [Next]_vars PROVE DayInv' OBVIOUS
  <2>1. CASE UNCHANGED vars
    BY <2>1, QuietDay DEF vars, jobVars, budgetVars, leadVars
  <2> QED BY <2>1, CycleDay, WorldDay DEF Next
<1>2. DayInv => DailyCap
  <2> SUFFICES ASSUME DayInv PROVE DailyCap OBVIOUS
  <2>1. Cardinality(UsedToday) \in Nat /\ Cardinality(AdmittedToday) \in Nat
    BY Finite, CardinalityIsNat
  <2> QED BY <2>1, Finite, BudgetAssumption DEF DayInv, DailyCap
<1>3. Init => DayInv BY InitCaps
<1> QED BY <1>1, <1>2, <1>3, TypeCorrect, LaunchSafe, PTL DEF Spec

---------------------------------------------------------------------------
(* How runs are closed, by any number of dispatcher processes.  What a run   *)
(* tells is fixed from the end of its Lead on, so that a verdict held        *)
(* through the two writes of a reaping is not stale when it is written.      *)

\* What may be said of a run: what its state file tells, or that it hung.
Tells(r, status) == status = Inferred(r) \/ (aged[r] /\ status = "failed")

\* A verdict in hand is what the run tells, whose row is closed before its issue.
Reaps(d) == pc[d] \in Closing =>
              /\ Tells(mine[d], verdict[d])
              /\ pc[d] = "close_issue" => runStatus[mine[d]] \in FinalStatuses

\* A Lead that was never started has saved nothing, the verdict in the hands of
\* a reaper is what the run tells, and its row is closed before its issue.
EndInv ==
    /\ \A r \in Runs : proc[r] = "none" => lead[r] = "none"
    /\ \A d \in Daemons : Reaps(d)
    /\ ClosedAsItEnded

\* The row of a run, closed or not, with what it tells; and of an issue.
RunEnded(r) == runStatus[r] \in FinalStatuses => Tells(r, runStatus[r])
IssueEnded(i) ==
    /\ issueStatus[i] = "completed" =>
         \E r \in Runs : /\ runIssue[r] = i /\ runStatus[r] \in FinalStatuses
                         /\ Inferred(r) = "succeeded"
    /\ issueStatus[i] = "failed" =>
         \E r \in Runs : /\ runIssue[r] = i /\ runStatus[r] \in FinalStatuses
                         /\ aged[r] \/ Inferred(r) # "succeeded"

LEMMA EndedRows ==
  ClosedAsItEnded <=> (\A r \in Runs : RunEnded(r)) /\ (\A i \in Issues : IssueEnded(i))
BY DEF ClosedAsItEnded, RunEnded, IssueEnded, Tells

LEMMA EndedRowsNext ==
  ClosedAsItEnded' <=> (\A r \in Runs : RunEnded(r)') /\ (\A i \in Issues : IssueEnded(i)')
BY DEF ClosedAsItEnded, RunEnded, IssueEnded, Tells

LEMMA InitEnd == Init => EndInv
  BY DEF Init, EndInv, Reaps, ClosedAsItEnded, Closing, FinalStatuses

\* A closed run has no Lead alive.
LEMMA ClosedIsOver ==
  ASSUME TypeOK, LaunchInv
  PROVE  /\ \A r \in Runs : runStatus[r] \in FinalStatuses => proc[r] # "live"
         /\ \A d \in Daemons : pc[d] \in Closing => mine[d] \in Runs /\ proc[mine[d]] # "live"
BY DEF LaunchInv, LiveLeads, Active, ActiveStatuses, FinalStatuses

\* The issues keep what is said of them where none is closed.
LEMMA IssueKept ==
  ASSUME TypeOK, LaunchInv, NEW i \in Issues, IssueEnded(i),
         issueStatus'[i] = issueStatus[i] \/ issueStatus'[i] \in {"seen", "dispatched"},
         \A r \in Runs : runStatus[r] \in FinalStatuses =>
             /\ runIssue'[r] = runIssue[r] /\ runStatus'[r] \in FinalStatuses
             /\ lead'[r] = lead[r]
             /\ aged[r] => aged'[r]
  PROVE  IssueEnded(i)'
<1>1. \A r \in Runs : runStatus[r] \in FinalStatuses => Inferred(r)' = Inferred(r)
  BY DEF Inferred
<1> QED BY <1>1 DEF IssueEnded

\* Steps that close nothing.
LEMMA EndKept ==
  ASSUME TypeOK, LaunchInv, EndInv,
         \A r \in Runs : /\ proc'[r] = "none" => proc[r] = "none"
                         /\ lead'[r] = lead[r] \/ proc[r] = "live"
                         /\ aged[r] => aged'[r],
         \A r \in Runs : /\ runStatus[r] \in FinalStatuses =>
                              runStatus'[r] = runStatus[r] /\ runIssue'[r] = runIssue[r]
                         /\ runStatus'[r] \in FinalStatuses => runStatus[r] \in FinalStatuses,
         \A i \in Issues : issueStatus'[i] = issueStatus[i]
                             \/ issueStatus'[i] \in {"seen", "dispatched"},
         \A d \in Daemons : \/ pc'[d] = pc[d] /\ mine'[d] = mine[d] /\ verdict'[d] = verdict[d]
                            \/ pc'[d] \notin Closing
                            \/ Reaps(d)'
  PROVE  EndInv'
<1>1. \A r \in Runs : runStatus[r] \in FinalStatuses => lead'[r] = lead[r]
  BY ClosedIsOver
<1>2. \A d \in Daemons : pc[d] \in Closing => mine[d] \in Runs /\ lead'[mine[d]] = lead[mine[d]]
  BY ClosedIsOver
<1>3. \A d \in Daemons : Reaps(d)'
  <2> SUFFICES ASSUME NEW d \in Daemons, pc'[d] \in Closing, ~Reaps(d)' PROVE Reaps(d)'
    BY DEF Reaps
  <2>1. pc[d] \in Closing /\ pc'[d] = pc[d] /\ mine'[d] = mine[d] /\ verdict'[d] = verdict[d]
    OBVIOUS
  <2>2. Reaps(d) BY DEF EndInv
  <2>3. mine[d] \in Runs /\ lead'[mine[d]] = lead[mine[d]] BY <1>2, <2>1
  <2>4. aged[mine[d]] => aged'[mine[d]] BY <2>3
  <2> QED BY <2>1, <2>2, <2>3, <2>4 DEF Reaps, Tells, Inferred
<1>4. \A r \in Runs : RunEnded(r)'
  <2> SUFFICES ASSUME NEW r \in Runs, runStatus'[r] \in FinalStatuses
               PROVE  Tells(r, runStatus[r])'
    BY DEF RunEnded
  <2>1. runStatus[r] \in FinalStatuses /\ runStatus'[r] = runStatus[r] OBVIOUS
  <2>2. Tells(r, runStatus[r]) BY <2>1, EndedRows DEF EndInv, RunEnded
  <2> QED BY <2>1, <2>2, <1>1 DEF Tells, Inferred
<1>5. \A i \in Issues : IssueEnded(i)'
  <2>1. \A i \in Issues : IssueEnded(i) BY EndedRows DEF EndInv
  <2>2. \A r \in Runs : runStatus[r] \in FinalStatuses =>
          /\ runIssue'[r] = runIssue[r] /\ runStatus'[r] \in FinalStatuses
          /\ lead'[r] = lead[r]
          /\ aged[r] => aged'[r]
    BY <1>1
  <2> QED BY <2>1, <2>2, IssueKept
<1>6. \A r \in Runs : proc'[r] = "none" => lead'[r] = "none" BY DEF EndInv
<1> QED BY <1>3, <1>4, <1>5, <1>6, EndedRowsNext DEF EndInv

LEMMA EndByCycle ==
  ASSUME TypeOK, LaunchInv, EndInv, NEW d \in Daemons, Cycle(d)
  PROVE  EndInv'
<1> USE DEF TypeOK, JobTypeOK, CycleTypeOK, StoreTypeOK, LeadTypeOK, LaunchInv, EndInv,
           Launching, Closing, Active, ActiveStatuses, FinalStatuses, jobVars, cycleVars,
           leadVars
<1>1. CASE PollStart(d) BY <1>1, EndKept DEF PollStart, Go
<1>2. CASE ListIssues(d) BY <1>2, EndKept DEF ListIssues
<1>3. CASE JudgeIssue(d) BY <1>3, EndKept DEF JudgeIssue, Go
<1>4. CASE SeenIssue(d) BY <1>4, EndKept DEF SeenIssue, Go, Drop
<1>5. CASE SeenNoIssue(d) BY <1>5, EndKept DEF SeenNoIssue, Go
<1>6. CASE InsertIssue(d) BY <1>6, EndKept DEF InsertIssue, AbandonRepo, Go, Drop
<1>7. CASE CheckGlobalCap(d) BY <1>7, EndKept DEF CheckGlobalCap, Admit, Go, Drop
<1>8. CASE CheckRepoCap(d) BY <1>8, EndKept DEF CheckRepoCap, Admit, Go, Drop
<1>9. CASE CheckGlobalDay(d) BY <1>9, EndKept DEF CheckGlobalDay, Admit, Go, Drop
<1>10. CASE CheckRepoDay(d) BY <1>10, EndKept DEF CheckRepoDay, Admit, Go, Drop
<1>11. CASE SyncClone(d) BY <1>11, EndKept DEF SyncClone, Collected, AbandonRepo, Go, Drop
<1>12. CASE CreateRun(d)
  <2>1. PICK r \in Runs :
          /\ runStatus[r] = "none"
          /\ runStatus' = [runStatus EXCEPT ![r] = "pending"]
          /\ runIssue' = [runIssue EXCEPT ![r] = here[d]]
          /\ mine' = [mine EXCEPT ![d] = r]
    BY <1>12 DEF CreateRun
  <2> QED BY <1>12, <2>1, EndKept DEF CreateRun, Go
<1>13. CASE StartRun(d) BY <1>13, EndKept DEF StartRun, Go
<1>14. CASE RecordDispatch(d) BY <1>14, EndKept DEF RecordDispatch, Go
<1>15. CASE RefuseRuntime(d) BY <1>15, EndKept DEF RefuseRuntime, AbandonRepo, Go, Drop
<1>16. CASE Spawn(d) BY <1>16, EndKept DEF Spawn, Collected, Go
<1>17. CASE SpawnFails(d) BY <1>17, EndKept DEF SpawnFails, Go
<1>18. CASE FailSpawn(d)
  <2>1. /\ mine[d] \in Runs /\ proc[mine[d]] = "none" /\ lead[mine[d]] = "none"
        /\ runStatus[mine[d]] \in ActiveStatuses
    BY <1>18 DEF FailSpawn
  <2>2. /\ runStatus' = [runStatus EXCEPT ![mine[d]] = "failed"]
        /\ UNCHANGED <<left, issueStatus, runIssue, hasPid, proc, parent, lead, aged>>
        /\ pc' = [pc EXCEPT ![d] = "scan"] /\ mine' = [mine EXCEPT ![d] = NoRun]
        /\ verdict' = [verdict EXCEPT ![d] = "none"]
    BY <1>18 DEF FailSpawn, Drop, Go
  <2>3. \A r \in Runs : RunEnded(r)'
    <3> SUFFICES ASSUME NEW r \in Runs PROVE RunEnded(r)' OBVIOUS
    <3>1. RunEnded(r) BY EndedRows
    <3>2. CASE r = mine[d] BY <3>2, <2>1, <2>2 DEF RunEnded, Tells, Inferred
    <3>3. CASE r # mine[d] BY <3>1, <3>3, <2>2 DEF RunEnded, Tells, Inferred
    <3> QED BY <3>2, <3>3
  <2>4. \A i \in Issues : IssueEnded(i)' BY EndedRows, IssueKept, <2>1, <2>2
  <2>5. \A e \in Daemons : Reaps(e)'
    BY <2>1, <2>2 DEF Reaps, Tells, Inferred
  <2> QED BY <2>1, <2>2, <2>3, <2>4, <2>5, EndedRowsNext
<1>19. CASE WritePid(d) BY <1>19, EndKept DEF WritePid, Go
<1>20. CASE MarkDispatched(d) BY <1>20, EndKept DEF MarkDispatched, Drop, Go
<1>21. CASE ListActiveRuns(d) BY <1>21, EndKept DEF ListActiveRuns, Go
<1>22. CASE ReapExited(d)
  <2>1. PICK r \in left[d] :
          /\ proc[r] = "gone" \/ (proc[r] = "zombie" /\ parent[r] = d)
          /\ proc' = [proc EXCEPT ![r] = "gone"]
          /\ left' = [left EXCEPT ![d] = @ \ {r}]
          /\ mine' = [mine EXCEPT ![d] = r]
          /\ verdict' = [verdict EXCEPT ![d] = Inferred(r)]
    BY <1>22 DEF ReapExited
  <2>2. /\ pc' = [pc EXCEPT ![d] = "close_run"]
        /\ UNCHANGED <<issueStatus, runStatus, runIssue, lead, aged>>
    BY <1>22 DEF ReapExited, Go
  <2>3. r \in Runs OBVIOUS
  <2>4. Tells(r, Inferred(r))' BY <2>2 DEF Tells, Inferred
  <2> HIDE DEF ClosedAsItEnded
  <2>5. ClosedAsItEnded' BY <2>2 DEF ClosedAsItEnded, Inferred
  <2>6. \A e \in Daemons : Reaps(e)'
    BY <2>1, <2>2, <2>3 DEF Reaps, Tells, Inferred
  <2> QED BY <2>1, <2>2, <2>3, <2>5, <2>6
<1>23. CASE SkipRunning(d) BY <1>23, EndKept DEF SkipRunning
<1>24. CASE KillHung(d)
  <2>1. PICK r \in left[d] :
          /\ aged[r]
          /\ proc' = [proc EXCEPT ![r] = IF parent[r] = NoDaemon THEN "gone" ELSE "zombie"]
          /\ left' = [left EXCEPT ![d] = @ \ {r}]
          /\ mine' = [mine EXCEPT ![d] = r]
          /\ verdict' = [verdict EXCEPT ![d] = "failed"]
    BY <1>24 DEF KillHung
  <2>2. /\ pc' = [pc EXCEPT ![d] = "close_run"]
        /\ UNCHANGED <<issueStatus, runStatus, runIssue, aged>>
    BY <1>24 DEF KillHung, Go
  <2>3. \A q \in Runs : lead'[q] = lead[q] \/ proc[q] = "live"
    BY <1>24 DEF KillHung, Interrupted
  <2>4. r \in Runs OBVIOUS
  <2>5. Reaps(d)' BY <2>1, <2>2, <2>4 DEF Reaps, Tells
  <2>6. \A e \in Daemons \ {d} : pc'[e] = pc[e] /\ mine'[e] = mine[e] /\ verdict'[e] = verdict[e]
    BY <2>1, <2>2
  <2>7. \A q \in Runs : proc'[q] = "none" => proc[q] = "none" BY <2>1
  <2> HIDE DEF EndInv, ClosedAsItEnded, Reaps
  <2> QED BY <2>2, <2>3, <2>5, <2>6, <2>7, EndKept
<1>25. CASE CloseRun(d)
  <2>1. /\ mine[d] \in Runs /\ verdict[d] \in FinalStatuses /\ Tells(mine[d], verdict[d])
        /\ proc[mine[d]] # "none"
    BY <1>25 DEF CloseRun, Reaps
  <2>2. /\ runStatus' = [runStatus EXCEPT ![mine[d]] = verdict[d]]
        /\ pc' = [pc EXCEPT ![d] = "close_issue"]
        /\ UNCHANGED <<mine, verdict, issueStatus, runIssue, proc, lead, aged>>
    BY <1>25 DEF CloseRun, Go
  <2>3. \A r \in Runs : RunEnded(r)'
    <3> SUFFICES ASSUME NEW r \in Runs PROVE RunEnded(r)' OBVIOUS
    <3>1. RunEnded(r) BY EndedRows
    <3>2. CASE r = mine[d] BY <3>2, <2>1, <2>2 DEF RunEnded, Tells, Inferred
    <3>3. CASE r # mine[d] BY <3>1, <3>3, <2>2 DEF RunEnded, Tells, Inferred
    <3> QED BY <3>2, <3>3
  <2>4. \A i \in Issues : IssueEnded(i)' BY EndedRows, IssueKept, <2>1, <2>2
  <2>5. \A e \in Daemons : Reaps(e)'
    BY <2>1, <2>2 DEF Reaps, Tells, Inferred
  <2> QED BY <2>1, <2>2, <2>3, <2>4, <2>5, EndedRowsNext
<1>26. CASE CloseIssue(d)
  <2>1. /\ mine[d] \in Runs /\ runStatus[mine[d]] \in FinalStatuses
        /\ Tells(mine[d], verdict[d]) /\ verdict[d] \in FinalStatuses
    BY <1>26 DEF CloseIssue, Reaps
  <2>2. /\ issueStatus' = [issueStatus EXCEPT ![runIssue[mine[d]]] =
                             IF verdict[d] = "succeeded" THEN "completed" ELSE "failed"]
        /\ UNCHANGED <<runStatus, runIssue, proc, lead, aged>>
        /\ pc' = [pc EXCEPT ![d] = "reap"] /\ mine' = [mine EXCEPT ![d] = NoRun]
        /\ verdict' = [verdict EXCEPT ![d] = "none"]
    BY <1>26 DEF CloseIssue, Drop, Go
  <2>3. \A r \in Runs : RunEnded(r)' BY EndedRows, <2>2 DEF RunEnded, Tells, Inferred
  <2>4. \A i \in Issues : IssueEnded(i)'
    <3> SUFFICES ASSUME NEW i \in Issues PROVE IssueEnded(i)' OBVIOUS
    <3>1. CASE i = runIssue[mine[d]]
      BY <2>1, <2>2, <3>1 DEF IssueEnded, Tells, Inferred
    <3>2. CASE i # runIssue[mine[d]] BY <2>2, <3>2, EndedRows, IssueKept
    <3> QED BY <3>1, <3>2
  <2>5. \A e \in Daemons : Reaps(e)'
    BY <2>1, <2>2 DEF Reaps, Tells, Inferred
  <2> QED BY <2>2, <2>3, <2>4, <2>5, EndedRowsNext
<1>27. CASE EndCycle(d) BY <1>27, EndKept DEF EndCycle, Go
<1> QED
  BY <1>1, <1>2, <1>3, <1>4, <1>5, <1>6, <1>7, <1>8, <1>9, <1>10, <1>11, <1>12,
     <1>13, <1>14, <1>15, <1>16, <1>17, <1>18, <1>19, <1>20, <1>21, <1>22, <1>23,
     <1>24, <1>25, <1>26, <1>27 DEF Cycle

LEMMA EndStep ==
  ASSUME TypeOK, LaunchInv, EndInv, [Next]_vars
  PROVE  EndInv'
<1> USE DEF TypeOK, JobTypeOK, CycleTypeOK, StoreTypeOK, LeadTypeOK, PeopleTypeOK, LaunchInv,
           Launching, Closing, Active, ActiveStatuses, FinalStatuses, jobVars, cycleVars,
           leadVars
<1>1. ASSUME NEW r \in Runs, LeadSaves(r) PROVE EndInv'
  BY <1>1, EndKept DEF LeadSaves
<1>2. ASSUME NEW r \in Runs, LeadComments(r) PROVE EndInv'
  BY <1>2, EndKept DEF LeadComments
<1>3. ASSUME NEW r \in Runs, LeadExits(r) PROVE EndInv'
  BY <1>3, EndKept DEF LeadExits, Interrupted
<1>4. ASSUME NEW r \in Runs, Ages(r) PROVE EndInv'
  BY <1>4, EndKept DEF Ages
<1>5. ASSUME NEW i \in Issues, UserAsks(i) PROVE EndInv'
  BY <1>5, EndKept DEF UserAsks
<1>6. ASSUME NEW i \in Issues, UserComments(i) PROVE EndInv'
  BY <1>6, EndKept DEF UserComments
<1>7. ASSUME NEW o \in Operators, RetryWrite(o) PROVE EndInv'
  BY <1>7, EndKept DEF RetryWrite
<1>8. ASSUME NEW o \in Operators, NEW i \in Issues, RetryCheck(o, i) PROVE EndInv'
  BY <1>8, EndKept DEF RetryCheck
<1>9. CASE NewDay
  BY <1>9, EndKept DEF NewDay
<1>10. ASSUME NEW d \in Daemons, Crash(d) PROVE EndInv'
  BY <1>10, EndKept DEF Crash, Go, Drop
<1>11. ASSUME NEW d \in Daemons, StoreFails(d) PROVE EndInv'
  BY <1>11, EndKept DEF StoreFails, AbandonRepo, Go, Drop
<1>12. CASE UNCHANGED vars
  BY <1>12, EndKept DEF vars
<1> QED
  BY <1>1, <1>2, <1>3, <1>4, <1>5, <1>6, <1>7, <1>8, <1>9, <1>10, <1>11, <1>12,
     EndByCycle DEF Next

\* However many dispatcher processes reap a run, and whatever fails between their
\* writes, the run is closed with what its state file tells or, once it is older than
\* the limit, as failed, and an issue is closed only as a run of it ended
\* (orchestrator/dispatcher.py:790-862).
THEOREM ClosedAsItEndedHolds == Spec => []ClosedAsItEnded
<1>1. TypeOK /\ LaunchInv /\ EndInv /\ [Next]_vars => EndInv' BY EndStep
<1>2. EndInv => ClosedAsItEnded BY DEF EndInv
<1> QED BY InitEnd, TypeCorrect, LaunchSafe, <1>1, <1>2, PTL DEF Spec

\* Two reapers that hold one run at the same time are of one mind about it, unless it
\* is older than the limit: then one may have killed what the other has read
\* (orchestrator/dispatcher.py:790-862).
THEOREM ReapersAgree ==
  Spec => [](\A d, e \in Daemons :
               (pc[d] \in Closing /\ pc[e] \in Closing /\ mine[d] = mine[e] /\ ~aged[mine[d]])
                 => verdict[d] = verdict[e])
<1>1. TypeOK /\ LaunchInv /\ EndInv /\ [Next]_vars => EndInv' BY EndStep
<1>2. EndInv => \A d, e \in Daemons :
               (pc[d] \in Closing /\ pc[e] \in Closing /\ mine[d] = mine[e] /\ ~aged[mine[d]])
                 => verdict[d] = verdict[e]
  <2> SUFFICES ASSUME EndInv, NEW d \in Daemons, NEW e \in Daemons,
                      pc[d] \in Closing, pc[e] \in Closing,
                      mine[d] = mine[e], ~aged[mine[d]]
               PROVE  verdict[d] = verdict[e]
    OBVIOUS
  <2>1. Tells(mine[d], verdict[d]) /\ Tells(mine[e], verdict[e]) BY DEF EndInv, Reaps
  <2>2. verdict[d] = Inferred(mine[d]) BY <2>1 DEF Tells
  <2>3. verdict[e] = Inferred(mine[e]) BY <2>1 DEF Tells
  <2> QED BY <2>2, <2>3
<1> QED BY InitEnd, TypeCorrect, LaunchSafe, <1>1, <1>2, PTL DEF Spec

\* What a step does to the row of a closed run: it stays closed, and gets no older.
RowStays(r) == runStatus[r] \in FinalStatuses =>
                 runStatus'[r] \in FinalStatuses /\ aged'[r] = aged[r] /\ lead'[r] = lead[r]

LEMMA CycleRowStays ==
  ASSUME TypeOK, LaunchInv, NEW d \in Daemons, Cycle(d), NEW r \in Runs
  PROVE  RowStays(r)
<1> USE DEF TypeOK, JobTypeOK, StoreTypeOK, LaunchInv, Launching, Closing, Active,
           ActiveStatuses, FinalStatuses, leadVars, RowStays
<1>1. CASE PollStart(d) BY <1>1 DEF PollStart
<1>2. CASE ListIssues(d) BY <1>2 DEF ListIssues
<1>3. CASE JudgeIssue(d) BY <1>3 DEF JudgeIssue
<1>4. CASE SeenIssue(d) BY <1>4 DEF SeenIssue
<1>5. CASE SeenNoIssue(d) BY <1>5 DEF SeenNoIssue
<1>6. CASE InsertIssue(d) BY <1>6 DEF InsertIssue
<1>7. CASE CheckGlobalCap(d) BY <1>7 DEF CheckGlobalCap, Admit
<1>8. CASE CheckRepoCap(d) BY <1>8 DEF CheckRepoCap, Admit
<1>9. CASE CheckGlobalDay(d) BY <1>9 DEF CheckGlobalDay, Admit
<1>10. CASE CheckRepoDay(d) BY <1>10 DEF CheckRepoDay, Admit
<1>11. CASE SyncClone(d) BY <1>11 DEF SyncClone
<1>12. CASE CreateRun(d) BY <1>12 DEF CreateRun
<1>13. CASE StartRun(d) BY <1>13 DEF StartRun
<1>14. CASE RecordDispatch(d) BY <1>14 DEF RecordDispatch
<1>15. CASE RefuseRuntime(d) BY <1>15 DEF RefuseRuntime
<1>16. CASE Spawn(d) BY <1>16 DEF Spawn
<1>17. CASE SpawnFails(d) BY <1>17 DEF SpawnFails
<1>18. CASE FailSpawn(d) BY <1>18 DEF FailSpawn
<1>19. CASE WritePid(d) BY <1>19 DEF WritePid
<1>20. CASE MarkDispatched(d) BY <1>20 DEF MarkDispatched
<1>21. CASE ListActiveRuns(d) BY <1>21 DEF ListActiveRuns
<1>22. CASE ReapExited(d) BY <1>22 DEF ReapExited
<1>23. CASE SkipRunning(d) BY <1>23 DEF SkipRunning
<1>24. CASE KillHung(d)
  <2>1. UNCHANGED <<runStatus, aged>> /\ (lead'[r] = lead[r] \/ proc[r] = "live")
    BY <1>24 DEF KillHung, Interrupted, LeadTypeOK
  <2>2. runStatus[r] \in {"succeeded", "failed", "incomplete"} => proc[r] # "live"
    BY ClosedIsOver
  <2> QED BY <2>1, <2>2
<1>25. CASE CloseRun(d) BY <1>25 DEF CloseRun
<1>26. CASE CloseIssue(d) BY <1>26 DEF CloseIssue
<1>27. CASE EndCycle(d) BY <1>27 DEF EndCycle
<1> QED
  BY <1>1, <1>2, <1>3, <1>4, <1>5, <1>6, <1>7, <1>8, <1>9, <1>10, <1>11, <1>12,
     <1>13, <1>14, <1>15, <1>16, <1>17, <1>18, <1>19, <1>20, <1>21, <1>22, <1>23,
     <1>24, <1>25, <1>26, <1>27 DEF Cycle

LEMMA StepRowStays ==
  ASSUME TypeOK, LaunchInv, [Next]_vars, NEW r \in Runs
  PROVE  RowStays(r)
<1> USE DEF TypeOK, LeadTypeOK, StoreTypeOK, LaunchInv, LiveLeads, Active, ActiveStatuses,
           FinalStatuses, leadVars, RowStays
<1>1. ASSUME NEW q \in Runs, LeadSaves(q) PROVE RowStays(r)
  BY <1>1 DEF LeadSaves
<1>2. ASSUME NEW q \in Runs, LeadComments(q) PROVE RowStays(r)
  BY <1>2 DEF LeadComments
<1>3. ASSUME NEW q \in Runs, LeadExits(q) PROVE RowStays(r)
  BY <1>3 DEF LeadExits, Interrupted
<1>4. ASSUME NEW q \in Runs, Ages(q) PROVE RowStays(r)
  <2>1. lead' = lead /\ runStatus' = runStatus /\ q \in Active BY <1>4 DEF Ages
  <2>2. aged' = [aged EXCEPT ![q] = TRUE] BY <1>4 DEF Ages
  <2>3. r = q => runStatus[r] \notin FinalStatuses BY <2>1
  <2>4. r # q => aged'[r] = aged[r] BY <2>2
  <2> QED BY <2>1, <2>3, <2>4
<1>5. ASSUME NEW i \in Issues, UserAsks(i) \/ UserComments(i) PROVE RowStays(r)
  BY <1>5 DEF UserAsks, UserComments
<1>6. ASSUME NEW o \in Operators, RetryWrite(o) \/ \E i \in Issues : RetryCheck(o, i)
      PROVE  RowStays(r)
  BY <1>6 DEF RetryWrite, RetryCheck
<1>7. CASE NewDay
  BY <1>7 DEF NewDay
<1>8. ASSUME NEW d \in Daemons, Crash(d) PROVE RowStays(r)
  BY <1>8 DEF Crash
<1>9. ASSUME NEW d \in Daemons, StoreFails(d) PROVE RowStays(r)
  BY <1>9 DEF StoreFails
<1>10. CASE UNCHANGED vars
  BY <1>10 DEF vars
<1> QED
  BY <1>1, <1>2, <1>3, <1>4, <1>5, <1>6, <1>7, <1>8, <1>9, <1>10, CycleRowStays DEF Next

\* No reaper that comes later reopens a run or overturns the verdict of one before,
\* but on a run that is older than the limit (orchestrator/dispatcher.py:790-862).
THEOREM VerdictsStand ==
  Spec => [][\A r \in Runs : runStatus[r] \in FinalStatuses =>
               /\ runStatus'[r] \in FinalStatuses
               /\ ~aged[r] => runStatus'[r] = runStatus[r]]_vars
<1>1. TypeOK /\ LaunchInv /\ EndInv /\ [Next]_vars => EndInv' BY EndStep
<1>2. ASSUME TypeOK, LaunchInv, EndInv, EndInv', [Next]_vars
      PROVE  \A r \in Runs : runStatus[r] \in FinalStatuses =>
               /\ runStatus'[r] \in FinalStatuses
               /\ ~aged[r] => runStatus'[r] = runStatus[r]
  <2> SUFFICES ASSUME NEW r \in Runs, runStatus[r] \in FinalStatuses
               PROVE  /\ runStatus'[r] \in FinalStatuses
                      /\ ~aged[r] => runStatus'[r] = runStatus[r]
    OBVIOUS
  <2>1. runStatus'[r] \in FinalStatuses /\ aged'[r] = aged[r] /\ lead'[r] = lead[r]
    BY <1>2, StepRowStays DEF RowStays
  <2>2. Inferred(r)' = Inferred(r) BY <2>1 DEF Inferred
  <2>3. RunEnded(r) BY <1>2, EndedRows DEF EndInv
  <2>4. RunEnded(r)' BY <1>2, EndedRowsNext DEF EndInv
  <2> QED BY <2>1, <2>2, <2>3, <2>4 DEF RunEnded, Tells
<1> QED BY InitEnd, TypeCorrect, LaunchSafe, <1>1, <1>2, PTL DEF Spec

---------------------------------------------------------------------------
(* The Lead of every run is one that LeadOutline describes, and the other    *)
(* way round.  LeadPipelineProofs shows the same of the phase chains, so     *)
(* that what is proved here of Leads is proved of them.                      *)

\* A Lead that is still to start has saved nothing, like one that just did.
Outline(r) == INSTANCE LeadOutline WITH
    progress <- IF lead[r] = "done" THEN "planned" ELSE lead[r],
    alive    <- proc[r] \in {"none", "live"}

Up(r) == proc[r] \in {"none", "live"}

\* What may happen to a Lead: nothing that can be seen, its end, a further
\* stage, or its end while it saves.
LeadMoves(r) ==
    \/ lead'[r] = lead[r] /\ (Up(r)' => Up(r))
    \/ /\ Up(r) /\ Up(r)'
       /\ <<lead[r], lead'[r]>> \in {<<"none", "started">>, <<"started", "planned">>,
                                    <<"planned", "done">>}
    \/ Up(r) /\ ~Up(r)' /\ lead[r] # "done" /\ lead'[r] = "none"

\* No step of a daemon lets a Lead save, and none brings one back.
LEMMA CycleMoves ==
  ASSUME TypeOK, LaunchInv, NEW d \in Daemons, Cycle(d), NEW r \in Runs
  PROVE  LeadMoves(r)
<1> USE DEF TypeOK, JobTypeOK, LeadTypeOK, CycleTypeOK, LaunchInv, Launching, Closing, leadVars, Up, LeadMoves
<1>1. CASE PollStart(d) BY <1>1 DEF PollStart
<1>2. CASE ListIssues(d) BY <1>2 DEF ListIssues
<1>3. CASE JudgeIssue(d) BY <1>3 DEF JudgeIssue
<1>4. CASE SeenIssue(d) BY <1>4 DEF SeenIssue
<1>5. CASE SeenNoIssue(d) BY <1>5 DEF SeenNoIssue
<1>6. CASE InsertIssue(d) BY <1>6 DEF InsertIssue
<1>7. CASE CheckGlobalCap(d) BY <1>7 DEF CheckGlobalCap, Admit
<1>8. CASE CheckRepoCap(d) BY <1>8 DEF CheckRepoCap, Admit
<1>9. CASE CheckGlobalDay(d) BY <1>9 DEF CheckGlobalDay, Admit
<1>10. CASE CheckRepoDay(d) BY <1>10 DEF CheckRepoDay, Admit
<1>11. CASE SyncClone(d) BY <1>11 DEF SyncClone, Collected
<1>12. CASE CreateRun(d) BY <1>12 DEF CreateRun
<1>13. CASE StartRun(d) BY <1>13 DEF StartRun
<1>14. CASE RecordDispatch(d) BY <1>14 DEF RecordDispatch
<1>15. CASE RefuseRuntime(d) BY <1>15 DEF RefuseRuntime
<1>16. CASE Spawn(d) BY <1>16 DEF Spawn, Collected
<1>17. CASE SpawnFails(d) BY <1>17 DEF SpawnFails
<1>18. CASE FailSpawn(d) BY <1>18 DEF FailSpawn
<1>19. CASE WritePid(d) BY <1>19 DEF WritePid
<1>20. CASE MarkDispatched(d) BY <1>20 DEF MarkDispatched
<1>21. CASE ListActiveRuns(d) BY <1>21 DEF ListActiveRuns
<1>22. CASE ReapExited(d) BY <1>22 DEF ReapExited
<1>23. CASE SkipRunning(d) BY <1>23 DEF SkipRunning
<1>24. CASE KillHung(d) BY <1>24 DEF KillHung, Interrupted, Answers
<1>25. CASE CloseRun(d) BY <1>25 DEF CloseRun
<1>26. CASE CloseIssue(d) BY <1>26 DEF CloseIssue
<1>27. CASE EndCycle(d) BY <1>27 DEF EndCycle
<1> QED
  BY <1>1, <1>2, <1>3, <1>4, <1>5, <1>6, <1>7, <1>8, <1>9, <1>10, <1>11, <1>12,
     <1>13, <1>14, <1>15, <1>16, <1>17, <1>18, <1>19, <1>20, <1>21, <1>22, <1>23,
     <1>24, <1>25, <1>26, <1>27 DEF Cycle

LEMMA StepMoves ==
  ASSUME TypeOK, LaunchInv, [Next]_vars, NEW r \in Runs
  PROVE  LeadMoves(r)
<1> USE DEF TypeOK, LeadTypeOK, leadVars, Up, LeadMoves
<1>1. ASSUME NEW q \in Runs, LeadSaves(q) PROVE LeadMoves(r)
  BY <1>1 DEF LeadSaves
<1>2. ASSUME NEW q \in Runs, LeadComments(q) PROVE LeadMoves(r)
  BY <1>2 DEF LeadComments
<1>3. ASSUME NEW q \in Runs, LeadExits(q) PROVE LeadMoves(r)
  BY <1>3 DEF LeadExits, Interrupted
<1>4. ASSUME NEW q \in Runs, Ages(q) PROVE LeadMoves(r)
  BY <1>4 DEF Ages
<1>5. ASSUME NEW i \in Issues, UserAsks(i) \/ UserComments(i) PROVE LeadMoves(r)
  BY <1>5 DEF UserAsks, UserComments
<1>6. ASSUME NEW o \in Operators, RetryWrite(o) \/ \E i \in Issues : RetryCheck(o, i)
      PROVE  LeadMoves(r)
  BY <1>6 DEF RetryWrite, RetryCheck
<1>7. CASE NewDay
  BY <1>7 DEF NewDay
<1>8. ASSUME NEW d \in Daemons, Crash(d) PROVE LeadMoves(r)
  BY <1>8 DEF Crash
<1>9. ASSUME NEW d \in Daemons, StoreFails(d) PROVE LeadMoves(r)
  BY <1>9 DEF StoreFails
<1>10. CASE UNCHANGED vars
  BY <1>10 DEF vars
<1> QED
  BY <1>1, <1>2, <1>3, <1>4, <1>5, <1>6, <1>7, <1>8, <1>9, <1>10, CycleMoves DEF Next

\* To the dispatcher, whatever it does with a Lead and however many daemons there
\* are, a Lead is a machine of LeadOutline: its file gets on stage by stage, and
\* nothing is saved after its end (orchestrator/dispatcher.py:1030-1090).
THEOREM LeadsFollowOutline == ASSUME NEW r \in Runs PROVE Spec => Outline(r)!Spec
<1>1. Init => Outline(r)!Init BY DEF Init, Outline!Init
<1>2. ASSUME TypeOK, LaunchInv, [Next]_vars
      PROVE  [Outline(r)!Saves \/ Outline(r)!Exits]_(Outline(r)!vars)
  <2>1. LeadMoves(r) BY <1>2, StepMoves
  <2>2. lead[r] \in {"none", "started", "planned", "done"} BY <1>2 DEF TypeOK, LeadTypeOK
  <2>3. CASE lead'[r] = lead[r] /\ (Up(r)' => Up(r))
    BY <2>3 DEF Up, Outline!Exits, Outline!vars
  <2>4. CASE /\ Up(r) /\ Up(r)'
             /\ <<lead[r], lead'[r]>> \in {<<"none", "started">>, <<"started", "planned">>,
                                          <<"planned", "done">>}
    BY <2>4 DEF Up, Outline!Saves, Outline!vars
  <2>5. CASE Up(r) /\ ~Up(r)' /\ lead[r] # "done" /\ lead'[r] = "none"
    BY <2>5 DEF Up, Outline!Exits
  <2> QED BY <2>1, <2>3, <2>4, <2>5 DEF LeadMoves
<1> QED BY <1>1, <1>2, TypeCorrect, LaunchSafe, PTL DEF Spec, Outline!Spec

\* Every step of LeadOutline is one that the dispatcher has been shown to cope with:
\* as long as the Lead of a run stays with the stages of LeadOutline, whatever the
\* outline does next is a step of it (orchestrator/dispatcher.py:1030-1090).
THEOREM OutlineIsALead ==
  ASSUME TypeOK, NEW r \in Runs, proc[r] = "live", lead[r] # "done",
         Outline(r)!Saves \/ Outline(r)!Exits,
         NEW stage \in {"none", "started", "planned"},
         NEW state \in {"live", IF parent[r] = NoDaemon THEN "gone" ELSE "zombie"},
         lead' = [lead EXCEPT ![r] = stage], proc' = [proc EXCEPT ![r] = state],
         UNCHANGED <<pc, jobVars, cycleVars, issueStatus, runStatus, runIssue, hasPid,
                     budgetVars, parent, aged, peopleVars>>
  PROVE  Next
<1> USE DEF TypeOK, LeadTypeOK
<1>1. /\ lead[r] \in {"none", "started", "planned"}
      /\ lead'[r] = stage /\ proc'[r] = state /\ proc[r] = "live"
  OBVIOUS
<1>2. CASE Outline(r)!Saves
  <2>1. state = "live" BY <1>1, <1>2 DEF Outline!Saves
  <2>2. UNCHANGED proc BY <2>1
  <2>3. \/ lead[r] = "none" /\ stage = "started"
        \/ lead[r] = "started" /\ stage = "planned"
    BY <1>1, <1>2 DEF Outline!Saves
  <2>4. LeadSaves(r) BY <1>1, <2>2, <2>3 DEF LeadSaves
  <2> QED BY <2>4 DEF Next
<1>3. CASE Outline(r)!Exits
  <2>1. state # "live" BY <1>1, <1>3 DEF Outline!Exits
  <2>2. stage = lead[r] \/ stage = "none" BY <1>1, <1>3 DEF Outline!Exits
  <2>3. stage = lead[r] => UNCHANGED lead OBVIOUS
  <2>4. LeadExits(r) BY <1>1, <2>1, <2>2, <2>3 DEF LeadExits, Interrupted
  <2> QED BY <2>4 DEF Next
<1> QED BY <1>2, <1>3

\* The verdict of the reaper is the one that LeadOutline gives a Lead as far as that
\* (orchestrator/dispatcher.py:1026-1092).
LEMMA InferredIsVerdict ==
  ASSUME TypeOK, NEW r \in Runs
  PROVE  Inferred(r) = Outline(r)!Verdict
BY DEF TypeOK, LeadTypeOK, Inferred, Outline!Verdict

============================================================================
