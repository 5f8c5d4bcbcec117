----------------------- MODULE OneDispatcherProofs ------------------------
(* Theorems about what a dispatcher has in hand and how often a trigger      *)
(* fires, and about one dispatcher process: the statuses of issues and their *)
(* Leads, and that it implements RunLifecycle.                               *)
EXTENDS DispatcherProofs

USE ActorsAssumption, ConfigAssumption, BudgetAssumption, BoundAssumption

---------------------------------------------------------------------------
(* What a daemon has in hand.                                               *)

Judging == {"seen", "insert", "global_cap", "repo_cap", "global_day", "repo_day",
            "sync", "create"}

\* A daemon past its listing has an issue in hand, and a run only while it
\* launches or closes one; the run it launches is of that issue.
HandInv ==
    /\ \A d \in Daemons :
         /\ pc[d] \in Judging \union Launching \union {"mark"} => here[d] \in Issues
         /\ mine[d] # NoRun => pc[d] \in Launching \union Closing \union {"mark"}
         /\ pc[d] \in Launching \union {"mark"} =>
              mine[d] \in Runs /\ runIssue[mine[d]] = here[d]
         /\ pc[d] = "mark" => hasPid[mine[d]]
    /\ \A r \in Runs : runStatus[r] # "none" => runIssue[r] \in Issues

LEMMA InitHand == Init => HandInv
  BY DEF Init, HandInv, Judging, Launching

LEMMA HandCycle ==
  ASSUME TypeOK, LaunchInv, HandInv, NEW d \in Daemons, Cycle(d)
  PROVE  HandInv'
<1> USE DEF TypeOK, JobTypeOK, CycleTypeOK, StoreTypeOK, HandInv, LaunchInv, Judging, Launching,
           Closing, jobVars, cycleVars, peopleVars
<1>1. CASE PollStart(d) BY <1>1 DEF PollStart, Go
<1>2. CASE ListIssues(d) BY <1>2 DEF ListIssues
<1>3. CASE JudgeIssue(d)
  <2>1. PICK s \in todo[d] : \E fetched \in BOOLEAN : here' = [here EXCEPT ![d] = s.issue]
    BY <1>3 DEF JudgeIssue
  <2>2. s.issue \in Issues BY DEF Snapshot
  <2> QED BY <1>3, <2>1, <2>2 DEF JudgeIssue, Go
<1>4. CASE SeenIssue(d) BY <1>4 DEF SeenIssue, Go, Drop
<1>5. CASE SeenNoIssue(d) BY <1>5 DEF SeenNoIssue, Go
<1>6. CASE InsertIssue(d) BY <1>6 DEF InsertIssue, AbandonRepo, Go, Drop
<1>7. CASE CheckGlobalCap(d) BY <1>7 DEF CheckGlobalCap, Admit, Go, Drop
<1>8. CASE CheckRepoCap(d) BY <1>8 DEF CheckRepoCap, Admit, Go, Drop
<1>9. CASE CheckGlobalDay(d) BY <1>9 DEF CheckGlobalDay, Admit, Go, Drop
<1>10. CASE CheckRepoDay(d) BY <1>10 DEF CheckRepoDay, Admit, Go, Drop
<1>11. CASE SyncClone(d) BY <1>11 DEF SyncClone, AbandonRepo, Go, Drop
<1>12. CASE CreateRun(d)
  <2>1. PICK r \in Runs :
          /\ runStatus[r] = "none"
          /\ runStatus' = [runStatus EXCEPT ![r] = "pending"]
          /\ runIssue' = [runIssue EXCEPT ![r] = here[d]]
          /\ mine' = [mine EXCEPT ![d] = r]
    BY <1>12 DEF CreateRun
  <2>2. \A e \in Daemons \ {d} : pc[e] \in Launching \union {"mark"} => mine[e] # r
    BY <2>1 DEF Active, ActiveStatuses
  <2> QED BY <1>12, <2>1, <2>2 DEF CreateRun, Go
<1>13. CASE StartRun(d) BY <1>13 DEF StartRun, Go
<1>14. CASE RecordDispatch(d) BY <1>14 DEF RecordDispatch, Go
<1>15. CASE RefuseRuntime(d) BY <1>15 DEF RefuseRuntime, AbandonRepo, Go, Drop
<1>16. CASE Spawn(d) BY <1>16 DEF Spawn, Go
<1>17. CASE SpawnFails(d) BY <1>17 DEF SpawnFails, Go
<1>18. CASE FailSpawn(d) BY <1>18 DEF FailSpawn, Go, Drop
<1>19. CASE WritePid(d) BY <1>19 DEF WritePid, Go
<1>20. CASE MarkDispatched(d) BY <1>20 DEF MarkDispatched, Go, Drop
<1>21. CASE ListActiveRuns(d) BY <1>21 DEF ListActiveRuns, Go
<1>22. CASE ReapExited(d) BY <1>22 DEF ReapExited, Go
<1>23. CASE SkipRunning(d) BY <1>23 DEF SkipRunning
<1>24. CASE KillHung(d) BY <1>24 DEF KillHung, Go
<1>25. CASE CloseRun(d) BY <1>25 DEF CloseRun, Go
<1>26. CASE CloseIssue(d) BY <1>26 DEF CloseIssue, Go, Drop
<1>27. CASE EndCycle(d) BY <1>27 DEF EndCycle, Go
<1> QED
  BY <1>1, <1>2, <1>3, <1>4, <1>5, <1>6, <1>7, <1>8, <1>9, <1>10, <1>11, <1>12,
     <1>13, <1>14, <1>15, <1>16, <1>17, <1>18, <1>19, <1>20, <1>21, <1>22, <1>23,
     <1>24, <1>25, <1>26, <1>27 DEF Cycle

LEMMA HandStep ==
  ASSUME TypeOK, LaunchInv, HandInv, [Next]_vars
  PROVE  HandInv'
<1> USE DEF TypeOK, JobTypeOK, CycleTypeOK, StoreTypeOK, HandInv, LaunchInv, Judging, Launching,
           Closing, jobVars, cycleVars, peopleVars
<1>1. ASSUME NEW r \in Runs, LeadSaves(r) PROVE HandInv'
  BY <1>1 DEF LeadSaves
<1>2. ASSUME NEW r \in Runs, LeadComments(r) PROVE HandInv'
  BY <1>2 DEF LeadComments
<1>3. ASSUME NEW r \in Runs, LeadExits(r) PROVE HandInv'
  BY <1>3 DEF LeadExits
<1>4. ASSUME NEW r \in Runs, Ages(r) PROVE HandInv'
  BY <1>4 DEF Ages
<1>5. ASSUME NEW i \in Issues, UserAsks(i) PROVE HandInv'
  BY <1>5 DEF UserAsks
<1>6. ASSUME NEW i \in Issues, UserComments(i) PROVE HandInv'
  BY <1>6 DEF UserComments
<1>7. ASSUME NEW o \in Operators, RetryWrite(o) PROVE HandInv'
  BY <1>7 DEF RetryWrite
<1>8. ASSUME NEW o \in Operators, NEW i \in Issues, RetryCheck(o, i) PROVE HandInv'
  BY <1>8 DEF RetryCheck
<1>9. CASE NewDay
  BY <1>9 DEF NewDay
<1>10. ASSUME NEW d \in Daemons, Crash(d) PROVE HandInv'
  BY <1>10 DEF Crash, Go, Drop
<1>11. ASSUME NEW d \in Daemons, StoreFails(d) PROVE HandInv'
  BY <1>11 DEF StoreFails, AbandonRepo, Go, Drop
<1>12. CASE UNCHANGED vars
  BY <1>12 DEF vars
<1> QED
  BY <1>1, <1>2, <1>3, <1>4, <1>5, <1>6, <1>7, <1>8, <1>9, <1>10, <1>11, <1>12,
     HandCycle DEF Next

\* A dispatcher works on an issue and a run only where its code has them in hand,
\* and the run it launches or marks is one of that issue
\* (orchestrator/dispatcher.py:176-293).
THEOREM HandHolds == Spec => []HandInv
<1>1. TypeOK /\ LaunchInv /\ HandInv /\ [Next]_vars => HandInv' BY HandStep
<1> QED BY InitHand, TypeCorrect, LaunchSafe, <1>1, PTL DEF Spec

---------------------------------------------------------------------------
(* Runs whose pid was lost.                                                 *)

LEMMA LostCycle ==
  ASSUME TypeOK, LaunchInv, HandInv, BadRuntime = {}, NEW d \in Daemons, Cycle(d)
  PROVE  LostRuns' \subseteq LostRuns /\ faults' = faults
<1> USE DEF TypeOK, JobTypeOK, StoreTypeOK, HandInv, LaunchInv, Launching, Closing,
           LostRuns, Active, ActiveStatuses, jobVars, cycleVars, peopleVars
<1>1. CASE PollStart(d) BY <1>1 DEF PollStart, Go
<1>2. CASE ListIssues(d) BY <1>2 DEF ListIssues
<1>3. CASE JudgeIssue(d) BY <1>3 DEF JudgeIssue, Go
<1>4. CASE SeenIssue(d) BY <1>4 DEF SeenIssue, Go, Drop
<1>5. CASE SeenNoIssue(d) BY <1>5 DEF SeenNoIssue, Go
<1>6. CASE InsertIssue(d) BY <1>6 DEF InsertIssue, AbandonRepo, Go, Drop
<1>7. CASE CheckGlobalCap(d) BY <1>7 DEF CheckGlobalCap, Admit, Go, Drop
<1>8. CASE CheckRepoCap(d) BY <1>8 DEF CheckRepoCap, Admit, Go, Drop
<1>9. CASE CheckGlobalDay(d) BY <1>9 DEF CheckGlobalDay, Admit, Go, Drop
<1>10. CASE CheckRepoDay(d) BY <1>10 DEF CheckRepoDay, Admit, Go, Drop
<1>11. CASE SyncClone(d) BY <1>11 DEF SyncClone, AbandonRepo, Go, Drop
<1>12. CASE CreateRun(d) BY <1>12 DEF CreateRun, Go
<1>13. CASE StartRun(d) BY <1>13 DEF StartRun, Go
<1>14. CASE RecordDispatch(d) BY <1>14 DEF RecordDispatch, Go
<1>15. CASE RefuseRuntime(d) BY <1>15 DEF RefuseRuntime, AbandonRepo, Go, Drop
<1>16. CASE Spawn(d) BY <1>16 DEF Spawn, Go
<1>17. CASE SpawnFails(d) BY <1>17 DEF SpawnFails, Go
<1>18. CASE FailSpawn(d) BY <1>18 DEF FailSpawn, Go, Drop
<1>19. CASE WritePid(d) BY <1>19 DEF WritePid, Go
<1>20. CASE MarkDispatched(d) BY <1>20 DEF MarkDispatched, Go, Drop
<1>21. CASE ListActiveRuns(d) BY <1>21 DEF ListActiveRuns, Go
<1>22. CASE ReapExited(d) BY <1>22 DEF ReapExited, Go
<1>23. CASE SkipRunning(d) BY <1>23 DEF SkipRunning
<1>24. CASE KillHung(d) BY <1>24 DEF KillHung, Go
<1>25. CASE CloseRun(d) BY <1>25 DEF CloseRun, Go
<1>26. CASE CloseIssue(d) BY <1>26 DEF CloseIssue, Go, Drop
<1>27. CASE EndCycle(d) BY <1>27 DEF EndCycle, Go
<1> QED
  BY <1>1, <1>2, <1>3, <1>4, <1>5, <1>6, <1>7, <1>8, <1>9, <1>10, <1>11, <1>12,
     <1>13, <1>14, <1>15, <1>16, <1>17, <1>18, <1>19, <1>20, <1>21, <1>22, <1>23,
     <1>24, <1>25, <1>26, <1>27 DEF Cycle

LEMMA LostFault ==
  ASSUME TypeOK, LaunchInv, HandInv, NEW d \in Daemons, Crash(d) \/ StoreFails(d)
  PROVE  LostRuns' \subseteq LostRuns \union {mine[d]} /\ faults' = faults + 1
<1> USE DEF TypeOK, JobTypeOK, StoreTypeOK, HandInv, LaunchInv, Launching, Closing,
           LostRuns, Active, ActiveStatuses, jobVars, cycleVars, peopleVars
<1>1. CASE Crash(d) BY <1>1 DEF Crash, Go, Drop
<1>2. CASE StoreFails(d) BY <1>2 DEF StoreFails, AbandonRepo, Go, Drop
<1> QED BY <1>1, <1>2

\* Without a runtime that make_runner refuses, a run keeps its slot of the
\* concurrency caps for good only where a daemon failed while it launched it, one
\* for each fault (orchestrator/dispatcher.py:215-292).
THEOREM OneSlotPerFaultHolds ==
  ASSUME BadRuntime = {}
  PROVE  Spec => []OneSlotPerFault
<1>1. Init => OneSlotPerFault
  <2> SUFFICES ASSUME Init PROVE OneSlotPerFault OBVIOUS
  <2>1. LostRuns = {} BY DEF Init, LostRuns, Active, ActiveStatuses
  <2>2. Cardinality(LostRuns) = 0 BY <2>1, FS_EmptySet
  <2> QED BY <2>2 DEF OneSlotPerFault, Init
<1>2. TypeOK /\ LaunchInv /\ HandInv /\ OneSlotPerFault /\ [Next]_vars => OneSlotPerFault'
  <2> SUFFICES ASSUME TypeOK, LaunchInv, HandInv, OneSlotPerFault, [Next]_vars
               PROVE  OneSlotPerFault'
    OBVIOUS
  <2>1. IsFiniteSet(LostRuns) /\ Cardinality(LostRuns) \in Nat
    <3>1. LostRuns \subseteq Runs BY DEF LostRuns, Active
    <3> QED BY <3>1, FS_Subset, FS_CardinalityType
  <2>2. Cardinality(LostRuns) <= faults /\ faults \in Nat
    BY DEF OneSlotPerFault, TypeOK, PeopleTypeOK
  <2>3. ASSUME LostRuns' \subseteq LostRuns, faults' = faults PROVE OneSlotPerFault'
    <3>1. Cardinality(LostRuns') <= Cardinality(LostRuns) /\ Cardinality(LostRuns') \in Nat
      BY <2>1, <2>3, FS_Subset, FS_CardinalityType
    <3> QED BY <2>1, <2>2, <2>3, <3>1 DEF OneSlotPerFault
  <2>4. ASSUME NEW x, LostRuns' \subseteq LostRuns \union {x}, faults' = faults + 1
        PROVE  OneSlotPerFault'
    <3>1. /\ IsFiniteSet(LostRuns \union {x})
          /\ Cardinality(LostRuns \union {x}) <= Cardinality(LostRuns) + 1
      <4>1. /\ IsFiniteSet(LostRuns \union {x})
            /\ Cardinality(LostRuns \union {x})
                 = IF x \in LostRuns THEN Cardinality(LostRuns) ELSE Cardinality(LostRuns) + 1
        BY <2>1, FS_AddElement
      <4> QED BY <2>1, <4>1
    <3>2. Cardinality(LostRuns \union {x}) \in Nat BY <3>1, FS_CardinalityType
    <3>3. /\ Cardinality(LostRuns') <= Cardinality(LostRuns \union {x})
          /\ Cardinality(LostRuns') \in Nat
      BY <2>4, <3>1, FS_Subset, FS_CardinalityType
    <3> QED BY <2>1, <2>2, <2>4, <3>1, <3>2, <3>3 DEF OneSlotPerFault
  <2>5. ASSUME NEW d \in Daemons, Cycle(d) PROVE OneSlotPerFault'
    BY <2>3, <2>5, LostCycle
  <2>6. ASSUME NEW d \in Daemons, Crash(d) \/ StoreFails(d) PROVE OneSlotPerFault'
    BY <2>4, <2>6, LostFault
  <2>7. CASE UNCHANGED <<runStatus, hasPid, mine, faults>>
    BY <2>3, <2>7 DEF LostRuns, Active
  <2>8. ASSUME NEW r \in Runs, LeadSaves(r) \/ LeadComments(r) \/ LeadExits(r) \/ Ages(r)
        PROVE  OneSlotPerFault'
    BY <2>7, <2>8 DEF LeadSaves, LeadComments, LeadExits, Ages, jobVars, peopleVars
  <2>9. ASSUME NEW i \in Issues, UserAsks(i) \/ UserComments(i) PROVE OneSlotPerFault'
    BY <2>7, <2>9 DEF UserAsks, UserComments, jobVars, peopleVars
  <2>10. ASSUME NEW o \in Operators, RetryWrite(o) \/ \E i \in Issues : RetryCheck(o, i)
         PROVE  OneSlotPerFault'
    BY <2>7, <2>10 DEF RetryWrite, RetryCheck, jobVars, peopleVars
  <2>11. CASE NewDay BY <2>7, <2>11 DEF NewDay, jobVars, peopleVars
  <2>12. CASE UNCHANGED vars BY <2>7, <2>12 DEF vars, jobVars, peopleVars
  <2> QED
    BY <2>5, <2>6, <2>8, <2>9, <2>10, <2>11, <2>12 DEF Next
<1> QED BY HandHolds, TypeCorrect, LaunchSafe, <1>1, <1>2, PTL DEF Spec

---------------------------------------------------------------------------
(* What an issue without "adw" comments can be dispatched for.              *)

\* Somebody has asked for the issue where comments are a trigger.
Heard(i) == asked[i] > 0 /\ "comment_adw" \in Triggers[RepoOf[i]]

\* A comment that counts as a request was made by a user, and a daemon takes an
\* issue for requested only if it is.
HeardInv ==
    /\ \A i \in Issues : lastComment[i] = "adw" => asked[i] > 0
    /\ \A d \in Daemons : reason[d] = "adw" => here[d] \in Issues /\ Heard(here[d])

LEMMA HeardKept ==
  ASSUME TypeOK, HeardInv,
         \A i \in Issues : asked[i] > 0 => asked'[i] > 0,
         \A i \in Issues : lastComment'[i] = "adw" => asked'[i] > 0,
         \A d \in Daemons : reason'[d] = "adw" => reason[d] = "adw" /\ here'[d] = here[d]
  PROVE  HeardInv'
  BY DEF HeardInv, Heard

LEMMA HeardCycle ==
  ASSUME TypeOK, HeardInv, NEW d \in Daemons, Cycle(d)
  PROVE  HeardInv'
<1> USE DEF TypeOK, JobTypeOK, HeardInv, jobVars, peopleVars
<1>1. CASE PollStart(d) BY <1>1, HeardKept DEF PollStart, Go
<1>2. CASE ListIssues(d) BY <1>2, HeardKept DEF ListIssues
<1>3. CASE JudgeIssue(d)
  <2>1. PICK s \in todo[d], fetched \in BOOLEAN :
          /\ here' = [here EXCEPT ![d] = s.issue]
          /\ reason' = [reason EXCEPT ![d] = ReasonFor(s, fetched)]
    BY <1>3 DEF JudgeIssue
  <2>2. s.issue \in Issues BY DEF CycleTypeOK, Snapshot
  <2>3. ReasonFor(s, fetched) = "adw" => Heard(s.issue)
    BY <2>2 DEF ReasonFor, Heard
  <2>4. asked' = asked /\ lastComment' = lastComment BY <1>3 DEF JudgeIssue
  <2> QED BY <2>1, <2>2, <2>3, <2>4 DEF Heard
<1>4. CASE SeenIssue(d) BY <1>4, HeardKept DEF SeenIssue, Go, Drop
<1>5. CASE SeenNoIssue(d) BY <1>5, HeardKept DEF SeenNoIssue, Go
<1>6. CASE InsertIssue(d) BY <1>6, HeardKept DEF InsertIssue, AbandonRepo, Go, Drop
<1>7. CASE CheckGlobalCap(d) BY <1>7, HeardKept DEF CheckGlobalCap, Admit, Go, Drop
<1>8. CASE CheckRepoCap(d) BY <1>8, HeardKept DEF CheckRepoCap, Admit, Go, Drop
<1>9. CASE CheckGlobalDay(d) BY <1>9, HeardKept DEF CheckGlobalDay, Admit, Go, Drop
<1>10. CASE CheckRepoDay(d) BY <1>10, HeardKept DEF CheckRepoDay, Admit, Go, Drop
<1>11. CASE SyncClone(d) BY <1>11, HeardKept DEF SyncClone, Collected, AbandonRepo, Go, Drop
<1>12. CASE CreateRun(d) BY <1>12, HeardKept DEF CreateRun, Go
<1>13. CASE StartRun(d) BY <1>13, HeardKept DEF StartRun, Go
<1>14. CASE RecordDispatch(d) BY <1>14, HeardKept DEF RecordDispatch, Go
<1>15. CASE RefuseRuntime(d) BY <1>15, HeardKept DEF RefuseRuntime, AbandonRepo, Go, Drop
<1>16. CASE Spawn(d) BY <1>16, HeardKept DEF Spawn, Collected, Go
<1>17. CASE SpawnFails(d) BY <1>17, HeardKept DEF SpawnFails, Go
<1>18. CASE FailSpawn(d) BY <1>18, HeardKept DEF FailSpawn, Go, Drop
<1>19. CASE WritePid(d) BY <1>19, HeardKept DEF WritePid, Go
<1>20. CASE MarkDispatched(d) BY <1>20, HeardKept DEF MarkDispatched, Go, Drop
<1>21. CASE ListActiveRuns(d) BY <1>21, HeardKept DEF ListActiveRuns, Go
<1>22. CASE ReapExited(d) BY <1>22, HeardKept DEF ReapExited, Go
<1>23. CASE SkipRunning(d) BY <1>23, HeardKept DEF SkipRunning
<1>24. CASE KillHung(d) BY <1>24, HeardKept DEF KillHung, Go
<1>25. CASE CloseRun(d) BY <1>25, HeardKept DEF CloseRun, Go
<1>26. CASE CloseIssue(d) BY <1>26, HeardKept DEF CloseIssue, Go, Drop
<1>27. CASE EndCycle(d) BY <1>27, HeardKept DEF EndCycle, Go
<1> QED
  BY <1>1, <1>2, <1>3, <1>4, <1>5, <1>6, <1>7, <1>8, <1>9, <1>10, <1>11, <1>12, <1>13, <1>14,
      <1>15, <1>16, <1>17, <1>18, <1>19, <1>20, <1>21, <1>22, <1>23, <1>24, <1>25, <1>26, <1>27
  DEF Cycle

LEMMA HeardStep == TypeOK /\ HeardInv /\ [Next]_vars => HeardInv'
<1> SUFFICES ASSUME TypeOK, HeardInv, [Next]_vars PROVE HeardInv' OBVIOUS
<1> USE DEF TypeOK, JobTypeOK, PeopleTypeOK, HeardInv, jobVars, peopleVars
<1>1. ASSUME NEW r \in Runs, LeadSaves(r) PROVE HeardInv'
  BY <1>1, HeardKept DEF LeadSaves
<1>2. ASSUME NEW r \in Runs, LeadComments(r) PROVE HeardInv'
  BY <1>2, HeardKept DEF LeadComments
<1>3. ASSUME NEW r \in Runs, LeadExits(r) PROVE HeardInv'
  BY <1>3, HeardKept DEF LeadExits
<1>4. ASSUME NEW r \in Runs, Ages(r) PROVE HeardInv'
  BY <1>4, HeardKept DEF Ages
<1>5. ASSUME NEW i \in Issues, UserAsks(i) PROVE HeardInv'
  BY <1>5, HeardKept DEF UserAsks
<1>6. ASSUME NEW i \in Issues, UserComments(i) PROVE HeardInv'
  BY <1>6, HeardKept DEF UserComments
<1>7. ASSUME NEW o \in Operators, RetryWrite(o) PROVE HeardInv'
  BY <1>7, HeardKept DEF RetryWrite
<1>8. ASSUME NEW o \in Operators, NEW i \in Issues, RetryCheck(o, i) PROVE HeardInv'
  BY <1>8, HeardKept DEF RetryCheck
<1>9. ASSUME NewDay PROVE HeardInv'
  BY <1>9, HeardKept DEF NewDay
<1>10. ASSUME NEW d \in Daemons, Crash(d) PROVE HeardInv'
  BY <1>10, HeardKept DEF Crash, Go, Drop
<1>11. ASSUME NEW d \in Daemons, StoreFails(d) PROVE HeardInv'
  BY <1>11, HeardKept DEF StoreFails, AbandonRepo, Go, Drop
<1>12. ASSUME UNCHANGED vars PROVE HeardInv'
  BY <1>12, HeardKept DEF vars
<1> QED
  BY <1>1, <1>2, <1>3, <1>4, <1>5, <1>6, <1>7, <1>8, <1>9, <1>10, <1>11, <1>12, HeardCycle
  DEF Next

LEMMA HeardHolds == Spec => []HeardInv
<1>1. Init => HeardInv BY DEF Init, HeardInv
<1> QED BY TypeCorrect, HeardStep, <1>1, PTL DEF Spec

\* The daemons that have found the issue free and not yet launched a Lead for it;
\* those that have and have not yet said so; and its Leads.
Ahead == {"global_cap", "repo_cap", "global_day", "repo_day", "sync", "create", "start",
          "count", "spawn"}
Heading(i) == {d \in Daemons : here[d] = i /\ pc[d] \in Ahead}
Marking(i) == {d \in Daemons : here[d] = i /\ pc[d] \in {"pid", "mark"}}
LaunchedFor(i) == {r \in Launched : runIssue[r] = i}

\* Each daemon launches at most one Lead between two writes of `seen'.  While the
\* row is absent or `seen', a Lead that was launched has its daemon before the
\* write of `dispatched', or a fault has taken that daemon away from it.
FewFor(i) ==
    Cardinality(LaunchedFor(i)) + Cardinality(Heading(i))
      <= Cardinality(Daemons) * (1 + retried[i]) + faults
FreeFor(i) ==
    issueStatus[i] \in {"absent", "seen"} =>
      Cardinality(LaunchedFor(i))
        <= Cardinality(Daemons) * retried[i] + faults + Cardinality(Marking(i))
TriggerInv == \A i \in Issues : ~Heard(i) => FewFor(i) /\ FreeFor(i)

CountsOK ==
    \A i : /\ IsFiniteSet(LaunchedFor(i)) /\ Cardinality(LaunchedFor(i)) \in Nat
           /\ IsFiniteSet(Heading(i)) /\ Cardinality(Heading(i)) \in Nat
           /\ IsFiniteSet(Marking(i)) /\ Cardinality(Marking(i)) \in Nat
           /\ Cardinality(Heading(i)) + Cardinality(Marking(i)) <= Cardinality(Daemons)

LEMMA Shares == CountsOK /\ Cardinality(Daemons) \in Nat
<1>1. ASSUME NEW i
      PROVE  /\ LaunchedFor(i) \subseteq Runs
             /\ Heading(i) \union Marking(i) \subseteq Daemons
             /\ Heading(i) \subseteq Daemons /\ Marking(i) \subseteq Daemons
             /\ Heading(i) \intersect Marking(i) = {}
  BY DEF LaunchedFor, Launched, Heading, Marking, Ahead
<1>2. ASSUME NEW i
      PROVE  /\ IsFiniteSet(LaunchedFor(i)) /\ IsFiniteSet(Heading(i)) /\ IsFiniteSet(Marking(i))
             /\ Cardinality(LaunchedFor(i)) \in Nat
             /\ Cardinality(Heading(i)) \in Nat /\ Cardinality(Marking(i)) \in Nat
  BY <1>1, FS_Subset, FS_CardinalityType
<1>3. Cardinality(Daemons) \in Nat BY FS_CardinalityType
<1>4. ASSUME NEW i
      PROVE  Cardinality(Heading(i)) + Cardinality(Marking(i)) <= Cardinality(Daemons)
  <2>1. Cardinality(Heading(i) \union Marking(i))
          = Cardinality(Heading(i)) + Cardinality(Marking(i))
              - Cardinality(Heading(i) \intersect Marking(i))
    BY <1>2, FS_Union
  <2>2. Cardinality(Heading(i) \intersect Marking(i)) = 0 BY <1>1, FS_EmptySet
  <2>3. Cardinality(Heading(i) \union Marking(i)) <= Cardinality(Daemons)
    BY <1>1, FS_Subset
  <2> QED BY <1>2, <2>1, <2>2, <2>3
<1> QED BY <1>2, <1>3, <1>4 DEF CountsOK

LEMMA SharesNext == CountsOK'
<1>1. CountsOK BY Shares
<1> QED BY <1>1, PTL

\* A retry allows as many Leads more as there are daemons.
LEMMA Product ==
  ASSUME NEW n \in Nat, NEW c \in Nat
  PROVE  n * c \in Nat /\ n * (1 + c) = n + n * c /\ n * (1 + (c + 1)) = n + n + n * c
         /\ n * (c + 1) = n + n * c
OBVIOUS

\* A step that launches no Lead and lets no daemon pass the check.
LEMMA TriggerKept ==
  ASSUME TypeOK, NEW i \in Issues, FewFor(i), FreeFor(i),
         LaunchedFor(i)' \subseteq LaunchedFor(i),
         Heading(i)' \subseteq Heading(i),
         issueStatus'[i] \in {"absent", "seen"} =>
           issueStatus[i] \in {"absent", "seen"} /\ Marking(i) \subseteq Marking(i)',
         retried'[i] = retried[i], faults' = faults
  PROVE  FewFor(i)' /\ FreeFor(i)'
<1>1. /\ Cardinality(LaunchedFor(i)') <= Cardinality(LaunchedFor(i))
      /\ Cardinality(Heading(i)') <= Cardinality(Heading(i))
  BY Shares, FS_Subset DEF CountsOK
<1>2. issueStatus'[i] \in {"absent", "seen"} => Cardinality(Marking(i)) <= Cardinality(Marking(i)')
  BY SharesNext, FS_Subset DEF CountsOK
<1>3. PICK n \in Nat, c \in Nat : n = Cardinality(Daemons) /\ c = retried[i]
  BY Shares DEF TypeOK, PeopleTypeOK, CountsOK
<1>4. faults \in Nat BY DEF TypeOK, PeopleTypeOK
<1>5. FewFor(i)' BY <1>1, <1>3, <1>4, Product, Shares, SharesNext DEF FewFor, CountsOK
<1>6. FreeFor(i)' BY <1>1, <1>2, <1>3, <1>4, Product, Shares, SharesNext DEF FreeFor, CountsOK
<1> QED BY <1>5, <1>6

\* A fault takes at most one daemon from where it was.
LEMMA TriggerFault ==
  ASSUME TypeOK, NEW i \in Issues, FewFor(i), FreeFor(i), NEW d \in Daemons,
         LaunchedFor(i)' \subseteq LaunchedFor(i),
         Heading(i)' \subseteq Heading(i),
         Marking(i) \subseteq Marking(i)' \union {d},
         issueStatus' = issueStatus, retried' = retried, faults' = faults + 1
  PROVE  FewFor(i)' /\ FreeFor(i)'
<1>1. /\ Cardinality(LaunchedFor(i)') <= Cardinality(LaunchedFor(i))
      /\ Cardinality(Heading(i)') <= Cardinality(Heading(i))
  BY Shares, FS_Subset DEF CountsOK
<1>2. Cardinality(Marking(i)) <= Cardinality(Marking(i)') + 1
  <2>1. /\ IsFiniteSet(Marking(i)' \union {d})
        /\ Cardinality(Marking(i)' \union {d}) <= Cardinality(Marking(i)') + 1
    <3>1. /\ IsFiniteSet(Marking(i)' \union {d})
          /\ Cardinality(Marking(i)' \union {d})
               = IF d \in Marking(i)' THEN Cardinality(Marking(i)')
                 ELSE Cardinality(Marking(i)') + 1
      BY SharesNext, FS_AddElement DEF CountsOK
    <3> QED BY <3>1, SharesNext DEF CountsOK
  <2>2. Cardinality(Marking(i)' \union {d}) \in Nat BY <2>1, FS_CardinalityType
  <2>3. Cardinality(Marking(i)) <= Cardinality(Marking(i)' \union {d}) BY <2>1, FS_Subset
  <2> QED BY <2>1, <2>2, <2>3, Shares, SharesNext DEF CountsOK
<1>3. PICK n \in Nat, c \in Nat : n = Cardinality(Daemons) /\ c = retried[i]
  BY Shares DEF TypeOK, PeopleTypeOK, CountsOK
<1>4. faults \in Nat BY DEF TypeOK, PeopleTypeOK
<1>5. FewFor(i)' BY <1>1, <1>3, <1>4, Product, Shares, SharesNext DEF FewFor, CountsOK
<1>6. FreeFor(i)' BY <1>1, <1>2, <1>3, <1>4, Product, Shares, SharesNext DEF FreeFor, CountsOK
<1> QED BY <1>5, <1>6

\* A daemon passes the check only while the issue is free.
LEMMA TriggerPass ==
  ASSUME TypeOK, NEW i \in Issues, FreeFor(i), NEW d \in Daemons,
         issueStatus[i] \in {"absent", "seen"},
         LaunchedFor(i)' \subseteq LaunchedFor(i),
         Marking(i) \subseteq Marking(i)',
         retried' = retried, faults' = faults
  PROVE  FewFor(i)' /\ FreeFor(i)'
<1>1. /\ Cardinality(LaunchedFor(i)') <= Cardinality(LaunchedFor(i))
      /\ Cardinality(Marking(i)) <= Cardinality(Marking(i)')
  BY Shares, SharesNext, FS_Subset DEF CountsOK
<1>2. PICK n \in Nat, c \in Nat : n = Cardinality(Daemons) /\ c = retried[i]
  BY Shares DEF TypeOK, PeopleTypeOK, CountsOK
<1>3. faults \in Nat BY DEF TypeOK, PeopleTypeOK
<1>4. Cardinality(LaunchedFor(i)) <= n * c + faults + Cardinality(Marking(i))
  BY <1>2 DEF FreeFor
<1>5. FewFor(i)'
  <2>1. Cardinality(Heading(i)') + Cardinality(Marking(i)') <= n BY <1>2, SharesNext DEF CountsOK
  <2>2. n * c \in Nat /\ n * (1 + c) = n + n * c BY Product
  <2>3. Cardinality(LaunchedFor(i)') + Cardinality(Heading(i)') <= n + n * c + faults
    BY <1>1, <1>3, <1>4, <2>1, <2>2, Shares, SharesNext DEF CountsOK
  <2> QED BY <1>2, <2>2, <2>3 DEF FewFor
<1>6. FreeFor(i)' BY <1>1, <1>2, <1>3, <1>4, Product, Shares, SharesNext DEF FreeFor, CountsOK
<1> QED BY <1>5, <1>6

\* A daemon that launches a Lead is on its way to mark the issue.
LEMMA TriggerSpawn ==
  ASSUME TypeOK, NEW i \in Issues, FewFor(i), FreeFor(i), NEW d \in Heading(i), NEW r,
         LaunchedFor(i)' \subseteq LaunchedFor(i) \union {r},
         Heading(i)' \subseteq Heading(i) \ {d},
         Marking(i) \union {d} \subseteq Marking(i)',
         issueStatus' = issueStatus, retried' = retried, faults' = faults
  PROVE  FewFor(i)' /\ FreeFor(i)'
<1>1. Cardinality(LaunchedFor(i)') <= Cardinality(LaunchedFor(i)) + 1
  <2>1. /\ IsFiniteSet(LaunchedFor(i) \union {r})
        /\ Cardinality(LaunchedFor(i) \union {r})
             = IF r \in LaunchedFor(i) THEN Cardinality(LaunchedFor(i))
               ELSE Cardinality(LaunchedFor(i)) + 1
    BY Shares, FS_AddElement DEF CountsOK
  <2>2. Cardinality(LaunchedFor(i)') <= Cardinality(LaunchedFor(i) \union {r})
    BY <2>1, FS_Subset
  <2> QED BY <2>1, <2>2, Shares, SharesNext DEF CountsOK
<1>2. Cardinality(Heading(i)') <= Cardinality(Heading(i)) - 1
  <2>1. /\ IsFiniteSet(Heading(i) \ {d})
        /\ Cardinality(Heading(i) \ {d}) = Cardinality(Heading(i)) - 1
    BY Shares, FS_RemoveElement DEF CountsOK
  <2>2. Cardinality(Heading(i)') <= Cardinality(Heading(i) \ {d}) BY <2>1, FS_Subset
  <2> QED BY <2>1, <2>2
<1>3. Cardinality(Marking(i)) + 1 <= Cardinality(Marking(i)')
  <2>1. d \notin Marking(i) BY DEF Heading, Marking, Ahead
  <2>2. /\ IsFiniteSet(Marking(i) \union {d})
        /\ Cardinality(Marking(i) \union {d}) = Cardinality(Marking(i)) + 1
    BY <2>1, Shares, FS_AddElement DEF CountsOK
  <2>3. Cardinality(Marking(i) \union {d}) <= Cardinality(Marking(i)')
    BY <2>2, SharesNext, FS_Subset DEF CountsOK
  <2> QED BY <2>2, <2>3
<1>4. PICK n \in Nat, c \in Nat : n = Cardinality(Daemons) /\ c = retried[i]
  BY Shares DEF TypeOK, PeopleTypeOK, CountsOK
<1>5. faults \in Nat BY DEF TypeOK, PeopleTypeOK
<1>6. FewFor(i)' BY <1>1, <1>2, <1>4, <1>5, Product, Shares, SharesNext DEF FewFor, CountsOK
<1>7. FreeFor(i)' BY <1>1, <1>3, <1>4, <1>5, Product, Shares, SharesNext DEF FreeFor, CountsOK
<1> QED BY <1>6, <1>7

\* A retry frees the issue for every daemon once more.
LEMMA TriggerRetry ==
  ASSUME TypeOK, NEW i \in Issues, FewFor(i),
         LaunchedFor(i)' = LaunchedFor(i), Heading(i)' = Heading(i),
         retried'[i] = retried[i] + 1, faults' = faults
  PROVE  FewFor(i)' /\ FreeFor(i)'
<1>1. PICK n \in Nat, c \in Nat : n = Cardinality(Daemons) /\ c = retried[i]
  BY Shares DEF TypeOK, PeopleTypeOK, CountsOK
<1>2. faults \in Nat BY DEF TypeOK, PeopleTypeOK
<1>3. Cardinality(LaunchedFor(i)) + Cardinality(Heading(i)) <= n + n * c + faults
  BY <1>1, Product DEF FewFor
<1>4. FewFor(i)'
  <2>1. n * (1 + (c + 1)) = n + n + n * c BY Product
  <2>2. Cardinality(LaunchedFor(i)) + Cardinality(Heading(i)) <= n * (1 + (c + 1)) + faults
    BY <1>2, <1>3, <2>1, Shares, Product DEF CountsOK
  <2> QED BY <1>1, <2>2 DEF FewFor
<1>5. FreeFor(i)'
  <2>1. n * (c + 1) = n + n * c BY Product
  <2>2. Cardinality(LaunchedFor(i)) <= n * (c + 1) + faults + Cardinality(Marking(i)')
    BY <1>2, <1>3, <2>1, Shares, SharesNext, Product DEF CountsOK
  <2> QED BY <1>1, <2>2 DEF FreeFor
<1> QED BY <1>4, <1>5

LEMMA TriggerQuiet ==
  ASSUME TypeOK, TriggerInv,
         \A i \in Issues : asked[i] > 0 => asked'[i] > 0,
         retried' = retried, faults' = faults,
         \A r \in Runs : proc'[r] # "none" => proc[r] # "none" /\ runIssue'[r] = runIssue[r],
         \A d \in Daemons : pc'[d] \in Ahead => pc[d] \in Ahead /\ here'[d] = here[d],
         \A d \in Daemons : pc[d] \in {"pid", "mark"} =>
             \/ pc'[d] \in {"pid", "mark"} /\ here'[d] = here[d]
             \/ issueStatus'[here[d]] = "dispatched",
         \A i \in Issues : issueStatus'[i] \in {"absent", "seen"} =>
                             issueStatus[i] \in {"absent", "seen"}
  PROVE  TriggerInv'
<1> SUFFICES ASSUME NEW i \in Issues, ~Heard(i)' PROVE FewFor(i)' /\ FreeFor(i)'
  BY DEF TriggerInv
<1>1. ~Heard(i) BY DEF Heard
<1>2. FewFor(i) /\ FreeFor(i) BY <1>1 DEF TriggerInv
<1>3. LaunchedFor(i)' \subseteq LaunchedFor(i) BY DEF LaunchedFor, Launched
<1>4. Heading(i)' \subseteq Heading(i) BY DEF Heading
<1>5. issueStatus'[i] \in {"absent", "seen"} => Marking(i) \subseteq Marking(i)'
  BY DEF Marking
<1> QED BY <1>2, <1>3, <1>4, <1>5, TriggerKept

\* A daemon finds the row missing or `seen', unless the issue was asked for.
LEMMA TriggerEnters ==
  ASSUME TypeOK, TriggerInv, NEW d \in Daemons,
         here[d] \in Issues, Heard(here[d]) \/ issueStatus[here[d]] \in {"absent", "seen"},
         pc[d] \notin {"pid", "mark"}, pc' = [pc EXCEPT ![d] = "global_cap"],
         UNCHANGED <<here, asked, retried, faults, proc, runIssue>>,
         \A i \in Issues : issueStatus'[i] \in {"absent", "seen"} =>
                             issueStatus[i] \in {"absent", "seen"}
  PROVE  TriggerInv'
<1> SUFFICES ASSUME NEW i \in Issues, ~Heard(i)' PROVE FewFor(i)' /\ FreeFor(i)'
  BY DEF TriggerInv
<1> USE DEF TypeOK, JobTypeOK
<1>1. ~Heard(i) BY DEF Heard
<1>2. FewFor(i) /\ FreeFor(i) BY <1>1 DEF TriggerInv
<1>3. LaunchedFor(i)' \subseteq LaunchedFor(i) BY DEF LaunchedFor, Launched
<1>4. Marking(i) \subseteq Marking(i)' BY DEF Marking
<1>5. CASE i = here[d] BY <1>1, <1>2, <1>3, <1>4, <1>5, TriggerPass
<1>6. CASE i # here[d]
  <2>1. Heading(i)' \subseteq Heading(i) BY <1>6 DEF Heading
  <2> QED BY <1>2, <1>3, <1>4, <2>1, TriggerKept
<1> QED BY <1>5, <1>6

LEMMA TriggerCycle ==
  ASSUME TypeOK, LaunchInv, HandInv, HeardInv, TriggerInv, NEW d \in Daemons, Cycle(d)
  PROVE  TriggerInv'
<1> USE DEF TypeOK, JobTypeOK, StoreTypeOK, HandInv, Judging, Launching, jobVars, cycleVars,
            leadVars, peopleVars, Ahead
<1>1. CASE PollStart(d) BY <1>1, TriggerQuiet DEF PollStart, Go
<1>2. CASE ListIssues(d)
  BY <1>2, TriggerQuiet DEF ListIssues
<1>3. CASE JudgeIssue(d) BY <1>3, TriggerQuiet DEF JudgeIssue, Go
<1>4. CASE SeenIssue(d)
  <2>1. /\ pc[d] = "seen" /\ here[d] \in Issues /\ issueStatus[here[d]] # "absent"
        /\ UNCHANGED <<issueStatus, runIssue, proc, asked, retried, faults>>
    BY <1>4 DEF SeenIssue
  <2>2. CASE Drop(d, "scan") BY <2>1, <2>2, TriggerQuiet DEF Drop, Go
  <2>3. CASE /\ ~(issueStatus[here[d]] \in TerminalIssueStatuses /\ reason[d] # "adw")
             /\ Go(d, "global_cap") /\ UNCHANGED jobVars
    <3>1. Heard(here[d]) \/ issueStatus[here[d]] \in {"absent", "seen"}
      BY <2>1, <2>3 DEF HeardInv, TerminalIssueStatuses
    <3> QED BY <2>1, <2>3, <3>1, TriggerEnters DEF Go
  <2> QED BY <1>4, <2>2, <2>3 DEF SeenIssue
<1>5. CASE SeenNoIssue(d) BY <1>5, TriggerQuiet DEF SeenNoIssue, Go
<1>6. CASE InsertIssue(d)
  <2>1. /\ pc[d] = "insert" /\ here[d] \in Issues
        /\ UNCHANGED <<runIssue, proc, asked, retried, faults>>
    BY <1>6 DEF InsertIssue
  <2>2. CASE AbandonRepo(d) /\ UNCHANGED issueStatus
    BY <2>1, <2>2, TriggerQuiet DEF AbandonRepo, Drop, Go
  <2>3. CASE /\ issueStatus[here[d]] = "absent"
             /\ issueStatus' = [issueStatus EXCEPT ![here[d]] = "seen"]
             /\ Drop(d, "scan")
    BY <2>1, <2>3, TriggerQuiet DEF Drop, Go
  <2>4. CASE /\ issueStatus[here[d]] = "absent"
             /\ issueStatus' = [issueStatus EXCEPT ![here[d]] = "seen"]
             /\ Go(d, "global_cap") /\ UNCHANGED jobVars
    BY <2>1, <2>4, TriggerEnters DEF Go
  <2> QED BY <1>6, <2>2, <2>3, <2>4 DEF InsertIssue
<1>7. CASE CheckGlobalCap(d) BY <1>7, TriggerQuiet DEF CheckGlobalCap, Admit, Go, Drop
<1>8. CASE CheckRepoCap(d) BY <1>8, TriggerQuiet DEF CheckRepoCap, Admit, Go, Drop
<1>9. CASE CheckGlobalDay(d) BY <1>9, TriggerQuiet DEF CheckGlobalDay, Admit, Go, Drop
<1>10. CASE CheckRepoDay(d) BY <1>10, TriggerQuiet DEF CheckRepoDay, Admit, Go, Drop
<1>11. CASE SyncClone(d)
  <2>1. \A r \in Runs : proc'[r] # "none" => proc[r] # "none"
    BY <1>11 DEF SyncClone, Collected
  <2> QED BY <1>11, <2>1, TriggerQuiet DEF SyncClone, AbandonRepo, Go, Drop
<1>12. CASE CreateRun(d)
  <2>1. PICK r \in Runs :
          /\ runStatus[r] = "none" /\ runIssue' = [runIssue EXCEPT ![r] = here[d]]
    BY <1>12 DEF CreateRun
  <2>2. proc[r] = "none" BY <2>1 DEF LaunchInv
  <2> QED BY <1>12, <2>1, <2>2, TriggerQuiet DEF CreateRun, Go
<1>13. CASE StartRun(d) BY <1>13, TriggerQuiet DEF StartRun, Go
<1>14. CASE RecordDispatch(d) BY <1>14, TriggerQuiet DEF RecordDispatch, Go
<1>15. CASE RefuseRuntime(d) BY <1>15, TriggerQuiet DEF RefuseRuntime, AbandonRepo, Go, Drop
<1>16. CASE Spawn(d)
  <2>1. /\ mine[d] \in Runs /\ runIssue[mine[d]] = here[d] /\ here[d] \in Issues
        /\ pc[d] = "spawn" /\ pc' = [pc EXCEPT ![d] = "pid"]
        /\ UNCHANGED <<here, runIssue, issueStatus, asked, retried, faults>>
    BY <1>16 DEF Spawn, Go
  <2>2. \A r \in Runs \ {mine[d]} : proc'[r] # "none" => proc[r] # "none"
    BY <1>16 DEF Spawn, Collected
  <2> SUFFICES ASSUME NEW i \in Issues, ~Heard(i)' PROVE FewFor(i)' /\ FreeFor(i)'
    BY DEF TriggerInv
  <2>3. FewFor(i) /\ FreeFor(i) BY <2>1 DEF TriggerInv, Heard
  <2>4. CASE i = here[d]
    <3>1. d \in Heading(i) BY <2>1, <2>4 DEF Heading
    <3>2. LaunchedFor(i)' \subseteq LaunchedFor(i) \union {mine[d]}
      BY <2>1, <2>2 DEF LaunchedFor, Launched
    <3>3. Heading(i)' \subseteq Heading(i) \ {d} BY <2>1 DEF Heading
    <3>4. Marking(i) \union {d} \subseteq Marking(i)' BY <2>1, <2>4 DEF Marking
    <3> QED BY <2>1, <2>3, <3>1, <3>2, <3>3, <3>4, TriggerSpawn
  <2>5. CASE i # here[d]
    <3>1. LaunchedFor(i)' \subseteq LaunchedFor(i)
      BY <2>1, <2>2, <2>5 DEF LaunchedFor, Launched
    <3>2. Heading(i)' \subseteq Heading(i) /\ Marking(i) \subseteq Marking(i)'
      BY <2>1, <2>5 DEF Heading, Marking
    <3> QED BY <2>1, <2>3, <3>1, <3>2, TriggerKept
  <2> QED BY <2>4, <2>5
<1>17. CASE SpawnFails(d) BY <1>17, TriggerQuiet DEF SpawnFails, Go
<1>18. CASE FailSpawn(d) BY <1>18, TriggerQuiet DEF FailSpawn, Go, Drop
<1>19. CASE WritePid(d) BY <1>19, TriggerQuiet DEF WritePid, Go
<1>20. CASE MarkDispatched(d) BY <1>20, TriggerQuiet DEF MarkDispatched, Go, Drop
<1>21. CASE ListActiveRuns(d) BY <1>21, TriggerQuiet DEF ListActiveRuns, Go
<1>22. CASE ReapExited(d)
  <2>1. \A r \in Runs : proc'[r] # "none" => proc[r] # "none"
    BY <1>22 DEF ReapExited
  <2> QED BY <1>22, <2>1, TriggerQuiet DEF ReapExited, Go
<1>23. CASE SkipRunning(d) BY <1>23, TriggerQuiet DEF SkipRunning
<1>24. CASE KillHung(d)
  <2>1. \A r \in Runs : proc'[r] # "none" => proc[r] # "none"
    BY <1>24 DEF KillHung, Answers
  <2> QED BY <1>24, <2>1, TriggerQuiet DEF KillHung, Go
<1>25. CASE CloseRun(d) BY <1>25, TriggerQuiet DEF CloseRun, Go
<1>26. CASE CloseIssue(d) BY <1>26, TriggerQuiet DEF CloseIssue, Go, Drop
<1>27. CASE EndCycle(d) BY <1>27, TriggerQuiet DEF EndCycle, Go
<1> QED
  BY <1>1, <1>2, <1>3, <1>4, <1>5, <1>6, <1>7, <1>8, <1>9, <1>10, <1>11, <1>12, <1>13, <1>14,
      <1>15, <1>16, <1>17, <1>18, <1>19, <1>20, <1>21, <1>22, <1>23, <1>24, <1>25, <1>26, <1>27
  DEF Cycle

LEMMA TriggerCut ==
  ASSUME TypeOK, TriggerInv, NEW d \in Daemons, NEW label \in {"idle", "scan"},
         \A r \in Runs : proc'[r] # "none" => proc[r] # "none",
         UNCHANGED <<runIssue, issueStatus, asked, retried>>, faults' = faults + 1,
         pc' = [pc EXCEPT ![d] = label], here' = [here EXCEPT ![d] = NoIssue]
  PROVE  TriggerInv'
<1> SUFFICES ASSUME NEW i \in Issues, ~Heard(i)' PROVE FewFor(i)' /\ FreeFor(i)'
  BY DEF TriggerInv
<1> USE DEF TypeOK, JobTypeOK
<1>1. FewFor(i) /\ FreeFor(i) BY DEF TriggerInv, Heard
<1>2. LaunchedFor(i)' \subseteq LaunchedFor(i) BY DEF LaunchedFor, Launched
<1>3. Heading(i)' \subseteq Heading(i) BY DEF Heading, Ahead
<1>4. Marking(i) \subseteq Marking(i)' \union {d} BY DEF Marking
<1> QED BY <1>1, <1>2, <1>3, <1>4, TriggerFault

LEMMA TriggerStep ==
  ASSUME TypeOK, LaunchInv, HandInv, HeardInv, TriggerInv, [Next]_vars
  PROVE  TriggerInv'
<1> USE DEF TypeOK, JobTypeOK, StoreTypeOK, PeopleTypeOK, jobVars, cycleVars, leadVars, peopleVars
<1>1. ASSUME NEW r \in Runs, LeadSaves(r) PROVE TriggerInv'
  BY <1>1, TriggerQuiet DEF LeadSaves
<1>2. ASSUME NEW r \in Runs, LeadComments(r) PROVE TriggerInv'
  BY <1>2, TriggerQuiet DEF LeadComments
<1>3. ASSUME NEW r \in Runs, LeadExits(r) PROVE TriggerInv'
  <2>1. \A q \in Runs : proc'[q] # "none" => proc[q] # "none" BY <1>3 DEF LeadExits
  <2> QED BY <1>3, <2>1, TriggerQuiet DEF LeadExits
<1>4. ASSUME NEW r \in Runs, Ages(r) PROVE TriggerInv'
  BY <1>4, TriggerQuiet DEF Ages
<1>5. ASSUME NEW i \in Issues, UserAsks(i) PROVE TriggerInv'
  <2>1. \A j \in Issues : asked[j] > 0 => asked'[j] > 0
    BY <1>5 DEF UserAsks
  <2> QED BY <1>5, <2>1, TriggerQuiet DEF UserAsks
<1>6. ASSUME NEW i \in Issues, UserComments(i) PROVE TriggerInv'
  BY <1>6, TriggerQuiet DEF UserComments
<1>7. ASSUME NEW o \in Operators, RetryWrite(o) PROVE TriggerInv'
  <2>1. /\ asks[o] \in Issues
        /\ retried' = [retried EXCEPT ![asks[o]] = retried[asks[o]] + 1]
        /\ issueStatus' = [issueStatus EXCEPT ![asks[o]] = "seen"]
        /\ UNCHANGED <<pc, here, proc, runIssue, asked, faults>>
    <3>1. asks[o] \in Issues BY <1>7 DEF RetryWrite
    <3>2. UNCHANGED <<pc, here, proc, runIssue, asked, faults>> BY <1>7 DEF RetryWrite
    <3> QED BY <1>7, <3>1, <3>2 DEF RetryWrite
  <2> SUFFICES ASSUME NEW i \in Issues, ~Heard(i)' PROVE FewFor(i)' /\ FreeFor(i)'
    BY DEF TriggerInv
  <2>2. FewFor(i) /\ FreeFor(i) BY <2>1 DEF TriggerInv, Heard
  <2>3. LaunchedFor(i)' = LaunchedFor(i) /\ Heading(i)' = Heading(i) /\ Marking(i)' = Marking(i)
    BY <2>1 DEF LaunchedFor, Launched, Heading, Marking
  <2>4. CASE i = asks[o]
    <3>1. retried'[i] = retried[i] + 1 BY <2>1, <2>4
    <3> QED BY <2>1, <2>2, <2>3, <3>1, TriggerRetry
  <2>5. CASE i # asks[o] BY <2>1, <2>2, <2>3, <2>5, TriggerKept
  <2> QED BY <2>4, <2>5
<1>8. ASSUME NEW o \in Operators, NEW i \in Issues, RetryCheck(o, i) PROVE TriggerInv'
  BY <1>8, TriggerQuiet DEF RetryCheck
<1>9. ASSUME NewDay PROVE TriggerInv'
  BY <1>9, TriggerQuiet DEF NewDay
<1>10. ASSUME NEW d \in Daemons, Crash(d) PROVE TriggerInv'
  <2>1. \A r \in Runs : proc'[r] # "none" => proc[r] # "none" BY <1>10 DEF Crash
  <2>2. /\ UNCHANGED <<runIssue, issueStatus, asked, retried>> /\ faults' = faults + 1
        /\ pc' = [pc EXCEPT ![d] = "idle"] /\ here' = [here EXCEPT ![d] = NoIssue]
    BY <1>10 DEF Crash, Drop, Go
  <2> QED BY <2>1, <2>2, TriggerCut
<1>11. ASSUME NEW d \in Daemons, StoreFails(d) PROVE TriggerInv'
  <2>1. /\ UNCHANGED <<runIssue, proc, issueStatus, asked, retried>> /\ faults' = faults + 1
        /\ here' = [here EXCEPT ![d] = NoIssue]
    BY <1>11 DEF StoreFails, AbandonRepo, Drop, Go
  <2>2. PICK label \in {"idle", "scan"} : pc' = [pc EXCEPT ![d] = label]
    BY <1>11 DEF StoreFails, AbandonRepo, Drop, Go
  <2> QED BY <2>1, <2>2, TriggerCut
<1>12. ASSUME UNCHANGED vars PROVE TriggerInv'
  BY <1>12, TriggerQuiet DEF vars
<1> QED
  BY <1>1, <1>2, <1>3, <1>4, <1>5, <1>6, <1>7, <1>8, <1>9, <1>10, <1>11, <1>12, TriggerCycle
  DEF Next

LEMMA InitTrigger == Init => TriggerInv
<1> SUFFICES ASSUME Init, NEW i \in Issues PROVE FewFor(i) /\ FreeFor(i) BY DEF TriggerInv
<1>1. LaunchedFor(i) = {} /\ Heading(i) = {}
  BY DEF Init, LaunchedFor, Launched, Heading, Ahead
<1>2. Cardinality(LaunchedFor(i)) = 0 /\ Cardinality(Heading(i)) = 0 BY <1>1, FS_EmptySet
<1>3. retried[i] = 0 /\ faults = 0 BY DEF Init
<1>4. PICK n \in Nat : n = Cardinality(Daemons) BY Shares
<1>5. 0 <= n * 1 /\ 0 <= n * 0 BY <1>4
<1> QED BY <1>2, <1>3, <1>4, <1>5, Shares DEF FewFor, FreeFor, CountsOK

\* An issue that nobody has asked for gets no more Leads than one from each
\* dispatcher process for itself and for each accepted retry, and one for each
\* fault: also when the processes race, crash or fail between the launch of a Lead
\* and the write of `dispatched' (orchestrator/dispatcher.py:149-173, 263-293).
THEOREM TriggersFireOnce == Spec => []TriggerInv
<1>1. TypeOK /\ LaunchInv /\ HandInv /\ HeardInv /\ TriggerInv /\ [Next]_vars => TriggerInv'
  BY TriggerStep
<1> QED BY InitTrigger, TypeCorrect, LaunchSafe, HandHolds, HeardHolds, <1>1, PTL DEF Spec

LEMMA OnlyUsersAsk ==
  ASSUME TypeOK, [Next]_vars, ~(\E i \in Issues : UserAsks(i))
  PROVE  asked' = asked
<1> USE DEF peopleVars
<1>1. ASSUME NEW d \in Daemons, Cycle(d) PROVE asked' = asked
  BY <1>1 DEF Cycle, PollStart, ListIssues, JudgeIssue, SeenIssue, SeenNoIssue, InsertIssue,
     CheckGlobalCap, CheckRepoCap, CheckGlobalDay, CheckRepoDay, Admit, SyncClone, CreateRun,
     StartRun, RecordDispatch, RefuseRuntime, Spawn, SpawnFails, FailSpawn, WritePid,
     MarkDispatched, ListActiveRuns, ReapExited, SkipRunning, KillHung, CloseRun, CloseIssue,
     EndCycle
<1>2. ASSUME NEW d \in Daemons, Crash(d) \/ StoreFails(d) PROVE asked' = asked
  BY <1>2 DEF Crash, StoreFails
<1>3. ASSUME NEW r \in Runs, LeadSaves(r) \/ LeadComments(r) \/ LeadExits(r) \/ Ages(r)
      PROVE  asked' = asked
  BY <1>3 DEF LeadSaves, LeadComments, LeadExits, Ages
<1>4. ASSUME NEW o \in Operators, RetryWrite(o) \/ \E i \in Issues : RetryCheck(o, i)
      PROVE  asked' = asked
  BY <1>4 DEF RetryWrite, RetryCheck
<1>5. ASSUME NEW i \in Issues, UserComments(i) PROVE asked' = asked
  BY <1>5 DEF UserComments
<1>6. CASE NewDay \/ UNCHANGED vars BY <1>6 DEF NewDay, vars
<1> QED BY <1>1, <1>2, <1>3, <1>4, <1>5, <1>6 DEF Next

AskedInv == \A i \in Issues : asked[i] <= MaxAdw

LEMMA AskedHolds == Spec => []AskedInv
<1>1. Init => AskedInv BY DEF Init, AskedInv
<1>2. TypeOK /\ AskedInv /\ [Next]_vars => AskedInv'
  <2> SUFFICES ASSUME TypeOK, AskedInv, [Next]_vars PROVE AskedInv'
    OBVIOUS
  <2>1. ASSUME NEW i \in Issues, UserAsks(i) PROVE AskedInv'
    BY <2>1 DEF UserAsks, TypeOK, PeopleTypeOK, AskedInv
  <2>2. CASE ~(\E i \in Issues : UserAsks(i))
    BY <2>2, OnlyUsersAsk DEF AskedInv
  <2> QED BY <2>1, <2>2
<1> QED BY TypeCorrect, <1>1, <1>2, PTL DEF Spec

\* No repository has comments for a trigger, or nobody makes any.
NoRequests == MaxAdw = 0 \/ \A repo \in Repos : "comment_adw" \notin Triggers[repo]

\* "Each trigger fires exactly once" (README.md:307), in each dispatcher process and
\* but for one more Lead per fault, where comments are no trigger: a comment is the
\* one that fires again (orchestrator/dispatcher.py:139-163).
THEOREM EachTriggerOnceHolds == ASSUME NoRequests PROVE Spec => []EachTriggerOnce
<1>1. TypeOK /\ TriggerInv /\ AskedInv => EachTriggerOnce
  <2> SUFFICES ASSUME TypeOK, TriggerInv, AskedInv, NEW i \in Issues
               PROVE  Cardinality(LaunchedFor(i))
                        <= Cardinality(Daemons) * (1 + asked[i] + retried[i]) + faults
    BY DEF EachTriggerOnce, LaunchedFor
  <2>1. ~Heard(i) BY DEF Heard, NoRequests, AskedInv, TypeOK, PeopleTypeOK
  <2>2. FewFor(i) BY <2>1 DEF TriggerInv
  <2>3. PICK n \in Nat, c \in Nat, a \in Nat :
          n = Cardinality(Daemons) /\ c = retried[i] /\ a = asked[i]
    BY Shares DEF TypeOK, PeopleTypeOK
  <2>4. n * (1 + a + c) = n * (1 + c) + n * a /\ n * a \in Nat /\ n * (1 + c) \in Nat BY <2>3
  <2>5. faults \in Nat BY DEF TypeOK, PeopleTypeOK
  <2>6. Cardinality(LaunchedFor(i)) + Cardinality(Heading(i)) <= n * (1 + c) + faults
    BY <2>2, <2>3 DEF FewFor
  <2>7. Cardinality(LaunchedFor(i)) <= n * (1 + a + c) + faults
    BY <2>4, <2>5, <2>6, Shares DEF CountsOK
  <2> QED BY <2>3, <2>7
<1> QED BY TriggersFireOnce, TypeCorrect, AskedHolds, <1>1, PTL

---------------------------------------------------------------------------
(* One dispatcher process.                                                  *)

OneDaemon == \A d, e \in Daemons : d = e

\* The runs it has listed and not yet looked at are active, since nobody else
\* closes them; between the two writes of a reaping the row has the verdict.
SoleInv ==
    \A d \in Daemons :
        /\ left[d] \subseteq Active
        /\ pc[d] \in Closing => mine[d] \notin left[d]
        /\ pc[d] \in {"close_run", "mark"} => mine[d] \in Active
        /\ pc[d] = "close_issue" => runStatus[mine[d]] = verdict[d]

LEMMA InitSole == Init => SoleInv
  BY DEF Init, SoleInv, Closing

LEMMA SoleCycle ==
  ASSUME OneDaemon, TypeOK, LaunchInv, HandInv, SoleInv, NEW d \in Daemons, Cycle(d)
  PROVE  SoleInv'
<1> USE DEF TypeOK, JobTypeOK, CycleTypeOK, StoreTypeOK, HandInv, LaunchInv, SoleInv, OneDaemon,
           Launching, Closing, Active, ActiveStatuses, FinalStatuses, jobVars, cycleVars
<1>1. CASE PollStart(d) BY <1>1 DEF PollStart, Go
<1>2. CASE ListIssues(d) BY <1>2 DEF ListIssues
<1>3. CASE JudgeIssue(d) BY <1>3 DEF JudgeIssue, Go
<1>4. CASE SeenIssue(d) BY <1>4 DEF SeenIssue, Go, Drop
<1>5. CASE SeenNoIssue(d) BY <1>5 DEF SeenNoIssue, Go
<1>6. CASE InsertIssue(d) BY <1>6 DEF InsertIssue, AbandonRepo, Go, Drop
<1>7. CASE CheckGlobalCap(d) BY <1>7 DEF CheckGlobalCap, Admit, Go, Drop
<1>8. CASE CheckRepoCap(d) BY <1>8 DEF CheckRepoCap, Admit, Go, Drop
<1>9. CASE CheckGlobalDay(d) BY <1>9 DEF CheckGlobalDay, Admit, Go, Drop
<1>10. CASE CheckRepoDay(d) BY <1>10 DEF CheckRepoDay, Admit, Go, Drop
<1>11. CASE SyncClone(d) BY <1>11 DEF SyncClone, AbandonRepo, Go, Drop
<1>12. CASE CreateRun(d) BY <1>12 DEF CreateRun, Go
<1>13. CASE StartRun(d) BY <1>13 DEF StartRun, Go
<1>14. CASE RecordDispatch(d) BY <1>14 DEF RecordDispatch, Go
<1>15. CASE RefuseRuntime(d) BY <1>15 DEF RefuseRuntime, AbandonRepo, Go, Drop
<1>16. CASE Spawn(d) BY <1>16 DEF Spawn, Go
<1>17. CASE SpawnFails(d) BY <1>17 DEF SpawnFails, Go
<1>18. CASE FailSpawn(d) BY <1>18 DEF FailSpawn, Go, Drop
<1>19. CASE WritePid(d) BY <1>19 DEF WritePid, Go
<1>20. CASE MarkDispatched(d) BY <1>20 DEF MarkDispatched, Go, Drop
<1>21. CASE ListActiveRuns(d) BY <1>21 DEF ListActiveRuns, Go
<1>22. CASE ReapExited(d) BY <1>22 DEF ReapExited, Go
<1>23. CASE SkipRunning(d) BY <1>23 DEF SkipRunning
<1>24. CASE KillHung(d) BY <1>24 DEF KillHung, Go
<1>25. CASE CloseRun(d) BY <1>25 DEF CloseRun, Go
<1>26. CASE CloseIssue(d) BY <1>26 DEF CloseIssue, Go, Drop
<1>27. CASE EndCycle(d) BY <1>27 DEF EndCycle, Go
<1> QED
  BY <1>1, <1>2, <1>3, <1>4, <1>5, <1>6, <1>7, <1>8, <1>9, <1>10, <1>11, <1>12,
     <1>13, <1>14, <1>15, <1>16, <1>17, <1>18, <1>19, <1>20, <1>21, <1>22, <1>23,
     <1>24, <1>25, <1>26, <1>27 DEF Cycle

LEMMA SoleStep ==
  ASSUME OneDaemon, TypeOK, LaunchInv, HandInv, SoleInv, [Next]_vars
  PROVE  SoleInv'
<1> USE DEF TypeOK, JobTypeOK, CycleTypeOK, StoreTypeOK, HandInv, LaunchInv, SoleInv, OneDaemon,
           Launching, Closing, Active, ActiveStatuses, FinalStatuses, jobVars, cycleVars
<1>1. ASSUME NEW r \in Runs, LeadSaves(r) PROVE SoleInv'
  BY <1>1 DEF LeadSaves
<1>2. ASSUME NEW r \in Runs, LeadComments(r) PROVE SoleInv'
  BY <1>2 DEF LeadComments
<1>3. ASSUME NEW r \in Runs, LeadExits(r) PROVE SoleInv'
  BY <1>3 DEF LeadExits
<1>4. ASSUME NEW r \in Runs, Ages(r) PROVE SoleInv'
  BY <1>4 DEF Ages
<1>5. ASSUME NEW i \in Issues, UserAsks(i) PROVE SoleInv'
  BY <1>5 DEF UserAsks
<1>6. ASSUME NEW i \in Issues, UserComments(i) PROVE SoleInv'
  BY <1>6 DEF UserComments
<1>7. ASSUME NEW o \in Operators, RetryWrite(o) PROVE SoleInv'
  BY <1>7 DEF RetryWrite
<1>8. ASSUME NEW o \in Operators, NEW i \in Issues, RetryCheck(o, i) PROVE SoleInv'
  BY <1>8 DEF RetryCheck
<1>9. CASE NewDay
  BY <1>9 DEF NewDay
<1>10. ASSUME NEW d \in Daemons, Crash(d) PROVE SoleInv'
  BY <1>10 DEF Crash, Go, Drop
<1>11. ASSUME NEW d \in Daemons, StoreFails(d) PROVE SoleInv'
  BY <1>11 DEF StoreFails, AbandonRepo, Go, Drop
<1>12. CASE UNCHANGED vars
  BY <1>12 DEF vars
<1> QED
  BY <1>1, <1>2, <1>3, <1>4, <1>5, <1>6, <1>7, <1>8, <1>9, <1>10, <1>11, <1>12,
     SoleCycle DEF Next

LEMMA SoleHolds == ASSUME OneDaemon PROVE Spec => []SoleInv
<1>1. TypeOK /\ LaunchInv /\ HandInv /\ SoleInv /\ [Next]_vars => SoleInv' BY SoleStep
<1> QED BY InitSole, TypeCorrect, LaunchSafe, HandHolds, <1>1, PTL DEF Spec

\* A step that settles no issue keeps what is said of its status: runs that are
\* closed stay so, and a pid stays written.
LEMMA StatusKept ==
  ASSUME TypeOK, LaunchInv, StatusBackedByRun,
         \A r \in Runs : runStatus[r] # "none" =>
             /\ runIssue'[r] = runIssue[r]
             /\ runStatus[r] \in FinalStatuses => runStatus'[r] = runStatus[r]
             /\ hasPid[r] => hasPid'[r],
         \A i \in Issues : issueStatus'[i] = issueStatus[i] \/ issueStatus'[i] = "seen"
  PROVE  StatusBackedByRun'
<1> SUFFICES ASSUME NEW i \in Issues
             PROVE  LET runs == {r \in Runs : runIssue'[r] = i}
                    IN  /\ issueStatus'[i] = "completed" =>
                             \E r \in runs : runStatus'[r] = "succeeded"
                        /\ issueStatus'[i] = "failed" =>
                             \E r \in runs : runStatus'[r] \in {"failed", "incomplete"}
                        /\ issueStatus'[i] = "dispatched" => \E r \in runs : hasPid'[r]
  BY DEF StatusBackedByRun
<1>1. CASE issueStatus'[i] = "completed"
  <2>1. PICK r \in Runs : runIssue[r] = i /\ runStatus[r] = "succeeded"
    BY <1>1 DEF StatusBackedByRun
  <2> QED BY <1>1, <2>1 DEF FinalStatuses
<1>2. CASE issueStatus'[i] = "failed"
  <2>1. PICK r \in Runs : runIssue[r] = i /\ runStatus[r] \in {"failed", "incomplete"}
    BY <1>2 DEF StatusBackedByRun
  <2> QED BY <1>2, <2>1 DEF FinalStatuses
<1>3. CASE issueStatus'[i] = "dispatched"
  <2>1. PICK r \in Runs : runIssue[r] = i /\ hasPid[r]
    BY <1>3 DEF StatusBackedByRun
  <2>2. runStatus[r] # "none" BY <2>1 DEF LaunchInv
  <2> QED BY <1>3, <2>1, <2>2
<1> QED BY <1>1, <1>2, <1>3

LEMMA StatusCycle ==
  ASSUME OneDaemon, TypeOK, LaunchInv, HandInv, SoleInv, StatusBackedByRun,
         NEW d \in Daemons, Cycle(d)
  PROVE  StatusBackedByRun'
<1> USE
  DEF TypeOK, JobTypeOK, CycleTypeOK, StoreTypeOK, PeopleTypeOK, HandInv, LaunchInv, SoleInv,
      OneDaemon,
           Launching, Closing, Active, ActiveStatuses, FinalStatuses, jobVars, cycleVars, peopleVars
<1>1. CASE PollStart(d) BY <1>1, StatusKept DEF PollStart, Go
<1>2. CASE ListIssues(d) BY <1>2, StatusKept DEF ListIssues
<1>3. CASE JudgeIssue(d) BY <1>3, StatusKept DEF JudgeIssue, Go
<1>4. CASE SeenIssue(d) BY <1>4, StatusKept DEF SeenIssue, Go, Drop
<1>5. CASE SeenNoIssue(d) BY <1>5, StatusKept DEF SeenNoIssue, Go
<1>6. CASE InsertIssue(d)
  BY <1>6, StatusKept DEF InsertIssue, AbandonRepo, Go, Drop
<1>7. CASE CheckGlobalCap(d)
  BY <1>7, StatusKept DEF CheckGlobalCap, Admit, Go, Drop
<1>8. CASE CheckRepoCap(d) BY <1>8, StatusKept DEF CheckRepoCap, Admit, Go, Drop
<1>9. CASE CheckGlobalDay(d)
  BY <1>9, StatusKept DEF CheckGlobalDay, Admit, Go, Drop
<1>10. CASE CheckRepoDay(d) BY <1>10, StatusKept DEF CheckRepoDay, Admit, Go, Drop
<1>11. CASE SyncClone(d) BY <1>11, StatusKept DEF SyncClone, AbandonRepo, Go, Drop
<1>12. CASE CreateRun(d) BY <1>12, StatusKept DEF CreateRun, Go
<1>13. CASE StartRun(d) BY <1>13, StatusKept DEF StartRun, Go
<1>14. CASE RecordDispatch(d) BY <1>14, StatusKept DEF RecordDispatch, Go
<1>15. CASE RefuseRuntime(d)
  BY <1>15, StatusKept DEF RefuseRuntime, AbandonRepo, Go, Drop
<1>16. CASE Spawn(d) BY <1>16, StatusKept DEF Spawn, Go
<1>17. CASE SpawnFails(d) BY <1>17, StatusKept DEF SpawnFails, Go
<1>18. CASE FailSpawn(d)
  <2>1. /\ mine[d] \in Active /\ runStatus' = [runStatus EXCEPT ![mine[d]] = "failed"]
        /\ UNCHANGED <<issueStatus, runIssue, hasPid>>
    BY <1>18 DEF FailSpawn
  <2>2. \A r \in Runs : runStatus[r] \in FinalStatuses => runStatus'[r] = runStatus[r]
    BY <2>1
  <2> QED BY <2>1, <2>2, StatusKept
<1>19. CASE WritePid(d) BY <1>19, StatusKept DEF WritePid, Go
<1>20. CASE MarkDispatched(d)
  <2>1. here[d] \in Issues /\ mine[d] \in Runs /\ runIssue[mine[d]] = here[d] /\ hasPid[mine[d]]
    BY <1>20 DEF MarkDispatched
  <2>2. /\ issueStatus' = [issueStatus EXCEPT ![here[d]] = "dispatched"]
        /\ UNCHANGED <<runStatus, runIssue, hasPid>>
    BY <1>20 DEF MarkDispatched
  <2> QED BY <2>1, <2>2 DEF StatusBackedByRun
<1>21. CASE ListActiveRuns(d) BY <1>21, StatusKept DEF ListActiveRuns, Go
<1>22. CASE ReapExited(d) BY <1>22, StatusKept DEF ReapExited, Go
<1>23. CASE SkipRunning(d) BY <1>23, StatusKept DEF SkipRunning
<1>24. CASE KillHung(d) BY <1>24, StatusKept DEF KillHung, Go
<1>25. CASE CloseRun(d)
  <2>1. /\ mine[d] \in Active /\ runStatus' = [runStatus EXCEPT ![mine[d]] = verdict[d]]
        /\ UNCHANGED <<issueStatus, runIssue, hasPid>>
    BY <1>25 DEF CloseRun
  <2>2. \A r \in Runs : runStatus[r] \in FinalStatuses => runStatus'[r] = runStatus[r]
    BY <2>1
  <2> QED BY <2>1, <2>2, StatusKept
<1>26. CASE CloseIssue(d)
  <2>1. /\ mine[d] \in Runs /\ runIssue[mine[d]] \in Issues
        /\ runStatus[mine[d]] = verdict[d] /\ verdict[d] \in FinalStatuses
    BY <1>26 DEF CloseIssue
  <2>2. /\ issueStatus' = [issueStatus EXCEPT ![runIssue[mine[d]]] =
                             IF verdict[d] = "succeeded" THEN "completed" ELSE "failed"]
        /\ UNCHANGED <<runStatus, runIssue, hasPid>>
    BY <1>26 DEF CloseIssue
  <2> QED BY <2>1, <2>2 DEF StatusBackedByRun
<1>27. CASE EndCycle(d) BY <1>27, StatusKept DEF EndCycle, Go
<1> QED
  BY <1>1, <1>2, <1>3, <1>4, <1>5, <1>6, <1>7, <1>8, <1>9, <1>10, <1>11, <1>12,
     <1>13, <1>14, <1>15, <1>16, <1>17, <1>18, <1>19, <1>20, <1>21, <1>22, <1>23,
     <1>24, <1>25, <1>26, <1>27 DEF Cycle

LEMMA StatusStep ==
  ASSUME OneDaemon, TypeOK, LaunchInv, HandInv, SoleInv, StatusBackedByRun, [Next]_vars
  PROVE  StatusBackedByRun'
<1> USE
  DEF TypeOK, JobTypeOK, CycleTypeOK, StoreTypeOK, PeopleTypeOK, HandInv, LaunchInv, SoleInv,
      OneDaemon,
           Launching, Closing, Active, ActiveStatuses, FinalStatuses, jobVars, cycleVars, peopleVars
<1>1. ASSUME NEW r \in Runs, LeadSaves(r) PROVE StatusBackedByRun'
  BY <1>1, StatusKept DEF LeadSaves
<1>2. ASSUME NEW r \in Runs, LeadComments(r) PROVE StatusBackedByRun'
  BY <1>2, StatusKept DEF LeadComments
<1>3. ASSUME NEW r \in Runs, LeadExits(r) PROVE StatusBackedByRun'
  BY <1>3, StatusKept DEF LeadExits
<1>4. ASSUME NEW r \in Runs, Ages(r) PROVE StatusBackedByRun'
  BY <1>4, StatusKept DEF Ages
<1>5. ASSUME NEW i \in Issues, UserAsks(i) PROVE StatusBackedByRun'
  BY <1>5, StatusKept DEF UserAsks
<1>6. ASSUME NEW i \in Issues, UserComments(i) PROVE StatusBackedByRun'
  BY <1>6, StatusKept DEF UserComments
<1>7. ASSUME NEW o \in Operators, RetryWrite(o) PROVE StatusBackedByRun'
  BY <1>7, StatusKept DEF RetryWrite
<1>8. ASSUME NEW o \in Operators, NEW i \in Issues, RetryCheck(o, i) PROVE StatusBackedByRun'
  BY <1>8, StatusKept DEF RetryCheck
<1>9. CASE NewDay
  BY <1>9, StatusKept DEF NewDay
<1>10. ASSUME NEW d \in Daemons, Crash(d) PROVE StatusBackedByRun'
  BY <1>10, StatusKept DEF Crash, Go, Drop
<1>11. ASSUME NEW d \in Daemons, StoreFails(d) PROVE StatusBackedByRun'
  BY <1>11, StatusKept DEF StoreFails, AbandonRepo, Go, Drop
<1>12. CASE UNCHANGED vars
  BY <1>12, StatusKept DEF vars
<1> QED
  BY <1>1, <1>2, <1>3, <1>4, <1>5, <1>6, <1>7, <1>8, <1>9, <1>10, <1>11, <1>12,
     StatusCycle DEF Next

\* With one dispatcher process, an issue's status never outruns its runs, whatever
\* fails: a run of it was closed that way, or has a process
\* (orchestrator/dispatcher.py:280-293, 858-862).
THEOREM StatusBackedHolds == ASSUME OneDaemon PROVE Spec => []StatusBackedByRun
<1>1. Init => StatusBackedByRun BY DEF Init, StatusBackedByRun
<1>2. TypeOK /\ LaunchInv /\ HandInv /\ SoleInv /\ StatusBackedByRun /\ [Next]_vars
        => StatusBackedByRun'
  BY StatusStep
<1> QED BY SoleHolds, HandHolds, TypeCorrect, LaunchSafe, <1>1, <1>2, PTL DEF Spec

LEMMA TrackedCycle ==
  ASSUME OneDaemon, MaxFaults = 0, TypeOK, LaunchInv, HandInv, SoleInv, DispatchedIsTracked,
         NEW d \in Daemons, Cycle(d)
  PROVE  DispatchedIsTracked'
<1> USE
  DEF TypeOK, JobTypeOK, CycleTypeOK, StoreTypeOK, PeopleTypeOK, HandInv, LaunchInv, SoleInv,
      OneDaemon,
           Launching, Closing, Active, ActiveStatuses, FinalStatuses, jobVars, cycleVars, peopleVars
<1>1. CASE PollStart(d) BY <1>1, SMTT(30) DEF PollStart, Go, DispatchedIsTracked
<1>2. CASE ListIssues(d) BY <1>2, SMTT(30) DEF ListIssues, DispatchedIsTracked
<1>3. CASE JudgeIssue(d) BY <1>3, SMTT(30) DEF JudgeIssue, Go, DispatchedIsTracked
<1>4. CASE SeenIssue(d) BY <1>4, SMTT(30) DEF SeenIssue, Go, Drop, DispatchedIsTracked
<1>5. CASE SeenNoIssue(d) BY <1>5, SMTT(30) DEF SeenNoIssue, Go, DispatchedIsTracked
<1>6. CASE InsertIssue(d)
  BY <1>6, SMTT(30) DEF InsertIssue, AbandonRepo, Go, Drop, DispatchedIsTracked
<1>7. CASE CheckGlobalCap(d)
  BY <1>7, SMTT(30) DEF CheckGlobalCap, Admit, Go, Drop, DispatchedIsTracked
<1>8. CASE CheckRepoCap(d)
  BY <1>8, SMTT(30) DEF CheckRepoCap, Admit, Go, Drop, DispatchedIsTracked
<1>9. CASE CheckGlobalDay(d)
  BY <1>9, SMTT(30) DEF CheckGlobalDay, Admit, Go, Drop, DispatchedIsTracked
<1>10. CASE CheckRepoDay(d)
  BY <1>10, SMTT(30) DEF CheckRepoDay, Admit, Go, Drop, DispatchedIsTracked
<1>11. CASE SyncClone(d)
  BY <1>11, SMTT(30) DEF SyncClone, AbandonRepo, Go, Drop, DispatchedIsTracked
<1>12. CASE CreateRun(d) BY <1>12, SMTT(30) DEF CreateRun, Go, DispatchedIsTracked
<1>13. CASE StartRun(d) BY <1>13, SMTT(30) DEF StartRun, Go, DispatchedIsTracked
<1>14. CASE RecordDispatch(d) BY <1>14, SMTT(30) DEF RecordDispatch, Go, DispatchedIsTracked
<1>15. CASE RefuseRuntime(d)
  BY <1>15, SMTT(30) DEF RefuseRuntime, AbandonRepo, Go, Drop, DispatchedIsTracked
<1>16. CASE Spawn(d) BY <1>16, SMTT(30) DEF Spawn, Go, DispatchedIsTracked
<1>17. CASE SpawnFails(d) BY <1>17, SMTT(30) DEF SpawnFails, Go, DispatchedIsTracked
<1>18. CASE FailSpawn(d) BY <1>18, SMTT(30) DEF FailSpawn, Go, Drop, DispatchedIsTracked
<1>19. CASE WritePid(d) BY <1>19, SMTT(30) DEF WritePid, Go, DispatchedIsTracked
<1>20. CASE MarkDispatched(d)
  BY <1>20, SMTT(30) DEF MarkDispatched, Go, Drop, DispatchedIsTracked
<1>21. CASE ListActiveRuns(d) BY <1>21, SMTT(30) DEF ListActiveRuns, Go, DispatchedIsTracked
<1>22. CASE ReapExited(d) BY <1>22, SMTT(30) DEF ReapExited, Go, DispatchedIsTracked
<1>23. CASE SkipRunning(d) BY <1>23, SMTT(30) DEF SkipRunning, DispatchedIsTracked
<1>24. CASE KillHung(d) BY <1>24, SMTT(30) DEF KillHung, Go, DispatchedIsTracked
<1>25. CASE CloseRun(d) BY <1>25, SMTT(30) DEF CloseRun, Go, DispatchedIsTracked
<1>26. CASE CloseIssue(d) BY <1>26, SMTT(30) DEF CloseIssue, Go, Drop, DispatchedIsTracked
<1>27. CASE EndCycle(d) BY <1>27, SMTT(30) DEF EndCycle, Go, DispatchedIsTracked
<1> QED
  BY <1>1, <1>2, <1>3, <1>4, <1>5, <1>6, <1>7, <1>8, <1>9, <1>10, <1>11, <1>12,
     <1>13, <1>14, <1>15, <1>16, <1>17, <1>18, <1>19, <1>20, <1>21, <1>22, <1>23,
     <1>24, <1>25, <1>26, <1>27 DEF Cycle

LEMMA TrackedStep ==
  ASSUME OneDaemon, MaxFaults = 0, TypeOK, LaunchInv, HandInv, SoleInv, DispatchedIsTracked,
         [Next]_vars
  PROVE  DispatchedIsTracked'
<1> USE
  DEF TypeOK, JobTypeOK, CycleTypeOK, StoreTypeOK, PeopleTypeOK, HandInv, LaunchInv, SoleInv,
      OneDaemon,
           Launching, Closing, Active, ActiveStatuses, FinalStatuses, jobVars, cycleVars, peopleVars
<1>1. ASSUME NEW r \in Runs, LeadSaves(r) PROVE DispatchedIsTracked'
  BY <1>1, SMTT(30) DEF LeadSaves, DispatchedIsTracked
<1>2. ASSUME NEW r \in Runs, LeadComments(r) PROVE DispatchedIsTracked'
  BY <1>2, SMTT(30) DEF LeadComments, DispatchedIsTracked
<1>3. ASSUME NEW r \in Runs, LeadExits(r) PROVE DispatchedIsTracked'
  BY <1>3, SMTT(30) DEF LeadExits, DispatchedIsTracked
<1>4. ASSUME NEW r \in Runs, Ages(r) PROVE DispatchedIsTracked'
  BY <1>4, SMTT(30) DEF Ages, DispatchedIsTracked
<1>5. ASSUME NEW i \in Issues, UserAsks(i) PROVE DispatchedIsTracked'
  BY <1>5, SMTT(30) DEF UserAsks, DispatchedIsTracked
<1>6. ASSUME NEW i \in Issues, UserComments(i) PROVE DispatchedIsTracked'
  BY <1>6, SMTT(30) DEF UserComments, DispatchedIsTracked
<1>7. ASSUME NEW o \in Operators, RetryWrite(o) PROVE DispatchedIsTracked'
  BY <1>7, SMTT(30) DEF RetryWrite, DispatchedIsTracked
<1>8. ASSUME NEW o \in Operators, NEW i \in Issues, RetryCheck(o, i) PROVE DispatchedIsTracked'
  BY <1>8, SMTT(30) DEF RetryCheck, DispatchedIsTracked
<1>9. CASE NewDay
  BY <1>9, SMTT(30) DEF NewDay, DispatchedIsTracked
<1>10. ASSUME NEW d \in Daemons, Crash(d) PROVE DispatchedIsTracked'
  BY <1>10, SMTT(30) DEF Crash, Go, Drop, DispatchedIsTracked
<1>11. ASSUME NEW d \in Daemons, StoreFails(d) PROVE DispatchedIsTracked'
  BY <1>11, SMTT(30) DEF StoreFails, AbandonRepo, Go, Drop, DispatchedIsTracked
<1>12. CASE UNCHANGED vars
  BY <1>12, SMTT(30) DEF vars, DispatchedIsTracked
<1> QED
  BY <1>1, <1>2, <1>3, <1>4, <1>5, <1>6, <1>7, <1>8, <1>9, <1>10, <1>11, <1>12,
     TrackedCycle DEF Next

\* With one dispatcher process and no fault, an issue that is refused a retry as
\* `dispatched' has an active run with a process, or is about to be closed
\* (orchestrator/ops.py:146-156).
THEOREM DispatchedIsTrackedHolds ==
  ASSUME OneDaemon, MaxFaults = 0
  PROVE  Spec => []DispatchedIsTracked
<1>1. Init => DispatchedIsTracked BY DEF Init, DispatchedIsTracked
<1>2. TypeOK /\ LaunchInv /\ HandInv /\ SoleInv /\ DispatchedIsTracked /\ [Next]_vars
        => DispatchedIsTracked'
  BY TrackedStep
<1> QED BY SoleHolds, HandHolds, TypeCorrect, LaunchSafe, <1>1, <1>2, PTL DEF Spec

---------------------------------------------------------------------------
(* One dispatcher process implements RunLifecycle.                          *)

LEMMA OneIsOne == ASSUME OneDaemon PROVE Cardinality(Daemons) = 1
<1>1. PICK d \in Daemons : TRUE OBVIOUS
<1>2. Daemons = {d} BY DEF OneDaemon
<1> QED BY <1>2, FS_Singleton

\* The abstract rows that are open are those of the active runs.
LEMMA OpenIsActive ==
  ASSUME TypeOK, HandInv
  PROVE  Lifecycle!Open = Active /\ \A repo \in Repos : Lifecycle!OpenIn(repo) = ActiveOf(repo)
<1>1. Lifecycle!Open = Active
  BY DEF Lifecycle!Open, Active, ActiveStatuses, FinalStatuses, TypeOK, StoreTypeOK
<1>2. \A r \in Active : runIssue[r] \in Issues
  BY DEF Active, ActiveStatuses, HandInv
<1>3. ASSUME NEW repo \in Repos PROVE Lifecycle!OpenIn(repo) = ActiveOf(repo)
  BY <1>1, <1>2 DEF Lifecycle!OpenIn, ActiveOf, Active
<1> QED BY <1>1, <1>3

\* Steps that close no run and start no Lead at most end some Leads.
LEMMA EndMaps ==
  ASSUME TypeOK, HandInv,
         \A r \in Runs : \/ runStatus'[r] = runStatus[r]
                         \/ runStatus[r] \in ActiveStatuses /\ runStatus'[r] \in ActiveStatuses,
         \A r \in Runs : runIssue'[r] = runIssue[r],
         \A r \in Runs : \/ proc'[r] = proc[r]
                         \/ proc[r] \in {"live", "zombie"} /\ proc'[r] \in {"zombie", "gone"}
  PROVE  Lifecycle!Next
<1> DEFINE some == {r \in Runs : proc[r] = "live" /\ proc'[r] # "live"}
<1>1. [r \in Runs |-> IF runStatus'[r] \in ActiveStatuses THEN "open" ELSE runStatus'[r]]
        = [r \in Runs |-> IF runStatus[r] \in ActiveStatuses THEN "open" ELSE runStatus[r]]
  OBVIOUS
<1>2. [r \in Runs |-> IF runIssue'[r] = NoIssue THEN NoIssue ELSE RepoOf[runIssue'[r]]]
        = [r \in Runs |-> IF runIssue[r] = NoIssue THEN NoIssue ELSE RepoOf[runIssue[r]]]
  OBVIOUS
<1>3. \A r \in Runs :
        (IF proc'[r] \in {"zombie", "gone"} THEN "ended" ELSE proc'[r])
          = IF r \in some THEN "ended"
            ELSE IF proc[r] \in {"zombie", "gone"} THEN "ended" ELSE proc[r]
  BY DEF TypeOK, LeadTypeOK
<1>4. /\ some \in SUBSET {r \in Runs : (IF proc[r] \in {"zombie", "gone"} THEN "ended"
                                        ELSE proc[r]) = "live"}
  OBVIOUS
<1> HIDE DEF some
<1>5. Lifecycle!End BY <1>1, <1>2, <1>3, <1>4 DEF Lifecycle!End
<1> QED BY <1>5 DEF Lifecycle!Next

\* Closing a run settles it.
LEMMA SettleMaps ==
  ASSUME TypeOK, NEW r \in Active, proc[r] # "live", NEW status \in FinalStatuses,
         proc[r] = "none" => status = "failed",
         runStatus' = [runStatus EXCEPT ![r] = status],
         UNCHANGED <<runIssue, proc>>
  PROVE  Lifecycle!Next
<1>1. r \in Runs BY DEF Active
<1>2. [q \in Runs |-> IF runStatus'[q] \in ActiveStatuses THEN "open" ELSE runStatus'[q]]
        = [[q \in Runs |-> IF runStatus[q] \in ActiveStatuses THEN "open" ELSE runStatus[q]]
             EXCEPT ![r] = status]
  BY <1>1 DEF TypeOK, StoreTypeOK, FinalStatuses, ActiveStatuses
<1>3. Lifecycle!Settle(r, status)
  BY <1>1, <1>2 DEF Lifecycle!Settle, Active, TypeOK, LeadTypeOK
<1>4. status \in Lifecycle!Final BY DEF FinalStatuses, Lifecycle!Final
<1> QED BY <1>1, <1>3, <1>4 DEF Lifecycle!Next

\* The lifecycle counts with the same cardinality.
LEMMA SameCount == \A S : Lifecycle!Cardinality(S) = Cardinality(S)
BY Zenon DEF Lifecycle!Cardinality, Cardinality

LEMMA CreateMaps ==
  ASSUME OneDaemon, TypeOK, LaunchInv, HandInv, CapInv, NEW d \in Daemons, CreateRun(d)
  PROVE  Lifecycle!Next
<1>1. PICK r \in Runs :
        /\ runStatus[r] = "none"
        /\ runStatus' = [runStatus EXCEPT ![r] = "pending"]
        /\ runIssue' = [runIssue EXCEPT ![r] = here[d]]
  BY DEF CreateRun
<1>2. pc[d] = "create" /\ here[d] \in Issues /\ proc' = proc
  BY DEF CreateRun, HandInv, Judging, leadVars
<1>3. PICK repo \in Repos : repo = RepoOf[here[d]] BY <1>2
<1>4. d \in Admitted /\ d \in AdmittedTo(repo) BY <1>2, <1>3 DEF Admitted, AdmittedTo
<1>5. Cardinality(Active) < MaxConcurrent
  <2>1. Cardinality(Admitted) # 0 BY <1>4, Finite, FS_EmptySet
  <2>2. Cardinality(Active) + Cardinality(Admitted) <= MaxConcurrent + 1 - 1
    BY OneIsOne DEF CapInv
  <2> QED BY <2>1, <2>2, Finite, CardinalityIsNat
<1>6. Cardinality(ActiveOf(repo)) < RepoMaxConcurrent
  <2>1. Cardinality(AdmittedTo(repo)) # 0 BY <1>4, Finite, FS_EmptySet
  <2>2. Cardinality(ActiveOf(repo)) + Cardinality(AdmittedTo(repo)) <= RepoMaxConcurrent + 1 - 1
    BY <1>3, OneIsOne DEF CapInv
  <2>3. Cardinality(ActiveOf(repo)) \in Nat /\ Cardinality(AdmittedTo(repo)) \in Nat
    BY Finite, CardinalityIsNat
  <2> QED BY <2>1, <2>2, <2>3
<1>7. [q \in Runs |-> IF runStatus'[q] \in ActiveStatuses THEN "open" ELSE runStatus'[q]]
        = [[q \in Runs |-> IF runStatus[q] \in ActiveStatuses THEN "open" ELSE runStatus[q]]
             EXCEPT ![r] = "open"]
  BY <1>1 DEF TypeOK, StoreTypeOK, ActiveStatuses
<1>8. [q \in Runs |-> IF runIssue'[q] = NoIssue THEN NoIssue ELSE RepoOf[runIssue'[q]]]
        = [[q \in Runs |-> IF runIssue[q] = NoIssue THEN NoIssue ELSE RepoOf[runIssue[q]]]
             EXCEPT ![r] = repo]
  BY <1>1, <1>2, <1>3 DEF TypeOK, StoreTypeOK
<1>9. Lifecycle!Open = Active /\ Lifecycle!OpenIn(repo) = ActiveOf(repo)
  BY <1>3, OpenIsActive
<1>10. Lifecycle!Register(r, repo)
  <2>1. (IF runStatus[r] \in ActiveStatuses THEN "open" ELSE runStatus[r]) = "none"
    BY <1>1 DEF ActiveStatuses
  <2>2. /\ Lifecycle!Cardinality(Lifecycle!Open) < MaxConcurrent
        /\ Lifecycle!Cardinality(Lifecycle!OpenIn(repo)) < RepoMaxConcurrent
    BY <1>5, <1>6, <1>9, SameCount
  <2> QED BY <1>1, <1>2, <1>7, <1>8, <2>1, <2>2 DEF Lifecycle!Register
<1> QED BY <1>1, <1>3, <1>10 DEF Lifecycle!Next

LEMMA SpawnMaps ==
  ASSUME TypeOK, LaunchInv, NEW d \in Daemons, Spawn(d)
  PROVE  Lifecycle!Next
<1>1. PICK r \in Runs : /\ r = mine[d] /\ r \in Active /\ proc[r] = "none"
                       /\ UNCHANGED <<runStatus, runIssue>>
  BY DEF Spawn, LaunchInv, Launching, Active
<1>2. [q \in Runs |-> IF proc'[q] \in {"zombie", "gone"} THEN "ended" ELSE proc'[q]]
        = [[q \in Runs |-> IF proc[q] \in {"zombie", "gone"} THEN "ended" ELSE proc[q]]
             EXCEPT ![r] = "live"]
  BY <1>1 DEF Spawn, Collected, TypeOK, LeadTypeOK
<1>3. Lifecycle!Launch(r) BY <1>1, <1>2 DEF Lifecycle!Launch, Active
<1> QED BY <1>1, <1>3 DEF Lifecycle!Next

LEMMA LifecycleCycle ==
  ASSUME OneDaemon, TypeOK, LaunchInv, HandInv, SoleInv, CapInv, NEW d \in Daemons, Cycle(d)
  PROVE  [Lifecycle!Next]_Lifecycle!vars
<1> USE
  DEF TypeOK, JobTypeOK, StoreTypeOK, LeadTypeOK, LaunchInv, Launching, Closing, jobVars,
      cycleVars, leadVars
<1>1. CASE PollStart(d) BY <1>1, EndMaps DEF PollStart, Go
<1>2. CASE ListIssues(d) BY <1>2, EndMaps DEF ListIssues
<1>3. CASE JudgeIssue(d) BY <1>3, EndMaps DEF JudgeIssue, Go
<1>4. CASE SeenIssue(d) BY <1>4, EndMaps DEF SeenIssue, Go, Drop
<1>5. CASE SeenNoIssue(d) BY <1>5, EndMaps DEF SeenNoIssue, Go
<1>6. CASE InsertIssue(d) BY <1>6, EndMaps DEF InsertIssue, AbandonRepo, Go, Drop
<1>7. CASE CheckGlobalCap(d) BY <1>7, EndMaps DEF CheckGlobalCap, Admit, Go, Drop
<1>8. CASE CheckRepoCap(d) BY <1>8, EndMaps DEF CheckRepoCap, Admit, Go, Drop
<1>9. CASE CheckGlobalDay(d) BY <1>9, EndMaps DEF CheckGlobalDay, Admit, Go, Drop
<1>10. CASE CheckRepoDay(d) BY <1>10, EndMaps DEF CheckRepoDay, Admit, Go, Drop
<1>11. CASE SyncClone(d)
  <2>1. \A r \in Runs : \/ proc'[r] = proc[r]
                        \/ proc[r] \in {"live", "zombie"} /\ proc'[r] \in {"zombie", "gone"}
    BY <1>11 DEF SyncClone, Collected
  <2> QED BY <1>11, <2>1, EndMaps DEF SyncClone
<1>12. CASE CreateRun(d) BY <1>12, CreateMaps
<1>13. CASE StartRun(d)
  <2>1. mine[d] \in Active /\ runStatus' = [runStatus EXCEPT ![mine[d]] = "running"]
    BY <1>13 DEF StartRun
  <2>2. \A r \in Runs : \/ runStatus'[r] = runStatus[r]
                        \/ runStatus[r] \in ActiveStatuses /\ runStatus'[r] \in ActiveStatuses
    BY <2>1 DEF Active, ActiveStatuses
  <2> QED BY <1>13, <2>2, EndMaps DEF StartRun
<1>14. CASE RecordDispatch(d) BY <1>14, EndMaps DEF RecordDispatch, Go
<1>15. CASE RefuseRuntime(d)
  BY <1>15, EndMaps DEF RefuseRuntime, AbandonRepo, Go, Drop
<1>16. CASE Spawn(d) BY <1>16, SpawnMaps
<1>17. CASE SpawnFails(d) BY <1>17, EndMaps DEF SpawnFails, Go
<1>18. CASE FailSpawn(d)
  <2>1. mine[d] \in Active /\ proc[mine[d]] = "none" BY <1>18 DEF FailSpawn
  <2> QED BY <1>18, <2>1, SettleMaps DEF FailSpawn, FinalStatuses
<1>19. CASE WritePid(d) BY <1>19, EndMaps DEF WritePid, Go
<1>20. CASE MarkDispatched(d) BY <1>20, EndMaps DEF MarkDispatched, Go, Drop
<1>21. CASE ListActiveRuns(d) BY <1>21, EndMaps DEF ListActiveRuns, Go
<1>22. CASE ReapExited(d)
  <2>1. PICK r \in left[d] : proc[r] \in {"zombie", "gone"} /\ proc' = [proc EXCEPT ![r] = "gone"]
    BY <1>22 DEF ReapExited
  <2> QED BY <1>22, <2>1, EndMaps DEF ReapExited
<1>23. CASE SkipRunning(d) BY <1>23, EndMaps DEF SkipRunning
<1>24. CASE KillHung(d)
  <2>1. PICK r \in left[d] :
          /\ proc[r] \in {"live", "zombie"}
          /\ proc' = [proc EXCEPT ![r] = IF parent[r] = NoDaemon THEN "gone" ELSE "zombie"]
    BY <1>24 DEF KillHung, Answers
  <2> QED BY <1>24, <2>1, EndMaps DEF KillHung
<1>25. CASE CloseRun(d)
  <2>1. /\ mine[d] \in Active /\ proc[mine[d]] \in {"zombie", "gone"}
        /\ verdict[d] \in FinalStatuses
    BY <1>25 DEF CloseRun, SoleInv
  <2> QED BY <1>25, <2>1, SettleMaps DEF CloseRun
<1>26. CASE CloseIssue(d) BY <1>26, EndMaps DEF CloseIssue, Go, Drop
<1>27. CASE EndCycle(d) BY <1>27, EndMaps DEF EndCycle, Go
<1> QED
  BY <1>1, <1>2, <1>3, <1>4, <1>5, <1>6, <1>7, <1>8, <1>9, <1>10, <1>11, <1>12,
     <1>13, <1>14, <1>15, <1>16, <1>17, <1>18, <1>19, <1>20, <1>21, <1>22, <1>23,
     <1>24, <1>25, <1>26, <1>27 DEF Cycle

LEMMA LifecycleStep ==
  ASSUME OneDaemon, TypeOK, LaunchInv, HandInv, SoleInv, CapInv, [Next]_vars
  PROVE  [Lifecycle!Next]_Lifecycle!vars
<1> USE
  DEF TypeOK, JobTypeOK, StoreTypeOK, LeadTypeOK, LaunchInv, Launching, Closing, jobVars,
      cycleVars, leadVars
<1>1. ASSUME NEW r \in Runs, LeadSaves(r) PROVE [Lifecycle!Next]_Lifecycle!vars
  BY <1>1, EndMaps DEF LeadSaves
<1>2. ASSUME NEW r \in Runs, LeadComments(r) PROVE [Lifecycle!Next]_Lifecycle!vars
  BY <1>2, EndMaps DEF LeadComments
<1>3. ASSUME NEW r \in Runs, LeadExits(r) PROVE [Lifecycle!Next]_Lifecycle!vars
  BY <1>3, EndMaps DEF LeadExits
<1>4. ASSUME NEW r \in Runs, Ages(r) PROVE [Lifecycle!Next]_Lifecycle!vars
  BY <1>4, EndMaps DEF Ages
<1>5. ASSUME NEW i \in Issues, UserAsks(i) PROVE [Lifecycle!Next]_Lifecycle!vars
  BY <1>5, EndMaps DEF UserAsks
<1>6. ASSUME NEW i \in Issues, UserComments(i) PROVE [Lifecycle!Next]_Lifecycle!vars
  BY <1>6, EndMaps DEF UserComments
<1>7. ASSUME NEW o \in Operators, RetryWrite(o) PROVE [Lifecycle!Next]_Lifecycle!vars
  BY <1>7, EndMaps DEF RetryWrite
<1>8. ASSUME NEW o \in Operators, NEW i \in Issues, RetryCheck(o, i)
      PROVE  [Lifecycle!Next]_Lifecycle!vars
  BY <1>8, EndMaps DEF RetryCheck
<1>9. CASE NewDay
  BY <1>9, EndMaps DEF NewDay
<1>10. ASSUME NEW d \in Daemons, Crash(d) PROVE [Lifecycle!Next]_Lifecycle!vars
  BY <1>10, EndMaps DEF Crash, Go, Drop
<1>11. ASSUME NEW d \in Daemons, StoreFails(d) PROVE [Lifecycle!Next]_Lifecycle!vars
  BY <1>11, EndMaps DEF StoreFails, AbandonRepo, Go, Drop
<1>12. CASE UNCHANGED vars
  BY <1>12, EndMaps DEF vars
<1> QED
  BY <1>1, <1>2, <1>3, <1>4, <1>5, <1>6, <1>7, <1>8, <1>9, <1>10, <1>11, <1>12,
     LifecycleCycle DEF Next

\* Admission, dispatch and reaping by one dispatcher process, however they
\* interleave with the Leads, the operators, crashes and failing transactions, are
\* steps of RunLifecycle: a run is registered within the caps, its Lead launched
\* once and only while the run is open, and the run settled once, after its Lead
\* has stopped (orchestrator/dispatcher.py, orchestrator/budget.py).
THEOREM FollowsLifecycle == ASSUME OneDaemon PROVE Spec => RunsFollowLifecycle
<1>1. Init => Lifecycle!Init
  BY DEF Init, Lifecycle!Init, ActiveStatuses
<1>2. TypeOK /\ LaunchInv /\ HandInv /\ SoleInv /\ CapInv /\ [Next]_vars
        => [Lifecycle!Next]_Lifecycle!vars
  BY LifecycleStep
<1> QED
  BY TypeCorrect, LaunchSafe, HandHolds, SoleHolds, CapInvHolds, <1>1, <1>2, PTL
  DEF Spec, RunsFollowLifecycle, Lifecycle!Spec

---------------------------------------------------------------------------
(* One dispatcher process: the Leads of an issue.                           *)

\* While a daemon is past the check of an issue that it does not take for requested
\* by a comment, the issue stays `seen'.
PassedInv ==
    \A d \in Daemons :
        pc[d] \in Ahead \union {"pid", "mark"} /\ reason[d] # "adw" => issueStatus[here[d]] = "seen"

\* So does, then, an issue that nobody has asked for.
UnaskedInv ==
    \A d \in Daemons :
        pc[d] \in Ahead \union {"pid", "mark"} /\ ~Heard(here[d]) => issueStatus[here[d]] = "seen"

LEMMA PassedUnasked == HeardInv /\ PassedInv => UnaskedInv
BY DEF HeardInv, PassedInv, UnaskedInv

LEMMA PassedKept ==
  ASSUME TypeOK, HandInv, PassedInv,
         \A d \in Daemons : pc'[d] \in Ahead \union {"pid", "mark"} =>
             /\ pc[d] \in Ahead \union {"pid", "mark"}
             /\ here'[d] = here[d] /\ reason'[d] = reason[d],
         \A d \in Daemons : pc'[d] \in Ahead \union {"pid", "mark"} =>
             (issueStatus[here[d]] = "seen" => issueStatus'[here[d]] = "seen")
  PROVE  PassedInv'
<1> SUFFICES ASSUME NEW d \in Daemons, pc'[d] \in Ahead \union {"pid", "mark"}, reason'[d] # "adw"
             PROVE  issueStatus'[here'[d]] = "seen"
  BY DEF PassedInv
<1>1. /\ pc[d] \in Ahead \union {"pid", "mark"}
      /\ here'[d] = here[d] /\ reason'[d] = reason[d] /\ here[d] \in Issues
  BY DEF HandInv, Judging, Launching, Ahead
<1> QED BY <1>1 DEF PassedInv

LEMMA PassedCycle ==
  ASSUME OneDaemon, TypeOK, HandInv, PassedInv, NEW d \in Daemons, Cycle(d)
  PROVE  PassedInv'
<1> USE DEF OneDaemon, TypeOK, JobTypeOK, StoreTypeOK, HandInv, Judging, Launching, jobVars,
            cycleVars, peopleVars, Ahead
<1>1. CASE PollStart(d) BY <1>1, PassedKept DEF PollStart, Go
<1>2. CASE ListIssues(d) BY <1>2, PassedKept DEF ListIssues
<1>3. CASE JudgeIssue(d) BY <1>3, PassedKept DEF JudgeIssue, Go
<1>4. CASE SeenIssue(d)
  <2>1. /\ pc[d] = "seen" /\ here[d] \in Issues /\ issueStatus[here[d]] # "absent"
        /\ UNCHANGED issueStatus
    BY <1>4 DEF SeenIssue
  <2>2. CASE Drop(d, "scan") BY <2>1, <2>2, PassedKept DEF Drop, Go
  <2>3. CASE /\ ~(issueStatus[here[d]] \in TerminalIssueStatuses /\ reason[d] # "adw")
             /\ Go(d, "global_cap") /\ UNCHANGED jobVars
    <3>1. reason[d] = "adw" \/ issueStatus[here[d]] = "seen"
      BY <2>1, <2>3 DEF TerminalIssueStatuses
    <3>2. reason'[d] = "adw" \/ issueStatus'[here'[d]] = "seen" BY <2>1, <2>3, <3>1
    <3>3. \A e \in Daemons : e = d OBVIOUS
    <3> QED BY <3>2, <3>3 DEF PassedInv
  <2> QED BY <1>4, <2>2, <2>3 DEF SeenIssue
<1>5. CASE SeenNoIssue(d) BY <1>5, PassedKept DEF SeenNoIssue, Go
<1>6. CASE InsertIssue(d)
  <2>1. pc[d] = "insert" /\ here[d] \in Issues
    BY <1>6 DEF InsertIssue
  <2>2. CASE Drop(d, "scan") BY <2>1, <2>2, PassedKept DEF Drop, Go
  <2>3. CASE /\ issueStatus' = [issueStatus EXCEPT ![here[d]] = "seen"]
             /\ Go(d, "global_cap") /\ UNCHANGED jobVars
    <3>1. issueStatus'[here'[d]] = "seen" BY <2>1, <2>3
    <3>2. \A e \in Daemons : e = d OBVIOUS
    <3> QED BY <3>1, <3>2 DEF PassedInv
  <2> QED BY <1>6, <2>2, <2>3 DEF InsertIssue, AbandonRepo
<1>7. CASE CheckGlobalCap(d) BY <1>7, PassedKept DEF CheckGlobalCap, Admit, Go, Drop
<1>8. CASE CheckRepoCap(d) BY <1>8, PassedKept DEF CheckRepoCap, Admit, Go, Drop
<1>9. CASE CheckGlobalDay(d) BY <1>9, PassedKept DEF CheckGlobalDay, Admit, Go, Drop
<1>10. CASE CheckRepoDay(d) BY <1>10, PassedKept DEF CheckRepoDay, Admit, Go, Drop
<1>11. CASE SyncClone(d) BY <1>11, PassedKept DEF SyncClone, Collected, AbandonRepo, Go, Drop
<1>12. CASE CreateRun(d) BY <1>12, PassedKept DEF CreateRun, Go
<1>13. CASE StartRun(d) BY <1>13, PassedKept DEF StartRun, Go
<1>14. CASE RecordDispatch(d) BY <1>14, PassedKept DEF RecordDispatch, Go
<1>15. CASE RefuseRuntime(d) BY <1>15, PassedKept DEF RefuseRuntime, AbandonRepo, Go, Drop
<1>16. CASE Spawn(d) BY <1>16, PassedKept DEF Spawn, Collected, Go
<1>17. CASE SpawnFails(d) BY <1>17, PassedKept DEF SpawnFails, Go
<1>18. CASE FailSpawn(d) BY <1>18, PassedKept DEF FailSpawn, Go, Drop
<1>19. CASE WritePid(d) BY <1>19, PassedKept DEF WritePid, Go
<1>20. CASE MarkDispatched(d) BY <1>20, PassedKept DEF MarkDispatched, Go, Drop
<1>21. CASE ListActiveRuns(d) BY <1>21, PassedKept DEF ListActiveRuns, Go
<1>22. CASE ReapExited(d) BY <1>22, PassedKept DEF ReapExited, Go
<1>23. CASE SkipRunning(d) BY <1>23, PassedKept DEF SkipRunning
<1>24. CASE KillHung(d) BY <1>24, PassedKept DEF KillHung, Go
<1>25. CASE CloseRun(d) BY <1>25, PassedKept DEF CloseRun, Go
<1>26. CASE CloseIssue(d) BY <1>26, PassedKept DEF CloseIssue, Go, Drop
<1>27. CASE EndCycle(d) BY <1>27, PassedKept DEF EndCycle, Go
<1> QED
  BY <1>1, <1>2, <1>3, <1>4, <1>5, <1>6, <1>7, <1>8, <1>9, <1>10, <1>11, <1>12, <1>13, <1>14,
      <1>15, <1>16, <1>17, <1>18, <1>19, <1>20, <1>21, <1>22, <1>23, <1>24, <1>25, <1>26, <1>27
  DEF Cycle

LEMMA PassedStep ==
  ASSUME OneDaemon, TypeOK, HandInv, PassedInv, [Next]_vars
  PROVE  PassedInv'
<1> USE DEF TypeOK, JobTypeOK, StoreTypeOK, PeopleTypeOK, HandInv, Judging, Launching, jobVars,
            cycleVars, peopleVars, Ahead
<1>1. ASSUME NEW r \in Runs, LeadSaves(r) PROVE PassedInv'
  BY <1>1, PassedKept DEF LeadSaves
<1>2. ASSUME NEW r \in Runs, LeadComments(r) PROVE PassedInv'
  BY <1>2, PassedKept DEF LeadComments
<1>3. ASSUME NEW r \in Runs, LeadExits(r) PROVE PassedInv'
  BY <1>3, PassedKept DEF LeadExits
<1>4. ASSUME NEW r \in Runs, Ages(r) PROVE PassedInv'
  BY <1>4, PassedKept DEF Ages
<1>5. ASSUME NEW i \in Issues, UserAsks(i) PROVE PassedInv'
  BY <1>5, PassedKept DEF UserAsks
<1>6. ASSUME NEW i \in Issues, UserComments(i) PROVE PassedInv'
  BY <1>6, PassedKept DEF UserComments
<1>7. ASSUME NEW o \in Operators, RetryWrite(o) PROVE PassedInv'
  BY <1>7, PassedKept DEF RetryWrite
<1>8. ASSUME NEW o \in Operators, NEW i \in Issues, RetryCheck(o, i) PROVE PassedInv'
  BY <1>8, PassedKept DEF RetryCheck
<1>9. ASSUME NewDay PROVE PassedInv'
  BY <1>9, PassedKept DEF NewDay
<1>10. ASSUME NEW d \in Daemons, Crash(d) PROVE PassedInv'
  BY <1>10, PassedKept DEF Crash, Go, Drop
<1>11. ASSUME NEW d \in Daemons, StoreFails(d) PROVE PassedInv'
  BY <1>11, PassedKept DEF StoreFails, AbandonRepo, Go, Drop
<1>12. ASSUME UNCHANGED vars PROVE PassedInv'
  BY <1>12, PassedKept DEF vars
<1> QED
  BY <1>1, <1>2, <1>3, <1>4, <1>5, <1>6, <1>7, <1>8, <1>9, <1>10, <1>11, <1>12, PassedCycle
  DEF Next

LEMMA PassedHolds == ASSUME OneDaemon PROVE Spec => []PassedInv
<1>1. Init => PassedInv BY DEF Init, PassedInv, Ahead
<1>2. TypeOK /\ HandInv /\ PassedInv /\ [Next]_vars => PassedInv' BY PassedStep
<1> QED BY TypeCorrect, HandHolds, <1>1, <1>2, PTL DEF Spec

\* The runs of an issue that have a Lead or may still settle the issue.
UnderWay(r) ==
    \/ proc[r] = "live"
    \/ r \in Active /\ hasPid[r]
    \/ \E d \in Daemons : mine[d] = r /\ pc[d] \in {"pid", "mark"} \union Closing
Tied(i) == {r \in Runs : runIssue[r] = i /\ UnderWay(r)}
Engaged(i) == issueStatus[i] = "dispatched" \/ Marking(i) # {}

\* One of them is what the issue is `dispatched' for, or is about to be; each of
\* the others has escaped the status, through a fault, an "adw" comment or a retry.
TiedOK(i) == Cardinality(Tied(i)) <= faults + overridden[i] + (IF Engaged(i) THEN 1 ELSE 0)
TiedInv == \A i \in Issues : TiedOK(i)

\* An issue that nobody has asked for and an operator is retrying is still closed,
\* and as a failure unless a run that escaped has ended since.
AskInv ==
    \A o \in Operators, i \in Issues : asks[o] = i /\ ~Heard(i) =>
        \/ issueStatus[i] = "failed"
        \/ issueStatus[i] = "completed" /\ faults > 0

\* What escapes the status of such an issue does so by a fault.
OverInv == \A i \in Issues : ~Heard(i) => overridden[i] = 0

OneOperator == \A o, p \in Operators : o = p

TiedCounts ==
    \A i : IsFiniteSet(Tied(i)) /\ Cardinality(Tied(i)) \in Nat

LEMMA TiedFinite == TiedCounts
<1>1. \A i : Tied(i) \subseteq Runs BY DEF Tied
<1> QED BY <1>1, FS_Subset, FS_CardinalityType DEF TiedCounts

LEMMA TiedFiniteNext == TiedCounts'
<1>1. TiedCounts BY TiedFinite
<1> QED BY <1>1, PTL

LEMMA TiedKept ==
  ASSUME TypeOK, NEW i \in Issues, TiedOK(i), Tied(i)' \subseteq Tied(i),
         Engaged(i) => Engaged(i)', faults' = faults, overridden'[i] = overridden[i]
  PROVE  TiedOK(i)'
<1>1. Cardinality(Tied(i)') <= Cardinality(Tied(i)) BY TiedFinite, FS_Subset DEF TiedCounts
<1>2. faults \in Nat /\ overridden[i] \in Nat BY DEF TypeOK, PeopleTypeOK
<1> QED BY <1>1, <1>2, TiedFinite, TiedFiniteNext DEF TiedOK, TiedCounts

\* A run may escape the status at a fault, or where that is counted.
LEMMA TiedExcused ==
  ASSUME TypeOK, NEW i \in Issues, TiedOK(i), Tied(i)' \subseteq Tied(i),
         \/ faults' = faults + 1 /\ overridden'[i] = overridden[i]
         \/ faults' = faults /\ overridden'[i] = overridden[i] + 1
  PROVE  TiedOK(i)'
<1>1. Cardinality(Tied(i)') <= Cardinality(Tied(i)) BY TiedFinite, FS_Subset DEF TiedCounts
<1>2. faults \in Nat /\ overridden[i] \in Nat BY DEF TypeOK, PeopleTypeOK
<1> QED BY <1>1, <1>2, TiedFinite, TiedFiniteNext DEF TiedOK, TiedCounts

LEMMA TiedLaunch ==
  ASSUME TypeOK, NEW i \in Issues, TiedOK(i), NEW r, Tied(i)' \subseteq Tied(i) \union {r},
         \/ ~Engaged(i) /\ overridden'[i] = overridden[i]
         \/ overridden'[i] = overridden[i] + 1,
         Engaged(i)', faults' = faults
  PROVE  TiedOK(i)'
<1>1. /\ IsFiniteSet(Tied(i) \union {r})
      /\ Cardinality(Tied(i) \union {r})
           = IF r \in Tied(i) THEN Cardinality(Tied(i)) ELSE Cardinality(Tied(i)) + 1
  BY TiedFinite, FS_AddElement DEF TiedCounts
<1>2. Cardinality(Tied(i)') <= Cardinality(Tied(i) \union {r}) BY <1>1, FS_Subset
<1>3. faults \in Nat /\ overridden[i] \in Nat BY DEF TypeOK, PeopleTypeOK
<1> QED BY <1>1, <1>2, <1>3, TiedFinite, TiedFiniteNext DEF TiedOK, TiedCounts

LEMMA TiedClose ==
  ASSUME TypeOK, NEW i \in Issues, TiedOK(i), NEW r \in Tied(i), Tied(i)' \subseteq Tied(i) \ {r},
         faults' = faults, overridden'[i] = overridden[i]
  PROVE  TiedOK(i)'
<1>1. /\ IsFiniteSet(Tied(i) \ {r})
      /\ Cardinality(Tied(i) \ {r}) = Cardinality(Tied(i)) - 1
  BY TiedFinite, FS_RemoveElement DEF TiedCounts
<1>2. Cardinality(Tied(i)') <= Cardinality(Tied(i) \ {r}) BY <1>1, FS_Subset
<1>3. faults \in Nat /\ overridden[i] \in Nat BY DEF TypeOK, PeopleTypeOK
<1> QED BY <1>1, <1>2, <1>3, TiedFinite, TiedFiniteNext DEF TiedOK, TiedCounts

\* A run of an issue that is not engaged is under way only after an escape.
LEMMA TiedByFault ==
  ASSUME TypeOK, NEW i \in Issues, TiedOK(i), ~Engaged(i), NEW r \in Tied(i)
  PROVE  faults > 0 \/ overridden[i] > 0
<1>1. Cardinality(Tied(i)) # 0 BY TiedFinite, FS_EmptySet DEF TiedCounts
<1>2. faults \in Nat /\ overridden[i] \in Nat BY DEF TypeOK, PeopleTypeOK
<1> QED BY <1>1, <1>2, TiedFinite DEF TiedOK, TiedCounts

LEMMA TiedQuiet ==
  ASSUME TypeOK, HandInv, TiedInv,
         faults' = faults, overridden' = overridden,
         \A r \in Runs : UnderWay(r)' => UnderWay(r) /\ runIssue'[r] = runIssue[r],
         \A i \in Issues : issueStatus[i] = "dispatched" => issueStatus'[i] = "dispatched",
         \A d \in Daemons : pc[d] \in {"pid", "mark"} =>
             \/ pc'[d] \in {"pid", "mark"} /\ here'[d] = here[d]
             \/ issueStatus'[here[d]] = "dispatched"
  PROVE  TiedInv'
<1> SUFFICES ASSUME NEW i \in Issues PROVE TiedOK(i)'
  BY DEF TiedInv
<1>1. TiedOK(i) BY DEF TiedInv
<1>2. Tied(i)' \subseteq Tied(i) BY DEF Tied
<1>3. Engaged(i) => Engaged(i)' BY DEF Engaged, Marking
<1> QED BY <1>1, <1>2, <1>3, TiedKept

LEMMA TiedCycle ==
  ASSUME OneDaemon, TypeOK, LaunchInv, HandInv, SoleInv, PassedInv, TiedInv,
         NEW d \in Daemons, Cycle(d)
  PROVE  TiedInv'
<1> USE DEF OneDaemon, TypeOK, JobTypeOK, StoreTypeOK, HandInv, Launching, Closing, jobVars,
            cycleVars, leadVars, peopleVars, UnderWay, Active, ActiveStatuses
<1>1. CASE PollStart(d) BY <1>1, TiedQuiet DEF PollStart, Go
<1>2. CASE ListIssues(d) BY <1>2, TiedQuiet DEF ListIssues
<1>3. CASE JudgeIssue(d) BY <1>3, TiedQuiet DEF JudgeIssue, Go
<1>4. CASE SeenIssue(d) BY <1>4, TiedQuiet DEF SeenIssue, Go, Drop
<1>5. CASE SeenNoIssue(d) BY <1>5, TiedQuiet DEF SeenNoIssue, Go
<1>6. CASE InsertIssue(d) BY <1>6, TiedQuiet DEF InsertIssue, AbandonRepo, Go, Drop
<1>7. CASE CheckGlobalCap(d) BY <1>7, TiedQuiet DEF CheckGlobalCap, Admit, Go, Drop
<1>8. CASE CheckRepoCap(d) BY <1>8, TiedQuiet DEF CheckRepoCap, Admit, Go, Drop
<1>9. CASE CheckGlobalDay(d) BY <1>9, TiedQuiet DEF CheckGlobalDay, Admit, Go, Drop
<1>10. CASE CheckRepoDay(d) BY <1>10, TiedQuiet DEF CheckRepoDay, Admit, Go, Drop
<1>11. CASE SyncClone(d) BY <1>11, TiedQuiet DEF SyncClone, Collected, AbandonRepo, Go, Drop
<1>12. CASE CreateRun(d)
  <2>1. PICK r \in Runs :
          /\ runStatus[r] = "none" /\ runIssue' = [runIssue EXCEPT ![r] = here[d]]
          /\ runStatus' = [runStatus EXCEPT ![r] = "pending"]
          /\ mine' = [mine EXCEPT ![d] = r]
    BY <1>12 DEF CreateRun
  <2>2. proc[r] = "none" /\ ~hasPid[r] BY <2>1 DEF LaunchInv
  <2>3. /\ pc[d] = "create" /\ pc' = [pc EXCEPT ![d] = "start"]
        /\ UNCHANGED <<hasPid, proc, here, issueStatus, faults, overridden>>
    BY <1>12 DEF CreateRun, Go
  <2>4. \A q \in Runs : UnderWay(q)' => UnderWay(q) /\ runIssue'[q] = runIssue[q]
    BY <2>1, <2>2, <2>3
  <2> QED BY <2>3, <2>4, TiedQuiet
<1>13. CASE StartRun(d)
  <2>1. mine[d] \in Active /\ ~hasPid[mine[d]] BY <1>13 DEF StartRun, LaunchInv
  <2>2. /\ pc[d] = "start" /\ pc' = [pc EXCEPT ![d] = "count"]
        /\ runStatus' = [runStatus EXCEPT ![mine[d]] = "running"]
        /\ UNCHANGED <<mine, runIssue, hasPid, proc, here, issueStatus, faults, overridden>>
    BY <1>13 DEF StartRun, Go
  <2>3. \A q \in Runs : UnderWay(q)' => UnderWay(q) /\ runIssue'[q] = runIssue[q]
    BY <2>1, <2>2
  <2> QED BY <2>2, <2>3, TiedQuiet
<1>14. CASE RecordDispatch(d) BY <1>14, TiedQuiet DEF RecordDispatch, Go
<1>15. CASE RefuseRuntime(d) BY <1>15, TiedQuiet DEF RefuseRuntime, AbandonRepo, Go, Drop
<1>16. CASE Spawn(d)
  <2>1. /\ mine[d] \in Runs /\ runIssue[mine[d]] = here[d] /\ here[d] \in Issues
        /\ pc[d] = "spawn" /\ pc' = [pc EXCEPT ![d] = "pid"]
        /\ UNCHANGED <<here, mine, runIssue, runStatus, hasPid, issueStatus, faults>>
    BY <1>16 DEF Spawn, Go
  <2>2. overridden' = [overridden EXCEPT ![here[d]] =
                         IF issueStatus[here[d]] = "dispatched" /\ reason[d] = "adw"
                         THEN @ + 1 ELSE @]
    BY <1>16 DEF Spawn
  <2>3. \A r \in Runs \ {mine[d]} : proc'[r] = "live" => proc[r] = "live"
    BY <1>16 DEF Spawn, Collected
  <2>4. \A r \in Runs \ {mine[d]} : UnderWay(r)' => UnderWay(r)
    BY <2>1, <2>3
  <2> SUFFICES ASSUME NEW i \in Issues PROVE TiedOK(i)'
    BY DEF TiedInv
  <2>5. TiedOK(i) /\ overridden \in [Issues -> Nat] BY DEF TiedInv, PeopleTypeOK
  <2>6. CASE i = here[d]
    <3>1. Engaged(i)' BY <2>1, <2>6 DEF Engaged, Marking
    <3>2. Tied(i)' \subseteq Tied(i) \union {mine[d]} BY <2>1, <2>4 DEF Tied
    <3>3. CASE issueStatus[i] = "dispatched"
      <4>1. reason[d] = "adw" BY <2>1, <2>6, <3>3 DEF PassedInv, Ahead
      <4>2. overridden'[i] = overridden[i] + 1 BY <2>2, <2>5, <2>6, <3>3, <4>1
      <4> QED BY <2>1, <2>5, <3>1, <3>2, <4>2, TiedLaunch
    <3>4. CASE issueStatus[i] # "dispatched"
      <4>1. ~Engaged(i) BY <2>1, <3>4 DEF Engaged, Marking
      <4>2. overridden'[i] = overridden[i] BY <2>2, <2>5, <2>6, <3>4
      <4> QED BY <2>1, <2>5, <3>1, <3>2, <4>1, <4>2, TiedLaunch
    <3> QED BY <3>3, <3>4
  <2>7. CASE i # here[d]
    <3>1. Tied(i)' \subseteq Tied(i) BY <2>1, <2>4, <2>7 DEF Tied
    <3>2. Engaged(i) => Engaged(i)' BY <2>1 DEF Engaged, Marking
    <3>3. overridden'[i] = overridden[i] BY <2>2, <2>5, <2>7
    <3> QED BY <2>1, <2>5, <3>1, <3>2, <3>3, TiedKept
  <2> QED BY <2>6, <2>7
<1>17. CASE SpawnFails(d) BY <1>17, TiedQuiet DEF SpawnFails, Go
<1>18. CASE FailSpawn(d) BY <1>18, TiedQuiet DEF FailSpawn, Go, Drop
<1>19. CASE WritePid(d)
  <2>1. /\ pc[d] = "pid" /\ pc' = [pc EXCEPT ![d] = "mark"]
        /\ hasPid' = [hasPid EXCEPT ![mine[d]] = TRUE]
        /\ UNCHANGED <<mine, here, runIssue, runStatus, proc, issueStatus, faults, overridden>>
    BY <1>19 DEF WritePid, Go
  <2>2. \A q \in Runs : UnderWay(q)' => UnderWay(q) /\ runIssue'[q] = runIssue[q]
    BY <2>1
  <2> QED BY <2>1, <2>2, TiedQuiet
<1>20. CASE MarkDispatched(d)
  <2>1. /\ pc[d] = "mark" /\ here[d] \in Issues
        /\ issueStatus' = [issueStatus EXCEPT ![here[d]] = "dispatched"]
        /\ pc' = [pc EXCEPT ![d] = "scan"] /\ mine' = [mine EXCEPT ![d] = NoRun]
        /\ UNCHANGED <<runIssue, runStatus, hasPid, proc, faults, overridden>>
    BY <1>20 DEF MarkDispatched, Drop, Go
  <2>2. \A q \in Runs : UnderWay(q)' => UnderWay(q) /\ runIssue'[q] = runIssue[q]
    BY <2>1
  <2> QED BY <2>1, <2>2, TiedQuiet
<1>21. CASE ListActiveRuns(d) BY <1>21, TiedQuiet DEF ListActiveRuns, Go
<1>22. CASE ReapExited(d)
  <2>1. PICK r \in left[d] :
          proc' = [proc EXCEPT ![r] = "gone"] /\ mine' = [mine EXCEPT ![d] = r]
    BY <1>22 DEF ReapExited
  <2>2. r \in Active /\ hasPid[r] BY DEF SoleInv, LaunchInv
  <2>3. /\ pc[d] = "reap" /\ pc' = [pc EXCEPT ![d] = "close_run"]
        /\ UNCHANGED <<here, runIssue, runStatus, hasPid, issueStatus, faults, overridden>>
    BY <1>22 DEF ReapExited, Go
  <2>4. \A q \in Runs : UnderWay(q)' => UnderWay(q) /\ runIssue'[q] = runIssue[q]
    BY <2>1, <2>2, <2>3
  <2> QED BY <2>3, <2>4, TiedQuiet
<1>23. CASE SkipRunning(d) BY <1>23, TiedQuiet DEF SkipRunning
<1>24. CASE KillHung(d)
  <2>1. PICK r \in left[d] :
          /\ proc' = [proc EXCEPT ![r] = IF parent[r] = NoDaemon THEN "gone" ELSE "zombie"]
          /\ mine' = [mine EXCEPT ![d] = r]
    BY <1>24 DEF KillHung
  <2>2. r \in Active /\ hasPid[r] BY DEF SoleInv, LaunchInv
  <2>3. /\ pc[d] = "reap" /\ pc' = [pc EXCEPT ![d] = "close_run"]
        /\ UNCHANGED <<here, runIssue, runStatus, hasPid, issueStatus, faults, overridden>>
    BY <1>24 DEF KillHung, Go
  <2>4. \A q \in Runs : UnderWay(q)' => UnderWay(q) /\ runIssue'[q] = runIssue[q]
    BY <2>1, <2>2, <2>3
  <2> QED BY <2>3, <2>4, TiedQuiet
<1>25. CASE CloseRun(d)
  <2>1. verdict[d] \in FinalStatuses BY <1>25 DEF CloseRun, LaunchInv
  <2>2. /\ pc[d] = "close_run" /\ pc' = [pc EXCEPT ![d] = "close_issue"]
        /\ runStatus' = [runStatus EXCEPT ![mine[d]] = verdict[d]]
        /\ UNCHANGED <<mine, here, runIssue, hasPid, proc, issueStatus, faults, overridden>>
    BY <1>25 DEF CloseRun, Go
  <2>3. \A q \in Runs : UnderWay(q)' => UnderWay(q) /\ runIssue'[q] = runIssue[q]
    BY <2>1, <2>2 DEF FinalStatuses
  <2> QED BY <2>2, <2>3, TiedQuiet
<1>26. CASE CloseIssue(d)
  <2>1. PICK r \in Runs : r = mine[d] BY <1>26 DEF CloseIssue, LaunchInv
  <2>2. /\ proc[r] # "live" /\ runStatus[r] \in FinalStatuses /\ runIssue[r] \in Issues
        /\ UnderWay(r)
    BY <1>26, <2>1 DEF CloseIssue, LaunchInv, SoleInv, FinalStatuses
  <2>3. /\ pc[d] = "close_issue" /\ pc' = [pc EXCEPT ![d] = "reap"]
        /\ mine' = [mine EXCEPT ![d] = NoRun]
        /\ \A i \in Issues : i # runIssue[r] => issueStatus'[i] = issueStatus[i]
        /\ UNCHANGED <<runIssue, runStatus, hasPid, proc, faults, overridden>>
    BY <1>26, <2>1 DEF CloseIssue, Drop, Go
  <2>4. ~UnderWay(r)' /\ \A q \in Runs : UnderWay(q)' => UnderWay(q)
    BY <2>1, <2>2, <2>3 DEF FinalStatuses
  <2> SUFFICES ASSUME NEW i \in Issues PROVE TiedOK(i)'
    BY DEF TiedInv
  <2>5. TiedOK(i) BY DEF TiedInv
  <2>6. CASE i = runIssue[r]
    <3>1. r \in Tied(i) /\ Tied(i)' \subseteq Tied(i) \ {r}
      BY <2>2, <2>3, <2>4, <2>6 DEF Tied
    <3> QED BY <2>3, <2>5, <3>1, TiedClose
  <2>7. CASE i # runIssue[r]
    <3>1. Tied(i)' \subseteq Tied(i) BY <2>3, <2>4 DEF Tied
    <3>2. Engaged(i) => Engaged(i)' BY <2>3, <2>7 DEF Engaged, Marking
    <3> QED BY <2>3, <2>5, <3>1, <3>2, TiedKept
  <2> QED BY <2>6, <2>7
<1>27. CASE EndCycle(d) BY <1>27, TiedQuiet DEF EndCycle, Go
<1> QED
  BY <1>1, <1>2, <1>3, <1>4, <1>5, <1>6, <1>7, <1>8, <1>9, <1>10, <1>11, <1>12, <1>13, <1>14,
      <1>15, <1>16, <1>17, <1>18, <1>19, <1>20, <1>21, <1>22, <1>23, <1>24, <1>25, <1>26, <1>27
  DEF Cycle

LEMMA TiedStep ==
  ASSUME OneDaemon, TypeOK, LaunchInv, HandInv, SoleInv, PassedInv, TiedInv, [Next]_vars
  PROVE  TiedInv'
<1> USE DEF TypeOK, JobTypeOK, StoreTypeOK, PeopleTypeOK, jobVars, cycleVars, leadVars,
            peopleVars, UnderWay, Active, Closing
<1>1. ASSUME NEW r \in Runs, LeadSaves(r) PROVE TiedInv'
  BY <1>1, TiedQuiet DEF LeadSaves
<1>2. ASSUME NEW r \in Runs, LeadComments(r) PROVE TiedInv'
  BY <1>2, TiedQuiet DEF LeadComments
<1>3. ASSUME NEW r \in Runs, LeadExits(r) PROVE TiedInv'
  <2>1. \A q \in Runs : proc'[q] = "live" => proc[q] = "live" BY <1>3 DEF LeadExits
  <2>2. UNCHANGED <<pc, here, mine, runIssue, runStatus, hasPid, issueStatus, faults, overridden>>
    BY <1>3 DEF LeadExits
  <2>3. \A q \in Runs : UnderWay(q)' => UnderWay(q) BY <2>1, <2>2
  <2> QED BY <2>2, <2>3, TiedQuiet
<1>4. ASSUME NEW r \in Runs, Ages(r) PROVE TiedInv'
  BY <1>4, TiedQuiet DEF Ages
<1>5. ASSUME NEW i \in Issues, UserAsks(i) PROVE TiedInv'
  BY <1>5, TiedQuiet DEF UserAsks
<1>6. ASSUME NEW i \in Issues, UserComments(i) PROVE TiedInv'
  BY <1>6, TiedQuiet DEF UserComments
<1>7. ASSUME NEW o \in Operators, RetryWrite(o) PROVE TiedInv'
  <2>1. asks[o] \in Issues BY <1>7 DEF RetryWrite
  <2>2. /\ issueStatus' = [issueStatus EXCEPT ![asks[o]] = "seen"]
        /\ overridden' = [overridden EXCEPT ![asks[o]] =
                            IF issueStatus[asks[o]] = "dispatched" THEN @ + 1 ELSE @]
        /\ UNCHANGED <<pc, here, mine, proc, runStatus, hasPid, runIssue, faults>>
    BY <1>7 DEF RetryWrite
  <2> SUFFICES ASSUME NEW i \in Issues PROVE TiedOK(i)'
    BY DEF TiedInv
  <2>3. TiedOK(i) /\ overridden \in [Issues -> Nat] BY DEF TiedInv
  <2>4. Tied(i)' \subseteq Tied(i) BY <2>2 DEF Tied
  <2>5. CASE i = asks[o] /\ issueStatus[i] = "dispatched"
    <3>1. overridden'[i] = overridden[i] + 1 BY <2>2, <2>3, <2>5
    <3> QED BY <2>2, <2>3, <2>4, <3>1, TiedExcused
  <2>6. CASE ~(i = asks[o] /\ issueStatus[i] = "dispatched")
    <3>1. overridden'[i] = overridden[i] BY <2>2, <2>3, <2>6
    <3>2. Engaged(i) => Engaged(i)' BY <2>2, <2>6 DEF Engaged, Marking
    <3> QED BY <2>2, <2>3, <2>4, <3>1, <3>2, TiedKept
  <2> QED BY <2>5, <2>6
<1>8. ASSUME NEW o \in Operators, NEW i \in Issues, RetryCheck(o, i) PROVE TiedInv'
  BY <1>8, TiedQuiet DEF RetryCheck
<1>9. ASSUME NewDay PROVE TiedInv'
  BY <1>9, TiedQuiet DEF NewDay
<1>10. ASSUME NEW d \in Daemons, Crash(d) PROVE TiedInv'
  <2>1. \A r \in Runs : proc'[r] = "live" => proc[r] = "live" BY <1>10 DEF Crash
  <2>2. /\ UNCHANGED <<runIssue, runStatus, hasPid, overridden>> /\ faults' = faults + 1
        /\ pc' = [pc EXCEPT ![d] = "idle"] /\ mine' = [mine EXCEPT ![d] = NoRun]
    BY <1>10 DEF Crash, Drop, Go
  <2>3. \A r \in Runs : UnderWay(r)' => UnderWay(r) BY <2>1, <2>2
  <2>4. \A i \in Issues : Tied(i)' \subseteq Tied(i) BY <2>2, <2>3 DEF Tied
  <2> QED BY <2>2, <2>4, TiedExcused DEF TiedInv
<1>11. ASSUME NEW d \in Daemons, StoreFails(d) PROVE TiedInv'
  <2>1. /\ UNCHANGED <<runIssue, runStatus, hasPid, proc, overridden>> /\ faults' = faults + 1
        /\ mine' = [mine EXCEPT ![d] = NoRun]
        /\ \A e \in Daemons \ {d} : pc'[e] = pc[e]
    BY <1>11 DEF StoreFails, AbandonRepo, Drop, Go
  <2>2. \A r \in Runs : UnderWay(r)' => UnderWay(r) BY <2>1
  <2>3. \A i \in Issues : Tied(i)' \subseteq Tied(i) BY <2>1, <2>2 DEF Tied
  <2> QED BY <2>1, <2>3, TiedExcused DEF TiedInv
<1>12. ASSUME UNCHANGED vars PROVE TiedInv'
  BY <1>12, TiedQuiet DEF vars
<1> QED
  BY <1>1, <1>2, <1>3, <1>4, <1>5, <1>6, <1>7, <1>8, <1>9, <1>10, <1>11, <1>12, TiedCycle
  DEF Next

LEMMA AskKept ==
  ASSUME TypeOK, AskInv,
         \A i \in Issues : asked[i] > 0 => asked'[i] > 0,
         faults' \in {faults, faults + 1},
         \A o \in Operators : asks'[o] # NoIssue => asks'[o] = asks[o],
         \A i \in Issues : issueStatus[i] \in {"failed", "completed"} =>
                             issueStatus'[i] = issueStatus[i]
  PROVE  AskInv'
<1> SUFFICES ASSUME NEW o \in Operators, NEW i \in Issues, asks'[o] = i, ~Heard(i)'
             PROVE  \/ issueStatus'[i] = "failed"
                    \/ issueStatus'[i] = "completed" /\ faults' > 0
  BY DEF AskInv
<1>1. asks[o] = i BY DEF TypeOK, PeopleTypeOK
<1>2. ~Heard(i) BY DEF Heard
<1>3. \/ issueStatus[i] = "failed"
      \/ issueStatus[i] = "completed" /\ faults > 0
  BY <1>1, <1>2 DEF AskInv
<1>4. faults \in Nat BY DEF TypeOK, PeopleTypeOK
<1>5. CASE issueStatus[i] = "failed" BY <1>5
<1>6. CASE issueStatus[i] = "completed" /\ faults > 0
  <2>1. faults' > 0 BY <1>4, <1>6
  <2> QED BY <1>6, <2>1
<1> QED BY <1>3, <1>5, <1>6

LEMMA AskCycle ==
  ASSUME OneDaemon, TypeOK, LaunchInv, HandInv, UnaskedInv, TiedInv, AskInv, OverInv,
         NEW d \in Daemons, Cycle(d)
  PROVE  AskInv'
<1> USE DEF TypeOK, StoreTypeOK, PeopleTypeOK, HandInv, Judging, Launching, peopleVars
<1>1. CASE PollStart(d) BY <1>1, AskKept DEF PollStart, Go
<1>2. CASE ListIssues(d) BY <1>2, AskKept DEF ListIssues
<1>3. CASE JudgeIssue(d) BY <1>3, AskKept DEF JudgeIssue, Go
<1>4. CASE SeenIssue(d) BY <1>4, AskKept DEF SeenIssue, Go, Drop
<1>5. CASE SeenNoIssue(d) BY <1>5, AskKept DEF SeenNoIssue, Go
<1>6. CASE InsertIssue(d)
  <2>1. \/ UNCHANGED issueStatus
        \/ /\ issueStatus[here[d]] = "absent"
           /\ issueStatus' = [issueStatus EXCEPT ![here[d]] = "seen"]
    BY <1>6 DEF InsertIssue
  <2>2. UNCHANGED <<asked, asks, faults>> BY <1>6 DEF InsertIssue
  <2> QED BY <2>1, <2>2, AskKept
<1>7. CASE CheckGlobalCap(d) BY <1>7, AskKept DEF CheckGlobalCap, Admit, Go, Drop
<1>8. CASE CheckRepoCap(d) BY <1>8, AskKept DEF CheckRepoCap, Admit, Go, Drop
<1>9. CASE CheckGlobalDay(d) BY <1>9, AskKept DEF CheckGlobalDay, Admit, Go, Drop
<1>10. CASE CheckRepoDay(d) BY <1>10, AskKept DEF CheckRepoDay, Admit, Go, Drop
<1>11. CASE SyncClone(d) BY <1>11, AskKept DEF SyncClone, Collected, AbandonRepo, Go, Drop
<1>12. CASE CreateRun(d) BY <1>12, AskKept DEF CreateRun, Go
<1>13. CASE StartRun(d) BY <1>13, AskKept DEF StartRun, Go
<1>14. CASE RecordDispatch(d) BY <1>14, AskKept DEF RecordDispatch, Go
<1>15. CASE RefuseRuntime(d) BY <1>15, AskKept DEF RefuseRuntime, AbandonRepo, Go, Drop
<1>16. CASE Spawn(d) BY <1>16, AskKept DEF Spawn, Collected, Go
<1>17. CASE SpawnFails(d) BY <1>17, AskKept DEF SpawnFails, Go
<1>18. CASE FailSpawn(d) BY <1>18, AskKept DEF FailSpawn, Go, Drop
<1>19. CASE WritePid(d) BY <1>19, AskKept DEF WritePid, Go
<1>20. CASE MarkDispatched(d)
  <2>1. /\ pc[d] = "mark" /\ here[d] \in Issues
        /\ issueStatus' = [issueStatus EXCEPT ![here[d]] = "dispatched"]
        /\ UNCHANGED <<asked, asks, faults>>
    BY <1>20 DEF MarkDispatched
  <2>2. Heard(here[d]) \/ issueStatus[here[d]] = "seen" BY <2>1 DEF UnaskedInv
  <2>3. ASSUME NEW o \in Operators, NEW i \in Issues, asks'[o] = i, ~Heard(i)'
        PROVE  \/ issueStatus'[i] = "failed"
               \/ issueStatus'[i] = "completed" /\ faults' > 0
    <3>1. asks[o] = i /\ ~Heard(i) BY <2>1, <2>3 DEF Heard
    <3>2. \/ issueStatus[i] = "failed"
          \/ issueStatus[i] = "completed" /\ faults > 0
      BY <3>1 DEF AskInv
    <3>3. i # here[d] BY <2>2, <3>1, <3>2
    <3> QED BY <2>1, <3>2, <3>3
  <2> QED BY <2>3 DEF AskInv
<1>21. CASE ListActiveRuns(d) BY <1>21, AskKept DEF ListActiveRuns, Go
<1>22. CASE ReapExited(d) BY <1>22, AskKept DEF ReapExited, Go
<1>23. CASE SkipRunning(d) BY <1>23, AskKept DEF SkipRunning
<1>24. CASE KillHung(d) BY <1>24, AskKept DEF KillHung, Go
<1>25. CASE CloseRun(d) BY <1>25, AskKept DEF CloseRun, Go
<1>26. CASE CloseIssue(d)
  <2>1. PICK r \in Runs : r = mine[d] BY <1>26 DEF CloseIssue, LaunchInv, Closing
  <2>2. /\ pc[d] = "close_issue" /\ runIssue[r] \in Issues
        /\ \/ issueStatus' = [issueStatus EXCEPT ![runIssue[r]] = "completed"]
           \/ issueStatus' = [issueStatus EXCEPT ![runIssue[r]] = "failed"]
        /\ UNCHANGED <<asked, asks, faults>>
    <3>1. pc[d] = "close_issue" /\ UNCHANGED <<asked, asks, faults>> BY <1>26 DEF CloseIssue
    <3>2. runStatus[r] # "none" BY <2>1, <3>1 DEF LaunchInv, Closing
    <3> QED BY <1>26, <2>1, <3>1, <3>2 DEF CloseIssue
  <2>3. ASSUME NEW o \in Operators, NEW i \in Issues, asks'[o] = i, ~Heard(i)'
        PROVE  \/ issueStatus'[i] = "failed"
               \/ issueStatus'[i] = "completed" /\ faults' > 0
    <3>1. asks[o] = i /\ ~Heard(i) BY <2>2, <2>3 DEF Heard
    <3>2. \/ issueStatus[i] = "failed"
          \/ issueStatus[i] = "completed" /\ faults > 0
      BY <3>1 DEF AskInv
    <3>3. CASE i # runIssue[r] BY <2>2, <3>2, <3>3
    <3>4. CASE i = runIssue[r]
      <4>1. r \in Tied(i) BY <2>1, <2>2, <3>4 DEF Tied, UnderWay, Closing
      <4>2. Marking(i) = {} BY <3>1, <3>2 DEF Marking, UnaskedInv
      <4>3. ~Engaged(i) BY <3>2, <4>2 DEF Engaged
      <4>4. TiedOK(i) /\ overridden[i] = 0 BY <3>1 DEF TiedInv, OverInv
      <4>5. faults > 0 BY <4>1, <4>3, <4>4, TiedByFault
      <4> QED BY <2>2, <3>4, <4>5
    <3> QED BY <3>3, <3>4
  <2> QED BY <2>3 DEF AskInv
<1>27. CASE EndCycle(d) BY <1>27, AskKept DEF EndCycle, Go
<1> QED
  BY <1>1, <1>2, <1>3, <1>4, <1>5, <1>6, <1>7, <1>8, <1>9, <1>10, <1>11, <1>12, <1>13, <1>14,
      <1>15, <1>16, <1>17, <1>18, <1>19, <1>20, <1>21, <1>22, <1>23, <1>24, <1>25, <1>26, <1>27
  DEF Cycle

LEMMA AskStep ==
  ASSUME OneDaemon, OneOperator, TypeOK, LaunchInv, HandInv, UnaskedInv, TiedInv, AskInv, OverInv,
         [Next]_vars
  PROVE  AskInv'
<1> USE DEF TypeOK, StoreTypeOK, PeopleTypeOK, peopleVars
<1>1. ASSUME NEW r \in Runs, LeadSaves(r) PROVE AskInv'
  BY <1>1, AskKept DEF LeadSaves
<1>2. ASSUME NEW r \in Runs, LeadComments(r) PROVE AskInv'
  BY <1>2, AskKept DEF LeadComments
<1>3. ASSUME NEW r \in Runs, LeadExits(r) PROVE AskInv'
  BY <1>3, AskKept DEF LeadExits
<1>4. ASSUME NEW r \in Runs, Ages(r) PROVE AskInv'
  BY <1>4, AskKept DEF Ages
<1>5. ASSUME NEW i \in Issues, UserAsks(i) PROVE AskInv'
  <2>1. \A j \in Issues : asked[j] > 0 => asked'[j] > 0
    BY <1>5 DEF UserAsks
  <2> QED BY <1>5, <2>1, AskKept DEF UserAsks
<1>6. ASSUME NEW i \in Issues, UserComments(i) PROVE AskInv'
  BY <1>6, AskKept DEF UserComments
<1>7. ASSUME NEW o \in Operators, RetryWrite(o) PROVE AskInv'
  <2>1. \A p \in Operators : asks'[p] = NoIssue BY <1>7 DEF RetryWrite, OneOperator
  <2> QED BY <2>1 DEF AskInv
<1>8. ASSUME NEW o \in Operators, NEW i \in Issues, RetryCheck(o, i) PROVE AskInv'
  <2>1. /\ asks' = [asks EXCEPT ![o] = i] /\ issueStatus[i] = "failed"
        /\ UNCHANGED <<issueStatus, asked, faults>>
    BY <1>8 DEF RetryCheck, RetryableStatuses
  <2> QED BY <2>1 DEF AskInv, Heard
<1>9. ASSUME NewDay PROVE AskInv'
  BY <1>9, AskKept DEF NewDay
<1>10. ASSUME NEW d \in Daemons, Crash(d) PROVE AskInv'
  BY <1>10, AskKept DEF Crash, Go, Drop
<1>11. ASSUME NEW d \in Daemons, StoreFails(d) PROVE AskInv'
  BY <1>11, AskKept DEF StoreFails, AbandonRepo, Go, Drop
<1>12. ASSUME UNCHANGED vars PROVE AskInv'
  BY <1>12, AskKept DEF vars
<1> QED
  BY <1>1, <1>2, <1>3, <1>4, <1>5, <1>6, <1>7, <1>8, <1>9, <1>10, <1>11, <1>12, AskCycle
  DEF Next

LEMMA OverStep ==
  ASSUME TypeOK, HeardInv, AskInv, OverInv, [Next]_vars
  PROVE  OverInv'
<1> SUFFICES ASSUME NEW i \in Issues, ~Heard(i)' PROVE overridden'[i] = 0 BY DEF OverInv
<1> USE DEF peopleVars
<1>1. overridden \in [Issues -> Nat] BY DEF TypeOK, PeopleTypeOK
<1>2. asked[i] > 0 => asked'[i] > 0
  <2>1. ASSUME NEW j \in Issues, UserAsks(j) PROVE asked[i] > 0 => asked'[i] > 0
    BY <2>1 DEF UserAsks, TypeOK, PeopleTypeOK
  <2> QED BY <2>1, OnlyUsersAsk
<1>3. ~Heard(i) /\ overridden[i] = 0 BY <1>2 DEF Heard, OverInv
<1>4. ASSUME NEW d \in Daemons, Spawn(d) PROVE overridden'[i] = 0
  <2>1. reason[d] = "adw" => here[d] # i BY <1>3 DEF HeardInv
  <2> QED BY <1>1, <1>3, <1>4, <2>1 DEF Spawn
<1>5. ASSUME NEW o \in Operators, RetryWrite(o) PROVE overridden'[i] = 0
  <2>1. asks[o] = i => issueStatus[i] # "dispatched" BY <1>3 DEF AskInv
  <2> QED BY <1>1, <1>3, <1>5, <2>1 DEF RetryWrite
<1>6. CASE UNCHANGED overridden BY <1>3, <1>6
<1>7. ASSUME NEW d \in Daemons, Cycle(d), ~Spawn(d) PROVE UNCHANGED overridden
  BY <1>7 DEF Cycle, PollStart, ListIssues, JudgeIssue, SeenIssue, SeenNoIssue, InsertIssue,
     CheckGlobalCap, CheckRepoCap, CheckGlobalDay, CheckRepoDay, Admit, SyncClone, CreateRun,
     StartRun, RecordDispatch, RefuseRuntime, SpawnFails, FailSpawn, WritePid, MarkDispatched,
     ListActiveRuns, ReapExited, SkipRunning, KillHung, CloseRun, CloseIssue, EndCycle
<1> QED
  BY <1>4, <1>5, <1>6, <1>7
  DEF Next, LeadSaves, LeadComments, LeadExits, Ages, UserAsks, UserComments, RetryCheck, NewDay,
      Crash, StoreFails, vars

LEMMA TiedHolds == ASSUME OneDaemon PROVE Spec => []TiedInv
<1>1. Init => TiedInv
  <2> SUFFICES ASSUME Init, NEW i \in Issues PROVE TiedOK(i) BY DEF TiedInv
  <2>1. Tied(i) = {} BY DEF Init, Tied, UnderWay, Active, ActiveStatuses, Closing
  <2>2. Cardinality(Tied(i)) = 0 BY <2>1, FS_EmptySet
  <2>3. faults = 0 /\ overridden[i] = 0 BY DEF Init
  <2> QED BY <2>2, <2>3 DEF TiedOK
<1>2. TypeOK /\ LaunchInv /\ HandInv /\ SoleInv /\ PassedInv /\ TiedInv /\ [Next]_vars => TiedInv'
  BY TiedStep
<1> QED
  BY TypeCorrect, LaunchSafe, HandHolds, SoleHolds, PassedHolds, <1>1, <1>2, PTL DEF Spec

LEMMA AskHolds == ASSUME OneDaemon, OneOperator PROVE Spec => [](UnaskedInv /\ AskInv /\ OverInv)
<1>1. Init => AskInv /\ OverInv BY DEF Init, AskInv, OverInv
<1>2. TypeOK /\ LaunchInv /\ HandInv /\ HeardInv /\ UnaskedInv /\ TiedInv /\ AskInv /\ OverInv
        /\ [Next]_vars => AskInv' /\ OverInv'
  BY AskStep, OverStep
<1> QED
  BY TypeCorrect, LaunchSafe, HandHolds, HeardHolds, PassedHolds, PassedUnasked, TiedHolds,
     <1>1, <1>2, PTL
  DEF Spec

\* With one dispatcher process no issue has two Leads at once but for one more per
\* fault, per late retry and per Lead that an "adw" comment sends past the status:
\* as long as a run of it is tracked the status says `dispatched', which holds a new
\* issue or a label back (orchestrator/dispatcher.py:149-173, 292-293, 858-862).
THEOREM OneLeadPerIssueHolds ==
  ASSUME OneDaemon
  PROVE  Spec => []OneLeadPerIssue
<1>1. TypeOK /\ TiedInv => OneLeadPerIssue
  <2> SUFFICES ASSUME TypeOK, TiedInv, NEW i \in Issues
               PROVE  Cardinality(LiveLeadsFor(i)) <= 1 + faults + overridden[i]
    BY DEF OneLeadPerIssue
  <2>1. TiedOK(i) BY DEF TiedInv
  <2>2. LiveLeadsFor(i) \subseteq Tied(i) BY DEF LiveLeadsFor, LiveLeads, Tied, UnderWay
  <2>3. /\ Cardinality(LiveLeadsFor(i)) <= Cardinality(Tied(i))
        /\ Cardinality(LiveLeadsFor(i)) \in Nat
    BY <2>2, TiedFinite, FS_Subset, FS_CardinalityType DEF TiedCounts
  <2>4. faults \in Nat /\ overridden[i] \in Nat BY DEF TypeOK, PeopleTypeOK
  <2> QED BY <2>1, <2>3, <2>4, TiedFinite DEF TiedOK, TiedCounts
<1> QED BY TypeCorrect, TiedHolds, <1>1, PTL

LEMMA CompletedStays ==
  ASSUME OneDaemon, TypeOK, LaunchInv, HandInv, UnaskedInv, TiedInv, AskInv, OverInv, faults = 0, [Next]_vars,
         NEW i \in Issues, issueStatus[i] = "completed", issueStatus'[i] # "completed"
  PROVE  asked[i] > 0
<1> SUFFICES ASSUME ~Heard(i) PROVE FALSE BY DEF Heard
<1> USE DEF TypeOK, StoreTypeOK
<1>1. ASSUME NEW d \in Daemons, Cycle(d) PROVE FALSE
  <2>1. CASE InsertIssue(d) BY <2>1 DEF InsertIssue
  <2>2. CASE MarkDispatched(d)
    <3>1. pc[d] = "mark" /\ here[d] = i BY <2>2 DEF MarkDispatched
    <3> QED BY <3>1 DEF UnaskedInv
  <2>3. CASE CloseIssue(d)
    <3>1. PICK r \in Runs : r = mine[d] /\ pc[d] = "close_issue" /\ runIssue[r] = i
      BY <2>3 DEF CloseIssue, LaunchInv, Closing
    <3>2. r \in Tied(i) BY <3>1 DEF Tied, UnderWay, Closing
    <3>3. ~Engaged(i) BY DEF Engaged, Marking, UnaskedInv
    <3> QED BY <3>2, <3>3, TiedByFault DEF TiedInv, OverInv
  <2>4. CASE UNCHANGED issueStatus BY <2>4
  <2> QED
    BY <1>1, <2>1, <2>2, <2>3, <2>4
    DEF Cycle, PollStart, ListIssues, JudgeIssue, SeenIssue, SeenNoIssue, CheckGlobalCap,
        CheckRepoCap, CheckGlobalDay, CheckRepoDay, Admit, SyncClone, CreateRun, StartRun,
        RecordDispatch, RefuseRuntime, Spawn, SpawnFails, FailSpawn, WritePid, ListActiveRuns,
        ReapExited, SkipRunning, KillHung, CloseRun, EndCycle
<1>2. ASSUME NEW o \in Operators, RetryWrite(o) PROVE FALSE
  BY <1>2 DEF RetryWrite, AskInv
<1>3. CASE UNCHANGED issueStatus BY <1>3
<1> QED
  BY <1>1, <1>2, <1>3
  DEF Next, LeadSaves, LeadComments, LeadExits, Ages, UserAsks, UserComments, RetryCheck, NewDay,
      Crash, StoreFails, vars

NoFaults == faults = 0

LEMMA FaultsAreFaults ==
  ASSUME [Next]_vars, MaxFaults = 0, NoFaults
  PROVE  NoFaults'
<1> USE DEF peopleVars, NoFaults
<1>1. ASSUME NEW d \in Daemons, Cycle(d) PROVE NoFaults'
  BY <1>1 DEF Cycle, PollStart, ListIssues, JudgeIssue, SeenIssue, SeenNoIssue, InsertIssue,
     CheckGlobalCap, CheckRepoCap, CheckGlobalDay, CheckRepoDay, Admit, SyncClone, CreateRun,
     StartRun, RecordDispatch, RefuseRuntime, Spawn, SpawnFails, FailSpawn, WritePid,
     MarkDispatched, ListActiveRuns, ReapExited, SkipRunning, KillHung, CloseRun, CloseIssue,
     EndCycle
<1>2. ASSUME NEW r \in Runs, LeadSaves(r) \/ LeadComments(r) \/ LeadExits(r) \/ Ages(r)
      PROVE  NoFaults'
  BY <1>2 DEF LeadSaves, LeadComments, LeadExits, Ages
<1>3. ASSUME NEW o \in Operators, RetryWrite(o) \/ \E i \in Issues : RetryCheck(o, i)
      PROVE  NoFaults'
  BY <1>3 DEF RetryWrite, RetryCheck
<1>4. ASSUME NEW i \in Issues, UserAsks(i) \/ UserComments(i) PROVE NoFaults'
  BY <1>4 DEF UserAsks, UserComments
<1>5. CASE NewDay \/ UNCHANGED vars BY <1>5 DEF NewDay, vars
<1>6. ASSUME NEW d \in Daemons, Crash(d) \/ StoreFails(d) PROVE FALSE
  BY <1>6 DEF Crash, StoreFails
<1> QED BY <1>1, <1>2, <1>3, <1>4, <1>5, <1>6 DEF Next

\* With one dispatcher process, one operator at a time and no faults, an issue that
\* was completed stays so unless somebody comments "adw" on it, whatever else is a
\* trigger (orchestrator/dispatcher.py:158-170, orchestrator/ops.py:158-169).
THEOREM CompletedStaysCompleted ==
  ASSUME OneDaemon, OneOperator, MaxFaults = 0
  PROVE  Spec => CompletedIsFinal
<1>1. Init => NoFaults BY DEF Init, NoFaults
<1>2. NoFaults /\ [Next]_vars => NoFaults'
  BY FaultsAreFaults
<1>3. /\ TypeOK /\ LaunchInv /\ HandInv /\ UnaskedInv /\ TiedInv /\ AskInv
      /\ OverInv /\ NoFaults /\ [Next]_vars
      => [\A i \in Issues : issueStatus[i] = "completed" /\ issueStatus'[i] # "completed"
                              => asked[i] > 0]_vars
  <2> SUFFICES ASSUME TypeOK, LaunchInv, HandInv, UnaskedInv, TiedInv, AskInv, OverInv,
                      NoFaults, [Next]_vars, NEW i \in Issues,
                      issueStatus[i] = "completed", issueStatus'[i] # "completed"
               PROVE  asked[i] > 0
    OBVIOUS
  <2> QED BY CompletedStays DEF NoFaults
<1> QED
  BY TypeCorrect, LaunchSafe, HandHolds, AskHolds, TiedHolds, <1>1, <1>2, <1>3, PTL
  DEF Spec, CompletedIsFinal
============================================================================
