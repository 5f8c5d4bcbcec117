------------------------ MODULE RunEpilogueProofs ------------------------
(* Theorems about RunEpilogue, for every number of runs, tasks and faults.  *)
EXTENDS RunEpilogue, FiniteSetTheorems, TLAPS

USE RunsAssumption, BoundsAssumption

---------------------------------------------------------------------------
(* Types.                                                                    *)

\* What may be written to the row of a run or of a task.
LEMMA RunEnds ==
  \A x \in RunRows, s \in Saved : [x EXCEPT !.alive = FALSE, !.saved = s] \in RunRows
BY DEF RunRows

LEMMA RunKilled ==
  \A x \in RunRows, s \in Saved :
    [x EXCEPT !.alive = FALSE, !.saved = s, !.status = "failed"] \in RunRows
BY DEF RunRows

LEMMA RunCloses ==
  \A x \in RunRows : \A s \in {"succeeded", "incomplete", "failed"} :
    [x EXCEPT !.status = s] \in RunRows
BY DEF RunRows

LEMMA TaskHears ==
  \A x \in TaskRows : \A s \in {"done", "failed", "blocked"} :
    [x EXCEPT !.status = s] \in TaskRows
BY DEF TaskRows

LEMMA TaskFiled ==
  \A x \in TaskRows : \A s \in {"Fix", "Resume"} : \A p \in 0 .. MaxTasks :
    [x EXCEPT !.title = s, !.parent = p] \in TaskRows
BY DEF TaskRows

LEMMA TaskLabelled == \A x \in TaskRows : [x EXCEPT !.labelled = TRUE] \in TaskRows
BY DEF TaskRows

LEMMA TaskNoted ==
  \A x \in TaskRows : \A r \in Runs : [x EXCEPT !.noted = @ \cup {r}] \in TaskRows
BY DEF TaskRows

\* A run is in hand while its epilogue is told, and its task is known.
Telling == {"callback", "parent", "add", "label", "note", "reflect"}
InHand == at \in Telling => run \in Runs

LEMMA TaskType == TypeOK => Task \in 0 .. MaxTasks
BY DEF TypeOK, Task, RunRows

LEMMA CalledType ==
  ASSUME TypeOK, InHand, at \in Telling, NEW c \in Calls, Called(c)
  PROVE  faults' \in 0 .. MaxFaults /\ lost' \subseteq Runs
BY DEF TypeOK, InHand, Called, Calls

LEMMA InitType == Init => TypeOK /\ InHand
  BY DEF Init, TypeOK, InHand, Telling, RunRows, TaskRows, NoRun, Tasks, Saved

LEMMA StepType ==
  ASSUME TypeOK, InHand, [Next]_vars
  PROVE  TypeOK'
<1> USE DEF TypeOK, Tasks, InHand, Telling, epilogue, history
<1>1. CASE StartReap
  BY <1>1 DEF StartReap, Active
<1>2. CASE EndReap
  BY <1>2 DEF EndReap
<1>3. CASE StartReflection
  BY <1>3 DEF StartReflection, Reflect
<1>4. CASE Crash
  <2>1. runs' \in [Runs -> RunRows]
    <3>1. CASE UNCHANGED runs BY <3>1
    <3>2. CASE \E saved \in [Runs -> Saved] :
                 runs' = [r \in Runs |-> IF runs[r].alive
                                           THEN [runs[r] EXCEPT !.alive = FALSE, !.saved = saved[r]]
                                           ELSE runs[r]]
      <4>1. PICK saved \in [Runs -> Saved] :
              runs' = [r \in Runs |-> IF runs[r].alive
                                        THEN [runs[r] EXCEPT !.alive = FALSE, !.saved = saved[r]]
                                        ELSE runs[r]]
        BY <3>2
      <4>2. \A r \in Runs : [runs[r] EXCEPT !.alive = FALSE, !.saved = saved[r]] \in RunRows
        BY RunEnds
      <4> QED BY <4>1, <4>2
    <3> QED BY <1>4, <3>1, <3>2 DEF Crash
  <2>2. /\ faults < MaxFaults /\ faults' = faults + 1
        /\ at' = "idle" /\ todo' = {} /\ run' = NoRun /\ known' = 0
        /\ lost' = IF at \in {"idle", "next"} THEN lost ELSE lost \cup {run}
        /\ UNCHANGED <<cleo, lessons, last, cause>>
    BY <1>4, Zenon DEF Crash
  <2> QED BY <2>1, <2>2
<1>5. ASSUME NEW r \in Runs, NEW t \in 0 .. MaxTasks, NEW p \in Repos,
         Dispatch(r, t, p)
      PROVE  TypeOK'
  <2>1. [repo |-> p, task |-> t, status |-> "running", saved |-> "no", alive |-> TRUE] \in RunRows
    BY DEF RunRows, Saved
  <2> QED BY <1>5, <2>1 DEF Dispatch
<1>6. ASSUME NEW r \in Runs, NEW s \in Saved,
         LeadEnds(r, s)
      PROVE  TypeOK'
  <2>1. runs' = [runs EXCEPT ![r] = [runs[r] EXCEPT !.alive = FALSE, !.saved = s]]
    BY <1>6 DEF LeadEnds
  <2>2. runs[r] \in RunRows OBVIOUS
  <2>3. runs' \in [Runs -> RunRows] BY <2>1, <2>2, RunEnds
  <2>4. UNCHANGED <<cleo, epilogue, lessons, faults, history>> BY <1>6 DEF LeadEnds
  <2> QED BY <2>3, <2>4
<1>7. ASSUME NEW r \in Runs, NEW s \in Saved,
         PassOver(r, s)
      PROVE  TypeOK'
  <2>1. runs[r] \in RunRows OBVIOUS
  <2>2. runs' \in [Runs -> RunRows]
    <3>1. CASE UNCHANGED runs BY <3>1
    <3>2. CASE runs' = [runs EXCEPT ![r].alive = FALSE, ![r].saved = s, ![r].status = "failed"]
      BY <3>2, <2>1, RunKilled
    <3> QED BY <1>7, <3>1, <3>2 DEF PassOver
  <2> QED BY <1>7, <2>2 DEF PassOver
<1>8. ASSUME NEW r \in Runs,
         Close(r)
      PROVE  TypeOK'
  <2>1. runs[r] \in RunRows OBVIOUS
  <2>2. FinalStatus(r) \in {"succeeded", "incomplete", "failed"} BY DEF FinalStatus
  <2>3. runs' \in [Runs -> RunRows] BY <1>8, <2>1, <2>2, RunCloses DEF Close
  <2>4. last' \in [Tasks -> Runs \cup {NoRun}] BY <1>8 DEF Close
  <2> QED BY <1>8, <2>3, <2>4 DEF Close
<1>9. ASSUME NEW r \in Runs,
         ReflectByHand(r)
      PROVE  TypeOK'
  BY <1>9 DEF ReflectByHand, Reflect
<1>10. ASSUME NEW c \in Calls,
         Callback(c)
      PROVE  TypeOK'
  <2>1. \A t \in Tasks : cleo[t] \in TaskRows OBVIOUS
  <2>2. TaskStatus(FinalStatus(run)) \in {"done", "failed", "blocked"} BY DEF TaskStatus
  <2>3. \A t \in Tasks : [cleo[t] EXCEPT !.status = TaskStatus(FinalStatus(run))] \in TaskRows
    BY <2>1, <2>2, TaskHears
  <2>4. cleo' = cleo \/ cleo' = [cleo EXCEPT ![Task].status = TaskStatus(FinalStatus(run))]
    BY <1>10 DEF Callback
  <2>5. cleo' \in [Tasks -> TaskRows] BY <2>1, <2>3, <2>4
  <2> QED BY <1>10, <2>5, CalledType DEF Callback
<1>11. ASSUME NEW c \in Calls,
         LookUp(c)
      PROVE  TypeOK'
  BY <1>11, CalledType DEF LookUp
<1>12. ASSUME NEW c \in Calls,
         Label(c)
      PROVE  TypeOK'
  <2>1. \A t \in Tasks : cleo[t] \in TaskRows OBVIOUS
  <2>2. cleo' \in [Tasks -> TaskRows] BY <1>12, <2>1, TaskLabelled DEF Label
  <2> QED BY <1>12, <2>2, CalledType DEF Label
<1>13. ASSUME NEW c \in Calls,
         Note(c)
      PROVE  TypeOK'
  <2>1. \A u \in Tasks : cleo[u] \in TaskRows OBVIOUS
  <2>2. cleo' \in [Tasks -> TaskRows] BY <1>13, <2>1, TaskNoted DEF Note
  <2> QED BY <1>13, <2>2, CalledType DEF Note
<1>14. ASSUME NEW c \in Calls, NEW t \in Tasks, NEW readable \in BOOLEAN,
         Add(c, t, readable)
      PROVE  TypeOK'
  <2>1. \A u \in Tasks : cleo[u] \in TaskRows OBVIOUS
  <2>2. cleo' \in [Tasks -> TaskRows] BY <1>14, <2>1, TaskFiled, TaskType DEF Add, FollowupTitle
  <2>3. cause' \in [Tasks -> Runs \cup {NoRun}] BY <1>14 DEF Add
  <2>4. known' \in 0 .. MaxTasks BY <1>14 DEF Add
  <2>5. at' \in {"label", "note", "reflect"} BY <1>14 DEF Add
  <2> QED BY <1>14, <2>2, <2>3, <2>4, <2>5, CalledType DEF Add
<1>15. CASE UNCHANGED vars BY <1>15 DEF vars
<1> HIDE DEF TypeOK, Tasks, InHand, Telling, epilogue, history
<1>16. ASSUME NEW r \in Runs,
         \/ \E t \in 0 .. MaxTasks, p \in Repos : Dispatch(r, t, p)
         \/ \E s \in Saved : LeadEnds(r, s) \/ PassOver(r, s)
         \/ Close(r) \/ ReflectByHand(r)
      PROVE  TypeOK'
  BY <1>5, <1>6, <1>7, <1>8, <1>9, <1>16
<1>17. ASSUME NEW c \in Calls,
         \/ Callback(c) \/ LookUp(c) \/ Label(c) \/ Note(c)
         \/ \E t \in Tasks, readable \in BOOLEAN : Add(c, t, readable)
      PROVE  TypeOK'
  BY <1>10, <1>11, <1>12, <1>13, <1>14, <1>17
<1> QED BY <1>1, <1>2, <1>3, <1>4, <1>15, <1>16, <1>17 DEF Next

LEMMA StepInHand ==
  ASSUME TypeOK, InHand, [Next]_vars
  PROVE  InHand'
<1> USE DEF TypeOK, InHand, Telling, epilogue, history
<1>1. CASE StartReap
  BY <1>1 DEF StartReap
<1>2. CASE EndReap
  BY <1>2 DEF EndReap
<1>3. CASE StartReflection
  BY <1>3 DEF StartReflection, Reflect
<1>4. CASE Crash
  BY <1>4 DEF Crash
<1>5. ASSUME NEW r \in Runs, NEW t \in 0 .. MaxTasks, NEW p \in Repos,
         Dispatch(r, t, p)
      PROVE  InHand'
  BY <1>5 DEF Dispatch
<1>6. ASSUME NEW r \in Runs, NEW s \in Saved,
         LeadEnds(r, s)
      PROVE  InHand'
  BY <1>6 DEF LeadEnds
<1>7. ASSUME NEW r \in Runs, NEW s \in Saved,
         PassOver(r, s)
      PROVE  InHand'
  BY <1>7 DEF PassOver
<1>8. ASSUME NEW r \in Runs,
         Close(r)
      PROVE  InHand'
  BY <1>8 DEF Close
<1>9. ASSUME NEW r \in Runs,
         ReflectByHand(r)
      PROVE  InHand'
  BY <1>9 DEF ReflectByHand, Reflect
<1>10. ASSUME NEW c \in Calls,
         Callback(c)
      PROVE  InHand'
  BY <1>10 DEF Callback, Called, Calls
<1>11. ASSUME NEW c \in Calls,
         LookUp(c)
      PROVE  InHand'
  BY <1>11 DEF LookUp, Called, Calls
<1>12. ASSUME NEW c \in Calls,
         Label(c)
      PROVE  InHand'
  BY <1>12 DEF Label, Called, Calls
<1>13. ASSUME NEW c \in Calls,
         Note(c)
      PROVE  InHand'
  BY <1>13 DEF Note, Called, Calls
<1>14. ASSUME NEW c \in Calls, NEW t \in Tasks, NEW readable \in BOOLEAN,
         Add(c, t, readable)
      PROVE  InHand'
  BY <1>14 DEF Add, Called, Calls
<1>15. CASE UNCHANGED vars BY <1>15 DEF vars
<1> HIDE DEF TypeOK, InHand, Telling, epilogue, history
<1>16. ASSUME NEW r \in Runs,
         \/ \E t \in 0 .. MaxTasks, p \in Repos : Dispatch(r, t, p)
         \/ \E s \in Saved : LeadEnds(r, s) \/ PassOver(r, s)
         \/ Close(r) \/ ReflectByHand(r)
      PROVE  InHand'
  BY <1>5, <1>6, <1>7, <1>8, <1>9, <1>16
<1>17. ASSUME NEW c \in Calls,
         \/ Callback(c) \/ LookUp(c) \/ Label(c) \/ Note(c)
         \/ \E t \in Tasks, readable \in BOOLEAN : Add(c, t, readable)
      PROVE  InHand'
  BY <1>10, <1>11, <1>12, <1>13, <1>14, <1>17
<1> QED BY <1>1, <1>2, <1>3, <1>4, <1>15, <1>16, <1>17 DEF Next

\* The variables keep their types through every epilogue and every failing call
\* (orchestrator/dispatcher.py:855-900).
THEOREM TypeCorrect == Spec => []TypeOK
  BY InitType, StepType, StepInHand, PTL DEF Spec

---------------------------------------------------------------------------
(* The daemon and the runs it closes.                                        *)

\* Only a run whose row is open has a Lead or is left to reap, and the task of a
\* run is one that was filed.
RunsInv ==
    /\ todo \subseteq Active
    /\ \A r \in Runs : /\ runs[r].alive => runs[r].status = "running"
                       /\ runs[r].task \in Filed \cup {0}

\* The run in hand is closed as it ended; past the callback it has a task and
\* did not succeed, and its task gets a follow-up only if it is none itself.
HandInv ==
    /\ at \in Telling => ~runs[run].alive /\ runs[run].status = FinalStatus(run)
    /\ at \in {"parent", "add", "label", "note"} =>
         Task # 0 /\ FinalStatus(run) # "succeeded"
    /\ at = "add" => cleo[Task].title \notin {"Fix", "Resume"}

LEMMA InitRuns == Init => RunsInv /\ HandInv
  BY DEF Init, RunsInv, HandInv, Active, Filed, Tasks, Telling

\* A crash only ends Leads, and a callback only changes the status of a task.
LEMMA CrashKeeps ==
  ASSUME TypeOK, Crash, NEW r \in Runs
  PROVE  /\ runs'[r].status = runs[r].status /\ runs'[r].task = runs[r].task
         /\ runs'[r].alive => runs[r].alive
         /\ ~runs[r].alive => runs'[r].saved = runs[r].saved
<1>1. CASE UNCHANGED runs BY <1>1
<1>2. CASE ~UNCHANGED runs
  <2>1. PICK saved \in [Runs -> Saved] :
          runs' = [q \in Runs |-> IF runs[q].alive
                                    THEN [runs[q] EXCEPT !.alive = FALSE, !.saved = saved[q]]
                                    ELSE runs[q]]
    BY <1>2 DEF Crash
  <2> QED BY <2>1 DEF TypeOK, RunRows
<1> QED BY <1>1, <1>2

LEMMA TellingKeeps ==
  ASSUME TypeOK, NEW c \in Calls, Callback(c), NEW t \in Tasks
  PROVE  /\ cleo'[t].title = cleo[t].title /\ cleo'[t].parent = cleo[t].parent
         /\ cleo'[t].noted = cleo[t].noted
<1>1. cleo' = cleo \/ cleo' = [cleo EXCEPT ![Task].status = TaskStatus(FinalStatus(run))]
  BY DEF Callback
<1> QED BY <1>1 DEF TypeOK, TaskRows

LEMMA StepRuns ==
  ASSUME TypeOK, InHand, RunsInv, [Next]_vars
  PROVE  RunsInv'
<1> USE DEF TypeOK, RunRows, Tasks, InHand, Telling, RunsInv, Active, Filed,
            epilogue, history
<1>1. CASE StartReap
  BY <1>1 DEF StartReap
<1>2. CASE EndReap
  BY <1>2 DEF EndReap
<1>3. CASE StartReflection
  BY <1>3 DEF StartReflection, Reflect
<1>4. CASE Crash
  <2>1. todo' = {} /\ cleo' = cleo BY <1>4 DEF Crash
  <2> QED BY <2>1, <1>4, CrashKeeps
<1>5. ASSUME NEW r \in Runs, NEW t \in 0 .. MaxTasks, NEW p \in Repos,
         Dispatch(r, t, p)
      PROVE  RunsInv'
  BY <1>5 DEF Dispatch
<1>6. ASSUME NEW r \in Runs, NEW s \in Saved,
         LeadEnds(r, s)
      PROVE  RunsInv'
  BY <1>6 DEF LeadEnds
<1>7. ASSUME NEW r \in Runs, NEW s \in Saved,
         PassOver(r, s)
      PROVE  RunsInv'
  BY <1>7 DEF PassOver
<1>8. ASSUME NEW r \in Runs,
         Close(r)
      PROVE  RunsInv'
  BY <1>8 DEF Close
<1>9. ASSUME NEW r \in Runs,
         ReflectByHand(r)
      PROVE  RunsInv'
  BY <1>9 DEF ReflectByHand, Reflect
<1>10. ASSUME NEW c \in Calls,
         Callback(c)
      PROVE  RunsInv'
  <2>1. UNCHANGED <<runs, todo>> BY <1>10 DEF Callback
  <2> QED BY <2>1, <1>10, TellingKeeps
<1>11. ASSUME NEW c \in Calls,
         LookUp(c)
      PROVE  RunsInv'
  BY <1>11 DEF LookUp, Called, Calls
<1>12. ASSUME NEW c \in Calls,
         Label(c)
      PROVE  RunsInv'
  BY <1>12 DEF Label, Called, Calls
<1>13. ASSUME NEW c \in Calls,
         Note(c)
      PROVE  RunsInv'
  BY <1>13 DEF Note, Called, Calls
<1>14. ASSUME NEW c \in Calls, NEW t \in Tasks, NEW readable \in BOOLEAN,
         Add(c, t, readable)
      PROVE  RunsInv'
  BY <1>14 DEF Add, Called, Calls
<1>15. CASE UNCHANGED vars BY <1>15 DEF vars
<1> HIDE DEF TypeOK, RunRows, Tasks, InHand, Telling, RunsInv, Active, Filed,
             epilogue, history
<1>16. ASSUME NEW r \in Runs,
         \/ \E t \in 0 .. MaxTasks, p \in Repos : Dispatch(r, t, p)
         \/ \E s \in Saved : LeadEnds(r, s) \/ PassOver(r, s)
         \/ Close(r) \/ ReflectByHand(r)
      PROVE  RunsInv'
  BY <1>5, <1>6, <1>7, <1>8, <1>9, <1>16
<1>17. ASSUME NEW c \in Calls,
         \/ Callback(c) \/ LookUp(c) \/ Label(c) \/ Note(c)
         \/ \E t \in Tasks, readable \in BOOLEAN : Add(c, t, readable)
      PROVE  RunsInv'
  BY <1>10, <1>11, <1>12, <1>13, <1>14, <1>17
<1> QED BY <1>1, <1>2, <1>3, <1>4, <1>15, <1>16, <1>17 DEF Next

LEMMA StepHand ==
  ASSUME TypeOK, InHand, RunsInv, HandInv, [Next]_vars
  PROVE  HandInv'
<1> USE DEF TypeOK, RunRows, Tasks, InHand, Telling, RunsInv, HandInv, Active,
            Filed, FinalStatus, Task, epilogue, history
<1>1. CASE StartReap
  BY <1>1 DEF StartReap
<1>2. CASE EndReap
  BY <1>2 DEF EndReap
<1>3. CASE StartReflection
  BY <1>3 DEF StartReflection, Reflect
<1>4. CASE Crash
  BY <1>4 DEF Crash
<1>5. ASSUME NEW r \in Runs, NEW t \in 0 .. MaxTasks, NEW p \in Repos,
         Dispatch(r, t, p)
      PROVE  HandInv'
  BY <1>5 DEF Dispatch
<1>6. ASSUME NEW r \in Runs, NEW s \in Saved,
         LeadEnds(r, s)
      PROVE  HandInv'
  BY <1>6 DEF LeadEnds
<1>7. ASSUME NEW r \in Runs, NEW s \in Saved,
         PassOver(r, s)
      PROVE  HandInv'
  BY <1>7 DEF PassOver
<1>8. ASSUME NEW r \in Runs,
         Close(r)
      PROVE  HandInv'
  BY <1>8 DEF Close
<1>9. ASSUME NEW r \in Runs,
         ReflectByHand(r)
      PROVE  HandInv'
  BY <1>9 DEF ReflectByHand, Reflect
<1>10. ASSUME NEW c \in Calls,
         Callback(c)
      PROVE  HandInv'
  BY <1>10 DEF Callback, Called, Calls
<1>11. ASSUME NEW c \in Calls,
         LookUp(c)
      PROVE  HandInv'
  BY <1>11 DEF LookUp, Called, Calls
<1>12. ASSUME NEW c \in Calls,
         Label(c)
      PROVE  HandInv'
  BY <1>12 DEF Label, Called, Calls
<1>13. ASSUME NEW c \in Calls,
         Note(c)
      PROVE  HandInv'
  BY <1>13 DEF Note, Called, Calls
<1>14. ASSUME NEW c \in Calls, NEW t \in Tasks, NEW readable \in BOOLEAN,
         Add(c, t, readable)
      PROVE  HandInv'
  BY <1>14 DEF Add, Called, Calls
<1>15. CASE UNCHANGED vars BY <1>15 DEF vars
<1> HIDE DEF TypeOK, RunRows, Tasks, InHand, Telling, RunsInv, HandInv, Active,
             Filed, FinalStatus, Task, epilogue, history
<1>16. ASSUME NEW r \in Runs,
         \/ \E t \in 0 .. MaxTasks, p \in Repos : Dispatch(r, t, p)
         \/ \E s \in Saved : LeadEnds(r, s) \/ PassOver(r, s)
         \/ Close(r) \/ ReflectByHand(r)
      PROVE  HandInv'
  BY <1>5, <1>6, <1>7, <1>8, <1>9, <1>16
<1>17. ASSUME NEW c \in Calls,
         \/ Callback(c) \/ LookUp(c) \/ Label(c) \/ Note(c)
         \/ \E t \in Tasks, readable \in BOOLEAN : Add(c, t, readable)
      PROVE  HandInv'
  BY <1>10, <1>11, <1>12, <1>13, <1>14, <1>17
<1> QED BY <1>1, <1>2, <1>3, <1>4, <1>15, <1>16, <1>17 DEF Next

---------------------------------------------------------------------------
(* Follow-up tasks.                                                          *)

\* A follow-up is a task with one of the two titles; it hangs below the task of
\* the run that caused it, which is none. A run before its follow-up is filed has
\* caused none yet.
FollowupInv ==
    /\ \A t \in Filed : t \in Followups <=> cleo[t].title \in {"Fix", "Resume"}
    /\ \A t \in Followups :
         /\ cause[t] \in Runs /\ cleo[t].parent = runs[cause[t]].task
         /\ cleo[cleo[t].parent].title \notin {"Fix", "Resume"}
         /\ runs[cause[t]].status \in {"failed", "incomplete"}
         /\ \A u \in Followups : cause[u] = cause[t] => u = t
    /\ at \in {"callback", "parent", "add"} => \A t \in Followups : cause[t] # run

LEMMA InitFollowups == Init => FollowupInv /\ FollowupTraceable
  BY DEF Init, FollowupInv, FollowupTraceable, Followups, Filed, Tasks

\* Nothing but the filing of a follow-up and the start of an epilogue matters.
LEMMA FollowupsKept ==
  ASSUME TypeOK, RunsInv, FollowupInv, cause' = cause,
         \A t \in Tasks : cleo'[t].title = cleo[t].title /\ cleo'[t].parent = cleo[t].parent,
         \A q \in Runs : /\ runs'[q].task = runs[q].task
                         /\ runs'[q].status = runs[q].status \/ runs[q].status \in {"new", "running"},
         at' \in {"callback", "parent", "add"} =>
           \/ at \in {"callback", "parent", "add"} /\ run' = run
           \/ run' \in Runs /\ runs[run'].status \in {"new", "running"}
  PROVE  FollowupInv'
<1>1. Filed' = Filed /\ Followups' = Followups BY DEF Filed, Followups
<1>2. \A t \in Followups : t \in Tasks /\ cleo[t].parent \in Tasks
  BY DEF Followups, Filed, RunsInv, FollowupInv
<1>3. \A t \in Filed : t \in Tasks BY DEF Filed
<1> QED BY <1>1, <1>2, <1>3 DEF FollowupInv

LEMMA StepFollowups ==
  ASSUME TypeOK, InHand, RunsInv, HandInv, FollowupInv, [Next]_vars
  PROVE  FollowupInv'
<1> USE DEF TypeOK, RunRows, TaskRows, Tasks, InHand, Telling, RunsInv, HandInv,
            Active, Filed, Followups, FollowupInv, FinalStatus, Task,
            epilogue, history
<1>1. CASE StartReap
  BY <1>1 DEF StartReap
<1>2. CASE EndReap
  BY <1>2 DEF EndReap
<1>3. CASE StartReflection
  BY <1>3 DEF StartReflection, Reflect
<1>4. CASE Crash
  <2>1. cleo' = cleo /\ cause' = cause /\ at' = "idle" BY <1>4 DEF Crash
  <2> QED BY <1>4, <2>1, CrashKeeps, FollowupsKept
<1>5. ASSUME NEW r \in Runs, NEW t \in 0 .. MaxTasks, NEW p \in Repos,
         Dispatch(r, t, p)
      PROVE  FollowupInv'
  BY <1>5 DEF Dispatch
<1>6. ASSUME NEW r \in Runs, NEW s \in Saved,
         LeadEnds(r, s)
      PROVE  FollowupInv'
  BY <1>6 DEF LeadEnds
<1>7. ASSUME NEW r \in Runs, NEW s \in Saved,
         PassOver(r, s)
      PROVE  FollowupInv'
  <2>1. UNCHANGED <<cleo, at, run, cause>> BY <1>7 DEF PassOver
  <2>2. runs[r].status = "running" BY <1>7 DEF PassOver
  <2>3. \A q \in Runs : /\ runs'[q].task = runs[q].task
                        /\ runs'[q].status = runs[q].status \/ runs[q].status = "running"
    <3>1. CASE UNCHANGED runs BY <3>1
    <3>2. CASE runs' = [runs EXCEPT ![r].alive = FALSE, ![r].saved = s, ![r].status = "failed"]
      BY <3>2, <2>2
    <3> QED BY <1>7, <3>1, <3>2 DEF PassOver
  <2> QED BY <2>1, <2>3, FollowupsKept
<1>8. ASSUME NEW r \in Runs,
         Close(r)
      PROVE  FollowupInv'
  <2>1. UNCHANGED <<cleo, cause>> /\ at' = "callback" /\ run' = r /\ runs[r].status = "running"
    BY <1>8 DEF Close
  <2>2. \A q \in Runs : /\ runs'[q].task = runs[q].task
                        /\ runs'[q].status = runs[q].status \/ runs[q].status = "running"
    BY <1>8 DEF Close
  <2> QED BY <2>1, <2>2, FollowupsKept
<1>9. ASSUME NEW r \in Runs,
         ReflectByHand(r)
      PROVE  FollowupInv'
  BY <1>9 DEF ReflectByHand, Reflect
<1>10. ASSUME NEW c \in Calls,
         Callback(c)
      PROVE  FollowupInv'
  <2>1. UNCHANGED <<runs, run, cause>> /\ at = "callback" BY <1>10 DEF Callback
  <2> QED BY <1>10, <2>1, TellingKeeps, FollowupsKept
<1>11. ASSUME NEW c \in Calls,
         LookUp(c)
      PROVE  FollowupInv'
  BY <1>11 DEF LookUp, Called, Calls
<1>12. ASSUME NEW c \in Calls,
         Label(c)
      PROVE  FollowupInv'
  <2>1. UNCHANGED <<runs, run, cause>> /\ at' = "note" BY <1>12 DEF Label
  <2>2. \A t \in Tasks : cleo'[t].title = cleo[t].title /\ cleo'[t].parent = cleo[t].parent
    BY <1>12 DEF Label
  <2> QED BY <2>1, <2>2, FollowupsKept
<1>13. ASSUME NEW c \in Calls,
         Note(c)
      PROVE  FollowupInv'
  <2>1. UNCHANGED <<runs, run, cause>> /\ at' = "reflect" BY <1>13 DEF Note
  <2>2. \A t \in Tasks : cleo'[t].title = cleo[t].title /\ cleo'[t].parent = cleo[t].parent
    BY <1>13 DEF Note
  <2> QED BY <2>1, <2>2, FollowupsKept
<1>14. ASSUME NEW c \in Calls, NEW t \in Tasks, NEW readable \in BOOLEAN,
         Add(c, t, readable)
      PROVE  FollowupInv'
  <2>1. CASE ~c.done
    <3>1. UNCHANGED <<runs, cleo, cause, run>> /\ at' = "reflect" BY <1>14, <2>1 DEF Add, Calls
    <3> QED BY <3>1, FollowupsKept
  <2>2. CASE c.done
    <3>1. /\ t \in Tasks \ Filed /\ at = "add" /\ UNCHANGED <<runs, run>>
          /\ at' \in {"reflect", "label", "note"}
          /\ cause' = [cause EXCEPT ![t] = run]
          /\ cleo' = [cleo EXCEPT ![t].title = FollowupTitle, ![t].parent = Task]
      BY <1>14, <2>2 DEF Add
    <3>2. FollowupTitle \in {"Fix", "Resume"} BY DEF FollowupTitle
    <3>3. /\ \A u \in Tasks \ {t} : cleo'[u] = cleo[u] /\ cause'[u] = cause[u]
          /\ cleo'[t].title \in {"Fix", "Resume"} /\ cleo'[t].parent = Task /\ cause'[t] = run
      BY <3>1, <3>2
    <3>4. Filed' = Filed \cup {t} /\ Followups' = Followups \cup {t}
      BY <3>1, <3>3
    <3>5. Task \in Filed /\ cleo[Task].title \notin {"Fix", "Resume"}
      BY <3>1
    <3>6. runs[run].status \in {"failed", "incomplete"} BY <3>1
    <3>7. /\ \A u \in Followups : u # t /\ u \in Filed /\ cleo[u].parent \in Filed
          /\ \A u \in Filed : u \in Tasks \ {t}
          /\ t \notin Filed /\ Task = runs[run].task /\ Task # 0
      BY <3>1
    <3> HIDE DEF Filed, Followups, Task, Active, TypeOK, RunsInv, HandInv,
                FinalStatus, RunRows, TaskRows, Tasks
    <3>8. \A u \in Filed' : u \in Followups' <=> cleo'[u].title \in {"Fix", "Resume"}
      BY <3>3, <3>4, <3>7
    <3>9. ASSUME NEW u \in Followups'
          PROVE  /\ cause'[u] \in Runs /\ cleo'[u].parent = runs'[cause'[u]].task
                 /\ cleo'[cleo'[u].parent].title \notin {"Fix", "Resume"}
                 /\ runs'[cause'[u]].status \in {"failed", "incomplete"}
      <4>1. CASE u = t
        <5>1. cleo'[Task] = cleo[Task] /\ run \in Runs /\ runs' = runs
          BY <3>1, <3>3, <3>5, <3>7
        <5> QED BY <4>1, <5>1, <3>3, <3>5, <3>6, <3>7
      <4>2. CASE u \in Followups
        <5>1. /\ cleo'[u] = cleo[u] /\ cause'[u] = cause[u] /\ runs' = runs
              /\ cleo'[cleo[u].parent] = cleo[cleo[u].parent]
          BY <4>2, <3>1, <3>3, <3>7
        <5> QED BY <4>2, <5>1
      <4> QED BY <4>1, <4>2, <3>4
    <3>10. \A u, v \in Followups' : cause'[u] = cause'[v] => u = v
      BY <3>1, <3>3, <3>4, <3>7
    <3>11. at' \notin {"callback", "parent", "add"} BY <3>1
    <3> QED BY <3>8, <3>9, <3>10, <3>11
  <2> QED BY <2>1, <2>2
<1>15. CASE UNCHANGED vars BY <1>15 DEF vars
<1> HIDE DEF TypeOK, RunRows, TaskRows, Tasks, InHand, Telling, RunsInv, HandInv,
             Active, Filed, Followups, FollowupInv, FinalStatus, Task,
             epilogue, history
<1>16. ASSUME NEW r \in Runs,
         \/ \E t \in 0 .. MaxTasks, p \in Repos : Dispatch(r, t, p)
         \/ \E s \in Saved : LeadEnds(r, s) \/ PassOver(r, s)
         \/ Close(r) \/ ReflectByHand(r)
      PROVE  FollowupInv'
  BY <1>5, <1>6, <1>7, <1>8, <1>9, <1>16
<1>17. ASSUME NEW c \in Calls,
         \/ Callback(c) \/ LookUp(c) \/ Label(c) \/ Note(c)
         \/ \E t \in Tasks, readable \in BOOLEAN : Add(c, t, readable)
      PROVE  FollowupInv'
  BY <1>10, <1>11, <1>12, <1>13, <1>14, <1>17
<1> QED BY <1>1, <1>2, <1>3, <1>4, <1>15, <1>16, <1>17 DEF Next

LEMMA StepTraceable ==
  ASSUME TypeOK, InHand, RunsInv, HandInv, FollowupInv, FollowupTraceable,
         [Next]_vars
  PROVE  FollowupTraceable'
<1> USE DEF TypeOK, RunRows, TaskRows, Tasks, InHand, Telling, RunsInv, HandInv,
            Active, Filed, Followups, FollowupInv, FinalStatus, Task,
            epilogue, history, FollowupTraceable
<1>1. CASE StartReap
  BY <1>1 DEF StartReap
<1>2. CASE EndReap
  BY <1>2 DEF EndReap
<1>3. CASE StartReflection
  BY <1>3 DEF StartReflection, Reflect
<1>4. CASE Crash
  BY <1>4 DEF Crash
<1>5. ASSUME NEW r \in Runs, NEW t \in 0 .. MaxTasks, NEW p \in Repos,
         Dispatch(r, t, p)
      PROVE  FollowupTraceable'
  BY <1>5 DEF Dispatch
<1>6. ASSUME NEW r \in Runs, NEW s \in Saved,
         LeadEnds(r, s)
      PROVE  FollowupTraceable'
  BY <1>6 DEF LeadEnds
<1>7. ASSUME NEW r \in Runs, NEW s \in Saved,
         PassOver(r, s)
      PROVE  FollowupTraceable'
  BY <1>7 DEF PassOver
<1>8. ASSUME NEW r \in Runs,
         Close(r)
      PROVE  FollowupTraceable'
  BY <1>8 DEF Close
<1>9. ASSUME NEW r \in Runs,
         ReflectByHand(r)
      PROVE  FollowupTraceable'
  BY <1>9 DEF ReflectByHand, Reflect
<1>10. ASSUME NEW c \in Calls,
         Callback(c)
      PROVE  FollowupTraceable'
  <2>1. UNCHANGED <<runs, run, cause>> /\ at = "callback" BY <1>10 DEF Callback
  <2>2. lost \subseteq lost' BY <1>10 DEF Callback, Called
  <2>3. \A t \in Tasks : cleo'[t].noted = cleo[t].noted BY <1>10, TellingKeeps
  <2>4. Followups' = Followups BY <1>10, TellingKeeps
  <2> HIDE DEF Followups
  <2>5. \A t \in Followups : cleo[t].parent \in Tasks BY DEF Followups
  <2> QED BY <1>10, <2>1, <2>2, <2>3, <2>4, <2>5, TellingKeeps DEF Followups
<1>11. ASSUME NEW c \in Calls,
         LookUp(c)
      PROVE  FollowupTraceable'
  BY <1>11 DEF LookUp, Called, Calls
<1>12. ASSUME NEW c \in Calls,
         Label(c)
      PROVE  FollowupTraceable'
  BY <1>12 DEF Label, Called, Calls
<1>13. ASSUME NEW c \in Calls,
         Note(c)
      PROVE  FollowupTraceable'
  BY <1>13 DEF Note, Called, Calls
<1>14. ASSUME NEW c \in Calls, NEW t \in Tasks, NEW readable \in BOOLEAN,
         Add(c, t, readable)
      PROVE  FollowupTraceable'
  BY <1>14, SMTT(30) DEF Add, Called, Calls
<1>15. CASE UNCHANGED vars BY <1>15 DEF vars
<1> HIDE DEF TypeOK, RunRows, TaskRows, Tasks, InHand, Telling, RunsInv, HandInv,
             Active, Filed, Followups, FollowupInv, FinalStatus, Task,
             epilogue, history, FollowupTraceable
<1>16. ASSUME NEW r \in Runs,
         \/ \E t \in 0 .. MaxTasks, p \in Repos : Dispatch(r, t, p)
         \/ \E s \in Saved : LeadEnds(r, s) \/ PassOver(r, s)
         \/ Close(r) \/ ReflectByHand(r)
      PROVE  FollowupTraceable'
  BY <1>5, <1>6, <1>7, <1>8, <1>9, <1>16
<1>17. ASSUME NEW c \in Calls,
         \/ Callback(c) \/ LookUp(c) \/ Label(c) \/ Note(c)
         \/ \E t \in Tasks, readable \in BOOLEAN : Add(c, t, readable)
      PROVE  FollowupTraceable'
  BY <1>10, <1>11, <1>12, <1>13, <1>14, <1>17
<1> QED BY <1>1, <1>2, <1>3, <1>4, <1>15, <1>16, <1>17 DEF Next

---------------------------------------------------------------------------
(* What a task is told last.                                                 *)

\* The run a task heard of last is closed, and is the one in hand while the
\* task is told.
LastInv ==
    /\ \A t \in Tasks : last[t] \in Runs => runs[last[t]].status \notin {"new", "running"}
    /\ at = "callback" /\ Task # 0 => last[Task] = run

LEMMA InitLast == Init => LastInv /\ TaskTellsLastRun
  BY DEF Init, LastInv, TaskTellsLastRun, Task, Tasks, NoRun

LEMMA StepLast ==
  ASSUME TypeOK, InHand, RunsInv, HandInv, LastInv, [Next]_vars
  PROVE  LastInv'
<1> USE DEF TypeOK, RunRows, TaskRows, Tasks, InHand, Telling, RunsInv, HandInv,
            Active, FinalStatus, Task, LastInv, epilogue, history
<1>1. CASE StartReap
  BY <1>1 DEF StartReap
<1>2. CASE EndReap
  BY <1>2 DEF EndReap
<1>3. CASE StartReflection
  BY <1>3 DEF StartReflection, Reflect
<1>4. CASE Crash
  <2>1. at' = "idle" /\ last' = last BY <1>4 DEF Crash
  <2> QED BY <1>4, <2>1, CrashKeeps
<1>5. ASSUME NEW r \in Runs, NEW t \in 0 .. MaxTasks, NEW p \in Repos,
         Dispatch(r, t, p)
      PROVE  LastInv'
  BY <1>5 DEF Dispatch
<1>6. ASSUME NEW r \in Runs, NEW s \in Saved,
         LeadEnds(r, s)
      PROVE  LastInv'
  BY <1>6 DEF LeadEnds
<1>7. ASSUME NEW r \in Runs, NEW s \in Saved,
         PassOver(r, s)
      PROVE  LastInv'
  BY <1>7 DEF PassOver
<1>8. ASSUME NEW r \in Runs,
         Close(r)
      PROVE  LastInv'
  BY <1>8 DEF Close
<1>9. ASSUME NEW r \in Runs,
         ReflectByHand(r)
      PROVE  LastInv'
  BY <1>9 DEF ReflectByHand, Reflect
<1>10. ASSUME NEW c \in Calls,
         Callback(c)
      PROVE  LastInv'
  BY <1>10 DEF Callback, Called, Calls
<1>11. ASSUME NEW c \in Calls,
         LookUp(c)
      PROVE  LastInv'
  BY <1>11 DEF LookUp, Called, Calls
<1>12. ASSUME NEW c \in Calls,
         Label(c)
      PROVE  LastInv'
  BY <1>12 DEF Label, Called, Calls
<1>13. ASSUME NEW c \in Calls,
         Note(c)
      PROVE  LastInv'
  BY <1>13 DEF Note, Called, Calls
<1>14. ASSUME NEW c \in Calls, NEW t \in Tasks, NEW readable \in BOOLEAN,
         Add(c, t, readable)
      PROVE  LastInv'
  BY <1>14 DEF Add, Called, Calls
<1>15. CASE UNCHANGED vars BY <1>15 DEF vars
<1> HIDE DEF TypeOK, RunRows, TaskRows, Tasks, InHand, Telling, RunsInv, HandInv,
             Active, FinalStatus, Task, LastInv, epilogue, history
<1>16. ASSUME NEW r \in Runs,
         \/ \E t \in 0 .. MaxTasks, p \in Repos : Dispatch(r, t, p)
         \/ \E s \in Saved : LeadEnds(r, s) \/ PassOver(r, s)
         \/ Close(r) \/ ReflectByHand(r)
      PROVE  LastInv'
  BY <1>5, <1>6, <1>7, <1>8, <1>9, <1>16
<1>17. ASSUME NEW c \in Calls,
         \/ Callback(c) \/ LookUp(c) \/ Label(c) \/ Note(c)
         \/ \E t \in Tasks, readable \in BOOLEAN : Add(c, t, readable)
      PROVE  LastInv'
  BY <1>10, <1>11, <1>12, <1>13, <1>14, <1>17
<1> QED BY <1>1, <1>2, <1>3, <1>4, <1>15, <1>16, <1>17 DEF Next

LEMMA StepTells ==
  ASSUME TypeOK, InHand, RunsInv, HandInv, LastInv, TaskTellsLastRun, [Next]_vars
  PROVE  TaskTellsLastRun'
<1> USE DEF TypeOK, RunRows, TaskRows, Tasks, InHand, Telling, RunsInv, HandInv,
            Active, FinalStatus, Task, LastInv, TaskTellsLastRun,
            epilogue, history
<1>1. CASE StartReap
  BY <1>1 DEF StartReap
<1>2. CASE EndReap
  BY <1>2 DEF EndReap
<1>3. CASE StartReflection
  BY <1>3 DEF StartReflection, Reflect
<1>4. CASE Crash
  <2>1. /\ at' = "idle" /\ UNCHANGED <<last, cleo>>
        /\ lost' = IF at \in {"idle", "next"} THEN lost ELSE lost \cup {run}
    BY <1>4 DEF Crash
  <2> QED BY <1>4, <2>1, CrashKeeps
<1>5. ASSUME NEW r \in Runs, NEW t \in 0 .. MaxTasks, NEW p \in Repos,
         Dispatch(r, t, p)
      PROVE  TaskTellsLastRun'
  BY <1>5 DEF Dispatch
<1>6. ASSUME NEW r \in Runs, NEW s \in Saved,
         LeadEnds(r, s)
      PROVE  TaskTellsLastRun'
  BY <1>6 DEF LeadEnds
<1>7. ASSUME NEW r \in Runs, NEW s \in Saved,
         PassOver(r, s)
      PROVE  TaskTellsLastRun'
  <2>1. UNCHANGED <<cleo, at, run, last, lost>> /\ at = "next" BY <1>7 DEF PassOver
  <2>2. \A q \in Runs : runs'[q].status = runs[q].status \/ runs[q].status = "running"
    BY <1>7 DEF PassOver
  <2> QED BY <2>1, <2>2
<1>8. ASSUME NEW r \in Runs,
         Close(r)
      PROVE  TaskTellsLastRun'
  BY <1>8 DEF Close
<1>9. ASSUME NEW r \in Runs,
         ReflectByHand(r)
      PROVE  TaskTellsLastRun'
  BY <1>9 DEF ReflectByHand, Reflect
<1>10. ASSUME NEW c \in Calls,
         Callback(c)
      PROVE  TaskTellsLastRun'
  <2>1. UNCHANGED <<runs, run, last>> /\ at = "callback" BY <1>10 DEF Callback
  <2>2. lost \subseteq lost' BY <1>10 DEF Callback, Called
  <2>3. ASSUME NEW t \in Tasks, last'[t] \notin lost' \cup {NoRun}
        PROVE  cleo'[t].status = TaskStatus(runs[last[t]].status)
    <3>1. CASE Task = t
      <4>1. last[t] = run BY <2>1, <3>1
      <4>2. c.ok /\ c.done BY <1>10, <2>1, <2>3, <4>1 DEF Callback, Called, Calls
      <4>3. cleo'[t].status = TaskStatus(FinalStatus(run))
        BY <1>10, <4>2, <3>1 DEF Callback
      <4> QED BY <4>1, <4>3, <2>1
    <3>2. CASE Task # t
      <4>1. cleo'[t] = cleo[t] BY <1>10, <3>2 DEF Callback
      <4> QED BY <4>1, <3>2, <2>1, <2>2, <2>3 DEF TaskStatus
    <3> QED BY <3>1, <3>2
  <2> QED BY <2>1, <2>3 DEF TaskStatus
<1>11. ASSUME NEW c \in Calls,
         LookUp(c)
      PROVE  TaskTellsLastRun'
  BY <1>11 DEF LookUp, Called, Calls
<1>12. ASSUME NEW c \in Calls,
         Label(c)
      PROVE  TaskTellsLastRun'
  BY <1>12 DEF Label, Called, Calls
<1>13. ASSUME NEW c \in Calls,
         Note(c)
      PROVE  TaskTellsLastRun'
  BY <1>13 DEF Note, Called, Calls
<1>14. ASSUME NEW c \in Calls, NEW t \in Tasks, NEW readable \in BOOLEAN,
         Add(c, t, readable)
      PROVE  TaskTellsLastRun'
  BY <1>14, SMTT(30) DEF Add, Called, Calls
<1>15. CASE UNCHANGED vars BY <1>15 DEF vars
<1> HIDE DEF TypeOK, RunRows, TaskRows, Tasks, InHand, Telling, RunsInv, HandInv,
             Active, FinalStatus, Task, LastInv, TaskTellsLastRun,
             epilogue, history
<1>16. ASSUME NEW r \in Runs,
         \/ \E t \in 0 .. MaxTasks, p \in Repos : Dispatch(r, t, p)
         \/ \E s \in Saved : LeadEnds(r, s) \/ PassOver(r, s)
         \/ Close(r) \/ ReflectByHand(r)
      PROVE  TaskTellsLastRun'
  BY <1>5, <1>6, <1>7, <1>8, <1>9, <1>16
<1>17. ASSUME NEW c \in Calls,
         \/ Callback(c) \/ LookUp(c) \/ Label(c) \/ Note(c)
         \/ \E t \in Tasks, readable \in BOOLEAN : Add(c, t, readable)
      PROVE  TaskTellsLastRun'
  BY <1>10, <1>11, <1>12, <1>13, <1>14, <1>17
<1> QED BY <1>1, <1>2, <1>3, <1>4, <1>15, <1>16, <1>17 DEF Next

---------------------------------------------------------------------------
(* The knowledge base.                                                       *)

\* An order of rank in which no two members are level.
Ranks(S, rank) ==
  /\ \A x \in S : rank[x] \in Int
  /\ \A x, y \in S : rank[x] = rank[y] => x = y

LEMMA PartIsFinite ==
  ASSUME NEW S, NEW T \in SUBSET S, IsFiniteSet(S)
  PROVE  /\ IsFiniteSet(T) /\ Cardinality(T) \in Nat /\ Cardinality(S) \in Nat
         /\ Cardinality(T) <= Cardinality(S)
BY FS_Subset, FS_CardinalityType

LEMMA StrictPart ==
  ASSUME NEW S, NEW T \in SUBSET S, IsFiniteSet(S), NEW x \in S, x \notin T
  PROVE  Cardinality(T) < Cardinality(S)
<1>1. Cardinality(S) # Cardinality(T) BY FS_Subset
<1> QED BY <1>1, PartIsFinite

\* The members are as many places as there are members: each place up to the
\* last is taken.
LEMMA FirstIsFull ==
  ASSUME NEW S, IsFiniteSet(S), NEW rank, Ranks(S, rank),
         NEW n \in Nat, n <= Cardinality(S)
  PROVE  Cardinality(First(S, n, rank)) = n
<1> DEFINE below(x) == {y \in S : rank[y] < rank[x]}
           place == [x \in S |-> Cardinality(below(x))]
           size == Cardinality(S)
           top == [x \in First(S, n, rank) |-> place[x]]
<1>1. size \in Nat BY FS_CardinalityType
<1>2. \A x \in S : place[x] \in 0 .. (size - 1)
  <2> SUFFICES ASSUME NEW x \in S PROVE Cardinality(below(x)) \in 0 .. (size - 1)
    OBVIOUS
  <2>1. below(x) \in SUBSET S /\ x \notin below(x) BY DEF Ranks
  <2>2. Cardinality(below(x)) \in Nat BY <2>1, PartIsFinite
  <2>3. Cardinality(below(x)) < size BY <2>1, StrictPart
  <2> QED BY <1>1, <2>2, <2>3
<1>3. \A x, y \in S : rank[x] < rank[y] => place[x] < place[y]
  <2> SUFFICES ASSUME NEW x \in S, NEW y \in S, rank[x] < rank[y]
               PROVE  Cardinality(below(x)) < Cardinality(below(y))
    OBVIOUS
  <2>1. below(x) \in SUBSET below(y) BY DEF Ranks
  <2>2. x \in below(y) /\ x \notin below(x) BY DEF Ranks
  <2>3. IsFiniteSet(below(y)) BY PartIsFinite
  <2> HIDE DEF below
  <2> QED BY <2>1, <2>2, <2>3, StrictPart
<1>4. place \in Injection(S, 0 .. (size - 1))
  <2>1. \A x, y \in S : place[x] = place[y] => x = y
    <3> SUFFICES ASSUME NEW x \in S, NEW y \in S, x # y PROVE place[x] # place[y]
      OBVIOUS
    <3>1. rank[x] < rank[y] \/ rank[y] < rank[x] BY DEF Ranks
    <3>2. place[x] \in Int /\ place[y] \in Int BY <1>2
    <3> HIDE DEF place
    <3> QED BY <1>3, <3>1, <3>2
  <2>2. place \in [S -> 0 .. (size - 1)] BY <1>2
  <2> HIDE DEF place
  <2> QED BY <2>1, <2>2 DEF Injection, IsInjective
<1>5. \A i \in 0 .. (size - 1) : \E x \in S : place[x] = i
  <2>1. IsFiniteSet(0 .. (size - 1)) /\ Cardinality(0 .. (size - 1)) = size
    <3> HIDE DEF size
    <3> QED BY <1>1, FS_Interval
  <2>2. place \in Surjection(S, 0 .. (size - 1))
    <3> HIDE DEF place, size
    <3> QED BY <1>4, <2>1, FS_Injection DEF size
  <2> HIDE DEF place, size
  <2> QED BY <2>2 DEF Surjection
<1>6. First(S, n, rank) = {x \in S : place[x] < n} BY DEF First
<1>7. top \in Injection(First(S, n, rank), 0 .. (n - 1))
  <2>1. \A x \in First(S, n, rank) : x \in S /\ top[x] \in 0 .. (n - 1)
    <3> SUFFICES ASSUME NEW x \in First(S, n, rank) PROVE x \in S /\ place[x] \in 0 .. (n - 1)
      OBVIOUS
    <3>1. x \in S /\ place[x] < n BY <1>6
    <3> HIDE DEF place, size
    <3> QED BY <3>1, <1>1, <1>2
  <2>2. \A x, y \in First(S, n, rank) : top[x] = top[y] => x = y
    <3> HIDE DEF place
    <3> QED BY <2>1, <1>4 DEF Injection, IsInjective
  <2> HIDE DEF place
  <2> QED BY <2>1, <2>2 DEF Injection, IsInjective
<1>8. top \in Surjection(First(S, n, rank), 0 .. (n - 1))
  <2>1. \A i \in 0 .. (n - 1) : \E x \in First(S, n, rank) : top[x] = i
    <3> SUFFICES ASSUME NEW i \in 0 .. (n - 1) PROVE \E x \in First(S, n, rank) : place[x] = i
      OBVIOUS
    <3>1. PICK x \in S : place[x] = i
      <4> HIDE DEF place, size
      <4> QED BY <1>1, <1>5 DEF size
    <3> HIDE DEF place
    <3> QED BY <3>1, <1>6
  <2> HIDE DEF place
  <2> QED BY <1>7, <2>1 DEF Surjection, Injection
<1>9. IsFiniteSet(0 .. (n - 1)) /\ Cardinality(0 .. (n - 1)) = n BY FS_Interval
<1> QED
  <2> HIDE DEF top
  <2> QED BY <1>7, <1>8, <1>9, FS_Injection

\* All are among the first where there is room for all.
LEMMA FirstIsAll ==
  ASSUME NEW S, IsFiniteSet(S), NEW rank, Ranks(S, rank),
         NEW n \in Nat, Cardinality(S) <= n
  PROVE  First(S, n, rank) = S
<1> SUFFICES ASSUME NEW x \in S PROVE x \in First(S, n, rank) BY DEF First
<1> DEFINE below == {y \in S : rank[y] < rank[x]}
<1>1. below \in SUBSET S /\ x \notin below BY DEF Ranks
<1>2. Cardinality(below) < Cardinality(S) BY <1>1, StrictPart
<1>3. Cardinality(below) \in Nat /\ Cardinality(S) \in Nat BY <1>1, PartIsFinite
<1> QED BY <1>2, <1>3 DEF First

\* Whoever ranks before one of the first is one of them.
LEMMA FirstIsClosed ==
  ASSUME NEW S, IsFiniteSet(S), NEW rank, Ranks(S, rank), NEW n \in Nat,
         NEW x \in First(S, n, rank), NEW y \in S, rank[y] < rank[x]
  PROVE  y \in First(S, n, rank)
<1> DEFINE below(z) == {q \in S : rank[q] < rank[z]}
<1>1. x \in S /\ Cardinality(below(x)) < n BY DEF First
<1>2. below(y) \in SUBSET below(x) BY <1>1 DEF Ranks
<1>3. IsFiniteSet(below(x)) BY PartIsFinite
<1>4. Cardinality(below(y)) <= Cardinality(below(x)) /\ Cardinality(below(x)) \in Nat
      /\ Cardinality(below(y)) \in Nat
  <2> HIDE DEF below
  <2> QED BY <1>2, <1>3, PartIsFinite
<1> QED BY <1>1, <1>4 DEF First

\* The look-up as a law of ranks: own and M stand for the matches of the
\* repository and for all of them.
Ahead(q, r, own, rank) == IF q \in own THEN r \in own => rank[q] < rank[r]
                                        ELSE r \notin own /\ rank[q] < rank[r]

Best(M, own, K, rank) == {r \in M : Cardinality({q \in M : Ahead(q, r, own, rank)}) < K}

Fetched(M, own, K, rank) ==
  LET primary == First(own, K, rank)
      missing == K - Cardinality(primary)
  IN  primary \cup First(First(M, K + missing, rank) \ primary, missing, rank)

LEMMA BestAreFetched ==
  ASSUME NEW M, IsFiniteSet(M), NEW rank, Ranks(M, rank),
         NEW own \in SUBSET M, NEW K \in Nat
  PROVE  Fetched(M, own, K, rank) = Best(M, own, K, rank)
<1> DEFINE primary == First(own, K, rank)
           missing == K - Cardinality(primary)
           second == First(M, K + missing, rank)
           before(r) == {q \in M : Ahead(q, r, own, rank)}
           ahead(r) == {q \in own : rank[q] < rank[r]}
           level(r) == {q \in M \ own : rank[q] < rank[r]}
<1> SUFFICES primary \cup First(second \ primary, missing, rank)
               = {r \in M : Cardinality(before(r)) < K}
  BY DEF Fetched, Best
<1>1. IsFiniteSet(own) /\ Cardinality(own) \in Nat BY PartIsFinite
<1>2. Ranks(own, rank) BY DEF Ranks
<1>3. primary \subseteq own BY DEF First
<1>4. second \subseteq M BY DEF First
<1>5. \A r \in own : before(r) = ahead(r) BY DEF Ahead
<1>6. \A r \in M \ own : before(r) = own \cup level(r) BY DEF Ahead
<1>7. \A r \in M : IsFiniteSet(level(r)) /\ Cardinality(level(r)) \in Nat
  BY PartIsFinite
<1>8. \A r \in M : IsFiniteSet(before(r)) /\ Cardinality(before(r)) \in Nat
  <2> SUFFICES ASSUME NEW r \in M PROVE IsFiniteSet(before(r)) /\ Cardinality(before(r)) \in Nat
    OBVIOUS
  <2>1. before(r) \in SUBSET M OBVIOUS
  <2> HIDE DEF before
  <2> QED BY <2>1, PartIsFinite
<1>9. \A r \in M \ own : Cardinality(before(r)) = Cardinality(own) + Cardinality(level(r))
  <2> SUFFICES ASSUME NEW r \in M \ own
               PROVE  Cardinality(own \cup level(r)) = Cardinality(own) + Cardinality(level(r))
    BY <1>6
  <2>1. own \cap level(r) = {} OBVIOUS
  <2>2. IsFiniteSet(level(r)) /\ Cardinality(level(r)) \in Nat BY <1>7
  <2> HIDE DEF level
  <2>3. Cardinality(own \cup level(r))
          = Cardinality(own) + Cardinality(level(r)) - Cardinality({})
    BY <1>1, <2>1, <2>2, FS_Union
  <2> QED BY <1>1, <2>2, <2>3, FS_EmptySet
<1>10. CASE K <= Cardinality(own)
  <2>1. Cardinality(primary) = K
    <3> HIDE DEF primary
    <3> QED BY <1>1, <1>2, <1>10, FirstIsFull DEF primary
  <2>2. missing = 0 BY <2>1
  <2>3. First(second \ primary, missing, rank) = {}
    <3> SUFFICES ASSUME NEW x \in second \ primary,
                        Cardinality({q \in second \ primary : rank[q] < rank[x]}) < 0
                 PROVE  FALSE
      <4> HIDE DEF primary, missing, second
      <4> QED BY <2>2 DEF First
    <3>1. {q \in second \ primary : rank[q] < rank[x]} \in SUBSET M BY <1>4
    <3>2. Cardinality({q \in second \ primary : rank[q] < rank[x]}) \in Nat
      <4> DEFINE some == {q \in second \ primary : rank[q] < rank[x]}
      <4> HIDE DEF some
      <4> QED BY <3>1, PartIsFinite DEF some
    <3> HIDE DEF primary, second
    <3> QED BY <3>2
  <2>4. \A r \in M : r \in primary <=> Cardinality(before(r)) < K
    <3> SUFFICES ASSUME NEW r \in M PROVE r \in primary <=> Cardinality(before(r)) < K
      OBVIOUS
    <3>1. CASE r \in own
      <4>1. before(r) = ahead(r) BY <1>5, <3>1
      <4>2. r \in primary <=> Cardinality(ahead(r)) < K BY <3>1 DEF First
      <4> HIDE DEF before, ahead, primary
      <4> QED BY <4>1, <4>2
    <3>2. CASE r \notin own
      <4>1. r \notin primary BY <1>3, <3>2
      <4>2. Cardinality(before(r)) = Cardinality(own) + Cardinality(level(r)) BY <1>9, <3>2
      <4>3. Cardinality(level(r)) \in Nat BY <1>7
      <4> HIDE DEF before, level, primary
      <4> QED BY <1>1, <1>10, <4>1, <4>2, <4>3
    <3> QED BY <3>1, <3>2
  <2>5. primary \cup First(second \ primary, missing, rank)
          = {r \in M : Cardinality(before(r)) < K}
    <3> HIDE DEF before, missing, second, primary
    <3> QED BY <2>3, <2>4, <1>3
  <2> QED BY <2>5
<1>11. CASE Cardinality(own) < K
  <2>1. primary = own
    <3> HIDE DEF primary
    <3> QED BY <1>1, <1>2, <1>11, FirstIsAll DEF primary
  <2>2. missing = K - Cardinality(own) BY <2>1
  <2>3. missing \in Nat BY <1>1, <1>11, <2>2
  <2>4. \A r \in own : Cardinality(before(r)) < K
    <3> SUFFICES ASSUME NEW r \in own PROVE Cardinality(ahead(r)) < K BY <1>5
    <3>1. ahead(r) \in SUBSET own OBVIOUS
    <3> HIDE DEF ahead
    <3> QED BY <1>1, <1>11, <3>1, PartIsFinite
  <2>5. \A r \in M \ own : r \in First(second \ own, missing, rank)
                             <=> Cardinality(before(r)) < K
    <3> SUFFICES ASSUME NEW r \in M \ own
                 PROVE  r \in First(second \ own, missing, rank)
                          <=> Cardinality(before(r)) < K
      OBVIOUS
    <3> DEFINE rest == {q \in second \ own : rank[q] < rank[r]}
               under == {q \in M : rank[q] < rank[r]}
    <3>1. IsFiniteSet(level(r)) /\ Cardinality(level(r)) \in Nat BY <1>7
    <3>2. rest \in SUBSET level(r) BY <1>4
    <3>3. Cardinality(rest) <= Cardinality(level(r)) /\ Cardinality(rest) \in Nat
      <4> HIDE DEF rest, level
      <4> QED BY <3>1, <3>2, PartIsFinite
    <3>4. r \in First(second \ own, missing, rank) <=> r \in second /\ Cardinality(rest) < missing
      <4> HIDE DEF second, missing
      <4> QED BY DEF First
    <3>5. ASSUME r \in second PROVE rest = level(r)
      <4>1. \A q \in level(r) : q \in second
        <5> SUFFICES ASSUME NEW q \in M, rank[q] < rank[r] PROVE q \in First(M, K + missing, rank)
          OBVIOUS
        <5>1. K + missing \in Nat BY <2>3
        <5>2. r \in First(M, K + missing, rank) BY <3>5
        <5> HIDE DEF missing, second
        <5> QED BY <5>1, <5>2, FirstIsClosed
      <4> HIDE DEF second
      <4> QED BY <4>1, <3>2
    <3>6. ASSUME Cardinality(level(r)) < missing PROVE r \in second
      <4>1. under \in SUBSET (own \cup level(r)) OBVIOUS
      <4>2. IsFiniteSet(own \cup level(r))
            /\ Cardinality(own \cup level(r)) = Cardinality(own) + Cardinality(level(r))
        <5>1. own \cup level(r) = before(r) BY <1>6
        <5>2. IsFiniteSet(before(r)) BY <1>8
        <5>3. Cardinality(before(r)) = Cardinality(own) + Cardinality(level(r)) BY <1>9
        <5> HIDE DEF level, before
        <5> QED BY <5>1, <5>2, <5>3
      <4>3. Cardinality(under) <= Cardinality(own) + Cardinality(level(r))
            /\ Cardinality(under) \in Nat
        <5> HIDE DEF level, under
        <5> QED BY <4>1, <4>2, PartIsFinite
      <4>4. Cardinality(under) < K + missing
        <5> HIDE DEF level, under, missing
        <5> QED BY <3>1, <3>6, <4>3, <2>2, <2>3, <1>1
      <4> HIDE DEF missing
      <4> QED BY <4>4 DEF First
    <3>7. r \in First(second \ own, missing, rank) <=> Cardinality(level(r)) < missing
      <4> HIDE DEF rest, level, second, missing
      <4> QED BY <3>1, <3>3, <3>4, <3>5, <3>6
    <3>8. Cardinality(before(r)) = Cardinality(own) + Cardinality(level(r)) BY <1>9
    <3> HIDE DEF level, before, missing, second
    <3> QED BY <1>1, <2>2, <3>1, <3>7, <3>8
  <2>6. primary \cup First(second \ primary, missing, rank)
          = own \cup First(second \ own, missing, rank)
    BY <2>1
  <2>7. First(second \ own, missing, rank) \subseteq M \ own
    <3>1. First(second \ own, missing, rank) \subseteq second \ own BY DEF First
    <3> HIDE DEF second, missing
    <3> QED BY <3>1, <1>4
  <2>8. own \cup First(second \ own, missing, rank) = {r \in M : Cardinality(before(r)) < K}
    <3> HIDE DEF second, missing, before
    <3> QED BY <2>4, <2>5, <2>7
  <2> QED BY <2>6, <2>8
<1> HIDE DEF primary, missing, second, before
<1> QED BY <1>1, <1>10, <1>11

---------------------------------------------------------------------------
\* No follow-up is filed below a follow-up and no run causes two, whichever calls of
\* the CLEO command line fail (orchestrator/dispatcher.py:589-715).
THEOREM FollowupsEndHolds == Spec => []FollowupsEnd
<1>1. Spec => [](TypeOK /\ InHand /\ RunsInv /\ HandInv /\ FollowupInv)
  BY InitType, InitRuns, InitFollowups, StepType, StepInHand, StepRuns, StepHand,
     StepFollowups, PTL DEF Spec
<1>2. TypeOK /\ RunsInv /\ FollowupInv => FollowupsEnd
  BY DEF TypeOK, RunsInv, FollowupInv, FollowupsEnd, Followups, Filed, Tasks
<1> QED BY <1>1, <1>2, PTL

\* A follow-up is noted on its parent unless a call of that epilogue failed or the
\* daemon died in it (orchestrator/dispatcher.py:589-715).
THEOREM FollowupTraceableHolds == Spec => []FollowupTraceable
  BY InitType, InitRuns, InitFollowups, StepType, StepInHand, StepRuns, StepHand,
     StepFollowups, StepTraceable, PTL DEF Spec

\* A task stands as the run of it that was reaped last left it, unless a call of that
\* epilogue failed or the daemon died in it (orchestrator/dispatcher.py:920-1000).
THEOREM TaskTellsLastRunHolds == Spec => []TaskTellsLastRun
  BY InitType, InitRuns, InitLast, StepType, StepInHand, StepRuns, StepHand,
     StepLast, StepTells, PTL DEF Spec

\* A look-up of lessons gives those that have less than K others before them, own
\* repository first and then by rank, whatever matches: the second search fetches
\* enough to fill the room that is left (orchestrator/knowledge.py:171-183).
THEOREM RelevantIsBestHolds == Spec => []RelevantIsBest
<1>1. Spec => [](TypeOK /\ InHand)
  BY InitType, StepType, StepInHand, PTL DEF Spec
<1>2. TypeOK => RelevantIsBest
  <2> SUFFICES ASSUME TypeOK, NEW p \in Repos,
                      NEW M \in SUBSET {r \in Runs : lessons[r] # "none"},
                      NEW rank \in Injection(M, 1 .. Cardinality(M))
               PROVE  LET Before(q, r) == IF runs[q].repo = p
                                  THEN runs[r].repo = p => rank[q] < rank[r]
                                  ELSE runs[r].repo # p /\ rank[q] < rank[r]
                      IN  FetchRelevant(rank, p) =
                            {r \in M : Cardinality({q \in M : Before(q, r)}) < MaxLessons}
    BY DEF RelevantIsBest
  <2> DEFINE own == {r \in M : runs[r].repo = p}
             Before(q, r) == IF runs[q].repo = p
                               THEN runs[r].repo = p => rank[q] < rank[r]
                               ELSE runs[r].repo # p /\ rank[q] < rank[r]
  <2>1. IsFiniteSet(M)
    <3>1. M \in SUBSET Runs OBVIOUS
    <3> QED BY <3>1, FS_Subset
  <2>2. DOMAIN rank = M /\ Ranks(M, rank)
    BY DEF Ranks, Injection, IsInjective
  <2>3. own = {r \in DOMAIN rank : runs[r].repo \in {p}} BY <2>2
  <2>4. M = {r \in DOMAIN rank : runs[r].repo \in Repos}
    <3>1. \A r \in Runs : runs[r].repo \in Repos BY DEF TypeOK, RunRows
    <3> QED BY <2>2, <3>1
  <2>5. FetchRelevant(rank, p) = Fetched(M, own, MaxLessons, rank)
    BY <2>3, <2>4, Zenon DEF FetchRelevant, Search, Fetched
  <2>6. own \in SUBSET M /\ MaxLessons \in Nat OBVIOUS
  <2>7. Fetched(M, own, MaxLessons, rank) = Best(M, own, MaxLessons, rank)
    <3> HIDE DEF own
    <3> QED BY <2>1, <2>2, <2>6, BestAreFetched
  <2>8. \A q, r \in M : Ahead(q, r, own, rank) <=> Before(q, r) BY DEF Ahead
  <2>9. \A r \in M : {q \in M : Ahead(q, r, own, rank)} = {q \in M : Before(q, r)}
    <3> HIDE DEF own, Before
    <3> QED BY <2>8
  <2>10. Best(M, own, MaxLessons, rank)
           = {r \in M : Cardinality({q \in M : Before(q, r)}) < MaxLessons}
    <3> HIDE DEF own, Before
    <3> QED BY <2>9 DEF Best
  <2> QED BY <2>5, <2>7, <2>10
<1> QED BY <1>1, <1>2, PTL

=============================================================================
