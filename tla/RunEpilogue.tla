---------------------------- MODULE RunEpilogue ----------------------------
(* What follows the end of a run: the dispatcher closes it, tells the CLEO  *)
(* task of its issue how it ended, files a follow-up task if it did not      *)
(* succeed, and starts the reflection on it (dispatcher.py,                   *)
(* reap_finished_runs); a reflection writes a lesson (adw_reflect_iso.py),    *)
(* and a dispatch looks up the lessons of similar runs (knowledge.py). The    *)
(* CLEO command line is external: a call of it may fail, with its effect or   *)
(* without. One daemon, whose table of issues and budget are in Dispatcher.   *)
EXTENDS Integers, FiniteSets, Functions, TLC

CONSTANTS
    Runs,        \* the runs, by ADW id
    Repos,       \* the repositories
    MaxTasks,    \* bound: task 1 is the one of an issue; enough for all follow-ups
    MaxLessons,  \* K: how many lessons a dispatch looks up
    MaxFaults    \* bound: failing calls and crashes of the daemon

ASSUME RunsAssumption == IsFiniteSet(Runs) /\ "none" \notin Runs

ASSUME BoundsAssumption ==
    /\ MaxTasks \in Nat \ {0} /\ MaxLessons \in Nat \ {0} /\ MaxFaults \in Nat
    /\ MaxTasks > Cardinality(Runs)

VARIABLES
    runs,        \* of each: repository, task (0: none), status, state file, Lead alive
    cleo,        \* of each task: title, status, parent, labelled, notes of follow-ups
    at,          \* the daemon: "idle", "next", "callback", "parent", "add", "label",
                 \* "note", "reflect"
    run,         \* the run it reaps
    known,       \* the id of the follow-up it has filed, 0 if it could not read it
    todo,        \* the rest of list_active_runs
    lessons,     \* of each run, the result its indexed lesson names, "none" without one
    faults,      \* bound
    last,        \* history: the run of each task whose end was found out last
    lost,        \* history: runs in whose epilogue a call failed or the daemon died
    cause        \* history: the run for which each follow-up was filed

epilogue == <<at, run, known, todo>>
history  == <<last, lost, cause>>
vars     == <<runs, cleo, epilogue, lessons, faults, history>>

Tasks == 1 .. MaxTasks
Filed == {t \in Tasks : cleo[t].title # "none"}
NoRun == "none"
Saved == {"no", "partial", "full"}

Init ==
    /\ \E p \in Repos :
         runs = [r \in Runs |-> [repo |-> p, task |-> 0, status |-> "new",
                                 saved |-> "no", alive |-> FALSE]]
    /\ cleo = [t \in Tasks |-> [title |-> IF t = 1 THEN "plain" ELSE "none",
                                status |-> "open", parent |-> 0,
                                labelled |-> FALSE, noted |-> {}]]
    /\ at = "idle" /\ run = NoRun /\ known = 0 /\ todo = {}
    /\ lessons = [r \in Runs |-> "none"]
    /\ faults = 0
    /\ last = [t \in Tasks |-> NoRun] /\ lost = {} /\ cause = [t \in Tasks |-> NoRun]

----------------------------------------------------------------------------
\* The knowledge base. A full-text search answers with the first of the matches
\* by their rank, of one repository or of all; rank is of the matches.

First(S, n, rank) == {x \in S : Cardinality({y \in S : rank[y] < rank[x]}) < n}

Search(rank, of, n) == First({r \in DOMAIN rank : runs[r].repo \in of}, n, rank)

\* Mutated: only as many of the other lessons are fetched as are missing.
FetchRelevantShort(rank, p) ==
    LET primary == Search(rank, {p}, MaxLessons)
    IN  primary \cup Search(rank, Repos, MaxLessons - Cardinality(primary))

\* Lessons of the same repository, then of all, those already had left out.
FetchRelevant(rank, p) ==
    LET primary == Search(rank, {p}, MaxLessons)
        missing == MaxLessons - Cardinality(primary)
    IN  primary \cup First(Search(rank, Repos, MaxLessons + missing) \ primary, missing, rank)

----------------------------------------------------------------------------
\* The dispatch of a run, for an issue whose title names task t or no task (0),
\* and its Lead, which has saved no state, one without a plan or a full one
\* when it ends.

Dispatch(r, t, p) ==
    /\ at = "idle" /\ runs[r].status = "new" /\ t \in Filed \cup {0}
    /\ runs' = [runs EXCEPT ![r] = [repo |-> p, task |-> t, status |-> "running",
                                    saved |-> "no", alive |-> TRUE]]
    /\ UNCHANGED <<cleo, epilogue, lessons, faults, history>>

LeadEnds(r, s) ==
    /\ runs[r].alive
    /\ runs' = [runs EXCEPT ![r].alive = FALSE, ![r].saved = s]
    /\ UNCHANGED <<cleo, epilogue, lessons, faults, history>>

----------------------------------------------------------------------------
\* The daemon reaps.

Active == {r \in Runs : runs[r].status = "running"}

StartReap ==
    /\ at = "idle" /\ Active # {}
    /\ at' = "next" /\ todo' = Active
    /\ UNCHANGED <<runs, cleo, run, known, lessons, faults, history>>

EndReap ==
    /\ at = "next" /\ todo = {}
    /\ at' = "idle"
    /\ UNCHANGED <<runs, cleo, run, known, todo, lessons, faults, history>>

\* A Lead that lives is left alone or, when it has run too long, killed: its
\* run is failed, and nothing else of the epilogue happens.
PassOver(r, s) ==
    /\ at = "next" /\ r \in todo /\ runs[r].alive
    /\ \/ UNCHANGED runs
       \/ runs' = [runs EXCEPT ![r].alive = FALSE, ![r].saved = s,
                                ![r].status = "failed"]
    /\ todo' = todo \ {r}
    /\ UNCHANGED <<cleo, at, run, known, lessons, faults, history>>

FinalStatus(r) == CASE runs[r].saved = "full"    -> "succeeded"
                    [] runs[r].saved = "partial" -> "incomplete"
                    [] OTHER                     -> "failed"

\* Mutated: the run is closed when its epilogue is over.
CloseLate(r) ==
    /\ at = "next" /\ r \in todo /\ ~runs[r].alive
    /\ run' = r /\ todo' = todo \ {r} /\ at' = "callback"
    /\ last' = [t \in Tasks |-> IF t = runs[r].task THEN r ELSE last[t]]
    /\ UNCHANGED <<runs, cleo, known, lessons, faults, lost, cause>>

\* The run and its issue are closed before anything is told of them.
Close(r) ==
    /\ at = "next" /\ r \in todo /\ ~runs[r].alive
    /\ runs' = [runs EXCEPT ![r].status = FinalStatus(r)]
    /\ run' = r /\ todo' = todo \ {r} /\ at' = "callback"
    /\ last' = [t \in Tasks |-> IF t = runs[r].task THEN r ELSE last[t]]
    /\ UNCHANGED <<cleo, known, lessons, faults, lost, cause>>

\* A call of the CLEO command line has its effect or not, and says so or not:
\* a call that times out may have had it.
Calls == {c \in [done : BOOLEAN, ok : BOOLEAN] : c.ok => c.done}

Called(c) ==
    /\ c.ok \/ faults < MaxFaults
    /\ faults' = faults + (IF c.ok THEN 0 ELSE 1)
    /\ lost' = IF c.ok THEN lost ELSE lost \cup {run}

\* Mutated: the status is passed on as it is.
TaskStatusRaw(final) == final

TaskStatus(final) == CASE final = "succeeded"  -> "done"
                       [] final = "incomplete" -> "blocked"
                       [] OTHER                -> "failed"

Task == IF run = NoRun THEN 0 ELSE runs[run].task

\* Mutated: an incomplete run is no failure, and its task is left alone.
CallbackUnlessIncomplete(c) ==
    /\ at = "callback"
    /\ IF Task = 0 \/ FinalStatus(run) = "incomplete"
         THEN c.ok /\ UNCHANGED cleo
         ELSE cleo' = IF c.done THEN [cleo EXCEPT ![Task].status = TaskStatus(FinalStatus(run))]
                                ELSE cleo
    /\ Called(c)
    /\ at' = IF Task # 0 /\ FinalStatus(run) # "succeeded" THEN "parent" ELSE "reflect"
    /\ UNCHANGED <<runs, run, known, todo, lessons, last, cause>>

\* The task of the run is completed, failed or blocked. A failing call is
\* logged and forgotten.
Callback(c) ==
    /\ at = "callback"
    /\ IF Task = 0
         THEN c.ok /\ UNCHANGED cleo
         ELSE cleo' = IF c.done THEN [cleo EXCEPT ![Task].status = TaskStatus(FinalStatus(run))]
                                ELSE cleo
    /\ Called(c)
    /\ at' = IF Task # 0 /\ FinalStatus(run) # "succeeded" THEN "parent" ELSE "reflect"
    /\ UNCHANGED <<runs, run, known, todo, lessons, last, cause>>

\* Mutated: the guard knows one of the two titles of a follow-up.
LookUpFixOnly(c) ==
    /\ at = "parent" /\ Called(c)
    /\ at' = IF c.ok /\ cleo[Task].title # "Fix" THEN "add" ELSE "reflect"
    /\ UNCHANGED <<runs, cleo, run, known, todo, lessons, last, cause>>

\* A task that is itself a follow-up gets none.
LookUp(c) ==
    /\ at = "parent" /\ Called(c)
    /\ at' = IF c.ok /\ cleo[Task].title \notin {"Fix", "Resume"} THEN "add" ELSE "reflect"
    /\ UNCHANGED <<runs, cleo, run, known, todo, lessons, last, cause>>

FollowupTitle == IF FinalStatus(run) = "failed" THEN "Fix" ELSE "Resume"

\* Mutated: an answer without an id ends the matter.
AddParsed(c, t, readable) ==
    /\ at = "add" /\ t \in Tasks \ Filed /\ t - 1 \in Filed /\ Called(c)
    /\ cleo' = IF c.done THEN [cleo EXCEPT ![t].title = FollowupTitle, ![t].parent = Task]
                         ELSE cleo
    /\ cause' = IF c.done THEN [cause EXCEPT ![t] = run] ELSE cause
    /\ known' = IF c.ok /\ readable THEN t ELSE 0
    /\ at' = IF c.ok /\ readable THEN "label" ELSE "reflect"
    /\ UNCHANGED <<runs, run, todo, lessons, last>>

\* A child of the task is filed; its id is read from the answer, if it can be.
Add(c, t, readable) ==
    /\ at = "add" /\ t \in Tasks \ Filed /\ t - 1 \in Filed /\ Called(c)
    /\ cleo' = IF c.done THEN [cleo EXCEPT ![t].title = FollowupTitle, ![t].parent = Task]
                         ELSE cleo
    /\ cause' = IF c.done THEN [cause EXCEPT ![t] = run] ELSE cause
    /\ known' = IF c.ok /\ readable THEN t ELSE 0
    /\ at' = CASE ~c.ok              -> "reflect"
               [] c.ok /\ readable  -> "label"
               [] c.ok /\ ~readable -> "note"
    /\ UNCHANGED <<runs, run, todo, lessons, last>>

Label(c) ==
    /\ at = "label" /\ Called(c)
    /\ cleo' = IF c.done THEN [cleo EXCEPT ![known].labelled = TRUE] ELSE cleo
    /\ at' = "note"
    /\ UNCHANGED <<runs, run, known, todo, lessons, last, cause>>

\* The note at the parent names the run.
Note(c) ==
    /\ at = "note" /\ Called(c)
    /\ cleo' = IF c.done THEN [cleo EXCEPT ![Task].noted = @ \cup {run}] ELSE cleo
    /\ at' = "reflect"
    /\ UNCHANGED <<runs, run, known, todo, lessons, last, cause>>

\* A reflection looks for the state of the run below the root of its script,
\* and Leads save theirs in the clone; without it there is no lesson.
Reflect(r, root) ==
    IF root = "clone" /\ runs[r].saved # "no"
      THEN lessons' = [lessons EXCEPT ![r] =
                         IF runs[r].saved = "full" THEN "succeeded" ELSE "failed"]
      ELSE UNCHANGED lessons

\* The script is that of the worktree, if it is there, else that of tac-master's
\* home; nothing is started where the run left no worktree.
StartReflection ==
    /\ at = "reflect"
    /\ \/ \E root \in {"home", "worktree"} : Reflect(run, root)
       \/ runs[run].saved # "full" /\ UNCHANGED lessons
    /\ at' = "next" /\ run' = NoRun /\ known' = 0
    /\ UNCHANGED <<runs, cleo, todo, faults, history>>

\* The daemon dies and starts again; what it had not done is not taken up.
\* Its unit kills the Leads with it, a daemon run by hand does not.
Crash ==
    /\ faults < MaxFaults /\ faults' = faults + 1
    /\ at' = "idle" /\ todo' = {} /\ run' = NoRun /\ known' = 0
    /\ lost' = IF at \in {"idle", "next"} THEN lost ELSE lost \cup {run}
    /\ \/ UNCHANGED runs
       \/ \E saved \in [Runs -> Saved] :
            runs' = [r \in Runs |-> IF runs[r].alive
                                      THEN [runs[r] EXCEPT !.alive = FALSE, !.saved = saved[r]]
                                      ELSE runs[r]]
    /\ UNCHANGED <<cleo, lessons, last, cause>>

\* Someone starts a reflection from the clone (bound: one for each run, when
\* all runs have ended; nothing but a look-up depends on it).
ReflectByHand(r) ==
    /\ at = "idle" /\ \A q \in Runs : runs[q].status \notin {"new", "running"}
    /\ lessons[r] = "none"
    /\ Reflect(r, "clone")
    /\ UNCHANGED <<runs, cleo, epilogue, faults, history>>

----------------------------------------------------------------------------
Next ==
    \/ StartReap \/ EndReap \/ StartReflection \/ Crash
    \/ \E r \in Runs : \/ \E t \in 0 .. MaxTasks, p \in Repos : Dispatch(r, t, p)
                       \/ \E s \in Saved : LeadEnds(r, s) \/ PassOver(r, s)
                       \/ Close(r) \/ ReflectByHand(r)
    \/ \E c \in Calls : \/ Callback(c) \/ LookUp(c) \/ Label(c) \/ Note(c)
                        \/ \E t \in Tasks, readable \in BOOLEAN : Add(c, t, readable)

Spec == Init /\ [][Next]_vars

\* Runs have no order and repositories neither: TLC may take one for another.
Interchangeable == Permutations(Runs) \cup Permutations(Repos)

----------------------------------------------------------------------------
RunRows == [repo : Repos, task : 0 .. MaxTasks,
            status : {"new", "running", "succeeded", "incomplete", "failed"},
            saved : Saved, alive : BOOLEAN]
TaskRows == [title : {"none", "plain", "Fix", "Resume"},
             status : {"open", "done", "failed", "blocked"},
             parent : 0 .. MaxTasks, labelled : BOOLEAN, noted : SUBSET Runs]

\* The state is of the declared shape; in particular CLEO hears only statuses
\* of its own (dispatcher.py:941, 961).
TypeOK ==
    /\ runs \in [Runs -> RunRows] /\ cleo \in [Tasks -> TaskRows]
    /\ at \in {"idle", "next", "callback", "parent", "add", "label", "note", "reflect"}
    /\ run \in Runs \cup {NoRun} /\ known \in 0 .. MaxTasks /\ todo \subseteq Runs
    /\ lessons \in [Runs -> {"none", "succeeded", "failed"}]
    /\ faults \in 0 .. MaxFaults /\ lost \subseteq Runs
    /\ last \in [Tasks -> Runs \cup {NoRun}] /\ cause \in [Tasks -> Runs \cup {NoRun}]

Followups == {t \in Filed : cleo[t].parent # 0}

\* Follow-ups never breed: each hangs below a task that is none, and no run
\* ever causes two, whatever fails or crashes, so that there are no more of
\* them than runs that went wrong (dispatcher.py:616, the loop guard, and 858,
\* the run closed before the epilogue).
FollowupsEnd ==
    \A t \in Followups :
        /\ cleo[t].parent \notin Followups
        /\ runs[cause[t]].status \in {"failed", "incomplete"}
        /\ \A u \in Followups : cause[u] = cause[t] => u = t

\* Once its epilogue is over, a task stands as the run of it that was reaped
\* last left it, unless a call failed or the daemon died in that epilogue: an
\* older run of the task, reaped before, never has the last word
\* (dispatcher.py:873).
TaskTellsLastRun ==
    \A t \in Tasks :
        (last[t] \notin lost \cup {NoRun} /\ ~(at = "callback" /\ Task = t)) =>
            cleo[t].status = (CASE runs[last[t]].status = "succeeded"  -> "done"
                                [] runs[last[t]].status = "incomplete" -> "blocked"
                                [] OTHER                               -> "failed")

\* A follow-up can be traced from its parent, even when its id could not be
\* read, unless a call failed or the daemon died (dispatcher.py:693).
FollowupTraceable ==
    \A t \in Followups :
        \/ cause[t] \in lost \cup cleo[cleo[t].parent].noted
        \/ at \in {"label", "note"} /\ run = cause[t]

\* A look-up misses no lesson it has room for, whatever matches and in whatever
\* order of rank: it gives the matches that have less than K others before
\* them, where those of the repository come first (knowledge.py:171).
RelevantIsBest ==
    \A p \in Repos, M \in SUBSET {r \in Runs : lessons[r] # "none"} :
        \A rank \in Injection(M, 1 .. Cardinality(M)) :
            LET Before(q, r) == IF runs[q].repo = p
                                  THEN runs[r].repo = p => rank[q] < rank[r]
                                  ELSE runs[r].repo # p /\ rank[q] < rank[r]
            IN  FetchRelevant(rank, p) =
                    {r \in M : Cardinality({q \in M : Before(q, r)}) < MaxLessons}
============================================================================
