---------------------------- MODULE Dispatcher ----------------------------
(* The tac-master dispatcher: poll GitHub, admit an issue against the       *)
(* budgets, launch a Lead process for it, and reap the Lead when it ends    *)
(* (orchestrator/dispatcher.py, with the statements of state_store.py,      *)
(* budget.py, runner.py and ops.py that it runs).                           *)
(*                                                                          *)
(* One action is one store transaction, one system call or one call to      *)
(* GitHub: the grain at which several dispatcher processes (the daemon and  *)
(* overlapping `--once' runs), the Leads, the operators' `retry' and a      *)
(* crash can interleave.                                                    *)
EXTENDS Naturals, FiniteSets

CONSTANTS
    Daemons,            \* dispatcher processes on one database
    Repos, Issues,      \* allowlisted repositories and their GitHub issues
    RepoOf,             \* the repository of an issue
    Triggers,           \* repo -> SUBSET {"new_issue", "label", "comment_adw"}
    BadRuntime,         \* repositories whose `runtime' make_runner refuses
    Runs,               \* ADW ids (rows of the runs table, and their Leads)
    Operators,          \* people or dashboards calling ops.retry_issue
    MaxConcurrent, RepoMaxConcurrent,   \* max_concurrent_runs, global and repo
    MaxRunsPerDay, RepoMaxRunsPerDay,   \* max_runs_per_day, global and repo
    MaxDay, MaxAdw, MaxRetries, MaxFaults,   \* bounds of the model
    NoDaemon, NoIssue, NoRun

ASSUME ActorsAssumption ==
    /\ IsFiniteSet(Daemons) /\ Daemons # {} /\ NoDaemon \notin Daemons
    /\ NoIssue \notin Issues
    /\ IsFiniteSet(Runs) /\ NoRun \notin Runs
ASSUME ConfigAssumption ==
    /\ RepoOf \in [Issues -> Repos]
    /\ Triggers \in [Repos -> SUBSET {"new_issue", "label", "comment_adw"}]
    /\ BadRuntime \subseteq Repos
ASSUME BudgetAssumption ==
    /\ MaxConcurrent \in Nat \ {0} /\ RepoMaxConcurrent \in Nat \ {0}
    /\ MaxRunsPerDay \in Nat \ {0} /\ RepoMaxRunsPerDay \in Nat \ {0}
ASSUME BoundAssumption ==
    MaxDay \in Nat \ {0} /\ MaxAdw \in Nat /\ MaxRetries \in Nat /\ MaxFaults \in Nat

VARIABLES
    pc,          \* where each daemon is in its poll/reap cycle
    reposLeft,   \* repositories still to poll in this cycle
    todo,        \* listed issues of the repository being polled
    here,        \* the issue being judged or dispatched
    reason,      \* why it qualifies: "none", "auto" (new issue, label), "adw"
    mine,        \* the run being dispatched or reaped
    left,        \* runs listed by this reap and not yet looked at
    verdict      \* final status inferred for the run being reaped
VARIABLES
    issueStatus, \* issues.status; "absent" is no row
    runStatus,   \* runs.status; "none" is no row
    runIssue,    \* runs.issue_number
    hasPid,      \* runs.pid IS NOT NULL
    counted,     \* the day whose runs_count includes the run, 0 before that
    day          \* the date used by budget_usage
VARIABLES
    proc,        \* the Lead's process: "none", "live", "zombie", "gone"
    parent,      \* the daemon it is a child of, or NoDaemon (init)
    lead,        \* how far its adw_state.json has got, "none" if unreadable
    aged         \* more than _RUN_HANG_TIMEOUT_SECONDS since started_at
VARIABLES
    lastComment, \* the last comment of an issue: "none", "adw", "other"
    asked,       \* how many times users commented "adw" on it
    asks,        \* the issue an operator's retry has checked, not yet written
    retried,     \* how many retries of the issue were accepted
    faults,      \* crashes and failed transactions so far
    overridden   \* history: how often the status `dispatched' of an issue did
                 \* not hold back a further Lead of it (no guard reads this)

jobVars   == <<here, reason, mine, verdict>>
cycleVars == <<reposLeft, todo, left>>
budgetVars == <<counted, day>>
leadVars  == <<proc, parent, lead, aged>>
peopleVars == <<lastComment, asked, asks, retried, faults, overridden>>
vars == <<pc, jobVars, cycleVars, issueStatus, runStatus, runIssue, hasPid,
          budgetVars, leadVars, peopleVars>>

---------------------------------------------------------------------------
ActiveStatuses == {"pending", "running"}
FinalStatuses  == {"succeeded", "failed", "incomplete"}
TerminalIssueStatuses == {"dispatched", "completed", "failed"}
\* Mutant: a retry of completed issues is let through.
RetryableStatusesWide == {"failed", "completed"}
RetryableStatuses == {"failed"}

Active == {r \in Runs : runStatus[r] \in ActiveStatuses}
ActiveOf(repo) == {r \in Active : RepoOf[runIssue[r]] = repo}
UsedToday == {r \in Runs : counted[r] = day}
UsedTodayBy(repo) == {r \in UsedToday : RepoOf[runIssue[r]] = repo}
LiveLeads == {r \in Runs : proc[r] = "live"}

\* A row of the listing of open issues, as the poll sees it.
Snapshot == [issue : Issues, fresh : BOOLEAN, labelled : BOOLEAN]

\* The status _infer_final_status reads off adw_state.json: the file has
\* plan_file and all_adws from the end of the plan phase on.
Inferred(r) == CASE lead[r] = "none"    -> "failed"
                 [] lead[r] = "started" -> "incomplete"
                 [] OTHER               -> "succeeded"

\* subprocess.Popen first collects the exited children of its process.
Collected(d) ==
    [r \in Runs |-> IF proc[r] = "zombie" /\ parent[r] = d THEN "gone" ELSE proc[r]]

Go(d, label) == pc' = [pc EXCEPT ![d] = label]

\* Leave the issue or run in hand and go on at label.
Drop(d, label) ==
    /\ Go(d, label)
    /\ here' = [here EXCEPT ![d] = NoIssue]
    /\ reason' = [reason EXCEPT ![d] = "none"]
    /\ mine' = [mine EXCEPT ![d] = NoRun]
    /\ verdict' = [verdict EXCEPT ![d] = "none"]

\* An exception out of _poll_repo: poll_once logs it and takes the next repo.
AbandonRepo(d) ==
    /\ Drop(d, "scan")
    /\ todo' = [todo EXCEPT ![d] = {}]
    /\ UNCHANGED <<reposLeft, left>>

Init ==
    /\ pc = [d \in Daemons |-> "idle"]
    /\ reposLeft = [d \in Daemons |-> {}]
    /\ todo = [d \in Daemons |-> {}]
    /\ here = [d \in Daemons |-> NoIssue]
    /\ reason = [d \in Daemons |-> "none"]
    /\ mine = [d \in Daemons |-> NoRun]
    /\ left = [d \in Daemons |-> {}]
    /\ verdict = [d \in Daemons |-> "none"]
    /\ issueStatus = [i \in Issues |-> "absent"]
    /\ runStatus = [r \in Runs |-> "none"]
    /\ runIssue = [r \in Runs |-> NoIssue]
    /\ hasPid = [r \in Runs |-> FALSE]
    /\ counted = [r \in Runs |-> 0]
    /\ day = 1
    /\ proc = [r \in Runs |-> "none"]
    /\ parent = [r \in Runs |-> NoDaemon]
    /\ lead = [r \in Runs |-> "none"]
    /\ aged = [r \in Runs |-> FALSE]
    /\ lastComment = [i \in Issues |-> "none"]
    /\ asked = [i \in Issues |-> 0]
    /\ asks = [o \in Operators |-> NoIssue]
    /\ retried = [i \in Issues |-> 0]
    /\ faults = 0
    /\ overridden = [i \in Issues |-> 0]

---------------------------------------------------------------------------
(* Polling: poll_once, _poll_repo, _should_dispatch.                        *)

PollStart(d) ==
    /\ pc[d] = "idle"
    /\ Go(d, "scan")
    /\ reposLeft' = [reposLeft EXCEPT ![d] = Repos]
    /\ UNCHANGED <<jobVars, todo, left, issueStatus, runStatus, runIssue, hasPid,
                   budgetVars, leadVars, peopleVars>>

\* One listing of a repository's open issues. Which issues are open and
\* labelled is up to their users; a failed listing is an empty one.
ListIssues(d) ==
    /\ pc[d] = "scan" /\ todo[d] = {}
    /\ \E repo \in reposLeft[d] :
         \E open \in SUBSET {i \in Issues : RepoOf[i] = repo} :
           \E labelled \in SUBSET (IF "label" \in Triggers[repo] THEN open ELSE {}) :
             /\ todo' = [todo EXCEPT ![d] =
                           {[issue |-> i, fresh |-> lastComment[i] = "none",
                             labelled |-> i \in labelled] : i \in open}]
             /\ reposLeft' = [reposLeft EXCEPT ![d] = @ \ {repo}]
    /\ UNCHANGED <<pc, jobVars, left, issueStatus, runStatus, runIssue, hasPid,
                   budgetVars, leadVars, peopleVars>>

\* Why the issue of a listing row qualifies. The comment count and the labels
\* are those of the listing; the comments themselves are fetched now, and a
\* failed fetch shows none.
ReasonFor(s, fetched) ==
    LET on == Triggers[RepoOf[s.issue]]
    IN  IF /\ "comment_adw" \in on /\ ~s.fresh
           /\ fetched /\ lastComment[s.issue] = "adw" THEN "adw"
        ELSE IF ("new_issue" \in on /\ s.fresh) \/ ("label" \in on /\ s.labelled) THEN "auto"
        ELSE "none"

JudgeIssue(d) ==
    /\ pc[d] = "scan"
    /\ \E s \in todo[d], fetched \in BOOLEAN :
         /\ here' = [here EXCEPT ![d] = s.issue]
         /\ reason' = [reason EXCEPT ![d] = ReasonFor(s, fetched)]
         /\ todo' = [todo EXCEPT ![d] = @ \ {s}]
    /\ Go(d, "seen")
    /\ UNCHANGED <<mine, verdict, reposLeft, left, issueStatus, runStatus, runIssue,
                   hasPid, budgetVars, leadVars, peopleVars>>

\* Mutant: issues that were dispatched or closed are not held back.
SeenIssueUnguarded(d) ==
    /\ pc[d] = "seen" /\ issueStatus[here[d]] # "absent"
    /\ IF reason[d] = "none" THEN Drop(d, "scan")
       ELSE Go(d, "global_cap") /\ UNCHANGED jobVars
    /\ UNCHANGED <<cycleVars, issueStatus, runStatus, runIssue, hasPid,
                   budgetVars, leadVars, peopleVars>>

\* seen_issue on an existing row, and the rest of _should_dispatch.
SeenIssue(d) ==
    /\ pc[d] = "seen" /\ issueStatus[here[d]] # "absent"
    /\ IF \/ reason[d] = "none"
          \/ (issueStatus[here[d]] \in TerminalIssueStatuses /\ reason[d] # "adw")
       THEN Drop(d, "scan")
       ELSE Go(d, "global_cap") /\ UNCHANGED jobVars
    /\ UNCHANGED <<cycleVars, issueStatus, runStatus, runIssue, hasPid,
                   budgetVars, leadVars, peopleVars>>

SeenNoIssue(d) ==
    /\ pc[d] = "seen" /\ issueStatus[here[d]] = "absent"
    /\ Go(d, "insert")
    /\ UNCHANGED <<jobVars, cycleVars, issueStatus, runStatus, runIssue, hasPid,
                   budgetVars, leadVars, peopleVars>>

\* The INSERT of seen_issue; the primary key refuses a row that another
\* process has inserted since the SELECT.
InsertIssue(d) ==
    /\ pc[d] = "insert"
    /\ IF issueStatus[here[d]] = "absent"
       THEN /\ issueStatus' = [issueStatus EXCEPT ![here[d]] = "seen"]
            /\ IF reason[d] = "none" THEN Drop(d, "scan")
               ELSE Go(d, "global_cap") /\ UNCHANGED jobVars
            /\ UNCHANGED cycleVars
       ELSE AbandonRepo(d) /\ UNCHANGED issueStatus
    /\ UNCHANGED <<runStatus, runIssue, hasPid, budgetVars, leadVars, peopleVars>>

---------------------------------------------------------------------------
(* Admission: the four reads of BudgetEnforcer.can_dispatch, each its own   *)
(* transaction. The daily token caps are refusals that may come at any time.*)

Admit(d, allowed, next) ==
    /\ IF allowed THEN Go(d, next) /\ UNCHANGED jobVars ELSE Drop(d, "scan")
    /\ UNCHANGED <<cycleVars, issueStatus, runStatus, runIssue, hasPid,
                   budgetVars, leadVars, peopleVars>>

\* Mutant: one run too many.
CheckGlobalCapOffByOne(d) ==
    /\ pc[d] = "global_cap"
    /\ Admit(d, Cardinality(Active) <= MaxConcurrent, "repo_cap")

CheckGlobalCap(d) ==
    /\ pc[d] = "global_cap"
    /\ Admit(d, Cardinality(Active) < MaxConcurrent, "repo_cap")

CheckRepoCap(d) ==
    /\ pc[d] = "repo_cap"
    /\ Admit(d, Cardinality(ActiveOf(RepoOf[here[d]])) < RepoMaxConcurrent, "global_day")

\* Mutant: the global usage is read after the tokens only.
CheckGlobalDayTokensOnly(d) ==
    /\ pc[d] = "global_day"
    /\ \E tokensLeft \in BOOLEAN : Admit(d, tokensLeft, "repo_day")

CheckGlobalDay(d) ==
    /\ pc[d] = "global_day"
    /\ \E tokensLeft \in BOOLEAN :
         Admit(d, tokensLeft /\ Cardinality(UsedToday) < MaxRunsPerDay, "repo_day")

CheckRepoDay(d) ==
    /\ pc[d] = "repo_day"
    /\ \E tokensLeft \in BOOLEAN :
         Admit(d, /\ tokensLeft
                  /\ Cardinality(UsedTodayBy(RepoOf[here[d]])) < RepoMaxRunsPerDay, "sync")

---------------------------------------------------------------------------
(* Dispatch: the rest of _dispatch, up to the Lead and its pid.             *)

\* ensure_clone and sync: git runs as a child process and may fail.
SyncClone(d) ==
    /\ pc[d] = "sync"
    /\ \/ /\ Go(d, "create")
          /\ UNCHANGED <<jobVars, cycleVars>>
       \/ AbandonRepo(d)
    /\ proc' = Collected(d)
    /\ UNCHANGED <<issueStatus, runStatus, runIssue, hasPid, budgetVars,
                   parent, lead, aged, peopleVars>>

CreateRun(d) ==
    /\ pc[d] = "create"
    /\ \E r \in Runs :
         /\ runStatus[r] = "none"
         /\ runStatus' = [runStatus EXCEPT ![r] = "pending"]
         /\ runIssue' = [runIssue EXCEPT ![r] = here[d]]
         /\ mine' = [mine EXCEPT ![d] = r]
    /\ Go(d, "start")
    /\ UNCHANGED <<here, reason, verdict, cycleVars, issueStatus, hasPid,
                   budgetVars, leadVars, peopleVars>>

StartRun(d) ==
    /\ pc[d] = "start"
    /\ runStatus' = [runStatus EXCEPT ![mine[d]] = "running"]
    /\ Go(d, "count")
    /\ UNCHANGED <<jobVars, cycleVars, issueStatus, runIssue, hasPid,
                   budgetVars, leadVars, peopleVars>>

RecordDispatch(d) ==
    /\ pc[d] = "count"
    /\ counted' = [counted EXCEPT ![mine[d]] = day]
    /\ Go(d, "spawn")
    /\ UNCHANGED <<jobVars, cycleVars, issueStatus, runStatus, runIssue, hasPid,
                   day, leadVars, peopleVars>>

\* make_runner raises outside the try that guards spawn.
RefuseRuntime(d) ==
    /\ pc[d] = "spawn" /\ RepoOf[here[d]] \in BadRuntime
    /\ AbandonRepo(d)
    /\ UNCHANGED <<issueStatus, runStatus, runIssue, hasPid, budgetVars,
                   leadVars, peopleVars>>

Spawn(d) ==
    /\ pc[d] = "spawn" /\ RepoOf[here[d]] \notin BadRuntime
    /\ proc' = [Collected(d) EXCEPT ![mine[d]] = "live"]
    /\ parent' = [parent EXCEPT ![mine[d]] = d]
    /\ Go(d, "pid")
    /\ overridden' = [overridden EXCEPT ![here[d]] =
                         IF issueStatus[here[d]] = "dispatched" /\ reason[d] = "adw"
                         THEN @ + 1 ELSE @]
    /\ UNCHANGED <<jobVars, cycleVars, issueStatus, runStatus, runIssue, hasPid,
                   budgetVars, lead, aged, lastComment, asked, asks, retried, faults>>

\* The runner raises (script missing, fork fails), and the handler's update.
SpawnFails(d) ==
    /\ pc[d] = "spawn" /\ RepoOf[here[d]] \notin BadRuntime
    /\ Go(d, "spawn_failed")
    /\ UNCHANGED <<jobVars, cycleVars, issueStatus, runStatus, runIssue, hasPid,
                   budgetVars, leadVars, peopleVars>>

\* Mutant: the handler forgets the row.
FailSpawnSilently(d) ==
    /\ pc[d] = "spawn_failed"
    /\ Drop(d, "scan")
    /\ UNCHANGED <<cycleVars, issueStatus, runStatus, runIssue, hasPid, budgetVars,
                   leadVars, peopleVars>>

FailSpawn(d) ==
    /\ pc[d] = "spawn_failed"
    /\ runStatus' = [runStatus EXCEPT ![mine[d]] = "failed"]
    /\ Drop(d, "scan")
    /\ UNCHANGED <<cycleVars, issueStatus, runIssue, hasPid, budgetVars,
                   leadVars, peopleVars>>

WritePid(d) ==
    /\ pc[d] = "pid"
    /\ hasPid' = [hasPid EXCEPT ![mine[d]] = TRUE]
    /\ Go(d, "mark")
    /\ UNCHANGED <<jobVars, cycleVars, issueStatus, runStatus, runIssue,
                   budgetVars, leadVars, peopleVars>>

\* Mutant: the issue keeps its status.
MarkDispatchedNot(d) ==
    /\ pc[d] = "mark"
    /\ Drop(d, "scan")
    /\ UNCHANGED <<cycleVars, issueStatus, runStatus, runIssue, hasPid, budgetVars,
                   leadVars, peopleVars>>

MarkDispatched(d) ==
    /\ pc[d] = "mark"
    /\ issueStatus' = [issueStatus EXCEPT ![here[d]] = "dispatched"]
    /\ Drop(d, "scan")
    /\ UNCHANGED <<cycleVars, runStatus, runIssue, hasPid, budgetVars, leadVars,
                   peopleVars>>

---------------------------------------------------------------------------
(* Reaping: reap_finished_runs.                                             *)

\* The rows are read once, with the pids they have now; a row without a pid
\* is skipped.
ListActiveRuns(d) ==
    /\ pc[d] = "scan" /\ todo[d] = {} /\ reposLeft[d] = {}
    /\ left' = [left EXCEPT ![d] = {r \in Active : hasPid[r]}]
    /\ Go(d, "reap")
    /\ UNCHANGED <<jobVars, reposLeft, todo, issueStatus, runStatus, runIssue, hasPid,
                   budgetVars, leadVars, peopleVars>>

\* kill(pid, 0) finds no process, or waitpid collects this daemon's zombie.
ReapExited(d) ==
    /\ pc[d] = "reap"
    /\ \E r \in left[d] :
         /\ proc[r] = "gone" \/ (proc[r] = "zombie" /\ parent[r] = d)
         /\ proc' = [proc EXCEPT ![r] = "gone"]
         /\ left' = [left EXCEPT ![d] = @ \ {r}]
         /\ mine' = [mine EXCEPT ![d] = r]
         /\ verdict' = [verdict EXCEPT ![d] = Inferred(r)]
    /\ Go(d, "close_run")
    /\ UNCHANGED <<here, reason, reposLeft, todo, issueStatus, runStatus, runIssue,
                   hasPid, budgetVars, parent, lead, aged, peopleVars>>

\* The pid answers: a running Lead, or a zombie of another parent.
Answers(d, r) == proc[r] = "live" \/ (proc[r] = "zombie" /\ parent[r] # d)

\* Mutant: the age of a running Lead is not looked at.
SkipRunningAtAnyAge(d) ==
    /\ pc[d] = "reap"
    /\ \E r \in left[d] :
         /\ Answers(d, r)
         /\ left' = [left EXCEPT ![d] = @ \ {r}]
    /\ UNCHANGED <<pc, jobVars, reposLeft, todo, issueStatus, runStatus, runIssue,
                   hasPid, budgetVars, leadVars, peopleVars>>

SkipRunning(d) ==
    /\ pc[d] = "reap"
    /\ \E r \in left[d] :
         /\ Answers(d, r) /\ ~aged[r]
         /\ left' = [left EXCEPT ![d] = @ \ {r}]
    /\ UNCHANGED <<pc, jobVars, reposLeft, todo, issueStatus, runStatus, runIssue,
                   hasPid, budgetVars, leadVars, peopleVars>>

\* Mutant: a hung run is failed but its process group is not killed.
KillHungSparing(d) ==
    /\ pc[d] = "reap"
    /\ \E r \in left[d] :
         /\ Answers(d, r) /\ aged[r]
         /\ left' = [left EXCEPT ![d] = @ \ {r}]
         /\ mine' = [mine EXCEPT ![d] = r]
         /\ verdict' = [verdict EXCEPT ![d] = "failed"]
    /\ Go(d, "close_run")
    /\ UNCHANGED <<here, reason, reposLeft, todo, issueStatus, runStatus, runIssue,
                   hasPid, budgetVars, leadVars, peopleVars>>

\* What a signal leaves of a Lead's state file: what it was, or no JSON to read
\* when it strikes while save() rewrites the file.
Interrupted(r) ==
    \/ UNCHANGED lead
    \/ /\ proc[r] = "live" /\ lead[r] # "done"
       /\ lead' = [lead EXCEPT ![r] = "none"]

\* Mutant: a Lead is taken for hung at any age.
KillHungAtAnyAge(d) ==
    /\ pc[d] = "reap"
    /\ \E r \in left[d] :
         /\ Answers(d, r) /\ Interrupted(r)
         /\ proc' = [proc EXCEPT ![r] = IF parent[r] = NoDaemon THEN "gone" ELSE "zombie"]
         /\ left' = [left EXCEPT ![d] = @ \ {r}]
         /\ mine' = [mine EXCEPT ![d] = r]
         /\ verdict' = [verdict EXCEPT ![d] = "failed"]
    /\ Go(d, "close_run")
    /\ UNCHANGED <<here, reason, reposLeft, todo, issueStatus, runStatus, runIssue,
                   hasPid, budgetVars, parent, aged, peopleVars>>

\* Hang detection, and the SIGKILL of _kill_run_tree on the whole session.
KillHung(d) ==
    /\ pc[d] = "reap"
    /\ \E r \in left[d] :
         /\ Answers(d, r) /\ aged[r] /\ Interrupted(r)
         /\ proc' = [proc EXCEPT ![r] = IF parent[r] = NoDaemon THEN "gone" ELSE "zombie"]
         /\ left' = [left EXCEPT ![d] = @ \ {r}]
         /\ mine' = [mine EXCEPT ![d] = r]
         /\ verdict' = [verdict EXCEPT ![d] = "failed"]
    /\ Go(d, "close_run")
    /\ UNCHANGED <<here, reason, reposLeft, todo, issueStatus, runStatus, runIssue,
                   hasPid, budgetVars, parent, aged, peopleVars>>

CloseRun(d) ==
    /\ pc[d] = "close_run"
    /\ runStatus' = [runStatus EXCEPT ![mine[d]] = verdict[d]]
    /\ Go(d, "close_issue")
    /\ UNCHANGED <<jobVars, cycleVars, issueStatus, runIssue, hasPid, budgetVars,
                   leadVars, peopleVars>>

\* Mutants: the run's status is written as the issue's; an issue whose run
\* did not succeed is not updated; an incomplete run completes its issue.
CloseIssueRaw(d) ==
    /\ pc[d] = "close_issue"
    /\ issueStatus' = [issueStatus EXCEPT ![runIssue[mine[d]]] = verdict[d]]
    /\ Drop(d, "reap")
    /\ UNCHANGED <<cycleVars, runStatus, runIssue, hasPid, budgetVars, leadVars,
                   peopleVars>>
CloseIssueOnSuccess(d) ==
    /\ pc[d] = "close_issue"
    /\ issueStatus' = [issueStatus EXCEPT ![runIssue[mine[d]]] =
                         IF verdict[d] = "succeeded" THEN "completed" ELSE @]
    /\ Drop(d, "reap")
    /\ UNCHANGED <<cycleVars, runStatus, runIssue, hasPid, budgetVars, leadVars,
                   peopleVars>>
CloseIssueLenient(d) ==
    /\ pc[d] = "close_issue"
    /\ issueStatus' = [issueStatus EXCEPT ![runIssue[mine[d]]] =
                         IF verdict[d] = "failed" THEN "failed" ELSE "completed"]
    /\ Drop(d, "reap")
    /\ UNCHANGED <<cycleVars, runStatus, runIssue, hasPid, budgetVars, leadVars,
                   peopleVars>>

CloseIssue(d) ==
    /\ pc[d] = "close_issue"
    /\ issueStatus' = [issueStatus EXCEPT ![runIssue[mine[d]]] =
                         IF verdict[d] = "succeeded" THEN "completed" ELSE "failed"]
    /\ Drop(d, "reap")
    /\ UNCHANGED <<cycleVars, runStatus, runIssue, hasPid, budgetVars, leadVars,
                   peopleVars>>

EndCycle(d) ==
    /\ pc[d] = "reap" /\ left[d] = {}
    /\ Go(d, "idle")
    /\ UNCHANGED <<jobVars, cycleVars, issueStatus, runStatus, runIssue, hasPid,
                   budgetVars, leadVars, peopleVars>>

Cycle(d) ==
    \/ PollStart(d) \/ ListIssues(d) \/ JudgeIssue(d)
    \/ SeenIssue(d) \/ SeenNoIssue(d) \/ InsertIssue(d)
    \/ CheckGlobalCap(d) \/ CheckRepoCap(d) \/ CheckGlobalDay(d) \/ CheckRepoDay(d)
    \/ SyncClone(d) \/ CreateRun(d) \/ StartRun(d) \/ RecordDispatch(d)
    \/ RefuseRuntime(d) \/ Spawn(d) \/ SpawnFails(d) \/ FailSpawn(d)
    \/ WritePid(d) \/ MarkDispatched(d)
    \/ ListActiveRuns(d) \/ ReapExited(d) \/ SkipRunning(d) \/ KillHung(d)
    \/ CloseRun(d) \/ CloseIssue(d) \/ EndCycle(d)

---------------------------------------------------------------------------
(* The Leads, the users, the operators, and the machine.                    *)

\* A Lead saves adw_state.json when it starts (adw_id only), at the end of
\* the plan phase (plan_file, all_adws) and when it is done.
LeadSaves(r) ==
    /\ proc[r] = "live" /\ lead[r] # "done"
    /\ lead' = [lead EXCEPT ![r] = CASE @ = "none"    -> "started"
                                     [] @ = "started" -> "planned"
                                     [] @ = "planned" -> "done"]
    /\ UNCHANGED <<pc, jobVars, cycleVars, issueStatus, runStatus, runIssue, hasPid,
                   budgetVars, proc, parent, aged, peopleVars>>

\* Every phase posts its progress as a comment on the issue.
LeadComments(r) ==
    /\ proc[r] = "live" /\ lead[r] # "none"
    /\ lastComment[runIssue[r]] # "other"
    /\ lastComment' = [lastComment EXCEPT ![runIssue[r]] = "other"]
    /\ UNCHANGED <<pc, jobVars, cycleVars, issueStatus, runStatus, runIssue, hasPid,
                   budgetVars, leadVars, asked, asks, retried, faults, overridden>>

\* The Lead finishes, fails or is killed, at any point of its work.
LeadExits(r) ==
    /\ proc[r] = "live"
    /\ Interrupted(r)
    /\ proc' = [proc EXCEPT ![r] = IF parent[r] = NoDaemon THEN "gone" ELSE "zombie"]
    /\ UNCHANGED <<pc, jobVars, cycleVars, issueStatus, runStatus, runIssue, hasPid,
                   budgetVars, parent, aged, peopleVars>>

\* An hour passes since the run's started_at.
Ages(r) ==
    /\ r \in Active /\ ~aged[r]
    /\ aged' = [aged EXCEPT ![r] = TRUE]
    /\ UNCHANGED <<pc, jobVars, cycleVars, issueStatus, runStatus, runIssue, hasPid,
                   budgetVars, proc, parent, lead, peopleVars>>

UserAsks(i) ==
    /\ asked[i] < MaxAdw
    /\ asked' = [asked EXCEPT ![i] = @ + 1]
    /\ lastComment' = [lastComment EXCEPT ![i] = "adw"]
    /\ UNCHANGED <<pc, jobVars, cycleVars, issueStatus, runStatus, runIssue, hasPid,
                   budgetVars, leadVars, asks, retried, faults, overridden>>

UserComments(i) ==
    /\ lastComment[i] # "other"
    /\ lastComment' = [lastComment EXCEPT ![i] = "other"]
    /\ UNCHANGED <<pc, jobVars, cycleVars, issueStatus, runStatus, runIssue, hasPid,
                   budgetVars, leadVars, asked, asks, retried, faults, overridden>>

\* ops._do_retry: the SELECT and its guards, then the UPDATE, which does not
\* look at the status again.
RetryCheck(o, i) ==
    /\ asks[o] = NoIssue
    /\ issueStatus[i] \in RetryableStatuses
    /\ retried[i] + Cardinality({p \in Operators : asks[p] = i}) < MaxRetries
    /\ asks' = [asks EXCEPT ![o] = i]
    /\ UNCHANGED <<pc, jobVars, cycleVars, issueStatus, runStatus, runIssue, hasPid,
                   budgetVars, leadVars, lastComment, asked, retried, faults,
                   overridden>>

RetryWrite(o) ==
    /\ asks[o] # NoIssue
    /\ issueStatus' = [issueStatus EXCEPT ![asks[o]] = "seen"]
    /\ retried' = [retried EXCEPT ![asks[o]] = @ + 1]
    /\ asks' = [asks EXCEPT ![o] = NoIssue]
    /\ overridden' = [overridden EXCEPT ![asks[o]] =
                         IF issueStatus[asks[o]] = "dispatched" THEN @ + 1 ELSE @]
    /\ UNCHANGED <<pc, jobVars, cycleVars, runStatus, runIssue, hasPid,
                   budgetVars, leadVars, lastComment, asked, faults>>

NewDay ==
    /\ day < MaxDay
    /\ day' = day + 1
    /\ UNCHANGED <<pc, jobVars, cycleVars, issueStatus, runStatus, runIssue, hasPid,
                   counted, leadVars, peopleVars>>

\* The daemon dies and is started again with nothing in memory. systemd's
\* KillMode=mixed kills its Leads too; a daemon run in a shell or by cron
\* leaves them to init, which also collects its zombies. (A Lead it kills in
\* the middle of a save is one that LeadExits has just before.)
Crash(d) ==
    /\ faults < MaxFaults
    /\ faults' = faults + 1
    /\ Drop(d, "idle")
    /\ reposLeft' = [reposLeft EXCEPT ![d] = {}]
    /\ todo' = [todo EXCEPT ![d] = {}]
    /\ left' = [left EXCEPT ![d] = {}]
    /\ \E unitKills \in BOOLEAN :
         proc' = [r \in Runs |->
                    IF parent[r] = d /\ (proc[r] = "zombie" \/ (unitKills /\ proc[r] = "live"))
                    THEN "gone" ELSE proc[r]]
    /\ parent' = [r \in Runs |-> IF parent[r] = d THEN NoDaemon ELSE parent[r]]
    /\ UNCHANGED <<issueStatus, runStatus, runIssue, hasPid, budgetVars, lead, aged,
                   lastComment, asked, asks, retried, overridden>>

\* A store transaction raises (SQLite: "database is locked"). In a poll the
\* exception ends the repository's turn, or the whole cycle when recording it
\* raises too; in a reap it ends the cycle.
StoreFails(d) ==
    /\ faults < MaxFaults
    /\ faults' = faults + 1
    /\ pc[d] \notin {"idle", "scan", "sync", "spawn"}
    /\ \/ pc[d] \notin {"reap", "close_run", "close_issue"} /\ AbandonRepo(d)
       \/ /\ Drop(d, "idle")
          /\ reposLeft' = [reposLeft EXCEPT ![d] = {}]
          /\ todo' = [todo EXCEPT ![d] = {}]
          /\ left' = [left EXCEPT ![d] = {}]
    /\ UNCHANGED <<issueStatus, runStatus, runIssue, hasPid, budgetVars, leadVars,
                   lastComment, asked, asks, retried, overridden>>

Next ==
    \/ \E d \in Daemons : Cycle(d)
    \/ \E r \in Runs : LeadSaves(r) \/ LeadComments(r) \/ LeadExits(r) \/ Ages(r)
    \/ \E i \in Issues : UserAsks(i) \/ UserComments(i)
    \/ \E o \in Operators : RetryWrite(o) \/ \E i \in Issues : RetryCheck(o, i)
    \/ NewDay
    \/ \E d \in Daemons : Crash(d) \/ StoreFails(d)

Spec == Init /\ [][Next]_vars

\* The daemon's loop never stops and an hour always passes; nothing is
\* assumed of the Leads, the users or the operators.
FairSpec ==
    /\ Spec
    /\ \A d \in Daemons : WF_vars(Cycle(d))
    /\ \A r \in Runs : WF_vars(Ages(r))
---------------------------------------------------------------------------
(* What the dispatcher is for.                                              *)

Labels == {"idle", "scan", "seen", "insert", "global_cap", "repo_cap",
           "global_day", "repo_day", "sync", "create", "start", "count", "spawn",
           "spawn_failed", "pid", "mark", "reap", "close_run", "close_issue"}

JobTypeOK ==
    /\ pc \in [Daemons -> Labels]
    /\ here \in [Daemons -> Issues \union {NoIssue}]
    /\ reason \in [Daemons -> {"none", "auto", "adw"}]
    /\ mine \in [Daemons -> Runs \union {NoRun}]
    /\ verdict \in [Daemons -> FinalStatuses \union {"none"}]

CycleTypeOK ==
    /\ reposLeft \in [Daemons -> SUBSET Repos]
    /\ todo \in [Daemons -> SUBSET Snapshot]
    /\ left \in [Daemons -> SUBSET Runs]

StoreTypeOK ==
    /\ issueStatus \in [Issues -> TerminalIssueStatuses \union {"absent", "seen"}]
    /\ runStatus \in [Runs -> ActiveStatuses \union FinalStatuses \union {"none"}]
    /\ runIssue \in [Runs -> Issues \union {NoIssue}]
    /\ hasPid \in [Runs -> BOOLEAN]
    /\ counted \in [Runs -> Nat] /\ day \in Nat

LeadTypeOK ==
    /\ proc \in [Runs -> {"none", "live", "zombie", "gone"}]
    /\ parent \in [Runs -> Daemons \union {NoDaemon}]
    /\ lead \in [Runs -> {"none", "started", "planned", "done"}]
    /\ aged \in [Runs -> BOOLEAN]

PeopleTypeOK ==
    /\ lastComment \in [Issues -> {"none", "adw", "other"}]
    /\ asked \in [Issues -> Nat]
    /\ asks \in [Operators -> Issues \union {NoIssue}]
    /\ retried \in [Issues -> Nat]
    /\ faults \in Nat
    /\ overridden \in [Issues -> Nat]

\* Every variable ranges over what its column, local variable or process
\* state can hold.
TypeOK == JobTypeOK /\ CycleTypeOK /\ StoreTypeOK /\ LeadTypeOK /\ PeopleTypeOK

Launched == {r \in Runs : proc[r] # "none"}
LiveLeadsFor(i) == {r \in LiveLeads : runIssue[r] = i}

\* Where a run row is between its insertion and its pid, and where it is
\* between the end of its Lead and the end of its reaping.
Launching == {"start", "count", "spawn", "spawn_failed", "pid"}
Closing   == {"close_run", "close_issue"}

\* A run being launched belongs to one daemon, is active and unreachable for
\* every reaper; a run being closed has a process, which has ended.  Hence a
\* Lead that is alive always has an active row.
LaunchInv ==
    /\ \A d \in Daemons : pc[d] \in Launching =>
         /\ mine[d] \in Active /\ ~hasPid[mine[d]]
         /\ proc[mine[d]] = "none" <=> pc[d] # "pid"
    /\ \A d, e \in Daemons :
         d # e /\ pc[d] \in Launching /\ pc[e] \in Launching => mine[d] # mine[e]
    /\ \A d \in Daemons : pc[d] \in Closing =>
         /\ mine[d] \in Runs /\ hasPid[mine[d]]
         /\ proc[mine[d]] \in {"zombie", "gone"}
         /\ verdict[d] \in FinalStatuses
    /\ \A d \in Daemons : \A r \in left[d] : hasPid[r]
    /\ \A r \in Runs : hasPid[r] => proc[r] # "none"
    /\ \A r \in Runs : runStatus[r] = "none" => proc[r] = "none"
    /\ \A r \in LiveLeads : r \in Active

\* Daemons past the check of a cap that have not yet added to what it counts.
Admitted == {d \in Daemons : pc[d] \in {"repo_cap", "global_day", "repo_day", "sync", "create"}}
AdmittedTo(repo) ==
    {d \in Daemons : /\ pc[d] \in {"global_day", "repo_day", "sync", "create"}
                     /\ RepoOf[here[d]] = repo}
AdmittedToday ==
    {d \in Daemons : pc[d] \in {"repo_day", "sync", "create", "start", "count"}}

\* What is counted and what has been admitted stay, together, under the cap
\* plus one per further daemon.
CapInv ==
    /\ Cardinality(Active) + Cardinality(Admitted)
         <= MaxConcurrent + Cardinality(Daemons) - 1
    /\ \A repo \in Repos :
         Cardinality(ActiveOf(repo)) + Cardinality(AdmittedTo(repo))
           <= RepoMaxConcurrent + Cardinality(Daemons) - 1

DayInv ==
    /\ Cardinality(UsedToday) + Cardinality(AdmittedToday)
         <= MaxRunsPerDay + Cardinality(Daemons) - 1
    /\ day # 0 /\ \A r \in Runs : counted[r] <= day
    /\ \A r \in Launched : counted[r] # 0
    /\ \A d \in Daemons : pc[d] = "spawn" => counted[mine[d]] # 0

\* The concurrency caps bound the Leads that really run, whatever the faults:
\* each further dispatcher process can overshoot them by one Lead, because
\* can_dispatch reads the count before _dispatch inserts the row, and a row
\* is closed only when its Lead has stopped.
ConcurrencyCaps ==
    /\ Cardinality(LiveLeads) <= MaxConcurrent + Cardinality(Daemons) - 1
    /\ \A repo \in Repos :
         Cardinality({r \in LiveLeads : RepoOf[runIssue[r]] = repo})
            <= RepoMaxConcurrent + Cardinality(Daemons) - 1

\* No Lead runs outside the daily run budget: it is counted before it is
\* launched, and the runs counted on a day exceed the cap by at most one per
\* further dispatcher process, also when a dispatch straddles midnight.
DailyCap ==
    /\ \A r \in Launched : counted[r] # 0
    /\ Cardinality(UsedToday) <= MaxRunsPerDay + Cardinality(Daemons) - 1

\* An issue's status never outruns its runs: `completed' and `failed' are
\* written only after a run of that issue was closed that way, `dispatched'
\* only after a run of it has a process.
StatusBackedByRun ==
    \A i \in Issues :
      LET runs == {r \in Runs : runIssue[r] = i}
      IN  /\ issueStatus[i] = "completed" => \E r \in runs : runStatus[r] = "succeeded"
          /\ issueStatus[i] = "failed" =>
               \E r \in runs : runStatus[r] \in {"failed", "incomplete"}
          /\ issueStatus[i] = "dispatched" => \E r \in runs : hasPid[r]

\* However many dispatcher processes reap a run, and whatever fails, it is
\* closed as its state file tells or as a hang once it has aged, and so is its
\* issue: the verdicts on a run that is no hang agree (dispatcher.py:859).
ClosedAsItEnded ==
    /\ \A r \in Runs : runStatus[r] \in FinalStatuses =>
         runStatus[r] = Inferred(r) \/ (aged[r] /\ runStatus[r] = "failed")
    /\ \A i \in Issues :
         LET closed == {r \in Runs : runIssue[r] = i /\ runStatus[r] \in FinalStatuses}
         IN  /\ issueStatus[i] = "completed" => \E r \in closed : Inferred(r) = "succeeded"
             /\ issueStatus[i] = "failed" =>
                  \E r \in closed : aged[r] \/ Inferred(r) # "succeeded"

\* One dispatcher process has at most one Lead at work on an issue, and one more
\* for each of the three ways past the status `dispatched': an "adw" comment, a
\* trigger by default, sends a further Lead beside the one at work, and does so
\* at each poll that still finds it last (_should_dispatch, dispatcher.py:158-163);
\* the UPDATE of a retry may come after the issue it checked was dispatched
\* (ops.py:146-169); and a fault may hide a Lead whose dispatch was not recorded.
\* No new issue, label, retry or reaping does, however they interleave.
OneLeadPerIssue ==
    \A i \in Issues : Cardinality(LiveLeadsFor(i)) <= 1 + faults + overridden[i]

\* "Each trigger fires exactly once per unique issue/comment combination"
\* (README): the Leads launched for an issue number at most one for the issue
\* itself, one per "adw" comment and one per accepted retry, in each dispatcher
\* process, as these do not exclude each other, and one more per fault.
EachTriggerOnce ==
    \A i \in Issues :
      Cardinality({r \in Launched : runIssue[r] = i})
        <= Cardinality(Daemons) * (1 + asked[i] + retried[i]) + faults

\* "retry is not allowed while a run is active" (ops.py): an issue that is
\* refused a retry as `dispatched' has an active run with a process, or a
\* daemon is about to close the issue.
DispatchedIsTracked ==
    \A i \in Issues : issueStatus[i] = "dispatched" =>
      \/ \E r \in Active : hasPid[r] /\ runIssue[r] = i
      \/ \E d \in Daemons : pc[d] = "close_issue" /\ runIssue[mine[d]] = i

\* A run whose pid was lost keeps its slot of the concurrency caps for good;
\* each fault of a daemon loses at most one.
LostRuns == {r \in Active : ~hasPid[r] /\ \A d \in Daemons : mine[d] # r}
OneSlotPerFault == Cardinality(LostRuns) <= faults

\* A completed issue is left alone unless somebody comments "adw" on it.
CompletedIsFinal ==
    [][\A i \in Issues : issueStatus[i] = "completed" /\ issueStatus'[i] # "completed"
                         => asked[i] > 0]_vars

\* A run that is under way is closed in the end, by itself or as a hang
\* ("Maximum wall-clock seconds a run may remain in the running state",
\* dispatcher.py:59), unless it is one of those whose pid was lost, which
\* number one per fault.
EveryTrackedRunEnds ==
    \A r \in Runs : runStatus[r] \in ActiveStatuses ~>
                       runStatus[r] \in FinalStatuses \/ r \in LostRuns

---------------------------------------------------------------------------
(* One dispatcher process implements the promise of the runs table.         *)

Lifecycle == INSTANCE RunLifecycle WITH
    NoRepo <- NoIssue,
    row    <- [r \in Runs |-> IF runStatus[r] \in ActiveStatuses THEN "open" ELSE runStatus[r]],
    repoOf <- [r \in Runs |-> IF runIssue[r] = NoIssue THEN NoIssue ELSE RepoOf[runIssue[r]]],
    work   <- [r \in Runs |-> IF proc[r] \in {"zombie", "gone"} THEN "ended" ELSE proc[r]]

\* Admission, dispatch and reaping, however they interleave with the Leads,
\* the operators and the faults, are steps of RunLifecycle.
RunsFollowLifecycle == Lifecycle!Spec
============================================================================
