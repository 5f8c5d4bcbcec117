--------------------------- MODULE LeadPipeline ---------------------------
(* One Lead: the script of a workflow runs the scripts of its phases one    *)
(* after the other, each a process of its own that loads adw_state.json,    *)
(* calls agents in the worktree, commits, pushes, and saves the state file  *)
(* again (adws/adw_*_iso.py, adws/adw_modules).  Every call can fail and    *)
(* the whole tree can be killed at any point.  What the reaper of the       *)
(* dispatcher concludes from the file is Verdict.                           *)
EXTENDS Naturals, Sequences, SequencesExt

CONSTANTS
    Workflows,   \* the workflows to run, names of adw_<name>_iso.py
    Flags,       \* the sets of command line flags to run them with
    MaxRetries,  \* further attempts of an agent call (agent.py:249)
    MaxFailing   \* bound: failing tests or blockers of one report

ASSUME WorkflowsAssumption ==
    Workflows \subseteq {"plan", "patch", "plan_build", "plan_build_document",
                         "plan_build_review", "plan_build_test",
                         "plan_build_test_review", "sdlc", "sdlc_zte"}
ASSUME BoundsAssumption == MaxRetries \in Nat /\ MaxFailing \in Nat \ {0}

VARIABLES
    wf, flags,  \* the workflow and its flags
    phase,      \* position of the running phase in Chain
    at,         \* its next call; "exited" between phases
    saving,     \* the state file is open for writing
    tries,      \* attempts of the current agent call that were retried
    mem,        \* the fields of the phase's ADWState
    file,       \* the fields in adw_state.json: {} while absent or unreadable
    saved,      \* history: the fields it had when last complete
    rc,         \* exit of each phase: "none", "ok", "failed"
    outcome,    \* of the Lead: "running", "ok", "failed", "killed"
    attempt, left, fixed,   \* locals of the test and review loops
    unitFailed, e2eFailed,  \* failures in the last report that could be read
    tested,     \* history: what the last unit test run said
    dirty,      \* the worktree has uncommitted changes
    ahead,      \* the branch has commits that are not on GitHub
    differs,    \* the branch has commits at all
    pushFailed, \* history: the last push failed
    pr          \* the pull request: "none", "open", "merged"

process == <<phase, at, saving, tries, mem>>
disk    == <<file, saved>>
loop    == <<attempt, left, fixed, unitFailed, e2eFailed, tested>>
git     == <<dirty, ahead, differs, pushFailed, pr>>
vars    == <<wf, flags, process, disk, rc, outcome, loop, git>>

----------------------------------------------------------------------------
\* The workflows.

Chain == CASE wf = "plan"             -> <<"plan">>
           [] wf = "patch"            -> <<"patch">>
           [] wf = "plan_build"       -> <<"plan", "build">>
           [] wf = "plan_build_document" -> <<"plan", "build", "document">>
           [] wf = "plan_build_review" -> <<"plan", "build", "review">>
           [] wf = "plan_build_test"  -> <<"plan", "build", "test">>
           [] wf = "plan_build_test_review" -> <<"plan", "build", "test", "review">>
           [] wf = "sdlc"     -> <<"plan", "build", "test", "review", "document">>
           [] wf = "sdlc_zte" -> <<"plan", "build", "test", "review", "document", "ship">>

\* Mutant: a failed test phase does not stop zte either.
ZteToleratesTest == {"test", "document"}

\* The phases after whose failure sdlc goes on, and zte.
SdlcTolerates == {"test"}
ZteTolerates == {"document"}
Tolerated(p) == \/ wf = "sdlc" /\ p \in SdlcTolerates
                \/ wf = "sdlc_zte" /\ p \in ZteTolerates

SkipE2E == wf \in {"sdlc", "sdlc_zte"} \/ "skip-e2e" \in flags

\* Mutant: the KPIs are tracked after the push.
DocumentClosingKpiLast == <<"issue", "message", "commit", "push", "pull", "kpi", "close">>

\* The calls of each phase's main(), in order.
PlanOpening  == <<"load", "ports", "issue", "classify", "branch", "worktree", "install">>
PlanClosing  == <<"write_plan", "find_plan", "message", "commit", "push", "pull", "close">>
BuildOpening == <<"load", "validate", "checkout", "implement">>
BuildClosing == <<"issue", "message", "commit", "push", "pull", "close">>
TestOpening  == <<"load", "validate", "unit", "e2e">>
TestClosing  == <<"issue", "message", "commit", "push", "pull", "close", "report">>
ReviewOpening == <<"load", "validate", "find_spec", "review">>
ReviewClosing == <<"issue", "message", "commit", "push", "pull", "close">>
DocumentOpening == <<"load", "validate", "changes", "find_spec", "document">>
DocumentClosing == <<"issue", "message", "commit", "kpi", "push", "pull", "close">>
ShipCalls == <<"load", "complete", "validate", "merge", "close">>
PatchOpening == <<"load", "issue", "patch_class", "patch_branch", "patch_worktree">>
PatchClosing == <<"patch_request", "patch_plan", "patch_implement", "message",
                  "commit", "push", "pull", "close">>

Calls(p) == CASE p = "plan"     -> PlanOpening \o PlanClosing
              [] p = "build"    -> BuildOpening \o BuildClosing
              [] p = "test"     -> TestOpening \o TestClosing
              [] p = "review"   -> ReviewOpening \o ReviewClosing
              [] p = "document" -> DocumentOpening \o DocumentClosing
              [] p = "ship"     -> ShipCalls
              [] p = "patch"    -> PatchOpening \o PatchClosing

Phases == {"plan", "build", "test", "review", "document", "ship", "patch"}
Here == Chain[phase]
Running == outcome = "running" /\ at \notin {"ensure", "exited"}

\* The call that follows c in the running phase; "leave" after the last one.
After(c) == LET calls == Calls(Here)
                n == CHOOSE i \in DOMAIN calls : calls[i] = c
            IN  IF n = Len(calls) THEN "leave" ELSE calls[n + 1]

\* The calls that prompt an agent.
AgentCalls == {"classify", "branch", "install", "write_plan", "implement", "unit",
               "fix_unit", "e2e", "fix_e2e", "review", "plan_fix", "fix_review",
               "document", "kpi", "message", "pull", "patch_class", "patch_branch",
               "patch_plan", "patch_implement"}

\* The phase goes on with call c.
Goto(c) == at' = c /\ tries' = 0 /\ UNCHANGED <<phase, saving>>
At(c) == at = c /\ Running /\ ~saving
Proceed(c) == At(c) /\ Goto(After(c)) /\ UNCHANGED <<mem, disk>>

\* The fields that ADWState.update adds, followed by save: the file is opened
\* with "w", which empties it, and is complete only after WriteState.
SaveWith(c, fields) ==
    /\ At(c)
    /\ mem' = mem \cup fields
    /\ saving' = TRUE /\ file' = {}
    /\ UNCHANGED <<phase, at, tries, saved>>

WriteState ==
    /\ Running /\ saving
    /\ file' = mem /\ saved' = mem
    /\ saving' = FALSE
    /\ at' = After(at) /\ tries' = 0
    /\ UNCHANGED <<wf, flags, phase, mem, rc, outcome, loop, git>>

\* An agent that has worked in the worktree may have changed it.
MayChange == dirty' \in {dirty, TRUE} /\ UNCHANGED <<ahead, differs, pushFailed, pr>>

----------------------------------------------------------------------------
Init ==
    /\ wf \in Workflows /\ flags \in Flags
    /\ phase = 1 /\ at = "ensure" /\ saving = FALSE /\ tries = 0
    /\ mem = {} /\ file = {} /\ saved = {}
    /\ rc = [p \in Phases |-> "none"] /\ outcome = "running"
    /\ attempt = 0 /\ left = 0 /\ fixed = FALSE
    /\ unitFailed = 0 /\ e2eFailed = 0
    /\ tested = "none"
    /\ dirty = FALSE /\ ahead = FALSE /\ differs = FALSE
    /\ pushFailed = FALSE /\ pr = "none"

\* ensure_adw_id: the workflow script creates the state for the id it was
\* given and saves it, before the first phase starts.
EnsureId ==
    /\ at = "ensure" /\ outcome = "running"
    /\ \/ /\ ~saving /\ saving' = TRUE
          /\ mem' = {"id"}
          /\ UNCHANGED <<at, file, saved>>
       \/ /\ saving /\ saving' = FALSE
          /\ file' = mem /\ saved' = mem /\ at' = "load"
          /\ UNCHANGED mem
    /\ UNCHANGED <<wf, flags, phase, tries, rc, outcome, loop, git>>

\* A phase starts from the file; without a readable one it has nothing to do.
LoadState ==
    /\ at = "load" /\ Running /\ file # {}
    /\ mem' = file \cup {"adws"}
    /\ Goto(After("load"))
    /\ UNCHANGED <<wf, flags, disk, rc, outcome, loop, git>>

----------------------------------------------------------------------------
\* The planning phase.

context == <<wf, flags, rc, outcome, loop>>

\* Ports are found or the allocator raises; they are saved before anything else.
ClaimPorts == SaveWith("ports", {"ports"}) /\ UNCHANGED <<context, git>>

FetchIssue == Proceed("issue") /\ UNCHANGED <<context, git>>

Classify == SaveWith("classify", {"class"}) /\ UNCHANGED <<context, git>>

NameBranch == SaveWith("branch", {"branch"}) /\ UNCHANGED <<context, git>>

AddWorktree == SaveWith("worktree", {"worktree"}) /\ UNCHANGED <<context, git>>

InstallWorktree == Proceed("install") /\ MayChange /\ UNCHANGED context

WritePlan == Proceed("write_plan") /\ MayChange /\ UNCHANGED context

\* Mutant: the path of the plan is used and not saved.
FindPlanUnsaved == Proceed("find_plan") /\ MayChange /\ UNCHANGED context

\* The plan is in the worktree, or is copied there from the base clone.
FindPlan == SaveWith("find_plan", {"plan"}) /\ MayChange /\ UNCHANGED context

----------------------------------------------------------------------------
\* What every phase but ship does in the end.

\* What is uncommitted becomes a commit of the branch.
CommitAll ==
    /\ dirty' = FALSE
    /\ ahead' = (ahead \/ dirty) /\ differs' = (differs \/ dirty)
    /\ UNCHANGED <<pushFailed, pr>>

\* The agent asked for a commit message may have made the commit as well.
CreateCommit == Proceed("message") /\ (CommitAll \/ UNCHANGED git) /\ UNCHANGED context

CommitChanges == Proceed("commit") /\ CommitAll /\ UNCHANGED context

\* finalize_git_operations pushes ...
PushBranch ==
    /\ Proceed("push")
    /\ ahead' = FALSE /\ pushFailed' = FALSE
    /\ UNCHANGED <<context, dirty, differs, pr>>

\* ... and only logs that it could not: no pull request then, and the phase goes on.
PushFails ==
    /\ At("push") /\ Goto(After("pull"))
    /\ pushFailed' = TRUE
    /\ UNCHANGED <<context, mem, disk, dirty, ahead, differs, pr>>

\* The open pull request is found, or an agent is asked to create one; that it
\* could not is only logged.
FindOrCreatePR ==
    /\ Proceed("pull")
    /\ \/ UNCHANGED pr
       \/ pr = "none" /\ differs /\ pr' = "open"
    /\ UNCHANGED <<context, dirty, ahead, differs, pushFailed>>

\* Mutant: the state that is saved in the end is a new one.
CloseFresh ==
    /\ At("close") /\ mem' = {"id", "adws"}
    /\ saving' = TRUE /\ file' = {}
    /\ UNCHANGED <<context, git, phase, at, tries, saved>>

Close == SaveWith("close", {}) /\ UNCHANGED <<context, git>>

Leave ==
    /\ At("leave")
    /\ rc' = [rc EXCEPT ![Here] = "ok"]
    /\ at' = "exited"
    /\ UNCHANGED <<wf, flags, phase, saving, tries, mem, disk, outcome, loop, git>>

----------------------------------------------------------------------------
\* Agent calls.

\* What an agent may have done by the time its call fails: work in the worktree,
\* the commit it was to write the message of, or the pull request.
AgentLeaves ==
    \/ MayChange
    \/ at \in {"message", "kpi"} /\ CommitAll
    \/ /\ at = "pull" /\ pr = "none" /\ differs /\ pr' = "open"
       /\ UNCHANGED <<dirty, ahead, differs, pushFailed>>

\* A call that ended with an error, ran out of its 15 minutes or could not be
\* started is repeated; what it has done stays.
RetryCall ==
    /\ at \in AgentCalls /\ Running /\ ~saving
    /\ tries < MaxRetries /\ tries' = tries + 1
    /\ AgentLeaves
    /\ UNCHANGED <<context, phase, at, saving, mem, disk>>

----------------------------------------------------------------------------
\* The build phase.

\* The three-way check: the state names the worktree, the directory exists,
\* and git knows it.
ValidateWorktree ==
    Proceed("validate") /\ "worktree" \in mem /\ UNCHANGED <<context, git>>

Checkout ==
    Proceed("checkout") /\ {"branch", "plan"} \subseteq mem /\ UNCHANGED <<context, git>>

Implement == Proceed("implement") /\ MayChange /\ UNCHANGED context

----------------------------------------------------------------------------
\* The test phase.

MaxTestAttempts == 4
MaxE2EAttempts == 2
AfterUnit == IF SkipE2E THEN After("e2e") ELSE "e2e"

\* The report of an agent: none at all, one that cannot be parsed, or one with
\* n failures.
Said == {"nothing", "garbage", "report"}
Reads(said, n) == said = "report" \/ n = 0

stay == <<wf, flags, rc, outcome, mem, disk>>

\* Mutant: the loop ends only when nothing fails.
RunUnitUntilGreen ==
    /\ At("unit") /\ MayChange
    /\ \E said \in Said, n \in 0 .. MaxFailing :
         /\ Reads(said, n)
         /\ unitFailed' = IF said = "nothing" THEN unitFailed ELSE n
         /\ tested' = CASE said = "nothing" -> tested
                        [] said = "garbage" -> "unknown"
                        [] said = "report"  -> IF n = 0 THEN "passed" ELSE "failing"
         /\ IF said = "report" /\ n > 0
              THEN Goto("fix_unit") /\ attempt' = attempt + 1 /\ left' = n
              ELSE Goto(AfterUnit) /\ attempt' = 0 /\ left' = 0
    /\ fixed' = FALSE
    /\ UNCHANGED <<stay, e2eFailed>>

\* Mutant: the attempts are not counted.
RunUnitUncounted ==
    /\ At("unit") /\ MayChange
    /\ \E said \in Said, n \in 0 .. MaxFailing :
         /\ Reads(said, n)
         /\ unitFailed' = IF said = "nothing" THEN unitFailed ELSE n
         /\ tested' = CASE said = "nothing" -> tested
                        [] said = "garbage" -> "unknown"
                        [] said = "report"  -> IF n = 0 THEN "passed" ELSE "failing"
         /\ IF said = "report" /\ n > 0 /\ attempt + 1 < MaxTestAttempts
              THEN Goto("fix_unit") /\ attempt' = attempt /\ left' = n
              ELSE Goto(AfterUnit) /\ attempt' = 0 /\ left' = 0
    /\ fixed' = FALSE
    /\ UNCHANGED <<stay, e2eFailed>>

\* One run of the suite.  No answer ends the loop with the failures of the run
\* before; an answer that cannot be parsed counts as no failure.
RunUnit ==
    /\ At("unit") /\ MayChange
    /\ \E said \in Said, n \in 0 .. MaxFailing :
         /\ Reads(said, n)
         /\ unitFailed' = IF said = "nothing" THEN unitFailed ELSE n
         /\ tested' = CASE said = "nothing" -> tested
                        [] said = "garbage" -> "unknown"
                        [] said = "report"  -> IF n = 0 THEN "passed" ELSE "failing"
         /\ IF said = "report" /\ n > 0 /\ attempt + 1 < MaxTestAttempts
              THEN Goto("fix_unit") /\ attempt' = attempt + 1 /\ left' = n
              ELSE Goto(AfterUnit) /\ attempt' = 0 /\ left' = 0
    /\ fixed' = FALSE
    /\ UNCHANGED <<stay, e2eFailed>>

\* An agent per failing test; another run if one of them succeeded.
FixLoop(fix, again, after) ==
    /\ At(fix) /\ MayChange
    /\ fixed' \in {fixed, TRUE}
    /\ left' = left - 1
    /\ IF left > 1 THEN Goto(fix) /\ UNCHANGED attempt
       ELSE IF fixed' THEN Goto(again) /\ UNCHANGED attempt
       ELSE Goto(after) /\ attempt' = 0
    /\ UNCHANGED <<stay, unitFailed, e2eFailed, tested>>

FixUnit == FixLoop("fix_unit", "unit", AfterUnit)

\* The same for the end-to-end tests, with fewer attempts.
RunE2E ==
    /\ At("e2e") /\ MayChange
    /\ \E said \in Said, n \in 0 .. MaxFailing :
         /\ Reads(said, n)
         /\ e2eFailed' = IF said = "nothing" THEN e2eFailed ELSE n
         /\ IF n > 0 /\ attempt + 1 < MaxE2EAttempts
              THEN Goto("fix_e2e") /\ attempt' = attempt + 1 /\ left' = n
              ELSE Goto(After("e2e")) /\ attempt' = 0 /\ left' = 0
    /\ fixed' = FALSE
    /\ UNCHANGED <<stay, unitFailed, tested>>

FixE2E == FixLoop("fix_e2e", "e2e", After("e2e"))

\* After everything is committed and saved, the exit code.
ReportTests ==
    /\ At("report")
    /\ rc' = [rc EXCEPT ![Here] = IF unitFailed + e2eFailed > 0 THEN "failed" ELSE "ok"]
    /\ at' = "exited"
    /\ UNCHANGED <<wf, flags, phase, saving, tries, mem, disk, outcome, loop, git>>

----------------------------------------------------------------------------
\* The review phase.

MaxReviewAttempts == 3

FindSpec == Proceed("find_spec") /\ UNCHANGED <<context, git>>

\* One review.  Without an answer, or with one that cannot be parsed, it has no
\* blockers and the loop ends.
RunReview ==
    /\ At("review") /\ MayChange
    /\ \E said \in Said, n \in 0 .. MaxFailing :
         /\ Reads(said, n)
         /\ IF n > 0 /\ "skip-resolution" \notin flags
              THEN Goto("plan_fix") /\ attempt' = attempt + 1 /\ left' = n
              ELSE Goto(After("review")) /\ attempt' = 0 /\ left' = 0
    /\ UNCHANGED <<stay, fixed, unitFailed, e2eFailed, tested>>

\* The next blocker, or another review, unless this was the last attempt.
NextBlocker ==
    /\ left' = left - 1
    /\ IF left > 1 THEN Goto("plan_fix") /\ UNCHANGED attempt
       ELSE IF attempt < MaxReviewAttempts - 1 THEN Goto("review") /\ UNCHANGED attempt
       ELSE Goto(After("review")) /\ attempt' = 0

\* A patch plan for the blocker, or none.
PlanBlockerFix ==
    /\ At("plan_fix") /\ MayChange
    /\ (Goto("fix_review") /\ UNCHANGED <<attempt, left>>) \/ NextBlocker
    /\ UNCHANGED <<stay, fixed, unitFailed, e2eFailed, tested>>

\* Its implementation, which may fail too.
FixBlocker ==
    /\ At("fix_review") /\ MayChange
    /\ NextBlocker
    /\ UNCHANGED <<stay, fixed, unitFailed, e2eFailed, tested>>

----------------------------------------------------------------------------
\* The documentation phase.

\* Nothing to document: the phase ends well at once, without a save.  The
\* worktree is compared with origin/main, so what is uncommitted counts too: it
\* can make up for the commits, or be untracked and not seen.
SkipDocument ==
    /\ At("changes") /\ (~differs \/ dirty)
    /\ Goto("leave")
    /\ UNCHANGED <<context, mem, disk, git>>

\* git sees a difference, or fails and the phase assumes one.
FindChanges == Proceed("changes") /\ UNCHANGED <<context, git>>

Document == Proceed("document") /\ MayChange /\ UNCHANGED context

\* Never fails the phase; its agents may leave a change, or a commit.
TrackKpis == Proceed("kpi") /\ (MayChange \/ CommitAll) /\ UNCHANGED context

----------------------------------------------------------------------------
\* The ship phase.

ExpectedFields == {"id", "branch", "plan", "class", "worktree", "ports"}

CheckComplete ==
    Proceed("complete") /\ ExpectedFields \subseteq mem /\ UNCHANGED <<context, git>>

\* The open pull request is merged and the branch deleted.
MergePR ==
    /\ Proceed("merge") /\ pr = "open" /\ pr' = "merged"
    /\ UNCHANGED <<context, dirty, ahead, differs, pushFailed>>

----------------------------------------------------------------------------
\* The patch workflow.

\* Without a branch in the state the issue is classified and a name generated.
PatchClass ==
    /\ At("patch_class") /\ Goto(After("patch_class"))
    /\ mem' = mem \cup {"class"}
    /\ UNCHANGED <<context, disk, git>>

PatchBranch == SaveWith("patch_branch", {"branch"}) /\ UNCHANGED <<context, git>>

PatchWorktree ==
    SaveWith("patch_worktree", {"worktree", "ports"}) /\ MayChange /\ UNCHANGED context

\* The comment or the body that asks for the patch.
PatchRequest == Proceed("patch_request") /\ UNCHANGED <<context, git>>

PatchPlan == Proceed("patch_plan") /\ MayChange /\ UNCHANGED context

\* update(patch_file) is dropped, it is no core field: the save adds nothing.
PatchImplement ==
    SaveWith("patch_implement", {}) /\ MayChange /\ UNCHANGED context

----------------------------------------------------------------------------
\* How phases and Leads end otherwise.

\* sys.exit(1), an exception nobody catches - a comment that cannot be posted
\* is one - or a signal.  A request that failed may have been served.
PhaseFails ==
    /\ Running
    /\ rc' = [rc EXCEPT ![Here] = "failed"]
    /\ at' = "exited" /\ saving' = FALSE
    /\ attempt' = 0 /\ left' = 0
    /\ \/ UNCHANGED git
       \/ at \in AgentCalls /\ AgentLeaves
       \/ /\ at = "merge" /\ pr = "open" /\ pr' = "merged"
          /\ UNCHANGED <<dirty, ahead, differs, pushFailed>>
    /\ UNCHANGED <<wf, flags, phase, tries, mem, disk, outcome, fixed, unitFailed,
                   e2eFailed, tested>>

\* The script of the workflow looks at the exit code and goes on ...
NextPhase ==
    /\ at = "exited" /\ outcome = "running"
    /\ rc[Here] = "ok" \/ Tolerated(Here)
    /\ IF phase < Len(Chain)
         THEN phase' = phase + 1 /\ at' = "load" /\ UNCHANGED outcome
         ELSE outcome' = "ok" /\ UNCHANGED <<phase, at>>
    /\ mem' = {} /\ tries' = 0
    /\ UNCHANGED <<wf, flags, saving, disk, rc, loop, git>>

\* ... or exits with 1.
StopChain ==
    /\ at = "exited" /\ outcome = "running"
    /\ rc[Here] = "failed" /\ ~Tolerated(Here)
    /\ outcome' = "failed"
    /\ UNCHANGED <<wf, flags, process, disk, rc, loop, git>>

\* The reaper or a restart of the unit kills the whole tree.
Kill ==
    /\ outcome = "running"
    /\ outcome' = "killed"
    /\ UNCHANGED <<wf, flags, process, disk, rc, loop, git>>

\* What _infer_final_status makes of the file.
Verdict == CASE file = {}                       -> "failed"
             [] {"plan", "adws"} \subseteq file -> "succeeded"
             [] OTHER                           -> "incomplete"

----------------------------------------------------------------------------
PlanStep == \/ ClaimPorts \/ Classify \/ NameBranch \/ AddWorktree \/ InstallWorktree
            \/ WritePlan \/ FindPlan
BuildStep == ValidateWorktree \/ Checkout \/ Implement
TestStep == RunUnit \/ FixUnit \/ RunE2E \/ FixE2E \/ ReportTests
ReviewStep == FindSpec \/ RunReview \/ PlanBlockerFix \/ FixBlocker
DocumentStep == SkipDocument \/ FindChanges \/ Document \/ TrackKpis
ShipStep == CheckComplete \/ MergePR
PatchStep == \/ PatchClass \/ PatchBranch \/ PatchWorktree \/ PatchRequest
             \/ PatchPlan \/ PatchImplement
CommonStep == \/ LoadState \/ WriteState \/ FetchIssue \/ CreateCommit \/ CommitChanges
              \/ PushBranch \/ PushFails \/ FindOrCreatePR \/ Close \/ Leave
              \/ RetryCall \/ PhaseFails

LeadStep == \/ EnsureId \/ PlanStep \/ BuildStep \/ TestStep \/ ReviewStep
            \/ DocumentStep \/ ShipStep \/ PatchStep \/ CommonStep
            \/ NextPhase \/ StopChain

Next == LeadStep \/ Kill

Spec == Init /\ [][Next]_vars

\* Every call has its timeout or returns, and the scripts do not wait for each
\* other, so the Lead goes on until it ends.
FairSpec == Spec /\ WF_vars(LeadStep)

----------------------------------------------------------------------------
Fields == {"id", "adws", "ports", "class", "branch", "worktree", "plan"}

TypeOK ==
    /\ wf \in Workflows /\ flags \in Flags
    /\ phase \in 1 .. Len(Chain)
    /\ at \in {"ensure", "leave", "exited", "fix_unit", "fix_e2e", "plan_fix", "fix_review"}
              \cup ToSet(Calls(Here))
    /\ saving \in BOOLEAN /\ tries \in 0 .. MaxRetries
    /\ mem \subseteq Fields /\ file \subseteq Fields /\ saved \subseteq Fields
    /\ rc \in [Phases -> {"none", "ok", "failed"}]
    /\ outcome \in {"running", "ok", "failed", "killed"}
    /\ attempt \in 0 .. MaxTestAttempts - 1 /\ left \in 0 .. MaxFailing /\ fixed \in BOOLEAN
    /\ unitFailed \in 0 .. MaxFailing /\ e2eFailed \in 0 .. MaxFailing
    /\ tested \in {"none", "passed", "failing", "unknown"}
    /\ dirty \in BOOLEAN /\ ahead \in BOOLEAN /\ differs \in BOOLEAN
    /\ pushFailed \in BOOLEAN
    /\ pr \in {"none", "open", "merged"}

\* Only a chain whose planning, build, test and review phases all ended well
\* reaches the merge, and a failing test that some run has reported keeps it
\* away even when the runs after it bring no report at all
\* (adw_sdlc_zte_iso.py, adw_test_iso.py:358).
MergedMeansGated ==
    pr = "merged" => /\ \A p \in {"plan", "build", "test", "review"} : rc[p] = "ok"
                     /\ tested # "failing"

\* A phase loads what the phase before it saved and adds to it: no complete
\* state file ever lacks a field that an earlier one had (state.py).
StateNeverShrinks == [][saved \subseteq saved']_saved

\* A chain that ends well is recorded as succeeded.  The patch workflow is the
\* exception: it never has a plan_file (dispatcher.py:1073).
CleanExitSucceeds ==
    outcome = "ok" /\ wf # "patch" => Verdict = "succeeded"

\* A Lead that ends well has published all its commits, unless its last push
\* failed, which is only logged, or zte went on without the documentation.
\* A push that failed is made good by that of the next phase.
CleanExitPublishes ==
    outcome = "ok" /\ ~pushFailed /\ rc["document"] # "failed" => ~ahead

\* The loops of retries, fixes and reviews end, and with them the Lead.
LeadEnds == <>(outcome # "running")

\* The chain is a Lead as the dispatcher models it.
Outline == INSTANCE LeadOutline WITH
    alive <- outcome = "running",
    progress <- LET fields == IF outcome = "running" THEN saved ELSE file
                IN  CASE fields = {}                        -> "none"
                      [] {"plan", "adws"} \subseteq fields  -> "planned"
                      [] OTHER                              -> "started"
ImplementsOutline == Outline!Spec
============================================================================
