# Verification of tac-master

tac-master polls GitHub for issues of allowlisted repositories, launches one
*Lead* process (a chain of ADW phases) per qualifying issue, supervises the
Leads, counts runs and tokens against budgets, and shows everything on a
dashboard. This directory holds TLA+ models of it, their TLC configurations, and
proofs checked by TLAPS. `PROJECT.json` lists the runs, the correspondence of
definitions to source lines, the hazards and the proved theorems.

## 1. Inventory

| Component | State | Operations | Hard because |
|---|---|---|---|
| **Dispatcher** (`orchestrator/dispatcher.py`, `daemon.py`) | locals of one poll/reap cycle | `poll_once`, `_should_dispatch`, `_dispatch`, `reap_finished_runs`, `_kill_run_tree` | every step is its own transaction or system call; crashes; several processes (`--once`) on one database |
| **State store** (`state_store.py`) | SQLite tables `issues`, `runs`, `budget_usage`, ... | one small transaction per method | no operation spans what the dispatcher does in several calls |
| **Budget enforcer** (`budget.py`) | none of its own | `can_dispatch`, `record_dispatch`, `record_tokens` | check, then act much later |
| **Runner** (`runner.py`) | child processes | `spawn` | exceptions, zombies, hangs |
| **Operator retry** (`ops.py`) | none of its own | `retry_issue` | its own connection: check and write interleave with the daemon |
| **ADW Leads** (`adws/`) | `adw_state.json`, worktree, branch, ports | phases plan, build, test, review, document, ship, patch | every call fails at will; they die anywhere; the reaper judges by the state file |
| **Token ledger** (`token_tracker.py`) | `token_ledger`, `runs.tokens_used`, daily tokens | `attribute_run`, `scan_all_active` | three transactions, concurrent scans, files still growing |
| **Repository manager** (`repo_manager.py`) | clones and their substrate | `ensure_clone`, `sync` | removes and copies a directory that Leads run from |
| **CLEO callbacks, knowledge base** (`dispatcher.py`, `knowledge.py`, `adws/adw_reflect_iso.py`) | CLEO tasks, `lessons` | `_update_cleo_task_status`, `_create_followup_task`, `_run_reflect`, `fetch_relevant` | each call of the CLEO command line may fail or have worked unnoticed; nothing is repeated |
| **Webhook server** (`webhook_server.py`) | none of its own | accept, dispatch in the background | threads sharing one store |
| **Orchestrator service** (`orchestrator_service.py`, `claude_sdk_client.py`, ...) | session, executing flag, chat rows | `process_user_message`, `interrupt` | concurrent messages, streaming, session resumption |
| **Dashboard** (`dashboard/server`, `dashboard/client`) | WebSocket clients, stores | event fan-out, bridge to the orchestrator | reconnecting clients, late answers |
| Configuration, migrations, scripts, deployment | files | read at start | the systemd unit decides what a restart kills |

How they interact: the daemon calls GitHub, the store, the budget enforcer and
the runner in turn, in one thread. Leads share nothing with it but their state
file, their comments on the issue (which the poller reads as triggers!) and
their process, which the reaper probes by pid. Their scripts are read, phase by
phase, from the clone of the repository that the dispatcher refreshes for the
next run. The dashboard and the command
line call `retry_issue` on the same database. The webhook server owns a second
dispatcher in another process. The orchestrator service exists twice, in a
process of its own and as a bridge in the daemon, over one table.

What makes each correct:

- Dispatcher: bounded concurrency and daily use; one Lead per issue and one
  launch per trigger; the issue's status agrees with its runs; every run ends.
- Retry: only failed work is redone, and it is redone.
- Leads: `succeeded` means that the work was done.
- Token ledger: every token is counted once.
- Repository manager: a running Lead never misses its scripts.
- CLEO callbacks: a task tells how its last run ended; follow-ups do not breed.
- Webhook: an accepted event is dispatched.
- Orchestrator service: one message at a time per session; an interrupt stops it.
- Dashboard: clients see what was stored, in order.

## 2. Plan

| # | Module | Content | State |
|---|---|---|---|
| 1 | `RunLifecycle`, `Dispatcher`, `MCDispatcher`, `DispatcherProofs` | poll, admission, dispatch, reaping, retry, faults | done |
| 2 | `LeadPipeline`, `LeadOutline` | the calls of every phase, the chains, the reaper's verdict; refines the Lead that `Dispatcher` assumes | done |
| 3 | `TokenLedger` | attribution in three transactions, rescans, concurrent scans | done |
| 4 | `OrchestratorSession` | two services on one table, overlapping messages, interrupt, shutdown | done |
| 5 | `CloneShare` | one clone under several Leads and the dispatcher, worktrees, notes | done |
| 6 | `RunEpilogue` | CLEO callbacks, follow-ups, reflection, lessons | done |
| 7 | `*Proofs`, `Totals`, `TotalsTheorems` | every invariant, every action property and both refinements that the runs check | done |

The modules meet at their interfaces. `Dispatcher` uses a Lead that saves in
stages, comments and exits, and `LeadOutline` states those stages; `LeadPipeline`
is shown to implement it, and `Dispatcher` to treat each of its Leads as one of it and
to allow whatever it does (section 9). `RunLifecycle` is what `Dispatcher` promises of the
`runs` table. `TokenLedger`, `CloneShare` and `RunEpilogue` take up what
`Dispatcher` leaves out of a dispatch or a reap, and keep of it only the order in
which the dispatcher calls them.

What is left. `OneLeadPerIssue`, `StatusBackedByRun` and `RunsFollowLifecycle` are
about one dispatcher process; what several do to an issue and its runs is bounded by
`EachTriggerOnce` and `ClosedAsItEnded`. `CloneShare` and `RunEpilogue` have one
dispatcher. That the Lead of another process is reaped in the end is not checked. The hazards without a property in
`PROJECT.json` say what no module covers.

## 3. The dispatcher

### Modules

- **`RunLifecycle`** is the abstract promise of the `runs` table: a run is
  registered within the caps, its Lead is launched at most once and only while
  the row is open, and the row is settled once, after the Lead has stopped.
- **`Dispatcher`** is the code. Each daemon in `Daemons` runs `Cycle(d)`, whose
  `pc` names the next store transaction, system call or GitHub request:

  | Code | Actions |
  |---|---|
  | `poll_once`, `_poll_repo` | `PollStart`, `ListIssues` |
  | `_should_dispatch`, `seen_issue` | `JudgeIssue`, `SeenIssue`, `SeenNoIssue`, `InsertIssue` |
  | `can_dispatch` | `CheckGlobalCap`, `CheckRepoCap`, `CheckGlobalDay`, `CheckRepoDay` |
  | `_dispatch` | `SyncClone`, `CreateRun`, `StartRun`, `RecordDispatch`, `RefuseRuntime`, `Spawn`, `SpawnFails`, `FailSpawn`, `WritePid`, `MarkDispatched` |
  | `reap_finished_runs` | `ListActiveRuns`, `ReapExited`, `SkipRunning`, `KillHung`, `CloseRun`, `CloseIssue`, `EndCycle` |
  | `ops._do_retry` | `RetryCheck`, `RetryWrite` |
  | Leads and users | `LeadSaves`, `LeadComments`, `LeadExits`, `UserAsks`, `UserComments` |
  | time and faults | `Ages`, `NewDay`, `Crash`, `StoreFails` |

- **`MCDispatcher`** gives the constants their values for TLC.
- **`DispatcherProofs`** holds the theorems about launches and limits,
  **`OneDispatcherProofs`** those about triggers, statuses and one daemon (section 9).

### How state corresponds

`issueStatus`, `runStatus`, `runIssue` and `hasPid` are columns. `counted[r] = n`
says that the `runs_count` of day `n` includes run `r`, so a counter of
`budget_usage` is the number of runs counted on that day. `proc` and `parent` are
what the kernel knows of a Lead: `zombie` until its parent collects it, which
`subprocess.Popen` also does as a side effect (`Collected`). `lead` abstracts
`adw_state.json`: `none` (absent or unreadable), `started` (only `adw_id`),
`planned` (`plan_file` and `all_adws`), `done`. `lastComment` is the last comment
of an issue, the only one the poller looks at. `asked`, `retried`, `overridden`
(how often the status `dispatched` of an issue did not keep a further Lead off it)
and `faults` are history, used by the properties and the bounds alone.

Decisions a reader may question:

- *The token caps* are a refusal that may come at any check: the tokens are
  counted in `TokenLedger`.
- *Labels and open issues* are chosen anew by every listing: users change them
  at will and the dispatcher keeps no memory of them. A failed listing is an
  empty one, as in `github_client.py`; a failing write after the last effect of
  a dispatch (`record_event`) drops the rest of the listing, which is the same
  as a shorter listing.
- *`seen_issue`* is two actions when the row is missing and one when it exists:
  Python's `sqlite3` opens a transaction at the first write, so the SELECT is not
  protected.
- *`Crash`* kills the Leads or leaves them: `KillMode=mixed` of the unit kills
  the whole control group, although `docs/architecture.md` says that killing the
  daemon does not kill Leads; a daemon run by cron or a shell leaves them.
- *Statuses* `aborted`, `skipped` and `queued` occur in guards but nothing in the
  code writes them, so they are left out.
- *A signal* to a Lead may strike while it rewrites its state file, which is then
  unreadable (`Interrupted`); so may its end of its own accord.
- *Process ids* are not reused and never belong to another user.
- *Left out* of the cycle: events, which nothing reads back, and CLEO callbacks,
  knowledge and reflection, whose errors are caught and which change nothing
  above; they are `RunEpilogue` and `CloneShare`.

### Runs

The daily limits of every instance are chosen so that a daemon never needs more
ADW ids than `Runs` has: it would wait at `CreateRun`, which the code never does,
and TLC would report the deadlock. `MaxAdw`, `MaxRetries`, `MaxDay` and
`MaxFaults` bound users, operators, midnights and faults. Deadlock is checked in
every run of this module.

| Run | Instance | Checks and shows |
|---|---|---|
| `core` | one daemon, two repositories (one with all triggers, one with a bad `runtime`), two days, one retry, one "adw" comment per issue | `TypeOK`; `DispatchedIsTracked`: a dispatched issue has a run that a reaper will find; `ConcurrencyCaps` and `DailyCap`, which a single daemon keeps exactly (the global cap is the one that binds; overshooting by several daemons is the theorem `CapsHold`); `CompletedIsFinal`; and `RunsFollowLifecycle`, that the daemon implements `RunLifecycle` |
| `crash` | one daemon, one issue with every trigger, one "adw" comment, two operators with a retry each, three runs, two of them on the one day, one fault at any step | `StatusBackedByRun`, `OneLeadPerIssue`, `OneSlotPerFault`: one fault costs at most one duplicate Lead and one lost slot, and never a status without a run behind it; besides a fault only a comment or a late retry may add a Lead to one at work |
| `pair` | two daemons racing for one new issue, one Lead each and one to spare; Leads may hang | `EachTriggerOnce`: one Lead per process at most, through the race of the INSERTs too. `ClosedAsItEnded`: a closed run has the status that its state file says or was taken for a hang, and a closed issue has a run that ended so, though both daemons reap every run and the later write wins. For any number of daemons, and with retries and faults, these are the theorems `EachTriggerOnceHolds` and `ClosedAsItEndedHolds` |
| `live` | one daemon, Leads that may hang, one fault | `EveryTrackedRunEnds` |
| `v_readme` | one daemon, "adw" comments | ends in a violation, see below |

Why these bounds are enough: the caps are one or two, so that a second and a
third run reach and pass them; two runs of one issue are the fewest that can be
duplicates, three are needed for a duplicate through a fault *and* one without;
one fault suffices to reach every cut of a dispatch or a reap, and the
properties say what each further one may add. In `crash` two Leads are at work on
the issue at once, by the fault in some behaviours and by the comment in others. A
retry that overwrites `dispatched` happens there too, but not the further Lead that
it allows: that would be the third one counted, and the third run is only there for
a dispatch that is cut before it counts. This case is in the theorem
`OneLeadPerIssueHolds`. How far several daemons overshoot
a cap is not a matter of bounds: it is the theorem `CapsHold`.

### What the code does otherwise than it says

`v_readme` checks "Each trigger fires exactly once per unique issue/comment
combination" (`README.md:307`): the comment "adw" is still the last one at the
next poll, and an issue passes with it although it is `dispatched` or closed. The
property allows a Lead for the issue and one for each comment; with one comment
there are three. `last_comment_id`, which would tell, is stored and never compared.
`OneLeadPerIssue` counts such a Lead, if another is at work, in `overridden`.

The model also shows the following; the properties are stated so that they hold
with them.

- A fault before the pid is saved leaves a `running` row that the reaper skips
  before it looks at its age (`dispatcher.py:777`), although `dispatcher.py:59`
  speaks of the most time a run may remain so. `EveryTrackedRunEnds` exempts it;
  `OneSlotPerFault` counts the slot it keeps.
- A fault between `update_run` and `set_issue_status` (`dispatcher.py:858`)
  leaves the issue `dispatched` with no active run, and `ops.py:152` then refuses
  the retry that would help, as if a run were active.
- `ops.py:209` promises that "the next poll cycle will re-dispatch" a retried
  issue. The Lead has commented on it, so the new-issue trigger is gone; unless
  there is a label or an "adw" comment, nothing happens.
- Two operators who retry together both pass the check; the second one writes
  `seen` over `dispatched` (`ops.py:146-177`), and the next poll may launch a second
  Lead beside the first. `overridden` counts this as well.
- The verdict "succeeded" means that the plan phase was reached: the two fields
  that `dispatcher.py:1073` reads exist from then on, while the comment at
  `dispatcher.py:1027` speaks of the ship phase. Which chains this is right for is
  `CleanExitSucceeds` in the next section.
- Two daemons that reap one run may write different verdicts, if one kills it as a
  hang and the other reads its state file (`ReapersAgree` says that this is the only
  way), and one may close an issue before the other has marked it dispatched.

### Fairness

`FairSpec` asks for weak fairness of each daemon's cycle, which is the `while`
loop of `daemon.py` under `Restart=always`, and of `Ages`, because time passes.
Nothing is asked of Leads (one may hang for ever), of users or of operators.
Faults are finitely many.

## 4. A Lead: the phase chains

`LeadPipeline` is one Lead: the script of a workflow runs the scripts of its
phases in sequence (`adws/adw_*_iso.py`), each a process that loads
`adw_state.json`, calls agents, commits, pushes and saves the file again
(`adws/adw_modules`).

| Code | Definitions |
|---|---|
| the composites `adw_plan_build..._iso.py`, `adw_sdlc_iso.py`, `adw_sdlc_zte_iso.py` | `Chain`, `SdlcTolerates`, `ZteTolerates`, `NextPhase`, `StopChain` |
| the calls of a phase, in their order | `PlanOpening` ... `PatchClosing`, one action for each name in them |
| `ADWState.save`, `load`; `ensure_adw_id` | `SaveWith`, `WriteState`, `LoadState`, `EnsureId` |
| `commit_changes`, `push_branch`, `finalize_git_operations`, `merge_pr_via_gh` | `CommitAll`, `PushBranch`, `PushFails`, `FindOrCreatePR`, `MergePR` |
| `run_tests_with_resolution`, `run_e2e_tests_with_resolution` | `RunUnit`, `FixUnit`, `RunE2E`, `FixE2E`, `ReportTests` |
| the review and resolution loop of `adw_review_iso.py` | `RunReview`, `NextBlocker`, `PlanBlockerFix`, `FixBlocker` |
| `prompt_claude_code_with_retry` | `RetryCall` |
| an error return or an exception at any call; SIGKILL | `PhaseFails`; `Kill` |
| `_infer_final_status` of the dispatcher | `Verdict` |

`mem` and `file` are the sets of fields of the state in memory and on disk;
`saving` is the time between `open(..., "w")`, which truncates the file, and the
end of `json.dump`. `dirty`, `ahead` and `differs` are the worktree and its
branch. What an agent does is external: it may change the worktree or not and
answer usably or not, `/commit` may commit itself and `/pull_request` open a pull
request, also in a call that then fails or is repeated (`AgentLeaves`). Posting a
comment can raise, so a phase may fail between any two calls. The documentation
phase compares the working tree, and not the branch, with `origin/main`: it may find
nothing although there are commits, if changes that are not committed undo them
(`SkipDocument`).

**Run `chain`**: all nine workflows, with no flags or both; up to two failing tests
or blockers in each report and three further attempts of each agent call, which
is the code's number. The attempt bounds of the test and review loops are those
of the code. `MaxFailing = 2` because the loops treat the failures one by one: one
may be fixed and another not. Deadlock is not checked: the Lead ends.

- `MergedMeansGated`: only a chain whose plan, build, test and review phases ended
  well merges, and not when a unit test run has reported a failure that no later
  report has cleared.
- `CleanExitSucceeds`: a workflow that exits 0 is recorded as succeeded, except
  `patch`, which never has a `plan_file`.
- `CleanExitPublishes`: it has pushed its commits, unless its last push failed.
- `StateNeverShrinks`: no phase drops a field that an earlier one saved.
- `ImplementsOutline`: the Lead is one that `LeadOutline`, and so `Dispatcher`, has.
- `LeadEnds`, under weak fairness of the Lead's own steps: each call has a timeout
  or returns, and the scripts do not wait for one another. (A Lead that hangs all
  the same is in `Dispatcher`, where nothing is asked of it.)

What the code does otherwise than it says: a test run that cannot be parsed counts
as passed, and the review phase exits 0 whatever the result of its last review, so
`sdlc_zte` merges work whose tests never ran or whose blockers remain, although
`adw_sdlc_zte_iso.py:61` says "automatically merge to main if all phases pass" -
all phases did exit 0. A push or a pull request that fails is logged and the phase
ends well. The last comment of zte says that documentation was completed also
when that phase failed. A Lead is never launched again with its `adw_id`.

## 5. The token ledger

`TokenLedger` is `token_tracker.py` with the two that call it: the daemon at a
reap (`ReapStart`, `ReapClose`, `KillHung`) and the command line (`ScanStart`,
`ScanNext`). `attribute_run` is `Discover` (the files found, with their tokens),
`SelectFirst` (the SELECT on `token_ledger`), `InsertNew` (the rows, and their
commit), `ReadUsed` and `WriteUsed` (`runs.tokens_used`), and `AddDaily`
(`record_tokens`). Files are pairs of a run and an agent; `out` is what they hold.
An agent that is called again opens its file anew (`OpenOutput`). Costs grow as
tokens do and are left out; so is midnight, which changes only the day an amount
is entered under. `BudgetMatchesLedger` and `TotalWithinLedger` speak of sums, which
`Totals` defines as the number of units that are summed (`SumOver`): this needs no
recursion over the set, so that its laws can be proved.

**Run `books`**: one run, two agents, the daemon and one operator who scans twice,
one fault. The runs of the table share only the daily total, and a scan treats
them one after the other, so one run shows all interleavings of two scanners over
the same files; two agents are needed for two scanners to enter different files.
Deadlock is not checked: calls and scans come to an end.

- `BudgetMatchesLedger`: the budget of the day holds each token of the ledger
  once, less what a scanner took with it when it stopped between two transactions.
- `TotalWithinLedger`: the total of a run never exceeds its rows.
- `ReapedIsCounted`: a run that was reaped without an error, and that nobody
  scanned while its Lead wrote, has every file in the ledger with all its tokens,
  though another scanner's rows roll the reaper's transaction back.
- `EndedRunsClose`, under weak fairness of the daemon (its loop, `Restart=always`):
  a run whose Lead has ended is closed even when its attribution raises.

What the code does otherwise than one would think: a run killed as a hang is
never attributed; the tokens of an agent's earlier calls go with the file it
reopens; a scan enters the unfinished files of a running Lead for good; and
`runs.tokens_used` can lose one of two simultaneous updates.

## 6. The orchestrator's conversation

`OrchestratorSession` is `orchestrator_service.py`, `orchestrator_main.py`,
`claude_sdk_client.py` and the row of `orchestrator_agents` behind them, for two
processes: `main` (the `/chat` server) and `bridge` (in the daemon).

| Code | Actions |
|---|---|
| the probe of `_lifespan`, `__init__` of the service; `get_active`, `resume_session`, `spawn_session` | `Probe`, `Adopt`, `FindNoRow`, `SpawnSession` |
| `process_user_message` and the stream of the CLI | `BeginStream`, `ReadInit`, `ReadResult`, `EndStream`, `FailStream` |
| `interrupt` | `Interrupt` |
| the lifespan of `orchestrator_main.py`, SIGTERM, the daemon's exit | `Terminate`, `DrainedStop`, `DrainDeadline`, `BridgeStop`; `Crash` |

`client` is the session the client would resume, `session` the one in the row,
`context` what the transcript of a session holds: a resumed message starts a session
with its parent's messages and its own. A message is streaming from `BeginStream`
to `EndStream`; nothing keeps a second one from starting.

**Run `session`**: both services, three messages, two starts, two messages at a
time, one fault. Two messages overlap, the third tells which session goes on; two
starts are one restart, or both services; every fault is a single cut. Deadlock
is not checked: messages and starts are used up.

- `ConversationGoesOn`: while messages come one at a time to the only service that
  was ever started, the session that is resumed next holds every answered message,
  through crashes and restarts.
- `MemoryMatchesRow`: the client and the row agree, also while messages overlap,
  if the service resumed a session.
- `TokensCountedOnce`: each result enters the totals once, whichever service reads it.
- `BusyIsTrue`: while messages come one at a time, `is_executing` is right, also
  after a failed stream.
- `ShutdownEnds`, under weak fairness of the lifespan's polling alone.

**`v_interrupt`** checks "Interrupt the currently executing Claude SDK subprocess"
(`orchestrator_service.py:250`): the handle that would be terminated is taken only
from a client with an attribute `_proc`, which it never has, so the interrupted
message streams on and brings its result. Its specification is the same
`FairSpec`, and the property is about a single step.

The conditions above are what the code needs, and the model violates the
properties without them: a service that began without a session writes, at the
end of a message, the one it took from the result over that of a later message
(`orchestrator_service.py:477`); a second service on the same row overwrites the
first one's session; overlapping messages fork the conversation; both services may
insert a row at the first start. Outside the model, a stream has no timeout and
its stderr is read only after stdout has ended; `daemon.py:402` consults the
orchestrator before the budget check, so a refused issue is consulted at every
poll; the chat history returns the oldest fifty messages. `orch_db.py`,
`close_session` and `create_session` are used by nothing.

## 7. The shared clone

`CloneShare` is the clone of one repository, under its dispatcher
(`repo_manager.py`, the notes in `dispatcher.py`) and its Leads (which read the
script of each phase from it, and add a worktree, `worktree_ops.py`).
`CloneDone`, `ConfigureIdentity`, `ReplaceDir`, `SkipDir`, `DirReplaced`, `WriteExclude`
and `Fetch` are the calls of `ensure_clone` and `sync`; `RecordRun`, `WriteNotes`,
`Spawn` and `SpawnFails` those of `_dispatch` that touch the tree. `CallFails` is a git
command, a copy or the exclude file that raises, which `poll_once` catches; `Crash` can
hit any step. `Update` resets tac-master's own tree, which the substrate is copied
from, to another commit: its version grows, and `missing` are the directories that
this commit does not have. A directory of the substrate has the version of its last
whole copy, or is in `torn` between its removal and the end of its copy; `SkipDir`
leaves it as it is if it is missing. A fetch in a clone that was cut may complete it
or, where no remote was configured yet, succeed without doing anything; the git
commands in such a clone may fail without a fault. There is one dispatcher: two of
them on one clone, as a `--once` run beside the daemon would be, are not modelled.

**Run `clone`**: two directories, two Leads of three phases, one of them with
notes, two updates, three faults. Two directories can be of two versions; one Lead
runs while the other is dispatched; three faults cut the clone, the injection and
a later one. Deadlock is not checked: both runs end.

- `LaunchedFresh`: the "FRESHNESS NOTE" (`repo_manager.py:175`): a run is recorded
  and launched only when every directory that tac-master had to give is whole and no
  older than tac-master's was when the dispatch began, wherever an earlier one was
  cut; and on a whole clone, unless the first one was cut. A directory that
  tac-master did not have is launched on as it is.
- `MissesWhileReplaced`: a Lead can miss the script of its next phase while
  another dispatch replaces the substrate; after one that failed doing so, until the
  next has ended; and from a directory that tac-master did not have. These windows
  are in the code; the property says that they close and that there is no other.
- `IdentityUnlessCut`: a Lead commits under the configured identity. The one
  exception, a first dispatch cut between `git clone` and `git config`, is in the code
  too, and lasts as long as the clone.
- `WorksInWorktree`: past its plan phase a Lead works in a worktree that git knows,
  although the dispatcher made a directory of that name.

**`v_notes`** checks "writes the top-K lessons into the worktree as
agents/_knowledge/prompt_tail.md for the Lead's planner to consume"
(`README.md:173`, `dispatcher.py:232`): the worktree does not exist yet, so the
notes are in a plain directory, which `create_worktree` removes as stale
(`worktree_ops.py:64`) before the planner starts.

Also: the docstring of `sync` says "Fetch + fast-forward main branch" and it
fetches; `cleanup_worktree` and `remove_worktree` are called by nothing, although
`repo_manager.py:11` says "Clean up worktrees on completion".

## 8. What follows a run

`RunEpilogue` is the end of `reap_finished_runs`: `Close` settles the row, then
`Callback` (`_update_cleo_task_status`) tells the CLEO task, `LookUp`, `Add`, `Label` and
`Note` file a follow-up (`_create_followup_task`), and `StartReflection` launches
`adw_reflect_iso.py`. `FetchRelevant` is `knowledge.fetch_relevant` over a ranking
of the matching lessons; `First` is the `ORDER BY rank LIMIT` of a search. The CLEO command line is external: each call has its effect or not
and succeeds or not, and may have had it and failed. `PassOver` is a run whose
Lead is alive, or which is killed as a hang. There is one dispatcher: two that reap
the same run could each file a follow-up for it, which the module does not cover.

**Run `epilogue`**: three runs, two repositories, one task of an issue and room for
three follow-ups, two lessons (the code asks for three; with three runs, two make
the limit bite), one fault. Three runs can be of one task, or a run, its follow-up
and the follow-up of that. Runs and repositories are interchangeable. A Lead's
saving is part of its end, and reflections by hand wait until all runs have ended:
neither is read by anything before. Deadlock is not checked: the runs end.

- `FollowupsEnd`: no follow-up hangs below a follow-up and no run causes two.
- `TaskTellsLastRun`: a task stands as the run of it that was reaped last left it,
  unless a call failed or the daemon died in that epilogue, which nothing makes good.
  A run killed as a hang is not reaped in this sense.
- `FollowupTraceable`: a follow-up is noted on its parent, under the same condition.
- `RelevantIsBest`: a look-up gives the matches with fewer than K others before them,
  those of the repository first, whatever matches and however it ranks.

What the code does otherwise than it says: a run killed as a hang gets no callback,
no follow-up and no reflection. The reflection that the daemon starts looks for the
Lead's state below tac-master's home or in the worktree, but Leads save it in the
clone, so it never writes a lesson, although `README.md:169` promises one after
every run; the script does write one when started from the clone by hand
(`ReflectByHand`, and the only way that `FetchRelevant` has anything to find). A
task that fails again after a retry gets a second "Fix:" follow-up. A callback that
failed is never repeated.

## 9. What is proved

Each module that models code has a proof module: `DispatcherProofs` and
`OneDispatcherProofs`, `LeadPipelineProofs`, `TokenLedgerProofs`,
`OrchestratorSessionProofs`, `CloneShareProofs` and `RunEpilogueProofs`. Between
them they state every invariant and action property of the passing runs, for every value of the constants that the assumptions of the models admit
(finitely many daemons, runs, agents, services, messages; limits that are numbers;
in `RunEpilogue`, room for a follow-up of every run). Any number of faults is
allowed unless a hypothesis below says otherwise. TLC finds every inductive invariant
true of the instance of its module's run.

Each proof has the same shape: a lemma that the initial states satisfy an
invariant, a lemma that every step keeps it (one step per action, given the
invariants proved before it), and the theorem, which combines the two with PTL.

### The dispatcher, any number of daemons

- **`TypeCorrect`**: `Spec => []TypeOK`.
- **`LaunchSafe`**: `Spec => []LaunchInv`. Between its row and its pid a run
  belongs to one daemon and is active and hidden from reapers; one that is being
  closed has a process which has ended. The point is the last conjunct: a Lead
  that is alive has an active row, whatever crashed, so that counting rows counts
  Leads.
- **`CapsHold`**: `Spec => []ConcurrencyCaps`. The property is not inductive: it
  says nothing of the daemons that have passed `can_dispatch` and not yet inserted
  their row. `CapInv` adds them: rows plus admitted daemons stay within
  `cap + |Daemons| - 1`. A daemon that passes the check finds fewer rows than the
  cap, and at most all daemons are admitted (`SumEnters`); one that inserts its row
  moves from one count to the other (`SumMoves`); nothing else adds to either
  (`SumShrinks`). With `LaunchSafe` the bound on rows is one on Leads.
- **`DailyCapHolds`**: `Spec => []DailyCap`, in the same way with `DayInv`. At
  midnight the day's count is empty again while all daemons may have been
  admitted the day before.
- **`HandHolds`**: `HandInv` says what a daemon has in hand at each `pc`; the rest
  of the section uses it.
- **`OneSlotPerFaultHolds`**, if `BadRuntime = {}`. A run without a pid either is in
  some daemon's hand or was lost when a fault took it from there. A repository whose
  `runtime` `make_runner` refuses loses a slot without any fault
  (`RefuseRuntime`: the exception is raised before the `try`), so the hypothesis is
  needed; run `core` has such a repository.
- **`TriggersFireOnce`**: `Spec => []TriggerInv`, and from it
  **`EachTriggerOnceHolds`**, if `NoRequests`. The property counts the Leads of an
  issue; that count grows at `Spawn`, long after the status was read, so `TriggerInv`
  adds to it the daemons that are heading for a launch (`FewFor`), and says that as
  long as the status lets a further one pass, the Leads launched since the last
  retry belong to daemons about to write `dispatched`, or a fault took the daemon
  away (`FreeFor`). Then a daemon that passes the check is not one of them. A retry
  resets this once for each daemon. Issues somebody has asked for where comments are
  a trigger (`Heard`) are left out of `TriggerInv`, and `NoRequests` (no comments, or
  no repository that heeds them) says that there are none: with them the property is
  false, which is the finding of `v_readme`.

- **`ClosedAsItEndedHolds`**: `Spec => []ClosedAsItEnded`. A verdict is read at one
  step and written at two later ones, with the other daemons in between. `EndInv`
  adds to the property that a verdict in hand is one the run tells (`Tells`: its state
  file, or failed if it is past the age of a hang), and that the row is closed before
  the issue. It is inductive because the Lead of a run that is being closed has
  ended (`LaunchSafe`), so its file is written no more, and because a run never gets
  younger: a verdict that was right when it was read is right when it is written.
- **`ReapersAgree`** and **`VerdictsStand`** follow from `EndInv`. Below the age of a
  hang two daemons with a verdict on the same run have the same one; no step reopens
  a closed run, nor overturns its verdict below that age.
- **`LeadsFollowOutline`** and **`OutlineIsALead`** tie the two levels of Leads. Each Lead
  of `Dispatcher` implements `LeadOutline` (`StepMoves`: a step of the dispatcher leaves
  a Lead alone, moves it on by a stage or ends it), and every step of `LeadOutline` is
  one that `Dispatcher` allows a live Lead. The phase chains implement `LeadOutline`
  (`ImplementsLeadOutline`), and the verdict on a Lead is the same function of the
  outline's state on both sides (`InferredIsVerdict`, `VerdictIsOutlines`). So what is
  proved of the Leads of `Dispatcher`, which may do all that the outline does, is
  proved of Leads that run these chains.

### The dispatcher, one daemon

These assume `OneDaemon`: two daemons that reap one run may write different
verdicts, and one may close an issue before the other marks it. `SoleInv` says what
holds when nobody else closes a daemon's runs: those it has listed are active, and
between the two writes of a reaping the row has the verdict.

- **`StatusBackedHolds`**: `StatusBackedByRun`, with any number of faults.
- **`DispatchedIsTrackedHolds`**: `DispatchedIsTracked`, if `MaxFaults = 0`. A fault
  between `update_run` and `set_issue_status` leaves the issue `dispatched` for good
  (section 3).
- **`FollowsLifecycle`**: `Spec => RunsFollowLifecycle`, the refinement. Each action
  is a step of `RunLifecycle` under the mapping or a stutter; `CapInv` gives the
  guards of `Register`, `LaunchInv` those of launching and settling.
- **`OneLeadPerIssueHolds`**, with any number of faults, comments, operators and
  retries. The property counts live Leads. `TiedInv` counts the runs of an issue that
  have a Lead or may still settle the issue (`Tied`), and says that all but one of
  them have escaped the status, by a fault or one of the ways `overridden` counts, and
  that one only while the issue is `dispatched` or about to be. `PassedInv` says that
  an issue which did not pass by an "adw" comment stays `seen` until its dispatch is
  marked, so that a run tied to an issue that is `dispatched` escapes only as counted.
- **`CompletedStaysCompleted`**: `CompletedIsFinal`, if also `OneOperator` and
  `MaxFaults = 0`. It is about issues that nobody has asked for, which pass by no
  comment (`UnaskedInv`); `AskInv` says that the issue an operator is about to write
  `seen` to is still closed, and `OverInv` that only a fault lets a run of such an issue
  escape. A run that escaped through a fault may end after another has completed the
  issue, and overwrite it with `failed`; an operator whose check is older than
  another's retry may write `seen` over `completed`, or over `dispatched` (section 3).

### A Lead

- **`TypeCorrect`**. The calls of a phase are a table, and the type of the next call
  is read off it: `Where` says in which phase and loop each call can be.
- **`StateNeverShrinksHolds`** and **`ImplementsLeadOutline`** (refinement of
  `LeadOutline`), from `SavedInv`: the file is the last complete one or unreadable,
  and a phase that has loaded it has all its fields in memory.
- **`MergedMeansGatedHolds`**, from `GateInv`: the phases before the running one ended
  well or are tolerated, those after it have not started, and the test phase never
  ends well on a failing suite.
- **`CleanExitSucceedsHolds`**, from `PlanInv`: from `find_plan` on, the plan is in
  memory and, between saves, in the file.
- **`CleanExitPublishesHolds`**, from `PublishInv`: past its push a phase has nothing
  unpublished unless the push failed; the ship phase, which has no push, inherits it,
  and the documentation phase starts with it, so that skipping it loses nothing.

### The token ledger

- **`BudgetHolds`** and **`TotalHolds`**: sums over files, runs and scanners, from the
  laws of `SumOver` in `TotalsTheorems`. `BudgetMatchesLedger` is inductive together
  with `Locals`, which ties what a scanner holds (`gain`) to its `pc`, and
  `FoundOfRun`. `TotalWithinLedger` is not: a scanner adds to a total it read before,
  so `TotalsLeaveRoom` says that the total of a run *and any total a scanner has read
  of it* leave room for all that is still owed to the run by any scanner.
- **`TypeCorrect`**: the bounds on totals follow from these two.
- **`ReapedIsCountedHolds`**, from `AttributedInv`: of a run that nobody read too
  early, a scanner holds exactly what the files hold (`FoundIsOutput`), so that once
  one file of it is in the ledger all are (`AllOrNone`), and when another scanner's
  rows roll the reaper's transaction back, these are the same rows.

### The conversation

- **`TypeCorrect`** and **`TokensCountedOnceHolds`**: types with the sum of the totals,
  which bounds each, `RowsInv` (rows are inserted by starts) and `Places` (where a
  message streams, and that its result is read once).
- **`BusyIsTrueHolds`**, from `OneAtATime`.
- **`MemoryMatchesRowHolds`** and **`ConversationGoesOnHolds`**: `MemoryInv` extends the
  property to a service that drains, `RowInv` follows the session from the newest row
  through a start, `ResultInv` says that a result carries the session of the memory,
  and `HeldInv` that a message which was sent goes on from the row's session and is
  held by it once it is being answered.

### The clone and the epilogue

- `CloneShare`: **`TypeCorrect`** and **`WorksInWorktreeHolds`** with `Progress`;
  **`LaunchedFreshHolds`** and **`MissesHolds`** from `Replaced` (the directories before
  the one being replaced are whole and at least as new as the start of the
  dispatch, but for those that were passed over); **`IdentityHolds`** from `Identified`.
- `RunEpilogue`: **`TypeCorrect`** with `InHand`; **`FollowupsEndHolds`** and
  **`FollowupTraceableHolds`** from `FollowupInv` (a follow-up is known by its title,
  which is what the code looks at, and hangs below the task of the run that caused
  it, which is none) with `RunsInv` and `HandInv`; **`TaskTellsLastRunHolds`** from
  `LastInv`.
- **`RelevantIsBestHolds`** needs no invariant beyond types: it is a lemma about finite
  sets and rankings (`BestAreFetched`). The first `n` of a ranked set with that many
  members are `n` (`FirstIsFull`: the number of members before each is an injection
  into the places, so every place is taken), and they are closed under what ranks
  before them (`FirstIsClosed`). `fetch_relevant` searches the repository first and
  then fetches `K` and the missing ones of all; no more than the known ones can be
  taken out of these, so the missing ones are left, or all there are.

### What TLC alone checks

- Liveness: `EveryTrackedRunEnds`, `LeadEnds`, `EndedRunsClose`, `ShutdownEnds`. The
  prover does not treat fairness and ENABLED.
- The properties of the three violation runs, which are false of the code.

## 10. Not modelled

- **Webhook server**: it verifies a signature and hands one issue to a dispatcher
  of its own in another process; two dispatchers on one database are run `pair`.
  What is particular to it is a thread: the event is dispatched in the background
  with a store whose SQLite connection belongs to another thread, which refuses
  it, so an acknowledged event is lost. The issue it makes up has
  `comments_count` 0, and deliveries are not told apart by their id.
- **Ports**: derived from a hash and probed; two Leads can be given the same one,
  and who binds it is the work of agents.
- **Dashboard server and client**: a broadcast of stored events and its rendering;
  no modelled part reads what they keep.
- **Podman runner**: the same interface as the native one; the container is not
  told apart from its process.
- **Legacy ADW triggers**: stand-alone predecessors that nothing in the daemon calls.
- **Configuration, migrations, scripts**: read or run once, with no behaviour over
  time that the modelled parts depend on. The units' `Restart` and `KillMode` and
  the update of tac-master's tree are in the `Crash` and `Update` actions.
- **Texts**: prompts, comments, plans, lessons and titles beyond their kind;
  `create_issue_from_task` is called by nothing.
