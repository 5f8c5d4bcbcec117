---------------------------- MODULE CloneShare ----------------------------
(* The clone of one repository, which the dispatcher and all Leads of the   *)
(* repository share: the dispatcher clones it at the first dispatch, fetches *)
(* before each one and replaces the copies of tac-master's substrate in it  *)
(* (repo_manager.py); it writes notes for the Lead and launches it          *)
(* (dispatcher.py, runner.py); each phase of a Lead is a script read from   *)
(* the clone, the first of which makes the worktree (worktree_ops.py).      *)
EXTENDS Naturals

CONSTANTS
    Dirs,        \* how many SUBSTRATE_DIRS there are
    Leads,       \* the runs to dispatch, by ADW id
    Noted,       \* those for which there are lessons or a CLEO task
    Phases,      \* phases of a workflow
    MaxUpdates,  \* bound: updates of tac-master's own files
    MaxFaults    \* bound: failing calls and crashes of the dispatcher

ASSUME NotedAssumption == Noted \subseteq Leads
ASSUME BoundsAssumption ==
    /\ Dirs \in Nat /\ MaxUpdates \in Nat /\ MaxFaults \in Nat
    /\ Phases \in Nat \ {0}

VARIABLES
    home,      \* the version of the substrate in tac-master's own tree
    missing,   \* the directories of it that tac-master's own tree lacks
    clone,     \* "absent", "cut" (git was killed in it), "whole"
    identity,  \* user.name and user.email are set in it
    excluded,  \* info/exclude names the substrate
    copy,      \* of each directory, the version of its last whole copy, 0 if none
    torn,      \* directories that are removed or copied in part
    pc,        \* the dispatcher: "idle", "cloning", "identity", "inject",
               \* "copying", "exclude", "fetch", "record", "notes", "spawn"
    run,       \* the run it dispatches
    next,      \* the directory to replace next
    syncing,   \* the injection is that of sync, not that of ensure_clone
    from,      \* the version of the copy in progress
    lead,      \* of each run: "none", "recorded", "ready" (for its next phase),
               \* "planning", "working", "missed" (a script was not found),
               \* "failed", "ended", "killed"
    phase,     \* of each run, its phases so far
    tree,      \* of each run, trees/<adw_id>: "absent", "bare", "worktree"
    notes,     \* of each run, the notes of the dispatcher in its tree: "none", "there",
               \* "lost"
    faults,    \* bound
    since,     \* history: the version at home when the dispatch began
    cut,       \* history: a crash or a failure cut the first clone short
    spoilt,    \* history: a replacement has failed or was cut, and none ended since
    skipped    \* history: the directories the last injection found missing at home

source == <<home, missing>>
shared == <<clone, identity, excluded, copy, torn>>
daemon == <<pc, run, next, syncing, from, since>>
leads  == <<lead, phase, tree, notes>>
history == <<cut, spoilt, skipped>>
vars   == <<source, shared, daemon, leads, faults, history>>

\* A git command fails by a fault, or because the clone was cut.
GitFails == \/ faults < MaxFaults /\ faults' = faults + 1
            \/ clone = "cut" /\ UNCHANGED faults

Running == {l \in Leads : lead[l] \in {"ready", "planning", "working"}}

Init ==
    /\ home = 1 /\ missing = {} /\ clone = "absent" /\ identity = FALSE /\ excluded = FALSE
    /\ copy = [d \in 1 .. Dirs |-> 0] /\ torn = {}
    /\ pc = "idle" /\ run \in Leads /\ next = 1 /\ syncing = FALSE /\ from = 0
    /\ lead = [l \in Leads |-> "none"] /\ phase = [l \in Leads |-> 0]
    /\ tree = [l \in Leads |-> "absent"] /\ notes = [l \in Leads |-> "none"]
    /\ faults = 0 /\ since = 0 /\ cut = FALSE /\ spoilt = FALSE /\ skipped = {}

\* tac-update.sh resets tac-master's tree while everything runs; what a commit
\* has dropped is gone, what it has brought is there.
Update ==
    /\ home <= MaxUpdates /\ home' = home + 1
    /\ missing' \in SUBSET (1 .. Dirs)
    /\ UNCHANGED <<shared, daemon, leads, faults, history>>

----------------------------------------------------------------------------
\* The dispatcher.

\* ensure_clone: a directory that exists is taken for the clone.
Dispatch(l) ==
    /\ pc = "idle" /\ lead[l] = "none"
    /\ run' = l /\ since' = home
    /\ IF clone = "absent"
         THEN pc' = "cloning" /\ clone' = "cut"
         ELSE pc' = "fetch" /\ UNCHANGED clone
    /\ UNCHANGED <<source, identity, excluded, copy, torn, next, syncing, from, leads,
                   faults, history>>

\* Mutated: the identity is left to the global configuration.
CloneDoneAnonymous ==
    /\ pc = "cloning" /\ clone' = "whole"
    /\ pc' = "inject" /\ next' = 1 /\ syncing' = FALSE /\ skipped' = {}
    /\ UNCHANGED <<source, identity, excluded, copy, torn, run, from, since, leads, faults,
                   cut, spoilt>>

CloneDone ==
    /\ pc = "cloning" /\ clone' = "whole" /\ pc' = "identity"
    /\ UNCHANGED <<source, identity, excluded, copy, torn, run, next, syncing, from, since,
                   leads, faults, history>>

ConfigureIdentity ==
    /\ pc = "identity" /\ identity' = TRUE
    /\ pc' = "inject" /\ next' = 1 /\ syncing' = FALSE /\ skipped' = {}
    /\ UNCHANGED <<source, clone, excluded, copy, torn, run, from, since, leads, faults,
                   cut, spoilt>>

\* sync: git fetch, then the substrate.  A clone that was cut may hold enough
\* for the fetch to complete it; one without a remote has nothing to fetch, and
\* that is no error.
Fetch ==
    /\ pc = "fetch" /\ clone' \in {clone, "whole"}
    /\ pc' = "inject" /\ next' = 1 /\ syncing' = TRUE /\ skipped' = {}
    /\ UNCHANGED <<source, identity, excluded, copy, torn, run, from, since, leads, faults,
                   cut, spoilt>>

\* Mutated: a directory that is there is not copied again.
ReplaceDirIfMissing ==
    /\ pc = "inject" /\ next <= Dirs /\ next \notin missing
    /\ IF copy[next] > 0 \/ next \in torn
         THEN next' = next + 1 /\ UNCHANGED <<torn, from, pc>>
         ELSE torn' = torn \cup {next} /\ from' = home /\ pc' = "copying"
                /\ UNCHANGED next
    /\ UNCHANGED <<source, clone, identity, excluded, copy, run, syncing, since, leads,
                   faults, history>>

\* rmtree and copytree of the next directory.
ReplaceDir ==
    /\ pc = "inject" /\ next <= Dirs /\ next \notin missing
    /\ torn' = torn \cup {next} /\ from' = home /\ pc' = "copying"
    /\ UNCHANGED <<source, clone, identity, excluded, copy, run, next, syncing, since,
                   leads, faults, history>>

\* A directory that tac-master does not have is left as it is in the clone, with
\* a warning.
SkipDir ==
    /\ pc = "inject" /\ next <= Dirs /\ next \in missing
    /\ skipped' = skipped \cup {next} /\ next' = next + 1
    /\ UNCHANGED <<source, shared, pc, run, syncing, from, since, leads, faults, cut,
                   spoilt>>

\* Files that were updated meanwhile do not make the copy newer as a whole.
DirReplaced ==
    /\ pc = "copying"
    /\ copy' = [copy EXCEPT ![next] = from] /\ torn' = torn \ {next}
    /\ next' = next + 1 /\ pc' = "inject"
    /\ UNCHANGED <<source, clone, identity, excluded, run, syncing, from, since, leads,
                   faults, history>>

\* After ensure_clone comes sync, after sync the run.  That git does not tell
\* the file is only logged; it cannot where the clone was cut.
WriteExclude ==
    /\ pc = "inject" /\ next > Dirs
    /\ \/ excluded' = TRUE /\ UNCHANGED faults
       \/ GitFails /\ UNCHANGED excluded
    /\ spoilt' = FALSE
    /\ pc' = IF syncing THEN "record" ELSE "fetch"
    /\ UNCHANGED <<source, clone, identity, copy, torn, run, next, syncing, from, since,
                   leads, cut, skipped>>

\* create_run, update_run and record_dispatch.
RecordRun ==
    /\ pc = "record" /\ pc' = "notes"
    /\ lead' = [lead EXCEPT ![run] = "recorded"]
    /\ UNCHANGED <<source, shared, run, next, syncing, from, since, phase, tree, notes,
                   faults, history>>

\* The lessons and the CLEO context are written into the directory that the
\* worktree is to be; whatever fails there is logged.
WriteNotes ==
    /\ pc = "notes" /\ pc' = "spawn"
    /\ IF run \in Noted
         THEN \/ notes' = [notes EXCEPT ![run] = "there"] /\ tree' = [tree EXCEPT ![run] = "bare"]
              \/ UNCHANGED <<notes, tree>>
         ELSE UNCHANGED <<notes, tree>>
    /\ UNCHANGED <<source, shared, run, next, syncing, from, since, lead, phase, faults,
                   history>>

\* NativeRunner.spawn.
Spawn ==
    /\ pc = "spawn" /\ pc' = "idle"
    /\ lead' = [lead EXCEPT ![run] = "ready"]
    /\ UNCHANGED <<source, shared, run, next, syncing, from, since, phase, tree, notes,
                   faults, history>>

Replacing == pc \in {"inject", "copying"}

\* Mutated: a copy that fails is logged, and the next directory replaced.
CallFailsLogged ==
    /\ pc \in {"cloning", "identity", "fetch", "copying"} \/ (pc = "inject" /\ next > Dirs)
    /\ faults < MaxFaults /\ faults' = faults + 1
    /\ IF pc = "copying" THEN pc' = "inject" /\ next' = next + 1
       ELSE pc' = "idle" /\ UNCHANGED next
    /\ clone' = IF pc = "cloning" THEN "absent" ELSE clone
    /\ cut' = (cut \/ pc = "identity") /\ spoilt' = (spoilt \/ Replacing)
    /\ UNCHANGED <<source, identity, excluded, copy, torn, run, syncing, from, since, leads,
                   skipped>>

\* A git command, the copy or the exclude file fails, and the exception ends the
\* dispatch in poll_once; git removes the directory of a clone that fails.
CallFails ==
    /\ pc \in {"cloning", "identity", "fetch", "copying"} \/ (pc = "inject" /\ next > Dirs)
    /\ faults < MaxFaults /\ faults' = faults + 1
    /\ pc' = "idle"
    /\ clone' = IF pc = "cloning" THEN "absent" ELSE clone
    /\ cut' = (cut \/ pc = "identity") /\ spoilt' = (spoilt \/ Replacing)
    /\ UNCHANGED <<source, identity, excluded, copy, torn, run, next, syncing, from, since,
                   leads, skipped>>

\* The launch fails and the run is closed, or there is no runner for the
\* repository's runtime and the run is left as recorded.
SpawnFails ==
    /\ pc = "spawn" /\ pc' = "idle"
    /\ faults < MaxFaults /\ faults' = faults + 1
    /\ lead' \in {lead, [lead EXCEPT ![run] = "failed"]}
    /\ UNCHANGED <<source, shared, run, next, syncing, from, since, phase, tree, notes,
                   history>>

\* The daemon dies anywhere and starts again; KillMode=mixed of its unit kills
\* the Leads, a daemon run by hand leaves them.
Crash ==
    /\ faults < MaxFaults /\ faults' = faults + 1
    /\ pc' = "idle"
    /\ cut' = (cut \/ pc \in {"cloning", "identity"}) /\ spoilt' = (spoilt \/ Replacing)
    /\ \E K \in {{}, Running} :
         lead' = [l \in Leads |-> IF l \in K THEN "killed" ELSE lead[l]]
    /\ UNCHANGED <<source, shared, run, next, syncing, from, since, phase, tree, notes,
                   skipped>>

----------------------------------------------------------------------------
\* A Lead.

There(d) == d \notin torn /\ copy[d] > 0
Whole == \A d \in 1 .. Dirs : There(d)

\* uv runs the script of the next phase out of the clone.
StartPhase(l) ==
    /\ lead[l] = "ready"
    /\ phase' = [phase EXCEPT ![l] = @ + 1]
    /\ lead' = [lead EXCEPT ![l] = IF phase[l] = 0 THEN "planning" ELSE "working"]
    /\ UNCHANGED <<source, shared, daemon, tree, notes, faults, history>>

\* The script or a module of it is just not there.
MissScript(l) ==
    /\ lead[l] = "ready" /\ ~Whole
    /\ lead' = [lead EXCEPT ![l] = "missed"]
    /\ UNCHANGED <<source, shared, daemon, phase, tree, notes, faults, history>>

\* Mutated: a directory that exists is taken for the worktree.
CreateWorktreeAdopting(l) ==
    /\ lead[l] = "planning"
    /\ tree' = [tree EXCEPT ![l] = IF @ = "absent" THEN "worktree" ELSE @]
    /\ lead' = [lead EXCEPT ![l] = "working"]
    /\ UNCHANGED <<source, shared, daemon, phase, notes, faults, history>>

\* A directory that git does not know is stale: it is removed with all it
\* holds, and the worktree added in its place, if git can.
CreateWorktree(l) ==
    /\ lead[l] = "planning"
    /\ notes' = [notes EXCEPT ![l] = IF @ = "there" THEN "lost" ELSE @]
    /\ \/ /\ tree' = [tree EXCEPT ![l] = "worktree"]
          /\ lead' = [lead EXCEPT ![l] = "working"] /\ UNCHANGED faults
       \/ /\ GitFails
          /\ tree' = [tree EXCEPT ![l] = "absent"]
          /\ lead' = [lead EXCEPT ![l] = "failed"]
    /\ UNCHANGED <<source, shared, daemon, phase, history>>

\* Mutated: one phase too many.
EndPhaseLate(l) ==
    /\ lead[l] = "working"
    /\ lead' = [lead EXCEPT ![l] = IF phase[l] <= Phases THEN "ready" ELSE "ended"]
    /\ UNCHANGED <<source, shared, daemon, phase, tree, notes, faults, history>>

EndPhase(l) ==
    /\ lead[l] = "working"
    /\ lead' = [lead EXCEPT ![l] = IF phase[l] < Phases THEN "ready" ELSE "ended"]
    /\ UNCHANGED <<source, shared, daemon, phase, tree, notes, faults, history>>

----------------------------------------------------------------------------
Next ==
    \/ Update \/ CloneDone \/ ConfigureIdentity \/ Fetch \/ ReplaceDir \/ SkipDir
    \/ DirReplaced \/ WriteExclude \/ RecordRun \/ WriteNotes \/ Spawn
    \/ CallFails \/ SpawnFails \/ Crash
    \/ \E l \in Leads : \/ Dispatch(l) \/ StartPhase(l) \/ MissScript(l)
                        \/ CreateWorktree(l) \/ EndPhase(l)

Spec == Init /\ [][Next]_vars

----------------------------------------------------------------------------
TypeOK ==
    /\ home \in 1 .. MaxUpdates + 1 /\ clone \in {"absent", "cut", "whole"}
    /\ identity \in BOOLEAN /\ excluded \in BOOLEAN /\ syncing \in BOOLEAN
    /\ cut \in BOOLEAN /\ spoilt \in BOOLEAN
    /\ missing \subseteq 1 .. Dirs /\ skipped \subseteq 1 .. Dirs
    /\ copy \in [1 .. Dirs -> 0 .. MaxUpdates + 1] /\ torn \subseteq 1 .. Dirs
    /\ pc \in {"idle", "cloning", "identity", "inject", "copying", "fetch", "record",
               "notes", "spawn"}
    /\ run \in Leads /\ next \in 1 .. Dirs + 1 /\ from \in 0 .. home /\ since \in 0 .. home
    /\ lead \in [Leads -> {"none", "recorded", "ready", "planning", "working", "missed",
                           "failed", "ended", "killed"}]
    /\ phase \in [Leads -> 0 .. Phases]
    /\ tree \in [Leads -> {"absent", "bare", "worktree"}]
    /\ notes \in [Leads -> {"none", "there", "lost"}]
    /\ faults \in 0 .. MaxFaults

\* FRESHNESS NOTE (repo_manager.py:175): wherever an earlier dispatch failed or
\* died, a run is recorded and launched only when every directory of the
\* substrate that tac-master had to give is whole and no older than tac-master's
\* was when the dispatch began, and in a whole clone unless the first was cut.
LaunchedFresh ==
    pc \in {"record", "notes", "spawn"} =>
        /\ \A d \in (1 .. Dirs) \ skipped : There(d) /\ copy[d] >= since
        /\ clone = "whole" \/ cut

\* A Lead can miss the script of its next phase only while the dispatch of
\* another run replaces the substrate, until the next dispatch after one that
\* failed or died doing so, or from a directory that tac-master no longer had.
MissesWhileReplaced ==
    Running # {} => \/ Replacing \/ spoilt
                    \/ \A d \in (1 .. Dirs) \ skipped : There(d)

\* A Lead commits under the configured identity, unless the very first dispatch
\* was cut short between git clone and git config: nobody configures it later.
IdentityUnlessCut == Running # {} /\ ~identity => cut

\* What the dispatcher leaves in trees/ is never taken for the worktree: past
\* the plan phase a Lead works in one that git knows.
WorksInWorktree == \A l \in Leads : lead[l] = "working" => tree[l] = "worktree"

\* "writes the top-K lessons into the worktree as
\* agents/_knowledge/prompt_tail.md for the Lead's planner to consume"
\* (README.md:173): once written, they are there when the planner runs.
NotesReachPlanner == \A l \in Leads : lead[l] = "working" => notes[l] # "lost"
============================================================================
