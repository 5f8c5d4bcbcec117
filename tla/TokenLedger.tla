--------------------------- MODULE TokenLedger ----------------------------
(* Attribution of tokens (orchestrator/token_tracker.py).  Each agent of a   *)
(* Lead writes the record of its calls to a file; attribute_run enters every *)
(* file into token_ledger once and adds its tokens to the total of the run   *)
(* and to the budget of the day, in three transactions.  The daemon does so  *)
(* when it reaps a run, an operator whenever he scans.                       *)
EXTENDS Totals, FiniteSetsExt

CONSTANTS
    Runs,        \* numbers, in the order of the rows of the table
    Agents,      \* numbers, in the order in which their directories are sorted
    Daemon,      \* the scanner that reaps
    Operators,   \* scanners that run the command line
    MaxTokens,   \* bound: tokens that one call of an agent spends
    MaxCalls,    \* bound: calls of agents that find an older file
    MaxScans,    \* bound: scans by operators
    MaxFaults    \* bound: crashes and failing transactions

Scanners == {Daemon} \cup Operators

ASSUME OrderAssumption ==
    /\ Runs \subseteq Nat /\ IsFiniteSet(Runs)
    /\ Agents \subseteq Nat /\ IsFiniteSet(Agents)
ASSUME ScannersAssumption == IsFiniteSet(Operators) /\ Daemon \notin Operators
ASSUME BoundsAssumption ==
    MaxTokens \in Nat /\ MaxCalls \in Nat /\ MaxScans \in Nat /\ MaxFaults \in Nat

VARIABLES
    lead,      \* of each run: "running", "ended"
    closed,    \* how its row was closed: "no", "reaped", "killed"
    out,       \* tokens in each agent's raw_output.jsonl, Absent if there is none
    ledger,    \* tokens in each file's row of token_ledger, Absent if there is none
    used,      \* runs.tokens_used
    daily,     \* budget_usage.tokens_used of today, for all repositories
    pc, todo, found, first, gain, current,   \* locals of each scanner
    calls, scans, faults,  \* bounds
    early,     \* history: runs whose files were read before their Lead had ended
    missed,    \* history: runs whose attribution failed when they were reaped
    dropped    \* history: tokens entered by a scanner that stopped before the budget

vars == <<lead, closed, out, ledger, used, daily, pc, todo, found, first, gain,
          current, calls, scans, faults, early, missed, dropped>>
leadVars == <<lead, out, calls>>
books == <<ledger, used, daily>>
history == <<early, missed, dropped>>

Absent == -1
Files == Runs \X Agents

\* A file that is not there adds nothing.
Entered(r) == SumOver({r} \X Agents, ledger)

Unread == [f \in Files |-> Absent]
ScannedBy(s) == CHOOSE r \in todo[s] : \A q \in todo[s] : r <= q

Init ==
    /\ lead = [r \in Runs |-> "running"] /\ closed = [r \in Runs |-> "no"]
    /\ out = Unread /\ ledger = Unread
    /\ used = [r \in Runs |-> 0] /\ daily = 0
    /\ pc = [s \in Scanners |-> "idle"] /\ todo = [s \in Scanners |-> {}]
    /\ found = [s \in Scanners |-> Unread]
    /\ first = [s \in Scanners |-> 0] /\ gain = [s \in Scanners |-> 0]
    /\ current = [s \in Scanners |-> 0]
    /\ calls = 0 /\ scans = 0 /\ faults = 0
    /\ early = {} /\ missed = {} /\ dropped = 0

----------------------------------------------------------------------------
\* Leads.

\* The first call of an agent creates its file; any later call, and every retry
\* of a call, opens it with "w" and so drops what the calls before have written.
OpenOutput(r, a) ==
    /\ lead[r] = "running"
    /\ out[<<r, a>>] # Absent => calls < MaxCalls
    /\ calls' = IF out[<<r, a>>] = Absent THEN calls ELSE calls + 1
    /\ out' = [out EXCEPT ![<<r, a>>] = 0]
    /\ UNCHANGED <<lead, closed, books, pc, todo, found, first, gain, current, scans,
                   faults, history>>

SpendToken(r, a) ==
    /\ lead[r] = "running" /\ out[<<r, a>>] \in 0 .. MaxTokens - 1
    /\ out' = [out EXCEPT ![<<r, a>>] = @ + 1]
    /\ UNCHANGED <<lead, closed, books, pc, todo, found, first, gain, current, calls,
                   scans, faults, history>>

LeadEnds(r) ==
    /\ lead[r] = "running"
    /\ lead' = [lead EXCEPT ![r] = "ended"]
    /\ UNCHANGED <<closed, out, books, pc, todo, found, first, gain, current, calls,
                   scans, faults, history>>

----------------------------------------------------------------------------
\* The daemon.

\* Mutant: a run with rows in the ledger is taken to be attributed already.
ReapStartUnattributed(r) ==
    /\ pc[Daemon] = "idle" /\ lead[r] = "ended" /\ closed[r] = "no"
    /\ \A a \in Agents : ledger[<<r, a>>] = Absent
    /\ pc' = [pc EXCEPT ![Daemon] = "discover"]
    /\ todo' = [todo EXCEPT ![Daemon] = {r}]
    /\ UNCHANGED <<leadVars, closed, books, found, first, gain, current, scans, faults,
                   history>>

\* A Lead found dead is attributed before its row is closed.
ReapStart(r) ==
    /\ pc[Daemon] = "idle" /\ lead[r] = "ended" /\ closed[r] = "no"
    /\ pc' = [pc EXCEPT ![Daemon] = "discover"]
    /\ todo' = [todo EXCEPT ![Daemon] = {r}]
    /\ UNCHANGED <<leadVars, closed, books, found, first, gain, current, scans, faults,
                   history>>

\* A Lead that is too old is killed and its row closed; nothing is attributed.
KillHung(r) ==
    /\ pc[Daemon] = "idle" /\ lead[r] = "running"
    /\ lead' = [lead EXCEPT ![r] = "ended"]
    /\ closed' = [closed EXCEPT ![r] = "killed"]
    /\ UNCHANGED <<out, books, pc, todo, found, first, gain, current, calls, scans,
                   faults, history>>

ReapClose ==
    /\ pc[Daemon] = "done"
    /\ pc' = [pc EXCEPT ![Daemon] = "idle"]
    /\ closed' = [r \in Runs |-> IF r \in todo[Daemon] THEN "reaped" ELSE closed[r]]
    /\ todo' = [todo EXCEPT ![Daemon] = {}]
    /\ UNCHANGED <<leadVars, books, found, first, gain, current, scans, faults, history>>

----------------------------------------------------------------------------
\* The command line.

\* --adw-id scans one run, --scan-all every row of the table.
ScanStart(s) ==
    /\ s \in Operators /\ pc[s] = "idle" /\ scans < MaxScans
    /\ \E picked \in {{r} : r \in Runs} \cup {Runs} :
         picked # {} /\ todo' = [todo EXCEPT ![s] = picked]
    /\ scans' = scans + 1
    /\ pc' = [pc EXCEPT ![s] = "discover"]
    /\ UNCHANGED <<leadVars, closed, books, found, first, gain, current, faults, history>>

ScanNext(s) ==
    /\ s \in Operators /\ pc[s] = "done"
    /\ LET rest == todo[s] \ {ScannedBy(s)}
       IN  /\ todo' = [todo EXCEPT ![s] = rest]
           /\ pc' = [pc EXCEPT ![s] = IF rest = {} THEN "idle" ELSE "discover"]
    /\ UNCHANGED <<leadVars, closed, books, found, first, gain, current, scans, faults,
                   history>>

----------------------------------------------------------------------------
\* attribute_run.

\* discover_phase_files reads whatever the files hold by now.
Discover(s) ==
    /\ pc[s] = "discover"
    /\ LET r == ScannedBy(s)
       IN  /\ found' = [found EXCEPT ![s] = [f \in Files |-> IF f[1] = r THEN out[f]
                                                             ELSE Absent]]
           /\ early' = IF lead[r] = "running" THEN early \cup {r} ELSE early
    /\ pc' = [pc EXCEPT ![s] = "select"]
    /\ UNCHANGED <<leadVars, closed, books, todo, first, gain, current, scans, faults,
                   missed, dropped>>

\* The SELECTs up to the first file that has no row: there is no transaction yet.
SelectFirst(s) ==
    /\ pc[s] = "select"
    /\ LET new == {f \in Files : found[s][f] # Absent /\ ledger[f] = Absent}
       IN  IF new = {}
             THEN pc' = [pc EXCEPT ![s] = "done"] /\ found' = [found EXCEPT ![s] = Unread]
                  /\ UNCHANGED first
             ELSE /\ pc' = [pc EXCEPT ![s] = "insert"]
                  /\ first' = [first EXCEPT ![s] = Min({f[2] : f \in new})]
                  /\ UNCHANGED found
    /\ UNCHANGED <<leadVars, closed, books, todo, gain, current, scans, faults,
                   history>>

\* Mutant: only the first file is entered.
InsertNewOneFile(s) ==
    /\ pc[s] = "insert"
    /\ LET r == ScannedBy(s)
           new == {<<r, first[s]>>}
           sum == SumOver(new, found[s])
       IN  /\ ledger[<<r, first[s]>>] = Absent
           /\ ledger' = [f \in Files |-> IF f \in new THEN found[s][f] ELSE ledger[f]]
           /\ gain' = [gain EXCEPT ![s] = sum]
           /\ pc' = [pc EXCEPT ![s] = IF sum > 0 THEN "read_used" ELSE "done"]
           /\ found' = [found EXCEPT ![s] = Unread] /\ first' = [first EXCEPT ![s] = 0]
    /\ UNCHANGED <<leadVars, closed, used, daily, todo, current, scans,
                   faults, history>>

\* Mutant: INSERT OR IGNORE, and the file is counted all the same.
InsertNewOrIgnore(s) ==
    /\ pc[s] = "insert"
    /\ LET r == ScannedBy(s)
           new == {f \in Files : found[s][f] # Absent /\ ledger[f] = Absent}
           sum == SumOver(new \cup {<<r, first[s]>>}, found[s])
       IN  /\ ledger' = [f \in Files |-> IF f \in new THEN found[s][f] ELSE ledger[f]]
           /\ gain' = [gain EXCEPT ![s] = sum]
           /\ pc' = [pc EXCEPT ![s] = IF sum > 0 THEN "read_used" ELSE "done"]
           /\ found' = [found EXCEPT ![s] = Unread] /\ first' = [first EXCEPT ![s] = 0]
    /\ UNCHANGED <<leadVars, closed, used, daily, todo, current, scans,
                   faults, history>>

\* The first INSERT takes the write lock, so the files after it are checked and
\* entered in one transaction with it.
InsertNew(s) ==
    /\ pc[s] = "insert"
    /\ LET r == ScannedBy(s)
           new == {f \in Files : found[s][f] # Absent /\ ledger[f] = Absent}
           sum == SumOver(new, found[s])
       IN  /\ ledger[<<r, first[s]>>] = Absent
           /\ ledger' = [f \in Files |-> IF f \in new THEN found[s][f] ELSE ledger[f]]
           /\ gain' = [gain EXCEPT ![s] = sum]
           /\ pc' = [pc EXCEPT ![s] = IF sum > 0 THEN "read_used" ELSE "done"]
           /\ found' = [found EXCEPT ![s] = Unread] /\ first' = [first EXCEPT ![s] = 0]
    /\ UNCHANGED <<leadVars, closed, used, daily, todo, current, scans,
                   faults, history>>

ReadUsed(s) ==
    /\ pc[s] = "read_used"
    /\ current' = [current EXCEPT ![s] = used[ScannedBy(s)]]
    /\ pc' = [pc EXCEPT ![s] = "write_used"]
    /\ UNCHANGED <<leadVars, closed, books, todo, found, first, gain, scans, faults, history>>

WriteUsed(s) ==
    /\ pc[s] = "write_used"
    /\ used' = [used EXCEPT ![ScannedBy(s)] = current[s] + gain[s]]
    /\ current' = [current EXCEPT ![s] = 0]
    /\ pc' = [pc EXCEPT ![s] = "add_daily"]
    /\ UNCHANGED <<leadVars, closed, ledger, daily, todo, found, first, gain, scans,
                   faults, history>>

\* add_tokens: the rows of the repository and of __global__ in one transaction.
AddDaily(s) ==
    /\ pc[s] = "add_daily"
    /\ daily' = daily + gain[s]
    /\ gain' = [gain EXCEPT ![s] = 0]
    /\ pc' = [pc EXCEPT ![s] = "done"]
    /\ UNCHANGED <<leadVars, closed, ledger, used, todo, found, first, current, scans,
                   faults, history>>

\* What the scanner has entered and not yet added to the budget is never added.
Stops(s) ==
    /\ dropped' = dropped + gain[s]
    /\ gain' = [gain EXCEPT ![s] = 0] /\ current' = [current EXCEPT ![s] = 0]
    /\ found' = [found EXCEPT ![s] = Unread] /\ first' = [first EXCEPT ![s] = 0]
    /\ UNCHANGED <<leadVars, closed, books, scans, early>>

\* An exception of attribute_run: the reaper logs it and closes the run all the
\* same, the command line ends.
Raises(s) ==
    /\ pc' = [pc EXCEPT ![s] = IF s = Daemon THEN "done" ELSE "idle"]
    /\ todo' = IF s = Daemon THEN todo ELSE [todo EXCEPT ![s] = {}]
    /\ Stops(s)

\* Somebody has entered the file since the SELECT: the UNIQUE constraint fails
\* and the transaction is rolled back.
InsertClashes(s) ==
    /\ pc[s] = "insert" /\ ledger[<<ScannedBy(s), first[s]>>] # Absent
    /\ Raises(s)
    /\ UNCHANGED <<faults, missed>>

\* A transaction fails, as with a database that is locked for too long.
StoreFails(s) ==
    /\ pc[s] \in {"select", "insert", "read_used", "write_used", "add_daily"}
    /\ faults < MaxFaults /\ faults' = faults + 1
    /\ Raises(s)
    /\ missed' = IF s = Daemon THEN missed \cup todo[s] ELSE missed

\* The scanner's process is gone; the daemon comes back and reaps again.
Crash(s) ==
    /\ pc[s] # "idle" /\ faults < MaxFaults /\ faults' = faults + 1
    /\ pc' = [pc EXCEPT ![s] = "idle"] /\ todo' = [todo EXCEPT ![s] = {}]
    /\ Stops(s) /\ UNCHANGED missed

----------------------------------------------------------------------------
Attribute(s) == \/ Discover(s) \/ SelectFirst(s) \/ InsertNew(s) \/ InsertClashes(s)
                \/ ReadUsed(s) \/ WriteUsed(s) \/ AddDaily(s)

DaemonStep == (\E r \in Runs : ReapStart(r)) \/ ReapClose \/ Attribute(Daemon)

Next == \/ \E r \in Runs : \/ LeadEnds(r) \/ KillHung(r)
                           \/ \E a \in Agents : OpenOutput(r, a) \/ SpendToken(r, a)
        \/ DaemonStep
        \/ \E s \in Operators : ScanStart(s) \/ ScanNext(s) \/ Attribute(s)
        \/ \E s \in Scanners : StoreFails(s) \/ Crash(s)

Spec == Init /\ [][Next]_vars

\* The loop of the daemon goes on, and systemd restarts it.
FairSpec == Spec /\ WF_vars(DaemonStep)

----------------------------------------------------------------------------
Amounts == Absent .. MaxTokens
MaxSum == MaxTokens * Cardinality(Files)

TypeOK ==
    /\ lead \in [Runs -> {"running", "ended"}]
    /\ closed \in [Runs -> {"no", "reaped", "killed"}]
    /\ out \in [Files -> Amounts] /\ ledger \in [Files -> Amounts]
    /\ used \in [Runs -> 0 .. MaxSum] /\ daily \in 0 .. MaxSum
    /\ pc \in [Scanners -> {"idle", "discover", "select", "insert", "read_used",
                            "write_used", "add_daily", "done"}]
    /\ todo \in [Scanners -> SUBSET Runs]
    /\ \A s \in Scanners : /\ found[s] \in [Files -> Amounts]
                           /\ first[s] \in {0} \cup Agents
                           /\ gain[s] \in 0 .. MaxSum /\ current[s] \in 0 .. MaxSum
    /\ calls \in 0 .. MaxCalls /\ scans \in 0 .. MaxScans /\ faults \in 0 .. MaxFaults
    /\ early \subseteq Runs /\ missed \subseteq Runs /\ dropped \in 0 .. MaxSum

\* Every token that is in the ledger is in the budget of the day exactly once, on
\* its way there, or lost with a scanner that stopped in between: no rescan, no
\* two scans at the same time and no reaping after a restart count it again.
BudgetMatchesLedger ==
    daily + dropped + SumOver(Scanners, gain) = SumOver(Files, ledger)

\* The total of a run never exceeds what its ledger rows hold.  It can stay
\* below: two scanners that enter different files of the run both read the old
\* total, and the second write loses the first (token_tracker.py:359-367).
TotalWithinLedger ==
    \A r \in Runs : used[r] <= Entered(r)

\* What two scanners do to one run at the same time, the daemon among them, does
\* not lose a file: a run that was reaped without an error, and that nobody
\* scanned while its Lead was running, has every file in the ledger with all
\* its tokens, also if the reaper's own transaction was rolled back.
ReapedIsCounted ==
    \A r \in Runs : closed[r] = "reaped" /\ r \notin early \cup missed =>
        \A a \in Agents : ledger[<<r, a>>] = out[<<r, a>>]

\* A run whose Lead has ended is closed, even if its attribution fails.
EndedRunsClose == \A r \in Runs : lead[r] = "ended" ~> closed[r] # "no"
============================================================================
