--------------------------- MODULE RunLifecycle ---------------------------
(* What the runs table promises an operator, without daemons, polls or      *)
(* transactions: a run is registered within the concurrency caps, its Lead  *)
(* is launched at most once and only while the run is open, and the run is  *)
(* settled once, after its Lead has stopped (orchestrator/dispatcher.py,    *)
(* budget.py).  Dispatcher implements it; see Dispatcher!RunsFollowLifecycle.*)
EXTENDS Naturals, FiniteSets

CONSTANTS Runs, Repos, MaxConcurrent, RepoMaxConcurrent, NoRepo

VARIABLES
    row,    \* "none", "open", or the final status of the run
    repoOf, \* the repository the run was registered for
    work    \* the run's Lead: "none", "live", "ended"

vars == <<row, repoOf, work>>

Final == {"succeeded", "failed", "incomplete"}
Open == {r \in Runs : row[r] = "open"}
OpenIn(repo) == {r \in Open : repoOf[r] = repo}

Init ==
    /\ row = [r \in Runs |-> "none"]
    /\ repoOf = [r \in Runs |-> NoRepo]
    /\ work = [r \in Runs |-> "none"]

\* One more run, while the budgets allow one more.
Register(r, repo) ==
    /\ row[r] = "none"
    /\ Cardinality(Open) < MaxConcurrent
    /\ Cardinality(OpenIn(repo)) < RepoMaxConcurrent
    /\ row' = [row EXCEPT ![r] = "open"]
    /\ repoOf' = [repoOf EXCEPT ![r] = repo]
    /\ UNCHANGED work

Launch(r) ==
    /\ row[r] = "open" /\ work[r] = "none"
    /\ work' = [work EXCEPT ![r] = "live"]
    /\ UNCHANGED <<row, repoOf>>

\* A Lead ends by itself or is killed; a crash of the machine ends several.
End ==
    /\ \E some \in SUBSET {r \in Runs : work[r] = "live"} :
         work' = [r \in Runs |-> IF r \in some THEN "ended" ELSE work[r]]
    /\ UNCHANGED <<row, repoOf>>

\* A run whose Lead was never launched can only fail.
Settle(r, status) ==
    /\ row[r] = "open" /\ work[r] # "live"
    /\ work[r] = "none" => status = "failed"
    /\ row' = [row EXCEPT ![r] = status]
    /\ UNCHANGED <<repoOf, work>>

Next ==
    \/ \E r \in Runs : \/ \E repo \in Repos : Register(r, repo)
                       \/ Launch(r)
                       \/ \E status \in Final : Settle(r, status)
    \/ End

Spec == Init /\ [][Next]_vars
============================================================================
