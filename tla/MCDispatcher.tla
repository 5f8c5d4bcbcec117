--------------------------- MODULE MCDispatcher ---------------------------
(* Small instances of Dispatcher for TLC.                                   *)
EXTENDS Dispatcher, TLC

CONSTANTS i1, i2, ra, rb

TwoRepos == [i \in {i1, i2} |-> IF i = i1 THEN ra ELSE rb]
OneIssue == [i \in {i1} |-> ra]

NewIssueOnly == [repo \in Repos |-> {"new_issue"}]
NewOrLabel   == [repo \in Repos |-> {"new_issue", "label"}]
RaTakesAll   == [repo \in Repos |-> IF repo = ra THEN {"new_issue", "label", "comment_adw"}
                                     ELSE {"new_issue"}]
CommentsOnly == [repo \in Repos |-> {"comment_adw"}]

\* ADW ids are interchangeable (random hex strings).
RunSymmetry == Permutations(Runs)
\* So are operators, and dispatcher processes.
CrewSymmetry == Permutations(Runs) \union Permutations(Operators)
FleetSymmetry == Permutations(Runs) \union Permutations(Daemons)
============================================================================
