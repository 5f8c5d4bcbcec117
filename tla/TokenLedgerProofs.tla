------------------------- MODULE TokenLedgerProofs -------------------------
(* Theorems about TokenLedger, for any finite sets of runs, agents and       *)
(* operators and for all bounds.                                             *)
EXTENDS TokenLedger, TotalsTheorems

USE OrderAssumption, ScannersAssumption, BoundsAssumption

LEMMA SetsFinite == IsFiniteSet(Files) /\ IsFiniteSet(Scanners)
<1>1. IsFiniteSet(Runs \X Agents) BY FS_Product
<1>2. IsFiniteSet({Daemon}) BY FS_Singleton
<1>3. IsFiniteSet({Daemon} \cup Operators) BY <1>2, FS_Union
<1> QED BY <1>1, <1>3 DEF Files, Scanners

LEMMA LeastChosen ==
  ASSUME NEW T, T \subseteq Nat, T # {}
  PROVE  /\ Min(T) \in T
         /\ (CHOOSE r \in T : \A q \in T : r <= q) \in T
  BY LeastExists DEF Min

---------------------------------------------------------------------------
(* Types without the bounds on the totals, and the locals of a scanner.      *)

Types ==
    /\ lead \in [Runs -> {"running", "ended"}]
    /\ closed \in [Runs -> {"no", "reaped", "killed"}]
    /\ out \in [Files -> Amounts] /\ ledger \in [Files -> Amounts]
    /\ used \in [Runs -> Nat] /\ daily \in Nat
    /\ pc \in [Scanners -> {"idle", "discover", "select", "insert", "read_used",
                            "write_used", "add_daily", "done"}]
    /\ todo \in [Scanners -> SUBSET Runs]
    /\ found \in [Scanners -> [Files -> Amounts]]
    /\ first \in [Scanners -> {0} \cup Agents]
    /\ gain \in [Scanners -> Nat] /\ current \in [Scanners -> Nat]
    /\ calls \in 0 .. MaxCalls /\ scans \in 0 .. MaxScans /\ faults \in 0 .. MaxFaults
    /\ early \subseteq Runs /\ missed \subseteq Runs /\ dropped \in Nat

\* A scanner at work has a run left to scan, and it holds tokens only between
\* its transactions.
Locals ==
    \A s \in Scanners :
        /\ pc[s] # "idle" => todo[s] # {}
        /\ pc[s] = "insert" => first[s] \in Agents
        /\ gain[s] # 0 => pc[s] \in {"read_used", "write_used", "add_daily"}
        /\ current[s] # 0 => pc[s] = "write_used"

\* What it has discovered are files of the run that it scans.
FoundOfRun ==
    \A s \in Scanners : pc[s] \in {"select", "insert"} =>
        \A f \in Files : found[s][f] # Absent => f[1] = ScannedBy(s)

LEMMA ScannedInTodo ==
  ASSUME Types, Locals, NEW s \in Scanners, pc[s] # "idle"
  PROVE  ScannedBy(s) \in todo[s] /\ ScannedBy(s) \in Runs
<1>1. todo[s] \subseteq Runs /\ todo[s] # {} BY DEF Types, Locals
<1>2. ScannedBy(s) \in todo[s] BY <1>1, LeastChosen DEF ScannedBy
<1> QED BY <1>1, <1>2

LEMMA InitTypes == Init => Types /\ Locals /\ FoundOfRun
<1> SUFFICES ASSUME Init PROVE Types /\ Locals /\ FoundOfRun OBVIOUS
<1>1. Unread \in [Files -> Amounts] BY DEF Unread, Amounts, Absent
<1>2. Types BY <1>1 DEF Init, Types
<1>3. Locals /\ FoundOfRun BY DEF Init, Locals, FoundOfRun
<1> QED BY <1>2, <1>3

LEMMA StepTypes == Types /\ Locals /\ [Next]_vars => Types'
<1> SUFFICES ASSUME Types, Locals, [Next]_vars PROVE Types'
  OBVIOUS
<1>0. Unread \in [Files -> Amounts] /\ Daemon \in Scanners
  BY DEF Unread, Amounts, Absent, Scanners
<1> USE DEF Types, leadVars, books, history
<1>1. ASSUME NEW r \in Runs, LeadEnds(r) PROVE Types'
  BY <1>0, <1>1 DEF LeadEnds
<1>2. ASSUME NEW r \in Runs, KillHung(r) PROVE Types'
  BY <1>0, <1>2 DEF KillHung
<1>3. ASSUME NEW r \in Runs, NEW a \in Agents, OpenOutput(r, a) PROVE Types'
  <2>1. out' \in [Files -> Amounts] BY <1>3 DEF OpenOutput, Files, Amounts, Absent
  <2> QED BY <1>3, <2>1 DEF OpenOutput
<1>4. ASSUME NEW r \in Runs, NEW a \in Agents, SpendToken(r, a) PROVE Types'
  <2>1. out' \in [Files -> Amounts] BY <1>4 DEF SpendToken, Files, Amounts, Absent
  <2> QED BY <1>4, <2>1 DEF SpendToken
<1>5. ASSUME NEW r \in Runs, ReapStart(r) PROVE Types'
  BY <1>0, <1>5 DEF ReapStart
<1>6. CASE ReapClose
  BY <1>0, <1>6 DEF ReapClose
<1>7. ASSUME NEW s \in Operators, ScanStart(s) PROVE Types'
  <2>1. s \in Scanners BY DEF Scanners
  <2> QED BY <1>7, <2>1 DEF ScanStart
<1>8. ASSUME NEW s \in Operators, ScanNext(s) PROVE Types'
  <2>1. s \in Scanners BY DEF Scanners
  <2> QED BY <1>8, <2>1 DEF ScanNext
<1>9. ASSUME NEW s \in Scanners, Discover(s) PROVE Types'
  <2>1. ScannedBy(s) \in Runs BY <1>9, ScannedInTodo DEF Discover
  <2>2. [f \in Files |-> IF f[1] = ScannedBy(s) THEN out[f] ELSE Absent] \in [Files -> Amounts]
    BY DEF Amounts, Absent
  <2> QED BY <1>9, <2>1, <2>2 DEF Discover
<1>10. ASSUME NEW s \in Scanners, SelectFirst(s) PROVE Types'
  <2> DEFINE new == {f \in Files : found[s][f] # Absent /\ ledger[f] = Absent}
  <2>1. CASE new = {} BY <1>10, <2>1, <1>0 DEF SelectFirst
  <2>2. CASE new # {}
    <3>1. {f[2] : f \in new} \subseteq Agents /\ {f[2] : f \in new} # {}
      BY <2>2 DEF Files
    <3>2. Min({f[2] : f \in new}) \in Agents
      <4> HIDE DEF new
      <4> QED BY <3>1, LeastChosen
    <3> QED BY <1>10, <2>2, <3>2 DEF SelectFirst
  <2> QED BY <2>1, <2>2
<1>11. ASSUME NEW s \in Scanners, InsertNew(s) PROVE Types'
  <2> DEFINE new == {f \in Files : found[s][f] # Absent /\ ledger[f] = Absent}
  <2>1. SumOver(new, found[s]) \in Nat
    <3>1. IsFiniteSet(new) BY SetsFinite, FS_Subset
    <3>2. \A f \in new : found[s][f] \in Int BY DEF Amounts, Absent
    <3> HIDE DEF new
    <3> QED BY <3>1, <3>2, SumIsNatural
  <2>2. [f \in Files |-> IF f \in new THEN found[s][f] ELSE ledger[f]] \in [Files -> Amounts]
    OBVIOUS
  <2> QED BY <1>11, <1>0, <2>1, <2>2 DEF InsertNew
<1>12. ASSUME NEW s \in Scanners, InsertClashes(s) PROVE Types'
  BY <1>0, <1>12 DEF InsertClashes, Raises, Stops
<1>13. ASSUME NEW s \in Scanners, ReadUsed(s) PROVE Types'
  <2>1. ScannedBy(s) \in Runs BY <1>13, ScannedInTodo DEF ReadUsed
  <2> QED BY <1>13, <2>1 DEF ReadUsed
<1>14. ASSUME NEW s \in Scanners, WriteUsed(s) PROVE Types'
  <2>1. ScannedBy(s) \in Runs BY <1>14, ScannedInTodo DEF WriteUsed
  <2> QED BY <1>14, <2>1 DEF WriteUsed
<1>15. ASSUME NEW s \in Scanners, AddDaily(s) PROVE Types'
  BY <1>0, <1>15 DEF AddDaily
<1>16. ASSUME NEW s \in Scanners, StoreFails(s) PROVE Types'
  <2>1. todo' \in [Scanners -> SUBSET Runs] /\ missed' \subseteq Runs
    BY <1>0, <1>16 DEF StoreFails, Raises
  <2>2. faults' \in 0 .. MaxFaults BY <1>16 DEF StoreFails
  <2>3. pc' \in [Scanners -> {"idle", "discover", "select", "insert", "read_used",
                              "write_used", "add_daily", "done"}]
    BY <1>16 DEF StoreFails, Raises
  <2> QED BY <1>0, <1>16, <2>1, <2>2, <2>3 DEF StoreFails, Raises, Stops
<1>17. ASSUME NEW s \in Scanners, Crash(s) PROVE Types'
  BY <1>0, <1>17 DEF Crash, Stops
<1>18. CASE UNCHANGED vars
  BY <1>18 DEF vars
<1> QED
  BY <1>1, <1>2, <1>3, <1>4, <1>5, <1>6, <1>7, <1>8, <1>9, <1>10, <1>11, <1>12,
     <1>13, <1>14, <1>15, <1>16, <1>17, <1>18 DEF Next, DaemonStep, Attribute, Scanners

LEMMA StepLocals == Types /\ Locals /\ [Next]_vars => Locals'
<1> SUFFICES ASSUME Types, Locals, [Next]_vars PROVE Locals'
  OBVIOUS
<1>0. Daemon \in Scanners BY DEF Scanners
<1> USE DEF Types, Locals, leadVars, books, history
<1>1. ASSUME NEW r \in Runs, LeadEnds(r) PROVE Locals'
  BY <1>0, <1>1 DEF LeadEnds
<1>2. ASSUME NEW r \in Runs, KillHung(r) PROVE Locals'
  BY <1>0, <1>2 DEF KillHung
<1>3. ASSUME NEW r \in Runs, NEW a \in Agents, OpenOutput(r, a) PROVE Locals'
  BY <1>0, <1>3 DEF OpenOutput
<1>4. ASSUME NEW r \in Runs, NEW a \in Agents, SpendToken(r, a) PROVE Locals'
  BY <1>0, <1>4 DEF SpendToken
<1>5. ASSUME NEW r \in Runs, ReapStart(r) PROVE Locals'
  BY <1>0, <1>5 DEF ReapStart
<1>6. CASE ReapClose
  BY <1>0, <1>6 DEF ReapClose
<1>7. ASSUME NEW s \in Operators, ScanStart(s) PROVE Locals'
  <2>1. s \in Scanners BY DEF Scanners
  <2> QED BY <1>7, <2>1 DEF ScanStart
<1>8. ASSUME NEW s \in Operators, ScanNext(s) PROVE Locals'
  <2>1. s \in Scanners BY DEF Scanners
  <2> QED BY <1>8, <2>1 DEF ScanNext
<1>9. ASSUME NEW s \in Scanners, Discover(s) PROVE Locals'
  BY <1>0, <1>9 DEF Discover
<1>10. ASSUME NEW s \in Scanners, SelectFirst(s) PROVE Locals'
  <2> DEFINE new == {f \in Files : found[s][f] # Absent /\ ledger[f] = Absent}
  <2>1. CASE new = {} BY <1>10, <2>1 DEF SelectFirst
  <2>2. CASE new # {}
    <3>1. {f[2] : f \in new} \subseteq Agents /\ {f[2] : f \in new} # {}
      BY <2>2 DEF Files
    <3>2. Min({f[2] : f \in new}) \in Agents
      <4> HIDE DEF new
      <4> QED BY <3>1, LeastChosen
    <3> QED BY <1>10, <2>2, <3>2 DEF SelectFirst
  <2> QED BY <2>1, <2>2
<1>11. ASSUME NEW s \in Scanners, InsertNew(s) PROVE Locals'
  <2> DEFINE sum == SumOver({f \in Files : found[s][f] # Absent /\ ledger[f] = Absent}, found[s])
  <2>1. /\ gain' = [gain EXCEPT ![s] = sum]
        /\ pc' = [pc EXCEPT ![s] = IF sum > 0 THEN "read_used" ELSE "done"]
        /\ pc[s] = "insert" /\ UNCHANGED <<todo, current>> /\ first' = [first EXCEPT ![s] = 0]
    BY <1>11 DEF InsertNew
  <2>2. Types' BY StepTypes
  <2> HIDE DEF sum
  <2>3. sum \in Nat BY <2>1, <2>2
  <2> QED BY <2>1, <2>3
<1>12. ASSUME NEW s \in Scanners, InsertClashes(s) PROVE Locals'
  BY <1>0, <1>12 DEF InsertClashes, Raises, Stops
<1>13. ASSUME NEW s \in Scanners, ReadUsed(s) PROVE Locals'
  BY <1>0, <1>13 DEF ReadUsed
<1>14. ASSUME NEW s \in Scanners, WriteUsed(s) PROVE Locals'
  BY <1>0, <1>14 DEF WriteUsed
<1>15. ASSUME NEW s \in Scanners, AddDaily(s) PROVE Locals'
  BY <1>0, <1>15 DEF AddDaily
<1>16. ASSUME NEW s \in Scanners, StoreFails(s) PROVE Locals'
  BY <1>0, <1>16 DEF StoreFails, Raises, Stops
<1>17. ASSUME NEW s \in Scanners, Crash(s) PROVE Locals'
  BY <1>0, <1>17 DEF Crash, Stops
<1>18. CASE UNCHANGED vars
  BY <1>18 DEF vars
<1> QED
  BY <1>1, <1>2, <1>3, <1>4, <1>5, <1>6, <1>7, <1>8, <1>9, <1>10, <1>11, <1>12,
     <1>13, <1>14, <1>15, <1>16, <1>17, <1>18 DEF Next, DaemonStep, Attribute, Scanners

LEMMA StepFound == Types /\ Locals /\ FoundOfRun /\ [Next]_vars => FoundOfRun'
<1> SUFFICES ASSUME Types, Locals, FoundOfRun, [Next]_vars PROVE FoundOfRun'
  OBVIOUS
<1>0. Daemon \in Scanners BY DEF Scanners
<1> USE DEF Types, FoundOfRun, ScannedBy, leadVars, books, history
<1>1. ASSUME NEW r \in Runs, LeadEnds(r) PROVE FoundOfRun'
  BY <1>0, <1>1 DEF LeadEnds
<1>2. ASSUME NEW r \in Runs, KillHung(r) PROVE FoundOfRun'
  BY <1>0, <1>2 DEF KillHung
<1>3. ASSUME NEW r \in Runs, NEW a \in Agents, OpenOutput(r, a) PROVE FoundOfRun'
  BY <1>0, <1>3 DEF OpenOutput
<1>4. ASSUME NEW r \in Runs, NEW a \in Agents, SpendToken(r, a) PROVE FoundOfRun'
  BY <1>0, <1>4 DEF SpendToken
<1>5. ASSUME NEW r \in Runs, ReapStart(r) PROVE FoundOfRun'
  BY <1>0, <1>5 DEF ReapStart
<1>6. CASE ReapClose
  BY <1>0, <1>6 DEF ReapClose
<1>7. ASSUME NEW s \in Operators, ScanStart(s) PROVE FoundOfRun'
  <2>1. s \in Scanners BY DEF Scanners
  <2> QED BY <1>7, <2>1 DEF ScanStart
<1>8. ASSUME NEW s \in Operators, ScanNext(s) PROVE FoundOfRun'
  <2>1. s \in Scanners BY DEF Scanners
  <2> QED BY <1>8, <2>1 DEF ScanNext
<1>9. ASSUME NEW s \in Scanners, Discover(s) PROVE FoundOfRun'
  BY <1>0, <1>9 DEF Discover
<1>10. ASSUME NEW s \in Scanners, SelectFirst(s) PROVE FoundOfRun'
  <2> DEFINE new == {f \in Files : found[s][f] # Absent /\ ledger[f] = Absent}
  <2>1. CASE new = {} BY <1>10, <2>1 DEF SelectFirst
  <2>2. CASE new # {}
    <3>1. UNCHANGED <<found, todo>> /\ pc[s] = "select" /\ pc' = [pc EXCEPT ![s] = "insert"]
      BY <1>10, <2>2 DEF SelectFirst
    <3> QED BY <3>1
  <2> QED BY <2>1, <2>2
<1>11. ASSUME NEW s \in Scanners, InsertNew(s) PROVE FoundOfRun'
  BY <1>0, <1>11 DEF InsertNew
<1>12. ASSUME NEW s \in Scanners, InsertClashes(s) PROVE FoundOfRun'
  BY <1>0, <1>12 DEF InsertClashes, Raises, Stops
<1>13. ASSUME NEW s \in Scanners, ReadUsed(s) PROVE FoundOfRun'
  BY <1>0, <1>13 DEF ReadUsed
<1>14. ASSUME NEW s \in Scanners, WriteUsed(s) PROVE FoundOfRun'
  BY <1>0, <1>14 DEF WriteUsed
<1>15. ASSUME NEW s \in Scanners, AddDaily(s) PROVE FoundOfRun'
  BY <1>0, <1>15 DEF AddDaily
<1>16. ASSUME NEW s \in Scanners, StoreFails(s) PROVE FoundOfRun'
  BY <1>0, <1>16 DEF StoreFails, Raises, Stops
<1>17. ASSUME NEW s \in Scanners, Crash(s) PROVE FoundOfRun'
  BY <1>0, <1>17 DEF Crash, Stops
<1>18. CASE UNCHANGED vars
  BY <1>18 DEF vars
<1> QED
  BY <1>1, <1>2, <1>3, <1>4, <1>5, <1>6, <1>7, <1>8, <1>9, <1>10, <1>11, <1>12,
     <1>13, <1>14, <1>15, <1>16, <1>17, <1>18 DEF Next, DaemonStep, Attribute, Scanners

LEMMA TypesHold == Spec => [](Types /\ Locals /\ FoundOfRun)
  BY InitTypes, StepTypes, StepLocals, StepFound, PTL DEF Spec

---------------------------------------------------------------------------
(* The budget of the day.                                                   *)

LEMMA TotalsNatural ==
  ASSUME Types
  PROVE  /\ SumOver(Scanners, gain) \in Nat /\ SumOver(Files, ledger) \in Nat
         /\ \A r \in Runs : IsFiniteSet({r} \X Agents) /\ Entered(r) \in Nat
<1>1. SumOver(Scanners, gain) \in Nat
  <2>1. \A s \in Scanners : gain[s] \in Int BY DEF Types
  <2> QED BY <2>1, SetsFinite, SumIsNatural
<1>2. \A f \in Files : ledger[f] \in Int BY DEF Types, Amounts, Absent
<1>3. SumOver(Files, ledger) \in Nat BY <1>2, SetsFinite, SumIsNatural
<1>4. ASSUME NEW r \in Runs PROVE IsFiniteSet({r} \X Agents) /\ Entered(r) \in Nat
  <2>1. IsFiniteSet({r} \X Agents)
    <3>1. IsFiniteSet({r}) BY FS_Singleton
    <3> QED BY <3>1, FS_Product
  <2>2. \A f \in {r} \X Agents : ledger[f] \in Int BY <1>2 DEF Files
  <2> QED BY <2>1, <2>2, SumIsNatural DEF Entered
<1> QED BY <1>1, <1>3, <1>4

\* What is entered raises the total of the ledger and that of its run.
LEMMA LedgerGrows ==
  ASSUME Types, Locals, FoundOfRun, NEW s \in Scanners, InsertNew(s)
  PROVE  \E sum \in Nat :
           /\ gain[s] = 0 /\ gain' = [gain EXCEPT ![s] = sum]
           /\ pc' = [pc EXCEPT ![s] = IF sum > 0 THEN "read_used" ELSE "done"]
           /\ SumOver(Files, ledger') = SumOver(Files, ledger) + sum
           /\ \A r \in Runs :
                Entered(r)' = Entered(r) + (IF r = ScannedBy(s) THEN sum ELSE 0)
<1> DEFINE new == {f \in Files : found[s][f] # Absent /\ ledger[f] = Absent}
           sum == SumOver(new, found[s])
<1>1. pc[s] = "insert" BY DEF InsertNew
<1>2. ScannedBy(s) \in Runs BY <1>1, ScannedInTodo
<1>3. /\ gain' = [gain EXCEPT ![s] = sum]
      /\ pc' = [pc EXCEPT ![s] = IF sum > 0 THEN "read_used" ELSE "done"]
      /\ ledger' = [f \in Files |-> IF f \in new THEN found[s][f] ELSE ledger[f]]
  BY DEF InsertNew
<1>4. gain[s] = 0 BY <1>1 DEF Locals
<1>5. /\ \A f \in Files : ledger[f] \in Int /\ found[s][f] \in Int
      /\ \A f \in new : ledger[f] <= 0
  BY DEF Types, Amounts, Absent
<1>6. new \subseteq Files /\ new \subseteq {ScannedBy(s)} \X Agents
  BY <1>1 DEF FoundOfRun, Files
<1>7. IsFiniteSet(new) BY <1>6, SetsFinite, FS_Subset
<1>8. sum \in Nat
  <2>1. \A f \in new : found[s][f] \in Int BY <1>5, <1>6
  <2> HIDE DEF new
  <2> QED BY <2>1, <1>7, SumIsNatural
<1>9. SumOver(Files, ledger') = SumOver(Files, ledger) + sum
  <2>1. /\ \A f \in new : ledger'[f] = found[s][f]
        /\ \A f \in Files \ new : ledger'[f] = ledger[f]
    BY <1>3
  <2> HIDE DEF new
  <2> QED BY <2>1, <1>5, <1>6, SetsFinite, SumEnter
<1>10. ASSUME NEW r \in Runs
       PROVE  Entered(r)' = Entered(r) + (IF r = ScannedBy(s) THEN sum ELSE 0)
  <2>1. {r} \X Agents \subseteq Files BY DEF Files
  <2>2. Entered(r)' = SumOver({r} \X Agents, ledger') BY DEF Entered
  <2>3. Entered(r) \in Nat BY TotalsNatural
  <2>4. CASE r = ScannedBy(s)
    <3>1. /\ \A f \in new : ledger'[f] = found[s][f]
          /\ \A f \in ({r} \X Agents) \ new : ledger'[f] = ledger[f]
      BY <1>3, <1>6, <2>1
    <3>2. /\ IsFiniteSet({r} \X Agents) /\ new \subseteq {r} \X Agents
          /\ \A f \in {r} \X Agents : ledger[f] \in Int /\ found[s][f] \in Int
      BY <2>1, <2>4, <1>5, <1>6, TotalsNatural
    <3>3. SumOver({r} \X Agents, ledger') = SumOver({r} \X Agents, ledger) + sum
      <4> HIDE DEF new
      <4> QED BY <3>1, <3>2, <1>5, SumEnter
    <3> QED BY <3>3, <2>2, <2>4 DEF Entered
  <2>5. CASE r # ScannedBy(s)
    <3>1. \A f \in {r} \X Agents : ledger'[f] = ledger[f]
      BY <1>3, <1>6, <2>1, <2>5
    <3>2. SumOver({r} \X Agents, ledger') = SumOver({r} \X Agents, ledger)
      BY <3>1, SumSame
    <3> QED BY <3>2, <2>2, <2>3, <2>5 DEF Entered
  <2> QED BY <2>4, <2>5
<1> HIDE DEF new, sum
<1> QED BY <1>3, <1>4, <1>8, <1>9, <1>10

\* A scanner that stops drops what it has not added, and nothing else.
LEMMA GainDropped ==
  ASSUME Types, NEW s \in Scanners, NEW g, g = [gain EXCEPT ![s] = 0]
  PROVE  SumOver(Scanners, g) \in Nat /\ SumOver(Scanners, g) + gain[s] = SumOver(Scanners, gain)
<1>1. gain \in [Scanners -> Nat] /\ g \in [Scanners -> Nat] /\ g[s] = 0
  BY DEF Types
<1>2. \A t \in Scanners \ {s} : gain[t] = g[t] BY DEF Types
<1>0. s \in Scanners OBVIOUS
<1>3. SumOver(Scanners, g) + gain[s] = SumOver(Scanners, gain) + g[s]
  BY ONLY <1>0, <1>1, <1>2, SetsFinite, SumChangeNat
<1>4. SumOver(Scanners, g) \in Nat
  <2>1. \A t \in Scanners : g[t] \in Int BY <1>1
  <2> QED BY <2>1, SetsFinite, SumIsNatural
<1> QED BY <1>1, <1>3, <1>4, TotalsNatural

LEMMA InitBudget == Init => BudgetMatchesLedger
<1> SUFFICES ASSUME Init PROVE BudgetMatchesLedger OBVIOUS
<1>1. Units(Scanners, gain) = {} BY DEF Init, Units
<1>2. Units(Files, ledger) = {} BY DEF Init, Units, Unread, Absent
<1>3. SumOver(Scanners, gain) = 0 /\ SumOver(Files, ledger) = 0
  BY <1>1, <1>2, FS_EmptySet DEF SumOver
<1> QED BY <1>3 DEF Init, BudgetMatchesLedger

LEMMA StepBudget ==
    Types /\ Locals /\ FoundOfRun /\ BudgetMatchesLedger /\ [Next]_vars => BudgetMatchesLedger'
<1> SUFFICES ASSUME Types, Locals, FoundOfRun, BudgetMatchesLedger, [Next]_vars PROVE BudgetMatchesLedger'
  OBVIOUS
<1>0. SumOver(Scanners, gain) \in Nat /\ SumOver(Files, ledger) \in Nat
  BY TotalsNatural
<1> USE DEF BudgetMatchesLedger, leadVars, books, history
<1>1. ASSUME NEW r \in Runs, LeadEnds(r) PROVE BudgetMatchesLedger'
  BY <1>1 DEF LeadEnds
<1>2. ASSUME NEW r \in Runs, KillHung(r) PROVE BudgetMatchesLedger'
  BY <1>2 DEF KillHung
<1>3. ASSUME NEW r \in Runs, NEW a \in Agents, OpenOutput(r, a) PROVE BudgetMatchesLedger'
  BY <1>3 DEF OpenOutput
<1>4. ASSUME NEW r \in Runs, NEW a \in Agents, SpendToken(r, a) PROVE BudgetMatchesLedger'
  BY <1>4 DEF SpendToken
<1>5. ASSUME NEW r \in Runs, ReapStart(r) PROVE BudgetMatchesLedger'
  BY <1>5 DEF ReapStart
<1>6. CASE ReapClose
  BY <1>6 DEF ReapClose
<1>7. ASSUME NEW s \in Operators, ScanStart(s) PROVE BudgetMatchesLedger'
  BY <1>7 DEF ScanStart
<1>8. ASSUME NEW s \in Operators, ScanNext(s) PROVE BudgetMatchesLedger'
  BY <1>8 DEF ScanNext
<1>9. ASSUME NEW s \in Scanners, Discover(s) PROVE BudgetMatchesLedger'
  BY <1>9 DEF Discover
<1>10. ASSUME NEW s \in Scanners, SelectFirst(s) PROVE BudgetMatchesLedger'
  BY <1>10 DEF SelectFirst
<1>11. ASSUME NEW s \in Scanners, InsertNew(s) PROVE BudgetMatchesLedger'
  <2>1. PICK sum \in Nat :
          /\ gain[s] = 0 /\ gain' = [gain EXCEPT ![s] = sum]
          /\ SumOver(Files, ledger') = SumOver(Files, ledger) + sum
    BY <1>11, LedgerGrows
  <2>2. /\ gain \in [Scanners -> Nat] /\ gain' \in [Scanners -> Nat] /\ gain'[s] = sum
        /\ \A t \in Scanners \ {s} : gain[t] = gain'[t]
    BY <2>1 DEF Types
  <2>3. SumOver(Scanners, gain') + gain[s] = SumOver(Scanners, gain) + gain'[s]
    BY <2>2, SetsFinite, SumChangeNat
  <2>4. SumOver(Scanners, gain') \in Nat
    <3>1. \A t \in Scanners : gain'[t] \in Int BY <2>2
    <3> QED BY <3>1, SetsFinite, SumIsNatural
  <2>5. SumOver(Scanners, gain') = SumOver(Scanners, gain) + sum
    BY <2>1, <2>2, <2>3, <2>4, <1>0
  <2>6. daily' = daily /\ dropped' = dropped BY <1>11 DEF InsertNew
  <2> QED BY <2>1, <2>5, <2>6, <1>0 DEF Types
<1>12. ASSUME NEW s \in Scanners, InsertClashes(s) PROVE BudgetMatchesLedger'
  <2>1. gain' = [gain EXCEPT ![s] = 0] BY <1>12 DEF InsertClashes, Raises, Stops
  <2>2. dropped' = dropped + gain[s] /\ UNCHANGED <<daily, ledger>>
    BY <1>12 DEF InsertClashes, Raises, Stops
  <2>3. SumOver(Scanners, gain') \in Nat /\ SumOver(Scanners, gain') + gain[s] = SumOver(Scanners, gain)
    BY <2>1, GainDropped
  <2>4. gain[s] \in Nat BY DEF Types
  <2> QED BY <2>2, <2>3, <2>4, <1>0 DEF Types
<1>13. ASSUME NEW s \in Scanners, ReadUsed(s) PROVE BudgetMatchesLedger'
  BY <1>13 DEF ReadUsed
<1>14. ASSUME NEW s \in Scanners, WriteUsed(s) PROVE BudgetMatchesLedger'
  BY <1>14 DEF WriteUsed
<1>15. ASSUME NEW s \in Scanners, AddDaily(s) PROVE BudgetMatchesLedger'
  <2>1. gain' = [gain EXCEPT ![s] = 0] BY <1>15 DEF AddDaily
  <2>2. daily' = daily + gain[s] /\ UNCHANGED <<dropped, ledger>> BY <1>15 DEF AddDaily
  <2>3. SumOver(Scanners, gain') \in Nat /\ SumOver(Scanners, gain') + gain[s] = SumOver(Scanners, gain)
    BY <2>1, GainDropped
  <2>4. gain[s] \in Nat BY DEF Types
  <2> QED BY <2>2, <2>3, <2>4, <1>0 DEF Types
<1>16. ASSUME NEW s \in Scanners, StoreFails(s) PROVE BudgetMatchesLedger'
  <2>1. gain' = [gain EXCEPT ![s] = 0] BY <1>16 DEF StoreFails, Raises, Stops
  <2>2. dropped' = dropped + gain[s] /\ UNCHANGED <<daily, ledger>>
    BY <1>16 DEF StoreFails, Raises, Stops
  <2>3. SumOver(Scanners, gain') \in Nat /\ SumOver(Scanners, gain') + gain[s] = SumOver(Scanners, gain)
    BY <2>1, GainDropped
  <2>4. gain[s] \in Nat BY DEF Types
  <2> QED BY <2>2, <2>3, <2>4, <1>0 DEF Types
<1>17. ASSUME NEW s \in Scanners, Crash(s) PROVE BudgetMatchesLedger'
  <2>1. gain' = [gain EXCEPT ![s] = 0] BY <1>17 DEF Crash, Stops
  <2>2. dropped' = dropped + gain[s] /\ UNCHANGED <<daily, ledger>> BY <1>17 DEF Crash, Stops
  <2>3. SumOver(Scanners, gain') \in Nat /\ SumOver(Scanners, gain') + gain[s] = SumOver(Scanners, gain)
    BY <2>1, GainDropped
  <2>4. gain[s] \in Nat BY DEF Types
  <2> QED BY <2>2, <2>3, <2>4, <1>0 DEF Types
<1>18. CASE UNCHANGED vars
  BY <1>18 DEF vars
<1> QED
  BY <1>1, <1>2, <1>3, <1>4, <1>5, <1>6, <1>7, <1>8, <1>9, <1>10, <1>11, <1>12,
     <1>13, <1>14, <1>15, <1>16, <1>17, <1>18 DEF Next, DaemonStep, Attribute, Scanners

\* Every token that is in the ledger is in the budget of the day exactly once,
\* on its way there, or lost with a scanner that stopped
\* (orchestrator/token_tracker.py:299-376).
THEOREM BudgetHolds == Spec => []BudgetMatchesLedger
<1>1. Init => BudgetMatchesLedger BY InitBudget
<1>2. Types /\ Locals /\ FoundOfRun /\ BudgetMatchesLedger /\ [Next]_vars
        => BudgetMatchesLedger'
  BY StepBudget
<1> QED BY <1>1, <1>2, TypesHold, PTL DEF Spec

---------------------------------------------------------------------------
(* The total of a run.                                                      *)

\* What scanners have entered for a run and have yet to add to its total.
Owing(r) ==
    [s \in Scanners |-> IF pc[s] \in {"read_used", "write_used"} /\ ScannedBy(s) = r
                        THEN gain[s] ELSE 0]
Owed(r) == SumOver(Scanners, Owing(r))

\* The total of a run, and any total of it that a scanner has read and is about
\* to write, leave room for all that is owed to the run.
TotalsLeaveRoom ==
    /\ \A r \in Runs : used[r] + Owed(r) <= Entered(r)
    /\ \A s \in Scanners : pc[s] = "write_used" =>
         current[s] + Owed(ScannedBy(s)) <= Entered(ScannedBy(s))

OnlyMoves(s) ==
    \A t \in Scanners \ {s} :
        /\ pc'[t] = pc[t] /\ todo'[t] = todo[t]
        /\ gain'[t] = gain[t] /\ current'[t] = current[t]

LEMMA OwedNatural == ASSUME Types, NEW r PROVE Owed(r) \in Nat
<1>1. \A s \in Scanners : Owing(r)[s] \in Int BY DEF Types, Owing
<1> QED BY <1>1, SetsFinite, SumIsNatural DEF Owed

LEMMA OwedNaturalNext == ASSUME Types', NEW r PROVE Owed(r)' \in Nat
<1>1. \A s \in Scanners : Owing(r)'[s] \in Int BY DEF Types, Owing
<1>2. SumOver(Scanners, Owing(r)') \in Nat BY <1>1, SetsFinite, SumIsNatural
<1> QED BY <1>2 DEF Owed

\* A step of one scanner changes what is owed by its own share.
LEMMA OwedChanges ==
  ASSUME Types, Types', NEW s \in Scanners, OnlyMoves(s), NEW r
  PROVE  Owed(r)' + Owing(r)[s] = Owed(r) + Owing(r)'[s]
<1> DEFINE f == Owing(r)
           g == Owing(r)'
<1>1. f \in [Scanners -> Nat] /\ g \in [Scanners -> Nat] BY DEF Types, Owing
<1>2. \A t \in Scanners \ {s} : f[t] = g[t]
  BY DEF OnlyMoves, Owing, ScannedBy
<1>3. SumOver(Scanners, g) + f[s] = SumOver(Scanners, f) + g[s]
  <2> HIDE DEF f, g
  <2> QED BY <1>1, <1>2, SetsFinite, SumChangeNat
<1>4. Owed(r) = SumOver(Scanners, f) /\ Owed(r)' = SumOver(Scanners, g) BY DEF Owed
<1> QED BY <1>3, <1>4

\* Room is kept where no less is entered, no more owed, and the totals and what
\* the scanners have read of them are not raised.
LEMMA RoomSplit ==
  ASSUME Types, Types', Locals, TotalsLeaveRoom,
         \A r \in Runs : Owed(r)' <= Owed(r) /\ Entered(r)' = Entered(r),
         used' = used,
         \A s \in Scanners : pc'[s] = "write_used" =>
             pc[s] = "write_used" /\ current'[s] = current[s] /\ todo'[s] = todo[s]
  PROVE  TotalsLeaveRoom'
<1>1. \A r \in Runs : Owed(r) \in Nat /\ Owed(r)' \in Nat /\ Entered(r) \in Nat
  BY OwedNatural, OwedNaturalNext, TotalsNatural
<1>2. ASSUME NEW r \in Runs PROVE (used[r] + Owed(r) <= Entered(r))'
  BY <1>1 DEF TotalsLeaveRoom, Types
<1>3. ASSUME NEW s \in Scanners, pc'[s] = "write_used"
      PROVE  (current[s] + Owed(ScannedBy(s)) <= Entered(ScannedBy(s)))'
  <2>1. ScannedBy(s)' = ScannedBy(s) BY <1>3 DEF ScannedBy
  <2>2. ScannedBy(s) \in Runs BY <1>3, ScannedInTodo
  <2>3. PICK r \in Runs : r = ScannedBy(s) BY <2>2
  <2>4. current[s] + Owed(r) <= Entered(r) BY <1>3, <2>3 DEF TotalsLeaveRoom
  <2>5. Owed(ScannedBy(s))' = Owed(r)' /\ Entered(ScannedBy(s))' = Entered(r)'
    BY <2>1, <2>3 DEF Owed, Owing, Entered
  <2> QED BY <1>1, <1>3, <2>4, <2>5 DEF Types
<1> QED BY <1>2, <1>3 DEF TotalsLeaveRoom

\* A scanner that ends a step with nothing owed to any run disturbs no total.
LEMMA RoomKept ==
  ASSUME Types, Types', Locals, TotalsLeaveRoom, NEW s \in Scanners, OnlyMoves(s),
         UNCHANGED <<ledger, used>>, pc'[s] \notin {"read_used", "write_used"}
  PROVE  TotalsLeaveRoom'
<1>1. ASSUME NEW r \in Runs PROVE Owed(r)' <= Owed(r) /\ Entered(r)' = Entered(r)
  <2>1. Owing(r)[s] \in Nat /\ Owing(r)'[s] = 0 BY DEF Types, Owing
  <2>2. Owed(r) \in Nat /\ Owed(r)' \in Nat BY OwedNatural, OwedNaturalNext
  <2>3. Owed(r)' + Owing(r)[s] = Owed(r) + Owing(r)'[s] BY OwedChanges
  <2> QED BY <2>1, <2>2, <2>3 DEF Entered
<1>2. \A t \in Scanners : pc'[t] = "write_used" =>
        pc[t] = "write_used" /\ current'[t] = current[t] /\ todo'[t] = todo[t]
  BY DEF OnlyMoves
<1> QED BY <1>1, <1>2, RoomSplit

LEMMA RoomUntouched ==
  ASSUME TotalsLeaveRoom, UNCHANGED <<ledger, used, pc, todo, gain, current>>
  PROVE  TotalsLeaveRoom'
<1>1. \A s \in Scanners : ScannedBy(s)' = ScannedBy(s) BY DEF ScannedBy
<1>2. ASSUME NEW r PROVE Owed(r)' = Owed(r) /\ Entered(r)' = Entered(r)
  <2>1. Owing(r)' = Owing(r) BY <1>1 DEF Owing
  <2> QED BY <2>1 DEF Owed, Entered
<1>3. \A r \in Runs : (used[r] + Owed(r) <= Entered(r))' BY <1>2 DEF TotalsLeaveRoom
<1>4. ASSUME NEW s \in Scanners, pc'[s] = "write_used"
      PROVE  (current[s] + Owed(ScannedBy(s)) <= Entered(ScannedBy(s)))'
  <2>1. current[s] + Owed(ScannedBy(s)) <= Entered(ScannedBy(s))
    BY <1>4 DEF TotalsLeaveRoom
  <2>2. Owed(ScannedBy(s)') = Owed(ScannedBy(s)) /\ Entered(ScannedBy(s)') = Entered(ScannedBy(s))
    BY <1>1, Zenon
  <2> QED BY <1>2, <2>1, <2>2
<1> QED BY <1>3, <1>4 DEF TotalsLeaveRoom

LEMMA InitRoom == Init => TotalsLeaveRoom
<1> SUFFICES ASSUME Init PROVE TotalsLeaveRoom OBVIOUS
<1>1. ASSUME NEW r \in Runs PROVE used[r] + Owed(r) <= Entered(r)
  <2>1. Units(Scanners, Owing(r)) = {} BY DEF Init, Units, Owing
  <2>2. Owed(r) = 0 BY <2>1, FS_EmptySet DEF Owed, SumOver
  <2>3. Entered(r) \in Nat BY InitTypes, TotalsNatural
  <2> QED BY <2>2, <2>3 DEF Init
<1>2. \A s \in Scanners : pc[s] # "write_used" BY DEF Init
<1> QED BY <1>1, <1>2 DEF TotalsLeaveRoom

LEMMA StepRoom ==
    Types /\ Locals /\ FoundOfRun /\ TotalsLeaveRoom /\ [Next]_vars => TotalsLeaveRoom'
<1> SUFFICES ASSUME Types, Locals, FoundOfRun, TotalsLeaveRoom, [Next]_vars PROVE TotalsLeaveRoom'
  OBVIOUS
<1>0. Daemon \in Scanners /\ Types' BY StepTypes DEF Scanners
<1> USE DEF leadVars, books, history
<1>1. ASSUME NEW r \in Runs, LeadEnds(r) PROVE TotalsLeaveRoom'
  BY <1>1, RoomUntouched DEF LeadEnds
<1>2. ASSUME NEW r \in Runs, KillHung(r) PROVE TotalsLeaveRoom'
  BY <1>2, RoomUntouched DEF KillHung
<1>3. ASSUME NEW r \in Runs, NEW a \in Agents, OpenOutput(r, a) PROVE TotalsLeaveRoom'
  BY <1>3, RoomUntouched DEF OpenOutput
<1>4. ASSUME NEW r \in Runs, NEW a \in Agents, SpendToken(r, a) PROVE TotalsLeaveRoom'
  BY <1>4, RoomUntouched DEF SpendToken
<1>5. ASSUME NEW r \in Runs, ReapStart(r) PROVE TotalsLeaveRoom'
  <2>1. /\ OnlyMoves(Daemon) /\ UNCHANGED <<ledger, used>>
        /\ pc'[Daemon] \notin {"read_used", "write_used"}
    BY <1>5, <1>0 DEF ReapStart, OnlyMoves, Types
  <2> QED BY <2>1, <1>0, RoomKept
<1>6. CASE ReapClose
  <2>1. /\ OnlyMoves(Daemon) /\ UNCHANGED <<ledger, used>>
        /\ pc'[Daemon] \notin {"read_used", "write_used"}
    BY <1>6, <1>0 DEF ReapClose, OnlyMoves, Types
  <2> QED BY <2>1, <1>0, RoomKept
<1>7. ASSUME NEW s \in Operators, ScanStart(s) PROVE TotalsLeaveRoom'
  <2>0. s \in Scanners BY DEF Scanners
  <2>1. /\ OnlyMoves(s) /\ UNCHANGED <<ledger, used>>
        /\ pc'[s] \notin {"read_used", "write_used"}
    BY <1>7, <2>0, <1>0 DEF ScanStart, OnlyMoves, Types
  <2> QED BY <2>0, <2>1, <1>0, RoomKept
<1>8. ASSUME NEW s \in Operators, ScanNext(s) PROVE TotalsLeaveRoom'
  <2>0. s \in Scanners BY DEF Scanners
  <2>1. /\ OnlyMoves(s) /\ UNCHANGED <<ledger, used>>
        /\ pc'[s] \notin {"read_used", "write_used"}
    BY <1>8, <2>0, <1>0 DEF ScanNext, OnlyMoves, Types
  <2> QED BY <2>0, <2>1, <1>0, RoomKept
<1>9. ASSUME NEW s \in Scanners, Discover(s) PROVE TotalsLeaveRoom'
  <2>1. /\ OnlyMoves(s) /\ UNCHANGED <<ledger, used>>
        /\ pc'[s] \notin {"read_used", "write_used"}
    BY <1>9, <1>0 DEF Discover, OnlyMoves, Types
  <2> QED BY <2>1, <1>0, RoomKept
<1>10. ASSUME NEW s \in Scanners, SelectFirst(s) PROVE TotalsLeaveRoom'
  <2>1. /\ OnlyMoves(s) /\ UNCHANGED <<ledger, used>>
        /\ pc'[s] \notin {"read_used", "write_used"}
    BY <1>10, <1>0 DEF SelectFirst, OnlyMoves, Types
  <2> QED BY <2>1, <1>0, RoomKept
<1>11. ASSUME NEW s \in Scanners, InsertNew(s) PROVE TotalsLeaveRoom'
  <2>1. PICK sum \in Nat :
          /\ pc' = [pc EXCEPT ![s] = IF sum > 0 THEN "read_used" ELSE "done"]
          /\ gain' = [gain EXCEPT ![s] = sum]
          /\ \A r \in Runs :
               Entered(r)' = Entered(r) + (IF r = ScannedBy(s) THEN sum ELSE 0)
    BY <1>11, LedgerGrows
  <2>2. pc[s] = "insert" /\ UNCHANGED <<used, todo, current>> BY <1>11 DEF InsertNew
  <2>3. OnlyMoves(s) BY <2>1, <2>2 DEF OnlyMoves
  <2>4. ASSUME NEW r \in Runs
        PROVE  Owed(r)' = Owed(r) + (IF r = ScannedBy(s) THEN sum ELSE 0)
    <3>1. Owing(r)[s] = 0 BY <2>2 DEF Owing
    <3>2. Owing(r)'[s] = IF r = ScannedBy(s) THEN sum ELSE 0
      <4>1. ScannedBy(s)' = ScannedBy(s) BY <2>2 DEF ScannedBy
      <4>2. pc'[s] = (IF sum > 0 THEN "read_used" ELSE "done") /\ gain'[s] = sum
        BY <2>1 DEF Types
      <4> QED BY <4>1, <4>2 DEF Owing
    <3>3. Owed(r)' + Owing(r)[s] = Owed(r) + Owing(r)'[s]
      BY <1>0, <2>3, OwedChanges
    <3>4. Owed(r) \in Nat /\ Owed(r)' \in Nat BY <1>0, OwedNatural, OwedNaturalNext
    <3> HIDE DEF Owed, Owing
    <3> QED BY <3>1, <3>2, <3>3, <3>4
  <2>5. \A r \in Runs : Owed(r) \in Nat /\ Entered(r) \in Nat
    BY OwedNatural, TotalsNatural
  <2>6. ASSUME NEW r \in Runs PROVE (used[r] + Owed(r) <= Entered(r))'
    <3>1. used[r] + Owed(r) <= Entered(r) BY DEF TotalsLeaveRoom
    <3>2. used'[r] = used[r] /\ used[r] \in Nat BY <2>2 DEF Types
    <3> QED BY <2>1, <2>4, <2>5, <3>1, <3>2
  <2>7. ASSUME NEW t \in Scanners, pc'[t] = "write_used"
        PROVE  (current[t] + Owed(ScannedBy(t)) <= Entered(ScannedBy(t)))'
    <3>1. pc[t] = "write_used" BY <2>1, <2>2, <2>7
    <3>2. PICK r \in Runs : r = ScannedBy(t) BY <3>1, ScannedInTodo
    <3>3. ScannedBy(t)' = ScannedBy(t) BY <2>2 DEF ScannedBy
    <3>4. current[t] + Owed(r) <= Entered(r) BY <3>1, <3>2 DEF TotalsLeaveRoom
    <3>5. Owed(ScannedBy(t))' = Owed(r)' /\ Entered(ScannedBy(t))' = Entered(r)'
      BY <3>2, <3>3 DEF Owed, Owing, Entered
    <3>6. current'[t] = current[t] /\ current[t] \in Nat BY <2>2 DEF Types
    <3> QED BY <2>1, <2>4, <2>5, <3>4, <3>5, <3>6
  <2> QED BY <2>6, <2>7 DEF TotalsLeaveRoom
<1>12. ASSUME NEW s \in Scanners, InsertClashes(s) PROVE TotalsLeaveRoom'
  <2>1. /\ OnlyMoves(s) /\ UNCHANGED <<ledger, used>>
        /\ pc'[s] \notin {"read_used", "write_used"}
    BY <1>12, <1>0 DEF InsertClashes, Raises, Stops, OnlyMoves, Types
  <2> QED BY <2>1, <1>0, RoomKept
<1>13. ASSUME NEW s \in Scanners, ReadUsed(s) PROVE TotalsLeaveRoom'
  <2>1. /\ pc[s] = "read_used" /\ pc' = [pc EXCEPT ![s] = "write_used"]
        /\ current' = [current EXCEPT ![s] = used[ScannedBy(s)]]
        /\ UNCHANGED <<used, todo, gain, ledger>>
    BY <1>13 DEF ReadUsed
  <2>2. OnlyMoves(s) BY <2>1 DEF OnlyMoves
  <2>3. ASSUME NEW r \in Runs PROVE Owed(r)' = Owed(r) /\ Entered(r)' = Entered(r)
    <3>1. Owing(r)'[s] = Owing(r)[s] /\ Owing(r)[s] \in Nat
      BY <2>1 DEF Owing, ScannedBy, Types
    <3>2. Owed(r)' + Owing(r)[s] = Owed(r) + Owing(r)'[s]
      BY <1>0, <2>2, OwedChanges
    <3>3. Owed(r) \in Nat /\ Owed(r)' \in Nat BY <1>0, OwedNatural, OwedNaturalNext
    <3>4. Owed(r)' = Owed(r) BY <3>1, <3>2, <3>3
    <3> QED BY <2>1, <3>4 DEF Entered
  <2>4. ASSUME NEW r \in Runs PROVE (used[r] + Owed(r) <= Entered(r))'
    BY <2>1, <2>3 DEF TotalsLeaveRoom
  <2>5. ASSUME NEW t \in Scanners, pc'[t] = "write_used"
        PROVE  (current[t] + Owed(ScannedBy(t)) <= Entered(ScannedBy(t)))'
    <3>1. pc[t] # "idle" BY <2>1, <2>5
    <3>2. PICK r \in Runs : r = ScannedBy(t) BY <3>1, ScannedInTodo
    <3>3. ScannedBy(t)' = ScannedBy(t) BY <2>1 DEF ScannedBy
    <3>4. current'[t] + Owed(r) <= Entered(r)
      <4>1. CASE t = s BY <2>1, <3>2, <4>1 DEF TotalsLeaveRoom, Types
      <4>2. CASE t # s
        <5>1. pc[t] = "write_used" /\ current'[t] = current[t] BY <2>1, <2>5, <4>2
        <5> QED BY <3>2, <5>1 DEF TotalsLeaveRoom
      <4> QED BY <4>1, <4>2
    <3>5. Owed(ScannedBy(t))' = Owed(r)' /\ Entered(ScannedBy(t))' = Entered(r)'
      BY <3>2, <3>3 DEF Owed, Owing, Entered
    <3> QED BY <2>3, <3>4, <3>5
  <2> QED BY <2>4, <2>5 DEF TotalsLeaveRoom
<1>14. ASSUME NEW s \in Scanners, WriteUsed(s) PROVE TotalsLeaveRoom'
  <2>1. /\ pc[s] = "write_used" /\ pc' = [pc EXCEPT ![s] = "add_daily"]
        /\ current' = [current EXCEPT ![s] = 0]
        /\ used' = [used EXCEPT ![ScannedBy(s)] = current[s] + gain[s]]
        /\ UNCHANGED <<todo, gain, ledger>>
    BY <1>14 DEF WriteUsed
  <2>2. OnlyMoves(s) BY <2>1 DEF OnlyMoves
  <2>3. \A r \in Runs : Owed(r) \in Nat /\ Owed(r)' \in Nat /\ Entered(r) \in Nat
    BY <1>0, OwedNatural, OwedNaturalNext, TotalsNatural
  <2>4. ASSUME NEW r \in Runs
        PROVE  /\ Owed(r) = Owed(r)' + (IF r = ScannedBy(s) THEN gain[s] ELSE 0)
               /\ Entered(r)' = Entered(r)
    <3>1. Owing(r)[s] = IF r = ScannedBy(s) THEN gain[s] ELSE 0 BY <2>1 DEF Owing
    <3>2. Owing(r)'[s] = 0 BY <2>1 DEF Owing, Types
    <3>3. Owed(r)' + Owing(r)[s] = Owed(r) + Owing(r)'[s]
      BY <1>0, <2>2, OwedChanges
    <3>4. Owed(r) = Owed(r)' + (IF r = ScannedBy(s) THEN gain[s] ELSE 0)
      BY <2>3, <3>1, <3>2, <3>3 DEF Types
    <3> QED BY <2>1, <3>4 DEF Entered
  <2>5. ASSUME NEW r \in Runs PROVE (used[r] + Owed(r) <= Entered(r))'
    <3>1. used[r] + Owed(r) <= Entered(r) /\ used[r] \in Nat BY DEF TotalsLeaveRoom, Types
    <3>2. CASE r # ScannedBy(s) BY <2>1, <2>3, <2>4, <3>1, <3>2
    <3>3. CASE r = ScannedBy(s)
      <4>1. current[s] + Owed(r) <= Entered(r) BY <2>1, <3>3 DEF TotalsLeaveRoom
      <4>2. used'[r] = current[s] + gain[s] BY <2>1, <3>3 DEF Types
      <4>3. current[s] \in Nat /\ gain[s] \in Nat BY DEF Types
      <4> QED BY <2>3, <2>4, <3>3, <4>1, <4>2, <4>3
    <3> QED BY <3>2, <3>3
  <2>6. ASSUME NEW t \in Scanners, pc'[t] = "write_used"
        PROVE  (current[t] + Owed(ScannedBy(t)) <= Entered(ScannedBy(t)))'
    <3>1. t # s /\ pc[t] = "write_used" /\ current'[t] = current[t]
      BY <2>1, <2>6 DEF Types
    <3>2. PICK r \in Runs : r = ScannedBy(t) BY <3>1, ScannedInTodo
    <3>3. ScannedBy(t)' = ScannedBy(t) BY <2>1 DEF ScannedBy
    <3>4. current[t] + Owed(r) <= Entered(r) BY <3>1, <3>2 DEF TotalsLeaveRoom
    <3>5. Owed(ScannedBy(t))' = Owed(r)' /\ Entered(ScannedBy(t))' = Entered(r)'
      BY <3>2, <3>3 DEF Owed, Owing, Entered
    <3>6. current[t] \in Nat /\ gain[s] \in Nat BY DEF Types
    <3> QED BY <2>3, <2>4, <3>1, <3>4, <3>5, <3>6
  <2> QED BY <2>5, <2>6 DEF TotalsLeaveRoom
<1>15. ASSUME NEW s \in Scanners, AddDaily(s) PROVE TotalsLeaveRoom'
  <2>1. /\ OnlyMoves(s) /\ UNCHANGED <<ledger, used>>
        /\ pc'[s] \notin {"read_used", "write_used"}
    BY <1>15, <1>0 DEF AddDaily, OnlyMoves, Types
  <2> QED BY <2>1, <1>0, RoomKept
<1>16. ASSUME NEW s \in Scanners, StoreFails(s) PROVE TotalsLeaveRoom'
  <2>1. /\ OnlyMoves(s) /\ UNCHANGED <<ledger, used>>
        /\ pc'[s] \notin {"read_used", "write_used"}
    BY <1>16, <1>0 DEF StoreFails, Raises, Stops, OnlyMoves, Types
  <2> QED BY <2>1, <1>0, RoomKept
<1>17. ASSUME NEW s \in Scanners, Crash(s) PROVE TotalsLeaveRoom'
  <2>1. /\ OnlyMoves(s) /\ UNCHANGED <<ledger, used>>
        /\ pc'[s] \notin {"read_used", "write_used"}
    BY <1>17, <1>0 DEF Crash, Stops, OnlyMoves, Types
  <2> QED BY <2>1, <1>0, RoomKept
<1>18. CASE UNCHANGED vars
  BY <1>18, RoomUntouched DEF vars
<1> QED
  BY <1>1, <1>2, <1>3, <1>4, <1>5, <1>6, <1>7, <1>8, <1>9, <1>10, <1>11, <1>12,
     <1>13, <1>14, <1>15, <1>16, <1>17, <1>18 DEF Next, DaemonStep, Attribute, Scanners

\* The total of a run never exceeds what its ledger rows hold, although it is
\* read and written in transactions of their own
\* (orchestrator/token_tracker.py:359-367).
THEOREM TotalHolds == Spec => []TotalWithinLedger
<1>1. Types /\ Locals /\ FoundOfRun /\ TotalsLeaveRoom /\ [Next]_vars
        => TotalsLeaveRoom'
  BY StepRoom
<1>2. Types /\ TotalsLeaveRoom => TotalWithinLedger
  <2> SUFFICES ASSUME Types, TotalsLeaveRoom, NEW r \in Runs
               PROVE  used[r] <= Entered(r)
    BY DEF TotalWithinLedger
  <2>1. used[r] + Owed(r) <= Entered(r) BY DEF TotalsLeaveRoom
  <2>2. used[r] \in Nat BY DEF Types
  <2>3. Owed(r) \in Nat /\ Entered(r) \in Nat BY OwedNatural, TotalsNatural
  <2> QED BY <2>1, <2>2, <2>3
<1> QED BY InitRoom, TypesHold, <1>1, <1>2, PTL DEF Spec

\* The types hold with the bounds on the totals: nothing in the books is above
\* what all the files can hold (orchestrator/token_tracker.py).
THEOREM TypeCorrect == Spec => []TypeOK
<1>1. Types /\ Locals /\ BudgetMatchesLedger /\ TotalsLeaveRoom => TypeOK
  <2> SUFFICES ASSUME Types, Locals, BudgetMatchesLedger, TotalsLeaveRoom PROVE TypeOK
    OBVIOUS
  <2>1. /\ SumOver(Files, ledger) <= MaxSum /\ MaxSum \in Nat
        /\ SumOver(Files, ledger) \in Nat
    <3>1. \A f \in Files : ledger[f] \in Int /\ ledger[f] <= MaxTokens
      BY DEF Types, Amounts, Absent
    <3>2. Cardinality(Files) \in Nat BY SetsFinite, FS_CardinalityType
    <3>3. SumOver(Files, ledger) <= MaxTokens * Cardinality(Files)
      BY <3>1, SetsFinite, SumBound
    <3> QED BY <3>2, <3>3, TotalsNatural DEF MaxSum
  <2>2. ASSUME NEW r \in Runs PROVE Entered(r) \in Nat /\ Entered(r) <= MaxSum
    <3>1. {r} \X Agents \subseteq Files BY DEF Files
    <3>2. \A f \in Files : ledger[f] \in Int BY DEF Types, Amounts, Absent
    <3>3. Entered(r) <= SumOver(Files, ledger)
      BY <3>1, <3>2, SetsFinite, SumPart DEF Entered
    <3>4. Entered(r) \in Nat BY TotalsNatural
    <3> QED BY <2>1, <3>3, <3>4
  <2>3. daily \in 0 .. MaxSum /\ dropped \in 0 .. MaxSum
    BY <2>1, TotalsNatural DEF BudgetMatchesLedger, Types
  <2>4. used \in [Runs -> 0 .. MaxSum]
    <3>1. ASSUME NEW r \in Runs PROVE used[r] \in 0 .. MaxSum
      <4>1. used[r] + Owed(r) <= Entered(r) BY DEF TotalsLeaveRoom
      <4> QED BY <4>1, <2>1, <2>2, OwedNatural DEF Types
    <3> QED BY <3>1 DEF Types
  <2>5. ASSUME NEW s \in Scanners PROVE gain[s] \in 0 .. MaxSum
    <3>1. gain[s] <= SumOver(Scanners, gain)
      <4>1. \A t \in Scanners : gain[t] \in Int BY DEF Types
      <4> QED BY <4>1, SetsFinite, SumMember
    <3> QED BY <2>1, <3>1, TotalsNatural DEF BudgetMatchesLedger, Types
  <2>6. ASSUME NEW s \in Scanners PROVE current[s] \in 0 .. MaxSum
    <3>1. CASE pc[s] # "write_used" BY <2>1, <3>1 DEF Locals
    <3>2. CASE pc[s] = "write_used"
      <4>1. PICK r \in Runs : r = ScannedBy(s) BY <3>2, ScannedInTodo
      <4>2. current[s] + Owed(r) <= Entered(r) BY <3>2, <4>1 DEF TotalsLeaveRoom
      <4> QED BY <4>2, <2>1, <2>2, OwedNatural DEF Types
    <3> QED BY <3>1, <3>2
  <2> HIDE DEF MaxSum
  <2> QED BY <2>3, <2>4, <2>5, <2>6 DEF Types, TypeOK
<1>2. Types /\ Locals /\ FoundOfRun /\ TotalsLeaveRoom /\ [Next]_vars
        => TotalsLeaveRoom'
  BY StepRoom
<1> QED BY InitRoom, TypesHold, BudgetHolds, <1>1, <1>2, PTL DEF Spec

---------------------------------------------------------------------------
(* What a reaped run has in the ledger.                                     *)

Finished(r) == \A a \in Agents : ledger[<<r, a>>] = out[<<r, a>>]

\* Of a run that nobody has read too early, a scanner holds what its files hold,
FoundIsOutput ==
    \A s \in Scanners :
        pc[s] \in {"select", "insert"} /\ ScannedBy(s) \notin early =>
            /\ lead[ScannedBy(s)] = "ended"
            /\ \A a \in Agents : found[s][<<ScannedBy(s), a>>] = out[<<ScannedBy(s), a>>]

\* and once one file of it is in the ledger, all of them are.
AllOrNone ==
    \A r \in Runs \ early :
        (\E a \in Agents : ledger[<<r, a>>] # Absent) => lead[r] = "ended" /\ Finished(r)

\* The daemon works on one run at a time, whose Lead has ended; unless a
\* transaction failed it is finished when the daemon is past its insertions.
DaemonsRun ==
    /\ \A r \in todo[Daemon] : lead[r] = "ended" /\ todo[Daemon] = {r}
    /\ pc[Daemon] \in {"read_used", "write_used", "add_daily", "done"} =>
         \A r \in todo[Daemon] : r \notin early \cup missed => Finished(r)
    /\ \A r \in Runs : closed[r] = "reaped" => lead[r] = "ended"

AttributedInv == FoundIsOutput /\ AllOrNone /\ DaemonsRun /\ ReapedIsCounted

LEMMA InitAttributed == Init => AttributedInv
<1> SUFFICES ASSUME Init PROVE AttributedInv OBVIOUS
<1>1. FoundIsOutput BY DEF Init, FoundIsOutput
<1>2. AllOrNone BY DEF Init, AllOrNone, Unread, Files
<1>3. DaemonsRun /\ ReapedIsCounted BY DEF Init, DaemonsRun, ReapedIsCounted, Scanners
<1> QED BY <1>1, <1>2, <1>3 DEF AttributedInv

\* No step takes back what the history says, starts a Lead again or writes a
\* file of one that has ended.
LeadsGoOn ==
    /\ early \subseteq early' /\ missed \subseteq missed'
    /\ \A r \in Runs : lead[r] = "ended" =>
         lead'[r] = "ended" /\ \A a \in Agents : out'[<<r, a>>] = out[<<r, a>>]

\* A run of which every file is in the ledger stays so.
FinishedStays ==
    \A r \in Runs \ early : lead[r] = "ended" /\ Finished(r) => Finished(r)'

LEMMA StepLeads == Types /\ [Next]_vars => LeadsGoOn
<1> SUFFICES ASSUME Types, [Next]_vars PROVE LeadsGoOn
  OBVIOUS
<1>0. Daemon \in Scanners BY DEF Scanners
<1> USE DEF Types, LeadsGoOn, leadVars, history
<1>1. ASSUME NEW r \in Runs, LeadEnds(r) PROVE LeadsGoOn
  BY <1>0, <1>1 DEF LeadEnds
<1>2. ASSUME NEW r \in Runs, KillHung(r) PROVE LeadsGoOn
  BY <1>0, <1>2 DEF KillHung
<1>3. ASSUME NEW r \in Runs, NEW a \in Agents, OpenOutput(r, a) PROVE LeadsGoOn
  BY <1>3 DEF OpenOutput, Files
<1>4. ASSUME NEW r \in Runs, NEW a \in Agents, SpendToken(r, a) PROVE LeadsGoOn
  BY <1>4 DEF SpendToken, Files
<1>5. ASSUME NEW r \in Runs, ReapStart(r) PROVE LeadsGoOn
  BY <1>0, <1>5 DEF ReapStart
<1>6. CASE ReapClose
  BY <1>0, <1>6 DEF ReapClose
<1>7. ASSUME NEW s \in Operators, ScanStart(s) PROVE LeadsGoOn
  BY <1>0, <1>7 DEF ScanStart
<1>8. ASSUME NEW s \in Operators, ScanNext(s) PROVE LeadsGoOn
  BY <1>0, <1>8 DEF ScanNext
<1>9. ASSUME NEW s \in Scanners, Discover(s) PROVE LeadsGoOn
  BY <1>0, <1>9 DEF Discover
<1>10. ASSUME NEW s \in Scanners, SelectFirst(s) PROVE LeadsGoOn
  BY <1>0, <1>10 DEF SelectFirst
<1>11. ASSUME NEW s \in Scanners, InsertNew(s) PROVE LeadsGoOn
  BY <1>0, <1>11 DEF InsertNew
<1>12. ASSUME NEW s \in Scanners, InsertClashes(s) PROVE LeadsGoOn
  BY <1>0, <1>12 DEF InsertClashes, Raises, Stops
<1>13. ASSUME NEW s \in Scanners, ReadUsed(s) PROVE LeadsGoOn
  BY <1>0, <1>13 DEF ReadUsed
<1>14. ASSUME NEW s \in Scanners, WriteUsed(s) PROVE LeadsGoOn
  BY <1>0, <1>14 DEF WriteUsed
<1>15. ASSUME NEW s \in Scanners, AddDaily(s) PROVE LeadsGoOn
  BY <1>0, <1>15 DEF AddDaily
<1>16. ASSUME NEW s \in Scanners, StoreFails(s) PROVE LeadsGoOn
  BY <1>0, <1>16 DEF StoreFails, Raises, Stops
<1>17. ASSUME NEW s \in Scanners, Crash(s) PROVE LeadsGoOn
  BY <1>0, <1>17 DEF Crash, Stops
<1>18. CASE UNCHANGED vars
  BY <1>18 DEF vars
<1> QED
  BY <1>1, <1>2, <1>3, <1>4, <1>5, <1>6, <1>7, <1>8, <1>9, <1>10, <1>11, <1>12,
     <1>13, <1>14, <1>15, <1>16, <1>17, <1>18 DEF Next, DaemonStep, Attribute, Scanners

LEMMA FoundKept ==
  ASSUME Types, Locals, FoundIsOutput, LeadsGoOn,
         \A t \in Scanners : pc'[t] \in {"select", "insert"} =>
             pc[t] \in {"select", "insert"} /\ found'[t] = found[t] /\ todo'[t] = todo[t]
  PROVE  FoundIsOutput'
<1> SUFFICES ASSUME NEW t \in Scanners, pc'[t] \in {"select", "insert"},
                    ScannedBy(t)' \notin early'
             PROVE  /\ lead'[ScannedBy(t)'] = "ended"
                    /\ \A a \in Agents : found'[t][<<ScannedBy(t)', a>>] = out'[<<ScannedBy(t)', a>>]
  BY DEF FoundIsOutput
<1>1. ScannedBy(t)' = ScannedBy(t) BY DEF ScannedBy
<1>2. PICK r \in Runs : r = ScannedBy(t) BY ScannedInTodo
<1>3. r \notin early BY <1>1, <1>2 DEF LeadsGoOn
<1>4. lead[r] = "ended" /\ \A a \in Agents : found[t][<<r, a>>] = out[<<r, a>>]
  BY <1>2, <1>3 DEF FoundIsOutput
<1>5. lead'[r] = "ended" /\ \A a \in Agents : found'[t][<<r, a>>] = out'[<<r, a>>]
  BY <1>4 DEF LeadsGoOn
<1> QED BY <1>1, <1>2, <1>5

LEMMA StepFoundIsOutput ==
    Types /\ Locals /\ FoundOfRun /\ AttributedInv /\ [Next]_vars => FoundIsOutput'
<1> SUFFICES ASSUME Types, Locals, FoundOfRun, AttributedInv, [Next]_vars PROVE FoundIsOutput'
  OBVIOUS
<1>0. Daemon \in Scanners /\ LeadsGoOn BY StepLeads DEF Scanners
<1> USE DEF leadVars, books, history
<1>1. ASSUME NEW r \in Runs, LeadEnds(r) PROVE FoundIsOutput'
  <2>1. \A t \in Scanners : pc'[t] \in {"select", "insert"} =>
          pc[t] \in {"select", "insert"} /\ found'[t] = found[t] /\ todo'[t] = todo[t]
    BY <1>0, <1>1 DEF LeadEnds, Types
  <2> QED BY <1>0, <2>1, FoundKept DEF AttributedInv
<1>2. ASSUME NEW r \in Runs, KillHung(r) PROVE FoundIsOutput'
  <2>1. \A t \in Scanners : pc'[t] \in {"select", "insert"} =>
          pc[t] \in {"select", "insert"} /\ found'[t] = found[t] /\ todo'[t] = todo[t]
    BY <1>0, <1>2 DEF KillHung, Types
  <2> QED BY <1>0, <2>1, FoundKept DEF AttributedInv
<1>3. ASSUME NEW r \in Runs, NEW a \in Agents, OpenOutput(r, a) PROVE FoundIsOutput'
  <2>1. \A t \in Scanners : pc'[t] \in {"select", "insert"} =>
          pc[t] \in {"select", "insert"} /\ found'[t] = found[t] /\ todo'[t] = todo[t]
    BY <1>0, <1>3 DEF OpenOutput, Types
  <2> QED BY <1>0, <2>1, FoundKept DEF AttributedInv
<1>4. ASSUME NEW r \in Runs, NEW a \in Agents, SpendToken(r, a) PROVE FoundIsOutput'
  <2>1. \A t \in Scanners : pc'[t] \in {"select", "insert"} =>
          pc[t] \in {"select", "insert"} /\ found'[t] = found[t] /\ todo'[t] = todo[t]
    BY <1>0, <1>4 DEF SpendToken, Types
  <2> QED BY <1>0, <2>1, FoundKept DEF AttributedInv
<1>5. ASSUME NEW r \in Runs, ReapStart(r) PROVE FoundIsOutput'
  <2>1. \A t \in Scanners : pc'[t] \in {"select", "insert"} =>
          pc[t] \in {"select", "insert"} /\ found'[t] = found[t] /\ todo'[t] = todo[t]
    BY <1>0, <1>5 DEF ReapStart, Types
  <2> QED BY <1>0, <2>1, FoundKept DEF AttributedInv
<1>6. CASE ReapClose
  <2>1. \A t \in Scanners : pc'[t] \in {"select", "insert"} =>
          pc[t] \in {"select", "insert"} /\ found'[t] = found[t] /\ todo'[t] = todo[t]
    BY <1>0, <1>6 DEF ReapClose, Types
  <2> QED BY <1>0, <2>1, FoundKept DEF AttributedInv
<1>7. ASSUME NEW s \in Operators, ScanStart(s) PROVE FoundIsOutput'
  <2>0. s \in Scanners BY DEF Scanners
  <2>1. \A t \in Scanners : pc'[t] \in {"select", "insert"} =>
          pc[t] \in {"select", "insert"} /\ found'[t] = found[t] /\ todo'[t] = todo[t]
    BY <1>7, <2>0 DEF ScanStart, Types
  <2> QED BY <1>0, <2>1, FoundKept DEF AttributedInv
<1>8. ASSUME NEW s \in Operators, ScanNext(s) PROVE FoundIsOutput'
  <2>0. s \in Scanners BY DEF Scanners
  <2>1. \A t \in Scanners : pc'[t] \in {"select", "insert"} =>
          pc[t] \in {"select", "insert"} /\ found'[t] = found[t] /\ todo'[t] = todo[t]
    BY <1>8, <2>0 DEF ScanNext, Types
  <2> QED BY <1>0, <2>1, FoundKept DEF AttributedInv
<1>9. ASSUME NEW s \in Scanners, Discover(s) PROVE FoundIsOutput'
  <2> SUFFICES ASSUME NEW t \in Scanners, pc'[t] \in {"select", "insert"},
                      ScannedBy(t)' \notin early'
               PROVE  /\ lead'[ScannedBy(t)'] = "ended"
                      /\ \A a \in Agents :
                           found'[t][<<ScannedBy(t)', a>>] = out'[<<ScannedBy(t)', a>>]
    BY DEF FoundIsOutput
  <2>1. ScannedBy(t)' = ScannedBy(t) /\ UNCHANGED <<lead, out>> BY <1>9 DEF ScannedBy, Discover
  <2>2. pc[t] # "idle" BY <1>9 DEF Discover, Types
  <2>3. PICK r \in Runs : r = ScannedBy(t) BY <2>2, ScannedInTodo
  <2>4. CASE t = s
    <3>1. lead[r] # "running" BY <1>9, <2>1, <2>3, <2>4 DEF Discover
    <3>2. \A f \in Files : f[1] = r => found'[t][f] = out[f]
      BY <1>9, <2>3, <2>4 DEF Discover, Types
    <3>3. \A a \in Agents : <<r, a>> \in Files /\ <<r, a>>[1] = r BY DEF Files
    <3> QED BY <2>1, <2>3, <3>1, <3>2, <3>3 DEF Types
  <2>5. CASE t # s
    <3>1. pc[t] \in {"select", "insert"} /\ found'[t] = found[t]
      BY <1>9, <2>5 DEF Discover, Types
    <3>2. r \notin early BY <1>0, <2>1, <2>3 DEF LeadsGoOn
    <3> QED BY <2>1, <2>3, <3>1, <3>2 DEF AttributedInv, FoundIsOutput
  <2> QED BY <2>4, <2>5
<1>10. ASSUME NEW s \in Scanners, SelectFirst(s) PROVE FoundIsOutput'
  <2>1. /\ pc[s] = "select" /\ UNCHANGED todo
        /\ pc' = [pc EXCEPT ![s] = "done"] \/ (pc' = [pc EXCEPT ![s] = "insert"] /\ found' = found)
        /\ \A t \in Scanners \ {s} : found'[t] = found[t]
    BY <1>10 DEF SelectFirst, Types
  <2>2. \A t \in Scanners : pc'[t] \in {"select", "insert"} =>
          pc[t] \in {"select", "insert"} /\ found'[t] = found[t] /\ todo'[t] = todo[t]
    BY <2>1 DEF Types
  <2> QED BY <1>0, <2>2, FoundKept DEF AttributedInv
<1>11. ASSUME NEW s \in Scanners, InsertNew(s) PROVE FoundIsOutput'
  <2>1. \A t \in Scanners : pc'[t] \in {"select", "insert"} =>
          pc[t] \in {"select", "insert"} /\ found'[t] = found[t] /\ todo'[t] = todo[t]
    BY <1>0, <1>11 DEF InsertNew, Types
  <2> QED BY <1>0, <2>1, FoundKept DEF AttributedInv
<1>12. ASSUME NEW s \in Scanners, InsertClashes(s) PROVE FoundIsOutput'
  <2>1. \A t \in Scanners : pc'[t] \in {"select", "insert"} =>
          pc[t] \in {"select", "insert"} /\ found'[t] = found[t] /\ todo'[t] = todo[t]
    BY <1>0, <1>12 DEF InsertClashes, Raises, Stops, Types
  <2> QED BY <1>0, <2>1, FoundKept DEF AttributedInv
<1>13. ASSUME NEW s \in Scanners, ReadUsed(s) PROVE FoundIsOutput'
  <2>1. \A t \in Scanners : pc'[t] \in {"select", "insert"} =>
          pc[t] \in {"select", "insert"} /\ found'[t] = found[t] /\ todo'[t] = todo[t]
    BY <1>0, <1>13 DEF ReadUsed, Types
  <2> QED BY <1>0, <2>1, FoundKept DEF AttributedInv
<1>14. ASSUME NEW s \in Scanners, WriteUsed(s) PROVE FoundIsOutput'
  <2>1. \A t \in Scanners : pc'[t] \in {"select", "insert"} =>
          pc[t] \in {"select", "insert"} /\ found'[t] = found[t] /\ todo'[t] = todo[t]
    BY <1>0, <1>14 DEF WriteUsed, Types
  <2> QED BY <1>0, <2>1, FoundKept DEF AttributedInv
<1>15. ASSUME NEW s \in Scanners, AddDaily(s) PROVE FoundIsOutput'
  <2>1. \A t \in Scanners : pc'[t] \in {"select", "insert"} =>
          pc[t] \in {"select", "insert"} /\ found'[t] = found[t] /\ todo'[t] = todo[t]
    BY <1>0, <1>15 DEF AddDaily, Types
  <2> QED BY <1>0, <2>1, FoundKept DEF AttributedInv
<1>16. ASSUME NEW s \in Scanners, StoreFails(s) PROVE FoundIsOutput'
  <2>1. \A t \in Scanners : pc'[t] \in {"select", "insert"} =>
          pc[t] \in {"select", "insert"} /\ found'[t] = found[t] /\ todo'[t] = todo[t]
    BY <1>0, <1>16 DEF StoreFails, Raises, Stops, Types
  <2> QED BY <1>0, <2>1, FoundKept DEF AttributedInv
<1>17. ASSUME NEW s \in Scanners, Crash(s) PROVE FoundIsOutput'
  <2>1. \A t \in Scanners : pc'[t] \in {"select", "insert"} =>
          pc[t] \in {"select", "insert"} /\ found'[t] = found[t] /\ todo'[t] = todo[t]
    BY <1>0, <1>17 DEF Crash, Stops, Types
  <2> QED BY <1>0, <2>1, FoundKept DEF AttributedInv
<1>18. CASE UNCHANGED vars
  <2>1. \A t \in Scanners : pc'[t] \in {"select", "insert"} =>
          pc[t] \in {"select", "insert"} /\ found'[t] = found[t] /\ todo'[t] = todo[t]
    BY <1>0, <1>18 DEF vars, Types
  <2> QED BY <1>0, <2>1, FoundKept DEF AttributedInv
<1> QED
  BY <1>1, <1>2, <1>3, <1>4, <1>5, <1>6, <1>7, <1>8, <1>9, <1>10, <1>11, <1>12,
     <1>13, <1>14, <1>15, <1>16, <1>17, <1>18 DEF Next, DaemonStep, Attribute, Scanners

\* Whoever enters files of a run that nobody has read too early enters them all.
LEMMA InsertFinishes ==
  ASSUME Types, Locals, FoundOfRun, AttributedInv, NEW s \in Scanners, InsertNew(s),
         NEW r \in Runs \ early
  PROVE  /\ r = ScannedBy(s) => lead[r] = "ended" /\ Finished(r)'
         /\ r # ScannedBy(s) => \A a \in Agents : ledger'[<<r, a>>] = ledger[<<r, a>>]
<1> DEFINE new == {f \in Files : found[s][f] # Absent /\ ledger[f] = Absent}
<1>1. /\ pc[s] = "insert" /\ UNCHANGED <<lead, out>>
      /\ ledger' = [f \in Files |-> IF f \in new THEN found[s][f] ELSE ledger[f]]
  BY DEF InsertNew, leadVars
<1>2. \A a \in Agents : <<r, a>> \in Files /\ <<r, a>>[1] = r BY DEF Files
<1>3. ASSUME r # ScannedBy(s), NEW a \in Agents
      PROVE  ledger'[<<r, a>>] = ledger[<<r, a>>]
  <2>1. <<r, a>> \notin new BY <1>1, <1>2, <1>3 DEF FoundOfRun
  <2> QED BY <1>1, <1>2, <2>1
<1>4. ASSUME r = ScannedBy(s) PROVE lead[r] = "ended" /\ Finished(r)'
  <2>1. lead[r] = "ended" /\ \A a \in Agents : found[s][<<r, a>>] = out[<<r, a>>]
    BY <1>1, <1>4 DEF AttributedInv, FoundIsOutput
  <2>2. ASSUME NEW a \in Agents PROVE ledger'[<<r, a>>] = out'[<<r, a>>]
    <3>1. CASE <<r, a>> \in new BY <1>1, <1>2, <2>1, <3>1
    <3>2. CASE ledger[<<r, a>>] # Absent
      <4>1. Finished(r) BY <3>2 DEF AttributedInv, AllOrNone
      <4> QED BY <1>1, <1>2, <3>2, <4>1 DEF Finished
    <3>3. CASE <<r, a>> \notin new /\ ledger[<<r, a>>] = Absent
      <4>1. found[s][<<r, a>>] = Absent BY <1>2, <3>3
      <4> QED BY <1>1, <1>2, <2>1, <3>3, <4>1
    <3> QED BY <3>1, <3>2, <3>3
  <2> QED BY <2>1, <2>2 DEF Finished
<1> HIDE DEF new
<1> QED BY <1>3, <1>4

LEMMA StepFinished ==
    Types /\ Locals /\ FoundOfRun /\ AttributedInv /\ [Next]_vars => FinishedStays
<1> SUFFICES ASSUME Types, Locals, FoundOfRun, AttributedInv, [Next]_vars PROVE FinishedStays
  OBVIOUS
<1>0. Daemon \in Scanners /\ LeadsGoOn BY StepLeads DEF Scanners
<1> USE DEF leadVars, books, history
<1>1. ASSUME NEW r \in Runs, LeadEnds(r) PROVE FinishedStays
  BY <1>0, <1>1 DEF LeadEnds, FinishedStays, Finished, LeadsGoOn
<1>2. ASSUME NEW r \in Runs, KillHung(r) PROVE FinishedStays
  BY <1>0, <1>2 DEF KillHung, FinishedStays, Finished, LeadsGoOn
<1>3. ASSUME NEW r \in Runs, NEW a \in Agents, OpenOutput(r, a) PROVE FinishedStays
  BY <1>0, <1>3 DEF OpenOutput, FinishedStays, Finished, LeadsGoOn
<1>4. ASSUME NEW r \in Runs, NEW a \in Agents, SpendToken(r, a) PROVE FinishedStays
  BY <1>0, <1>4 DEF SpendToken, FinishedStays, Finished, LeadsGoOn
<1>5. ASSUME NEW r \in Runs, ReapStart(r) PROVE FinishedStays
  BY <1>0, <1>5 DEF ReapStart, FinishedStays, Finished, LeadsGoOn
<1>6. CASE ReapClose
  BY <1>0, <1>6 DEF ReapClose, FinishedStays, Finished, LeadsGoOn
<1>7. ASSUME NEW s \in Operators, ScanStart(s) PROVE FinishedStays
  BY <1>0, <1>7 DEF ScanStart, FinishedStays, Finished, LeadsGoOn
<1>8. ASSUME NEW s \in Operators, ScanNext(s) PROVE FinishedStays
  BY <1>0, <1>8 DEF ScanNext, FinishedStays, Finished, LeadsGoOn
<1>9. ASSUME NEW s \in Scanners, Discover(s) PROVE FinishedStays
  BY <1>0, <1>9 DEF Discover, FinishedStays, Finished, LeadsGoOn
<1>10. ASSUME NEW s \in Scanners, SelectFirst(s) PROVE FinishedStays
  BY <1>0, <1>10 DEF SelectFirst, FinishedStays, Finished, LeadsGoOn
<1>11. ASSUME NEW s \in Scanners, InsertNew(s) PROVE FinishedStays
  <2> SUFFICES ASSUME NEW r \in Runs \ early, lead[r] = "ended", Finished(r)
               PROVE  Finished(r)'
    BY DEF FinishedStays
  <2>1. CASE r = ScannedBy(s) BY <1>11, <2>1, InsertFinishes
  <2>2. CASE r # ScannedBy(s)
    <3>1. \A a \in Agents : ledger'[<<r, a>>] = ledger[<<r, a>>]
      BY <1>11, <2>2, InsertFinishes
    <3> QED BY <1>0, <3>1 DEF Finished, LeadsGoOn
  <2> QED BY <2>1, <2>2
<1>12. ASSUME NEW s \in Scanners, InsertClashes(s) PROVE FinishedStays
  BY <1>0, <1>12 DEF InsertClashes, Raises, Stops, FinishedStays, Finished, LeadsGoOn
<1>13. ASSUME NEW s \in Scanners, ReadUsed(s) PROVE FinishedStays
  BY <1>0, <1>13 DEF ReadUsed, FinishedStays, Finished, LeadsGoOn
<1>14. ASSUME NEW s \in Scanners, WriteUsed(s) PROVE FinishedStays
  BY <1>0, <1>14 DEF WriteUsed, FinishedStays, Finished, LeadsGoOn
<1>15. ASSUME NEW s \in Scanners, AddDaily(s) PROVE FinishedStays
  BY <1>0, <1>15 DEF AddDaily, FinishedStays, Finished, LeadsGoOn
<1>16. ASSUME NEW s \in Scanners, StoreFails(s) PROVE FinishedStays
  BY <1>0, <1>16 DEF StoreFails, Raises, Stops, FinishedStays, Finished, LeadsGoOn
<1>17. ASSUME NEW s \in Scanners, Crash(s) PROVE FinishedStays
  BY <1>0, <1>17 DEF Crash, Stops, FinishedStays, Finished, LeadsGoOn
<1>18. CASE UNCHANGED vars
  BY <1>0, <1>18 DEF vars, FinishedStays, Finished, LeadsGoOn
<1> QED
  BY <1>1, <1>2, <1>3, <1>4, <1>5, <1>6, <1>7, <1>8, <1>9, <1>10, <1>11, <1>12,
     <1>13, <1>14, <1>15, <1>16, <1>17, <1>18 DEF Next, DaemonStep, Attribute, Scanners

LEMMA AllOrNoneKept ==
  ASSUME AllOrNone, LeadsGoOn, UNCHANGED ledger
  PROVE  AllOrNone'
  BY ZenonT(30) DEF AllOrNone, LeadsGoOn, Finished

LEMMA StepAllOrNone ==
    Types /\ Locals /\ FoundOfRun /\ AttributedInv /\ [Next]_vars => AllOrNone'
<1> SUFFICES ASSUME Types, Locals, FoundOfRun, AttributedInv, [Next]_vars PROVE AllOrNone'
  OBVIOUS
<1>0. Daemon \in Scanners /\ LeadsGoOn BY StepLeads DEF Scanners
<1> USE DEF leadVars, books, history
<1>1. ASSUME NEW r \in Runs, LeadEnds(r) PROVE AllOrNone'
  BY <1>0, <1>1, AllOrNoneKept DEF LeadEnds, AttributedInv
<1>2. ASSUME NEW r \in Runs, KillHung(r) PROVE AllOrNone'
  BY <1>0, <1>2, AllOrNoneKept DEF KillHung, AttributedInv
<1>3. ASSUME NEW r \in Runs, NEW a \in Agents, OpenOutput(r, a) PROVE AllOrNone'
  BY <1>0, <1>3, AllOrNoneKept DEF OpenOutput, AttributedInv
<1>4. ASSUME NEW r \in Runs, NEW a \in Agents, SpendToken(r, a) PROVE AllOrNone'
  BY <1>0, <1>4, AllOrNoneKept DEF SpendToken, AttributedInv
<1>5. ASSUME NEW r \in Runs, ReapStart(r) PROVE AllOrNone'
  BY <1>0, <1>5, AllOrNoneKept DEF ReapStart, AttributedInv
<1>6. CASE ReapClose
  BY <1>0, <1>6, AllOrNoneKept DEF ReapClose, AttributedInv
<1>7. ASSUME NEW s \in Operators, ScanStart(s) PROVE AllOrNone'
  BY <1>0, <1>7, AllOrNoneKept DEF ScanStart, AttributedInv
<1>8. ASSUME NEW s \in Operators, ScanNext(s) PROVE AllOrNone'
  BY <1>0, <1>8, AllOrNoneKept DEF ScanNext, AttributedInv
<1>9. ASSUME NEW s \in Scanners, Discover(s) PROVE AllOrNone'
  BY <1>0, <1>9, AllOrNoneKept DEF Discover, AttributedInv
<1>10. ASSUME NEW s \in Scanners, SelectFirst(s) PROVE AllOrNone'
  BY <1>0, <1>10, AllOrNoneKept DEF SelectFirst, AttributedInv
<1>11. ASSUME NEW s \in Scanners, InsertNew(s) PROVE AllOrNone'
  <2> SUFFICES ASSUME NEW r \in Runs, r \notin early', NEW b \in Agents,
                      ledger'[<<r, b>>] # Absent
               PROVE  lead'[r] = "ended" /\ Finished(r)'
    BY DEF AllOrNone
  <2>1. r \in Runs \ early BY <1>0 DEF LeadsGoOn
  <2>2. CASE r = ScannedBy(s)
    BY <1>11, <1>0, <2>1, <2>2, InsertFinishes DEF LeadsGoOn
  <2>3. CASE r # ScannedBy(s)
    <3>1. \A a \in Agents : ledger'[<<r, a>>] = ledger[<<r, a>>]
      BY <1>11, <2>1, <2>3, InsertFinishes
    <3>2. lead[r] = "ended" /\ Finished(r)
      BY <2>1, <3>1 DEF AttributedInv, AllOrNone
    <3> QED BY <1>0, <3>1, <3>2 DEF LeadsGoOn, Finished
  <2> QED BY <2>2, <2>3
<1>12. ASSUME NEW s \in Scanners, InsertClashes(s) PROVE AllOrNone'
  BY <1>0, <1>12, AllOrNoneKept DEF InsertClashes, Raises, Stops, AttributedInv
<1>13. ASSUME NEW s \in Scanners, ReadUsed(s) PROVE AllOrNone'
  BY <1>0, <1>13, AllOrNoneKept DEF ReadUsed, AttributedInv
<1>14. ASSUME NEW s \in Scanners, WriteUsed(s) PROVE AllOrNone'
  BY <1>0, <1>14, AllOrNoneKept DEF WriteUsed, AttributedInv
<1>15. ASSUME NEW s \in Scanners, AddDaily(s) PROVE AllOrNone'
  BY <1>0, <1>15, AllOrNoneKept DEF AddDaily, AttributedInv
<1>16. ASSUME NEW s \in Scanners, StoreFails(s) PROVE AllOrNone'
  BY <1>0, <1>16, AllOrNoneKept DEF StoreFails, Raises, Stops, AttributedInv
<1>17. ASSUME NEW s \in Scanners, Crash(s) PROVE AllOrNone'
  BY <1>0, <1>17, AllOrNoneKept DEF Crash, Stops, AttributedInv
<1>18. CASE UNCHANGED vars
  BY <1>0, <1>18, AllOrNoneKept DEF vars, AttributedInv
<1> QED
  BY <1>1, <1>2, <1>3, <1>4, <1>5, <1>6, <1>7, <1>8, <1>9, <1>10, <1>11, <1>12,
     <1>13, <1>14, <1>15, <1>16, <1>17, <1>18 DEF Next, DaemonStep, Attribute, Scanners

Past == {"read_used", "write_used", "add_daily", "done"}

\* A step that leaves the daemon with its run, and passes the insertions only
\* with all files entered, disturbs nothing that is said of reaped runs.
LEMMA ReapedKept ==
  ASSUME Types, AttributedInv, LeadsGoOn, FinishedStays,
         todo'[Daemon] \in {todo[Daemon], {}},
         \A r \in todo'[Daemon] : pc'[Daemon] \in Past /\ r \notin early' \cup missed' =>
             pc[Daemon] \in Past \/ Finished(r)',
         \A r \in Runs : closed'[r] = "reaped" => closed[r] = "reaped"
  PROVE  DaemonsRun' /\ ReapedIsCounted'
<1>1. todo[Daemon] \subseteq Runs BY DEF Types, Scanners
<1>2. ASSUME NEW r \in todo'[Daemon]
      PROVE  lead'[r] = "ended" /\ todo'[Daemon] = {r}
  BY <1>1, <1>2 DEF AttributedInv, DaemonsRun, LeadsGoOn
<1>3. ASSUME NEW r \in todo'[Daemon], pc'[Daemon] \in Past, r \notin early' \cup missed'
      PROVE  Finished(r)'
  <2>1. CASE pc[Daemon] \in Past
    <3>1. r \in Runs \ early /\ r \notin missed /\ r \in todo[Daemon]
      BY <1>1, <1>3 DEF LeadsGoOn
    <3>2. lead[r] = "ended" /\ Finished(r)
      BY <2>1, <3>1 DEF AttributedInv, DaemonsRun, Past
    <3> QED BY <3>1, <3>2 DEF FinishedStays
  <2> QED BY <1>3, <2>1
<1>4. \A r \in Runs : closed'[r] = "reaped" => lead'[r] = "ended"
  BY DEF AttributedInv, DaemonsRun, LeadsGoOn
<1>5. ASSUME NEW r \in Runs, closed'[r] = "reaped", r \notin early' \cup missed'
      PROVE  Finished(r)'
  <2>1. r \notin early \cup missed BY <1>5 DEF LeadsGoOn
  <2>2. closed[r] = "reaped" BY <1>5
  <2>3. lead[r] = "ended" /\ Finished(r)
    BY <2>1, <2>2 DEF AttributedInv, DaemonsRun, ReapedIsCounted, Finished
  <2> QED BY <2>1, <2>3 DEF FinishedStays
<1>6. DaemonsRun' BY <1>2, <1>3, <1>4 DEF DaemonsRun, Past
<1>7. ReapedIsCounted' BY <1>5 DEF ReapedIsCounted, Finished
<1> QED BY <1>6, <1>7

LEMMA StepReaped ==
    Types /\ Locals /\ FoundOfRun /\ AttributedInv /\ [Next]_vars => DaemonsRun' /\ ReapedIsCounted'
<1> SUFFICES ASSUME Types, Locals, FoundOfRun, AttributedInv, [Next]_vars PROVE DaemonsRun' /\ ReapedIsCounted'
  OBVIOUS
<1>0. Daemon \in Scanners /\ LeadsGoOn /\ FinishedStays
  BY StepLeads, StepFinished DEF Scanners
<1> USE DEF leadVars, books, history
<1>1. ASSUME NEW r \in Runs, LeadEnds(r) PROVE DaemonsRun' /\ ReapedIsCounted'
  <2>1. /\ todo'[Daemon] \in {todo[Daemon], {}}
        /\ pc'[Daemon] \in Past /\ todo'[Daemon] # {} => pc[Daemon] \in Past
        /\ \A q \in Runs : closed'[q] = "reaped" => closed[q] = "reaped"
    BY <1>0, <1>1 DEF LeadEnds, Types, Past
  <2> QED BY <1>0, <2>1, ReapedKept
<1>2. ASSUME NEW r \in Runs, KillHung(r) PROVE DaemonsRun' /\ ReapedIsCounted'
  <2>1. /\ todo'[Daemon] \in {todo[Daemon], {}}
        /\ pc'[Daemon] \in Past /\ todo'[Daemon] # {} => pc[Daemon] \in Past
        /\ \A q \in Runs : closed'[q] = "reaped" => closed[q] = "reaped"
    BY <1>0, <1>2 DEF KillHung, Types, Past
  <2> QED BY <1>0, <2>1, ReapedKept
<1>3. ASSUME NEW r \in Runs, NEW a \in Agents, OpenOutput(r, a) PROVE DaemonsRun' /\ ReapedIsCounted'
  <2>1. /\ todo'[Daemon] \in {todo[Daemon], {}}
        /\ pc'[Daemon] \in Past /\ todo'[Daemon] # {} => pc[Daemon] \in Past
        /\ \A q \in Runs : closed'[q] = "reaped" => closed[q] = "reaped"
    BY <1>0, <1>3 DEF OpenOutput, Types, Past
  <2> QED BY <1>0, <2>1, ReapedKept
<1>4. ASSUME NEW r \in Runs, NEW a \in Agents, SpendToken(r, a) PROVE DaemonsRun' /\ ReapedIsCounted'
  <2>1. /\ todo'[Daemon] \in {todo[Daemon], {}}
        /\ pc'[Daemon] \in Past /\ todo'[Daemon] # {} => pc[Daemon] \in Past
        /\ \A q \in Runs : closed'[q] = "reaped" => closed[q] = "reaped"
    BY <1>0, <1>4 DEF SpendToken, Types, Past
  <2> QED BY <1>0, <2>1, ReapedKept
<1>5. ASSUME NEW r \in Runs, ReapStart(r) PROVE DaemonsRun' /\ ReapedIsCounted'
  <2>1. /\ todo'[Daemon] = {r} /\ lead'[r] = "ended" /\ pc'[Daemon] \notin Past
        /\ closed' = closed
    BY <1>0, <1>5 DEF ReapStart, Types, Past
  <2>2. \A q \in Runs : closed'[q] = "reaped" => lead'[q] = "ended"
    BY <1>0, <2>1 DEF AttributedInv, DaemonsRun, LeadsGoOn
  <2>3. DaemonsRun' BY <2>1, <2>2 DEF DaemonsRun, Past
  <2>4. ReapedIsCounted' BY <1>5 DEF ReapStart, AttributedInv, ReapedIsCounted
  <2> QED BY <2>3, <2>4
<1>6. CASE ReapClose
  <2>1. /\ pc[Daemon] \in Past /\ todo'[Daemon] = {}
        /\ UNCHANGED <<lead, out, ledger, early, missed>>
        /\ \A q \in Runs : closed'[q] = "reaped" => q \in todo[Daemon] \/ closed[q] = "reaped"
    BY <1>0, <1>6 DEF ReapClose, Types, Past
  <2>2. \A q \in Runs : closed'[q] = "reaped" => lead'[q] = "ended"
    BY <2>1 DEF AttributedInv, DaemonsRun
  <2>3. DaemonsRun' BY <2>1, <2>2 DEF DaemonsRun
  <2>4. ReapedIsCounted' 
    BY <2>1 DEF AttributedInv, DaemonsRun, ReapedIsCounted, Finished, Past
  <2> QED BY <2>3, <2>4
<1>7. ASSUME NEW s \in Operators, ScanStart(s) PROVE DaemonsRun' /\ ReapedIsCounted'
  <2>0. s \in Scanners /\ s # Daemon BY DEF Scanners
  <2>1. /\ todo'[Daemon] \in {todo[Daemon], {}}
        /\ pc'[Daemon] \in Past /\ todo'[Daemon] # {} => pc[Daemon] \in Past
        /\ \A q \in Runs : closed'[q] = "reaped" => closed[q] = "reaped"
    BY <1>0, <1>7, <2>0 DEF ScanStart, Types, Past
  <2> QED BY <1>0, <2>1, ReapedKept
<1>8. ASSUME NEW s \in Operators, ScanNext(s) PROVE DaemonsRun' /\ ReapedIsCounted'
  <2>0. s \in Scanners /\ s # Daemon BY DEF Scanners
  <2>1. /\ todo'[Daemon] \in {todo[Daemon], {}}
        /\ pc'[Daemon] \in Past /\ todo'[Daemon] # {} => pc[Daemon] \in Past
        /\ \A q \in Runs : closed'[q] = "reaped" => closed[q] = "reaped"
    BY <1>0, <1>8, <2>0 DEF ScanNext, Types, Past
  <2> QED BY <1>0, <2>1, ReapedKept
<1>9. ASSUME NEW s \in Scanners, Discover(s) PROVE DaemonsRun' /\ ReapedIsCounted'
  <2>1. /\ todo'[Daemon] \in {todo[Daemon], {}}
        /\ pc'[Daemon] \in Past /\ todo'[Daemon] # {} => pc[Daemon] \in Past
        /\ \A q \in Runs : closed'[q] = "reaped" => closed[q] = "reaped"
    BY <1>0, <1>9 DEF Discover, Types, Past
  <2> QED BY <1>0, <2>1, ReapedKept
<1>10. ASSUME NEW s \in Scanners, SelectFirst(s) PROVE DaemonsRun' /\ ReapedIsCounted'
  <2>1. UNCHANGED <<todo, closed>> /\ pc[s] # "idle"
        /\ \A t \in Scanners \ {s} : pc'[t] = pc[t]
    BY <1>10 DEF SelectFirst, Types
  <2>2. ASSUME NEW q \in todo'[Daemon], pc'[Daemon] \in Past, q \notin early' \cup missed'
        PROVE  pc[Daemon] \in Past \/ Finished(q)'
    <3>1. CASE s # Daemon BY <1>0, <2>1, <2>2, <3>1
    <3>2. CASE s = Daemon
      <4>1. q \in Runs \ early /\ q \in todo[Daemon]
        BY <1>0, <2>1, <2>2 DEF LeadsGoOn, Types
      <4>2. q = ScannedBy(s) BY <2>1, <3>2, <4>1, ScannedInTodo DEF AttributedInv, DaemonsRun
      <4>3. /\ pc[s] = "select" /\ UNCHANGED <<out, ledger>>
            /\ \A f \in Files : found[s][f] = Absent \/ ledger[f] # Absent
        BY <2>2, <3>2, <1>10 DEF SelectFirst, Past, Types
      <4>4. \A a \in Agents : <<q, a>> \in Files /\ found[s][<<q, a>>] = out[<<q, a>>]
        BY <4>1, <4>2, <4>3 DEF AttributedInv, FoundIsOutput, Files
      <4>5. Finished(q)
        <5>1. CASE \E a \in Agents : ledger[<<q, a>>] # Absent
          BY <4>1, <5>1 DEF AttributedInv, AllOrNone
        <5>2. CASE \A a \in Agents : ledger[<<q, a>>] = Absent
          BY <4>3, <4>4, <5>2 DEF Finished
        <5> QED BY <5>1, <5>2
      <4> QED BY <4>3, <4>5 DEF Finished
    <3> QED BY <3>1, <3>2
  <2> QED BY <1>0, <2>1, <2>2, ReapedKept
<1>11. ASSUME NEW s \in Scanners, InsertNew(s) PROVE DaemonsRun' /\ ReapedIsCounted'
  <2>1. UNCHANGED <<todo, closed>> /\ pc[s] # "idle"
        /\ \A t \in Scanners \ {s} : pc'[t] = pc[t]
    BY <1>11 DEF InsertNew, Types
  <2>2. ASSUME NEW q \in todo'[Daemon], pc'[Daemon] \in Past, q \notin early' \cup missed'
        PROVE  pc[Daemon] \in Past \/ Finished(q)'
    <3>1. CASE s # Daemon BY <1>0, <2>1, <2>2, <3>1
    <3>2. CASE s = Daemon
      <4>1. q \in Runs \ early /\ q \in todo[Daemon]
        BY <1>0, <2>1, <2>2 DEF LeadsGoOn, Types
      <4>2. q = ScannedBy(s) BY <2>1, <3>2, <4>1, ScannedInTodo DEF AttributedInv, DaemonsRun
      <4> QED BY <1>11, <4>1, <4>2, InsertFinishes
    <3> QED BY <3>1, <3>2
  <2> QED BY <1>0, <2>1, <2>2, ReapedKept
<1>12. ASSUME NEW s \in Scanners, InsertClashes(s) PROVE DaemonsRun' /\ ReapedIsCounted'
  <2>0. CASE s # Daemon
    <3>1. UNCHANGED closed /\ UNCHANGED <<pc[Daemon], todo[Daemon]>>
      BY <1>0, <1>12, <2>0 DEF InsertClashes, Raises, Stops, Types
    <3> QED BY <1>0, <3>1, ReapedKept
  <2>1. CASE s = Daemon
    <3>1. UNCHANGED <<todo, closed, out, ledger>>
      BY <1>12, <2>1 DEF InsertClashes, Raises, Stops
    <3>2. pc[s] = "insert" /\ ledger[<<ScannedBy(s), first[s]>>] # Absent
      BY <1>12 DEF InsertClashes
    <3>3. ASSUME NEW q \in todo'[Daemon], q \notin early' \cup missed' PROVE Finished(q)'
      <4>1. q \in Runs \ early /\ q \in todo[Daemon]
        BY <1>0, <3>1, <3>3 DEF LeadsGoOn, Types
      <4>2. q = ScannedBy(s)
        BY <2>1, <3>2, <4>1, ScannedInTodo DEF AttributedInv, DaemonsRun
      <4>3. Finished(q) BY <3>2, <4>1, <4>2 DEF Locals, AttributedInv, AllOrNone
      <4> QED BY <3>1, <4>3 DEF Finished
    <3> QED BY <1>0, <3>1, <3>3, ReapedKept
  <2> QED BY <2>0, <2>1
<1>13. ASSUME NEW s \in Scanners, ReadUsed(s) PROVE DaemonsRun' /\ ReapedIsCounted'
  <2>1. /\ todo'[Daemon] \in {todo[Daemon], {}}
        /\ pc'[Daemon] \in Past /\ todo'[Daemon] # {} => pc[Daemon] \in Past
        /\ \A q \in Runs : closed'[q] = "reaped" => closed[q] = "reaped"
    BY <1>0, <1>13 DEF ReadUsed, Types, Past
  <2> QED BY <1>0, <2>1, ReapedKept
<1>14. ASSUME NEW s \in Scanners, WriteUsed(s) PROVE DaemonsRun' /\ ReapedIsCounted'
  <2>1. /\ todo'[Daemon] \in {todo[Daemon], {}}
        /\ pc'[Daemon] \in Past /\ todo'[Daemon] # {} => pc[Daemon] \in Past
        /\ \A q \in Runs : closed'[q] = "reaped" => closed[q] = "reaped"
    BY <1>0, <1>14 DEF WriteUsed, Types, Past
  <2> QED BY <1>0, <2>1, ReapedKept
<1>15. ASSUME NEW s \in Scanners, AddDaily(s) PROVE DaemonsRun' /\ ReapedIsCounted'
  <2>1. /\ todo'[Daemon] \in {todo[Daemon], {}}
        /\ pc'[Daemon] \in Past /\ todo'[Daemon] # {} => pc[Daemon] \in Past
        /\ \A q \in Runs : closed'[q] = "reaped" => closed[q] = "reaped"
    BY <1>0, <1>15 DEF AddDaily, Types, Past
  <2> QED BY <1>0, <2>1, ReapedKept
<1>16. ASSUME NEW s \in Scanners, StoreFails(s) PROVE DaemonsRun' /\ ReapedIsCounted'
  <2>0. CASE s # Daemon
    <3>1. UNCHANGED closed /\ UNCHANGED <<pc[Daemon], todo[Daemon]>>
      BY <1>0, <1>16, <2>0 DEF StoreFails, Raises, Stops, Types
    <3> QED BY <1>0, <3>1, ReapedKept
  <2>1. CASE s = Daemon
    <3>1. UNCHANGED <<todo, closed>> /\ todo[Daemon] \subseteq missed'
      BY <1>16, <2>1 DEF StoreFails, Raises, Stops
    <3> QED BY <1>0, <3>1, ReapedKept
  <2> QED BY <2>0, <2>1
<1>17. ASSUME NEW s \in Scanners, Crash(s) PROVE DaemonsRun' /\ ReapedIsCounted'
  <2>1. /\ todo'[Daemon] \in {todo[Daemon], {}}
        /\ pc'[Daemon] \in Past /\ todo'[Daemon] # {} => pc[Daemon] \in Past
        /\ \A q \in Runs : closed'[q] = "reaped" => closed[q] = "reaped"
    BY <1>0, <1>17 DEF Crash, Stops, Types, Past
  <2> QED BY <1>0, <2>1, ReapedKept
<1>18. CASE UNCHANGED vars
  <2>1. /\ todo'[Daemon] \in {todo[Daemon], {}}
        /\ pc'[Daemon] \in Past /\ todo'[Daemon] # {} => pc[Daemon] \in Past
        /\ \A q \in Runs : closed'[q] = "reaped" => closed[q] = "reaped"
    BY <1>0, <1>18 DEF vars, Types, Past
  <2> QED BY <1>0, <2>1, ReapedKept
<1> QED
  BY <1>1, <1>2, <1>3, <1>4, <1>5, <1>6, <1>7, <1>8, <1>9, <1>10, <1>11, <1>12,
     <1>13, <1>14, <1>15, <1>16, <1>17, <1>18 DEF Next, DaemonStep, Attribute, Scanners

\* A run that was reaped without an error, and that nobody scanned while its Lead
\* was running, has every file in the ledger with all its tokens, whatever two
\* scanners did to it at the same time (orchestrator/token_tracker.py:299-376).
THEOREM ReapedIsCountedHolds == Spec => []ReapedIsCounted
<1>1. Types /\ Locals /\ FoundOfRun /\ AttributedInv /\ [Next]_vars => AttributedInv'
  BY StepFoundIsOutput, StepAllOrNone, StepReaped DEF AttributedInv
<1>2. Spec => []AttributedInv BY InitAttributed, TypesHold, <1>1, PTL DEF Spec
<1>3. AttributedInv => ReapedIsCounted BY DEF AttributedInv
<1> QED BY <1>2, <1>3, PTL
============================================================================
