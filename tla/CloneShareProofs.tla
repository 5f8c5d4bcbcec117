------------------------ MODULE CloneShareProofs -------------------------
(* Theorems about CloneShare, for every number of directories, Leads,       *)
(* phases, updates and faults.                                              *)
EXTENDS CloneShare, TLAPS

---------------------------------------------------------------------------
(* Types, and how far the dispatch and each Lead have got.                  *)

\* Only a run that has been recorded is launched, and a Lead that is past its
\* plan phase has its worktree.
Progress ==
    /\ pc \in {"cloning", "identity", "inject", "copying", "fetch", "record"}
         => lead[run] = "none"
    /\ pc \in {"notes", "spawn"} => lead[run] = "recorded"
    /\ pc = "copying" => next <= Dirs
    /\ \A l \in Leads :
         /\ lead[l] \in {"none", "recorded"} => phase[l] = 0
         /\ lead[l] = "ready" => phase[l] < Phases
         /\ lead[l] = "ready" /\ phase[l] > 0 => tree[l] = "worktree"

ProgressInv == TypeOK /\ Progress /\ WorksInWorktree

LEMMA InitProgress == Init => ProgressInv
<1> SUFFICES ASSUME Init PROVE ProgressInv OBVIOUS
<1> USE BoundsAssumption
<1>1. /\ identity \in BOOLEAN /\ excluded \in BOOLEAN /\ syncing \in BOOLEAN
      /\ cut \in BOOLEAN /\ spoilt \in BOOLEAN
  BY Zenon DEF Init
<1>2. TypeOK BY <1>1 DEF Init, TypeOK
<1>3. Progress /\ WorksInWorktree BY DEF Init, Progress, WorksInWorktree
<1> QED BY <1>2, <1>3 DEF ProgressInv

LEMMA GitFailsTyped == TypeOK /\ GitFails => faults' \in 0 .. MaxFaults
  BY BoundsAssumption DEF TypeOK, GitFails

LEMMA StepType == TypeOK /\ Progress /\ [Next]_vars => TypeOK'
<1> SUFFICES ASSUME TypeOK, Progress, [Next]_vars PROVE TypeOK'
  OBVIOUS
<1> USE BoundsAssumption DEF TypeOK, source, shared, daemon, leads, history
<1>1. CASE Update BY <1>1, SMTT(30) DEF Update
<1>2. CASE CloneDone BY <1>2, SMTT(30) DEF CloneDone
<1>3. CASE ConfigureIdentity
  <2>1. identity' \in BOOLEAN /\ syncing' \in BOOLEAN
    BY <1>3, Zenon DEF ConfigureIdentity
  <2> QED BY <1>3, <2>1 DEF ConfigureIdentity
<1>4. CASE Fetch BY <1>4, SMTT(30) DEF Fetch
<1>5. CASE ReplaceDir BY <1>5, SMTT(30) DEF ReplaceDir
<1>19. CASE SkipDir BY <1>19, SMTT(30) DEF SkipDir
<1>6. CASE DirReplaced
  <2>1. next \in 1 .. Dirs /\ from \in 0 .. MaxUpdates + 1 BY <1>6, SMTT(30) DEF DirReplaced, Progress
  <2>2. copy' \in [1 .. Dirs -> 0 .. MaxUpdates + 1] /\ torn' \subseteq 1 .. Dirs
    BY <1>6, <2>1 DEF DirReplaced
  <2>3. next' \in 1 .. Dirs + 1 BY <1>6, <2>1 DEF DirReplaced
  <2> QED BY <1>6, <2>2, <2>3 DEF DirReplaced
<1>7. CASE WriteExclude
  <2>1. excluded' \in BOOLEAN /\ spoilt' \in BOOLEAN
    BY <1>7, Zenon DEF WriteExclude
  <2>2. faults' \in 0 .. MaxFaults BY <1>7, GitFailsTyped DEF WriteExclude
  <2> QED BY <1>7, <2>1, <2>2 DEF WriteExclude
<1>8. CASE RecordRun BY <1>8, SMTT(30) DEF RecordRun
<1>9. CASE WriteNotes
  <2>1. run \in Leads OBVIOUS
  <2>2. \/ UNCHANGED <<notes, tree>>
        \/ notes' = [notes EXCEPT ![run] = "there"] /\ tree' = [tree EXCEPT ![run] = "bare"]
    BY <1>9, Zenon DEF WriteNotes
  <2>3. notes' \in [Leads -> {"none", "there", "lost"}] BY <2>1, <2>2
  <2>4. tree' \in [Leads -> {"absent", "bare", "worktree"}] BY <2>1, <2>2
  <2> QED BY <1>9, <2>3, <2>4 DEF WriteNotes
<1>10. CASE Spawn BY <1>10, SMTT(30) DEF Spawn
<1>11. CASE CallFails
  <2>1. cut' \in BOOLEAN /\ spoilt' \in BOOLEAN BY <1>11, Zenon DEF CallFails
  <2>2. faults' \in 0 .. MaxFaults /\ clone' \in {"absent", "cut", "whole"}
    BY <1>11, SMTT(30) DEF CallFails
  <2> QED BY <1>11, <2>1, <2>2, SMTT(30) DEF CallFails
<1>20. CASE SpawnFails BY <1>20, SMTT(30) DEF SpawnFails
<1>12. CASE Crash BY <1>12, SMTT(30) DEF Crash, Running
<1>13. ASSUME NEW l \in Leads, Dispatch(l) PROVE TypeOK'
  BY <1>13, SMTT(30) DEF Dispatch
<1>14. ASSUME NEW l \in Leads, StartPhase(l) PROVE TypeOK'
  BY <1>14, SMTT(30) DEF StartPhase, Progress
<1>15. ASSUME NEW l \in Leads, MissScript(l) PROVE TypeOK'
  BY <1>15, SMTT(30) DEF MissScript
<1>16. ASSUME NEW l \in Leads, CreateWorktree(l) PROVE TypeOK'
  <2>1. \E w \in {"worktree", "absent"}, s \in {"working", "failed"} :
          tree' = [tree EXCEPT ![l] = w] /\ lead' = [lead EXCEPT ![l] = s]
    BY <1>16, Zenon DEF CreateWorktree
  <2>2. \E n \in {notes[l], "lost"} : notes' = [notes EXCEPT ![l] = n]
    BY <1>16, Zenon DEF CreateWorktree
  <2>3. lead' \in [Leads -> {"none", "recorded", "ready", "planning", "working", "missed",
                             "failed", "ended", "killed"}]
    BY <2>1
  <2>4. tree' \in [Leads -> {"absent", "bare", "worktree"}] BY <2>1
  <2>5. notes' \in [Leads -> {"none", "there", "lost"}] BY <2>2
  <2>6. faults' \in 0 .. MaxFaults BY <1>16, GitFailsTyped DEF CreateWorktree
  <2> QED BY <1>16, <2>3, <2>5, <2>6, <2>4 DEF CreateWorktree
<1>17. ASSUME NEW l \in Leads, EndPhase(l) PROVE TypeOK'
  BY <1>17, SMTT(30) DEF EndPhase
<1>18. CASE UNCHANGED vars BY <1>18, SMTT(30) DEF vars
<1> QED
  BY <1>1, <1>2, <1>3, <1>4, <1>5, <1>19, <1>6, <1>7, <1>8, <1>9, <1>10, <1>11, <1>20, <1>12,
     <1>13, <1>14, <1>15, <1>16, <1>17, <1>18 DEF Next

LEMMA StepProgress == ProgressInv /\ [Next]_vars => Progress' /\ WorksInWorktree'
<1> SUFFICES ASSUME TypeOK, Progress, WorksInWorktree, [Next]_vars
             PROVE  Progress' /\ WorksInWorktree'
  BY DEF ProgressInv
<1> USE BoundsAssumption DEF TypeOK, Progress, WorksInWorktree, source, shared, daemon, leads, history
<1>1. CASE Update BY <1>1 DEF Update
<1>2. CASE CloneDone BY <1>2 DEF CloneDone
<1>3. CASE ConfigureIdentity BY <1>3 DEF ConfigureIdentity
<1>4. CASE Fetch BY <1>4 DEF Fetch
<1>5. CASE ReplaceDir BY <1>5 DEF ReplaceDir
<1>19. CASE SkipDir BY <1>19 DEF SkipDir
<1>6. CASE DirReplaced BY <1>6 DEF DirReplaced
<1>7. CASE WriteExclude BY <1>7 DEF WriteExclude
<1>8. CASE RecordRun BY <1>8 DEF RecordRun
<1>9. CASE WriteNotes BY <1>9 DEF WriteNotes
<1>10. CASE Spawn BY <1>10 DEF Spawn
<1>11. CASE CallFails BY <1>11 DEF CallFails
<1>20. CASE SpawnFails BY <1>20 DEF SpawnFails
<1>12. CASE Crash BY <1>12 DEF Crash, Running
<1>13. ASSUME NEW l \in Leads, Dispatch(l) PROVE Progress' /\ WorksInWorktree'
  BY <1>13 DEF Dispatch
<1>14. ASSUME NEW l \in Leads, StartPhase(l) PROVE Progress' /\ WorksInWorktree'
  BY <1>14 DEF StartPhase
<1>15. ASSUME NEW l \in Leads, MissScript(l) PROVE Progress' /\ WorksInWorktree'
  BY <1>15 DEF MissScript
<1>16. ASSUME NEW l \in Leads, CreateWorktree(l) PROVE Progress' /\ WorksInWorktree'
  BY <1>16 DEF CreateWorktree
<1>17. ASSUME NEW l \in Leads, EndPhase(l) PROVE Progress' /\ WorksInWorktree'
  BY <1>17 DEF EndPhase
<1>18. CASE UNCHANGED vars BY <1>18 DEF vars
<1> QED
  BY <1>1, <1>2, <1>3, <1>4, <1>5, <1>19, <1>6, <1>7, <1>8, <1>9, <1>10, <1>11, <1>20, <1>12,
     <1>13, <1>14, <1>15, <1>16, <1>17, <1>18 DEF Next

\* The types hold, for every instance (orchestrator/repo_manager.py,
\* orchestrator/dispatcher.py, adws/adw_modules/worktree_ops.py).
THEOREM TypeCorrect == Spec => []TypeOK
<1>1. Spec => []ProgressInv
  BY InitProgress, StepType, StepProgress, PTL DEF Spec, ProgressInv
<1> QED BY <1>1, PTL DEF ProgressInv

\* Whatever the dispatcher leaves in trees/, and whatever fails, no Lead gets
\* past its plan phase without a worktree that git knows
\* (adws/adw_modules/worktree_ops.py:64).
THEOREM WorksInWorktreeHolds == Spec => []WorksInWorktree
<1>1. Spec => []ProgressInv
  BY InitProgress, StepType, StepProgress, PTL DEF Spec, ProgressInv
<1> QED BY <1>1, PTL DEF ProgressInv

---------------------------------------------------------------------------
(* The substrate.                                                           *)

\* While the directories are replaced, those before the next one that were not
\* missing are whole and were copied after the dispatch began; so they all are
\* once it is past them.
Replaced ==
    /\ pc # "idle" => since > 0
    /\ pc = "copying" => from >= since
    /\ pc \in {"inject", "copying"} =>
         \A d \in (1 .. next - 1) \ skipped : There(d) /\ copy[d] >= since
    /\ clone = "absent" => pc = "idle"
    /\ clone = "cut" => cut \/ pc = "cloning"

SubstrateInv == Replaced /\ LaunchedFresh /\ MissesWhileReplaced

LEMMA InitSubstrate == Init => SubstrateInv
  BY DEF Init, SubstrateInv, Replaced, LaunchedFresh, MissesWhileReplaced, Running

LEMMA StepReplaced ==
    TypeOK /\ Progress /\ Replaced /\ LaunchedFresh /\ [Next]_vars
      => Replaced' /\ LaunchedFresh'
<1> SUFFICES ASSUME TypeOK, Progress, Replaced, LaunchedFresh, [Next]_vars
             PROVE  Replaced' /\ LaunchedFresh'
  OBVIOUS
<1> USE BoundsAssumption DEF TypeOK, Progress, Replaced, LaunchedFresh, There,
        source, shared, daemon, leads, history
<1>1. CASE Update BY <1>1 DEF Update
<1>2. CASE CloneDone BY <1>2 DEF CloneDone
<1>3. CASE ConfigureIdentity BY <1>3 DEF ConfigureIdentity
<1>4. CASE Fetch BY <1>4 DEF Fetch
<1>5. CASE ReplaceDir BY <1>5 DEF ReplaceDir
<1>19. CASE SkipDir BY <1>19 DEF SkipDir
<1>6. CASE DirReplaced BY <1>6 DEF DirReplaced
<1>7. CASE WriteExclude BY <1>7 DEF WriteExclude
<1>8. CASE RecordRun BY <1>8 DEF RecordRun
<1>9. CASE WriteNotes BY <1>9 DEF WriteNotes
<1>10. CASE Spawn BY <1>10 DEF Spawn
<1>11. CASE CallFails BY <1>11 DEF CallFails
<1>20. CASE SpawnFails BY <1>20 DEF SpawnFails
<1>12. CASE Crash BY <1>12 DEF Crash
<1>13. ASSUME NEW l \in Leads, Dispatch(l) PROVE Replaced' /\ LaunchedFresh'
  BY <1>13 DEF Dispatch
<1>14. ASSUME NEW l \in Leads, StartPhase(l) PROVE Replaced' /\ LaunchedFresh'
  BY <1>14 DEF StartPhase
<1>15. ASSUME NEW l \in Leads, MissScript(l) PROVE Replaced' /\ LaunchedFresh'
  BY <1>15 DEF MissScript
<1>16. ASSUME NEW l \in Leads, CreateWorktree(l) PROVE Replaced' /\ LaunchedFresh'
  BY <1>16 DEF CreateWorktree
<1>17. ASSUME NEW l \in Leads, EndPhase(l) PROVE Replaced' /\ LaunchedFresh'
  BY <1>17 DEF EndPhase
<1>18. CASE UNCHANGED vars BY <1>18 DEF vars
<1> QED
  BY <1>1, <1>2, <1>3, <1>4, <1>5, <1>19, <1>6, <1>7, <1>8, <1>9, <1>10, <1>11, <1>20, <1>12,
     <1>13, <1>14, <1>15, <1>16, <1>17, <1>18 DEF Next

\* No step but Spawn lets a Lead run where none did.
LEMMA StepMisses ==
    TypeOK /\ SubstrateInv /\ [Next]_vars => MissesWhileReplaced'
<1> SUFFICES ASSUME TypeOK, Replaced, LaunchedFresh, MissesWhileReplaced, [Next]_vars
             PROVE  MissesWhileReplaced'
  BY DEF SubstrateInv
<1> USE BoundsAssumption DEF TypeOK, Replaced, LaunchedFresh, MissesWhileReplaced,
        Running, Replacing, There, source, shared, daemon, leads, history
<1>1. CASE Update BY <1>1 DEF Update
<1>2. CASE CloneDone BY <1>2 DEF CloneDone
<1>3. CASE ConfigureIdentity BY <1>3 DEF ConfigureIdentity
<1>4. CASE Fetch BY <1>4 DEF Fetch
<1>5. CASE ReplaceDir BY <1>5 DEF ReplaceDir
<1>19. CASE SkipDir BY <1>19 DEF SkipDir
<1>6. CASE DirReplaced BY <1>6 DEF DirReplaced
<1>7. CASE WriteExclude BY <1>7 DEF WriteExclude
<1>8. CASE RecordRun BY <1>8 DEF RecordRun
<1>9. CASE WriteNotes BY <1>9 DEF WriteNotes
<1>10. CASE Spawn BY <1>10 DEF Spawn
<1>11. CASE CallFails BY <1>11 DEF CallFails
<1>20. CASE SpawnFails BY <1>20 DEF SpawnFails
<1>12. CASE Crash BY <1>12 DEF Crash
<1>13. ASSUME NEW l \in Leads, Dispatch(l) PROVE MissesWhileReplaced'
  BY <1>13 DEF Dispatch
<1>14. ASSUME NEW l \in Leads, StartPhase(l) PROVE MissesWhileReplaced'
  BY <1>14 DEF StartPhase
<1>15. ASSUME NEW l \in Leads, MissScript(l) PROVE MissesWhileReplaced'
  BY <1>15 DEF MissScript
<1>16. ASSUME NEW l \in Leads, CreateWorktree(l) PROVE MissesWhileReplaced'
  BY <1>16 DEF CreateWorktree
<1>17. ASSUME NEW l \in Leads, EndPhase(l) PROVE MissesWhileReplaced'
  BY <1>17 DEF EndPhase
<1>18. CASE UNCHANGED vars BY <1>18 DEF vars
<1> QED
  BY <1>1, <1>2, <1>3, <1>4, <1>5, <1>19, <1>6, <1>7, <1>8, <1>9, <1>10, <1>11, <1>20, <1>12,
     <1>13, <1>14, <1>15, <1>16, <1>17, <1>18 DEF Next

LEMMA SubstrateHolds == Spec => []SubstrateInv
<1>1. Spec => []ProgressInv
  BY InitProgress, StepType, StepProgress, PTL DEF Spec, ProgressInv
<1>2. ProgressInv /\ SubstrateInv /\ [Next]_vars => SubstrateInv'
  BY StepReplaced, StepMisses DEF ProgressInv, SubstrateInv
<1> QED BY <1>1, <1>2, InitSubstrate, PTL DEF Spec

\* A run is recorded and launched only on a substrate that is whole and no older
\* than tac-master's was when the dispatch began, but for directories tac-master
\* had lost, whichever call failed and wherever the daemon died before
\* (repo_manager.py:175).
THEOREM LaunchedFreshHolds == Spec => []LaunchedFresh
  BY SubstrateHolds, PTL DEF SubstrateInv

\* A Lead can miss the script of its next phase only during the dispatch of
\* another run, after one that was cut short, or from a directory that tac-master
\* had lost (repo_manager.py:187, 195).
THEOREM MissesHolds == Spec => []MissesWhileReplaced
  BY SubstrateHolds, PTL DEF SubstrateInv

---------------------------------------------------------------------------
(* The identity of the committer.                                           *)

\* A clone that exists has an identity, is about to get it, or never will.
Identified ==
    /\ clone # "absent" /\ ~identity => cut \/ pc \in {"cloning", "identity"}
    /\ pc = "fetch" => clone # "absent"

IdentityInv == Identified /\ IdentityUnlessCut

LEMMA InitIdentity == Init => IdentityInv
  BY DEF Init, IdentityInv, Identified, IdentityUnlessCut, Running

LEMMA StepIdentity == TypeOK /\ Replaced /\ IdentityInv /\ [Next]_vars => IdentityInv'
<1> SUFFICES ASSUME TypeOK, Replaced, IdentityInv, [Next]_vars PROVE IdentityInv'
  OBVIOUS
<1> USE BoundsAssumption DEF TypeOK, Replaced, IdentityInv, Identified, IdentityUnlessCut,
        Running, Replacing, source, shared, daemon, leads, history
<1>1. CASE Update BY <1>1 DEF Update
<1>2. CASE CloneDone BY <1>2 DEF CloneDone
<1>3. CASE ConfigureIdentity BY <1>3 DEF ConfigureIdentity
<1>4. CASE Fetch BY <1>4 DEF Fetch
<1>5. CASE ReplaceDir BY <1>5 DEF ReplaceDir
<1>19. CASE SkipDir BY <1>19 DEF SkipDir
<1>6. CASE DirReplaced BY <1>6 DEF DirReplaced
<1>7. CASE WriteExclude BY <1>7 DEF WriteExclude
<1>8. CASE RecordRun BY <1>8 DEF RecordRun
<1>9. CASE WriteNotes BY <1>9 DEF WriteNotes
<1>10. CASE Spawn BY <1>10 DEF Spawn
<1>11. CASE CallFails BY <1>11 DEF CallFails
<1>20. CASE SpawnFails BY <1>20 DEF SpawnFails
<1>12. CASE Crash BY <1>12 DEF Crash
<1>13. ASSUME NEW l \in Leads, Dispatch(l) PROVE IdentityInv'
  BY <1>13 DEF Dispatch
<1>14. ASSUME NEW l \in Leads, StartPhase(l) PROVE IdentityInv'
  BY <1>14 DEF StartPhase
<1>15. ASSUME NEW l \in Leads, MissScript(l) PROVE IdentityInv'
  BY <1>15 DEF MissScript
<1>16. ASSUME NEW l \in Leads, CreateWorktree(l) PROVE IdentityInv'
  BY <1>16 DEF CreateWorktree
<1>17. ASSUME NEW l \in Leads, EndPhase(l) PROVE IdentityInv'
  BY <1>17 DEF EndPhase
<1>18. CASE UNCHANGED vars BY <1>18 DEF vars
<1> QED
  BY <1>1, <1>2, <1>3, <1>4, <1>5, <1>19, <1>6, <1>7, <1>8, <1>9, <1>10, <1>11, <1>20, <1>12,
     <1>13, <1>14, <1>15, <1>16, <1>17, <1>18 DEF Next

\* Every Lead commits under the configured identity, unless the first dispatch
\* was cut between git clone and git config (repo_manager.py:78).
THEOREM IdentityHolds == Spec => []IdentityUnlessCut
<1>1. Spec => []ProgressInv
  BY InitProgress, StepType, StepProgress, PTL DEF Spec, ProgressInv
<1>2. ProgressInv /\ SubstrateInv /\ IdentityInv /\ [Next]_vars => IdentityInv'
  BY StepIdentity DEF ProgressInv, SubstrateInv
<1>3. Spec => []IdentityInv
  BY <1>1, <1>2, SubstrateHolds, InitIdentity, PTL DEF Spec
<1> QED BY <1>3, PTL DEF IdentityInv
============================================================================
