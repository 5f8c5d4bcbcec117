-------------------- MODULE OrchestratorSessionProofs --------------------
(* Theorems about OrchestratorSession, for any finite sets of services and  *)
(* messages and for all bounds.                                             *)
EXTENDS OrchestratorSession, TotalsTheorems

USE ServicesAssumption, MessagesAssumption, BoundsAssumption

---------------------------------------------------------------------------
(* Types without the bound on the tokens, and where a message streams.      *)

Types ==
    /\ rows \in 0 .. MaxStarts /\ session \in [Rows -> Sessions]
    /\ tokens \in [Rows -> Nat]
    /\ state \in [Services -> {"down", "probed", "spawning", "up", "draining"}]
    /\ row \in [Services -> 0 .. MaxStarts]
    /\ resumed \in [Services -> Sessions] /\ client \in [Services -> Sessions]
    /\ loaded \in [Services -> BOOLEAN] /\ busy \in [Services -> BOOLEAN]
    /\ pc \in [Messages -> {"unsent", "spawned", "answering", "answered", "over"}]
    /\ at \in [Messages -> Services \cup {None}]
    /\ parent \in [Messages -> Sessions] /\ final \in [Messages -> Sessions]
    /\ context \in [Messages -> SUBSET Messages]
    /\ starts \in 0 .. MaxStarts /\ faults \in 0 .. MaxFaults
    /\ counted \subseteq Messages /\ interrupted \subseteq Messages
    /\ overlapped \in BOOLEAN /\ started \subseteq Services

\* Every service that starts may insert a row, and no row is inserted otherwise.
Starting == {s \in Services : state[s] \in {"probed", "spawning"}}
RowsInv == rows + Cardinality(Starting) <= starts

\* A service that serves has one of the rows, a message streams at a service
\* that serves, and a result is read once.
Places ==
    /\ \A s \in Services : /\ state[s] # "down" => s \in started
                           /\ state[s] \in {"up", "draining"} => row[s] \in 1 .. rows
    /\ \A m \in Messages :
         /\ pc[m] \in Streaming =>
              at[m] \in Services /\ state[at[m]] \in {"up", "draining"} /\ loaded[at[m]]
         /\ pc[m] \notin Streaming => at[m] = None
         /\ pc[m] # "answered" => final[m] = None
         /\ m \in counted => pc[m] \in {"answered", "over"}
    /\ rows = 0 => counted = {}

LEMMA InitTypes == Init => Types /\ RowsInv /\ Places
<1> SUFFICES ASSUME Init PROVE Types /\ RowsInv /\ Places OBVIOUS
<1>1. overlapped \in BOOLEAN BY Zenon DEF Init
<1>2. Types BY <1>1 DEF Init, Types, Rows, Sessions
<1>3. Starting = {} BY DEF Init, Starting
<1>4. RowsInv BY <1>3, FS_EmptySet DEF Init, RowsInv
<1>5. Places BY DEF Init, Places, Streaming
<1> QED BY <1>2, <1>4, <1>5

LEMMA SpawnRoom ==
  ASSUME Types, RowsInv, NEW s \in Services, state[s] \in {"probed", "spawning"}
  PROVE  rows + 1 \in Rows
<1>1. IsFiniteSet(Starting) /\ s \in Starting BY FS_Subset DEF Starting
<1>2. Cardinality(Starting) \in Nat /\ Cardinality(Starting) # 0
  BY <1>1, FS_EmptySet, FS_CardinalityType
<1> QED BY <1>2 DEF Types, RowsInv, Rows

\* What is left when messages are forgotten, and when a service has stopped.
LEMMA ForgetTypes ==
  ASSUME Types, NEW gone, Forget(gone)
  PROVE  /\ at' \in [Messages -> Services \cup {None}]
         /\ parent' \in [Messages -> Sessions] /\ final' \in [Messages -> Sessions]
         /\ interrupted' \subseteq Messages
BY DEF Types, Forget, Sessions

LEMMA StopTypes ==
  ASSUME Types, NEW s \in Services, Stop(s), faults' \in 0 .. MaxFaults
  PROVE  Types'
<1> USE DEF Types, Rows, Sessions, agents
<1>1. /\ at' \in [Messages -> Services \cup {None}]
      /\ parent' \in [Messages -> Sessions] /\ final' \in [Messages -> Sessions]
      /\ interrupted' \subseteq Messages
  BY ForgetTypes DEF Stop
<1>2. pc' \in [Messages -> {"unsent", "spawned", "answering", "answered", "over"}]
  BY DEF Stop
<1>3. /\ state' \in [Services -> {"down", "probed", "spawning", "up", "draining"}]
      /\ row' \in [Services -> 0 .. MaxStarts]
      /\ resumed' \in [Services -> Sessions] /\ client' \in [Services -> Sessions]
      /\ loaded' \in [Services -> BOOLEAN] /\ busy' \in [Services -> BOOLEAN]
  BY DEF Stop
<1> QED BY <1>1, <1>2, <1>3 DEF Stop

LEMMA ResumableType ==
  ASSUME Types, Places, NEW s \in Services, state[s] = "up"
  PROVE  Resumable(s) \in Sessions
BY DEF Types, Places, Resumable, Rows

LEMMA StepTypes ==
  ASSUME Types, RowsInv, Places, [Next]_vars
  PROVE  Types'
<1> USE DEF Types, Rows, Sessions, agents, service, streams, history
<1>1. ASSUME NEW s \in Services, Probe(s) PROVE Types'
  BY <1>1 DEF Probe
<1>2. ASSUME NEW s \in Services, Adopt(s) PROVE Types'
  BY <1>2 DEF Adopt, ResumeSession
<1>3. ASSUME NEW s \in Services, FindNoRow(s) PROVE Types'
  BY <1>3 DEF FindNoRow
<1>4. ASSUME NEW s \in Services, SpawnSession(s) PROVE Types'
  <2>1. rows + 1 \in Rows BY <1>4, SpawnRoom DEF SpawnSession
  <2> QED BY <1>4, <2>1 DEF SpawnSession
<1>5. ASSUME NEW s \in Services, Interrupt(s) PROVE Types'
  <2>1. interrupted' \subseteq Messages BY <1>5 DEF Interrupt, RunningAt
  <2>2. faults' \in 0 .. MaxFaults BY <1>5 DEF Interrupt
  <2> QED BY <1>5, <2>1, <2>2 DEF Interrupt
<1>6. ASSUME NEW s \in Services, Terminate(s) PROVE Types'
  BY <1>6 DEF Terminate
<1>7. ASSUME NEW s \in Services, DrainedStop(s) PROVE Types'
  BY <1>7, StopTypes DEF DrainedStop
<1>8. ASSUME NEW s \in Services, DrainDeadline(s) PROVE Types'
  BY <1>8, StopTypes DEF DrainDeadline
<1>9. ASSUME NEW s \in Services, BridgeStop(s) PROVE Types'
  BY <1>9, StopTypes DEF BridgeStop
<1>10. ASSUME NEW s \in Services, Crash(s) PROVE Types'
  <2>1. faults' \in 0 .. MaxFaults BY <1>10 DEF Crash
  <2> QED BY <1>10, <2>1, StopTypes DEF Crash
<1>11. ASSUME NEW s \in Services, NEW m \in Messages, BeginStream(s, m) PROVE Types'
  <2>1. Resumable(s) \in Sessions BY <1>11, ResumableType DEF BeginStream
  <2>2. overlapped' \in BOOLEAN BY <1>11, Zenon DEF BeginStream
  <2> HIDE DEF Sessions
  <2> QED BY <1>11, <2>1, <2>2 DEF BeginStream
<1>12. ASSUME NEW m \in Messages, ReadInit(m) PROVE Types'
  <2>1. PICK new \in {m, parent[m]} \ {None} :
          /\ client' = [client EXCEPT ![at[m]] = new]
          /\ session' = [session EXCEPT ![row[at[m]]] = new]
          /\ context' = [context EXCEPT ![new] =
               @ \cup {m} \cup (IF parent[m] = None THEN {} ELSE context[parent[m]])]
    BY <1>12 DEF ReadInit
  <2>2. new \in Messages BY <2>1
  <2>3. context' \in [Messages -> SUBSET Messages] BY <2>1, <2>2
  <2>4. client' \in [Services -> Sessions] /\ session' \in [Rows -> Sessions]
    BY <2>1, <2>2
  <2> QED BY <1>12, <2>3, <2>4 DEF ReadInit
<1>13. ASSUME NEW m \in Messages, ReadResult(m) PROVE Types'
  <2>1. client[at[m]] \in Sessions BY <1>13 DEF ReadResult, Places, Streaming
  <2>2. row[at[m]] \in Rows BY <1>13 DEF ReadResult, Places, Streaming
  <2>3. tokens' \in [Rows -> Nat] BY <1>13, <2>2 DEF ReadResult
  <2> HIDE DEF Sessions, Rows
  <2> QED BY <1>13, <2>1, <2>3 DEF ReadResult
<1>14. ASSUME NEW m \in Messages, EndStream(m) PROVE Types'
  BY <1>14 DEF EndStream, Settle, Forget
<1>15. ASSUME NEW m \in Messages, FailStream(m) PROVE Types'
  <2>1. /\ at' \in [Messages -> Services \cup {None}]
        /\ parent' \in [Messages -> Sessions] /\ final' \in [Messages -> Sessions]
        /\ interrupted' \subseteq Messages
    BY <1>15, ForgetTypes DEF FailStream, Settle
  <2>2. faults' \in 0 .. MaxFaults BY <1>15 DEF FailStream
  <2> HIDE DEF Sessions, Rows
  <2> QED BY <1>15, <2>1, <2>2 DEF FailStream, Settle
<1>16. CASE UNCHANGED vars BY <1>16 DEF vars
<1> HIDE DEF Types, Rows, Sessions, agents, service, streams, history
<1> QED
  BY <1>1, <1>2, <1>3, <1>4, <1>5, <1>6, <1>7, <1>8, <1>9, <1>10, <1>11, <1>12,
     <1>13, <1>14, <1>15, <1>16
     DEF Next, Shutdown

LEMMA StepPlaces ==
  ASSUME Types, Places, [Next]_vars
  PROVE  Places'
<1> USE DEF Types, Places, Streaming, Rows, agents, service, streams, history
<1>1. ASSUME NEW s \in Services, Probe(s) PROVE Places'
  BY <1>1 DEF Probe
<1>2. ASSUME NEW s \in Services, Adopt(s) PROVE Places'
  BY <1>2 DEF Adopt, ResumeSession
<1>3. ASSUME NEW s \in Services, FindNoRow(s) PROVE Places'
  BY <1>3, ZenonT(30) DEF FindNoRow
<1>4. ASSUME NEW s \in Services, SpawnSession(s) PROVE Places'
  <2>1. /\ rows' = rows + 1 /\ row' = [row EXCEPT ![s] = rows + 1]
        /\ loaded' = [loaded EXCEPT ![s] = FALSE] /\ state' = [state EXCEPT ![s] = "up"]
        /\ state[s] = "spawning" /\ UNCHANGED <<started, pc, at, final, counted>>
    BY <1>4 DEF SpawnSession
  <2>2. \A t \in Services : /\ state'[t] # "down" => t \in started'
                           /\ state'[t] \in {"up", "draining"} => row'[t] \in 1 .. rows'
    BY <2>1
  <2>3. ASSUME NEW m \in Messages, pc[m] \in Streaming
        PROVE  at[m] \in Services /\ at[m] # s /\ state[at[m]] \in {"up", "draining"} /\ loaded[at[m]]
    BY <2>1, <2>3
  <2>4. \A m \in Messages : pc'[m] \in Streaming =>
           at'[m] \in Services /\ state'[at'[m]] \in {"up", "draining"} /\ loaded'[at'[m]]
    BY <2>1, <2>3
  <2> QED BY <2>1, <2>2, <2>4
<1>5. ASSUME NEW s \in Services, Interrupt(s) PROVE Places'
  BY <1>5 DEF Interrupt
<1>6. ASSUME NEW s \in Services, Terminate(s) PROVE Places'
  BY <1>6 DEF Terminate
<1>7. ASSUME NEW s \in Services, DrainedStop(s) PROVE Places'
  BY <1>7 DEF DrainedStop, Stop, Forget
<1>8. ASSUME NEW s \in Services, DrainDeadline(s) PROVE Places'
  BY <1>8 DEF DrainDeadline, Stop, Forget
<1>9. ASSUME NEW s \in Services, BridgeStop(s) PROVE Places'
  BY <1>9 DEF BridgeStop, Stop, Forget
<1>10. ASSUME NEW s \in Services, Crash(s) PROVE Places'
  BY <1>10 DEF Crash, Stop, Forget
<1>11. ASSUME NEW s \in Services, NEW m \in Messages, BeginStream(s, m) PROVE Places'
  BY <1>11 DEF BeginStream, Resumable
<1>12. ASSUME NEW m \in Messages, ReadInit(m) PROVE Places'
  BY <1>12 DEF ReadInit
<1>13. ASSUME NEW m \in Messages, ReadResult(m) PROVE Places'
  BY <1>13 DEF ReadResult
<1>14. ASSUME NEW m \in Messages, EndStream(m) PROVE Places'
  BY <1>14 DEF EndStream, Settle, Forget
<1>15. ASSUME NEW m \in Messages, FailStream(m) PROVE Places'
  BY <1>15 DEF FailStream, Settle, Forget
<1>16. CASE UNCHANGED vars BY <1>16 DEF vars
<1> HIDE DEF Types, Places, Streaming, Rows, agents, service, streams, history
<1> QED
  BY <1>1, <1>2, <1>3, <1>4, <1>5, <1>6, <1>7, <1>8, <1>9, <1>10, <1>11, <1>12,
     <1>13, <1>14, <1>15, <1>16
     DEF Next, Shutdown

LEMMA StepRows ==
  ASSUME Types, RowsInv, [Next]_vars
  PROVE  RowsInv'
<1> USE DEF Types, agents, service, streams, history
<1>0. IsFiniteSet(Starting) BY FS_Subset DEF Starting
<1>1. Cardinality(Starting) \in Nat BY <1>0, FS_CardinalityType
<1>2. ASSUME NEW s \in Services, Probe(s) PROVE RowsInv'
  <2>1. Starting' = Starting \cup {s} /\ s \notin Starting BY <1>2 DEF Probe, Starting
  <2>2. Cardinality(Starting') = Cardinality(Starting) + 1
    BY <2>1, <1>0, FS_AddElement
  <2> QED BY <1>2, <2>2, <1>1 DEF Probe, RowsInv
<1>3. ASSUME NEW s \in Services, SpawnSession(s) PROVE RowsInv'
  <2>1. Starting' = Starting \ {s} /\ s \in Starting BY <1>3 DEF SpawnSession, Starting
  <2>2. Cardinality(Starting') = Cardinality(Starting) - 1
    BY <2>1, <1>0, FS_RemoveElement
  <2> QED BY <1>3, <2>2, <1>1 DEF SpawnSession, RowsInv
<1>4. ASSUME UNCHANGED <<rows, starts>>, Starting' \subseteq Starting PROVE RowsInv'
  <2>1. Cardinality(Starting') <= Cardinality(Starting) /\ Cardinality(Starting') \in Nat
    BY <1>0, <1>4, FS_Subset, FS_CardinalityType
  <2> QED BY <1>4, <2>1, <1>1 DEF RowsInv
<1>5. ASSUME NEW s \in Services, Adopt(s) PROVE RowsInv'
  BY <1>5, <1>4 DEF Adopt, Starting
<1>6. ASSUME NEW s \in Services, FindNoRow(s) PROVE RowsInv'
  BY <1>6, <1>4 DEF FindNoRow, Starting
<1>7. ASSUME NEW s \in Services, Terminate(s) PROVE RowsInv'
  BY <1>7, <1>4 DEF Terminate, Starting
<1>8. ASSUME NEW s \in Services, Stop(s) PROVE RowsInv'
  BY <1>8, <1>4 DEF Stop, Starting
<1>9. ASSUME UNCHANGED <<rows, starts, state>> PROVE RowsInv'
  BY <1>9, <1>4 DEF Starting
<1> HIDE DEF Types
<1>10. ASSUME NEW s \in Services, NEW m \in Messages, BeginStream(s, m)
       PROVE  UNCHANGED <<rows, starts, state>>
  BY <1>10 DEF BeginStream
<1>11. ASSUME NEW m \in Messages,
              ReadInit(m) \/ ReadResult(m) \/ EndStream(m) \/ FailStream(m)
       PROVE  UNCHANGED <<rows, starts, state>>
  BY <1>11 DEF ReadInit, ReadResult, EndStream, FailStream
<1>12. ASSUME NEW s \in Services, Interrupt(s) PROVE UNCHANGED <<rows, starts, state>>
  BY <1>12 DEF Interrupt
<1>13. CASE UNCHANGED vars BY <1>13, <1>9 DEF vars
<1> QED
  BY <1>2, <1>3, <1>5, <1>6, <1>7, <1>8, <1>9, <1>10, <1>11, <1>12, <1>13
     DEF Next, Shutdown, DrainedStop, DrainDeadline, BridgeStop, Crash

---------------------------------------------------------------------------
(* The tokens of the rows.                                                   *)

LEMMA InitCount == Init => TokensCountedOnce
<1> SUFFICES ASSUME Init PROVE TokensCountedOnce OBVIOUS
<1>1. \A r \in Rows : tokens[r] \in Int /\ tokens[r] <= 0 BY DEF Init
<1>2. IsFiniteSet(Rows) BY FS_Interval DEF Rows
<1>3. SumOver(Rows, tokens) <= 0 * Cardinality(Rows) BY <1>1, <1>2, SumBound
<1>4. SumOver(Rows, tokens) \in Nat /\ Cardinality(Rows) \in Nat
  BY <1>1, <1>2, SumIsNatural, FS_CardinalityType
<1>5. SumOver(Rows, tokens) = 0 BY <1>3, <1>4
<1> QED BY <1>5, FS_EmptySet DEF Init, TokensCountedOnce

LEMMA StepCount ==
  ASSUME Types, Places, TokensCountedOnce, [Next]_vars
  PROVE  TokensCountedOnce'
<1>1. ASSUME NEW m \in Messages, ReadResult(m) PROVE TokensCountedOnce'
  <2>1. /\ m \notin counted /\ IsFiniteSet(counted)
    BY <1>1, FS_Subset DEF ReadResult, Places, Types
  <2>2. Cardinality(counted') = Cardinality(counted) + 1
    BY <1>1, <2>1, FS_AddElement DEF ReadResult
  <2>3. PICK r \in Rows : r = row[at[m]]
    BY <1>1 DEF ReadResult, Places, Streaming, Types, Rows
  <2>4. tokens' = [tokens EXCEPT ![r] = @ + 1] BY <1>1, <2>3 DEF ReadResult
  <2>5. /\ tokens \in [Rows -> Nat] /\ tokens' \in [Rows -> Nat]
        /\ \A q \in Rows \ {r} : tokens[q] = tokens'[q]
        /\ tokens'[r] = tokens[r] + 1
    BY <2>4 DEF Types
  <2>6. IsFiniteSet(Rows) BY FS_Interval DEF Rows
  <2>7. SumOver(Rows, tokens') + tokens[r] = SumOver(Rows, tokens) + tokens'[r]
    BY <2>5, <2>6, SumChangeNat
  <2>8. SumOver(Rows, tokens) \in Nat /\ SumOver(Rows, tokens') \in Nat
    BY <2>5, <2>6, SumIsNatural
  <2> HIDE DEF Rows
  <2>9. SumOver(Rows, tokens') = Cardinality(counted')
    BY <2>2, <2>3, <2>5, <2>7, <2>8 DEF TokensCountedOnce
  <2> QED BY <2>9 DEF TokensCountedOnce, Rows
<1>2. ASSUME UNCHANGED <<tokens, counted>> PROVE TokensCountedOnce'
  BY <1>2 DEF TokensCountedOnce, Rows
<1>3. ASSUME NEW s \in Services,
             \/ Probe(s) \/ Adopt(s) \/ FindNoRow(s) \/ SpawnSession(s)
             \/ Interrupt(s) \/ Terminate(s)
      PROVE  UNCHANGED <<tokens, counted>>
  BY <1>3 DEF Probe, Adopt, FindNoRow, SpawnSession, Interrupt, Terminate, agents, history
<1>4. ASSUME NEW s \in Services, Stop(s) PROVE UNCHANGED <<tokens, counted>>
  BY <1>4 DEF Stop, agents
<1>5. ASSUME NEW s \in Services, NEW m \in Messages, BeginStream(s, m)
      PROVE  UNCHANGED <<tokens, counted>>
  BY <1>5 DEF BeginStream, agents
<1>6. ASSUME NEW m \in Messages, ReadInit(m) \/ EndStream(m) \/ FailStream(m)
      PROVE  UNCHANGED <<tokens, counted>>
  BY <1>6 DEF ReadInit, EndStream, FailStream, history
<1>7. CASE UNCHANGED vars BY <1>7, <1>2 DEF vars, agents, history
<1> QED
  BY <1>1, <1>2, <1>3, <1>4, <1>5, <1>6, <1>7
     DEF Next, Shutdown, DrainedStop, DrainDeadline, BridgeStop, Crash

LEMMA CountBounds == Types /\ TokensCountedOnce => TypeOK
<1> SUFFICES ASSUME Types, TokensCountedOnce PROVE TypeOK OBVIOUS
<1>1. \A q \in Rows : tokens[q] \in Nat BY DEF Types
<1>2. IsFiniteSet(Rows) BY FS_Interval DEF Rows
<1>3. ASSUME NEW r \in Rows PROVE tokens[r] <= SumOver(Rows, tokens)
  BY <1>1, <1>2, SumMember
<1>4. Cardinality(counted) <= Cardinality(Messages) BY FS_Subset DEF Types
<1>5. IsFiniteSet(counted) BY FS_Subset DEF Types
<1>6. Cardinality(counted) \in Nat /\ Cardinality(Messages) \in Nat BY <1>5, FS_CardinalityType
<1>7. \A r \in Rows : tokens[r] \in 0 .. Cardinality(Messages)
  BY <1>1, <1>3, <1>4, <1>6 DEF TokensCountedOnce
<1>8. tokens \in [Rows -> 0 .. Cardinality(Messages)] BY <1>7 DEF Types
<1> QED BY <1>8 DEF Types, TypeOK

\* The variables keep their types; that a total stays within the number of messages
\* follows from TokensCountedOnce (orchestrator/db_repositories.py).
THEOREM TypeCorrect == Spec => []TypeOK
<1>1. Spec => [](Types /\ TokensCountedOnce)
  BY InitTypes, InitCount, StepTypes, StepRows, StepPlaces, StepCount, PTL DEF Spec
<1> QED BY <1>1, CountBounds, PTL

\* The totals of all rows are the results that were read, each added once, also when
\* two services stream at the same time (orchestrator/claude_sdk_client.py:581-617).
THEOREM TokensCountedOnceHolds == Spec => []TokensCountedOnce
  BY InitTypes, InitCount, StepTypes, StepRows, StepPlaces, StepCount, PTL DEF Spec

---------------------------------------------------------------------------
(* One message at a time.                                                    *)

\* Until two messages of a service have streamed together, one streams.
OneAtATime ==
    ~overlapped => \A m, n \in Messages :
        pc[m] \in Streaming /\ pc[n] \in Streaming /\ at[m] = at[n] => m = n

LEMMA InitBusy == Init => OneAtATime /\ BusyIsTrue
  BY DEF Init, OneAtATime, BusyIsTrue, RunningAt, Streaming

LEMMA StepOne ==
  ASSUME Types, Places, OneAtATime, [Next]_vars
  PROVE  OneAtATime'
<1> USE DEF Types, Places, OneAtATime, RunningAt, Streaming, agents, service,
            streams, history
<1>1. ASSUME NEW s \in Services, Probe(s) PROVE OneAtATime'
  BY <1>1 DEF Probe
<1>2. ASSUME NEW s \in Services, Adopt(s) PROVE OneAtATime'
  BY <1>2 DEF Adopt, ResumeSession
<1>3. ASSUME NEW s \in Services, FindNoRow(s) PROVE OneAtATime'
  BY <1>3 DEF FindNoRow
<1>4. ASSUME NEW s \in Services, SpawnSession(s) PROVE OneAtATime'
  BY <1>4 DEF SpawnSession
<1>5. ASSUME NEW s \in Services, Interrupt(s) PROVE OneAtATime'
  BY <1>5 DEF Interrupt
<1>6. ASSUME NEW s \in Services, Terminate(s) PROVE OneAtATime'
  BY <1>6 DEF Terminate
<1>7. ASSUME NEW s \in Services, DrainedStop(s) PROVE OneAtATime'
  BY <1>7 DEF DrainedStop, Stop, Forget
<1>8. ASSUME NEW s \in Services, DrainDeadline(s) PROVE OneAtATime'
  BY <1>8 DEF DrainDeadline, Stop, Forget
<1>9. ASSUME NEW s \in Services, BridgeStop(s) PROVE OneAtATime'
  BY <1>9 DEF BridgeStop, Stop, Forget
<1>10. ASSUME NEW s \in Services, Crash(s) PROVE OneAtATime'
  BY <1>10 DEF Crash, Stop, Forget
<1>11. ASSUME NEW s \in Services, NEW m \in Messages, BeginStream(s, m) PROVE OneAtATime'
  BY <1>11 DEF BeginStream, Resumable
<1>12. ASSUME NEW m \in Messages, ReadInit(m) PROVE OneAtATime'
  BY <1>12 DEF ReadInit
<1>13. ASSUME NEW m \in Messages, ReadResult(m) PROVE OneAtATime'
  <2>1. UNCHANGED <<at, overlapped>> BY <1>13 DEF ReadResult
  <2>2. \A n \in Messages : pc'[n] \in Streaming => pc[n] \in Streaming BY <1>13 DEF ReadResult
  <2> QED BY <2>1, <2>2
<1>14. ASSUME NEW m \in Messages, EndStream(m) PROVE OneAtATime'
  BY <1>14 DEF EndStream, Settle, Forget
<1>15. ASSUME NEW m \in Messages, FailStream(m) PROVE OneAtATime'
  BY <1>15 DEF FailStream, Settle, Forget
<1>16. CASE UNCHANGED vars BY <1>16 DEF vars
<1> HIDE DEF Types, Places, OneAtATime, RunningAt, Streaming, agents, service,
             streams, history
<1> QED
  BY <1>1, <1>2, <1>3, <1>4, <1>5, <1>6, <1>7, <1>8, <1>9, <1>10, <1>11, <1>12,
     <1>13, <1>14, <1>15, <1>16
     DEF Next, Shutdown

LEMMA StepBusy ==
  ASSUME Types, Places, OneAtATime, BusyIsTrue, [Next]_vars
  PROVE  BusyIsTrue'
<1> USE DEF Types, Places, OneAtATime, BusyIsTrue, RunningAt, Streaming, agents,
            service, streams, history
<1>1. ASSUME NEW s \in Services, Probe(s) PROVE BusyIsTrue'
  BY <1>1 DEF Probe
<1>2. ASSUME NEW s \in Services, Adopt(s) PROVE BusyIsTrue'
  BY <1>2 DEF Adopt, ResumeSession
<1>3. ASSUME NEW s \in Services, FindNoRow(s) PROVE BusyIsTrue'
  BY <1>3 DEF FindNoRow
<1>4. ASSUME NEW s \in Services, SpawnSession(s) PROVE BusyIsTrue'
  BY <1>4 DEF SpawnSession
<1>5. ASSUME NEW s \in Services, Interrupt(s) PROVE BusyIsTrue'
  BY <1>5 DEF Interrupt
<1>6. ASSUME NEW s \in Services, Terminate(s) PROVE BusyIsTrue'
  BY <1>6 DEF Terminate
<1>7. ASSUME NEW s \in Services, DrainedStop(s) PROVE BusyIsTrue'
  BY <1>7 DEF DrainedStop, Stop, Forget
<1>8. ASSUME NEW s \in Services, DrainDeadline(s) PROVE BusyIsTrue'
  BY <1>8 DEF DrainDeadline, Stop, Forget
<1>9. ASSUME NEW s \in Services, BridgeStop(s) PROVE BusyIsTrue'
  BY <1>9 DEF BridgeStop, Stop, Forget
<1>10. ASSUME NEW s \in Services, Crash(s) PROVE BusyIsTrue'
  BY <1>10 DEF Crash, Stop, Forget
<1>11. ASSUME NEW s \in Services, NEW m \in Messages, BeginStream(s, m) PROVE BusyIsTrue'
  BY <1>11 DEF BeginStream, Resumable
<1>12. ASSUME NEW m \in Messages, ReadInit(m) PROVE BusyIsTrue'
  BY <1>12 DEF ReadInit
<1>13. ASSUME NEW m \in Messages, ReadResult(m) PROVE BusyIsTrue'
  BY <1>13 DEF ReadResult
<1>14. ASSUME NEW m \in Messages, EndStream(m) PROVE BusyIsTrue'
  <2>1. /\ busy' = [busy EXCEPT ![at[m]] = FALSE] /\ overlapped' = overlapped
        /\ pc' = [pc EXCEPT ![m] = "over"] /\ pc[m] \in Streaming
        /\ at' = [n \in Messages |-> IF n \in {m} THEN None ELSE at[n]]
    BY <1>14 DEF EndStream, Settle, Forget
  <2>2. \A t \in Services : RunningAt(t)' = RunningAt(t) \ {m} BY <2>1
  <2>3. ~overlapped => RunningAt(at[m]) = {m}
    <3>1. m \in RunningAt(at[m]) BY <2>1
    <3>2. ASSUME ~overlapped, NEW n \in RunningAt(at[m]) PROVE n = m BY <2>1, <3>2
    <3> HIDE DEF RunningAt, Streaming, Places, OneAtATime, BusyIsTrue, Types
    <3> QED BY <3>1, <3>2, Zenon
  <2>4. \A t \in Services \ {at[m]} : m \notin RunningAt(t) /\ busy'[t] = busy[t] BY <2>1
  <2>5. at[m] \in Services /\ busy'[at[m]] = FALSE BY <2>1
  <2>6. ASSUME ~overlapped', NEW t \in Services PROVE busy'[t] <=> RunningAt(t)' # {}
    <3>1. ~overlapped /\ (busy[t] <=> RunningAt(t) # {})
      BY <2>1, <2>6 DEF BusyIsTrue
    <3> HIDE DEF RunningAt, Streaming, Places, OneAtATime, BusyIsTrue, Types
    <3>2. CASE t = at[m] BY <3>1, <3>2, <2>2, <2>3, <2>5
    <3>3. CASE t # at[m] BY <3>1, <3>3, <2>2, <2>4
    <3> QED BY <3>2, <3>3
  <2> QED BY <2>6 DEF BusyIsTrue
<1>15. ASSUME NEW m \in Messages, FailStream(m) PROVE BusyIsTrue'
  <2>1. /\ busy' = [busy EXCEPT ![at[m]] = FALSE] /\ overlapped' = overlapped
        /\ pc' = [pc EXCEPT ![m] = "over"] /\ pc[m] \in Streaming
        /\ at' = [n \in Messages |-> IF n \in {m} THEN None ELSE at[n]]
    BY <1>15 DEF FailStream, Settle, Forget
  <2>2. \A t \in Services : RunningAt(t)' = RunningAt(t) \ {m} BY <2>1
  <2>3. ~overlapped => RunningAt(at[m]) = {m}
    <3>1. m \in RunningAt(at[m]) BY <2>1
    <3>2. ASSUME ~overlapped, NEW n \in RunningAt(at[m]) PROVE n = m BY <2>1, <3>2
    <3> HIDE DEF RunningAt, Streaming, Places, OneAtATime, BusyIsTrue, Types
    <3> QED BY <3>1, <3>2, Zenon
  <2>4. \A t \in Services \ {at[m]} : m \notin RunningAt(t) /\ busy'[t] = busy[t] BY <2>1
  <2>5. at[m] \in Services /\ busy'[at[m]] = FALSE BY <2>1
  <2>6. ASSUME ~overlapped', NEW t \in Services PROVE busy'[t] <=> RunningAt(t)' # {}
    <3>1. ~overlapped /\ (busy[t] <=> RunningAt(t) # {})
      BY <2>1, <2>6 DEF BusyIsTrue
    <3> HIDE DEF RunningAt, Streaming, Places, OneAtATime, BusyIsTrue, Types
    <3>2. CASE t = at[m] BY <3>1, <3>2, <2>2, <2>3, <2>5
    <3>3. CASE t # at[m] BY <3>1, <3>3, <2>2, <2>4
    <3> QED BY <3>2, <3>3
  <2> QED BY <2>6 DEF BusyIsTrue
<1>16. CASE UNCHANGED vars BY <1>16 DEF vars
<1> HIDE DEF Types, Places, OneAtATime, BusyIsTrue, RunningAt, Streaming, agents,
             service, streams, history
<1> QED
  BY <1>1, <1>2, <1>3, <1>4, <1>5, <1>6, <1>7, <1>8, <1>9, <1>10, <1>11, <1>12,
     <1>13, <1>14, <1>15, <1>16
     DEF Next, Shutdown

\* As long as no two messages overlapped in a service, its flag is_executing is set
\* exactly while one streams, also after a stream that failed
\* (orchestrator/orchestrator_service.py:282-333, 440-512).
THEOREM BusyIsTrueHolds == Spec => []BusyIsTrue
  BY InitTypes, InitBusy, StepTypes, StepRows, StepPlaces, StepOne, StepBusy, PTL DEF Spec

---------------------------------------------------------------------------
(* One service: its memory, its row and its conversation.                    *)

OnlyOne == \A s, t \in started : s = t

\* The result carries the session of the memory.
ResultInv == ~overlapped => \A m \in Messages : pc[m] = "answered" => final[m] = client[at[m]]

\* MemoryMatchesRow, also while the service drains.
MemoryInv ==
    OnlyOne => \A s \in Services :
        state[s] \in {"up", "draining"} /\ loaded[s] /\ (resumed[s] # None \/ ~overlapped) =>
            client[s] = session[row[s]]

\* The service starts with the session of its row, which is the newest one.
RowInv ==
    OnlyOne => \A s \in Services :
        /\ state[s] = "probed" => resumed[s] = IF rows = 0 THEN None ELSE session[rows]
        /\ state[s] = "spawning" => rows = 0
        /\ state[s] \in {"up", "draining"} => row[s] = rows

\* What a session holds; none holds nothing.
Held(x) == IF x = None THEN {} ELSE context[x]

\* One message at a time goes on from what all the others have left.
HeldInv ==
    OnlyOne /\ ~overlapped =>
        /\ rows > 0 => counted \subseteq Held(session[rows])
        /\ \A m \in Messages :
             /\ pc[m] = "spawned" => parent[m] = session[rows]
             /\ pc[m] \in {"answering", "answered"} => m \in Held(session[rows])

LEMMA InitMemory == Init => ResultInv /\ MemoryInv /\ RowInv /\ HeldInv
  BY DEF Init, ResultInv, MemoryInv, RowInv, HeldInv

\* A message that streams does so at a service that stays as it is.
LEMMA StreamPlace ==
  ASSUME Types, Places, NEW m \in Messages, ReadInit(m) \/ EndStream(m)
  PROVE  /\ at[m] \in Services /\ at[m] \in started /\ row[at[m]] \in Rows
         /\ state[at[m]] \in {"up", "draining"} /\ loaded[at[m]]
         /\ UNCHANGED <<started, state, row, rows, resumed>>
<1>1. pc[m] \in Streaming BY DEF ReadInit, EndStream, Streaming
<1>2. UNCHANGED <<started, state, row, rows, resumed>>
  BY DEF ReadInit, EndStream, Settle, Forget, history
<1> QED BY <1>1, <1>2 DEF Types, Places, Rows

LEMMA OnlyService ==
  ASSUME Types, Places, NEW m \in Messages, ReadInit(m) \/ EndStream(m), OnlyOne'
  PROVE  OnlyOne /\ \A t \in Services : state[t] # "down" => t = at[m]
BY StreamPlace DEF OnlyOne, Places

LEMMA StepResult ==
  ASSUME Types, Places, OneAtATime, ResultInv, [Next]_vars
  PROVE  ResultInv'
<1> USE DEF Types, Places, OneAtATime, ResultInv, RunningAt, Streaming, agents,
            service, streams, history
<1>1. ASSUME NEW s \in Services, Probe(s) PROVE ResultInv'
  BY <1>1 DEF Probe
<1>2. ASSUME NEW s \in Services, Adopt(s) PROVE ResultInv'
  BY <1>2 DEF Adopt, ResumeSession
<1>3. ASSUME NEW s \in Services, FindNoRow(s) PROVE ResultInv'
  BY <1>3 DEF FindNoRow
<1>4. ASSUME NEW s \in Services, SpawnSession(s) PROVE ResultInv'
  BY <1>4 DEF SpawnSession
<1>5. ASSUME NEW s \in Services, Interrupt(s) PROVE ResultInv'
  BY <1>5 DEF Interrupt
<1>6. ASSUME NEW s \in Services, Terminate(s) PROVE ResultInv'
  BY <1>6 DEF Terminate
<1>7. ASSUME NEW s \in Services, DrainedStop(s) PROVE ResultInv'
  BY <1>7 DEF DrainedStop, Stop, Forget
<1>8. ASSUME NEW s \in Services, DrainDeadline(s) PROVE ResultInv'
  BY <1>8 DEF DrainDeadline, Stop, Forget
<1>9. ASSUME NEW s \in Services, BridgeStop(s) PROVE ResultInv'
  BY <1>9 DEF BridgeStop, Stop, Forget
<1>10. ASSUME NEW s \in Services, Crash(s) PROVE ResultInv'
  BY <1>10 DEF Crash, Stop, Forget
<1>11. ASSUME NEW s \in Services, NEW m \in Messages, BeginStream(s, m) PROVE ResultInv'
  BY <1>11 DEF BeginStream, Resumable
<1>12. ASSUME NEW m \in Messages, ReadInit(m) PROVE ResultInv'
  BY <1>12 DEF ReadInit
<1>13. ASSUME NEW m \in Messages, ReadResult(m) PROVE ResultInv'
  BY <1>13 DEF ReadResult
<1>14. ASSUME NEW m \in Messages, EndStream(m) PROVE ResultInv'
  BY <1>14 DEF EndStream, Settle, Forget
<1>15. ASSUME NEW m \in Messages, FailStream(m) PROVE ResultInv'
  BY <1>15 DEF FailStream, Settle, Forget
<1>16. CASE UNCHANGED vars BY <1>16 DEF vars
<1> HIDE DEF Types, Places, OneAtATime, ResultInv, RunningAt, Streaming, agents,
             service, streams, history
<1> QED
  BY <1>1, <1>2, <1>3, <1>4, <1>5, <1>6, <1>7, <1>8, <1>9, <1>10, <1>11, <1>12,
     <1>13, <1>14, <1>15, <1>16
     DEF Next, Shutdown

LEMMA StepMemory ==
  ASSUME Types, Places, OneAtATime, ResultInv, MemoryInv, RowInv, [Next]_vars
  PROVE  MemoryInv'
<1> USE DEF Types, Places, OneAtATime, ResultInv, MemoryInv, RowInv, OnlyOne,
            RunningAt, Streaming, Rows, agents, service, streams,
            history
<1>1. ASSUME NEW s \in Services, Probe(s) PROVE MemoryInv'
  BY <1>1 DEF Probe
<1>2. ASSUME NEW s \in Services, Adopt(s) PROVE MemoryInv'
  BY <1>2 DEF Adopt, ResumeSession
<1>3. ASSUME NEW s \in Services, FindNoRow(s) PROVE MemoryInv'
  BY <1>3 DEF FindNoRow
<1>4. ASSUME NEW s \in Services, SpawnSession(s) PROVE MemoryInv'
  BY <1>4 DEF SpawnSession
<1>5. ASSUME NEW s \in Services, Interrupt(s) PROVE MemoryInv'
  BY <1>5 DEF Interrupt
<1>6. ASSUME NEW s \in Services, Terminate(s) PROVE MemoryInv'
  BY <1>6 DEF Terminate
<1>7. ASSUME NEW s \in Services, DrainedStop(s) PROVE MemoryInv'
  BY <1>7 DEF DrainedStop, Stop, Forget
<1>8. ASSUME NEW s \in Services, DrainDeadline(s) PROVE MemoryInv'
  BY <1>8 DEF DrainDeadline, Stop, Forget
<1>9. ASSUME NEW s \in Services, BridgeStop(s) PROVE MemoryInv'
  BY <1>9 DEF BridgeStop, Stop, Forget
<1>10. ASSUME NEW s \in Services, Crash(s) PROVE MemoryInv'
  BY <1>10 DEF Crash, Stop, Forget
<1>11. ASSUME NEW s \in Services, NEW m \in Messages, BeginStream(s, m) PROVE MemoryInv'
  BY <1>11 DEF BeginStream, Resumable
<1>12. ASSUME NEW m \in Messages, ReadInit(m) PROVE MemoryInv'
  <2>1. /\ at[m] \in Services /\ at[m] \in started /\ row[at[m]] \in Rows
        /\ state[at[m]] \in {"up", "draining"} /\ loaded[at[m]]
        /\ UNCHANGED <<started, state, row, rows, resumed>>
    BY <1>12, StreamPlace
  <2>2. UNCHANGED <<started, state, row, rows, resumed>> BY <2>1
  <2>3. OnlyOne' => OnlyOne /\ \A t \in Services : state[t] # "down" => t = at[m]
    BY <1>12, OnlyService
  <2>4. PICK new \in {m, parent[m]} \ {None} :
          /\ client' = [client EXCEPT ![at[m]] = new]
          /\ session' = [session EXCEPT ![row[at[m]]] = new]
          /\ context' = [context EXCEPT ![new] =
               @ \cup {m} \cup (IF parent[m] = None THEN {} ELSE context[parent[m]])]
    BY <1>12 DEF ReadInit
  <2>5. client'[at[m]] = session'[row[at[m]]] BY <2>1, <2>4
  <2> QED BY <2>1, <2>2, <2>3, <2>5
<1>13. ASSUME NEW m \in Messages, ReadResult(m) PROVE MemoryInv'
  BY <1>13 DEF ReadResult
<1>14. ASSUME NEW m \in Messages, EndStream(m) PROVE MemoryInv'
  <2>1. /\ at[m] \in Services /\ at[m] \in started /\ row[at[m]] \in Rows
        /\ state[at[m]] \in {"up", "draining"} /\ loaded[at[m]]
        /\ UNCHANGED <<started, state, row, rows, resumed>>
    BY <1>14, StreamPlace
  <2>2. UNCHANGED <<started, state, row, rows, resumed>> BY <2>1
  <2>3. OnlyOne' => OnlyOne /\ \A t \in Services : state[t] # "down" => t = at[m]
    BY <1>14, OnlyService
  <2>4. session' = IF final[m] # None /\ resumed[at[m]] = None
                     THEN [session EXCEPT ![row[at[m]]] = final[m]] ELSE session
    BY <1>14 DEF EndStream
  <2>5. UNCHANGED <<client, loaded, overlapped>> BY <1>14 DEF EndStream
  <2>6. final[m] # None => pc[m] = "answered" BY DEF Places
  <2>7. ASSUME OnlyOne', loaded[at[m]], resumed[at[m]] # None \/ ~overlapped
        PROVE  client[at[m]] = session'[row[at[m]]]
    <3>1. client[at[m]] = session[row[at[m]]] BY <2>1, <2>3, <2>7
    <3>2. CASE session' = session BY <3>1, <3>2
    <3>3. CASE final[m] # None /\ ~overlapped /\ session' = [session EXCEPT ![row[at[m]]] = final[m]]
      <4>1. final[m] = client[at[m]] BY <2>6, <3>3
      <4> QED BY <4>1, <3>3, <2>1
    <3> QED BY <2>4, <2>7, <3>2, <3>3
  <2>8. ASSUME OnlyOne', NEW t \in Services, state[t] \in {"up", "draining"}, loaded[t],
               resumed[t] # None \/ ~overlapped
        PROVE  client[t] = session'[row[t]]
    <3>1. t = at[m] BY <2>3, <2>8
    <3> QED BY <2>7, <2>8, <3>1
  <2> QED BY <2>2, <2>5, <2>8
<1>15. ASSUME NEW m \in Messages, FailStream(m) PROVE MemoryInv'
  BY <1>15 DEF FailStream, Settle, Forget
<1>16. CASE UNCHANGED vars BY <1>16 DEF vars
<1> HIDE DEF Types, Places, OneAtATime, ResultInv, MemoryInv, RowInv, OnlyOne,
             RunningAt, Streaming, Rows, agents, service, streams,
             history
<1> QED
  BY <1>1, <1>2, <1>3, <1>4, <1>5, <1>6, <1>7, <1>8, <1>9, <1>10, <1>11, <1>12,
     <1>13, <1>14, <1>15, <1>16
     DEF Next, Shutdown

LEMMA StepRow ==
  ASSUME Types, Places, RowInv, [Next]_vars
  PROVE  RowInv'
<1> USE DEF Types, Places, RowInv, OnlyOne, Streaming, Rows, agents, service,
            streams, history
<1>1. ASSUME NEW s \in Services, Probe(s) PROVE RowInv'
  BY <1>1 DEF Probe
<1>2. ASSUME NEW s \in Services, Adopt(s) PROVE RowInv'
  BY <1>2 DEF Adopt, ResumeSession
<1>3. ASSUME NEW s \in Services, FindNoRow(s) PROVE RowInv'
  BY <1>3 DEF FindNoRow
<1>4. ASSUME NEW s \in Services, SpawnSession(s) PROVE RowInv'
  <2>1. started' = started /\ state[s] = "spawning" BY <1>4 DEF SpawnSession
  <2>2. OnlyOne' => OnlyOne /\ \A t \in Services : state[t] # "down" => t = s BY <2>1
  <2>3. OnlyOne' => rows = 0 /\ rows' = 1 /\ row'[s] = 1 BY <1>4, <2>1, <2>2 DEF SpawnSession
  <2>4. state' = [state EXCEPT ![s] = "up"] /\ rows' = rows + 1 /\ row' = [row EXCEPT ![s] = rows + 1]
    BY <1>4 DEF SpawnSession
  <2> QED BY <2>2, <2>3, <2>4
<1>5. ASSUME NEW s \in Services, Interrupt(s) PROVE RowInv'
  BY <1>5 DEF Interrupt
<1>6. ASSUME NEW s \in Services, Terminate(s) PROVE RowInv'
  BY <1>6 DEF Terminate
<1>7. ASSUME NEW s \in Services, DrainedStop(s) PROVE RowInv'
  BY <1>7 DEF DrainedStop, Stop, Forget
<1>8. ASSUME NEW s \in Services, DrainDeadline(s) PROVE RowInv'
  BY <1>8 DEF DrainDeadline, Stop, Forget
<1>9. ASSUME NEW s \in Services, BridgeStop(s) PROVE RowInv'
  BY <1>9 DEF BridgeStop, Stop, Forget
<1>10. ASSUME NEW s \in Services, Crash(s) PROVE RowInv'
  BY <1>10 DEF Crash, Stop, Forget
<1>11. ASSUME NEW s \in Services, NEW m \in Messages, BeginStream(s, m) PROVE RowInv'
  BY <1>11 DEF BeginStream, Resumable
<1>12. ASSUME NEW m \in Messages, ReadInit(m) PROVE RowInv'
  <2>1. /\ at[m] \in Services /\ at[m] \in started /\ row[at[m]] \in Rows
        /\ state[at[m]] \in {"up", "draining"} /\ loaded[at[m]]
        /\ UNCHANGED <<started, state, row, rows, resumed>>
    BY <1>12, StreamPlace
  <2>2. UNCHANGED <<started, state, row, rows, resumed>> BY <2>1
  <2>3. OnlyOne' => OnlyOne /\ \A t \in Services : state[t] # "down" => t = at[m]
    BY <1>12, OnlyService
  <2> QED BY <2>1, <2>2, <2>3
<1>13. ASSUME NEW m \in Messages, ReadResult(m) PROVE RowInv'
  BY <1>13 DEF ReadResult
<1>14. ASSUME NEW m \in Messages, EndStream(m) PROVE RowInv'
  <2>1. /\ at[m] \in Services /\ at[m] \in started /\ row[at[m]] \in Rows
        /\ state[at[m]] \in {"up", "draining"} /\ loaded[at[m]]
        /\ UNCHANGED <<started, state, row, rows, resumed>>
    BY <1>14, StreamPlace
  <2>2. UNCHANGED <<started, state, row, rows, resumed>> BY <2>1
  <2>3. OnlyOne' => OnlyOne /\ \A t \in Services : state[t] # "down" => t = at[m]
    BY <1>14, OnlyService
  <2> QED BY <2>1, <2>2, <2>3
<1>15. ASSUME NEW m \in Messages, FailStream(m) PROVE RowInv'
  BY <1>15 DEF FailStream, Settle, Forget
<1>16. CASE UNCHANGED vars BY <1>16 DEF vars
<1> HIDE DEF Types, Places, RowInv, OnlyOne, Streaming, Rows, agents, service,
             streams, history
<1> QED
  BY <1>1, <1>2, <1>3, <1>4, <1>5, <1>6, <1>7, <1>8, <1>9, <1>10, <1>11, <1>12,
     <1>13, <1>14, <1>15, <1>16
     DEF Next, Shutdown

LEMMA StepHeld ==
  ASSUME Types, Places, OneAtATime, ResultInv, MemoryInv, RowInv, HeldInv,
         [Next]_vars
  PROVE  HeldInv'
<1> USE DEF Types, Places, OneAtATime, ResultInv, MemoryInv, RowInv, HeldInv,
            Held, OnlyOne, RunningAt, Streaming, Rows, Sessions, agents,
            service, streams, history
<1>1. ASSUME NEW s \in Services, Probe(s) PROVE HeldInv'
  BY <1>1 DEF Probe
<1>2. ASSUME NEW s \in Services, Adopt(s) PROVE HeldInv'
  BY <1>2 DEF Adopt, ResumeSession
<1>3. ASSUME NEW s \in Services, FindNoRow(s) PROVE HeldInv'
  BY <1>3 DEF FindNoRow
<1>4. ASSUME NEW s \in Services, SpawnSession(s) PROVE HeldInv'
  BY <1>4 DEF SpawnSession
<1>5. ASSUME NEW s \in Services, Interrupt(s) PROVE HeldInv'
  BY <1>5 DEF Interrupt
<1>6. ASSUME NEW s \in Services, Terminate(s) PROVE HeldInv'
  BY <1>6 DEF Terminate
<1>7. ASSUME NEW s \in Services, DrainedStop(s) PROVE HeldInv'
  BY <1>7 DEF DrainedStop, Stop, Forget
<1>8. ASSUME NEW s \in Services, DrainDeadline(s) PROVE HeldInv'
  BY <1>8 DEF DrainDeadline, Stop, Forget
<1>9. ASSUME NEW s \in Services, BridgeStop(s) PROVE HeldInv'
  BY <1>9 DEF BridgeStop, Stop, Forget
<1>10. ASSUME NEW s \in Services, Crash(s) PROVE HeldInv'
  BY <1>10 DEF Crash, Stop, Forget
<1>11. ASSUME NEW s \in Services, NEW m \in Messages, BeginStream(s, m) PROVE HeldInv'
  BY <1>11 DEF BeginStream, Resumable
<1>12. ASSUME NEW m \in Messages, ReadInit(m) PROVE HeldInv'
  <2>1. /\ at[m] \in Services /\ at[m] \in started /\ row[at[m]] \in Rows
        /\ state[at[m]] \in {"up", "draining"} /\ loaded[at[m]]
        /\ UNCHANGED <<started, state, row, rows, resumed>>
    BY <1>12, StreamPlace
  <2>2. UNCHANGED <<started, state, row, rows, resumed>> BY <2>1
  <2>3. OnlyOne' => OnlyOne /\ \A t \in Services : state[t] # "down" => t = at[m]
    BY <1>12, OnlyService
  <2>4. PICK new \in {m, parent[m]} \ {None} :
          /\ client' = [client EXCEPT ![at[m]] = new]
          /\ session' = [session EXCEPT ![row[at[m]]] = new]
          /\ context' = [context EXCEPT ![new] =
               @ \cup {m} \cup (IF parent[m] = None THEN {} ELSE context[parent[m]])]
    BY <1>12 DEF ReadInit
  <2>5. UNCHANGED <<overlapped, counted>> /\ pc[m] = "spawned"
        /\ pc' = [pc EXCEPT ![m] = "answering"]
    BY <1>12 DEF ReadInit
  <2>6. ASSUME OnlyOne', ~overlapped' PROVE HeldInv'
    <3>1. OnlyOne /\ ~overlapped /\ row[at[m]] = rows /\ rows \in Rows
      BY <2>1, <2>2, <2>3, <2>5, <2>6
    <3>2. \A n \in Messages : pc[n] \in Streaming => n = m
      <4>1. \A n \in Messages : pc[n] \in Streaming => at[n] = at[m] BY <2>3, <2>6
      <4> QED BY <4>1, <3>1, <2>5
    <3>3. session'[rows] = new /\ new \in Messages /\ new # None BY <2>4, <3>1
    <3>4. context'[new] = context[new] \cup {m} \cup Held(parent[m]) BY <2>4, <3>3
    <3>5. counted \subseteq Held(parent[m])
      <4>1. rows > 0 /\ parent[m] = session[rows] BY <2>5, <3>1
      <4> QED BY <4>1, <3>1
    <3>6. m \in Held(session[rows])' /\ counted' \subseteq Held(session[rows])'
      BY <2>2, <2>5, <3>3, <3>4, <3>5
    <3>7. \A n \in Messages : pc'[n] \in Streaming => n = m BY <2>5, <3>2
    <3>8. pc'[m] = "answering" BY <2>5
    <3> HIDE DEF Held, MemoryInv, RowInv, ResultInv, OneAtATime, Types
    <3> QED BY <3>6, <3>7, <3>8
  <2> QED BY <2>6
<1>13. ASSUME NEW m \in Messages, ReadResult(m) PROVE HeldInv'
  BY <1>13 DEF ReadResult
<1>14. ASSUME NEW m \in Messages, EndStream(m) PROVE HeldInv'
  <2>1. /\ at[m] \in Services /\ at[m] \in started /\ row[at[m]] \in Rows
        /\ state[at[m]] \in {"up", "draining"} /\ loaded[at[m]]
        /\ UNCHANGED <<started, state, row, rows, resumed>>
    BY <1>14, StreamPlace
  <2>2. UNCHANGED <<started, state, row, rows, resumed>> BY <2>1
  <2>3. OnlyOne' => OnlyOne /\ \A t \in Services : state[t] # "down" => t = at[m]
    BY <1>14, OnlyService
  <2>4. session' = IF final[m] # None /\ resumed[at[m]] = None
                     THEN [session EXCEPT ![row[at[m]]] = final[m]] ELSE session
    BY <1>14 DEF EndStream
  <2>5. /\ UNCHANGED <<overlapped, counted, context, client>> /\ pc' = [pc EXCEPT ![m] = "over"]
        /\ pc[m] \in Streaming
    BY <1>14 DEF EndStream
  <2>6. ASSUME OnlyOne', ~overlapped' PROVE HeldInv'
    <3>1. OnlyOne /\ ~overlapped /\ row[at[m]] = rows /\ rows \in Rows
      BY <2>1, <2>2, <2>3, <2>5, <2>6
    <3>2. \A n \in Messages : pc[n] \in Streaming => n = m
      <4>1. \A n \in Messages : pc[n] \in Streaming => at[n] = at[m] BY <2>3, <2>6
      <4> QED BY <4>1, <3>1, <2>5
    <3>3. session'[rows] = session[rows]
      <4>1. CASE session' = session BY <4>1
      <4>2. CASE final[m] # None /\ session' = [session EXCEPT ![rows] = final[m]]
        <5>1. pc[m] = "answered" BY <4>2
        <5>2. final[m] = client[at[m]] BY <5>1, <3>1
        <5>3. loaded[at[m]] BY <5>1, <2>1
        <5> QED BY <5>2, <5>3, <4>2, <3>1, <2>1
      <4> QED BY <2>4, <3>1, <4>1, <4>2
    <3>4. Held(session[rows])' = Held(session[rows]) BY <2>2, <2>5, <3>3
    <3>5. \A n \in Messages : pc'[n] \notin Streaming BY <2>5, <3>2
    <3>6. rows' > 0 => counted' \subseteq Held(session[rows])' BY <2>2, <2>5, <3>1, <3>4
    <3> HIDE DEF Held, MemoryInv, RowInv, ResultInv, OneAtATime, Types
    <3> QED BY <3>5, <3>6
  <2> QED BY <2>6
<1>15. ASSUME NEW m \in Messages, FailStream(m) PROVE HeldInv'
  <2>1. /\ UNCHANGED <<rows, session, context, overlapped, counted, started>>
        /\ pc' = [pc EXCEPT ![m] = "over"]
    BY <1>15 DEF FailStream
  <2>2. \A n \in Messages \ {m} : parent'[n] = parent[n]
    BY <1>15 DEF FailStream, Settle, Forget
  <2>3. \A n \in Messages : pc'[n] # "over" => pc'[n] = pc[n] /\ parent'[n] = parent[n]
    BY <2>1, <2>2
  <2>4. Held(session[rows])' = Held(session[rows]) /\ (OnlyOne' <=> OnlyOne) BY <2>1
  <2> HIDE DEF Held, OnlyOne, MemoryInv, RowInv, ResultInv, OneAtATime, Types
  <2> QED BY <2>1, <2>3, <2>4
<1>16. CASE UNCHANGED vars BY <1>16 DEF vars
<1> HIDE DEF Types, Places, OneAtATime, ResultInv, MemoryInv, RowInv, HeldInv, Held,
             OnlyOne, RunningAt, Streaming, Rows, Sessions, agents,
             service, streams, history
<1> QED
  BY <1>1, <1>2, <1>3, <1>4, <1>5, <1>6, <1>7, <1>8, <1>9, <1>10, <1>11, <1>12,
     <1>13, <1>14, <1>15, <1>16
     DEF Next, Shutdown

LEMMA AloneIsOnlyOne == Types /\ Alone => OnlyOne
<1> SUFFICES ASSUME Types, Alone, NEW s \in started, NEW t \in started PROVE s = t
  BY DEF OnlyOne
<1>1. IsFiniteSet(started) BY FS_Subset DEF Types
<1>2. IsFiniteSet(started \ {s}) /\ Cardinality(started \ {s}) = 0
  BY <1>1, FS_RemoveElement DEF Alone
<1>3. started \ {s} = {} BY <1>2, FS_EmptySet
<1> QED BY <1>3

LEMMA MemoryHolds ==
  Spec => [](Types /\ Places /\ OneAtATime /\ ResultInv /\ MemoryInv /\ RowInv /\ HeldInv)
BY InitTypes, InitBusy, InitMemory, StepTypes, StepRows, StepPlaces, StepOne, StepResult,
   StepMemory, StepRow, StepHeld, PTL DEF Spec

\* A service that is alone and resumed a session holds the session of its row, also
\* while messages overlap (orchestrator/orchestrator_service.py:138-176, 452-512).
THEOREM MemoryMatchesRowHolds == Spec => []MemoryMatchesRow
<1>1. Types /\ MemoryInv => MemoryMatchesRow
  BY AloneIsOnlyOne DEF MemoryInv, MemoryMatchesRow
<1> QED BY <1>1, MemoryHolds, PTL

\* While messages come one at a time to the only service ever started, the session
\* resumed next holds every answered message, through crashes and restarts
\* (orchestrator/claude_sdk_client.py:527-566, 581-617).
THEOREM ConversationGoesOnHolds == Spec => []ConversationGoesOn
<1>1. Types /\ HeldInv => ConversationGoesOn
  BY AloneIsOnlyOne DEF HeldInv, Held, ConversationGoesOn
<1> QED BY <1>1, MemoryHolds, PTL

=============================================================================
