----------------------- MODULE OrchestratorSession -----------------------
(* The conversation with the orchestrator agent.  Two processes hold an     *)
(* OrchestratorService: tac-orchestrator, which takes messages at /chat     *)
(* (orchestrator_main.py), and the daemon, whose bridge sends one for every *)
(* issue it tries to dispatch (daemon.py).  Each message is a run of the    *)
(* claude CLI that resumes a session and reports a session of its own       *)
(* (claude_sdk_client.py); the session to go on with is kept in memory and  *)
(* in orchestrator_agents (orchestrator_agent.py, db_repositories.py).      *)
(* Left out: the status column, the rows of the chat and of the log, and the *)
(* events posted to the dashboard.                                          *)
EXTENDS Integers, FiniteSets, Totals

CONSTANTS
    Services,    \* the processes that hold a service
    Waits,       \* those that wait for a running message when they are stopped
    Messages,    \* bound: 1 .. the number of messages ever sent, in their order;
                 \* also the sessions they can begin
    None,        \* no session, no service
    MaxStarts,   \* bound: starts of services
    MaxAtOnce,   \* bound: messages streaming together at one service
    MaxFaults    \* bound: crashes, failing streams and interrupts

ASSUME ServicesAssumption ==
    /\ Waits \subseteq Services /\ IsFiniteSet(Services) /\ None \notin Services
ASSUME MessagesAssumption ==
    /\ Messages \subseteq Nat /\ IsFiniteSet(Messages) /\ None \notin Messages
ASSUME BoundsAssumption ==
    /\ MaxStarts \in Nat /\ MaxAtOnce \in Nat /\ MaxFaults \in Nat

VARIABLES
    rows,       \* rows of orchestrator_agents; the last one is the newest
    session,    \* of each row, session_id
    tokens,     \* of each row, input_tokens, in results
    state,      \* of each service: "down", "probed", "spawning", "up", "draining"
    row,        \* the row of each service, 0 if none
    resumed,    \* started_with_session: the session it was started with
    client,     \* the session of its client in memory
    loaded,     \* the client has looked for its session
    busy,       \* is_executing
    pc,         \* of each message: "unsent", "spawned", "answering", "answered",
                \* "over"
    at,         \* the service it was sent to
    parent,     \* the session passed with --resume
    final,      \* the session in its ResultMessage
    context,    \* of each session, the messages in its transcript
    starts, faults,  \* bounds
    counted,     \* history: messages whose result has been read
    interrupted, \* history: messages running when /interrupt answered
    overlapped,  \* history: two messages of a service have streamed together
    started      \* history: services that were ever started

agents  == <<rows, session, tokens>>
service == <<state, row, resumed, client, loaded, busy>>
streams == <<pc, at, parent, final, context>>
history == <<counted, interrupted, overlapped, started>>
vars    == <<agents, service, streams, starts, faults, history>>

Rows == 1 .. MaxStarts
Streaming == {"spawned", "answering", "answered"}
RunningAt(s) == {m \in Messages : at[m] = s /\ pc[m] \in Streaming}

Init ==
    /\ rows = 0 /\ session = [r \in Rows |-> None]
    /\ tokens = [r \in Rows |-> 0]
    /\ state = [s \in Services |-> "down"] /\ row = [s \in Services |-> 0]
    /\ resumed = [s \in Services |-> None] /\ client = [s \in Services |-> None]
    /\ loaded = [s \in Services |-> FALSE] /\ busy = [s \in Services |-> FALSE]
    /\ pc = [m \in Messages |-> "unsent"] /\ at = [m \in Messages |-> None]
    /\ parent = [m \in Messages |-> None]
    /\ final = [m \in Messages |-> None] /\ context = [m \in Messages |-> {}]
    /\ starts = 0 /\ faults = 0
    /\ counted = {} /\ interrupted = {} /\ overlapped = FALSE /\ started = {}

----------------------------------------------------------------------------
\* Starting.

\* The session of the newest row is read over a connection of its own.
Probe(s) ==
    /\ state[s] = "down" /\ starts < MaxStarts
    /\ state' = [state EXCEPT ![s] = "probed"]
    /\ resumed' = [resumed EXCEPT ![s] = IF rows = 0 THEN None ELSE session[rows]]
    /\ starts' = starts + 1 /\ started' = started \cup {s}
    /\ UNCHANGED <<agents, row, client, loaded, busy, streams, faults, counted,
                   interrupted, overlapped>>

\* The session that was read is adopted in memory, and written into row r if
\* that one names another by now.
ResumeSession(s, r) ==
    /\ client' = [client EXCEPT ![s] = resumed[s]]
    /\ loaded' = [loaded EXCEPT ![s] = resumed[s] # None]
    /\ session' = IF resumed[s] = None THEN session
                  ELSE [session EXCEPT ![r] = resumed[s]]

\* The constructor of the service finds the newest row.
Adopt(s) ==
    /\ state[s] = "probed" /\ rows > 0
    /\ row' = [row EXCEPT ![s] = rows]
    /\ ResumeSession(s, rows)
    /\ state' = [state EXCEPT ![s] = "up"]
    /\ UNCHANGED <<rows, tokens, resumed, busy, streams, starts, faults, history>>

\* No row: one is inserted, whether or not somebody else has done so by then.
FindNoRow(s) ==
    /\ state[s] = "probed" /\ rows = 0
    /\ state' = [state EXCEPT ![s] = "spawning"]
    /\ UNCHANGED <<agents, row, resumed, client, loaded, busy, streams, starts, faults,
                   history>>

SpawnSession(s) ==
    /\ state[s] = "spawning"
    /\ rows' = rows + 1 /\ row' = [row EXCEPT ![s] = rows + 1]
    /\ client' = [client EXCEPT ![s] = None] /\ loaded' = [loaded EXCEPT ![s] = FALSE]
    /\ state' = [state EXCEPT ![s] = "up"]
    /\ UNCHANGED <<session, tokens, resumed, busy, streams, starts, faults, history>>

----------------------------------------------------------------------------
\* A message.

\* The session to go on with: that of the memory or, at the first message, of
\* the row.
Resumable(s) == IF loaded[s] THEN client[s] ELSE session[row[s]]

\* /chat, or consult_issue: up to the start of the CLI nothing yields to the
\* event loop.  The lock is released as soon as is_executing is set, so other
\* messages of the service may be streaming.
BeginStream(s, m) ==
    /\ state[s] = "up" /\ pc[m] = "unsent"
    /\ Cardinality(RunningAt(s)) < MaxAtOnce
    /\ \A n \in Messages : n < m => pc[n] # "unsent"
    /\ busy' = [busy EXCEPT ![s] = TRUE]
    /\ client' = [client EXCEPT ![s] = Resumable(s)]
    /\ loaded' = [loaded EXCEPT ![s] = TRUE]
    /\ at' = [at EXCEPT ![m] = s] /\ parent' = [parent EXCEPT ![m] = Resumable(s)]
    /\ pc' = [pc EXCEPT ![m] = "spawned"]
    /\ overlapped' = (overlapped \/ RunningAt(s) # {})
    /\ UNCHANGED <<agents, state, row, resumed, final, context, starts, faults,
                   counted, interrupted, started>>

\* Mutated: The session of the init line is kept in memory only.
ReadInitUnsaved(m) ==
    LET s == at[m]
    IN  /\ pc[m] = "spawned"
        /\ client' = [client EXCEPT ![s] = m]
        /\ context' = [context EXCEPT ![m] =
             {m} \cup (IF parent[m] = None THEN {} ELSE context[parent[m]])]
        /\ parent' = [parent EXCEPT ![m] = None]
        /\ pc' = [pc EXCEPT ![m] = "answering"]
        /\ UNCHANGED <<agents, state, row, resumed, loaded, busy, at, final, starts,
                       faults, history>>

\* The init line names a new session, or the one resumed, with all that one
\* holds.  The last line read wins, in memory and in the row.
ReadInit(m) ==
    LET s == at[m]
    IN  /\ pc[m] = "spawned"
        /\ \E new \in {m, parent[m]} \ {None} :
             /\ client' = [client EXCEPT ![s] = new]
             /\ session' = [session EXCEPT ![row[s]] = new]
             /\ context' = [context EXCEPT ![new] =
                  @ \cup {m} \cup (IF parent[m] = None THEN {} ELSE context[parent[m]])]
        /\ parent' = [parent EXCEPT ![m] = None]  \* not looked at again
        /\ pc' = [pc EXCEPT ![m] = "answering"]
        /\ UNCHANGED <<rows, tokens, state, row, resumed, loaded, busy, at, final, starts,
                       faults, history>>

\* The result line: the tokens are added to the row; the ResultMessage carries
\* the session that the client has by now, whoever set it.
ReadResult(m) ==
    LET s == at[m]
    IN  /\ pc[m] = "answering"
        /\ tokens' = [tokens EXCEPT ![row[s]] = @ + 1]
        /\ final' = [final EXCEPT ![m] = client[s]]
        /\ pc' = [pc EXCEPT ![m] = "answered"]
        /\ counted' = counted \cup {m}
        /\ UNCHANGED <<rows, session, service, at, parent, context, starts,
                       faults, interrupted, overlapped, started>>

\* Nobody looks at these messages any more.
Forget(S) ==
    /\ at' = [m \in Messages |-> IF m \in S THEN None ELSE at[m]]
    /\ parent' = [m \in Messages |-> IF m \in S THEN None ELSE parent[m]]
    /\ final' = [m \in Messages |-> IF m \in S THEN None ELSE final[m]]
    /\ interrupted' = interrupted \ S

\* The finally clauses of send_message and of _run_phases.
Settle(m) ==
    /\ busy' = [busy EXCEPT ![at[m]] = FALSE]
    /\ Forget({m})

\* Mutated: The session of the result is written whatever the service started with.
EndStreamWrites(m) ==
    LET s == at[m]
    IN  /\ pc[m] \in Streaming /\ state[s] \in {"up", "draining"}
        /\ Settle(m)
        /\ session' = IF final[m] = None THEN session
                      ELSE [session EXCEPT ![row[s]] = final[m]]
        /\ pc' = [pc EXCEPT ![m] = "over"]
        /\ UNCHANGED <<rows, tokens, state, row, resumed, client, loaded, context, starts,
                       faults, counted, overlapped, started>>

\* Mutated: Phase 3 adds the tokens that the client has added already.
EndStreamCounts(m) ==
    LET s == at[m]
    IN  /\ pc[m] \in Streaming /\ state[s] \in {"up", "draining"}
        /\ Settle(m)
        /\ session' = IF final[m] # None /\ resumed[s] = None
                        THEN [session EXCEPT ![row[s]] = final[m]] ELSE session
        /\ tokens' = [tokens EXCEPT ![row[s]] = @ + IF final[m] # None THEN 1 ELSE 0]
        /\ pc' = [pc EXCEPT ![m] = "over"]
        /\ UNCHANGED <<rows, state, row, resumed, client, loaded, context, starts, faults,
                       counted, overlapped, started>>

\* The CLI has exited, with or without a result.  Only a service that has not
\* resumed a session writes the one of the result into its row.
EndStream(m) ==
    LET s == at[m]
    IN  /\ pc[m] \in Streaming /\ state[s] \in {"up", "draining"}
        /\ Settle(m)
        /\ session' = IF final[m] # None /\ resumed[s] = None
                        THEN [session EXCEPT ![row[s]] = final[m]] ELSE session
        /\ pc' = [pc EXCEPT ![m] = "over"]
        /\ UNCHANGED <<rows, tokens, state, row, resumed, client, loaded, context, starts,
                       faults, counted, overlapped, started>>

\* Mutated: No finally clause: a failing stream leaves the service busy.
FailStreamBusy(m) ==
    /\ pc[m] \in Streaming /\ faults < MaxFaults /\ faults' = faults + 1
    /\ Forget({m})
    /\ pc' = [pc EXCEPT ![m] = "over"]
    /\ UNCHANGED <<agents, service, context, starts, counted, overlapped, started>>

\* The CLI is not found, or a write to the database raises: no phase 3.
FailStream(m) ==
    /\ pc[m] \in Streaming /\ faults < MaxFaults /\ faults' = faults + 1
    /\ Settle(m)
    /\ pc' = [pc EXCEPT ![m] = "over"]
    /\ UNCHANGED <<rows, session, tokens, state, row, resumed, client, loaded, context,
                   starts, counted, overlapped, started>>

\* interrupt() finds no process: the client has none by the name it looks for.
Interrupt(s) ==
    /\ state[s] = "up" /\ s \in Waits /\ RunningAt(s) # {}
    /\ faults < MaxFaults /\ faults' = faults + 1
    /\ interrupted' = interrupted \cup RunningAt(s)
    /\ UNCHANGED <<agents, service, streams, starts, counted, overlapped, started>>

----------------------------------------------------------------------------
\* Stopping.

\* The process is gone and so is what it was doing.
Stop(s) ==
    /\ state' = [state EXCEPT ![s] = "down"] /\ row' = [row EXCEPT ![s] = 0]
    /\ resumed' = [resumed EXCEPT ![s] = None] /\ client' = [client EXCEPT ![s] = None]
    /\ loaded' = [loaded EXCEPT ![s] = FALSE] /\ busy' = [busy EXCEPT ![s] = FALSE]
    /\ LET lost == {m \in Messages : at[m] = s}
       IN  /\ pc' = [m \in Messages |-> IF m \in lost THEN "over" ELSE pc[m]]
           /\ Forget(lost)
    /\ UNCHANGED <<agents, context, starts, counted, overlapped, started>>

\* SIGTERM: no more requests; the lifespan then waits until is_busy is false.
Terminate(s) ==
    /\ state[s] = "up" /\ s \in Waits
    /\ state' = [state EXCEPT ![s] = "draining"]
    /\ UNCHANGED <<agents, row, resumed, client, loaded, busy, streams, starts, faults,
                   history>>

DrainedStop(s) == state[s] = "draining" /\ ~busy[s] /\ Stop(s) /\ UNCHANGED faults

\* Mutated: The wait has no deadline.
DrainForever(s) ==
    state[s] = "draining" /\ busy[s] /\ RunningAt(s) = {} /\ Stop(s) /\ UNCHANGED faults

\* After 30 seconds it stops all the same.
DrainDeadline(s) == state[s] = "draining" /\ busy[s] /\ Stop(s) /\ UNCHANGED faults

\* The bridge closes its service and stops its loop at once.
BridgeStop(s) == state[s] = "up" /\ s \notin Waits /\ Stop(s) /\ UNCHANGED faults

Crash(s) ==
    /\ state[s] # "down" /\ faults < MaxFaults /\ faults' = faults + 1
    /\ Stop(s)

----------------------------------------------------------------------------
Shutdown(s) == DrainedStop(s) \/ DrainDeadline(s)

Next ==
    \/ \E s \in Services :
         \/ Probe(s) \/ Adopt(s) \/ FindNoRow(s) \/ SpawnSession(s) \/ Interrupt(s)
         \/ Terminate(s) \/ Shutdown(s) \/ BridgeStop(s) \/ Crash(s)
         \/ \E m \in Messages : BeginStream(s, m)
    \/ \E m \in Messages :
         ReadInit(m) \/ ReadResult(m) \/ EndStream(m) \/ FailStream(m)

Spec == Init /\ [][Next]_vars

\* The lifespan polls is_busy twice a second until its deadline.  Nothing is
\* assumed of the CLI: no timeout bounds a stream.
FairSpec == Spec /\ \A s \in Services : WF_vars(Shutdown(s))

----------------------------------------------------------------------------
Sessions == Messages \cup {None}

TypeOK ==
    /\ rows \in 0 .. MaxStarts /\ session \in [Rows -> Sessions]
    /\ tokens \in [Rows -> 0 .. Cardinality(Messages)]
    /\ state \in [Services -> {"down", "probed", "spawning", "up", "draining"}]
    /\ row \in [Services -> 0 .. MaxStarts]
    /\ resumed \in [Services -> Sessions] /\ client \in [Services -> Sessions]
    /\ loaded \in [Services -> BOOLEAN] /\ busy \in [Services -> BOOLEAN]
    /\ pc \in [Messages -> {"unsent", "spawned", "answering", "answered", "over"}]
    /\ at \in [Messages -> Services \cup {None}]
    /\ parent \in [Messages -> Sessions] /\ final \in [Messages -> Sessions]
    /\ context \in [Messages -> SUBSET Messages]
    /\ starts \in 0 .. MaxStarts /\ faults \in 0 .. MaxFaults
    /\ counted \subseteq Messages /\ interrupted \subseteq Messages
    /\ overlapped \in BOOLEAN /\ started \subseteq Services

\* One service was ever started, so nobody else writes its row.
Alone == Cardinality(started) = 1

\* Through restarts and crashes at any point no answered message is forgotten:
\* while messages come one at a time to one service, the session that the next
\* start resumes holds all of them.  Two messages at a time fork the
\* conversation, and a second service writes a session of its own or, when it
\* starts, an old one (claude_sdk_client.py:397).
ConversationGoesOn ==
    rows > 0 /\ Alone /\ ~overlapped =>
        counted \subseteq IF session[rows] = None THEN {} ELSE context[session[rows]]

\* A restart goes on with the session that the client would go on with, also
\* while several messages stream, as long as the service has resumed a session.
\* One that has not writes what the result said: a message whose CLI exits late
\* then puts its own session over that of the messages answered since.
MemoryMatchesRow ==
    Alone => \A s \in Services :
        state[s] = "up" /\ loaded[s] /\ (resumed[s] # None \/ ~overlapped) =>
            client[s] = session[row[s]]

\* The tokens of every result are added to the rows once, whichever service
\* reads it and whatever becomes of the service afterwards.
TokensCountedOnce == SumOver(Rows, tokens) = Cardinality(counted)

\* While messages come one at a time, is_executing tells whether one streams,
\* also after a stream has failed: neither a stop nor a status is misled.
BusyIsTrue ==
    ~overlapped => \A s \in Services : busy[s] <=> RunningAt(s) # {}

\* A service that was told to stop stops, even if its CLI never ends.
ShutdownEnds == \A s \in Services : state[s] = "draining" ~> state[s] = "down"

\* "Interrupt the currently executing Claude SDK subprocess ... terminates the
\* active subprocess" (orchestrator_service.py:250): an interrupted message
\* brings no result.
InterruptStops ==
    [][\A m \in interrupted : pc[m] = "answering" => pc'[m] # "answered"]_pc
============================================================================
