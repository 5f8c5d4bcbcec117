--------------------------- MODULE LeadOutline ----------------------------
(* What the dispatcher sees of a Lead: how far its state file has got, and   *)
(* that it ends.  This is the Lead of Dispatcher (LeadSaves, LeadExits); the  *)
(* phase chains of LeadPipeline implement it.                                 *)

VARIABLES
    progress,  \* "none" (no readable file), "started", "planned" (plan_file and all_adws)
    alive

vars == <<progress, alive>>

Init == progress = "none" /\ alive = TRUE

Saves ==
    /\ alive /\ UNCHANGED alive
    /\ \/ progress = "none"    /\ progress' = "started"
       \/ progress = "started" /\ progress' = "planned"

\* A Lead that is killed while it saves leaves a file nobody can read.
Exits ==
    /\ alive /\ alive' = FALSE
    /\ progress' \in {progress, "none"}

\* How the dispatcher closes the run of a Lead that has ended so.
Verdict == CASE progress = "none"    -> "failed"
             [] progress = "started" -> "incomplete"
             [] OTHER                -> "succeeded"

Spec == Init /\ [][Saves \/ Exits]_vars
============================================================================
