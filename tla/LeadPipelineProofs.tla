------------------------ MODULE LeadPipelineProofs ------------------------
(* Theorems about LeadPipeline, for all sets of workflows and flags, any     *)
(* number of retries and of failing tests.                                   *)
EXTENDS LeadPipeline, TLAPS

USE WorkflowsAssumption, BoundsAssumption

---------------------------------------------------------------------------
(* The chains, and the order of the calls of a phase.                        *)

Shipping == <<"plan", "build", "test", "review", "document", "ship">>

LEMMA ChainFacts ==
  ASSUME wf \in Workflows
  PROVE  /\ Len(Chain) \in Nat \ {0} /\ DOMAIN Chain = 1 .. Len(Chain)
         /\ \A q \in 1 .. Len(Chain) : Chain[q] \in Phases
         /\ \A q, s \in 1 .. Len(Chain) : Chain[q] = Chain[s] => q = s
         /\ wf # "patch" => Chain[1] = "plan"
         /\ Chain[1] # "ship"
         /\ ~Tolerated(Chain[Len(Chain)])
         /\ \A q \in 1 .. Len(Chain) : Chain[q] = "ship" => wf = "sdlc_zte" /\ q = 6
         /\ wf = "sdlc_zte" => Chain = Shipping
<1> USE DEF Chain, Phases, Tolerated, SdlcTolerates, ZteTolerates, Shipping
<1>1. CASE wf = "plan" BY <1>1
<1>2. CASE wf = "patch" BY <1>2
<1>3. CASE wf = "plan_build" BY <1>3
<1>4. CASE wf = "plan_build_document" BY <1>4
<1>5. CASE wf = "plan_build_review" BY <1>5
<1>6. CASE wf = "plan_build_test" BY <1>6
<1>7. CASE wf = "plan_build_test_review" BY <1>7
<1>8. CASE wf = "sdlc" BY <1>8
<1>9. CASE wf = "sdlc_zte" BY <1>9
<1> QED BY <1>1, <1>2, <1>3, <1>4, <1>5, <1>6, <1>7, <1>8, <1>9

LEMMA HereIn == TypeOK => Here \in Phases /\ phase \in DOMAIN Chain
  BY ChainFacts DEF TypeOK, Here

\* No phase makes a call twice.
LEMMA CallsOnce ==
  ASSUME NEW p \in Phases
  PROVE  /\ Len(Calls(p)) \in Nat /\ DOMAIN Calls(p) = 1 .. Len(Calls(p))
         /\ \A i, j \in DOMAIN Calls(p) : Calls(p)[i] = Calls(p)[j] => i = j
         /\ 1 \in DOMAIN Calls(p) /\ Calls(p)[1] = "load"
         /\ \A i \in DOMAIN Calls(p) : Calls(p)[i] \notin {"ensure", "exited", "leave"}
<1>1. CASE p = "plan" BY <1>1 DEF Calls, PlanOpening, PlanClosing
<1>2. CASE p = "build" BY <1>2 DEF Calls, BuildOpening, BuildClosing
<1>3. CASE p = "test" BY <1>3 DEF Calls, TestOpening, TestClosing
<1>4. CASE p = "review" BY <1>4 DEF Calls, ReviewOpening, ReviewClosing
<1>5. CASE p = "document" BY <1>5 DEF Calls, DocumentOpening, DocumentClosing
<1>6. CASE p = "ship" BY <1>6 DEF Calls, ShipCalls
<1>7. CASE p = "patch" BY <1>7 DEF Calls, PatchOpening, PatchClosing
<1> QED BY <1>1, <1>2, <1>3, <1>4, <1>5, <1>6, <1>7 DEF Phases

LEMMA AfterNext ==
  ASSUME Here \in Phases, NEW i \in DOMAIN Calls(Here)
  PROVE  After(Calls(Here)[i]) = IF i = Len(Calls(Here)) THEN "leave" ELSE Calls(Here)[i + 1]
<1>1. \A j \in DOMAIN Calls(Here) : Calls(Here)[j] = Calls(Here)[i] => j = i BY CallsOnce
<1>2. (CHOOSE j \in DOMAIN Calls(Here) : Calls(Here)[j] = Calls(Here)[i]) = i BY <1>1
<1> QED BY <1>2 DEF After

\* The next call is one of the phase, and never the first one.
LEMMA AfterIn ==
  ASSUME Here \in Phases, NEW c \in ToSet(Calls(Here))
  PROVE  After(c) \in (ToSet(Calls(Here)) \ {"load", "ensure", "exited"}) \cup {"leave"}
<1>1. PICK i \in DOMAIN Calls(Here) : c = Calls(Here)[i] BY DEF ToSet
<1>2. CASE i = Len(Calls(Here)) BY <1>1, <1>2, AfterNext
<1>3. CASE i # Len(Calls(Here))
  <2>1. i + 1 \in DOMAIN Calls(Here) /\ i + 1 # 1 BY <1>3, CallsOnce
  <2>2. Calls(Here)[i + 1] \notin {"load", "ensure", "exited"} BY <2>1, CallsOnce
  <2> QED BY <1>1, <1>3, <2>1, <2>2, AfterNext DEF ToSet
<1> QED BY <1>2, <1>3

---------------------------------------------------------------------------
(* What follows each call, phase by phase.                                   *)

LEMMA CallsPlan ==
  /\ Len(Calls("plan")) = 14 /\ DOMAIN Calls("plan") = 1 .. 14
  /\ \A i \in 1 .. 14 : Calls("plan")[i] = <<"load", "ports", "issue", "classify", "branch", "worktree",
        "install", "write_plan", "find_plan", "message", "commit",
        "push", "pull", "close">>[i]
  /\ ToSet(Calls("plan")) =
        {"load", "ports", "issue", "classify", "branch", "worktree",
               "install", "write_plan", "find_plan", "message",
               "commit", "push", "pull", "close"}
<1>1. Len(Calls("plan")) = 14 /\ DOMAIN Calls("plan") = 1 .. 14
  BY DEF Calls, PlanOpening, PlanClosing
<1>2. /\ Calls("plan")[1] = "load" /\ Calls("plan")[2] = "ports"
      /\ Calls("plan")[3] = "issue" /\ Calls("plan")[4] = "classify"
      /\ Calls("plan")[5] = "branch" /\ Calls("plan")[6] = "worktree"
      /\ Calls("plan")[7] = "install" /\ Calls("plan")[8] = "write_plan"
      /\ Calls("plan")[9] = "find_plan" /\ Calls("plan")[10] = "message"
      /\ Calls("plan")[11] = "commit" /\ Calls("plan")[12] = "push"
      /\ Calls("plan")[13] = "pull" /\ Calls("plan")[14] = "close"
  BY DEF Calls, PlanOpening, PlanClosing
<1> QED BY <1>1, <1>2 DEF ToSet

LEMMA AfterPlan ==
  ASSUME Here = "plan"
  PROVE  /\ After("load") = "ports" /\ After("ports") = "issue"
         /\ After("issue") = "classify" /\ After("classify") = "branch"
         /\ After("branch") = "worktree" /\ After("worktree") = "install"
         /\ After("install") = "write_plan" /\ After("write_plan") = "find_plan"
         /\ After("find_plan") = "message" /\ After("message") = "commit"
         /\ After("commit") = "push" /\ After("push") = "pull"
         /\ After("pull") = "close" /\ After("close") = "leave"
<1>1. \A i \in 1 .. 14 : After(Calls(Here)[i]) = IF i = 14 THEN "leave" ELSE Calls(Here)[i + 1]
  BY CallsPlan, AfterNext DEF Phases
<1> QED BY <1>1, CallsPlan

LEMMA CallsBuild ==
  /\ Len(Calls("build")) = 10 /\ DOMAIN Calls("build") = 1 .. 10
  /\ \A i \in 1 .. 10 : Calls("build")[i] = <<"load", "validate", "checkout", "implement", "issue", "message",
        "commit", "push", "pull", "close">>[i]
  /\ ToSet(Calls("build")) =
        {"load", "validate", "checkout", "implement", "issue", "message",
               "commit", "push", "pull", "close"}
<1>1. Len(Calls("build")) = 10 /\ DOMAIN Calls("build") = 1 .. 10
  BY DEF Calls, BuildOpening, BuildClosing
<1>2. /\ Calls("build")[1] = "load" /\ Calls("build")[2] = "validate"
      /\ Calls("build")[3] = "checkout" /\ Calls("build")[4] = "implement"
      /\ Calls("build")[5] = "issue" /\ Calls("build")[6] = "message"
      /\ Calls("build")[7] = "commit" /\ Calls("build")[8] = "push"
      /\ Calls("build")[9] = "pull" /\ Calls("build")[10] = "close"
  BY DEF Calls, BuildOpening, BuildClosing
<1> QED BY <1>1, <1>2 DEF ToSet

LEMMA AfterBuild ==
  ASSUME Here = "build"
  PROVE  /\ After("load") = "validate" /\ After("validate") = "checkout"
         /\ After("checkout") = "implement" /\ After("implement") = "issue"
         /\ After("issue") = "message" /\ After("message") = "commit"
         /\ After("commit") = "push" /\ After("push") = "pull"
         /\ After("pull") = "close" /\ After("close") = "leave"
<1>1. \A i \in 1 .. 10 : After(Calls(Here)[i]) = IF i = 10 THEN "leave" ELSE Calls(Here)[i + 1]
  BY CallsBuild, AfterNext DEF Phases
<1> QED BY <1>1, CallsBuild

LEMMA CallsTest ==
  /\ Len(Calls("test")) = 11 /\ DOMAIN Calls("test") = 1 .. 11
  /\ \A i \in 1 .. 11 : Calls("test")[i] = <<"load", "validate", "unit", "e2e", "issue", "message", "commit",
        "push", "pull", "close", "report">>[i]
  /\ ToSet(Calls("test")) =
        {"load", "validate", "unit", "e2e", "issue", "message", "commit",
               "push", "pull", "close", "report"}
<1>1. Len(Calls("test")) = 11 /\ DOMAIN Calls("test") = 1 .. 11
  BY DEF Calls, TestOpening, TestClosing
<1>2. /\ Calls("test")[1] = "load" /\ Calls("test")[2] = "validate"
      /\ Calls("test")[3] = "unit" /\ Calls("test")[4] = "e2e"
      /\ Calls("test")[5] = "issue" /\ Calls("test")[6] = "message"
      /\ Calls("test")[7] = "commit" /\ Calls("test")[8] = "push"
      /\ Calls("test")[9] = "pull" /\ Calls("test")[10] = "close"
      /\ Calls("test")[11] = "report"
  BY DEF Calls, TestOpening, TestClosing
<1> QED BY <1>1, <1>2 DEF ToSet

LEMMA AfterTest ==
  ASSUME Here = "test"
  PROVE  /\ After("load") = "validate" /\ After("validate") = "unit"
         /\ After("unit") = "e2e" /\ After("e2e") = "issue"
         /\ After("issue") = "message" /\ After("message") = "commit"
         /\ After("commit") = "push" /\ After("push") = "pull"
         /\ After("pull") = "close" /\ After("close") = "report"
         /\ After("report") = "leave"
<1>1. \A i \in 1 .. 11 : After(Calls(Here)[i]) = IF i = 11 THEN "leave" ELSE Calls(Here)[i + 1]
  BY CallsTest, AfterNext DEF Phases
<1> QED BY <1>1, CallsTest

LEMMA CallsReview ==
  /\ Len(Calls("review")) = 10 /\ DOMAIN Calls("review") = 1 .. 10
  /\ \A i \in 1 .. 10 : Calls("review")[i] = <<"load", "validate", "find_spec", "review", "issue", "message",
        "commit", "push", "pull", "close">>[i]
  /\ ToSet(Calls("review")) =
        {"load", "validate", "find_spec", "review", "issue", "message",
               "commit", "push", "pull", "close"}
<1>1. Len(Calls("review")) = 10 /\ DOMAIN Calls("review") = 1 .. 10
  BY DEF Calls, ReviewOpening, ReviewClosing
<1>2. /\ Calls("review")[1] = "load" /\ Calls("review")[2] = "validate"
      /\ Calls("review")[3] = "find_spec" /\ Calls("review")[4] = "review"
      /\ Calls("review")[5] = "issue" /\ Calls("review")[6] = "message"
      /\ Calls("review")[7] = "commit" /\ Calls("review")[8] = "push"
      /\ Calls("review")[9] = "pull" /\ Calls("review")[10] = "close"
  BY DEF Calls, ReviewOpening, ReviewClosing
<1> QED BY <1>1, <1>2 DEF ToSet

LEMMA AfterReview ==
  ASSUME Here = "review"
  PROVE  /\ After("load") = "validate" /\ After("validate") = "find_spec"
         /\ After("find_spec") = "review" /\ After("review") = "issue"
         /\ After("issue") = "message" /\ After("message") = "commit"
         /\ After("commit") = "push" /\ After("push") = "pull"
         /\ After("pull") = "close" /\ After("close") = "leave"
<1>1. \A i \in 1 .. 10 : After(Calls(Here)[i]) = IF i = 10 THEN "leave" ELSE Calls(Here)[i + 1]
  BY CallsReview, AfterNext DEF Phases
<1> QED BY <1>1, CallsReview

LEMMA CallsDocument ==
  /\ Len(Calls("document")) = 12 /\ DOMAIN Calls("document") = 1 .. 12
  /\ \A i \in 1 .. 12 : Calls("document")[i] = <<"load", "validate", "changes", "find_spec", "document", "issue",
        "message", "commit", "kpi", "push", "pull", "close">>[i]
  /\ ToSet(Calls("document")) =
        {"load", "validate", "changes", "find_spec", "document", "issue",
               "message", "commit", "kpi", "push", "pull", "close"}
<1>1. Len(Calls("document")) = 12 /\ DOMAIN Calls("document") = 1 .. 12
  BY DEF Calls, DocumentOpening, DocumentClosing
<1>2. /\ Calls("document")[1] = "load" /\ Calls("document")[2] = "validate"
      /\ Calls("document")[3] = "changes" /\ Calls("document")[4] = "find_spec"
      /\ Calls("document")[5] = "document" /\ Calls("document")[6] = "issue"
      /\ Calls("document")[7] = "message" /\ Calls("document")[8] = "commit"
      /\ Calls("document")[9] = "kpi" /\ Calls("document")[10] = "push"
      /\ Calls("document")[11] = "pull" /\ Calls("document")[12] = "close"
  BY DEF Calls, DocumentOpening, DocumentClosing
<1> QED BY <1>1, <1>2 DEF ToSet

LEMMA AfterDocument ==
  ASSUME Here = "document"
  PROVE  /\ After("load") = "validate" /\ After("validate") = "changes"
         /\ After("changes") = "find_spec" /\ After("find_spec") = "document"
         /\ After("document") = "issue" /\ After("issue") = "message"
         /\ After("message") = "commit" /\ After("commit") = "kpi"
         /\ After("kpi") = "push" /\ After("push") = "pull"
         /\ After("pull") = "close" /\ After("close") = "leave"
<1>1. \A i \in 1 .. 12 : After(Calls(Here)[i]) = IF i = 12 THEN "leave" ELSE Calls(Here)[i + 1]
  BY CallsDocument, AfterNext DEF Phases
<1> QED BY <1>1, CallsDocument

LEMMA CallsShip ==
  /\ Len(Calls("ship")) = 5 /\ DOMAIN Calls("ship") = 1 .. 5
  /\ \A i \in 1 .. 5 : Calls("ship")[i] = <<"load", "complete", "validate", "merge", "close">>[i]
  /\ ToSet(Calls("ship")) =
        {"load", "complete", "validate", "merge", "close"}
<1>1. Len(Calls("ship")) = 5 /\ DOMAIN Calls("ship") = 1 .. 5 BY DEF Calls, ShipCalls
<1>2. /\ Calls("ship")[1] = "load" /\ Calls("ship")[2] = "complete"
      /\ Calls("ship")[3] = "validate" /\ Calls("ship")[4] = "merge"
      /\ Calls("ship")[5] = "close"
  BY DEF Calls, ShipCalls
<1> QED BY <1>1, <1>2 DEF ToSet

LEMMA AfterShip ==
  ASSUME Here = "ship"
  PROVE  /\ After("load") = "complete" /\ After("complete") = "validate"
         /\ After("validate") = "merge" /\ After("merge") = "close"
         /\ After("close") = "leave"
<1>1. \A i \in 1 .. 5 : After(Calls(Here)[i]) = IF i = 5 THEN "leave" ELSE Calls(Here)[i + 1]
  BY CallsShip, AfterNext DEF Phases
<1> QED BY <1>1, CallsShip

LEMMA CallsPatch ==
  /\ Len(Calls("patch")) = 13 /\ DOMAIN Calls("patch") = 1 .. 13
  /\ \A i \in 1 .. 13 : Calls("patch")[i] = <<"load", "issue", "patch_class", "patch_branch", "patch_worktree",
        "patch_request", "patch_plan", "patch_implement", "message",
        "commit", "push", "pull", "close">>[i]
  /\ ToSet(Calls("patch")) =
        {"load", "issue", "patch_class", "patch_branch", "patch_worktree",
               "patch_request", "patch_plan", "patch_implement",
               "message", "commit", "push", "pull", "close"}
<1>1. Len(Calls("patch")) = 13 /\ DOMAIN Calls("patch") = 1 .. 13
  BY DEF Calls, PatchOpening, PatchClosing
<1>2. /\ Calls("patch")[1] = "load" /\ Calls("patch")[2] = "issue"
      /\ Calls("patch")[3] = "patch_class" /\ Calls("patch")[4] = "patch_branch"
      /\ Calls("patch")[5] = "patch_worktree" /\ Calls("patch")[6] = "patch_request"
      /\ Calls("patch")[7] = "patch_plan" /\ Calls("patch")[8] = "patch_implement"
      /\ Calls("patch")[9] = "message" /\ Calls("patch")[10] = "commit"
      /\ Calls("patch")[11] = "push" /\ Calls("patch")[12] = "pull"
      /\ Calls("patch")[13] = "close"
  BY DEF Calls, PatchOpening, PatchClosing
<1> QED BY <1>1, <1>2 DEF ToSet

LEMMA AfterPatch ==
  ASSUME Here = "patch"
  PROVE  /\ After("load") = "issue" /\ After("issue") = "patch_class"
         /\ After("patch_class") = "patch_branch" /\ After("patch_branch") = "patch_worktree"
         /\ After("patch_worktree") = "patch_request" /\ After("patch_request") = "patch_plan"
         /\ After("patch_plan") = "patch_implement" /\ After("patch_implement") = "message"
         /\ After("message") = "commit" /\ After("commit") = "push"
         /\ After("push") = "pull" /\ After("pull") = "close"
         /\ After("close") = "leave"
<1>1. \A i \in 1 .. 13 : After(Calls(Here)[i]) = IF i = 13 THEN "leave" ELSE Calls(Here)[i + 1]
  BY CallsPatch, AfterNext DEF Phases
<1> QED BY <1>1, CallsPatch

\* The calls that belong to one phase, and where a phase ends.
LEMMA Owners ==
  ASSUME NEW p \in Phases
  PROVE  /\ ToSet(Calls(p)) \cap {"unit", "e2e", "report"} # {} => p = "test"
         /\ "review" \in ToSet(Calls(p)) => p = "review"
         /\ ToSet(Calls(p)) \cap {"changes", "kpi", "document"} # {} => p = "document"
         /\ ToSet(Calls(p)) \cap {"complete", "merge"} # {} => p = "ship"
         /\ ToSet(Calls(p)) \cap {"ports", "classify", "branch", "worktree", "install",
                                  "write_plan", "find_plan"} # {} => p = "plan"
         /\ ToSet(Calls(p)) \cap {"patch_class", "patch_branch", "patch_worktree",
                  "patch_request", "patch_plan", "patch_implement"} # {} => p = "patch"
         /\ ToSet(Calls(p)) \cap {"commit", "push", "pull"} # {} => p # "ship"
         /\ ToSet(Calls(p)) \cap {"fix_unit", "fix_e2e", "plan_fix", "fix_review"} = {}
<1>1. CASE p = "plan" BY <1>1, CallsPlan
<1>2. CASE p = "build" BY <1>2, CallsBuild
<1>3. CASE p = "test" BY <1>3, CallsTest
<1>4. CASE p = "review" BY <1>4, CallsReview
<1>5. CASE p = "document" BY <1>5, CallsDocument
<1>6. CASE p = "ship" BY <1>6, CallsShip
<1>7. CASE p = "patch" BY <1>7, CallsPatch
<1> QED BY <1>1, <1>2, <1>3, <1>4, <1>5, <1>6, <1>7 DEF Phases

LEMMA LeavesLast ==
  ASSUME Here \in Phases, NEW c \in ToSet(Calls(Here)), After(c) = "leave"
  PROVE  c = "report" \/ (c = "close" /\ Here # "test")
<1>1. CASE Here = "plan" BY <1>1, CallsPlan, AfterPlan
<1>2. CASE Here = "build" BY <1>2, CallsBuild, AfterBuild
<1>3. CASE Here = "test" BY <1>3, CallsTest, AfterTest
<1>4. CASE Here = "review" BY <1>4, CallsReview, AfterReview
<1>5. CASE Here = "document" BY <1>5, CallsDocument, AfterDocument
<1>6. CASE Here = "ship" BY <1>6, CallsShip, AfterShip
<1>7. CASE Here = "patch" BY <1>7, CallsPatch, AfterPatch
<1> QED BY <1>1, <1>2, <1>3, <1>4, <1>5, <1>6, <1>7 DEF Phases

LEMMA AfterPull ==
  ASSUME Here \in Phases, "push" \in ToSet(Calls(Here))
  PROVE  After("pull") = "close" /\ "close" \in ToSet(Calls(Here))
<1>1. CASE Here = "plan" BY <1>1, CallsPlan, AfterPlan
<1>2. CASE Here = "build" BY <1>2, CallsBuild, AfterBuild
<1>3. CASE Here = "test" BY <1>3, CallsTest, AfterTest
<1>4. CASE Here = "review" BY <1>4, CallsReview, AfterReview
<1>5. CASE Here = "document" BY <1>5, CallsDocument, AfterDocument
<1>6. CASE Here = "ship" BY <1>6, CallsShip, AfterShip
<1>7. CASE Here = "patch" BY <1>7, CallsPatch, AfterPatch
<1> QED BY <1>1, <1>2, <1>3, <1>4, <1>5, <1>6, <1>7 DEF Phases

LEMMA HereStays ==
  UNCHANGED <<wf, phase>> => Here' = Here /\ Chain' = Chain
  BY DEF Here, Chain

---------------------------------------------------------------------------
(* Types.                                                                    *)

SaveCalls == {"ensure", "ports", "classify", "branch", "worktree", "find_plan",
              "close", "patch_branch", "patch_worktree", "patch_implement"}
FixCalls == {"fix_unit", "fix_e2e", "plan_fix", "fix_review"}
LoopCalls == {"unit", "e2e", "review"} \cup FixCalls

\* What the position of the Lead says of its phase and of the loops: a fix is
\* made only in the phase of its loop and only for a failure that is left, and
\* the attempts are counted only there.
Where ==
    /\ at = "ensure" => phase = 1
    /\ saving => at \in SaveCalls
    /\ at \in {"fix_unit", "fix_e2e"} => Here = "test"
    /\ at \in {"plan_fix", "fix_review"} => Here = "review"
    /\ at = "leave" => Here # "test"
    /\ at \in FixCalls => left > 0
    /\ at \notin LoopCalls => attempt = 0
    /\ at = "review" => attempt < MaxReviewAttempts - 1

LEMMA InitTypes == Init => TypeOK /\ Where
<1> SUFFICES ASSUME Init PROVE TypeOK /\ Where OBVIOUS
<1>1. phase \in 1 .. Len(Chain) BY ChainFacts DEF Init
<1>2. rc \in [Phases -> {"none", "ok", "failed"}] BY DEF Init
<1>3. attempt \in 0 .. MaxTestAttempts - 1 /\ left \in 0 .. MaxFailing /\ tries \in 0 .. MaxRetries
      /\ unitFailed \in 0 .. MaxFailing /\ e2eFailed \in 0 .. MaxFailing
  BY DEF Init, MaxTestAttempts
<1>4. TypeOK BY <1>1, <1>2, <1>3 DEF Init, TypeOK
<1>5. Where BY DEF Init, Where, SaveCalls, FixCalls, LoopCalls, MaxReviewAttempts
<1> QED BY <1>4, <1>5

\* A call at which the phase can be, and what follows it.
LEMMA Goes ==
  ASSUME TypeOK, NEW c, at = c, c \notin {"ensure", "leave", "exited"} \cup FixCalls
  PROVE  /\ c \in ToSet(Calls(Here)) /\ Here \in Phases
         /\ After(c) \in ToSet(Calls(Here)) \cup {"leave"}
         /\ After(c) \notin FixCalls \cup {"ensure", "load", "exited"}
         /\ After(c) = "leave" => c = "report" \/ (c = "close" /\ Here # "test")
<1>1. c \in ToSet(Calls(Here)) /\ Here \in Phases BY HereIn DEF TypeOK, FixCalls
<1>2. After(c) \in (ToSet(Calls(Here)) \ {"load", "ensure", "exited"}) \cup {"leave"}
  BY <1>1, AfterIn
<1>3. After(c) \notin FixCalls BY <1>1, <1>2, Owners DEF FixCalls
<1> QED BY <1>1, <1>2, <1>3, LeavesLast

\* The types of what a call of a phase moves.
Placed ==
    /\ wf \in Workflows /\ flags \in Flags /\ phase \in 1 .. Len(Chain)
    /\ at \in {"ensure", "leave", "exited", "fix_unit", "fix_e2e", "plan_fix", "fix_review"}
              \cup ToSet(Calls(Here))
    /\ saving \in BOOLEAN /\ tries \in 0 .. MaxRetries
    /\ mem \subseteq Fields /\ file \subseteq Fields /\ saved \subseteq Fields
    /\ rc \in [Phases -> {"none", "ok", "failed"}]
    /\ outcome \in {"running", "ok", "failed", "killed"}
Looped ==
    /\ attempt \in 0 .. MaxTestAttempts - 1 /\ left \in 0 .. MaxFailing /\ fixed \in BOOLEAN
    /\ unitFailed \in 0 .. MaxFailing /\ e2eFailed \in 0 .. MaxFailing
    /\ tested \in {"none", "passed", "failing", "unknown"}
Gitted ==
    /\ dirty \in BOOLEAN /\ ahead \in BOOLEAN /\ differs \in BOOLEAN /\ pushFailed \in BOOLEAN
    /\ pr \in {"none", "open", "merged"}

LEMMA Parts == TypeOK <=> Placed /\ Looped /\ Gitted
  BY DEF TypeOK, Placed, Looped, Gitted
LEMMA PartsNext == TypeOK' <=> Placed' /\ Looped' /\ Gitted'
  BY DEF TypeOK, Placed, Looped, Gitted

\* A call that goes on to the next one, and one that opens the state file.
LEMMA ProceedPlaced ==
  ASSUME TypeOK, Where, NEW c, At(c), Goto(After(c)), mem' \subseteq Fields,
         c \notin {"ensure", "leave", "exited", "report"} \cup LoopCalls,
         UNCHANGED <<context, disk>>
  PROVE  Placed' /\ Looped' /\ Where'
<1>1. /\ c \in ToSet(Calls(Here)) /\ After(c) \in ToSet(Calls(Here)) \cup {"leave"}
      /\ After(c) \notin FixCalls \cup {"ensure", "load", "exited"}
      /\ After(c) = "leave" => Here # "test"
  BY Goes DEF At, LoopCalls
<1>2. Here' = Here /\ Chain' = Chain BY HereStays DEF context, Goto
<1>3. at' = After(c) /\ tries' = 0 /\ UNCHANGED <<phase, saving, wf, flags, rc, outcome, loop, disk>> /\ ~saving
  BY DEF Goto, context, At
<1>4. Placed' BY <1>1, <1>2, <1>3 DEF TypeOK, Placed, disk
<1>5. Looped' BY <1>3 DEF TypeOK, Looped, loop
<1>6. at = c /\ attempt = 0 BY DEF Where, At
<1>7. Where' BY <1>1, <1>2, <1>3, <1>6 DEF Where, loop, LoopCalls, FixCalls, MaxReviewAttempts
<1> QED BY <1>4, <1>5, <1>7

LEMMA CallPlaced ==
  ASSUME TypeOK, Where, NEW c, Proceed(c), UNCHANGED context,
         c \notin {"ensure", "leave", "exited", "report"} \cup LoopCalls
  PROVE  Placed' /\ Looped' /\ Where'
<1>1. mem' \subseteq Fields BY DEF Proceed, TypeOK
<1> QED BY <1>1, ProceedPlaced DEF Proceed

LEMMA GotoPlaced ==
  ASSUME TypeOK, UNCHANGED <<stay, phase, saving>>, tries' = 0,
         at' \in {"leave", "exited"} \cup FixCalls \cup ToSet(Calls(Here))
  PROVE  Placed' /\ Here' = Here /\ Chain' = Chain
<1>1. Here' = Here /\ Chain' = Chain BY HereStays DEF stay
<1>2. at' \in {"ensure", "leave", "exited", "fix_unit", "fix_e2e", "plan_fix", "fix_review"}
              \cup ToSet(Calls(Here'))
  BY <1>1 DEF FixCalls
<1> QED BY <1>1, <1>2 DEF TypeOK, Placed, stay, disk

LEMMA SavePlaced ==
  ASSUME TypeOK, Where, NEW c, NEW fields \in SUBSET Fields, SaveWith(c, fields),
         c \in SaveCalls \ {"ensure"}, UNCHANGED context
  PROVE  Placed' /\ Looped' /\ Where'
<1>1. Here' = Here /\ Chain' = Chain BY HereStays DEF context, SaveWith
<1>2. Placed' BY <1>1 DEF TypeOK, Placed, SaveWith, context, loop
<1>3. Looped' BY DEF TypeOK, Looped, context, loop
<1>4. Where' BY <1>1 DEF Where, SaveWith, At, SaveCalls, context, loop
<1> QED BY <1>2, <1>3, <1>4

LEMMA MayChangeTyped == TypeOK /\ MayChange => Gitted'
<1> SUFFICES ASSUME TypeOK, MayChange PROVE Gitted' OBVIOUS
<1>1. dirty' \in BOOLEAN BY DEF TypeOK, MayChange
<1> QED BY <1>1 DEF TypeOK, MayChange, Gitted
LEMMA CommitTyped == TypeOK /\ CommitAll => Gitted'
<1> SUFFICES ASSUME TypeOK, CommitAll PROVE Gitted' OBVIOUS
<1>1. dirty' \in BOOLEAN /\ ahead' \in BOOLEAN /\ differs' \in BOOLEAN
  BY Zenon DEF TypeOK, CommitAll
<1> QED BY <1>1 DEF TypeOK, CommitAll, Gitted
LEMMA GitTyped == TypeOK /\ UNCHANGED git => Gitted'
  BY DEF TypeOK, Gitted, git

\* What an agent leaves behind when its call fails.
LEMMA AgentLeavesTyped == TypeOK /\ AgentLeaves => Gitted'
<1> SUFFICES ASSUME TypeOK, AgentLeaves PROVE Gitted' OBVIOUS
<1>1. CASE MayChange BY <1>1, MayChangeTyped
<1>2. CASE CommitAll BY <1>2, CommitTyped
<1>3. CASE pr' = "open" /\ UNCHANGED <<dirty, ahead, differs, pushFailed>>
  BY <1>3 DEF TypeOK, Gitted
<1> QED BY <1>1, <1>2, <1>3 DEF AgentLeaves

LEMMA TypesStep == TypeOK /\ Where /\ [Next]_vars => (TypeOK /\ Where)'
<1> SUFFICES ASSUME TypeOK, Where, [Next]_vars PROVE TypeOK' /\ Where' OBVIOUS
<1>1. CASE EnsureId
  <2>1. Here' = Here /\ Chain' = Chain BY <1>1, HereStays DEF EnsureId
  <2>2. "load" \in ToSet(Calls(Here)) BY HereIn, CallsOnce DEF ToSet
  <2>3. Placed' BY <1>1, <2>1, <2>2 DEF EnsureId, TypeOK, Placed, loop, Fields
  <2>4. Looped' /\ Gitted' BY <1>1 DEF EnsureId, TypeOK, Looped, Gitted, loop, git
  <2>5. Where' BY <1>1, <2>1 DEF EnsureId, Where, SaveCalls, LoopCalls, FixCalls, loop
  <2> QED BY <2>3, <2>4, <2>5, PartsNext
<1>2. CASE ClaimPorts BY <1>2, SavePlaced, GitTyped, PartsNext DEF ClaimPorts, Fields, SaveCalls
<1>3. CASE Classify BY <1>3, SavePlaced, GitTyped, PartsNext DEF Classify, Fields, SaveCalls
<1>4. CASE NameBranch BY <1>4, SavePlaced, GitTyped, PartsNext DEF NameBranch, Fields, SaveCalls
<1>5. CASE AddWorktree BY <1>5, SavePlaced, GitTyped, PartsNext DEF AddWorktree, Fields, SaveCalls
<1>6. CASE FindPlan BY <1>6, SavePlaced, MayChangeTyped, PartsNext DEF FindPlan, Fields, SaveCalls
<1>7. CASE Close BY <1>7, SavePlaced, GitTyped, PartsNext DEF Close, Fields, SaveCalls
<1>8. CASE PatchBranch BY <1>8, SavePlaced, GitTyped, PartsNext DEF PatchBranch, Fields, SaveCalls
<1>9. CASE PatchWorktree
  BY <1>9, SavePlaced, MayChangeTyped, PartsNext DEF PatchWorktree, Fields, SaveCalls
<1>10. CASE PatchImplement
  BY <1>10, SavePlaced, MayChangeTyped, PartsNext DEF PatchImplement, Fields, SaveCalls
<1>11. CASE WriteState
  <2>1. Here' = Here /\ Chain' = Chain BY <1>11, HereStays DEF WriteState
  <2>2. at \in SaveCalls \ {"ensure"} BY <1>11 DEF WriteState, Running, Where
  <2>3. /\ After(at) \in ToSet(Calls(Here)) \cup {"leave"}
        /\ After(at) \notin FixCalls \cup {"ensure", "load", "exited"}
        /\ After(at) = "leave" => Here # "test"
    BY <2>2, Goes DEF SaveCalls, FixCalls
  <2>9. at' \in {"ensure", "leave", "exited", "fix_unit", "fix_e2e", "plan_fix", "fix_review"}
                 \cup ToSet(Calls(Here'))
    BY <1>11, <2>1, <2>3 DEF WriteState
  <2>8. /\ UNCHANGED <<wf, flags, phase, mem, rc, outcome>> /\ file' = mem /\ saved' = mem
        /\ tries' = 0 /\ saving' = FALSE
    BY <1>11 DEF WriteState
  <2>10. phase' \in 1 .. Len(Chain') BY <2>1, <2>8 DEF TypeOK
  <2>11. mem' \subseteq Fields /\ file' \subseteq Fields /\ saved' \subseteq Fields
    BY <2>8 DEF TypeOK
  <2>12. tries' \in 0 .. MaxRetries BY <2>8
  <2>13. saving' \in BOOLEAN BY <2>8
  <2>4. Placed' BY <2>8, <2>9, <2>10, <2>11, <2>12, <2>13 DEF TypeOK, Placed
  <2>5. Looped' /\ Gitted' BY <1>11 DEF WriteState, TypeOK, Looped, Gitted, loop, git
  <2>6. attempt = 0 BY <2>2 DEF Where, SaveCalls, LoopCalls, FixCalls
  <2>7. Where' BY <1>11, <2>1, <2>3, <2>6 DEF WriteState, Where, loop, FixCalls, MaxReviewAttempts
  <2> QED BY <2>4, <2>5, <2>7, PartsNext
<1>12. CASE LoadState
  <2>1. mem' \subseteq Fields BY <1>12 DEF LoadState, TypeOK, Fields
  <2>2. ~saving BY <1>12 DEF LoadState, Where, SaveCalls
  <2>3. Placed' /\ Looped' /\ Where'
    BY <1>12, <2>1, <2>2, ProceedPlaced DEF LoadState, LoopCalls, FixCalls, context, At
  <2> QED BY <1>12, <2>3, GitTyped, PartsNext DEF LoadState
<1>13. CASE FetchIssue
  BY <1>13, CallPlaced, GitTyped, PartsNext DEF FetchIssue, LoopCalls, FixCalls, context
<1>14. CASE InstallWorktree
  BY <1>14, CallPlaced, MayChangeTyped, PartsNext DEF InstallWorktree, LoopCalls, FixCalls, context
<1>15. CASE WritePlan
  BY <1>15, CallPlaced, MayChangeTyped, PartsNext DEF WritePlan, LoopCalls, FixCalls, context
<1>16. CASE CreateCommit
  BY <1>16, CallPlaced, GitTyped, CommitTyped, MayChangeTyped, PartsNext
    DEF CreateCommit, LoopCalls, FixCalls, context
<1>17. CASE CommitChanges
  BY <1>17, CallPlaced, GitTyped, CommitTyped, MayChangeTyped, PartsNext
    DEF CommitChanges, LoopCalls, FixCalls, context
<1>18. CASE PushBranch
  <2>1. Placed' /\ Looped' /\ Where'
    BY <1>18, CallPlaced DEF PushBranch, LoopCalls, FixCalls, context
  <2> QED BY <1>18, <2>1, PartsNext DEF PushBranch, TypeOK, Gitted
<1>19. CASE FindOrCreatePR
  <2>1. Placed' /\ Looped' /\ Where'
    BY <1>19, CallPlaced DEF FindOrCreatePR, LoopCalls, FixCalls, context
  <2> QED BY <1>19, <2>1, PartsNext DEF FindOrCreatePR, TypeOK, Gitted
<1>20. CASE ValidateWorktree
  BY <1>20, CallPlaced, GitTyped, PartsNext DEF ValidateWorktree, LoopCalls, FixCalls, context
<1>21. CASE Checkout
  BY <1>21, CallPlaced, GitTyped, PartsNext DEF Checkout, LoopCalls, FixCalls, context
<1>22. CASE Implement
  BY <1>22, CallPlaced, MayChangeTyped, PartsNext DEF Implement, LoopCalls, FixCalls, context
<1>23. CASE FindSpec
  BY <1>23, CallPlaced, GitTyped, PartsNext DEF FindSpec, LoopCalls, FixCalls, context
<1>24. CASE FindChanges
  BY <1>24, CallPlaced, GitTyped, PartsNext DEF FindChanges, LoopCalls, FixCalls, context
<1>25. CASE Document
  BY <1>25, CallPlaced, MayChangeTyped, PartsNext DEF Document, LoopCalls, FixCalls, context
<1>26. CASE TrackKpis
  BY <1>26, CallPlaced, GitTyped, CommitTyped, MayChangeTyped, PartsNext
    DEF TrackKpis, LoopCalls, FixCalls, context
<1>27. CASE CheckComplete
  BY <1>27, CallPlaced, GitTyped, PartsNext DEF CheckComplete, LoopCalls, FixCalls, context
<1>28. CASE MergePR
  <2>1. Placed' /\ Looped' /\ Where' BY <1>28, CallPlaced DEF MergePR, LoopCalls, FixCalls, context
  <2> QED BY <1>28, <2>1, PartsNext DEF MergePR, TypeOK, Gitted
<1>29. CASE PatchClass
  <2>1. Placed' /\ Looped' /\ Where'
    BY <1>29, ProceedPlaced DEF PatchClass, TypeOK, Fields, LoopCalls, FixCalls, context
  <2> QED BY <1>29, <2>1, GitTyped, PartsNext DEF PatchClass
<1>30. CASE PatchRequest
  BY <1>30, CallPlaced, GitTyped, PartsNext DEF PatchRequest, LoopCalls, FixCalls, context
<1>31. CASE PatchPlan
  BY <1>31, CallPlaced, MayChangeTyped, PartsNext DEF PatchPlan, LoopCalls, FixCalls, context
<1>32. CASE PushFails
  <2>1. Here' = Here /\ Chain' = Chain BY <1>32, HereStays DEF PushFails, Goto, context
  <2>2. "push" \in ToSet(Calls(Here)) /\ Here \in Phases BY <1>32, Goes DEF PushFails, At, FixCalls
  <2>3. After("pull") = "close" /\ "close" \in ToSet(Calls(Here)) BY <2>2, AfterPull
  <2>4. Placed' BY <1>32, <2>1, <2>3 DEF PushFails, Goto, TypeOK, Placed, context, disk
  <2>5. Looped' /\ Gitted' BY <1>32 DEF PushFails, TypeOK, Looped, Gitted, context, loop
  <2>6. Where'
    BY <1>32, <2>1, <2>3 DEF PushFails, Where, Goto, At, context, loop, LoopCalls, FixCalls
  <2> QED BY <2>4, <2>5, <2>6, PartsNext
<1>33. CASE SkipDocument
  <2>1. Here' = Here /\ Chain' = Chain BY <1>33, HereStays DEF SkipDocument, Goto, context
  <2>2. Here = "document" BY <1>33, Goes, Owners DEF SkipDocument, At, FixCalls
  <2>4. Placed' BY <1>33, <2>1 DEF SkipDocument, Goto, TypeOK, Placed, context, disk
  <2>5. Looped' /\ Gitted' BY <1>33 DEF SkipDocument, TypeOK, Looped, Gitted, context, loop, git
  <2>6. Where'
    BY <1>33, <2>1, <2>2 DEF SkipDocument, Where, Goto, At, context, loop, LoopCalls, FixCalls
  <2> QED BY <2>4, <2>5, <2>6, PartsNext
<1>34. CASE Leave
  <2>1. Here' = Here /\ Chain' = Chain BY <1>34, HereStays DEF Leave
  <2>4. Placed' BY <1>34, <2>1 DEF Leave, TypeOK, Placed, disk
  <2>5. Looped' /\ Gitted' BY <1>34 DEF Leave, TypeOK, Looped, Gitted, loop, git
  <2>6. Where' BY <1>34, <2>1 DEF Leave, Where, At, loop, LoopCalls, FixCalls
  <2> QED BY <2>4, <2>5, <2>6, PartsNext
<1>35. CASE RetryCall
  <2>1. Here' = Here /\ Chain' = Chain BY <1>35, HereStays DEF RetryCall, context
  <2>4. Placed' BY <1>35, <2>1 DEF RetryCall, TypeOK, Placed, context, disk
  <2>5. Looped' BY <1>35 DEF RetryCall, TypeOK, Looped, context, loop
  <2>6. Where' BY <1>35, <2>1 DEF RetryCall, Where, context, loop
  <2> QED BY <1>35, <2>4, <2>5, <2>6, PartsNext, AgentLeavesTyped DEF RetryCall
<1>36. CASE RunUnit
  <2>1. Here' = Here /\ Chain' = Chain BY <1>36, HereStays DEF RunUnit, stay, Goto
  <2>2. Here = "test" BY <1>36, Goes, Owners DEF RunUnit, At, FixCalls
  <2>3. AfterUnit \in {"e2e", "issue"} /\ {"e2e", "issue"} \subseteq ToSet(Calls(Here))
    BY <2>2, AfterTest, CallsTest DEF AfterUnit
  <2>9. at' \in FixCalls \cup ToSet(Calls(Here)) /\ tries' = 0 /\ UNCHANGED <<phase, saving, stay>>
    BY <1>36, <2>3 DEF RunUnit, Goto, FixCalls
  <2>4. Placed' BY <2>9, GotoPlaced
  <2>5. Looped'
    <3>1. \E n \in 0 .. MaxFailing : unitFailed' \in {unitFailed, n} /\ left' \in {0, n}
      BY <1>36 DEF RunUnit
    <3>2. attempt' = 0 \/ (attempt' = attempt + 1 /\ attempt + 1 < MaxTestAttempts)
      BY <1>36 DEF RunUnit
    <3>3. tested' \in {tested, "passed", "failing", "unknown"} /\ fixed' = FALSE /\ UNCHANGED e2eFailed
      BY <1>36 DEF RunUnit, Said
    <3>4. attempt' \in 0 .. MaxTestAttempts - 1 BY <3>2 DEF TypeOK, MaxTestAttempts, MaxE2EAttempts
    <3>5. left' \in 0 .. MaxFailing /\ unitFailed' \in 0 .. MaxFailing /\ e2eFailed' \in 0 .. MaxFailing
      BY <3>1, <3>3 DEF TypeOK
    <3> QED BY <3>3, <3>4, <3>5 DEF TypeOK, Looped
  <2>6. Where' BY <1>36, <2>1, <2>2, <2>3 DEF RunUnit, Goto, At, Where, LoopCalls, FixCalls, TypeOK
  <2> QED BY <1>36, <2>4, <2>5, <2>6, PartsNext, MayChangeTyped DEF RunUnit
<1>37. CASE FixUnit
  <2>1. Here' = Here /\ Chain' = Chain BY <1>37, HereStays DEF FixUnit, FixLoop, stay, Goto
  <2>2. Here = "test" BY <1>37 DEF FixUnit, FixLoop, At, Where
  <2>3. AfterUnit \in {"e2e", "issue"} /\ {"unit", "e2e", "issue"} \subseteq ToSet(Calls(Here))
    BY <2>2, AfterTest, CallsTest DEF AfterUnit
  <2>9. at' \in FixCalls \cup ToSet(Calls(Here)) /\ tries' = 0 /\ UNCHANGED <<phase, saving, stay>>
    BY <1>37, <2>3 DEF FixUnit, FixLoop, Goto, FixCalls
  <2>4. Placed' BY <2>9, GotoPlaced
  <2>5. left > 0 BY <1>37 DEF FixUnit, FixLoop, At, Where, FixCalls
  <2>6. fixed' \in BOOLEAN BY <1>37 DEF FixUnit, FixLoop, TypeOK
  <2>7. Looped' BY <1>37, <2>5, <2>6 DEF FixUnit, FixLoop, TypeOK, Looped, MaxTestAttempts
  <2>8. Where'
    BY <1>37, <2>1, <2>2, <2>3, <2>5
      DEF FixUnit, FixLoop, Goto, At, Where, LoopCalls, FixCalls, TypeOK
  <2> QED BY <1>37, <2>4, <2>7, <2>8, PartsNext, MayChangeTyped DEF FixUnit, FixLoop
<1>38. CASE RunE2E
  <2>1. Here' = Here /\ Chain' = Chain BY <1>38, HereStays DEF RunE2E, stay, Goto
  <2>2. Here = "test" BY <1>38, Goes, Owners DEF RunE2E, At, FixCalls
  <2>3. After("e2e") = "issue" /\ "issue" \in ToSet(Calls(Here)) BY <2>2, AfterTest, CallsTest
  <2>9. at' \in FixCalls \cup ToSet(Calls(Here)) /\ tries' = 0 /\ UNCHANGED <<phase, saving, stay>>
    BY <1>38, <2>3 DEF RunE2E, Goto, FixCalls
  <2>4. Placed' BY <2>9, GotoPlaced
  <2>5. Looped'
    <3>1. \E n \in 0 .. MaxFailing : e2eFailed' \in {e2eFailed, n} /\ left' \in {0, n}
      BY <1>38 DEF RunE2E
    <3>2. attempt' = 0 \/ (attempt' = attempt + 1 /\ attempt + 1 < MaxE2EAttempts)
      BY <1>38 DEF RunE2E
    <3>3. tested' \in {tested, "passed", "failing", "unknown"} /\ fixed' = FALSE /\ UNCHANGED unitFailed
      BY <1>38 DEF RunE2E, Said
    <3>4. attempt' \in 0 .. MaxTestAttempts - 1 BY <3>2 DEF TypeOK, MaxTestAttempts, MaxE2EAttempts
    <3>5. left' \in 0 .. MaxFailing /\ unitFailed' \in 0 .. MaxFailing /\ e2eFailed' \in 0 .. MaxFailing
      BY <3>1, <3>3 DEF TypeOK
    <3> QED BY <3>3, <3>4, <3>5 DEF TypeOK, Looped
  <2>6. Where' BY <1>38, <2>1, <2>2, <2>3 DEF RunE2E, Goto, At, Where, LoopCalls, FixCalls, TypeOK
  <2> QED BY <1>38, <2>4, <2>5, <2>6, PartsNext, MayChangeTyped DEF RunE2E
<1>39. CASE FixE2E
  <2>1. Here' = Here /\ Chain' = Chain BY <1>39, HereStays DEF FixE2E, FixLoop, stay, Goto
  <2>2. Here = "test" BY <1>39 DEF FixE2E, FixLoop, At, Where
  <2>3. After("e2e") = "issue" /\ {"e2e", "issue"} \subseteq ToSet(Calls(Here))
    BY <2>2, AfterTest, CallsTest
  <2>9. at' \in FixCalls \cup ToSet(Calls(Here)) /\ tries' = 0 /\ UNCHANGED <<phase, saving, stay>>
    BY <1>39, <2>3 DEF FixE2E, FixLoop, Goto, FixCalls
  <2>4. Placed' BY <2>9, GotoPlaced
  <2>5. left > 0 BY <1>39 DEF FixE2E, FixLoop, At, Where, FixCalls
  <2>6. fixed' \in BOOLEAN BY <1>39 DEF FixE2E, FixLoop, TypeOK
  <2>7. Looped' BY <1>39, <2>5, <2>6 DEF FixE2E, FixLoop, TypeOK, Looped, MaxTestAttempts
  <2>8. Where'
    BY <1>39, <2>1, <2>2, <2>3, <2>5
      DEF FixE2E, FixLoop, Goto, At, Where, LoopCalls, FixCalls, TypeOK
  <2> QED BY <1>39, <2>4, <2>7, <2>8, PartsNext, MayChangeTyped DEF FixE2E, FixLoop
<1>40. CASE ReportTests
  <2>1. Here' = Here /\ Chain' = Chain BY <1>40, HereStays DEF ReportTests
  <2>4. Placed' BY <1>40, <2>1 DEF ReportTests, TypeOK, Placed, disk
  <2>5. Looped' /\ Gitted' BY <1>40 DEF ReportTests, TypeOK, Looped, Gitted, loop, git
  <2>6. Where' BY <1>40, <2>1 DEF ReportTests, Where, At, loop, LoopCalls, FixCalls
  <2> QED BY <2>4, <2>5, <2>6, PartsNext
<1>41. CASE RunReview
  <2>1. Here' = Here /\ Chain' = Chain BY <1>41, HereStays DEF RunReview, NextBlocker, stay, Goto
  <2>2. Here = "review" BY <1>41, Goes, Owners DEF RunReview, At, FixCalls
  <2>3. After("review") = "issue" /\ {"review", "issue"} \subseteq ToSet(Calls(Here))
    BY <2>2, AfterReview, CallsReview
  <2>9. at' \in FixCalls \cup ToSet(Calls(Here)) /\ tries' = 0 /\ UNCHANGED <<phase, saving, stay>>
    BY <1>41, <2>3 DEF RunReview, NextBlocker, Goto, FixCalls
  <2>4. Placed' BY <2>9, GotoPlaced
  <2>6. Looped'
    BY <1>41, <2>3
      DEF RunReview, NextBlocker, At, Where, Said, Reads, TypeOK, Looped, MaxTestAttempts,
          MaxReviewAttempts
  <2>7. Where' BY <1>41, <2>1, <2>2, <2>3, <2>3
   
      DEF RunReview, NextBlocker, Goto, At, Where, LoopCalls, FixCalls, TypeOK,
          MaxReviewAttempts, MaxTestAttempts
  <2> QED BY <1>41, <2>4, <2>6, <2>7, PartsNext, MayChangeTyped DEF RunReview
<1>42. CASE PlanBlockerFix
  <2>1. Here' = Here /\ Chain' = Chain
    BY <1>42, HereStays DEF PlanBlockerFix, NextBlocker, stay, Goto
  <2>2. Here = "review" BY <1>42 DEF PlanBlockerFix, At, Where
  <2>3. After("review") = "issue" /\ {"review", "issue"} \subseteq ToSet(Calls(Here))
    BY <2>2, AfterReview, CallsReview
  <2>9. at' \in FixCalls \cup ToSet(Calls(Here)) /\ tries' = 0 /\ UNCHANGED <<phase, saving, stay>>
    BY <1>42, <2>3 DEF PlanBlockerFix, NextBlocker, Goto, FixCalls
  <2>4. Placed' BY <2>9, GotoPlaced
  <2>5. left > 0 BY <1>42 DEF PlanBlockerFix, At, Where, FixCalls
  <2>6. Looped'
    BY <1>42, <2>5
      DEF PlanBlockerFix, NextBlocker, At, Where, Said, Reads, TypeOK, Looped, MaxTestAttempts,
          MaxReviewAttempts
  <2>7. Where' BY <1>42, <2>1, <2>2, <2>3, <2>5
   
      DEF PlanBlockerFix, NextBlocker, Goto, At, Where, LoopCalls, FixCalls, TypeOK,
          MaxReviewAttempts, MaxTestAttempts
  <2> QED BY <1>42, <2>4, <2>6, <2>7, PartsNext, MayChangeTyped DEF PlanBlockerFix
<1>43. CASE FixBlocker
  <2>1. Here' = Here /\ Chain' = Chain BY <1>43, HereStays DEF FixBlocker, NextBlocker, stay, Goto
  <2>2. Here = "review" BY <1>43 DEF FixBlocker, At, Where
  <2>3. After("review") = "issue" /\ {"review", "issue"} \subseteq ToSet(Calls(Here))
    BY <2>2, AfterReview, CallsReview
  <2>9. at' \in FixCalls \cup ToSet(Calls(Here)) /\ tries' = 0 /\ UNCHANGED <<phase, saving, stay>>
    BY <1>43, <2>3 DEF FixBlocker, NextBlocker, Goto, FixCalls
  <2>4. Placed' BY <2>9, GotoPlaced
  <2>5. left > 0 BY <1>43 DEF FixBlocker, At, Where, FixCalls
  <2>6. Looped'
    BY <1>43, <2>5
      DEF FixBlocker, NextBlocker, At, Where, Said, Reads, TypeOK, Looped, MaxTestAttempts,
          MaxReviewAttempts
  <2>7. Where' BY <1>43, <2>1, <2>2, <2>3, <2>5
   
      DEF FixBlocker, NextBlocker, Goto, At, Where, LoopCalls, FixCalls, TypeOK,
          MaxReviewAttempts, MaxTestAttempts
  <2> QED BY <1>43, <2>4, <2>6, <2>7, PartsNext, MayChangeTyped DEF FixBlocker
<1>44. CASE PhaseFails
  <2>1. Here' = Here /\ Chain' = Chain BY <1>44, HereStays DEF PhaseFails
  <2>4. Placed' BY <1>44, <2>1 DEF PhaseFails, TypeOK, Placed, disk
  <2>5. Gitted'
    <3>1. CASE UNCHANGED git BY <3>1, GitTyped
    <3>2. CASE AgentLeaves BY <3>2, AgentLeavesTyped
    <3>3. CASE pr' = "merged" /\ UNCHANGED <<dirty, ahead, differs, pushFailed>>
      BY <3>3 DEF TypeOK, Gitted
    <3> QED BY <1>44, <3>1, <3>2, <3>3 DEF PhaseFails
  <2>6. Looped' BY <1>44 DEF PhaseFails, TypeOK, Looped, MaxTestAttempts
  <2>7. Where' BY <1>44, <2>1 DEF PhaseFails, Where, LoopCalls, FixCalls
  <2> QED BY <2>4, <2>5, <2>6, <2>7, PartsNext
<1>45. CASE NextPhase
  <2>1. phase' \in 1 .. Len(Chain) /\ Chain' = Chain
    <3>1. Chain' = Chain BY <1>45 DEF NextPhase, Chain
    <3> QED BY <1>45, <3>1, ChainFacts DEF NextPhase, TypeOK
  <2>2. at' \in {"load", "exited"} BY <1>45 DEF NextPhase
  <2>3. Here' \in Phases BY <1>45, <2>1, ChainFacts DEF NextPhase, Here, TypeOK
  <2>4. "load" \in ToSet(Calls(Here')) BY <2>3, CallsOnce DEF ToSet
  <2>5. Placed' BY <1>45, <2>1, <2>2, <2>4 DEF NextPhase, TypeOK, Placed, disk
  <2>6. Looped' /\ Gitted' BY <1>45 DEF NextPhase, TypeOK, Looped, Gitted, loop, git
  <2>7. attempt = 0 /\ attempt' = attempt /\ saving' = saving /\ ~saving
    BY <1>45 DEF NextPhase, Where, loop, LoopCalls, FixCalls, SaveCalls
  <2>8. Where' BY <2>2, <2>7 DEF Where, FixCalls
  <2> QED BY <2>5, <2>6, <2>8, PartsNext
<1>46. CASE StopChain
  <2>1. Here' = Here /\ Chain' = Chain BY <1>46, HereStays DEF StopChain, process
  <2>2. Placed' BY <1>46, <2>1 DEF StopChain, TypeOK, Placed, process, disk
  <2>3. Looped' /\ Gitted' BY <1>46 DEF StopChain, TypeOK, Looped, Gitted, loop, git
  <2>4. Where' BY <1>46, <2>1 DEF StopChain, Where, process, loop
  <2> QED BY <2>2, <2>3, <2>4, PartsNext
<1>47. CASE Kill
  <2>1. Here' = Here /\ Chain' = Chain BY <1>47, HereStays DEF Kill, process
  <2>2. Placed' BY <1>47, <2>1 DEF Kill, TypeOK, Placed, process, disk
  <2>3. Looped' /\ Gitted' BY <1>47 DEF Kill, TypeOK, Looped, Gitted, loop, git
  <2>4. Where' BY <1>47, <2>1 DEF Kill, Where, process, loop
  <2> QED BY <2>2, <2>3, <2>4, PartsNext
<1>48. CASE UNCHANGED vars
  <2>1. Here' = Here /\ Chain' = Chain BY <1>48, HereStays DEF vars, process
  <2>2. Placed' BY <1>48, <2>1 DEF vars, TypeOK, Placed, process, disk
  <2>3. Looped' /\ Gitted' BY <1>48 DEF vars, TypeOK, Looped, Gitted, loop, git
  <2>4. Where' BY <1>48, <2>1 DEF vars, Where, process, loop
  <2> QED BY <2>2, <2>3, <2>4, PartsNext
<1> QED
  <2>1. LeadStep \/ Kill \/ UNCHANGED vars BY DEF Next
  <2>2. CASE PlanStep BY <2>2, <1>2, <1>3, <1>4, <1>5, <1>14, <1>15, <1>6 DEF PlanStep
  <2>3. CASE BuildStep BY <2>3, <1>20, <1>21, <1>22 DEF BuildStep
  <2>4. CASE TestStep BY <2>4, <1>36, <1>37, <1>38, <1>39, <1>40 DEF TestStep
  <2>5. CASE ReviewStep BY <2>5, <1>23, <1>41, <1>42, <1>43 DEF ReviewStep
  <2>6. CASE DocumentStep BY <2>6, <1>33, <1>24, <1>25, <1>26 DEF DocumentStep
  <2>7. CASE ShipStep BY <2>7, <1>27, <1>28 DEF ShipStep
  <2>8. CASE PatchStep BY <2>8, <1>29, <1>8, <1>9, <1>30, <1>31, <1>10 DEF PatchStep
  <2>9. CASE CommonStep
    BY <2>9, <1>12, <1>11, <1>13, <1>16, <1>17, <1>18, <1>32, <1>19, <1>7, <1>34, <1>35, <1>44
      DEF CommonStep
  <2> QED BY <2>1, <2>2, <2>3, <2>4, <2>5, <2>6, <2>7, <2>8, <2>9, <1>1, <1>45, <1>46, <1>47, <1>48
    DEF LeadStep

\* Every value has its type (TypeOK).
THEOREM TypeCorrect == Spec => []TypeOK
<1> HIDE DEF TypeOK, Where
<1> QED BY InitTypes, TypesStep, PTL DEF Spec

---------------------------------------------------------------------------
(* How the calls move the phase on.                                          *)

\* A call that only goes on to the next one.
LEMMA Proceeds ==
  ASSUME TypeOK, NEW c, Proceed(c), c \notin {"ensure", "leave", "exited"} \cup FixCalls
  PROVE  /\ at = c /\ at' = After(c) /\ c \in ToSet(Calls(Here)) /\ Here \in Phases
         /\ at' \notin {"ensure", "load", "exited"}
         /\ outcome = "running" /\ ~saving
         /\ UNCHANGED <<phase, saving, mem, file, saved>>
<1>1. at = c /\ at' = After(c) BY DEF Proceed, At, Goto
<1> QED BY <1>1, Goes DEF Proceed, At, Goto, Running, disk

\* A call of the test and review loops stays in the loop or ends it.
LEMMA Loops ==
  ASSUME TypeOK, Where,
         RunUnit \/ FixUnit \/ RunE2E \/ FixE2E \/ RunReview \/ PlanBlockerFix \/ FixBlocker
  PROVE  /\ Here \in {"test", "review"}
         /\ at \in LoopCalls /\ at' \in LoopCalls \cup {"issue"}
         /\ outcome = "running" /\ ~saving
         /\ UNCHANGED <<wf, phase, rc, saving, mem, file, saved, outcome>>
         /\ UNCHANGED <<ahead, differs, pushFailed, pr>>
<1>1. CASE RunUnit
  <2>1. Here = "test" BY <1>1, Goes, Owners DEF RunUnit, At, FixCalls
  <2>2. at \in LoopCalls /\ at' \in LoopCalls \cup {"issue"}
    BY <1>1, <2>1, AfterTest DEF RunUnit, At, Goto, AfterUnit, LoopCalls, FixCalls
  <2> QED BY <1>1, <2>1, <2>2 DEF RunUnit, At, Running, stay, Goto, MayChange, disk
<1>2. CASE FixUnit
  <2>1. Here = "test" BY <1>2 DEF FixUnit, FixLoop, At, Where
  <2>2. at \in LoopCalls /\ at' \in LoopCalls \cup {"issue"}
    BY <1>2, <2>1, AfterTest DEF FixUnit, FixLoop, At, Goto, AfterUnit, LoopCalls, FixCalls
  <2> QED BY <1>2, <2>1, <2>2 DEF FixUnit, FixLoop, At, Running, stay, Goto, MayChange, disk
<1>3. CASE RunE2E
  <2>1. Here = "test" BY <1>3, Goes, Owners DEF RunE2E, At, FixCalls
  <2>2. at \in LoopCalls /\ at' \in LoopCalls \cup {"issue"}
    BY <1>3, <2>1, AfterTest DEF RunE2E, At, Goto, AfterUnit, LoopCalls, FixCalls
  <2> QED BY <1>3, <2>1, <2>2 DEF RunE2E, At, Running, stay, Goto, MayChange, disk
<1>4. CASE FixE2E
  <2>1. Here = "test" BY <1>4 DEF FixE2E, FixLoop, At, Where
  <2>2. at \in LoopCalls /\ at' \in LoopCalls \cup {"issue"}
    BY <1>4, <2>1, AfterTest DEF FixE2E, FixLoop, At, Goto, AfterUnit, LoopCalls, FixCalls
  <2> QED BY <1>4, <2>1, <2>2 DEF FixE2E, FixLoop, At, Running, stay, Goto, MayChange, disk
<1>5. CASE RunReview
  <2>1. Here = "review" BY <1>5, Goes, Owners DEF RunReview, At, FixCalls
  <2>2. at \in LoopCalls /\ at' \in LoopCalls \cup {"issue"}
    BY <1>5, <2>1, AfterReview DEF RunReview, At, Goto, AfterUnit, LoopCalls, FixCalls
  <2> QED BY <1>5, <2>1, <2>2 DEF RunReview, At, Running, stay, Goto, MayChange, disk
<1>6. CASE PlanBlockerFix
  <2>1. Here = "review" BY <1>6 DEF PlanBlockerFix, NextBlocker, At, Where
  <2>2. at \in LoopCalls /\ at' \in LoopCalls \cup {"issue"}
    BY <1>6, <2>1, AfterReview
      DEF PlanBlockerFix, NextBlocker, At, Goto, AfterUnit, LoopCalls, FixCalls
  <2> QED BY <1>6, <2>1, <2>2
    DEF PlanBlockerFix, NextBlocker, At, Running, stay, Goto, MayChange, disk
<1>7. CASE FixBlocker
  <2>1. Here = "review" BY <1>7 DEF FixBlocker, NextBlocker, At, Where
  <2>2. at \in LoopCalls /\ at' \in LoopCalls \cup {"issue"}
    BY <1>7, <2>1, AfterReview DEF FixBlocker, NextBlocker, At, Goto, AfterUnit, LoopCalls, FixCalls
  <2> QED BY <1>7, <2>1, <2>2 DEF FixBlocker, NextBlocker, At, Running, stay, Goto, MayChange, disk
<1> QED BY <1>1, <1>2, <1>3, <1>4, <1>5, <1>6, <1>7

---------------------------------------------------------------------------
(* The state file.                                                           *)

\* The file is the last complete one or cannot be read, and a phase that has
\* loaded it has all its fields.
SavedInv ==
    /\ at = "ensure" => saved = {} /\ file = {} /\ (saving => mem = {"id"})
    /\ at # "ensure" => saved # {}
    /\ at \notin {"ensure", "load", "exited"} => saved \subseteq mem
    /\ file \in {{}, saved}

LEMMA InitSaved == Init => SavedInv
  BY DEF Init, SavedInv

LEMMA SavedKept ==
  ASSUME SavedInv, UNCHANGED <<saved>>, file' \in {file, {}}, at # "ensure", at' # "ensure",
         at' \in {"load", "exited"} \/ (at \notin {"load", "exited"} /\ mem \subseteq mem')
  PROVE  SavedInv'
  BY DEF SavedInv

LEMMA SavedProceeds ==
  ASSUME TypeOK, SavedInv, NEW c, Proceed(c),
         c \notin {"ensure", "load", "leave", "exited"} \cup FixCalls
  PROVE  SavedInv'
  BY Proceeds, SavedKept

LEMMA SavedStep == TypeOK /\ Where /\ SavedInv /\ [Next]_vars => SavedInv'
<1> SUFFICES ASSUME TypeOK, Where, SavedInv, [Next]_vars PROVE SavedInv' OBVIOUS
<1>1. CASE EnsureId BY <1>1 DEF EnsureId, SavedInv
<1>2. CASE ClaimPorts BY <1>2, SavedKept DEF ClaimPorts, SaveWith, At, Running
<1>3. CASE Classify BY <1>3, SavedKept DEF Classify, SaveWith, At, Running
<1>4. CASE NameBranch BY <1>4, SavedKept DEF NameBranch, SaveWith, At, Running
<1>5. CASE AddWorktree BY <1>5, SavedKept DEF AddWorktree, SaveWith, At, Running
<1>6. CASE FindPlan BY <1>6, SavedKept DEF FindPlan, SaveWith, At, Running
<1>7. CASE Close BY <1>7, SavedKept DEF Close, SaveWith, At, Running
<1>8. CASE PatchBranch BY <1>8, SavedKept DEF PatchBranch, SaveWith, At, Running
<1>9. CASE PatchWorktree BY <1>9, SavedKept DEF PatchWorktree, SaveWith, At, Running
<1>10. CASE PatchImplement BY <1>10, SavedKept DEF PatchImplement, SaveWith, At, Running
<1>11. CASE WriteState
  <2>1. at \in SaveCalls \ {"ensure"} BY <1>11 DEF WriteState, Running, Where
  <2>2. at' # "ensure" BY <1>11, <2>1, Goes DEF WriteState, SaveCalls, FixCalls
  <2>3. saved # {} /\ saved \subseteq mem BY <2>1 DEF SavedInv, SaveCalls
  <2>4. mem' = mem /\ saved' = mem /\ file' = mem BY <1>11 DEF WriteState
  <2> QED BY <2>2, <2>3, <2>4 DEF SavedInv
<1>12. CASE LoadState
  <2>1. at' # "ensure" BY <1>12, Goes DEF LoadState, Goto, FixCalls
  <2>2. file = saved /\ saved # {} /\ UNCHANGED disk /\ saved \subseteq mem'
    BY <1>12 DEF LoadState, SavedInv
  <2> QED BY <2>1, <2>2 DEF SavedInv, disk
<1>13. CASE FetchIssue BY <1>13, SavedProceeds DEF FetchIssue, FixCalls
<1>14. CASE InstallWorktree BY <1>14, SavedProceeds DEF InstallWorktree, FixCalls
<1>15. CASE WritePlan BY <1>15, SavedProceeds DEF WritePlan, FixCalls
<1>16. CASE CreateCommit BY <1>16, SavedProceeds DEF CreateCommit, FixCalls
<1>17. CASE CommitChanges BY <1>17, SavedProceeds DEF CommitChanges, FixCalls
<1>18. CASE PushBranch BY <1>18, SavedProceeds DEF PushBranch, FixCalls
<1>19. CASE FindOrCreatePR BY <1>19, SavedProceeds DEF FindOrCreatePR, FixCalls
<1>20. CASE ValidateWorktree BY <1>20, SavedProceeds DEF ValidateWorktree, FixCalls
<1>21. CASE Checkout BY <1>21, SavedProceeds DEF Checkout, FixCalls
<1>22. CASE Implement BY <1>22, SavedProceeds DEF Implement, FixCalls
<1>23. CASE FindSpec BY <1>23, SavedProceeds DEF FindSpec, FixCalls
<1>24. CASE FindChanges BY <1>24, SavedProceeds DEF FindChanges, FixCalls
<1>25. CASE Document BY <1>25, SavedProceeds DEF Document, FixCalls
<1>26. CASE TrackKpis BY <1>26, SavedProceeds DEF TrackKpis, FixCalls
<1>27. CASE CheckComplete BY <1>27, SavedProceeds DEF CheckComplete, FixCalls
<1>28. CASE MergePR BY <1>28, SavedProceeds DEF MergePR, FixCalls
<1>29. CASE PatchClass
  <2>1. at' # "ensure" BY <1>29, Goes DEF PatchClass, Goto, At, FixCalls
  <2> QED BY <1>29, <2>1, SavedKept DEF PatchClass, Goto, At, Running, disk
<1>30. CASE PatchRequest BY <1>30, SavedProceeds DEF PatchRequest, FixCalls
<1>31. CASE PatchPlan BY <1>31, SavedProceeds DEF PatchPlan, FixCalls
<1>32. CASE PushFails
  <2>1. at' # "ensure" BY <1>32, AfterPull, Goes DEF PushFails, Goto, At, FixCalls
  <2> QED BY <1>32, <2>1, SavedKept DEF PushFails, Goto, At, Running, disk
<1>33. CASE SkipDocument BY <1>33, SavedKept DEF SkipDocument, At, Running, Goto, disk, process
<1>34. CASE Leave BY <1>34, SavedKept DEF Leave, At, Running, Goto, disk, process
<1>35. CASE RetryCall BY <1>35, SavedKept DEF RetryCall, Running, AgentCalls, disk
<1>36. CASE RunUnit BY <1>36, Loops, SavedKept DEF LoopCalls, FixCalls
<1>37. CASE FixUnit BY <1>37, Loops, SavedKept DEF LoopCalls, FixCalls
<1>38. CASE RunE2E BY <1>38, Loops, SavedKept DEF LoopCalls, FixCalls
<1>39. CASE FixE2E BY <1>39, Loops, SavedKept DEF LoopCalls, FixCalls
<1>40. CASE ReportTests BY <1>40, SavedKept DEF ReportTests, At, Running, Goto, disk, process
<1>41. CASE RunReview BY <1>41, Loops, SavedKept DEF LoopCalls, FixCalls
<1>42. CASE PlanBlockerFix BY <1>42, Loops, SavedKept DEF LoopCalls, FixCalls
<1>43. CASE FixBlocker BY <1>43, Loops, SavedKept DEF LoopCalls, FixCalls
<1>44. CASE PhaseFails BY <1>44, SavedKept DEF PhaseFails, At, Running, Goto, disk, process
<1>45. CASE NextPhase
  <2>1. at' \in {"load", "exited"} /\ UNCHANGED disk /\ at = "exited" BY <1>45 DEF NextPhase
  <2> QED BY <2>1, SavedKept DEF disk
<1>46. CASE StopChain BY <1>46 DEF StopChain, SavedInv, process, disk
<1>47. CASE Kill BY <1>47 DEF Kill, SavedInv, process, disk
<1>48. CASE UNCHANGED vars BY <1>48 DEF vars, SavedInv, process, disk
<1> QED
  <2>1. LeadStep \/ Kill \/ UNCHANGED vars BY DEF Next
  <2>2. CASE PlanStep BY <2>2, <1>2, <1>3, <1>4, <1>5, <1>14, <1>15, <1>6 DEF PlanStep
  <2>3. CASE BuildStep BY <2>3, <1>20, <1>21, <1>22 DEF BuildStep
  <2>4. CASE TestStep BY <2>4, <1>36, <1>37, <1>38, <1>39, <1>40 DEF TestStep
  <2>5. CASE ReviewStep BY <2>5, <1>23, <1>41, <1>42, <1>43 DEF ReviewStep
  <2>6. CASE DocumentStep BY <2>6, <1>33, <1>24, <1>25, <1>26 DEF DocumentStep
  <2>7. CASE ShipStep BY <2>7, <1>27, <1>28 DEF ShipStep
  <2>8. CASE PatchStep BY <2>8, <1>29, <1>8, <1>9, <1>30, <1>31, <1>10 DEF PatchStep
  <2>9. CASE CommonStep
    BY <2>9, <1>12, <1>11, <1>13, <1>16, <1>17, <1>18, <1>32, <1>19, <1>7, <1>34, <1>35, <1>44
      DEF CommonStep
  <2> QED BY <2>1, <2>2, <2>3, <2>4, <2>5, <2>6, <2>7, <2>8, <2>9, <1>1, <1>45, <1>46, <1>47, <1>48
    DEF LeadStep

\* A step that completes the state file.
Completes ==
    /\ outcome = "running" /\ outcome' = "running"
    /\ saved \subseteq saved' /\ saved' # {}
    /\ saved = {} => saved' = {"id"}

\* All a step can do to the file and to the Lead as a process.
LEMMA Shape ==
  ASSUME TypeOK, Where, SavedInv, [Next]_vars
  PROVE  \/ outcome = "running" /\ UNCHANGED <<outcome, saved>>
         \/ Completes
         \/ outcome = "running" /\ outcome' # "running" /\ UNCHANGED disk
         \/ UNCHANGED <<outcome, disk>>
<1>1. CASE EnsureId BY <1>1 DEF EnsureId, SavedInv, Completes
<1>2. CASE ClaimPorts
  BY <1>2 DEF ClaimPorts, SaveWith, FixLoop, stay, Proceed, At, Running, context, disk
<1>3. CASE Classify
  BY <1>3 DEF Classify, SaveWith, FixLoop, stay, Proceed, At, Running, context, disk
<1>4. CASE NameBranch
  BY <1>4 DEF NameBranch, SaveWith, FixLoop, stay, Proceed, At, Running, context, disk
<1>5. CASE AddWorktree
  BY <1>5 DEF AddWorktree, SaveWith, FixLoop, stay, Proceed, At, Running, context, disk
<1>6. CASE FindPlan
  BY <1>6 DEF FindPlan, SaveWith, FixLoop, stay, Proceed, At, Running, context, disk
<1>7. CASE Close BY <1>7 DEF Close, SaveWith, FixLoop, stay, Proceed, At, Running, context, disk
<1>8. CASE PatchBranch
  BY <1>8 DEF PatchBranch, SaveWith, FixLoop, stay, Proceed, At, Running, context, disk
<1>9. CASE PatchWorktree
  BY <1>9 DEF PatchWorktree, SaveWith, FixLoop, stay, Proceed, At, Running, context, disk
<1>10. CASE PatchImplement
  BY <1>10 DEF PatchImplement, SaveWith, FixLoop, stay, Proceed, At, Running, context, disk
<1>11. CASE WriteState BY <1>11 DEF WriteState, Running, Where, SaveCalls, SavedInv, Completes
<1>12. CASE LoadState
  BY <1>12 DEF LoadState, SaveWith, FixLoop, stay, Proceed, At, Running, context, disk
<1>13. CASE FetchIssue
  BY <1>13 DEF FetchIssue, SaveWith, FixLoop, stay, Proceed, At, Running, context, disk
<1>14. CASE InstallWorktree
  BY <1>14 DEF InstallWorktree, SaveWith, FixLoop, stay, Proceed, At, Running, context, disk
<1>15. CASE WritePlan
  BY <1>15 DEF WritePlan, SaveWith, FixLoop, stay, Proceed, At, Running, context, disk
<1>16. CASE CreateCommit
  BY <1>16 DEF CreateCommit, SaveWith, FixLoop, stay, Proceed, At, Running, context, disk
<1>17. CASE CommitChanges
  BY <1>17 DEF CommitChanges, SaveWith, FixLoop, stay, Proceed, At, Running, context, disk
<1>18. CASE PushBranch
  BY <1>18 DEF PushBranch, SaveWith, FixLoop, stay, Proceed, At, Running, context, disk
<1>19. CASE FindOrCreatePR
  BY <1>19 DEF FindOrCreatePR, SaveWith, FixLoop, stay, Proceed, At, Running, context, disk
<1>20. CASE ValidateWorktree
  BY <1>20 DEF ValidateWorktree, SaveWith, FixLoop, stay, Proceed, At, Running, context, disk
<1>21. CASE Checkout
  BY <1>21 DEF Checkout, SaveWith, FixLoop, stay, Proceed, At, Running, context, disk
<1>22. CASE Implement
  BY <1>22 DEF Implement, SaveWith, FixLoop, stay, Proceed, At, Running, context, disk
<1>23. CASE FindSpec
  BY <1>23 DEF FindSpec, SaveWith, FixLoop, stay, Proceed, At, Running, context, disk
<1>24. CASE FindChanges
  BY <1>24 DEF FindChanges, SaveWith, FixLoop, stay, Proceed, At, Running, context, disk
<1>25. CASE Document
  BY <1>25 DEF Document, SaveWith, FixLoop, stay, Proceed, At, Running, context, disk
<1>26. CASE TrackKpis
  BY <1>26 DEF TrackKpis, SaveWith, FixLoop, stay, Proceed, At, Running, context, disk
<1>27. CASE CheckComplete
  BY <1>27 DEF CheckComplete, SaveWith, FixLoop, stay, Proceed, At, Running, context, disk
<1>28. CASE MergePR
  BY <1>28 DEF MergePR, SaveWith, FixLoop, stay, Proceed, At, Running, context, disk
<1>29. CASE PatchClass
  BY <1>29 DEF PatchClass, SaveWith, FixLoop, stay, Proceed, At, Running, context, disk
<1>30. CASE PatchRequest
  BY <1>30 DEF PatchRequest, SaveWith, FixLoop, stay, Proceed, At, Running, context, disk
<1>31. CASE PatchPlan
  BY <1>31 DEF PatchPlan, SaveWith, FixLoop, stay, Proceed, At, Running, context, disk
<1>32. CASE PushFails
  BY <1>32 DEF PushFails, SaveWith, FixLoop, stay, Proceed, At, Running, context, disk
<1>33. CASE SkipDocument
  BY <1>33 DEF SkipDocument, SaveWith, FixLoop, stay, Proceed, At, Running, context, disk
<1>34. CASE Leave BY <1>34 DEF Leave, SaveWith, FixLoop, stay, Proceed, At, Running, context, disk
<1>35. CASE RetryCall
  BY <1>35 DEF RetryCall, SaveWith, FixLoop, stay, Proceed, At, Running, context, disk
<1>36. CASE RunUnit
  BY <1>36 DEF RunUnit, SaveWith, FixLoop, stay, Proceed, At, Running, context, disk
<1>37. CASE FixUnit
  BY <1>37 DEF FixUnit, SaveWith, FixLoop, stay, Proceed, At, Running, context, disk
<1>38. CASE RunE2E BY <1>38 DEF RunE2E, SaveWith, FixLoop, stay, Proceed, At, Running, context, disk
<1>39. CASE FixE2E BY <1>39 DEF FixE2E, SaveWith, FixLoop, stay, Proceed, At, Running, context, disk
<1>40. CASE ReportTests
  BY <1>40 DEF ReportTests, SaveWith, FixLoop, stay, Proceed, At, Running, context, disk
<1>41. CASE RunReview
  BY <1>41 DEF RunReview, SaveWith, FixLoop, stay, Proceed, At, Running, context, disk
<1>42. CASE PlanBlockerFix
  BY <1>42 DEF PlanBlockerFix, SaveWith, FixLoop, stay, Proceed, At, Running, context, disk
<1>43. CASE FixBlocker
  BY <1>43 DEF FixBlocker, SaveWith, FixLoop, stay, Proceed, At, Running, context, disk
<1>44. CASE PhaseFails
  BY <1>44 DEF PhaseFails, SaveWith, FixLoop, stay, Proceed, At, Running, context, disk
<1>45. CASE NextPhase BY <1>45 DEF NextPhase, disk
<1>46. CASE StopChain BY <1>46 DEF StopChain
<1>47. CASE Kill BY <1>47 DEF Kill
<1>48. CASE UNCHANGED vars BY <1>48 DEF vars, disk
<1> QED
  <2>1. LeadStep \/ Kill \/ UNCHANGED vars BY DEF Next
  <2>2. CASE PlanStep BY <2>2, <1>2, <1>3, <1>4, <1>5, <1>14, <1>15, <1>6 DEF PlanStep
  <2>3. CASE BuildStep BY <2>3, <1>20, <1>21, <1>22 DEF BuildStep
  <2>4. CASE TestStep BY <2>4, <1>36, <1>37, <1>38, <1>39, <1>40 DEF TestStep
  <2>5. CASE ReviewStep BY <2>5, <1>23, <1>41, <1>42, <1>43 DEF ReviewStep
  <2>6. CASE DocumentStep BY <2>6, <1>33, <1>24, <1>25, <1>26 DEF DocumentStep
  <2>7. CASE ShipStep BY <2>7, <1>27, <1>28 DEF ShipStep
  <2>8. CASE PatchStep BY <2>8, <1>29, <1>8, <1>9, <1>30, <1>31, <1>10 DEF PatchStep
  <2>9. CASE CommonStep
    BY <2>9, <1>12, <1>11, <1>13, <1>16, <1>17, <1>18, <1>32, <1>19, <1>7, <1>34, <1>35, <1>44
      DEF CommonStep
  <2> QED BY <2>1, <2>2, <2>3, <2>4, <2>5, <2>6, <2>7, <2>8, <2>9, <1>1, <1>45, <1>46, <1>47, <1>48
    DEF LeadStep

LEMMA SavedHolds == Spec => [](TypeOK /\ Where /\ SavedInv)
<1> HIDE DEF TypeOK, Where, SavedInv
<1> QED BY InitTypes, TypesStep, InitSaved, SavedStep, PTL DEF Spec

\* No complete state file ever lacks a field that an earlier one had
\* (StateNeverShrinks).
THEOREM StateNeverShrinksHolds == Spec => StateNeverShrinks
<1>1. TypeOK /\ Where /\ SavedInv /\ [Next]_vars => [saved \subseteq saved']_saved
  BY Shape DEF Completes, disk
<1> HIDE DEF TypeOK, Where, SavedInv
<1> QED BY <1>1, SavedHolds, PTL DEF Spec, StateNeverShrinks

\* The chain is a Lead as the dispatcher models it: its state file only gets
\* further while it runs, one level at a time, and its end leaves the file as
\* it was or unreadable (ImplementsOutline).
THEOREM ImplementsLeadOutline == Spec => ImplementsOutline
<1> DEFINE Prog(fields) == CASE fields = {}                        -> "none"
                             [] {"plan", "adws"} \subseteq fields  -> "planned"
                             [] OTHER                              -> "started"
           progress == LET fields == IF outcome = "running" THEN saved ELSE file
                       IN  Prog(fields)
           alive == outcome = "running"
<1>1. Init => Outline!Init BY DEF Init, Outline!Init
<1>2. ASSUME TypeOK, Where, SavedInv, [Next]_vars
      PROVE  [Outline!Saves \/ Outline!Exits]_(Outline!vars)
  <2>1. progress = Prog(IF alive THEN saved ELSE file)
        /\ progress' = Prog(IF alive' THEN saved' ELSE file')
    OBVIOUS
  <2>2. CASE outcome = "running" /\ UNCHANGED <<outcome, saved>>
    BY <2>1, <2>2 DEF Outline!vars
  <2>3. CASE Completes
    <3>1. alive /\ alive' BY <2>3 DEF Completes
    <3>2. saved = {} => Prog(saved) = "none" /\ Prog(saved') = "started"
      BY <2>3 DEF Completes
    <3>3. saved # {} => Prog(saved) \in {"started", "planned"} /\ Prog(saved') \in {Prog(saved), "planned"}
      BY <2>3 DEF Completes
    <3> QED BY <2>1, <3>1, <3>2, <3>3 DEF Outline!Saves, Outline!vars
  <2>4. CASE outcome = "running" /\ outcome' # "running" /\ UNCHANGED disk
    <3>1. file' = file /\ file \in {{}, saved} /\ Prog({}) = "none" BY <1>2, <2>4 DEF disk, SavedInv
    <3>2. file' = {} \/ file' = saved BY <3>1
    <3>3. Prog(file') \in {Prog(saved), "none"} BY <3>1, <3>2
    <3>4. progress = Prog(saved) /\ progress' = Prog(file') BY <2>1, <2>4
    <3> QED BY <2>4, <3>3, <3>4 DEF Outline!Exits
  <2>5. CASE UNCHANGED <<outcome, disk>> BY <2>1, <2>5 DEF disk, Outline!vars
  <2> QED BY <1>2, <2>2, <2>3, <2>4, <2>5, Shape
<1> HIDE DEF TypeOK, Where, SavedInv
<1> QED BY <1>1, <1>2, SavedHolds, PTL DEF Spec, ImplementsOutline, Outline!Spec

\* A chain that has ended is judged by its file as LeadOutline judges the Lead it
\* implements (orchestrator/dispatcher.py:1069-1092).
LEMMA VerdictIsOutlines ==
  ASSUME outcome # "running"
  PROVE  Verdict = Outline!Verdict
<1>1. CASE file = {} BY <1>1 DEF Verdict, Outline!Verdict
<1>2. CASE file # {} /\ {"plan", "adws"} \subseteq file
  BY <1>2 DEF Verdict, Outline!Verdict
<1>3. CASE file # {} /\ ~({"plan", "adws"} \subseteq file)
  BY <1>3 DEF Verdict, Outline!Verdict
<1> QED BY <1>1, <1>2, <1>3

---------------------------------------------------------------------------
(* The gates between the phases.                                             *)

\* The phases before the running one ended well or may fail, those after it
\* have not started, and the test phase never ends well on a failing suite.
GateInv ==
    /\ \A q \in 1 .. Len(Chain) : q < phase => rc[Chain[q]] = "ok" \/ Tolerated(Chain[q])
    /\ \A q \in 1 .. Len(Chain) : q > phase => rc[Chain[q]] = "none"
    /\ at # "exited" <=> rc[Here] = "none"
    /\ tested = "failing" => unitFailed > 0
    /\ rc["test"] = "ok" => tested # "failing"
    /\ pr = "merged" => Here = "ship"

LEMMA InitGate == Init => GateInv
<1> SUFFICES ASSUME Init PROVE GateInv OBVIOUS
<1>1. \A p \in Phases : rc[p] = "none" BY DEF Init
<1>2. Here \in Phases /\ "test" \in Phases BY InitTypes, HereIn DEF Phases
<1>3. phase = 1 /\ at = "ensure" /\ tested = "none" /\ pr = "none" BY DEF Init
<1> QED BY <1>1, <1>2, <1>3, InitTypes, ChainFacts DEF GateInv, TypeOK

LEMMA GateKept ==
  ASSUME GateInv, UNCHANGED <<wf, phase, rc>>, at # "exited" <=> at' # "exited",
         UNCHANGED <<tested, unitFailed>> \/ rc["test"] = "none",
         tested' = "failing" => unitFailed' > 0, pr' \in {pr, "open"} \/ Here = "ship"
  PROVE  GateInv'
<1>1. Here' = Here /\ Chain' = Chain BY HereStays
<1>2. \A p \in Phases : Tolerated(p)' = Tolerated(p) BY DEF Tolerated
<1>3. \A q : Tolerated(Chain[q])' = Tolerated(Chain[q]) BY <1>1 DEF Tolerated
<1> QED BY <1>1, <1>3 DEF GateInv

\* The running phase ends with exit code x.
LEMMA GateExits ==
  ASSUME TypeOK, GateInv, NEW x \in {"ok", "failed"}, at' = "exited",
         rc' = [rc EXCEPT ![Here] = x], UNCHANGED <<wf, phase, tested, unitFailed>>,
         Here = "test" /\ x = "ok" => tested # "failing",
         pr' \in {pr, "open"} \/ Here = "ship"
  PROVE  GateInv'
<1>1. Here' = Here /\ Chain' = Chain BY HereStays
<1>2. \A q : Tolerated(Chain[q])' = Tolerated(Chain[q]) BY <1>1 DEF Tolerated
<1>3. Here \in Phases /\ phase \in 1 .. Len(Chain) BY HereIn DEF TypeOK
<1>4. rc'[Here] = x /\ \A p \in Phases \ {Here} : rc'[p] = rc[p] BY <1>3 DEF TypeOK
<1>5. \A q \in 1 .. Len(Chain) : Chain[q] \in Phases /\ (q # phase => Chain[q] # Here)
  BY <1>3, ChainFacts DEF TypeOK, Here
<1>6. \A q \in 1 .. Len(Chain) : q # phase => rc'[Chain[q]] = rc[Chain[q]] BY <1>4, <1>5
<1>7. \A q \in 1 .. Len(Chain) :
        /\ q < phase => rc'[Chain[q]] = "ok" \/ Tolerated(Chain[q])
        /\ q > phase => rc'[Chain[q]] = "none"
  BY <1>3, <1>6, ChainFacts DEF GateInv, TypeOK
<1>8. rc'["test"] = "ok" => tested # "failing"
  BY <1>4 DEF GateInv, Phases
<1> QED BY <1>1, <1>2, <1>4, <1>7, <1>8 DEF GateInv

LEMMA GateProceeds ==
  ASSUME TypeOK, GateInv, NEW c, Proceed(c), c \notin {"ensure", "leave", "exited"} \cup FixCalls,
         UNCHANGED context, pr' \in {pr, "open"} \/ Here = "ship"
  PROVE  GateInv'
  BY Proceeds, GateKept DEF context, loop, GateInv

LEMMA GateStep == TypeOK /\ Where /\ GateInv /\ [Next]_vars => GateInv'
<1> SUFFICES ASSUME TypeOK, Where, GateInv, [Next]_vars PROVE GateInv' OBVIOUS
<1>1. CASE EnsureId BY <1>1, GateKept DEF EnsureId, GateInv, loop, git
<1>2. CASE ClaimPorts
  BY <1>2, GateKept DEF ClaimPorts, SaveWith, At, Running, context, loop, git, GateInv, MayChange
<1>3. CASE Classify
  BY <1>3, GateKept DEF Classify, SaveWith, At, Running, context, loop, git, GateInv, MayChange
<1>4. CASE NameBranch
  BY <1>4, GateKept DEF NameBranch, SaveWith, At, Running, context, loop, git, GateInv, MayChange
<1>5. CASE AddWorktree
  BY <1>5, GateKept DEF AddWorktree, SaveWith, At, Running, context, loop, git, GateInv, MayChange
<1>6. CASE FindPlan
  BY <1>6, GateKept DEF FindPlan, SaveWith, At, Running, context, loop, git, GateInv, MayChange
<1>7. CASE Close
  BY <1>7, GateKept DEF Close, SaveWith, At, Running, context, loop, git, GateInv, MayChange
<1>8. CASE PatchBranch
  BY <1>8, GateKept DEF PatchBranch, SaveWith, At, Running, context, loop, git, GateInv, MayChange
<1>9. CASE PatchWorktree
  BY <1>9, GateKept DEF PatchWorktree, SaveWith, At, Running, context, loop, git, GateInv, MayChange
<1>10. CASE PatchImplement
  BY <1>10, GateKept
    DEF PatchImplement, SaveWith, At, Running, context, loop, git, GateInv, MayChange
<1>11. CASE WriteState
  <2>1. at \in SaveCalls \ {"ensure"} BY <1>11 DEF WriteState, Running, Where
  <2>2. at' # "exited" BY <1>11, <2>1, Goes DEF WriteState, SaveCalls, FixCalls
  <2> QED BY <1>11, <2>2, GateKept DEF WriteState, Running, loop, git, GateInv
<1>12. CASE LoadState
  <2>1. at' # "exited" BY <1>12, Goes DEF LoadState, Goto, FixCalls
  <2> QED BY <1>12, <2>1, GateKept DEF LoadState, Goto, Running, loop, git, GateInv
<1>13. CASE FetchIssue
  BY <1>13, GateProceeds DEF FetchIssue, context, git, MayChange, CommitAll, FixCalls
<1>14. CASE InstallWorktree
  BY <1>14, GateProceeds DEF InstallWorktree, context, git, MayChange, CommitAll, FixCalls
<1>15. CASE WritePlan
  BY <1>15, GateProceeds DEF WritePlan, context, git, MayChange, CommitAll, FixCalls
<1>16. CASE CreateCommit
  BY <1>16, GateProceeds DEF CreateCommit, context, git, MayChange, CommitAll, FixCalls
<1>17. CASE CommitChanges
  BY <1>17, GateProceeds DEF CommitChanges, context, git, MayChange, CommitAll, FixCalls
<1>18. CASE PushBranch
  BY <1>18, GateProceeds DEF PushBranch, context, git, MayChange, CommitAll, FixCalls
<1>19. CASE FindOrCreatePR
  BY <1>19, GateProceeds DEF FindOrCreatePR, context, git, MayChange, CommitAll, FixCalls
<1>20. CASE ValidateWorktree
  BY <1>20, GateProceeds DEF ValidateWorktree, context, git, MayChange, CommitAll, FixCalls
<1>21. CASE Checkout
  BY <1>21, GateProceeds DEF Checkout, context, git, MayChange, CommitAll, FixCalls
<1>22. CASE Implement
  BY <1>22, GateProceeds DEF Implement, context, git, MayChange, CommitAll, FixCalls
<1>23. CASE FindSpec
  BY <1>23, GateProceeds DEF FindSpec, context, git, MayChange, CommitAll, FixCalls
<1>24. CASE FindChanges
  BY <1>24, GateProceeds DEF FindChanges, context, git, MayChange, CommitAll, FixCalls
<1>25. CASE Document
  BY <1>25, GateProceeds DEF Document, context, git, MayChange, CommitAll, FixCalls
<1>26. CASE TrackKpis
  BY <1>26, GateProceeds DEF TrackKpis, context, git, MayChange, CommitAll, FixCalls
<1>27. CASE CheckComplete
  BY <1>27, GateProceeds DEF CheckComplete, context, git, MayChange, CommitAll, FixCalls
<1>28. CASE MergePR
  <2>1. Here = "ship" BY <1>28, Proceeds, Owners DEF MergePR, FixCalls
  <2> QED BY <1>28, <2>1, GateProceeds DEF MergePR, context, FixCalls
<1>29. CASE PatchClass
  <2>1. at' # "exited" BY <1>29, Goes DEF PatchClass, Goto, At, FixCalls
  <2> QED BY <1>29, <2>1, GateKept DEF PatchClass, Goto, At, context, loop, git, GateInv
<1>30. CASE PatchRequest
  BY <1>30, GateProceeds DEF PatchRequest, context, git, MayChange, CommitAll, FixCalls
<1>31. CASE PatchPlan
  BY <1>31, GateProceeds DEF PatchPlan, context, git, MayChange, CommitAll, FixCalls
<1>32. CASE PushFails
  <2>1. at' # "exited" BY <1>32, AfterPull, Goes DEF PushFails, Goto, At, FixCalls
  <2> QED BY <1>32, <2>1, GateKept DEF PushFails, Goto, At, Running, context, loop, GateInv
<1>33. CASE SkipDocument
  BY <1>33, GateKept DEF SkipDocument, Goto, At, Running, context, loop, git, GateInv
<1>34. CASE Leave BY <1>34, GateExits DEF Leave, At, Where, loop, git
<1>35. CASE RetryCall
  <2>1. pr' \in {pr, "open"} BY <1>35 DEF RetryCall, AgentLeaves, MayChange, CommitAll
  <2> QED BY <1>35, <2>1, GateKept DEF RetryCall, Running, context, loop, GateInv
<1>36. CASE RunUnit
  <2>1. Here = "test" BY <1>36, Goes, Owners DEF RunUnit, At, FixCalls
  <2>2. tested' = "failing" => unitFailed' > 0 BY <1>36 DEF RunUnit, Said, Reads, GateInv, TypeOK
  <2>3. rc["test"] = "none" BY <1>36, <2>1 DEF RunUnit, At, GateInv
  <2> QED BY <1>36, <2>2, <2>3, Loops, GateKept DEF LoopCalls, FixCalls
<1>37. CASE FixUnit BY <1>37, Loops, GateKept DEF FixUnit, FixLoop, LoopCalls, FixCalls, GateInv
<1>38. CASE RunE2E BY <1>38, Loops, GateKept DEF RunE2E, FixLoop, LoopCalls, FixCalls, GateInv
<1>39. CASE FixE2E BY <1>39, Loops, GateKept DEF FixE2E, FixLoop, LoopCalls, FixCalls, GateInv
<1>40. CASE ReportTests
  <2>1. unitFailed + e2eFailed = 0 => unitFailed = 0 BY DEF TypeOK
  <2>2. unitFailed + e2eFailed > 0 \/ unitFailed + e2eFailed = 0 BY DEF TypeOK
  <2>3. unitFailed = 0 => tested # "failing" BY DEF GateInv
  <2> QED BY <1>40, <2>1, <2>2, <2>3, GateExits DEF ReportTests, loop, git
<1>41. CASE RunReview BY <1>41, Loops, GateKept DEF RunReview, FixLoop, LoopCalls, FixCalls, GateInv
<1>42. CASE PlanBlockerFix
  BY <1>42, Loops, GateKept DEF PlanBlockerFix, FixLoop, LoopCalls, FixCalls, GateInv
<1>43. CASE FixBlocker
  BY <1>43, Loops, GateKept DEF FixBlocker, FixLoop, LoopCalls, FixCalls, GateInv
<1>44. CASE PhaseFails
  <2>1. at = "merge" => Here = "ship" BY Goes, Owners DEF FixCalls
  <2>2. pr' \in {pr, "open"} \/ at = "merge"
    BY <1>44 DEF PhaseFails, AgentLeaves, MayChange, CommitAll, git
  <2> QED BY <1>44, <2>1, <2>2, GateExits DEF PhaseFails
<1>45. CASE NextPhase
  <2>1. Chain' = Chain /\ UNCHANGED <<rc, wf, tested, unitFailed, pr>>
    BY <1>45 DEF NextPhase, Chain, loop, git
  <2>2. \A q : Tolerated(Chain[q])' = Tolerated(Chain[q]) BY <2>1 DEF Tolerated
  <2>3. CASE phase < Len(Chain)
    <3>1. phase' = phase + 1 /\ at' = "load" BY <1>45, <2>3 DEF NextPhase
    <3>2. rc[Chain[phase]] = "ok" \/ Tolerated(Chain[phase]) BY <1>45 DEF NextPhase, Here
    <3>3. rc[Chain[phase + 1]] = "none" BY <2>3, ChainFacts DEF GateInv, TypeOK
    <3>4. Here # "ship"
      BY <2>3, ChainFacts DEF TypeOK, Here, Shipping
    <3>5. \A q \in 1 .. Len(Chain) :
            /\ q < phase + 1 => rc[Chain[q]] = "ok" \/ Tolerated(Chain[q])
            /\ q > phase + 1 => rc[Chain[q]] = "none"
      BY <3>2, ChainFacts DEF GateInv, TypeOK
    <3>6. rc'[Here'] = "none" BY <2>1, <3>1, <3>3 DEF Here
    <3> QED BY <2>1, <2>2, <3>1, <3>4, <3>5, <3>6 DEF GateInv
  <2>4. CASE ~(phase < Len(Chain)) BY <1>45, <2>1, <2>4, GateKept DEF NextPhase, GateInv
  <2> QED BY <2>3, <2>4
<1>46. CASE StopChain BY <1>46, GateKept DEF StopChain, GateInv, process, loop, git
<1>47. CASE Kill BY <1>47, GateKept DEF Kill, GateInv, process, loop, git
<1>48. CASE UNCHANGED vars BY <1>48, GateKept DEF vars, GateInv, process, loop, git
<1> QED
  <2>1. LeadStep \/ Kill \/ UNCHANGED vars BY DEF Next
  <2>2. CASE PlanStep BY <2>2, <1>2, <1>3, <1>4, <1>5, <1>14, <1>15, <1>6 DEF PlanStep
  <2>3. CASE BuildStep BY <2>3, <1>20, <1>21, <1>22 DEF BuildStep
  <2>4. CASE TestStep BY <2>4, <1>36, <1>37, <1>38, <1>39, <1>40 DEF TestStep
  <2>5. CASE ReviewStep BY <2>5, <1>23, <1>41, <1>42, <1>43 DEF ReviewStep
  <2>6. CASE DocumentStep BY <2>6, <1>33, <1>24, <1>25, <1>26 DEF DocumentStep
  <2>7. CASE ShipStep BY <2>7, <1>27, <1>28 DEF ShipStep
  <2>8. CASE PatchStep BY <2>8, <1>29, <1>8, <1>9, <1>30, <1>31, <1>10 DEF PatchStep
  <2>9. CASE CommonStep
    BY <2>9, <1>12, <1>11, <1>13, <1>16, <1>17, <1>18, <1>32, <1>19, <1>7, <1>34, <1>35, <1>44
      DEF CommonStep
  <2> QED BY <2>1, <2>2, <2>3, <2>4, <2>5, <2>6, <2>7, <2>8, <2>9, <1>1, <1>45, <1>46, <1>47, <1>48
    DEF LeadStep

LEMMA GateHolds == Spec => [](TypeOK /\ Where /\ GateInv)
<1> HIDE DEF TypeOK, Where, GateInv
<1> QED BY InitTypes, TypesStep, InitGate, GateStep, PTL DEF Spec

\* Only a chain whose planning, build, test and review phases all ended well
\* reaches the merge, and no merge follows a suite whose last report has a
\* failing test (MergedMeansGated).
THEOREM MergedMeansGatedHolds == Spec => []MergedMeansGated
<1>1. TypeOK /\ GateInv => MergedMeansGated
  <2> SUFFICES ASSUME TypeOK, GateInv, pr = "merged"
               PROVE  /\ \A p \in {"plan", "build", "test", "review"} : rc[p] = "ok"
                      /\ tested # "failing"
    BY DEF MergedMeansGated
  <2>1. Chain[phase] = "ship" /\ phase \in 1 .. Len(Chain) BY DEF GateInv, Here, TypeOK
  <2>2. wf = "sdlc_zte" /\ phase = 6 /\ Chain = Shipping BY <2>1, ChainFacts DEF TypeOK
  <2>3. \A q \in 1 .. 4 : rc[Shipping[q]] = "ok" \/ Tolerated(Shipping[q])
    BY <2>1, <2>2 DEF GateInv
  <2>4. rc["plan"] = "ok" /\ rc["build"] = "ok" /\ rc["test"] = "ok" /\ rc["review"] = "ok"
    BY <2>2, <2>3 DEF Shipping, Tolerated, SdlcTolerates, ZteTolerates
  <2> QED BY <2>4 DEF GateInv
<1> HIDE DEF TypeOK, Where, GateInv, MergedMeansGated
<1> QED BY <1>1, GateHolds, PTL

---------------------------------------------------------------------------
(* What a chain that ends well has saved.                                    *)

Planned == {"plan", "adws"} \subseteq saved

\* From find_plan on the planning phase has the plan in its state, and in the
\* file when it leaves; the file is readable whenever nobody writes it.
PlanInv ==
    /\ at \notin {"ensure", "load", "exited"} => "adws" \in mem /\ (saving \/ file = saved)
    /\ Here = "plan" /\ (at \in {"message", "commit", "push", "pull", "close", "leave"}
                         \/ (at = "find_plan" /\ saving)) => "plan" \in mem
    /\ Here = "plan" /\ at = "leave" => Planned
    /\ Here = "plan" /\ at = "exited" /\ rc[Here] = "ok" => Planned
    /\ wf # "patch" /\ phase > 1 => Planned
    /\ at = "exited" /\ rc[Here] = "ok" => file = saved
    /\ outcome = "ok" => at = "exited" /\ rc[Here] = "ok" /\ phase = Len(Chain)

LEMMA InitPlan == Init => PlanInv
  BY DEF Init, PlanInv

\* The phase stays where it is or goes on, with all its fields.
LEMMA PlanKept ==
  ASSUME TypeOK, Where, SavedInv, PlanInv, at \notin {"ensure", "load", "exited", "leave"},
         UNCHANGED <<wf, phase, rc, saved, outcome>>, outcome # "ok",
         mem \subseteq mem', saving' \/ (file' = file /\ ~saving),
         at' \notin {"ensure", "load", "exited"},
         Here = "plan" => at' # "leave",
         Here = "plan" /\ at' \in {"message", "commit", "push", "pull", "close"}
           => at \in {"message", "commit", "push", "pull", "close"},
         at' = "find_plan" /\ saving' => "plan" \in mem'
  PROVE  PlanInv'
<1>1. Here' = Here /\ Chain' = Chain /\ Planned' = Planned BY HereStays DEF Planned
<1>2. "adws" \in mem' /\ (saving' \/ file' = saved) BY DEF PlanInv
<1> QED BY <1>1, <1>2 DEF PlanInv

LEMMA BeforeTail ==
  ASSUME TypeOK, Here = "plan", NEW c, at = c, c \in ToSet(Calls(Here)) \ {"close", "find_plan"}
  PROVE  /\ After(c) # "leave"
         /\ After(c) \in {"message", "commit", "push", "pull", "close"}
              => c \in {"message", "commit", "push", "pull"}
  BY CallsPlan, AfterPlan

LEMMA PlanSaves ==
  ASSUME TypeOK, Where, SavedInv, PlanInv, NEW c, NEW fields, SaveWith(c, fields), UNCHANGED context,
         c \in SaveCalls \ {"ensure"}, c = "find_plan" => "plan" \in fields
  PROVE  PlanInv'
<1>1. /\ at = c /\ at' = c /\ outcome = "running" /\ saving' /\ mem' = mem \cup fields
      /\ UNCHANGED <<wf, phase, rc, saved, outcome>>
  BY DEF SaveWith, At, Running, context
<1> QED BY <1>1, PlanKept DEF SaveCalls

LEMMA PlanProceeds ==
  ASSUME TypeOK, Where, SavedInv, PlanInv, NEW c, Proceed(c), UNCHANGED context,
         c \notin {"ensure", "load", "leave", "exited", "close", "find_plan"} \cup FixCalls
  PROVE  PlanInv'
<1>1. UNCHANGED <<wf, rc, outcome>> BY DEF context
<1> QED BY <1>1, Proceeds, BeforeTail, PlanKept

LEMMA PlanStepKeeps == TypeOK /\ Where /\ SavedInv /\ PlanInv /\ [Next]_vars => PlanInv'
<1> SUFFICES ASSUME TypeOK, Where, SavedInv, PlanInv, [Next]_vars PROVE PlanInv' OBVIOUS
<1>1. CASE EnsureId
  <2>1. UNCHANGED <<wf, phase, rc, outcome>> /\ outcome = "running" /\ at' \in {"ensure", "load"} /\ phase = 1
    BY <1>1 DEF EnsureId, Where
  <2>2. Here' = Here BY <2>1, HereStays
  <2> QED BY <2>1, <2>2 DEF PlanInv, TypeOK
<1>2. CASE ClaimPorts BY <1>2, PlanSaves DEF ClaimPorts, SaveCalls
<1>3. CASE Classify BY <1>3, PlanSaves DEF Classify, SaveCalls
<1>4. CASE NameBranch BY <1>4, PlanSaves DEF NameBranch, SaveCalls
<1>5. CASE AddWorktree BY <1>5, PlanSaves DEF AddWorktree, SaveCalls
<1>6. CASE FindPlan BY <1>6, PlanSaves DEF FindPlan, SaveCalls
<1>7. CASE Close BY <1>7, PlanSaves DEF Close, SaveCalls
<1>8. CASE PatchBranch BY <1>8, PlanSaves DEF PatchBranch, SaveCalls
<1>9. CASE PatchWorktree BY <1>9, PlanSaves DEF PatchWorktree, SaveCalls
<1>10. CASE PatchImplement BY <1>10, PlanSaves DEF PatchImplement, SaveCalls
<1>11. CASE WriteState
  <2>1. at \in SaveCalls \ {"ensure"} /\ saving BY <1>11 DEF WriteState, Running, Where
  <2>2. at \in ToSet(Calls(Here)) /\ at' \notin {"ensure", "load", "exited"}
    BY <1>11, <2>1, Goes DEF WriteState, SaveCalls, FixCalls
  <2>3. UNCHANGED <<wf, phase, rc, mem, outcome>> /\ file' = mem /\ saved' = mem /\ saving' = FALSE
        /\ at' = After(at) /\ outcome = "running"
    BY <1>11 DEF WriteState, Running
  <2>4. Here' = Here BY <2>3, HereStays
  <2>5. "adws" \in mem /\ saved \subseteq mem BY <2>1 DEF PlanInv, SavedInv, SaveCalls
  <2>6. Planned => Planned' BY <2>3, <2>5 DEF Planned
  <2>7. Here = "plan" /\ at' \in {"message", "commit", "push", "pull", "close", "leave"} => "plan" \in mem
    <3> SUFFICES ASSUME Here = "plan", at' \in {"message", "commit", "push", "pull", "close", "leave"}
                 PROVE  "plan" \in mem
      OBVIOUS
    <3>1. at \in {"find_plan", "close"} BY <2>1, <2>2, <2>3, CallsPlan, AfterPlan DEF SaveCalls
    <3> QED BY <2>1, <3>1 DEF PlanInv
  <2>8. Here = "plan" /\ at' = "leave" => Planned' BY <2>3, <2>5, <2>7 DEF Planned
  <2> QED BY <2>2, <2>3, <2>4, <2>5, <2>6, <2>7, <2>8 DEF PlanInv
<1>12. CASE LoadState
  <2>1. at' \notin {"ensure", "exited", "load"} BY <1>12, Goes DEF LoadState, Goto, FixCalls
  <2>2. file = saved /\ UNCHANGED <<wf, phase, rc, file, saved, outcome, saving>> /\ "adws" \in mem'
        /\ outcome = "running" /\ ~saving /\ at' = After("load")
    BY <1>12 DEF LoadState, SavedInv, disk, Goto, Running, Where, SaveCalls
  <2>3. Here' = Here /\ Planned' = Planned BY <2>2, HereStays DEF Planned
  <2>4. Here = "plan" => at' = "ports" BY <2>2, AfterPlan
  <2> QED BY <2>1, <2>2, <2>3, <2>4 DEF PlanInv
<1>13. CASE FetchIssue BY <1>13, PlanProceeds DEF FetchIssue, context, FixCalls
<1>14. CASE InstallWorktree BY <1>14, PlanProceeds DEF InstallWorktree, context, FixCalls
<1>15. CASE WritePlan BY <1>15, PlanProceeds DEF WritePlan, context, FixCalls
<1>16. CASE CreateCommit BY <1>16, PlanProceeds DEF CreateCommit, context, FixCalls
<1>17. CASE CommitChanges BY <1>17, PlanProceeds DEF CommitChanges, context, FixCalls
<1>18. CASE PushBranch BY <1>18, PlanProceeds DEF PushBranch, context, FixCalls
<1>19. CASE FindOrCreatePR BY <1>19, PlanProceeds DEF FindOrCreatePR, context, FixCalls
<1>20. CASE ValidateWorktree BY <1>20, PlanProceeds DEF ValidateWorktree, context, FixCalls
<1>21. CASE Checkout BY <1>21, PlanProceeds DEF Checkout, context, FixCalls
<1>22. CASE Implement BY <1>22, PlanProceeds DEF Implement, context, FixCalls
<1>23. CASE FindSpec BY <1>23, PlanProceeds DEF FindSpec, context, FixCalls
<1>24. CASE FindChanges BY <1>24, PlanProceeds DEF FindChanges, context, FixCalls
<1>25. CASE Document BY <1>25, PlanProceeds DEF Document, context, FixCalls
<1>26. CASE TrackKpis BY <1>26, PlanProceeds DEF TrackKpis, context, FixCalls
<1>27. CASE CheckComplete BY <1>27, PlanProceeds DEF CheckComplete, context, FixCalls
<1>28. CASE MergePR BY <1>28, PlanProceeds DEF MergePR, context, FixCalls
<1>29. CASE PatchClass
  <2>1. at = "patch_class" /\ at' = After("patch_class") /\ UNCHANGED <<wf, phase, rc, saving, saved, file, outcome>>
        /\ outcome = "running" /\ ~saving /\ mem \subseteq mem'
    BY <1>29 DEF PatchClass, Goto, At, Running, context, disk
  <2>2. Here = "patch" /\ at' \notin {"ensure", "load", "exited"} BY <2>1, Goes, Owners DEF FixCalls
  <2> QED BY <2>1, <2>2, PlanKept
<1>30. CASE PatchRequest BY <1>30, PlanProceeds DEF PatchRequest, context, FixCalls
<1>31. CASE PatchPlan BY <1>31, PlanProceeds DEF PatchPlan, context, FixCalls
<1>32. CASE PushFails
  <2>1. at' = "close" BY <1>32, AfterPull, Goes DEF PushFails, Goto, At, FixCalls
  <2>2. at = "push" /\ UNCHANGED <<wf, phase, rc, saving, mem, saved, file, outcome>>
        /\ outcome = "running" /\ ~saving
    BY <1>32 DEF PushFails, Goto, At, Running, context, disk
  <2> QED BY <2>1, <2>2, PlanKept
<1>33. CASE SkipDocument
  <2>1. Here = "document" BY <1>33, Goes, Owners DEF SkipDocument, At, FixCalls
  <2>2. at = "changes" /\ at' = "leave" /\ UNCHANGED <<wf, phase, rc, saving, mem, saved, file, outcome>>
        /\ outcome = "running" /\ ~saving
    BY <1>33 DEF SkipDocument, Goto, At, Running, context, disk
  <2> QED BY <2>1, <2>2, PlanKept
<1>34. CASE Leave
  <2>1. /\ UNCHANGED <<wf, phase, saved, file, saving, outcome>> /\ at = "leave" /\ ~saving
        /\ at' = "exited" /\ outcome = "running"
    BY <1>34 DEF Leave, At, Running, disk
  <2>2. Here' = Here /\ Planned' = Planned BY <2>1, HereStays DEF Planned
  <2> QED BY <2>1, <2>2 DEF PlanInv
<1>35. CASE RetryCall
  <2>1. at \in AgentCalls /\ UNCHANGED <<wf, phase, rc, at, saving, mem, saved, file, outcome>>
        /\ outcome = "running" /\ ~saving
    BY <1>35 DEF RetryCall, Running, context, disk
  <2> QED BY <2>1, PlanKept DEF AgentCalls
<1>36. CASE RunUnit BY <1>36, Loops, PlanKept DEF LoopCalls, FixCalls
<1>37. CASE FixUnit BY <1>37, Loops, PlanKept DEF LoopCalls, FixCalls
<1>38. CASE RunE2E BY <1>38, Loops, PlanKept DEF LoopCalls, FixCalls
<1>39. CASE FixE2E BY <1>39, Loops, PlanKept DEF LoopCalls, FixCalls
<1>40. CASE ReportTests
  <2>1. /\ UNCHANGED <<wf, phase, saved, file, saving, outcome>> /\ at = "report" /\ ~saving
        /\ at' = "exited" /\ outcome = "running"
    BY <1>40 DEF ReportTests, At, Running, disk
  <2>2. Here' = Here /\ Planned' = Planned BY <2>1, HereStays DEF Planned
  <2>3. Here = "test" BY <2>1, Goes, Owners DEF FixCalls
  <2> QED BY <2>1, <2>2, <2>3 DEF PlanInv
<1>41. CASE RunReview BY <1>41, Loops, PlanKept DEF LoopCalls, FixCalls
<1>42. CASE PlanBlockerFix BY <1>42, Loops, PlanKept DEF LoopCalls, FixCalls
<1>43. CASE FixBlocker BY <1>43, Loops, PlanKept DEF LoopCalls, FixCalls
<1>44. CASE PhaseFails
  <2>1. /\ UNCHANGED <<wf, phase, saved, outcome>> /\ rc' = [rc EXCEPT ![Here] = "failed"]
        /\ at' = "exited" /\ outcome = "running"
    BY <1>44 DEF PhaseFails, Running, disk
  <2>2. Here' = Here /\ Planned' = Planned BY <2>1, HereStays DEF Planned
  <2>3. rc'[Here'] = "failed" BY <2>1, <2>2, HereIn DEF TypeOK
  <2> QED BY <2>1, <2>2, <2>3 DEF PlanInv
<1>45. CASE NextPhase
  <2>1. Chain' = Chain /\ UNCHANGED <<rc, wf, file, saved>> /\ Planned' = Planned /\ at = "exited" /\ outcome = "running"
    BY <1>45 DEF NextPhase, Chain, disk, Planned
  <2>2. CASE phase < Len(Chain)
    <3>1. phase' = phase + 1 /\ at' = "load" /\ outcome' = outcome BY <1>45, <2>2 DEF NextPhase
    <3>2. phase = 1 /\ wf # "patch" => Planned
      <4>1. SUFFICES ASSUME phase = 1, wf # "patch" PROVE Planned OBVIOUS
      <4>2. Here = "plan" BY <4>1, ChainFacts DEF Here, TypeOK
      <4>3. ~Tolerated(Here) BY <4>2 DEF Tolerated, SdlcTolerates, ZteTolerates
      <4> QED BY <1>45, <2>1, <4>2, <4>3 DEF NextPhase, PlanInv
    <3>3. wf # "patch" => Planned BY <3>2 DEF PlanInv, TypeOK
    <3> QED BY <2>1, <3>1, <3>3 DEF PlanInv
  <2>3. CASE ~(phase < Len(Chain))
    <3>1. phase' = phase /\ at' = at /\ outcome' = "ok" BY <1>45, <2>3 DEF NextPhase
    <3>9. Len(Chain) \in Nat /\ phase \in 1 .. Len(Chain) BY ChainFacts DEF TypeOK
    <3>2. phase = Len(Chain) BY <2>3, <3>9
    <3>3. ~Tolerated(Here) BY <3>2, ChainFacts DEF Here, TypeOK
    <3>4. rc[Here] = "ok" BY <1>45, <3>3 DEF NextPhase
    <3>5. Here' = Here BY <2>1, <3>1, HereStays
    <3> QED BY <2>1, <3>1, <3>2, <3>4, <3>5 DEF PlanInv
  <2> QED BY <2>2, <2>3
<1>46. CASE StopChain
  <2>1. UNCHANGED <<wf, phase, at, saving, mem, file, saved, rc>> /\ outcome' # "ok"
    BY <1>46 DEF StopChain, process, disk
  <2>2. Here' = Here /\ Planned' = Planned BY <2>1, HereStays DEF Planned
  <2> QED BY <2>1, <2>2 DEF PlanInv
<1>47. CASE Kill
  <2>1. UNCHANGED <<wf, phase, at, saving, mem, file, saved, rc>> /\ outcome' # "ok"
    BY <1>47 DEF Kill, process, disk
  <2>2. Here' = Here /\ Planned' = Planned BY <2>1, HereStays DEF Planned
  <2> QED BY <2>1, <2>2 DEF PlanInv
<1>48. CASE UNCHANGED vars
  <2>1. UNCHANGED <<wf, phase, at, saving, mem, file, saved, rc, outcome>>
    BY <1>48 DEF vars, process, disk
  <2>2. Here' = Here /\ Chain' = Chain /\ Planned' = Planned BY <2>1, HereStays DEF Planned
  <2> QED BY <2>1, <2>2 DEF PlanInv
<1> QED
  <2>1. LeadStep \/ Kill \/ UNCHANGED vars BY DEF Next
  <2>2. CASE PlanStep BY <2>2, <1>2, <1>3, <1>4, <1>5, <1>14, <1>15, <1>6 DEF PlanStep
  <2>3. CASE BuildStep BY <2>3, <1>20, <1>21, <1>22 DEF BuildStep
  <2>4. CASE TestStep BY <2>4, <1>36, <1>37, <1>38, <1>39, <1>40 DEF TestStep
  <2>5. CASE ReviewStep BY <2>5, <1>23, <1>41, <1>42, <1>43 DEF ReviewStep
  <2>6. CASE DocumentStep BY <2>6, <1>33, <1>24, <1>25, <1>26 DEF DocumentStep
  <2>7. CASE ShipStep BY <2>7, <1>27, <1>28 DEF ShipStep
  <2>8. CASE PatchStep BY <2>8, <1>29, <1>8, <1>9, <1>30, <1>31, <1>10 DEF PatchStep
  <2>9. CASE CommonStep
    BY <2>9, <1>12, <1>11, <1>13, <1>16, <1>17, <1>18, <1>32, <1>19, <1>7, <1>34, <1>35, <1>44
      DEF CommonStep
  <2> QED BY <2>1, <2>2, <2>3, <2>4, <2>5, <2>6, <2>7, <2>8, <2>9, <1>1, <1>45, <1>46, <1>47, <1>48
    DEF LeadStep

LEMMA PlanHolds == Spec => [](TypeOK /\ Where /\ SavedInv /\ PlanInv)
<1> HIDE DEF TypeOK, Where, SavedInv, PlanInv
<1> QED BY InitTypes, TypesStep, InitSaved, SavedStep, InitPlan, PlanStepKeeps, PTL DEF Spec

\* A chain that ends well, other than patch, is recorded as succeeded
\* (CleanExitSucceeds).
THEOREM CleanExitSucceedsHolds == Spec => []CleanExitSucceeds
<1>1. TypeOK /\ PlanInv => CleanExitSucceeds
  <2> SUFFICES ASSUME TypeOK, PlanInv, outcome = "ok", wf # "patch" PROVE Verdict = "succeeded"
    BY DEF CleanExitSucceeds
  <2>1. at = "exited" /\ rc[Here] = "ok" /\ file = saved BY DEF PlanInv
  <2>2. phase = 1 => Here = "plan" BY ChainFacts DEF Here, TypeOK
  <2>3. phase = 1 \/ phase > 1 BY DEF TypeOK
  <2>4. Planned BY <2>1, <2>2, <2>3 DEF PlanInv
  <2> QED BY <2>1, <2>4 DEF Planned, Verdict
<1> HIDE DEF TypeOK, Where, SavedInv, PlanInv, CleanExitSucceeds
<1> QED BY <1>1, PlanHolds, PTL

---------------------------------------------------------------------------
(* What a chain that ends well has published.                                *)

\* The calls of a phase after its push.
PastPush == {"pull", "close", "report", "leave"}
Published == ahead => pushFailed

\* The calls of the documentation phase until it may find nothing to document.
DocumentStart == {"ensure", "load", "validate", "changes"}

\* Past its push a phase has nothing unpublished unless the push failed.  The
\* ship phase, which has none, starts where the documentation phase ended, and
\* that one starts where a phase ended whose failure stops every workflow.
PublishInv ==
    /\ ahead => differs
    /\ Here # "ship" /\ at \in PastPush => Published
    /\ Here # "ship" /\ at = "exited" /\ rc[Here] = "ok" => Published
    /\ Here = "document" /\ at \in DocumentStart => Published
    /\ Here = "ship" => rc["document"] = "failed" \/ Published

LEMMA InitPublish == Init => PublishInv
  BY DEF Init, PublishInv, Published

\* Only what follows the push follows the push.
LEMMA TailFollows ==
  ASSUME Here \in Phases, Here # "ship", NEW c \in ToSet(Calls(Here)), After(c) \in PastPush
  PROVE  c \in {"push", "pull", "close", "report"}
<1> USE DEF PastPush
<1>1. CASE Here = "plan" BY <1>1, CallsPlan, AfterPlan
<1>2. CASE Here = "build" BY <1>2, CallsBuild, AfterBuild
<1>3. CASE Here = "test" BY <1>3, CallsTest, AfterTest
<1>4. CASE Here = "review" BY <1>4, CallsReview, AfterReview
<1>5. CASE Here = "document" BY <1>5, CallsDocument, AfterDocument
<1>6. CASE Here = "patch" BY <1>6, CallsPatch, AfterPatch
<1> QED BY <1>1, <1>2, <1>3, <1>4, <1>5, <1>6 DEF Phases

\* Nothing but its start leads to the start of the documentation phase.
LEMMA StartFollows ==
  ASSUME Here = "document", NEW c \in ToSet(Calls(Here)), After(c) \in DocumentStart
  PROVE  c \in DocumentStart /\ c \notin {"message", "commit", "kpi"}
  BY CallsDocument, AfterDocument DEF DocumentStart

LEMMA PublishKept ==
  ASSUME PublishInv, UNCHANGED <<wf, phase, rc, ahead, differs, pushFailed>>,
         at' \in PastPush => at \in PastPush \/ Here = "ship", at' # "exited",
         Here = "document" /\ at' \in DocumentStart => at \in DocumentStart
  PROVE  PublishInv'
<1>1. Here' = Here BY HereStays
<1> QED BY <1>1 DEF PublishInv, Published

\* A commit is made before the push, and not in the ship phase.
LEMMA PublishCommits ==
  ASSUME TypeOK, PublishInv, UNCHANGED <<wf, phase, rc>>, CommitAll, Here # "ship",
         at' \notin PastPush \cup {"exited"}, Here = "document" => at' \notin DocumentStart
  PROVE  PublishInv'
<1>1. Here' = Here BY HereStays
<1>2. ahead' => differs' BY Zenon DEF CommitAll, PublishInv
<1> QED BY <1>1, <1>2 DEF PublishInv

\* No workflow goes on to the documentation phase from a failed one.
LEMMA BeforeDocument ==
  ASSUME wf \in Workflows, phase \in 1 .. Len(Chain), phase < Len(Chain),
         Chain[phase + 1] = "document"
  PROVE  ~Tolerated(Here)
<1>1. Here \in {"build", "review"}
  BY WorkflowsAssumption DEF Chain, Here
<1> QED BY <1>1 DEF Tolerated, SdlcTolerates, ZteTolerates

LEMMA PublishSaves ==
  ASSUME PublishInv, NEW c, NEW fields, SaveWith(c, fields), UNCHANGED context,
         UNCHANGED <<ahead, differs, pushFailed>>
  PROVE  PublishInv'
  BY PublishKept DEF SaveWith, At, Running, context

LEMMA PublishProceeds ==
  ASSUME TypeOK, PublishInv, NEW c, Proceed(c), UNCHANGED context,
         c \notin {"ensure", "leave", "exited", "push"} \cup FixCalls,
         UNCHANGED <<ahead, differs, pushFailed>> \/ (CommitAll /\ c \in {"message", "commit", "kpi"})
  PROVE  PublishInv'
<1>1. /\ at = c /\ at' = After(c) /\ c \in ToSet(Calls(Here)) /\ Here \in Phases /\ at' # "exited"
      /\ UNCHANGED <<wf, phase, rc>>
  BY Proceeds DEF context
<1>2. CASE UNCHANGED <<ahead, differs, pushFailed>>
  <2>1. at' \in PastPush => at \in PastPush \/ Here = "ship" BY <1>1, TailFollows DEF PastPush
  <2>2. Here = "document" /\ at' \in DocumentStart => at \in DocumentStart
    BY <1>1, StartFollows
  <2> QED BY <1>1, <1>2, <2>1, <2>2, PublishKept
<1>3. CASE CommitAll /\ c \in {"message", "commit", "kpi"}
  <2>1. Here # "ship" BY <1>1, <1>3, CallsShip
  <2>2. at' \notin PastPush BY <1>1, <1>3, <2>1, TailFollows
  <2>3. Here = "document" => at' \notin DocumentStart BY <1>1, <1>3, StartFollows
  <2> QED BY <1>1, <1>3, <2>1, <2>2, <2>3, PublishCommits
<1> QED BY <1>2, <1>3

LEMMA PublishStep == TypeOK /\ Where /\ GateInv /\ PublishInv /\ [Next]_vars => PublishInv'
<1> SUFFICES ASSUME TypeOK, Where, GateInv, PublishInv, [Next]_vars PROVE PublishInv' OBVIOUS
<1>1. CASE EnsureId
  <2>1. at' \in {"ensure", "load"} /\ UNCHANGED <<wf, phase, rc, ahead, differs, pushFailed>>
    BY <1>1 DEF EnsureId, git
  <2>2. at = "ensure" BY <1>1 DEF EnsureId
  <2> QED BY <2>1, <2>2, PublishKept DEF PastPush, DocumentStart
<1>2. CASE ClaimPorts BY <1>2, PublishSaves DEF ClaimPorts, git, MayChange
<1>3. CASE Classify BY <1>3, PublishSaves DEF Classify, git, MayChange
<1>4. CASE NameBranch BY <1>4, PublishSaves DEF NameBranch, git, MayChange
<1>5. CASE AddWorktree BY <1>5, PublishSaves DEF AddWorktree, git, MayChange
<1>6. CASE FindPlan BY <1>6, PublishSaves DEF FindPlan, git, MayChange
<1>7. CASE Close BY <1>7, PublishSaves DEF Close, git, MayChange
<1>8. CASE PatchBranch BY <1>8, PublishSaves DEF PatchBranch, git, MayChange
<1>9. CASE PatchWorktree BY <1>9, PublishSaves DEF PatchWorktree, git, MayChange
<1>10. CASE PatchImplement BY <1>10, PublishSaves DEF PatchImplement, git, MayChange
<1>11. CASE WriteState
  <2>1. at \in SaveCalls \ {"ensure"} BY <1>11 DEF WriteState, Running, Where
  <2>2. at \in ToSet(Calls(Here)) /\ Here \in Phases /\ at' # "exited"
    BY <1>11, <2>1, Goes DEF WriteState, SaveCalls, FixCalls
  <2>3. at' = After(at) /\ UNCHANGED <<wf, phase, rc, ahead, differs, pushFailed>>
    BY <1>11 DEF WriteState, git
  <2>4. at' \in PastPush => at \in PastPush \/ Here = "ship"
    BY <2>1, <2>2, <2>3, TailFollows DEF PastPush, SaveCalls
  <2>5. Here = "document" /\ at' \in DocumentStart => at \in DocumentStart
    BY <2>2, <2>3, StartFollows
  <2> QED BY <2>2, <2>3, <2>4, <2>5, PublishKept
<1>12. CASE LoadState
  <2>1. at = "load" /\ at' = After("load") /\ UNCHANGED <<wf, phase, rc, ahead, differs, pushFailed>>
    BY <1>12 DEF LoadState, Goto, git
  <2>2. "load" \in ToSet(Calls(Here)) /\ Here \in Phases /\ at' # "exited"
    BY <2>1, Goes DEF FixCalls
  <2>3. at' \in PastPush => Here = "ship" BY <2>1, <2>2, TailFollows DEF PastPush
  <2>4. at \in DocumentStart BY <2>1 DEF DocumentStart
  <2> QED BY <2>1, <2>2, <2>3, <2>4, PublishKept
<1>13. CASE FetchIssue BY <1>13, PublishProceeds DEF FetchIssue, context, git, MayChange, FixCalls
<1>14. CASE InstallWorktree
  BY <1>14, PublishProceeds DEF InstallWorktree, context, git, MayChange, FixCalls
<1>15. CASE WritePlan BY <1>15, PublishProceeds DEF WritePlan, context, git, MayChange, FixCalls
<1>16. CASE CreateCommit
  BY <1>16, PublishProceeds DEF CreateCommit, context, git, MayChange, FixCalls
<1>17. CASE CommitChanges
  BY <1>17, PublishProceeds DEF CommitChanges, context, git, MayChange, FixCalls
<1>18. CASE PushBranch
  <2>1. UNCHANGED <<wf, phase, rc, differs>> /\ ahead' = FALSE
    BY <1>18 DEF PushBranch, Proceed, Goto, context
  <2>2. Here' = Here BY <2>1, HereStays
  <2> QED BY <2>1, <2>2 DEF PublishInv, Published
<1>19. CASE FindOrCreatePR
  BY <1>19, PublishProceeds DEF FindOrCreatePR, context, git, MayChange, FixCalls
<1>20. CASE ValidateWorktree
  BY <1>20, PublishProceeds DEF ValidateWorktree, context, git, MayChange, FixCalls
<1>21. CASE Checkout BY <1>21, PublishProceeds DEF Checkout, context, git, MayChange, FixCalls
<1>22. CASE Implement BY <1>22, PublishProceeds DEF Implement, context, git, MayChange, FixCalls
<1>23. CASE FindSpec BY <1>23, PublishProceeds DEF FindSpec, context, git, MayChange, FixCalls
<1>24. CASE FindChanges BY <1>24, PublishProceeds DEF FindChanges, context, git, MayChange, FixCalls
<1>25. CASE Document BY <1>25, PublishProceeds DEF Document, context, git, MayChange, FixCalls
<1>26. CASE TrackKpis BY <1>26, PublishProceeds DEF TrackKpis, context, git, MayChange, FixCalls
<1>27. CASE CheckComplete
  BY <1>27, PublishProceeds DEF CheckComplete, context, git, MayChange, FixCalls
<1>28. CASE MergePR BY <1>28, PublishProceeds DEF MergePR, context, git, MayChange, FixCalls
<1>29. CASE PatchClass
  <2>1. at = "patch_class" /\ at' = After("patch_class") /\ UNCHANGED <<wf, phase, rc, ahead, differs, pushFailed>>
    BY <1>29 DEF PatchClass, Goto, At, context, git
  <2>2. Here = "patch" BY <2>1, Goes, Owners DEF FixCalls
  <2> QED BY <2>1, <2>2, AfterPatch, PublishKept DEF PastPush
<1>30. CASE PatchRequest
  BY <1>30, PublishProceeds DEF PatchRequest, context, git, MayChange, FixCalls
<1>31. CASE PatchPlan BY <1>31, PublishProceeds DEF PatchPlan, context, git, MayChange, FixCalls
<1>32. CASE PushFails
  <2>1. UNCHANGED <<wf, phase, rc, ahead, differs>> /\ pushFailed' = TRUE
    BY <1>32 DEF PushFails, Goto, context
  <2>2. Here' = Here BY <2>1, HereStays
  <2> QED BY <2>1, <2>2 DEF PublishInv, Published
<1>33. CASE SkipDocument
  <2>1. UNCHANGED <<wf, phase, rc, ahead, differs, pushFailed>> /\ at = "changes" /\ at' = "leave"
    BY <1>33 DEF SkipDocument, At, Goto, context, git
  <2>2. Here' = Here BY <2>1, HereStays
  <2>3. Here = "document" BY <2>1, Goes, Owners DEF FixCalls
  <2>4. Published' BY <2>1, <2>3 DEF PublishInv, Published, DocumentStart
  <2> QED BY <2>1, <2>2, <2>3, <2>4 DEF PublishInv
<1>34. CASE Leave
  <2>1. UNCHANGED <<wf, phase, ahead, differs, pushFailed>> /\ at = "leave" /\ at' = "exited"
    BY <1>34 DEF Leave, At, git
  <2>2. Here' = Here BY <2>1, HereStays
  <2>3. Here = "ship" => rc'["document"] = rc["document"] BY <1>34 DEF Leave, TypeOK
  <2> QED BY <2>1, <2>2, <2>3 DEF PublishInv, Published, PastPush
<1>35. CASE RetryCall
  <2>1. at' = at /\ UNCHANGED <<wf, phase, rc>> /\ at # "exited" /\ AgentLeaves
    BY <1>35 DEF RetryCall, Running, context
  <2>2. CASE UNCHANGED <<ahead, differs, pushFailed>> BY <2>1, <2>2, PublishKept
  <2>3. CASE at \in {"message", "kpi"} /\ CommitAll
    <3>1. Here # "ship" BY <2>3, Goes, CallsShip DEF FixCalls
    <3> QED BY <2>1, <2>3, <3>1, PublishCommits DEF PastPush, DocumentStart
  <2> QED BY <2>1, <2>2, <2>3 DEF AgentLeaves, MayChange
<1>36. CASE RunUnit BY <1>36, Loops, PublishKept DEF LoopCalls, FixCalls, PastPush
<1>37. CASE FixUnit BY <1>37, Loops, PublishKept DEF LoopCalls, FixCalls, PastPush
<1>38. CASE RunE2E BY <1>38, Loops, PublishKept DEF LoopCalls, FixCalls, PastPush
<1>39. CASE FixE2E BY <1>39, Loops, PublishKept DEF LoopCalls, FixCalls, PastPush
<1>40. CASE ReportTests
  <2>1. UNCHANGED <<wf, phase, ahead, differs, pushFailed>> /\ at = "report" /\ at' = "exited"
    BY <1>40 DEF ReportTests, At, git
  <2>2. Here' = Here BY <2>1, HereStays
  <2>3. Here = "ship" => rc'["document"] = rc["document"] BY <1>40 DEF ReportTests, TypeOK
  <2> QED BY <2>1, <2>2, <2>3 DEF PublishInv, Published, PastPush
<1>41. CASE RunReview BY <1>41, Loops, PublishKept DEF LoopCalls, FixCalls, PastPush
<1>42. CASE PlanBlockerFix BY <1>42, Loops, PublishKept DEF LoopCalls, FixCalls, PastPush
<1>43. CASE FixBlocker BY <1>43, Loops, PublishKept DEF LoopCalls, FixCalls, PastPush
<1>44. CASE PhaseFails
  <2>1. UNCHANGED <<wf, phase>> /\ at' = "exited" BY <1>44 DEF PhaseFails
  <2>2. Here' = Here BY <2>1, HereStays
  <2>3. rc'[Here] = "failed" BY <1>44, HereIn DEF PhaseFails, TypeOK
  <2>4. Here = "ship" => rc'["document"] = rc["document"] BY <1>44 DEF PhaseFails, TypeOK
  <2>5. CASE UNCHANGED <<ahead, differs, pushFailed>>
    BY <2>1, <2>2, <2>3, <2>4, <2>5 DEF PublishInv, Published, PastPush, DocumentStart
  <2>6. CASE at \in {"message", "kpi"} /\ CommitAll
    <3>1. Here # "ship" BY <2>6, Goes, CallsShip DEF FixCalls
    <3>2. ahead' => differs' BY <2>6, Zenon DEF CommitAll, PublishInv
    <3> QED BY <2>1, <2>2, <2>3, <3>1, <3>2 DEF PublishInv, PastPush, DocumentStart
  <2> QED BY <1>44, <2>5, <2>6 DEF PhaseFails, AgentLeaves, MayChange, git
<1>45. CASE NextPhase
  <2>1. Chain' = Chain /\ UNCHANGED <<rc, wf, ahead, differs, pushFailed>> /\ at = "exited"
    BY <1>45 DEF NextPhase, Chain, git
  <2>2. CASE phase < Len(Chain)
    <3>1. phase' = phase + 1 /\ at' = "load" BY <1>45, <2>2 DEF NextPhase
    <3>2. Here' = Chain[phase + 1] BY <2>1, <3>1 DEF Here
    <3>3. Here' = "ship" => Here = "document"
      <4>1. SUFFICES ASSUME Chain[phase + 1] = "ship" PROVE Here = "document" BY <3>2
      <4>2. wf = "sdlc_zte" /\ phase + 1 = 6 /\ Chain = Shipping
        BY <2>2, <4>1, ChainFacts DEF TypeOK
      <4> QED BY <4>2 DEF Here, Shipping, TypeOK
    <3>4. Here # "ship" BY <2>2, ChainFacts DEF TypeOK, Here, Shipping
    <3>5. rc[Here] # "none" BY <2>1 DEF GateInv
    <3>6. rc[Here] \in {"ok", "failed"} BY <3>5, HereIn DEF TypeOK
    <3>7. Here' = "ship" => rc'["document"] = "failed" \/ Published'
      BY <2>1, <3>3, <3>4, <3>6 DEF PublishInv, Published
    <3>8. Here' = "document" => Published'
      <4>1. SUFFICES ASSUME Chain[phase + 1] = "document" PROVE Published' BY <3>2
      <4>2. ~Tolerated(Here) BY <2>2, <4>1, BeforeDocument DEF TypeOK
      <4>3. rc[Here] = "ok" BY <1>45, <4>2 DEF NextPhase
      <4> QED BY <2>1, <3>4, <4>3 DEF PublishInv, Published
    <3> QED BY <2>1, <3>1, <3>7, <3>8 DEF PublishInv, PastPush
  <2>3. CASE ~(phase < Len(Chain))
    <3>1. phase' = phase /\ at' = at BY <1>45, <2>3 DEF NextPhase
    <3>2. Here' = Here BY <2>1, <3>1, HereStays
    <3> QED BY <2>1, <3>1, <3>2 DEF PublishInv, Published
  <2> QED BY <2>2, <2>3
<1>46. CASE StopChain
  <2>1. UNCHANGED <<wf, phase, at, rc, ahead, differs, pushFailed>>
    BY <1>46 DEF StopChain, process, git
  <2>2. Here' = Here BY <2>1, HereStays
  <2> QED BY <2>1, <2>2 DEF PublishInv, Published
<1>47. CASE Kill
  <2>1. UNCHANGED <<wf, phase, at, rc, ahead, differs, pushFailed>> BY <1>47 DEF Kill, process, git
  <2>2. Here' = Here BY <2>1, HereStays
  <2> QED BY <2>1, <2>2 DEF PublishInv, Published
<1>48. CASE UNCHANGED vars
  <2>1. UNCHANGED <<wf, phase, at, rc, ahead, differs, pushFailed>> BY <1>48 DEF vars, process, git
  <2>2. Here' = Here BY <2>1, HereStays
  <2> QED BY <2>1, <2>2 DEF PublishInv, Published
<1> QED
  <2>1. LeadStep \/ Kill \/ UNCHANGED vars BY DEF Next
  <2>2. CASE PlanStep BY <2>2, <1>2, <1>3, <1>4, <1>5, <1>14, <1>15, <1>6 DEF PlanStep
  <2>3. CASE BuildStep BY <2>3, <1>20, <1>21, <1>22 DEF BuildStep
  <2>4. CASE TestStep BY <2>4, <1>36, <1>37, <1>38, <1>39, <1>40 DEF TestStep
  <2>5. CASE ReviewStep BY <2>5, <1>23, <1>41, <1>42, <1>43 DEF ReviewStep
  <2>6. CASE DocumentStep BY <2>6, <1>33, <1>24, <1>25, <1>26 DEF DocumentStep
  <2>7. CASE ShipStep BY <2>7, <1>27, <1>28 DEF ShipStep
  <2>8. CASE PatchStep BY <2>8, <1>29, <1>8, <1>9, <1>30, <1>31, <1>10 DEF PatchStep
  <2>9. CASE CommonStep
    BY <2>9, <1>12, <1>11, <1>13, <1>16, <1>17, <1>18, <1>32, <1>19, <1>7, <1>34, <1>35, <1>44
      DEF CommonStep
  <2> QED BY <2>1, <2>2, <2>3, <2>4, <2>5, <2>6, <2>7, <2>8, <2>9, <1>1, <1>45, <1>46, <1>47, <1>48
    DEF LeadStep

\* A Lead that ends well has published all its commits, unless its last push
\* failed or zte went on without the documentation (CleanExitPublishes).
THEOREM CleanExitPublishesHolds == Spec => []CleanExitPublishes
<1>1. PlanInv /\ PublishInv => CleanExitPublishes
  BY DEF PlanInv, PublishInv, Published, CleanExitPublishes
<1>2. Spec => [](TypeOK /\ Where /\ GateInv /\ PublishInv)
  <2> HIDE DEF TypeOK, Where, GateInv, PublishInv
  <2> QED BY GateHolds, InitPublish, PublishStep, PTL DEF Spec
<1> HIDE DEF TypeOK, Where, SavedInv, PlanInv, GateInv, PublishInv, CleanExitPublishes
<1> QED BY <1>1, <1>2, PlanHolds, PTL

============================================================================
