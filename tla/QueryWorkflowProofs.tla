------------------------ MODULE QueryWorkflowProofs ------------------------
(***************************************************************************)
(* Theorems about QueryWorkflow, for any number of executions, any limit of  *)
(* supersteps and any number of synthesis retries; about what a run finds    *)
(* (Retrieval), for any versions and queries and whatever is committed beside*)
(* it; and about the review of the report it delivers (ReportReview), for any*)
(* items, claims, notices and spans.                                         *)
(***************************************************************************)
EXTENDS QueryWorkflow, Retrieval, ReportReview, FiniteSetTheorems, SequenceTheorems, TLAPS

(* What holds of the state in memory and of the checkpoint alike: a final  *)
(* or paused state says so in its status, and what passed validate_report  *)
(* still has the draft that passed.                                        *)
StateInv(s) ==
    /\ s \in States
    /\ s.next = Final => s.status \in {"failed", "completed"}
    /\ s.next = "pause" \/ s.paused => s.status = "awaiting_confirmation"
    /\ s.next \in {"verify_semantics", "persist_and_deliver"} => ~Invalid(s.draft)

\* A completed state has its report row.
Reported(s) == s.status = "completed" => report # None

\* The executions, the state and the checkpoint.
StatesInv ==
    /\ StateInv(g) /\ (cp = None \/ StateInv(cp))
    /\ alive => run = "running"
    /\ run = "awaiting_confirmation" => StateInv(cp)

\* The report row, the DOCX object and the callers of export_docx.
DeliveryInv ==
    /\ report \in Drafts \cup {None} /\ key \in BOOLEAN /\ object \in BOOLEAN
    /\ export \in [Exporters -> {"off", "check", "put", "attach"}]
    /\ DeliveredIsValidated
    /\ \A x \in Exporters : export[x] # "off" => report # None
    /\ \A x \in Exporters : export[x] = "attach" => object
    /\ AttachedIsStored

\* Where a "completed" may be read, the report is there.
CompletedInv ==
    /\ Reported(g) /\ (cp = None \/ Reported(cp))
    /\ run = "awaiting_confirmation" => Reported(cp)
    /\ CompletedHasReport

CountInv ==
    /\ run \in {"pending", "running", "awaiting_confirmation", "retryable", "completed", "failed"}
    /\ alive \in BOOLEAN /\ attempts \in 0..MaxAttempts /\ steps \in 0..RecursionLimit

IInv == StatesInv /\ DeliveryInv /\ CompletedInv /\ CountInv

-----------------------------------------------------------------------------
LEMMA InputTyped == StateInv(Input)
BY WorkflowAssumption DEF StateInv, Input, States, Nodes, Final

LEMMA InitIInv == Init => IInv
<1> SUFFICES ASSUME Init PROVE IInv
  OBVIOUS
<1>1. StatesInv
  BY InputTyped DEF Init, StatesInv
<1>2. DeliveryInv
  BY DEF Init, DeliveryInv, DeliveredIsValidated, AttachedIsStored, Exporters
<1>3. CompletedInv
  BY DEF Init, CompletedInv, CompletedHasReport, Reported, Input
<1>4. CountInv
  <2>1. alive \in BOOLEAN
    BY DEF Init
  <2>2. attempts \in 0..MaxAttempts /\ steps \in 0..RecursionLimit
    BY WorkflowAssumption DEF Init
  <2>3. QED
    BY <2>1, <2>2 DEF Init, CountInv
<1>5. QED
  BY <1>1, <1>2, <1>3, <1>4 DEF IInv

-----------------------------------------------------------------------------
(* An execution that starts from a state keeps everything about it.        *)
LEMMA DriveKeepsState ==
  ASSUME NEW s, StateInv(s)
  PROVE  /\ StateInv([s EXCEPT !.paused = FALSE])
         /\ Reported(s) => Reported([s EXCEPT !.paused = FALSE])
BY DEF StateInv, Reported, States

LEMMA DriveKeepsInv ==
  ASSUME IInv, Start \/ Confirm \/ Retry
  PROVE  IInv'
<1>1. UNCHANGED <<report, key, object, export>> /\ alive' = TRUE /\ run' = "running"
  BY DEF Start, Confirm, Retry, Drive, deliveryVars
<1>2. attempts' \in 0..MaxAttempts /\ steps' \in 0..RecursionLimit
  BY WorkflowAssumption DEF IInv, CountInv, Start, Confirm, Retry, Drive
<1>3. PICK s : StateInv(s) /\ Reported(s) /\ g' = [s EXCEPT !.paused = FALSE]
  <2>1. StateInv(Input) /\ Reported(Input)
    BY InputTyped DEF Reported, Input
  <2>2. CASE Start
    BY <2>1, <2>2 DEF Start, Drive
  <2>3. CASE Confirm
    BY <2>3 DEF Confirm, Drive, IInv, StatesInv, CompletedInv
  <2>4. CASE Retry
    BY <2>1, <2>4 DEF Retry, Drive, Resumable, IInv, StatesInv, CompletedInv
  <2>5. QED
    BY <2>2, <2>3, <2>4
<1>4. cp' \in {cp, None}
  BY DEF Start, Confirm, Retry
<1>5. StateInv(g') /\ Reported(g')
  BY <1>3, DriveKeepsState
<1>6. QED
  BY <1>1, <1>2, <1>4, <1>5 DEF IInv, StatesInv, DeliveryInv, DeliveredIsValidated, AttachedIsStored,
     CompletedInv, CompletedHasReport, Reported, CountInv

LEMMA CheckpointKeepsInv == IInv /\ Checkpoint => IInv'
BY DEF Checkpoint, IInv, StatesInv, DeliveryInv, DeliveredIsValidated, AttachedIsStored,
   CompletedInv, CompletedHasReport, Reported, CountInv, deliveryVars

LEMMA StopKeepsInv ==
  ASSUME IInv, Finish \/ Abort
  PROVE  IInv'
<1>1. UNCHANGED <<attempts, g, cp, steps, report, key, object>> /\ alive' = FALSE
  BY DEF Finish, Abort, Stop
<1>2. export' = [export EXCEPT !["graph"] = "off"]
  BY DEF Finish, Abort, Stop
<1>3. /\ run' \in {"retryable", "awaiting_confirmation", "completed", "failed"}
      /\ run' = "awaiting_confirmation" => StateInv(cp) /\ Reported(cp)
      /\ run' = "completed" => report # None
  <2>1. CASE Abort
    BY <2>1 DEF Abort, Stop
  <2>2. CASE Finish
    BY <2>2 DEF Finish, Stop, IInv, StatesInv, CompletedInv, StateInv, Reported
  <2>3. QED
    BY <2>1, <2>2
<1>4. DeliveryInv'
  BY <1>1, <1>2 DEF IInv, DeliveryInv, DeliveredIsValidated, AttachedIsStored, Exporters
<1>5. QED
  BY <1>1, <1>3, <1>4 DEF IInv, StatesInv, CompletedInv, CompletedHasReport, Reported, CountInv

-----------------------------------------------------------------------------
(* One superstep, whatever the node delivers besides.                      *)
LEMMA StepKeepsInv ==
  ASSUME IInv, NEW node, NEW update, Step(node, update), StateInv(g'),
         report = None \/ report' = report, Reported(g)', DeliveryInv'
  PROVE  IInv'
<1>1. UNCHANGED <<run, alive, attempts, cp>>
  BY DEF Step
<1>2. steps' \in 0..RecursionLimit
  BY WorkflowAssumption DEF Step, IInv, CountInv
<1>3. report' # None \/ report = None
  OBVIOUS
<1>4. QED
  BY <1>1, <1>2, <1>3 DEF IInv, StatesInv, CompletedInv, CompletedHasReport, Reported, CountInv

LEMMA DeliveryStays ==
  ASSUME DeliveryInv, UNCHANGED deliveryVars
  PROVE  DeliveryInv' /\ UNCHANGED report
BY DEF deliveryVars, DeliveryInv, DeliveredIsValidated, AttachedIsStored

(* A node that delivers nothing and does not complete the run.             *)
LEMMA QuietStepKeepsInv ==
  ASSUME IInv, NEW node, NEW update, Step(node, update), UNCHANGED deliveryVars,
         StateInv(update), update.status # "completed"
  PROVE  IInv'
<1>1. g' = update
  BY DEF Step
<1>2. DeliveryInv' /\ UNCHANGED report
  BY DeliveryStays DEF IInv
<1>3. QED
  BY <1>1, <1>2, StepKeepsInv DEF Reported

\* Fields a node may give any value.
Statuses == Nodes \cup {"pending", "candidates_resolved", "awaiting_confirmation",
                        "completed", "failed"}

(* What the nodes do to the state stays in its range.                      *)
LEMMA UpdatesTyped ==
  ASSUME NEW s \in States, NEW n \in Nodes \cup {Final}, NEW status \in Statuses
  PROVE  /\ [s EXCEPT !.next = n, !.status = status] \in States
         /\ [s EXCEPT !.next = n, !.status = status, !.errors = @ + 1] \in States
         /\ [s EXCEPT !.next = n, !.status = status, !.draft = None, !.errors = @ + 1] \in States
<1>1. s.errors + 1 \in Nat
  BY DEF States
<1>2. \A e \in Nat : [s EXCEPT !.next = n, !.status = status, !.errors = e] \in States
  BY DEF States, Statuses
<1>3. \A e \in Nat : [s EXCEPT !.next = n, !.status = status, !.draft = None, !.errors = e] \in States
  BY DEF States, Statuses
<1>4. [s EXCEPT !.next = n, !.status = status] \in States
  BY DEF States, Statuses
<1>5. QED
  BY <1>1, <1>2, <1>3, <1>4

LEMMA NodesKeepInv ==
  ASSUME IInv,
         \/ ParseIntent \/ ParseIntentFails \/ ValidateIntent \/ ConfirmIntent \/ Pause
         \/ \E node \in DOMAIN StatusAfter : Proceed(node)
         \/ SynthesizeReport \/ ValidateReport
  PROVE  IInv'
<1>0. StateInv(g) /\ g \in States
  BY DEF IInv, StatesInv, StateInv
<1>1. CASE ParseIntent
  <2>1. PICK intent \in Intents :
          Step("parse_intent", [g EXCEPT !.next = Edge["parse_intent"],
                                         !.status = "validate_intent", !.intent = intent])
    BY <1>1 DEF ParseIntent
  <2> DEFINE u == [g EXCEPT !.next = Edge["parse_intent"],
                            !.status = "validate_intent", !.intent = intent]
  <2>2. ~g.paused /\ UNCHANGED deliveryVars
    BY <1>1, <2>1 DEF ParseIntent, Step
  <2>3. StateInv(u) /\ u.status # "completed"
    BY <1>0, <2>2, ZenonT(30) DEF StateInv, States, Nodes, Edge, Final
  <2>4. QED
    BY <2>1, <2>2, <2>3, QuietStepKeepsInv
<1>2. CASE ParseIntentFails
  <2> DEFINE u == [g EXCEPT !.next = Edge["parse_intent"], !.status = "failed", !.errors = @ + 1]
  <2>1. Step("parse_intent", u) /\ ~g.paused /\ UNCHANGED deliveryVars
    BY <1>2 DEF ParseIntentFails, Step
  <2>2. u \in States
    BY <1>0, UpdatesTyped DEF Edge, Nodes, Statuses
  <2>3. u.next = "validate_intent" /\ u.status = "failed" /\ ~u.paused
    BY <1>0, <2>1 DEF States, Edge
  <2>4. QED
    BY <2>1, <2>2, <2>3, QuietStepKeepsInv DEF StateInv, Final
<1>3. CASE ValidateIntent
  <2>1. CASE g.intent = "empty"
    <3> DEFINE u == [g EXCEPT !.next = Final, !.status = "failed", !.errors = @ + 1]
    <3>1. Step("validate_intent", u) /\ ~g.paused /\ UNCHANGED deliveryVars
      BY <1>3, <2>1 DEF ValidateIntent, Step
    <3>2. u \in States
      BY <1>0, UpdatesTyped DEF Statuses
    <3>3. u.next = Final /\ u.status = "failed" /\ ~u.paused
      BY <1>0, <3>1 DEF States
    <3>4. QED
      BY <3>1, <3>2, <3>3, QuietStepKeepsInv DEF StateInv, Final
  <2>2. CASE g.intent # "empty"
    <3> DEFINE u == [g EXCEPT !.next = "confirm_intent", !.status = "confirm_intent"]
    <3>1. Step("validate_intent", u) /\ ~g.paused /\ UNCHANGED deliveryVars
      BY <1>3, <2>2 DEF ValidateIntent, Step
    <3>2. u \in States
      BY <1>0, UpdatesTyped DEF Nodes, Statuses
    <3>3. u.next = "confirm_intent" /\ u.status = "confirm_intent" /\ ~u.paused
      BY <1>0, <3>1 DEF States
    <3>4. QED
      BY <3>1, <3>2, <3>3, QuietStepKeepsInv DEF StateInv, Final
  <2>3. QED
    BY <2>1, <2>2
<1>4. CASE ConfirmIntent
  <2> DEFINE u == IF g.intent = "unsure"
                  THEN [g EXCEPT !.next = "pause", !.status = "awaiting_confirmation"]
                  ELSE [g EXCEPT !.next = "build_retrieval_plan", !.status = "build_retrieval_plan"]
  <2>1. Step("confirm_intent", u) /\ ~g.paused /\ UNCHANGED deliveryVars
    BY <1>4 DEF ConfirmIntent, Step
  <2>2. StateInv(u) /\ u.status # "completed"
    BY <1>0, <2>1, ZenonT(30) DEF StateInv, States, Nodes, Final
  <2>3. QED
    BY <2>1, <2>2, QuietStepKeepsInv
<1>5. CASE Pause
  <2> DEFINE u == [g EXCEPT !.next = Edge["pause"], !.paused = TRUE]
  <2>1. Step("pause", u) /\ g.next = "pause" /\ UNCHANGED deliveryVars
    BY <1>5 DEF Pause, Step
  <2>2. StateInv(u) /\ u.status # "completed"
    BY <1>0, <2>1 DEF StateInv, States, Nodes, Edge, Final
  <2>3. QED
    BY <2>1, <2>2, QuietStepKeepsInv
<1>6. CASE \E node \in DOMAIN StatusAfter : Proceed(node)
  <2>1. PICK node \in DOMAIN StatusAfter : Proceed(node)
    BY <1>6
  <2> DEFINE u == [g EXCEPT !.next = Edge[node], !.status = StatusAfter[node]]
  <2>2. Step(node, u) /\ g.next = node /\ ~g.paused /\ UNCHANGED deliveryVars
    BY <2>1 DEF Proceed, Step
  <2>3. /\ Edge[node] \in Nodes \ {"pause"} /\ StatusAfter[node] \in Statuses \ {"completed"}
        /\ Edge[node] = "persist_and_deliver" => node = "verify_semantics"
        /\ Edge[node] # "verify_semantics"
    BY DEF Edge, StatusAfter, Nodes, Statuses, Final
  <2>4. Edge[node] # Final
    BY SMTT(30) DEF Edge, StatusAfter, Final
  <2>5. u \in States
    BY <1>0, <2>3, UpdatesTyped
  <2>6. u.next = Edge[node] /\ u.status = StatusAfter[node] /\ ~u.paused /\ u.draft = g.draft
    BY <1>0, <2>2 DEF States
  <2> HIDE DEF u
  <2>7. StateInv(u)
    BY <1>0, <2>2, <2>3, <2>4, <2>5, <2>6 DEF StateInv
  <2>8. QED
    BY <2>2, <2>3, <2>6, <2>7, QuietStepKeepsInv
<1>7. CASE SynthesizeReport
  <2>1. PICK d \in Drafts :
          Step("synthesize_report", [g EXCEPT !.next = Edge["synthesize_report"],
                                              !.status = "validate_report", !.draft = d])
    BY <1>7 DEF SynthesizeReport
  <2> DEFINE u == [g EXCEPT !.next = Edge["synthesize_report"],
                            !.status = "validate_report", !.draft = d]
  <2>2. ~g.paused /\ UNCHANGED deliveryVars
    BY <1>7, <2>1 DEF SynthesizeReport, Step
  <2>3. StateInv(u) /\ u.status # "completed"
    BY <1>0, <2>2, ZenonT(30) DEF StateInv, States, Nodes, Edge, Final
  <2>4. QED
    BY <2>1, <2>2, <2>3, QuietStepKeepsInv
<1>8. CASE ValidateReport
  <2>1. CASE ~Invalid(g.draft)
    <3> DEFINE u == [g EXCEPT !.next = "verify_semantics", !.status = "persist_and_deliver"]
    <3>1. Step("validate_report", u) /\ ~g.paused /\ UNCHANGED deliveryVars
      BY <1>8, <2>1 DEF ValidateReport, Step
    <3>2. u \in States
      BY <1>0, UpdatesTyped DEF Nodes, Statuses
    <3>3. /\ u.next = "verify_semantics" /\ u.status = "persist_and_deliver"
          /\ ~u.paused /\ u.draft = g.draft
      BY <1>0, <3>1 DEF States
    <3> HIDE DEF u
    <3>4. QED
      BY <2>1, <3>1, <3>2, <3>3, QuietStepKeepsInv DEF StateInv, Final
  <2>2. CASE Invalid(g.draft) /\ g.retries < MaxSynthesisRetries
    <3> DEFINE u == [g EXCEPT !.next = "synthesize_report", !.status = "synthesize_report",
                              !.retries = @ + 1, !.draft = None]
    <3>1. Step("validate_report", u) /\ ~g.paused /\ UNCHANGED deliveryVars
      BY <1>8, <2>2 DEF ValidateReport, Step
    <3>2. g.retries + 1 \in 0..MaxSynthesisRetries
      BY WorkflowAssumption, <1>0, <2>2 DEF States
    <3>3. \A r \in 0..MaxSynthesisRetries :
            [g EXCEPT !.next = "synthesize_report", !.status = "synthesize_report",
                      !.retries = r, !.draft = None] \in States
      BY <1>0 DEF States, Nodes
    <3>4. u \in States
      BY <3>2, <3>3
    <3>5. u.next = "synthesize_report" /\ u.status = "synthesize_report" /\ ~u.paused
      BY <1>0, <3>1 DEF States
    <3>6. QED
      BY <3>1, <3>4, <3>5, QuietStepKeepsInv DEF StateInv, Final
  <2>3. CASE Invalid(g.draft) /\ ~(g.retries < MaxSynthesisRetries)
    <3> DEFINE u == [g EXCEPT !.next = Final, !.status = "failed", !.draft = None, !.errors = @ + 1]
    <3>1. Step("validate_report", u) /\ ~g.paused /\ UNCHANGED deliveryVars
      BY <1>8, <2>3 DEF ValidateReport, Step
    <3>2. u \in States
      BY <1>0, UpdatesTyped DEF Statuses
    <3>3. u.next = Final /\ u.status = "failed" /\ ~u.paused
      BY <1>0, <3>1 DEF States
    <3>4. QED
      BY <3>1, <3>2, <3>3, QuietStepKeepsInv DEF StateInv, Final
  <2>4. QED
    BY <2>1, <2>2, <2>3
<1>9. QED
  BY <1>1, <1>2, <1>3, <1>4, <1>5, <1>6, <1>7, <1>8

-----------------------------------------------------------------------------
(* Delivery: the row comes first, and whoever exports finds it.            *)
LEMMA PersistKeepsInv ==
  ASSUME IInv, PersistReport \/ PersistFails
  PROVE  IInv'
<1>0. StateInv(g) /\ g \in States
  BY DEF IInv, StatesInv, StateInv
<1>1. CASE PersistReport
  <2>1. /\ g.draft # None /\ ~Invalid(g.draft)
        /\ report' = IF report = None THEN g.draft ELSE report
        /\ export' = [export EXCEPT !["graph"] = "check"]
        /\ UNCHANGED <<run, alive, attempts, g, cp, steps, key, object>>
    BY <1>0, <1>1 DEF PersistReport, AtDelivery, StateInv
  <2>2. report' \in Drafts /\ (report # None => report' = report) /\ ~Invalid(report')
    BY <1>0, <2>1 DEF IInv, DeliveryInv, DeliveredIsValidated, States
  <2>3. DeliveryInv'
    BY <2>1, <2>2 DEF IInv, DeliveryInv, DeliveredIsValidated, AttachedIsStored, Exporters
  <2>4. QED
    BY <2>1, <2>2, <2>3 DEF IInv, StatesInv, CompletedInv, CompletedHasReport, Reported, CountInv
<1>2. CASE PersistFails
  <2> DEFINE u == [g EXCEPT !.next = Final, !.status = "failed", !.errors = @ + 1]
  <2>1. Step("persist_and_deliver", u) /\ ~g.paused /\ UNCHANGED deliveryVars
    BY <1>2 DEF PersistFails, Step
  <2>2. u \in States
    BY <1>0, UpdatesTyped DEF Statuses
  <2>3. u.next = Final /\ u.status = "failed" /\ ~u.paused
    BY <1>0, <2>1 DEF States
  <2>4. QED
    BY <2>1, <2>2, <2>3, QuietStepKeepsInv DEF StateInv, Final
<1>3. QED
  BY <1>1, <1>2

(* A caller of export_docx that is done: the graph's completes its run.    *)
LEMMA ExportDoneKeepsInv ==
  ASSUME IInv, NEW x \in Exporters, NEW failed \in BOOLEAN, ExportDone(x, failed),
         export[x] # "off", UNCHANGED report,
         key' \in BOOLEAN, object' \in BOOLEAN, key' => object', object => object'
  PROVE  IInv'
<1>1. export' = [export EXCEPT ![x] = "off"] /\ report # None
  BY DEF ExportDone, IInv, DeliveryInv
<1>2. DeliveryInv'
  BY <1>1 DEF IInv, DeliveryInv, DeliveredIsValidated, AttachedIsStored
<1>3. CASE x = "graph"
  <2> DEFINE u == [g EXCEPT !.next = Final, !.status = "completed",
                            !.errors = IF failed THEN @ + 1 ELSE @]
  <2>1. Step("persist_and_deliver", u) /\ ~g.paused /\ g' = u
    BY <1>3 DEF ExportDone, Step
  <2>2. StateInv(g) /\ g \in States
    BY DEF IInv, StatesInv, StateInv
  <2>3. u \in States
    <3>1. CASE failed
      BY <2>2, <3>1, UpdatesTyped DEF Statuses
    <3>2. CASE ~failed
      BY <2>2, <3>2 DEF States
    <3>3. QED
      BY <3>1, <3>2, SMTT(30)
  <2>4. u.next = Final /\ u.status = "completed" /\ ~u.paused
    BY <2>1, <2>2 DEF States
  <2>5. StateInv(u)
    BY <2>3, <2>4 DEF StateInv, Final
  <2>6. QED
    BY <1>1, <1>2, <2>1, <2>5, StepKeepsInv DEF Reported
<1>4. CASE x # "graph"
  <2>1. UNCHANGED <<run, alive, attempts, g, cp, steps>>
    BY <1>4 DEF ExportDone
  <2>2. QED
    BY <1>2, <2>1 DEF IInv, StatesInv, CompletedInv, CompletedHasReport, Reported, CountInv
<1>5. QED
  BY <1>3, <1>4

(* A caller that goes on, comes or goes away.                              *)
LEMMA ExportKeepsInv ==
  ASSUME IInv,
         \/ RetryDocx \/ RetryDocxAborts
         \/ \E x \in Exporters : ExportRender(x) \/ ExportPut(x)
  PROVE  IInv'
<1>1. UNCHANGED <<run, alive, attempts, g, cp, steps, report>>
  BY DEF RetryDocx, RetryDocxAborts, ExportRender, ExportPut
<1>2. PICK x \in Exporters, stage \in {"off", "check", "put", "attach"} :
        /\ export' = [export EXCEPT ![x] = stage]
        /\ report # None
        /\ stage = "attach" => object'
  BY DEF IInv, DeliveryInv, Exporters, Exporting, RetryDocx, RetryDocxAborts, ExportRender, ExportPut
<1>3. UNCHANGED key /\ object' \in BOOLEAN /\ (object => object')
  BY DEF IInv, DeliveryInv, RetryDocx, RetryDocxAborts, ExportRender, ExportPut
<1>4. DeliveryInv'
  BY <1>1, <1>2, <1>3 DEF IInv, DeliveryInv, DeliveredIsValidated, AttachedIsStored
<1>5. QED
  BY <1>1, <1>4 DEF IInv, StatesInv, CompletedInv, CompletedHasReport, Reported, CountInv

LEMMA ExportEndsKeepInv ==
  ASSUME IInv, NEW x \in Exporters, ExportFound(x) \/ ExportStoreFails(x) \/ ExportAttach(x)
  PROVE  IInv'
<1>1. PICK failed \in BOOLEAN : ExportDone(x, failed)
  BY DEF ExportFound, ExportStoreFails, ExportAttach
<1>2. export[x] # "off" /\ UNCHANGED report
  BY DEF ExportFound, ExportStoreFails, ExportAttach, Exporting
<1>3. key' \in BOOLEAN /\ object' \in BOOLEAN /\ (key' => object') /\ (object => object')
  <2>0. key \in BOOLEAN /\ object \in BOOLEAN /\ (key => object)
    BY DEF IInv, DeliveryInv, AttachedIsStored
  <2>1. CASE ExportFound(x)
    BY <2>0, <2>1 DEF ExportFound
  <2>2. CASE ExportStoreFails(x)
    <3>1. UNCHANGED key /\ (object' = object \/ object' = TRUE)
      BY <2>2 DEF ExportStoreFails
    <3>2. CASE UNCHANGED object
      BY <2>0, <3>1, <3>2
    <3>3. CASE object' = TRUE
      BY <2>0, <3>1, <3>3
    <3>4. QED
      BY <3>1, <3>2, <3>3
  <2>3. CASE ExportAttach(x)
    BY <2>0, <2>3 DEF ExportAttach, Exporting, IInv, DeliveryInv
  <2>4. QED
    BY <2>1, <2>2, <2>3
<1>4. QED
  BY <1>1, <1>2, <1>3, ExportDoneKeepsInv

-----------------------------------------------------------------------------
LEMMA NextKeepsIInv == IInv /\ [Next]_vars => IInv'
<1> SUFFICES ASSUME IInv, [Next]_vars PROVE IInv'
  OBVIOUS
<1>1. CASE Start \/ Confirm \/ Retry
  BY <1>1, DriveKeepsInv
<1>2. CASE Checkpoint
  BY <1>2, CheckpointKeepsInv
<1>3. CASE Finish \/ Abort
  BY <1>3, StopKeepsInv
<1>4. CASE Graph
  BY <1>4, NodesKeepInv, PersistKeepsInv, ExportKeepsInv, ExportEndsKeepInv DEF Graph
<1>5. CASE RetryDocx \/ RetryDocxAborts
  BY <1>5, ExportKeepsInv
<1>6. CASE UNCHANGED vars
  BY <1>6 DEF vars, deliveryVars, IInv, StatesInv, DeliveryInv, DeliveredIsValidated,
     AttachedIsStored, CompletedInv, CompletedHasReport, Reported, CountInv
<1>7. QED
  BY <1>1, <1>2, <1>3, <1>4, <1>5, <1>6 DEF Next

LEMMA Invariance == Spec => []IInv
BY InitIInv, NextKeepsIInv, PTL DEF Spec

(* RunState, checkpoint and row stay in their ranges; in particular no     *)
(* status of a node in progress reaches the row of the run.                *)
THEOREM WorkflowTypeCorrect == Spec => []TypeOK
<1>1. IInv => TypeOK
  BY DEF IInv, StatesInv, StateInv, DeliveryInv, CountInv, TypeOK
<1>2. QED
  BY <1>1, Invariance, PTL

(* No draft that validate_report rejects is ever delivered, however often  *)
(* the run is retried, resumed or started over.                            *)
THEOREM OnlyValidatedDelivered == Spec => []DeliveredIsValidated
<1>1. IInv => DeliveredIsValidated
  BY DEF IInv, DeliveryInv
<1>2. QED
  BY <1>1, Invariance, PTL

(* A completed run has its report row, wherever an execution has died.     *)
THEOREM CompletedIsReported == Spec => []CompletedHasReport
<1>1. IInv => CompletedHasReport
  BY DEF IInv, CompletedInv
<1>2. QED
  BY <1>1, Invariance, PTL

(* An attached key names a stored object, however two exports interleave.  *)
THEOREM AttachedKeyIsStored == Spec => []AttachedIsStored
<1>1. IInv => AttachedIsStored
  BY DEF IInv, DeliveryInv
<1>2. QED
  BY <1>1, Invariance, PTL

-----------------------------------------------------------------------------
(* Supersteps an invocation may still take from a node, apart from those   *)
(* of the synthesis retries that are left; a pause ends the invocation.    *)
StepsFrom == [parse_intent         |-> 11,
          validate_intent      |-> 10,
          confirm_intent       |-> 9,
          pause                |-> 1,
          build_retrieval_plan |-> 8,
          retrieve_candidates  |-> 7,
          resolve_duplicates   |-> 6,
          verify_evidence      |-> 5,
          synthesize_report    |-> 4,
          validate_report      |-> 3,
          verify_semantics     |-> 2,
          persist_and_deliver  |-> 1]

Left(n, retries) ==
    IF n = Final THEN 0
    ELSE IF n \in {"verify_semantics", "persist_and_deliver"} THEN StepsFrom[n]
    ELSE StepsFrom[n] + 2 * (MaxSynthesisRetries - retries)

LimitInv == alive /\ ~g.paused => steps + Left(g.next, g.retries) <= RecursionLimit

LEMMA LeftTyped ==
  ASSUME NEW n \in Nodes \cup {Final}, NEW r \in 0..MaxSynthesisRetries
  PROVE  /\ Left(n, r) \in Nat /\ Left(n, r) <= 11 + 2 * MaxSynthesisRetries
         /\ n # Final => Left(n, r) >= 1
BY WorkflowAssumption DEF Left, StepsFrom, Nodes, Final

(* Each superstep that does not pause uses up one of those that are left.  *)
LEMMA StepsAreCounted ==
  ASSUME IInv, Graph, steps' # steps, ~g'.paused
  PROVE  /\ alive /\ ~g.paused /\ steps' = steps + 1
         /\ Left(g'.next, g'.retries) + 1 <= Left(g.next, g.retries)
<1>0. /\ g \in States /\ MaxSynthesisRetries \in Nat /\ g.retries \in 0..MaxSynthesisRetries
      /\ g.next \in Nodes \cup {Final}
  BY WorkflowAssumption DEF IInv, StatesInv, StateInv, States
<1>1. PICK node, u : Step(node, u)
  BY DEF Graph, ParseIntent, ParseIntentFails, ValidateIntent, ConfirmIntent, Pause, Proceed,
     SynthesizeReport, ValidateReport, PersistReport, PersistFails, ExportFound, ExportRender,
     ExportPut, ExportStoreFails, ExportAttach, ExportDone
<1>2. alive /\ ~g.paused /\ steps' = steps + 1
  BY <1>1 DEF Step
<1>3. CASE ParseIntent \/ ParseIntentFails
  <2>1. g.next = "parse_intent" /\ g'.next = "validate_intent" /\ g'.retries = g.retries
    BY <1>0, <1>3 DEF ParseIntent, ParseIntentFails, Step, Edge, States
  <2>2. QED
    BY <1>0, <1>2, <2>1 DEF Left, StepsFrom, Final
<1>4. CASE ValidateIntent
  <2>1. g.next = "validate_intent" /\ g'.next \in {Final, "confirm_intent"} /\ g'.retries = g.retries
    BY <1>0, <1>4 DEF ValidateIntent, Step, States
  <2>2. QED
    BY <1>0, <1>2, <2>1 DEF Left, StepsFrom, Final
<1>5. CASE ConfirmIntent
  <2>1. g.next = "confirm_intent" /\ g'.next \in {"pause", "build_retrieval_plan"} /\ g'.retries = g.retries
    BY <1>0, <1>5 DEF ConfirmIntent, Step, States
  <2>2. QED
    BY <1>0, <1>2, <2>1 DEF Left, StepsFrom, Final
<1>6. CASE Pause
  <2>1. g'.paused
    BY <1>0, <1>6 DEF Pause, Step, States
  <2>2. QED
    BY <2>1
<1>7. CASE \E n \in DOMAIN StatusAfter : Proceed(n)
  <2>1. PICK n \in DOMAIN StatusAfter : Proceed(n)
    BY <1>7
  <2>2. g.next = n /\ g'.next = Edge[n] /\ g'.retries = g.retries
    BY <1>0, <2>1 DEF Proceed, Step, States
  <2>3. QED
    BY <1>0, <1>2, <2>2 DEF Left, StepsFrom, Final, Edge, StatusAfter
<1>8. CASE SynthesizeReport
  <2>1. g.next = "synthesize_report" /\ g'.next = "validate_report" /\ g'.retries = g.retries
    BY <1>0, <1>8 DEF SynthesizeReport, Step, Edge, States
  <2>2. QED
    BY <1>0, <1>2, <2>1 DEF Left, StepsFrom, Final
<1>9. CASE ValidateReport
  <2>1. g.next = "validate_report"
    BY <1>9 DEF ValidateReport, Step
  <2>2. \/ g'.next \in {Final, "verify_semantics"}
        \/ g'.next = "synthesize_report" /\ g'.retries = g.retries + 1
    BY <1>0, <1>9 DEF ValidateReport, Step, States
  <2>3. QED
    BY <1>0, <1>2, <2>1, <2>2 DEF Left, StepsFrom, Final
<1>10. CASE PersistReport \/ PersistFails \/ \E x \in Exporters :
              ExportFound(x) \/ ExportRender(x) \/ ExportPut(x) \/ ExportStoreFails(x) \/ ExportAttach(x)
  <2>1. g.next = "persist_and_deliver" /\ g'.next = Final
    BY <1>0, <1>10 DEF PersistReport, PersistFails, ExportFound, ExportRender, ExportPut,
       ExportStoreFails, ExportAttach, ExportDone, Step, States
  <2>2. QED
    BY <1>0, <1>2, <2>1 DEF Left, StepsFrom, Final
<1>11. QED
  BY <1>3, <1>4, <1>5, <1>6, <1>7, <1>8, <1>9, <1>10 DEF Graph

LEMMA NextKeepsLimit ==
  ASSUME RecursionLimit >= 11 + 2 * MaxSynthesisRetries, IInv, LimitInv, [Next]_vars
  PROVE  LimitInv'
<1>1. /\ IInv' /\ RecursionLimit \in Nat /\ MaxSynthesisRetries \in Nat
      /\ steps \in Nat /\ steps' \in Nat
  BY NextKeepsIInv, WorkflowAssumption DEF IInv, CountInv
<1>2. /\ Left(g.next, g.retries) \in Nat
      /\ Left(g'.next, g'.retries) \in Nat
      /\ Left(g'.next, g'.retries) <= 11 + 2 * MaxSynthesisRetries
  BY <1>1, LeftTyped DEF IInv, StatesInv, StateInv, States
<1>3. CASE Start \/ Confirm \/ Retry
  <2>1. steps' = 0
    BY <1>3 DEF Start, Confirm, Retry, Drive
  <2>2. QED
    BY <1>1, <1>2, <2>1 DEF LimitInv
<1>4. CASE Finish \/ Abort
  BY <1>4 DEF Finish, Abort, Stop, LimitInv
<1>5. CASE UNCHANGED <<alive, steps, g>>
  BY <1>5 DEF LimitInv
<1>6. CASE Graph /\ steps' # steps
  <2>1. CASE g'.paused
    BY <2>1 DEF LimitInv
  <2>2. CASE ~g'.paused
    <3>1. /\ alive /\ ~g.paused /\ steps' = steps + 1
          /\ Left(g'.next, g'.retries) + 1 <= Left(g.next, g.retries)
      BY <1>6, <2>2, StepsAreCounted
    <3>2. QED
      BY <1>1, <1>2, <3>1 DEF LimitInv
  <2>3. QED
    BY <2>1, <2>2
<1>7. CASE Graph /\ steps' = steps
  <2>1. \A node, u : ~Step(node, u)
    BY <1>1, <1>7 DEF Step
  <2>2. UNCHANGED <<alive, steps, g>>
    BY <1>7, <2>1 DEF Graph, ParseIntent, ParseIntentFails, ValidateIntent, ConfirmIntent, Pause,
       Proceed, SynthesizeReport, ValidateReport, PersistReport, PersistFails, ExportFound,
       ExportRender, ExportPut, ExportStoreFails, ExportAttach, ExportDone
  <2>3. QED
    BY <1>5, <2>2
<1>8. QED
  BY <1>3, <1>4, <1>5, <1>6, <1>7 DEF Next, Checkpoint, RetryDocx, RetryDocxAborts, vars

(* Where the recursion limit leaves room for the longest way through the   *)
(* graph, no pause, resume or synthesis retry ever meets it.               *)
THEOREM LimitIsNeverMet ==
  ASSUME RecursionLimit >= 11 + 2 * MaxSynthesisRetries
  PROVE  Spec => []WithinRecursionLimit
<1>1. Init => LimitInv
  BY DEF Init, LimitInv
<1>2. IInv /\ LimitInv /\ [Next]_vars => LimitInv'
  BY NextKeepsLimit
<1>3. IInv /\ LimitInv => WithinRecursionLimit
  <2> SUFFICES ASSUME IInv, LimitInv, alive, g.next # Final, ~g.paused PROVE steps < RecursionLimit
    BY DEF WithinRecursionLimit
  <2>1. Left(g.next, g.retries) \in Nat /\ Left(g.next, g.retries) >= 1
    BY LeftTyped DEF IInv, StatesInv, StateInv, States
  <2>2. steps \in Nat /\ RecursionLimit \in Nat
    BY WorkflowAssumption DEF IInv, CountInv
  <2>3. QED
    BY <2>1, <2>2 DEF LimitInv
<1>4. QED
  BY <1>1, <1>2, <1>3, Invariance, PTL DEF Spec

-----------------------------------------------------------------------------
(* What a run finds: Retrieval                                             *)

(* A finite set that is ordered can be sorted                              *)

Transitive(R, S) == \A u, v, w \in S : <<u, v>> \in R /\ <<v, w>> \in R => <<u, w>> \in R
Connected(R, S)  == \A u, v \in S : u = v \/ <<u, v>> \in R \/ <<v, u>> \in R

\* Of the finite sets that fail there is one that no longer does when any one of its
\* elements is taken away.
LEMMA Smallest ==
  ASSUME NEW S, NEW Failing \in SUBSET FiniteSubsetsOf(S), Failing # {}
  PROVE  \E T \in Failing :
            /\ T \subseteq S /\ IsFiniteSet(T)
            /\ \A x \in T : T \ {x} \notin Failing
<1>1. PICK T \in Failing : \A U \in Failing : <<U, T>> \notin StrictSubsetOrdering(S)
  BY FS_StrictSubsetOrderingWellFounded, WFMin
<1>2. T \subseteq S /\ IsFiniteSet(T)
  BY DEF FiniteSubsetsOf
<1>3. ASSUME NEW x \in T PROVE T \ {x} \notin Failing
  <2>1. IsFiniteSet(T \ {x})
    BY <1>2, FS_RemoveElement
  <2>2. T \ {x} \in FiniteSubsetsOf(S) /\ <<T \ {x}, T>> \in StrictSubsetOrdering(S)
    BY <1>2, <2>1 DEF FiniteSubsetsOf, StrictSubsetOrdering
  <2> QED
    BY <1>1, <2>2
<1> QED
  BY <1>1, <1>2, <1>3

LEMMA FirstExists ==
  ASSUME NEW S, NEW R, IsFiniteSet(S), S # {}, Transitive(R, S), Connected(R, S)
  PROVE  \E m \in S : \A v \in S : v = m \/ <<m, v>> \in R
<1> DEFINE First(T) == \E m \in T : \A v \in T : v = m \/ <<m, v>> \in R
           Failing == {T \in FiniteSubsetsOf(S) : T # {} /\ ~First(T)}
<1>1. SUFFICES Failing = {}
  BY DEF FiniteSubsetsOf
<1>2. SUFFICES ASSUME Failing # {} PROVE FALSE
  OBVIOUS
<1>3. PICK T \in Failing : T \subseteq S /\ IsFiniteSet(T) /\ \A x \in T : T \ {x} \notin Failing
  <2>1. Failing \in SUBSET FiniteSubsetsOf(S)
    OBVIOUS
  <2> HIDE DEF Failing
  <2> QED
    BY <1>2, <2>1, Smallest
<1>4. PICK x \in T : TRUE
  OBVIOUS
<1> DEFINE U == T \ {x}
<1>5. U = {} \/ First(U)
  <2>1. IsFiniteSet(U) /\ U \subseteq S
    BY <1>3, FS_RemoveElement
  <2> QED
    BY <1>3, <1>4, <2>1 DEF FiniteSubsetsOf
<1>6. CASE U = {}
  BY <1>4, <1>6
<1>7. CASE First(U)
  <2>1. PICK m \in U : \A v \in U : v = m \/ <<m, v>> \in R
    BY <1>7
  <2>2. x \in S /\ m \in S /\ x # m
    BY <1>3, <1>4, <2>1
  <2>3. CASE <<m, x>> \in R
    BY <2>1, <2>3
  <2>4. CASE <<x, m>> \in R
    <3>1. \A v \in T : v = x \/ <<x, v>> \in R
      BY <1>3, <2>1, <2>2, <2>4 DEF Transitive
    <3> QED
      BY <3>1, <1>4
  <2> QED
    BY <2>2, <2>3, <2>4 DEF Connected
<1> QED
  BY <1>5, <1>6, <1>7

\* An enumeration of a finite set names each of its elements once.
LEMMA Enumeration ==
  ASSUME NEW S, IsFiniteSet(S), NEW s \in SetToSeqs(S)
  PROVE  /\ s \in Seq(S) /\ Len(s) = Cardinality(S)
         /\ IsInjective(s) /\ Range(s) = S
<1>1. Cardinality(S) \in Nat
  BY FS_CardinalityType
<1>2. s \in [1..Cardinality(S) -> S] /\ IsInjective(s)
  BY DEF SetToSeqs, IsInjective
<1>3. s \in Seq(S) /\ Len(s) = Cardinality(S)
  BY <1>1, <1>2
<1>4. s \in Injection(1..Cardinality(S), S)
  BY <1>2 DEF Injection, IsInjective
<1>5. Cardinality(1..Cardinality(S)) = Cardinality(S)
  BY <1>1, FS_Interval
<1>6. s \in Surjection(1..Cardinality(S), S)
  BY <1>4, <1>5, FS_Injection
<1>7. Range(s) = S
  BY <1>2, <1>6 DEF Surjection, Range
<1> QED
  BY <1>2, <1>3, <1>7

LEMMA SortExists ==
  ASSUME NEW S, NEW R, IsFiniteSet(S), Transitive(R, S), Connected(R, S)
  PROVE  \E s \in SetToSeqs(S) : \A i, j \in DOMAIN s : i < j => <<s[i], s[j]>> \in R
<1> DEFINE Sorted(T) ==
             \E s \in SetToSeqs(T) : \A i, j \in DOMAIN s : i < j => <<s[i], s[j]>> \in R
           Failing == {T \in FiniteSubsetsOf(S) : ~Sorted(T)}
<1>1. SUFFICES Failing = {}
  BY DEF FiniteSubsetsOf
<1>2. SUFFICES ASSUME Failing # {} PROVE FALSE
  OBVIOUS
<1>3. PICK T \in Failing : T \subseteq S /\ IsFiniteSet(T) /\ \A x \in T : T \ {x} \notin Failing
  <2>1. Failing \in SUBSET FiniteSubsetsOf(S)
    OBVIOUS
  <2> HIDE DEF Failing
  <2> QED
    BY <1>2, <2>1, Smallest
<1>4. T # {}
  <2>1. Cardinality({}) = 0
    BY FS_EmptySet
  <2>2. <<>> \in SetToSeqs({})
    BY <2>1 DEF SetToSeqs
  <2>3. Sorted({})
    BY <2>2
  <2> QED
    BY <2>3
<1>5. PICK m \in T : \A v \in T : v = m \/ <<m, v>> \in R
  <2>1. Transitive(R, T) /\ Connected(R, T)
    BY <1>3 DEF Transitive, Connected
  <2> QED
    BY <1>3, <1>4, <2>1, FirstExists
<1> DEFINE U == T \ {m}
<1>6. IsFiniteSet(U) /\ Cardinality(U) = Cardinality(T) - 1 /\ Cardinality(T) \in Nat
  BY <1>3, FS_RemoveElement, FS_CardinalityType
<1>7. PICK s \in SetToSeqs(U) : \A i, j \in DOMAIN s : i < j => <<s[i], s[j]>> \in R
  <2>1. U \in FiniteSubsetsOf(S)
    BY <1>3, <1>6 DEF FiniteSubsetsOf
  <2>2. Sorted(U)
    BY <1>3, <1>5, <2>1
  <2> QED
    BY <2>2
<1> DEFINE n == Cardinality(T)
           t == [i \in 1..n |-> IF i = 1 THEN m ELSE s[i - 1]]
<1>8. s \in [1..(n - 1) -> U] /\ \A i, j \in 1..(n - 1) : i # j => s[i] # s[j]
  BY <1>6 DEF SetToSeqs
<1>9. n \in Nat
  BY <1>6
<1> HIDE DEF n, U
<1>10. \A i \in 1..n : i = 1 \/ i - 1 \in 1..(n - 1)
  BY <1>9
<1>11. U \subseteq T /\ m \notin U
  BY DEF U
<1>12. t \in [1..n -> T]
  BY <1>8, <1>10, <1>11
<1>13. \A i, j \in 1..n : i # j => t[i] # t[j]
  <2> SUFFICES ASSUME NEW i \in 1..n, NEW j \in 1..n, i # j PROVE t[i] # t[j]
    OBVIOUS
  <2>1. CASE i = 1
    BY <2>1, <1>8, <1>10, <1>11
  <2>2. CASE j = 1
    BY <2>2, <1>8, <1>10, <1>11
  <2>3. CASE i # 1 /\ j # 1
    <3>1. i - 1 \in 1..(n - 1) /\ j - 1 \in 1..(n - 1) /\ i - 1 # j - 1
      BY <2>3, <1>9
    <3> QED
      BY <2>3, <3>1, <1>8
  <2> QED
    BY <2>1, <2>2, <2>3
<1>14. ASSUME NEW i \in 1..n, NEW j \in 1..n, i < j PROVE <<t[i], t[j]>> \in R
  <2>1. j # 1 /\ j - 1 \in 1..(n - 1)
    BY <1>14, <1>9
  <2>2. CASE i = 1
    BY <2>1, <2>2, <1>5, <1>8, <1>11
  <2>3. CASE i # 1
    <3>1. i - 1 \in 1..(n - 1) /\ i - 1 < j - 1
      BY <2>1, <2>3, <1>14, <1>9
    <3>2. DOMAIN s = 1..(n - 1)
      BY <1>8
    <3> QED
      BY <2>1, <2>3, <3>1, <3>2, <1>7
  <2> QED
    BY <2>2, <2>3
<1>15. t \in SetToSeqs(T)
  BY <1>12, <1>13 DEF SetToSeqs, n
<1>16. DOMAIN t = 1..n
  BY <1>12
<1>17. Sorted(T)
  <2> HIDE DEF t
  <2> QED
    BY <1>14, <1>15, <1>16
<1> QED
  BY <1>3, <1>17

-----------------------------------------------------------------------------
(* Fractions                                                               *)

LEMMA Product ==
  ASSUME NEW a \in Nat, NEW b \in Nat
  PROVE  a * b \in Nat
OBVIOUS

LEMMA LessTimes ==
  ASSUME NEW a \in Int, NEW b \in Int, NEW c \in Nat \ {0}
  PROVE  a < b <=> a * c < b * c
<1>1. a * c \in Int /\ b * c \in Int /\ (b - a) * c = b * c - a * c
  OBVIOUS
<1>2. ASSUME a < b PROVE a * c < b * c
  <2>1. b - a \in Nat \ {0}
    BY <1>2
  <2>2. (b - a) * c > 0
    BY <2>1
  <2> QED
    BY <2>2, <1>1
<1>3. ASSUME b < a PROVE b * c < a * c
  <2>1. a - b \in Nat \ {0} /\ (a - b) * c = a * c - b * c
    BY <1>3
  <2>2. (a - b) * c > 0
    BY <2>1
  <2> QED
    BY <2>1, <2>2, <1>1
<1> QED
  BY <1>1, <1>2, <1>3

\* a/b >= c/d >= e/f, and which of them are equal.
LEMMA FractionsAreOrdered ==
  ASSUME NEW a \in Nat, NEW b \in Nat \ {0}, NEW c \in Nat, NEW d \in Nat \ {0},
         NEW e \in Nat, NEW f \in Nat \ {0},
         ~(c * b > a * d), ~(e * d > c * f)
  PROVE  /\ ~(e * b > a * f)
         /\ a * d > c * b \/ c * f > e * d => a * f > e * b
<1> DEFINE ad == a * d
           cb == c * b
           cf == c * f
           ed == e * d
           af == a * f
           eb == e * b
<1>1. ad \in Nat /\ cb \in Nat /\ cf \in Nat /\ ed \in Nat /\ af \in Nat /\ eb \in Nat
  BY Product
<1>2. ad * f = af * d /\ cb * f = cf * b /\ ed * b = eb * d
  OBVIOUS
<1>3. cb <= ad /\ ed <= cf
  BY <1>1
<1>4. (ad < cb <=> ad * f < cb * f) /\ (cb < ad <=> cb * f < ad * f)
  <2> HIDE DEF ad, cb
  <2> QED
    BY <1>1, LessTimes
<1>5. (cf < ed <=> cf * b < ed * b) /\ (ed < cf <=> ed * b < cf * b)
  <2> HIDE DEF cf, ed
  <2> QED
    BY <1>1, LessTimes
<1>6. (af < eb <=> af * d < eb * d) /\ (eb < af <=> eb * d < af * d)
  <2> HIDE DEF af, eb
  <2> QED
    BY <1>1, LessTimes
<1>7. /\ ad * f \in Nat /\ cb * f \in Nat /\ ed * b \in Nat /\ af * d \in Nat
      /\ eb * d \in Nat /\ cf * b \in Nat
  <2> HIDE DEF ad, cb, ed, af, eb, cf
  <2> QED
    BY <1>1, Product
<1>8. ~(af < eb) /\ (cb < ad \/ ed < cf => eb < af)
  <2> DEFINE A == ad * f
             B == cb * f
             C == ed * b
  <2>1. A \in Nat /\ B \in Nat /\ C \in Nat /\ af * d = A /\ cf * b = B /\ eb * d = C
    BY <1>2, <1>7
  <2>2. (ad < cb <=> A < B) /\ (cb < ad <=> B < A) /\ (cf < ed <=> B < C) /\ (ed < cf <=> C < B)
    BY <1>4, <1>5, <2>1
  <2>3. (af < eb <=> A < C) /\ (eb < af <=> C < A)
    BY <1>6, <2>1
  <2> HIDE DEF A, B, C, ad, cb, cf, ed, af, eb
  <2> QED
    BY <1>1, <1>3, <2>1, <2>2, <2>3
<1> HIDE DEF ad, cb, cf, ed, af, eb
<1>9. ~(eb > af) /\ (ad > cb \/ cf > ed => af > eb)
  BY <1>1, <1>8
<1> QED
  BY <1>9 DEF ad, cb, cf, ed, af, eb

\* 1/l + 1/w is more than 1/m + 1/x when l < m and w < x, and more than 1/m when l < m;
\* 1/l is more than 1/m.
LEMMA SumOfInverses ==
  ASSUME NEW l \in Nat \ {0}, NEW w \in Nat \ {0}, NEW m \in Nat \ {0}, NEW x \in Nat \ {0},
         l < m
  PROVE  /\ w < x => (l + w) * (m * x) > (m + x) * (l * w)
         /\ (l + w) * m > 1 * (l * w)
<1> DEFINE lm == l * m
           wx == w * x
           lw == l * w
           mw == m * w
<1>1. lm \in Nat /\ wx \in Nat /\ lw \in Nat /\ mw \in Nat /\ lm > 0 /\ wx > 0
  OBVIOUS
<1>2. lw < mw
  <2> USE LessTimes
  <2> QED
    OBVIOUS
<1>3. (l + w) * m = lm + mw
  OBVIOUS
<1>4. (l + w) * m > 1 * lw
  <2> HIDE DEF lm, wx, lw, mw
  <2> QED
    BY <1>1, <1>2, <1>3
<1>5. ASSUME w < x PROVE (l + w) * (m * x) > (m + x) * (l * w)
  <2>1. (l + w) * (m * x) = x * lm + m * wx
    OBVIOUS
  <2>2. (m + x) * (l * w) = w * lm + l * wx
    OBVIOUS
  <2> HIDE DEF lm, wx
  <2>3. w * lm < x * lm /\ l * wx < m * wx
    BY <1>1, <1>5, LessTimes
  <2>4. w * lm \in Nat /\ x * lm \in Nat /\ l * wx \in Nat /\ m * wx \in Nat
    BY <1>1, Product
  <2>5. w * lm + l * wx < x * lm + m * wx
    <3> DEFINE A == w * lm
               B == x * lm
               C == l * wx
               D == m * wx
    <3> HIDE DEF A, B, C, D
    <3>1. A \in Nat /\ B \in Nat /\ C \in Nat /\ D \in Nat /\ A < B /\ C < D
      BY <2>3, <2>4 DEF A, B, C, D
    <3>2. A + C < B + D
      BY <3>1
    <3> QED
      BY <3>2 DEF A, B, C, D
  <2> QED
    BY <2>1, <2>2, <2>5
<1> QED
  BY <1>4, <1>5

-----------------------------------------------------------------------------
(* Ranks and the fusion                                                    *)

\* A list that a ranked query returns.
Ranked(s) == s \in Seq(Versions) /\ IsInjective(s)

LEMMA RankOfElement ==
  ASSUME NEW s, Ranked(s), NEW i \in 1..Len(s)
  PROVE  s[i] \in Range(s) /\ Rank(s, s[i]) = i
<1>1. s \in Seq(Versions) /\ DOMAIN s = 1..Len(s) /\ IsInjective(s)
  BY DEF Ranked
<1>2. {j \in 1..Len(s) : s[j] = s[i]} = {i}
  BY <1>1 DEF IsInjective
<1>3. Min({i}) = i
  BY DEF Min
<1>4. Rank(s, s[i]) = Min({j \in 1..Len(s) : s[j] = s[i]})
  BY <1>2 DEF Rank, SelectInSeq
<1> QED
  BY <1>1, <1>2, <1>3, <1>4 DEF Range

LEMMA RankIsPlace ==
  ASSUME NEW s, Ranked(s), NEW v \in Range(s)
  PROVE  Rank(s, v) \in 1..Len(s) /\ s[Rank(s, v)] = v
<1>1. PICK i \in 1..Len(s) : v = s[i]
  BY DEF Range, Ranked
<1> QED
  BY <1>1, RankOfElement

\* Ranks tell the elements of a list apart.
LEMMA RanksDiffer ==
  ASSUME NEW s, Ranked(s), NEW v \in Range(s), NEW w \in Range(s), v # w
  PROVE  Rank(s, v) # Rank(s, w)
BY RankIsPlace

\* The lists of the search, and what they name.
ListsInv == Ranked(lexical) /\ Ranked(vector)
Listed == Range(lexical) \cup Range(vector)

LEMMA ListedIsFinite ==
  ASSUME ListsInv
  PROVE  IsFiniteSet(Listed) /\ Listed \subseteq Versions
<1>1. Range(lexical) \subseteq Versions /\ Range(vector) \subseteq Versions
  BY DEF ListsInv, Ranked, Range
<1> QED
  BY <1>1, RetrievalAssumption, FS_Subset DEF Listed

LEMMA ScoreIsFraction ==
  ASSUME ListsInv, NEW v \in Listed
  PROVE  /\ Score(v)[1] \in Nat /\ Score(v)[2] \in Nat \ {0}
         /\ v \notin Range(vector) => Score(v) = <<1, RrfK + Rank(lexical, v)>>
         /\ v \notin Range(lexical) => Score(v) = <<1, RrfK + Rank(vector, v)>>
         /\ v \in Range(lexical) /\ v \in Range(vector) =>
              Score(v) = <<(RrfK + Rank(lexical, v)) + (RrfK + Rank(vector, v)),
                           (RrfK + Rank(lexical, v)) * (RrfK + Rank(vector, v))>>
<1> DEFINE l == RrfK + Rank(lexical, v)
           w == RrfK + Rank(vector, v)
<1>1. RrfK \in Nat \ {0}
  BY RetrievalAssumption
<1>2. v \in Range(lexical) => l \in Nat \ {0}
  BY <1>1, RankIsPlace DEF ListsInv, Ranked
<1>3. v \in Range(vector) => w \in Nat \ {0}
  BY <1>1, RankIsPlace DEF ListsInv, Ranked
<1>4. Score(v) = CASE v \notin Range(vector) -> <<1, l>>
                   [] v \notin Range(lexical) -> <<1, w>>
                   [] OTHER -> <<l + w, l * w>>
  BY DEF Score
<1> HIDE DEF l, w
<1>5. v \in Range(lexical) \/ v \in Range(vector)
  BY DEF Listed
<1>6. v \notin Range(vector) => Score(v) = <<1, l>>
  BY <1>4, <1>5
<1>7. v \notin Range(lexical) => Score(v) = <<1, w>>
  BY <1>4, <1>5
<1>8. v \in Range(lexical) /\ v \in Range(vector) => Score(v) = <<l + w, l * w>>
  BY <1>4
<1>9. l \in Nat \ {0} /\ w \in Nat \ {0} => l + w \in Nat /\ l * w \in Nat \ {0}
  OBVIOUS
<1>10. Score(v)[1] \in Nat /\ Score(v)[2] \in Nat \ {0}
  BY <1>2, <1>3, <1>5, <1>6, <1>7, <1>8, <1>9
<1> QED
  BY <1>6, <1>7, <1>8, <1>10 DEF l, w

\* The order of the fused list, as a set of pairs.
FusedOrder == {p \in Listed \X Listed : FusedBefore(p[1], p[2])}

LEMMA HigherIsTransitive ==
  ASSUME ListsInv, NEW u \in Listed, NEW v \in Listed, NEW w \in Listed,
         ~Higher(v, u), ~Higher(w, v)
  PROVE  ~Higher(w, u) /\ (Higher(u, v) \/ Higher(v, w) => Higher(u, w))
<1>1. /\ Score(u)[1] \in Nat /\ Score(u)[2] \in Nat \ {0}
      /\ Score(v)[1] \in Nat /\ Score(v)[2] \in Nat \ {0}
      /\ Score(w)[1] \in Nat /\ Score(w)[2] \in Nat \ {0}
  BY ScoreIsFraction
<1>2. ~(Score(v)[1] * Score(u)[2] > Score(u)[1] * Score(v)[2])
      /\ ~(Score(w)[1] * Score(v)[2] > Score(v)[1] * Score(w)[2])
  BY DEF Higher
<1> DEFINE a == Score(u)[1]
           b == Score(u)[2]
           c == Score(v)[1]
           d == Score(v)[2]
           e == Score(w)[1]
           f == Score(w)[2]
<1> HIDE DEF a, b, c, d, e, f
<1>3. /\ a \in Nat /\ b \in Nat \ {0} /\ c \in Nat /\ d \in Nat \ {0}
      /\ e \in Nat /\ f \in Nat \ {0} /\ ~(c * b > a * d) /\ ~(e * d > c * f)
  BY <1>1, <1>2 DEF a, b, c, d, e, f
<1>4. ~(e * b > a * f) /\ (a * d > c * b \/ c * f > e * d => a * f > e * b)
  BY <1>3, FractionsAreOrdered
<1> QED
  BY <1>4 DEF Higher, a, b, c, d, e, f

LEMMA HigherIsAsymmetric ==
  ASSUME ListsInv, NEW v \in Listed, NEW w \in Listed, Higher(v, w)
  PROVE  ~Higher(w, v)
<1>1. /\ Score(v)[1] \in Nat /\ Score(v)[2] \in Nat
      /\ Score(w)[1] \in Nat /\ Score(w)[2] \in Nat
  BY ScoreIsFraction
<1>2. Score(v)[1] * Score(w)[2] \in Nat /\ Score(w)[1] * Score(v)[2] \in Nat
  BY <1>1, Product
<1> QED
  BY <1>2 DEF Higher

LEMMA NamedIsOrder ==
  ASSUME ListsInv
  PROVE  /\ \A u, v, w \in Listed :
              NamedBefore(u, v) /\ NamedBefore(v, w) => NamedBefore(u, w)
         /\ \A v, w \in Listed : v = w \/ NamedBefore(v, w) \/ NamedBefore(w, v)
<1>1. /\ \A v \in Range(lexical) : Rank(lexical, v) \in Int
      /\ \A v \in Range(vector) : Rank(vector, v) \in Int
  BY RankIsPlace DEF ListsInv, Ranked
<1>2. /\ \A v, w \in Range(lexical) : v # w => Rank(lexical, v) # Rank(lexical, w)
      /\ \A v, w \in Range(vector) : v # w => Rank(vector, v) # Rank(vector, w)
  BY RanksDiffer DEF ListsInv
<1>3. ASSUME NEW u \in Listed, NEW v \in Listed, NEW w \in Listed,
             NamedBefore(u, v), NamedBefore(v, w)
      PROVE  NamedBefore(u, w)
  BY <1>1, <1>3 DEF NamedBefore, Ahead, Listed
<1>4. ASSUME NEW v \in Listed, NEW w \in Listed, v # w
      PROVE  NamedBefore(v, w) \/ NamedBefore(w, v)
  BY <1>1, <1>2, <1>4 DEF NamedBefore, Ahead, Listed
<1> QED
  BY <1>3, <1>4

LEMMA FusedOrderSorts ==
  ASSUME ListsInv
  PROVE  Transitive(FusedOrder, Listed) /\ Connected(FusedOrder, Listed)
<1>1. ASSUME NEW u \in Listed, NEW v \in Listed, NEW w \in Listed,
             FusedBefore(u, v), FusedBefore(v, w)
      PROVE  FusedBefore(u, w)
  <2>1. ~Higher(v, u) /\ ~Higher(w, v)
    BY <1>1, HigherIsAsymmetric DEF FusedBefore
  <2>2. ~Higher(w, u) /\ (Higher(u, v) \/ Higher(v, w) => Higher(u, w))
    BY <2>1, HigherIsTransitive
  <2> QED
    BY <1>1, <2>1, <2>2, NamedIsOrder DEF FusedBefore
<1>2. ASSUME NEW v \in Listed, NEW w \in Listed, v # w
      PROVE  FusedBefore(v, w) \/ FusedBefore(w, v)
  BY <1>2, NamedIsOrder DEF FusedBefore
<1>3. \A v, w \in Listed : <<v, w>> \in FusedOrder <=> FusedBefore(v, w)
  BY DEF FusedOrder
<1>4. Transitive(FusedOrder, Listed)
  BY <1>1, <1>3 DEF Transitive
<1>5. Connected(FusedOrder, Listed)
  BY <1>2, <1>3 DEF Connected
<1> QED
  BY <1>4, <1>5

\* The fused list names what the lists name, once each and in the order of the fusion.
LEMMA FusedIsSorted ==
  ASSUME ListsInv
  PROVE  /\ Ranked(Fused) /\ Range(Fused) = Listed
         /\ Len(Fused) = Cardinality(Listed)
         /\ \A i, j \in DOMAIN Fused : i < j => FusedBefore(Fused[i], Fused[j])
<1>1. IsFiniteSet(Listed) /\ Listed \subseteq Versions
  BY ListedIsFinite
<1>2. \E s \in SetToSeqs(Listed) : \A i, j \in DOMAIN s : i < j => <<s[i], s[j]>> \in FusedOrder
  BY <1>1, FusedOrderSorts, SortExists
<1>3. \E s \in SetToSeqs(Listed) : \A i, j \in DOMAIN s : i < j => FusedBefore(s[i], s[j])
  BY <1>2 DEF FusedOrder
<1>4. Fused \in SetToSeqs(Listed)
      /\ \A i, j \in DOMAIN Fused : i < j => FusedBefore(Fused[i], Fused[j])
  BY <1>3 DEF Fused, Listed
<1>5. /\ Fused \in Seq(Listed) /\ Len(Fused) = Cardinality(Listed)
      /\ IsInjective(Fused) /\ Range(Fused) = Listed
  BY <1>1, <1>4, Enumeration
<1>6. Fused \in Seq(Versions)
  BY <1>1, <1>5
<1> QED
  BY <1>4, <1>5, <1>6 DEF Ranked

\* Where one list puts v ahead of w and the other does not object, v has the higher score.
LEMMA AgreementIsHigher ==
  ASSUME ListsInv, NEW v \in Listed, NEW w \in Listed,
         Ahead(lexical, v, w) \/ Ahead(vector, v, w),
         NotBehind(lexical, v, w), NotBehind(vector, v, w)
  PROVE  Higher(v, w)
<1> DEFINE l(x) == RrfK + Rank(lexical, x)
           r(x) == RrfK + Rank(vector, x)
<1>1. RrfK \in Nat \ {0}
  BY RetrievalAssumption
<1>2. \A x \in Range(lexical) : l(x) \in Nat \ {0} /\ Rank(lexical, x) \in Int
  BY <1>1, RankIsPlace DEF ListsInv, Ranked
<1>3. \A x \in Range(vector) : r(x) \in Nat \ {0} /\ Rank(vector, x) \in Int
  BY <1>1, RankIsPlace DEF ListsInv, Ranked
<1>4. w \in Range(lexical) => v \in Range(lexical) /\ l(v) < l(w)
  BY <1>1, <1>2 DEF NotBehind, Ahead
<1>5. w \in Range(vector) => v \in Range(vector) /\ r(v) < r(w)
  BY <1>1, <1>3 DEF NotBehind, Ahead
<1>6. /\ \A x \in Listed : x \notin Range(vector) => Score(x) = <<1, l(x)>>
      /\ \A x \in Listed : x \notin Range(lexical) => Score(x) = <<1, r(x)>>
      /\ \A x \in Listed : x \in Range(lexical) /\ x \in Range(vector) =>
            Score(x) = <<l(x) + r(x), l(x) * r(x)>>
  BY ScoreIsFraction
<1> HIDE DEF l, r
<1>7. CASE w \in Range(lexical) /\ w \in Range(vector)
  <2>1. (l(v) + r(v)) * (l(w) * r(w)) > (l(w) + r(w)) * (l(v) * r(v))
    BY <1>2, <1>3, <1>4, <1>5, <1>7, SumOfInverses
  <2> QED
    BY <2>1, <1>4, <1>5, <1>6, <1>7 DEF Higher
<1>8. CASE w \in Range(lexical) /\ w \notin Range(vector)
  <2>1. l(v) \in Nat /\ l(w) \in Nat /\ l(v) < l(w) /\ Score(w) = <<1, l(w)>>
    BY <1>2, <1>4, <1>6, <1>8
  <2>2. CASE v \in Range(vector)
    <3>1. (l(v) + r(v)) * l(w) > 1 * (l(v) * r(v))
      BY <1>2, <1>3, <1>4, <1>8, <2>2, SumOfInverses
    <3> QED
      BY <3>1, <2>1, <2>2, <1>4, <1>6, <1>8 DEF Higher
  <2>3. CASE v \notin Range(vector)
    <3>1. Score(v) = <<1, l(v)>>
      BY <1>6, <2>3
    <3> QED
      BY <2>1, <3>1 DEF Higher
  <2> QED
    BY <2>2, <2>3
<1>9. CASE w \notin Range(lexical) /\ w \in Range(vector)
  <2>1. r(v) \in Nat /\ r(w) \in Nat /\ r(v) < r(w) /\ Score(w) = <<1, r(w)>>
    BY <1>3, <1>5, <1>6, <1>9
  <2>2. CASE v \in Range(lexical)
    <3>1. (r(v) + l(v)) * r(w) > 1 * (r(v) * l(v))
      BY <1>2, <1>3, <1>5, <1>9, <2>2, SumOfInverses
    <3>2. r(v) + l(v) = l(v) + r(v) /\ r(v) * l(v) = l(v) * r(v)
      BY <1>2, <2>1, <2>2
    <3> QED
      BY <3>1, <3>2, <2>1, <2>2, <1>5, <1>6, <1>9 DEF Higher
  <2>3. CASE v \notin Range(lexical)
    <3>1. Score(v) = <<1, r(v)>>
      BY <1>6, <2>3
    <3> QED
      BY <2>1, <3>1 DEF Higher
  <2> QED
    BY <2>2, <2>3
<1> QED
  BY <1>7, <1>8, <1>9 DEF Listed

-----------------------------------------------------------------------------
(* The pairs                                                               *)

\* A number is a * n + b for one a and one b below n.
LEMMA DivisionIsUnique ==
  ASSUME NEW n \in Nat \ {0}, NEW a \in Nat, NEW b \in 0..(n - 1)
  PROVE  /\ (a * n + b) \div n = a
         /\ (a * n + b) % n = b
OBVIOUS

\* What the pairs up to the k-th say.
Decision(p) == Classify(corpus[p[1]], corpus[p[2]])
Grouped(p)  == p[1] # p[2] /\ Decision(p) # "distinct"
GroupOf(p)  == [pair |-> p, by |-> IF Decision(p) = "exact" THEN "rules" ELSE "model"]
GroupsUpTo(k) == {GroupOf(Pair(i)) : i \in {j \in 1..k : Grouped(Pair(j))}}

\* Each pair of candidates is compared.
LEMMA PairsAreAll ==
  ASSUME NEW n \in Nat, Len(found) = n
  PROVE  /\ Pairs \in Nat
         /\ \A k \in 1..Pairs : \E i, j \in 1..n : Pair(k) = <<found[i], found[j]>>
         /\ \A i, j \in 1..n : \E k \in 1..Pairs : Pair(k) = <<found[i], found[j]>>
<1>1. Pairs = n * n /\ Pairs \in Nat
  BY DEF Pairs
<1>2. ASSUME NEW k \in 1..Pairs
      PROVE  \E i, j \in 1..n : Pair(k) = <<found[i], found[j]>>
  <2>1. n # 0
    BY <1>1, <1>2
  <2> DEFINE a == (k - 1) \div n
             b == (k - 1) % n
  <2>2. k - 1 \in Nat /\ k - 1 < n * n
    BY <1>1, <1>2
  <2>3. a \in Nat /\ b \in 0..(n - 1) /\ k - 1 = n * a + b
    BY <2>1, <2>2
  <2>4. a < n
    <3> SUFFICES ASSUME n <= a PROVE FALSE
      BY <2>3
    <3> HIDE DEF a, b
    <3>1. n * n <= n * a
      <4>1. a - n \in Nat /\ n * a = n * n + n * (a - n)
        BY <2>3
      <4>2. n * (a - n) \in Nat
        BY <4>1
      <4> QED
        BY <4>1, <4>2
    <3>2. n * n \in Nat /\ n * a \in Nat
      BY <2>3
    <3> QED
      BY <2>2, <2>3, <3>1, <3>2
  <2>5. Pair(k) = <<found[1 + a], found[1 + b]>>
    BY DEF Pair
  <2> HIDE DEF a, b
  <2>6. 1 + a \in 1..n /\ 1 + b \in 1..n
    BY <2>3, <2>4
  <2> QED
    BY <2>5, <2>6
<1>3. ASSUME NEW i \in 1..n, NEW j \in 1..n
      PROVE  \E k \in 1..Pairs : Pair(k) = <<found[i], found[j]>>
  <2> DEFINE m == (i - 1) * n
             k == m + (j - 1) + 1
  <2>1. i - 1 \in Nat /\ j - 1 \in 0..(n - 1) /\ n \in Nat \ {0}
    OBVIOUS
  <2>2. m \in Nat /\ m + n <= n * n
    <3>1. m + n = i * n /\ i * n + (n - i) * n = n * n
      OBVIOUS
    <3>2. m \in Nat /\ i * n \in Nat /\ (n - i) * n \in Nat
      BY <2>1, Product
    <3> QED
      BY <3>1, <3>2
  <2>3. k - 1 = m + (j - 1)
    BY <2>1, <2>2
  <2>4. (k - 1) \div n = i - 1 /\ (k - 1) % n = j - 1
    <3>1. ((i - 1) * n + (j - 1)) \div n = i - 1 /\ ((i - 1) * n + (j - 1)) % n = j - 1
      BY <2>1, DivisionIsUnique
    <3> HIDE DEF k
    <3> QED
      BY <2>3, <3>1
  <2>5. Pair(k) = <<found[1 + (i - 1)], found[1 + (j - 1)]>>
    BY <2>4 DEF Pair
  <2>6. k \in 1..Pairs
    <3> HIDE DEF m
    <3> QED
      BY <1>1, <2>1, <2>2
  <2>7. 1 + (i - 1) = i /\ 1 + (j - 1) = j
    OBVIOUS
  <2> HIDE DEF k
  <2> QED
    BY <2>5, <2>6, <2>7
<1> QED
  BY <1>1, <1>2, <1>3

\* The rules do not mind which notice comes first.
LEMMA ClassifyIsSymmetric ==
  ASSUME NEW x, NEW y
  PROVE  Classify(x, y) = Classify(y, x)
<1> DEFINE Same(v, w) == \/ v.hash = w.hash
                         \/ SameNumber(v, w)
                         \/ v.source = w.source /\ Says(v.url) = Says(w.url)
<1>1. Same(x, y) <=> Same(y, x)
  BY DEF SameNumber
<1>2. Conflict(x, y) <=> Conflict(y, x)
  BY DEF Conflict
<1>3. ASSUME NEW v, NEW w
      PROVE  Classify(v, w) = IF Same(v, w) THEN "exact"
                              ELSE IF Conflict(v, w) THEN "distinct" ELSE "ambiguous"
  BY DEF Classify
<1> HIDE DEF Same
<1> QED
  BY <1>1, <1>2, <1>3

LEMMA GroupsAreMutual ==
  ASSUME NEW n \in Nat, Len(found) = n, groups = GroupsUpTo(Pairs)
  PROVE  \A d \in groups : [d EXCEPT !.pair = <<@[2], @[1]>>] \in groups
<1> SUFFICES ASSUME NEW d \in groups
             PROVE  [d EXCEPT !.pair = <<@[2], @[1]>>] \in groups
  OBVIOUS
<1>1. PICK k \in 1..Pairs : Grouped(Pair(k)) /\ d = GroupOf(Pair(k))
  BY DEF GroupsUpTo
<1>2. PICK i \in 1..n, j \in 1..n : Pair(k) = <<found[i], found[j]>>
  BY PairsAreAll
<1>3. PICK m \in 1..Pairs : Pair(m) = <<found[j], found[i]>>
  BY PairsAreAll
<1>4. Decision(Pair(k)) = Decision(Pair(m))
  BY <1>2, <1>3, ClassifyIsSymmetric DEF Decision
<1>5. Grouped(Pair(m))
  BY <1>1, <1>2, <1>3, <1>4 DEF Grouped
<1>6. [d EXCEPT !.pair = <<@[2], @[1]>>] = GroupOf(Pair(m))
  BY <1>1, <1>2, <1>3, <1>4 DEF GroupOf
<1>7. GroupOf(Pair(m)) \in GroupsUpTo(Pairs)
  BY <1>5 DEF GroupsUpTo
<1> QED
  BY <1>6, <1>7

-----------------------------------------------------------------------------
(* What the run has found so far                                           *)

\* The lists name what the filters admit, and the first all of it or top_k.
SearchInv ==
    /\ at \in {"filter", "lexical", "embed", "vector", "fuse", "resolve", "failed", "done"}
    /\ library \subseteq Versions /\ embedded \subseteq library /\ admitted \subseteq Versions
    /\ ListsInv /\ Listed \subseteq admitted
    /\ at = "filter" => lexical = <<>> /\ vector = <<>>
    /\ at \notin {"filter", "lexical"} => admitted \subseteq Range(lexical) \/ Len(lexical) >= TopK

FoundInv == found = IF Searched THEN Fused ELSE <<>>

\* The pairs before the next one are decided.
PairsInv == next \in 1..(Pairs + 1) /\ groups = GroupsUpTo(next - 1)

EvidenceInv ==
    at = "done" =>
        /\ opportunities = [i \in DOMAIN found |-> [version |-> found[i], spans |-> Spans(found[i])]]
        /\ evidence = EvidenceOf

RetrievalInv == SearchInv /\ FoundInv /\ PairsInv /\ EvidenceInv

\* A ranked query returns top_k of the rows it ranks, or all of them.
LEMMA RankedByIsRanked ==
  ASSUME NEW S \in SUBSET Versions, NEW score, NEW s \in RankedBy(S, score)
  PROVE  /\ Ranked(s) /\ Range(s) \subseteq S
         /\ S \subseteq Range(s) \/ Len(s) >= TopK
<1>1. TopK \in Nat \ {0} /\ IsFiniteSet(S)
  BY RetrievalAssumption, FS_Subset
<1>2. PICK t \in SetToSeqs(S) : s = SubSeq(t, 1, IF Len(t) < TopK THEN Len(t) ELSE TopK)
  BY DEF RankedBy
<1>3. t \in Seq(S) /\ IsInjective(t) /\ Range(t) = S
  BY <1>1, <1>2, Enumeration
<1>4. CASE Len(t) < TopK
  <2>1. s = t
    BY <1>2, <1>3, <1>4
  <2> QED
    BY <1>3, <2>1 DEF Ranked
<1>5. CASE ~(Len(t) < TopK)
  <2>1. s = SubSeq(t, 1, TopK) /\ TopK \in 1..Len(t)
    BY <1>1, <1>2, <1>3, <1>5
  <2>2. s \in Seq(S) /\ Len(s) = TopK /\ \A i \in 1..TopK : s[i] = t[i]
    BY <1>1, <1>3, <2>1
  <2>3. IsInjective(s) /\ Range(s) \subseteq S
    BY <1>3, <2>1, <2>2 DEF IsInjective, Range
  <2> QED
    BY <1>1, <2>2, <2>3 DEF Ranked
<1> QED
  BY <1>4, <1>5

LEMMA NothingIsRanked == Ranked(<<>>) /\ Range(<<>>) = {}
BY DEF Ranked, IsInjective, Range

LEMMA RetrievalBegins ==
  ASSUME RetrievalInit
  PROVE  RetrievalInv
<1> USE DEF RetrievalInit
<1>1. SearchInv
  BY NothingIsRanked DEF SearchInv, ListsInv, Listed
<1>2. FoundInv
  BY DEF FoundInv, Searched
<1>3. PairsInv
  <2>1. Pairs = 0
    BY DEF Pairs
  <2> QED
    BY <2>1 DEF PairsInv, GroupsUpTo
<1>4. EvidenceInv
  BY DEF EvidenceInv
<1> QED
  BY <1>1, <1>2, <1>3, <1>4 DEF RetrievalInv

\* A step of the search, before anything is found.
LEMMA SearchKeepsInv ==
  ASSUME RetrievalInv, Filter \/ LexicalRecall \/ EmbedQuery \/ VectorRecall
  PROVE  RetrievalInv'
<1>1. ~Searched /\ ~Searched' /\ UNCHANGED <<corpus, found, next, reportVars>>
  BY DEF Filter, LexicalRecall, EmbedQuery, VectorRecall, Searched, Goto, reportVars
<1>2. FoundInv'
  BY <1>1 DEF RetrievalInv, FoundInv
<1>3. PairsInv'
  BY <1>1 DEF RetrievalInv, PairsInv, Pairs, GroupsUpTo, GroupOf, Grouped, Decision, Pair,
              reportVars
<1>4. EvidenceInv'
  BY <1>1 DEF EvidenceInv, Searched
<1>5. SearchInv'
  <2> USE DEF RetrievalInv, SearchInv, Goto, storeVars
  <2>1. CASE Filter
    <3>1. admitted' \subseteq Versions /\ UNCHANGED <<library, embedded, lexical, vector>>
      BY <2>1 DEF Filter
    <3>2. Listed' = {}
      BY <2>1, <3>1, NothingIsRanked DEF Listed, Filter
    <3> QED
      BY <2>1, <3>1, <3>2 DEF Filter, ListsInv
  <2>2. CASE LexicalRecall
    <3>1. lexical' \in RankedBy(admitted, Similarity) /\ admitted \in SUBSET Versions
      BY <2>2 DEF LexicalRecall
    <3>2. /\ Ranked(lexical') /\ Range(lexical') \subseteq admitted
          /\ admitted \subseteq Range(lexical') \/ Len(lexical') >= TopK
      BY <3>1, RankedByIsRanked
    <3> QED
      BY <2>2, <3>2 DEF LexicalRecall, ListsInv, Listed
  <2>3. CASE EmbedQuery
    <3>1. UNCHANGED <<library, embedded, admitted, lexical, vector>>
          /\ at = "embed" /\ at' \in {"fuse", "vector"}
      BY <2>3 DEF EmbedQuery
    <3> QED
      BY <3>1 DEF ListsInv, Listed
  <2>4. CASE VectorRecall
    <3>1. PICK S \in SUBSET (admitted \cap embedded) : vector' \in RankedBy(S, Nearness)
      BY <2>4 DEF VectorRecall
    <3>2. S \in SUBSET Versions /\ S \subseteq admitted
      OBVIOUS
    <3>3. Ranked(vector') /\ Range(vector') \subseteq admitted
      BY <3>1, <3>2, RankedByIsRanked
    <3> QED
      BY <2>4, <3>3 DEF VectorRecall, ListsInv, Listed
  <2> QED
    BY <2>1, <2>2, <2>3, <2>4
<1> QED
  BY <1>2, <1>3, <1>4, <1>5 DEF RetrievalInv

\* The candidates are a list without repetitions.
LEMMA FoundIsRanked ==
  ASSUME RetrievalInv
  PROVE  Ranked(found) /\ Len(found) \in Nat
<1>1. Ranked(found)
  BY FusedIsSorted, NothingIsRanked DEF RetrievalInv, SearchInv, FoundInv
<1> QED
  BY <1>1 DEF Ranked

LEMMA FuseKeepsInv ==
  ASSUME RetrievalInv, Fuse
  PROVE  RetrievalInv'
<1>1. /\ UNCHANGED <<library, embedded, admitted, lexical, vector, corpus, reportVars>>
      /\ at = "fuse" /\ at' = "resolve" /\ found' = Fused /\ next' = 1
  BY DEF Fuse, Goto, storeVars, searchVars
<1>2. SearchInv'
  BY <1>1 DEF RetrievalInv, SearchInv, ListsInv, Listed
<1>3. Fused' = Fused
  BY <1>1 DEF Fused, FusedBefore, NamedBefore, Ahead, Higher, Score
<1>4. FoundInv'
  BY <1>1, <1>3 DEF FoundInv, Searched
<1>5. PairsInv'
  <2>1. Ranked(found')
    BY <1>1, FusedIsSorted DEF RetrievalInv, SearchInv
  <2>2. Pairs' \in Nat
    <3>1. Len(found') \in Nat
      BY <2>1 DEF Ranked
    <3> QED
      BY <3>1, Product DEF Pairs
  <2>3. groups = {}
    <3>1. found = <<>> /\ Pairs = 0
      BY <1>1 DEF RetrievalInv, FoundInv, Searched, Pairs
    <3> QED
      BY <3>1 DEF RetrievalInv, PairsInv, GroupsUpTo
  <2>4. (GroupsUpTo(next - 1))' = {}
    <3>1. 1..(next' - 1) = {}
      BY <1>1
    <3> QED
      BY <3>1 DEF GroupsUpTo
  <2> QED
    <3>1. groups' = {} /\ next' = 1
      BY <1>1, <2>3 DEF reportVars
    <3>2. 1 \in 1..(Pairs' + 1)
      <4>1. \A m \in Nat : 1 \in 1..(m + 1)
        OBVIOUS
      <4> QED
        BY <2>2, <4>1
    <3> QED
      BY <2>4, <3>1, <3>2 DEF PairsInv
<1>6. EvidenceInv'
  BY <1>1 DEF EvidenceInv
<1> QED
  BY <1>2, <1>4, <1>5, <1>6 DEF RetrievalInv

\* What is found stays what it is once it is there, whatever is committed.
LEMMA FoundStays ==
  ASSUME RetrievalInv, Searched, Searched',
         UNCHANGED <<corpus, admitted, lexical, vector, found>>,
         library \subseteq library', library' \subseteq Versions, embedded' \subseteq library'
  PROVE  SearchInv' /\ FoundInv'
<1>1. Fused' = Fused
  BY DEF Fused, FusedBefore, NamedBefore, Ahead, Higher, Score
<1>2. FoundInv'
  BY <1>1 DEF RetrievalInv, FoundInv
<1>3. SearchInv'
  BY DEF RetrievalInv, SearchInv, ListsInv, Listed, Searched
<1> QED
  BY <1>2, <1>3

LEMMA ResolvePairKeepsInv ==
  ASSUME RetrievalInv, ResolvePair
  PROVE  RetrievalInv'
<1>1. /\ UNCHANGED <<library, embedded, admitted, lexical, vector, corpus, found, at>>
      /\ at = "resolve" /\ next <= Pairs /\ next' = next + 1
  BY DEF ResolvePair, storeVars, searchVars
<1>2. SearchInv' /\ FoundInv'
  BY <1>1, FoundStays DEF RetrievalInv, SearchInv, Searched
<1>3. Pairs \in Nat /\ next \in 1..Pairs
  BY <1>1, FoundIsRanked, PairsAreAll DEF RetrievalInv, PairsInv
<1>4. groups' = GroupsUpTo(next)
  <2>1. groups = GroupsUpTo(next - 1)
    BY DEF RetrievalInv, PairsInv
  <2>2. groups' = IF Grouped(Pair(next)) THEN groups \cup {GroupOf(Pair(next))} ELSE groups
    BY DEF ResolvePair, Grouped, GroupOf, Decision
  <2>3. 1..next = 1..(next - 1) \cup {next}
    BY <1>3
  <2> QED
    BY <2>1, <2>2, <2>3 DEF GroupsUpTo
<1>5. next' - 1 = next /\ next' \in 1..(Pairs + 1)
  BY <1>1, <1>3
<1>6. PairsInv'
  <2>1. Pairs' = Pairs
    BY <1>1 DEF Pairs
  <2>2. \A i : Pair(i)' = Pair(i)
    BY <1>1 DEF Pair
  <2>3. \A p : GroupOf(p)' = GroupOf(p) /\ (Grouped(p)' <=> Grouped(p))
    BY <1>1 DEF GroupOf, Grouped, Decision
  <2>4. \A k : GroupsUpTo(k)' = GroupsUpTo(k)
    BY <2>2, <2>3 DEF GroupsUpTo
  <2> QED
    BY <1>4, <1>5, <2>1, <2>4 DEF PairsInv
<1>7. EvidenceInv'
  BY <1>1 DEF EvidenceInv
<1> QED
  BY <1>2, <1>6, <1>7 DEF RetrievalInv

\* A step that leaves the candidates and the groups alone.
LEMMA RestKeepsInv ==
  ASSUME RetrievalInv, ModelFails \/ VerifyEvidence \/ UNCHANGED retrievalVars
  PROVE  RetrievalInv'
<1>1. UNCHANGED <<library, embedded, admitted, lexical, vector, corpus, found, next, groups>>
  BY DEF ModelFails, VerifyEvidence, retrievalVars, storeVars, searchVars, reportVars
<1>2. PairsInv'
  BY <1>1 DEF RetrievalInv, PairsInv, Pairs, GroupsUpTo, GroupOf, Grouped, Decision, Pair
<1>3. EvidenceOf' = EvidenceOf
  BY <1>1 DEF EvidenceOf, Texts, Spans
<1>4. SearchInv' /\ FoundInv' /\ EvidenceInv'
  <2>1. CASE UNCHANGED retrievalVars
    <3>1. UNCHANGED <<at, opportunities, evidence>> /\ Fused' = Fused
      BY <1>1, <2>1 DEF retrievalVars, reportVars, Fused, FusedBefore, NamedBefore, Ahead, Higher,
                        Score
    <3> QED
      BY <1>1, <1>3, <3>1 DEF RetrievalInv, SearchInv, ListsInv, Listed, FoundInv, Searched,
                              EvidenceInv, Spans
  <2>2. CASE ModelFails
    <3>1. at = "resolve" /\ at' = "failed"
      BY <2>2 DEF ModelFails, Goto
    <3> QED
      BY <1>1, <3>1, FoundStays DEF RetrievalInv, SearchInv, Searched, EvidenceInv
  <2>3. CASE VerifyEvidence
    <3>1. at = "resolve" /\ at' = "done"
      BY <2>3 DEF VerifyEvidence, Goto
    <3>2. EvidenceInv'
      BY <1>1, <1>3, <2>3 DEF VerifyEvidence, EvidenceInv, Spans
    <3> QED
      BY <1>1, <3>1, <3>2, FoundStays DEF RetrievalInv, SearchInv, Searched
  <2> QED
    BY <2>1, <2>2, <2>3
<1> QED
  BY <1>2, <1>4 DEF RetrievalInv

LEMMA StoreKeepsInv ==
  ASSUME RetrievalInv, NEW v \in Versions, Commit(v) \/ Embed(v)
  PROVE  RetrievalInv'
<1>1. UNCHANGED <<admitted, lexical, vector, corpus, found, next, groups, at, opportunities,
                  evidence>>
  BY DEF Commit, Embed, StoreOnly, searchVars, reportVars
<1>2. library' \subseteq Versions /\ embedded' \subseteq library'
  BY DEF Commit, Embed, RetrievalInv, SearchInv
<1>3. PairsInv'
  BY <1>1 DEF RetrievalInv, PairsInv, Pairs, GroupsUpTo, GroupOf, Grouped, Decision, Pair
<1>4. Fused' = Fused
  BY <1>1 DEF Fused, FusedBefore, NamedBefore, Ahead, Higher, Score
<1>5. EvidenceOf' = EvidenceOf
  BY <1>1 DEF EvidenceOf, Texts, Spans
<1>6. EvidenceInv'
  BY <1>1, <1>5 DEF RetrievalInv, EvidenceInv, Spans
<1>7. SearchInv' /\ FoundInv'
  BY <1>1, <1>2, <1>4 DEF RetrievalInv, SearchInv, ListsInv, Listed, FoundInv, Searched
<1> QED
  BY <1>3, <1>6, <1>7 DEF RetrievalInv

LEMMA RetrievalStep ==
  ASSUME RetrievalInv, [RetrievalNext]_retrievalVars
  PROVE  RetrievalInv'
<1>1. CASE Filter \/ LexicalRecall \/ EmbedQuery \/ VectorRecall
  BY <1>1, SearchKeepsInv
<1>2. CASE Fuse
  BY <1>2, FuseKeepsInv
<1>3. CASE ResolvePair
  BY <1>3, ResolvePairKeepsInv
<1>4. CASE ModelFails \/ VerifyEvidence \/ UNCHANGED retrievalVars
  BY <1>4, RestKeepsInv
<1>5. CASE \E v \in Versions : Commit(v) \/ Embed(v)
  BY <1>5, StoreKeepsInv
<1> QED
  BY <1>1, <1>2, <1>3, <1>4, <1>5 DEF RetrievalNext

(* What the search lists, what it finds, the pairs decided so far and the  *)
(* evidence agree with each other, whatever is committed or embedded beside*)
(* the run.                                                                *)
THEOREM RetrievalIsConsistent == RetrievalSpec => []RetrievalInv
<1>1. RetrievalInit => RetrievalInv
  BY RetrievalBegins
<1>2. RetrievalInv /\ [RetrievalNext]_retrievalVars => RetrievalInv'
  BY RetrievalStep
<1> QED
  BY <1>1, <1>2, PTL DEF RetrievalSpec

(* Nothing is found that the filters do not admit, and nothing they admit  *)
(* is crowded out by what they do not: HybridSearcher._search.             *)
THEOREM FiltersComeFirst == RetrievalSpec => []FilterComesFirst
<1>1. ASSUME RetrievalInv, Searched PROVE FilterComesFirst
  <2>1. ListsInv /\ Listed \subseteq admitted /\ found = Fused
    BY <1>1 DEF RetrievalInv, SearchInv, FoundInv
  <2>2. Range(found) = Listed /\ Len(found) = Cardinality(Listed)
    BY <2>1, FusedIsSorted
  <2>3. admitted \subseteq Range(lexical) \/ Len(lexical) >= TopK
    BY <1>1 DEF RetrievalInv, SearchInv, Searched
  <2>4. Cardinality(Listed) >= Len(lexical)
    <3>1. lexical \in Injection(1..Len(lexical), Listed) /\ Len(lexical) \in Nat
      BY <2>1 DEF ListsInv, Ranked, Listed, Injection, IsInjective, Range
    <3>2. Cardinality(1..Len(lexical)) = Len(lexical)
      <4> DEFINE n == Len(lexical)
      <4>1. n \in Nat
        BY <3>1
      <4> HIDE DEF n
      <4>2. Cardinality(1..n) = n
        BY <4>1, FS_Interval
      <4> QED
        BY <4>2 DEF n
    <3>3. IsFiniteSet(Listed)
      BY <2>1, ListedIsFinite
    <3>4. Len(lexical) <= Cardinality(Listed) /\ Cardinality(Listed) \in Nat
      BY <3>1, <3>2, <3>3, FS_Injection, FS_CardinalityType
    <3> QED
      BY <3>1, <3>4
  <2>5. TopK \in Nat /\ Len(lexical) \in Nat /\ Cardinality(Listed) \in Nat
    BY <2>1, RetrievalAssumption, ListedIsFinite, FS_CardinalityType DEF ListsInv, Ranked
  <2>6. admitted \subseteq Range(found) \/ Len(found) >= TopK
    BY <2>2, <2>3, <2>4, <2>5 DEF Listed
  <2> QED
    BY <2>1, <2>2, <2>6 DEF FilterComesFirst
<1>2. RetrievalInv => FilterComesFirst
  BY <1>1 DEF FilterComesFirst
<1> QED
  BY <1>2, RetrievalIsConsistent, PTL

(* The fusion names each version once, and keeps what the lists agree on:  *)
(* _reciprocal_rank_fuse.                                                  *)
THEOREM FusionAgrees == RetrievalSpec => []FusionKeepsAgreement
<1>1. ASSUME RetrievalInv, Searched PROVE FusionKeepsAgreement
  <2>1. ListsInv /\ found = Fused
    BY <1>1 DEF RetrievalInv, SearchInv, FoundInv
  <2>2. /\ Ranked(found) /\ Range(found) = Listed
        /\ \A i, j \in DOMAIN found : i < j => FusedBefore(found[i], found[j])
    BY <2>1, FusedIsSorted
  <2>3. ASSUME NEW v \in Listed, NEW w \in Listed,
               Ahead(lexical, v, w) \/ Ahead(vector, v, w),
               NotBehind(lexical, v, w), NotBehind(vector, v, w)
        PROVE  Rank(found, v) < Rank(found, w)
    <3>1. Higher(v, w) /\ ~Higher(w, v)
      BY <2>1, <2>3, AgreementIsHigher, HigherIsAsymmetric
    <3>2. /\ Rank(found, v) \in 1..Len(found) /\ found[Rank(found, v)] = v
          /\ Rank(found, w) \in 1..Len(found) /\ found[Rank(found, w)] = w
      BY <2>2, RankIsPlace
    <3>3. DOMAIN found = 1..Len(found)
      BY <2>2 DEF Ranked
    <3>4. ~FusedBefore(w, v)
      BY <3>1 DEF FusedBefore
    <3>5. ~(Rank(found, w) < Rank(found, v))
      BY <2>2, <3>2, <3>3, <3>4
    <3>6. v # w
      BY <3>1
    <3> QED
      BY <2>2, <3>2, <3>5, <3>6 DEF Ranked
  <2> QED
    BY <2>2, <2>3 DEF FusionKeepsAgreement, Listed, Ranked
<1>2. RetrievalInv => FusionKeepsAgreement
  BY <1>1 DEF FusionKeepsAgreement
<1> QED
  BY <1>2, RetrievalIsConsistent, PTL

(* The rules of classify_duplicate are symmetric: whether they call two    *)
(* notices duplicates, or leave the pair to the model, does not depend on  *)
(* which of them comes first.  What the model says of such a pair, which   *)
(* resolve_duplicates asks for each direction, the theorem leaves open.    *)
THEOREM DuplicatesAreMutual == RetrievalSpec => []PairsAreMutual
<1>1. ASSUME RetrievalInv, next > Pairs PROVE PairsAreMutual
  <2>1. Len(found) \in Nat
    BY <1>1, FoundIsRanked
  <2>2. Pairs \in Nat
    BY <2>1, PairsAreAll
  <2>3. next - 1 = Pairs /\ groups = GroupsUpTo(next - 1)
    BY <1>1, <2>2 DEF RetrievalInv, PairsInv
  <2>4. groups = GroupsUpTo(Pairs)
    BY <2>3
  <2> QED
    BY <2>1, <2>4, GroupsAreMutual DEF PairsAreMutual
<1>2. RetrievalInv => PairsAreMutual
  BY <1>1 DEF PairsAreMutual
<1> QED
  BY <1>2, RetrievalIsConsistent, PTL

(* Every span of every opportunity is found under its hash with its own    *)
(* version, whoever else has the same text: verify_evidence.               *)
THEOREM EverySpanResolves == RetrievalSpec => []SpansResolve
<1>1. ASSUME RetrievalInv, at = "done" PROVE SpansResolve
  <2>1. /\ opportunities = [i \in DOMAIN found |-> [version |-> found[i], spans |-> Spans(found[i])]]
        /\ evidence = EvidenceOf
    BY <1>1 DEF RetrievalInv, EvidenceInv
  <2>2. found \in Seq(Versions)
    BY <1>1, FoundIsRanked DEF Ranked
  <2>3. Len(opportunities) = Len(found)
    BY <2>1, <2>2
  <2>4. ASSUME NEW o \in Range(opportunities), NEW text \in Range(o.spans)
        PROVE  o.version \in evidence[text]
    <3>1. PICK i \in DOMAIN found : o.version = found[i] /\ o.spans = Spans(found[i])
      BY <2>1 DEF Range
    <3>2. o.version \in Range(found)
      BY <3>1 DEF Range
    <3>3. text \in Range(Spans(o.version))
      BY <2>4, <3>1
    <3>4. text \in Texts
      BY <3>2, <3>3 DEF Texts
    <3> QED
      BY <2>1, <3>2, <3>3, <3>4 DEF EvidenceOf
  <2> QED
    BY <2>3, <2>4 DEF SpansResolve
<1>2. RetrievalInv => SpansResolve
  BY <1>1 DEF SpansResolve
<1> QED
  BY <1>2, RetrievalIsConsistent, PTL

-----------------------------------------------------------------------------
(* The report that is delivered, item by item: ReportReview                *)

Judgements == Supports \cup {"unverified", NoVerdict}
Verdicts == [notice : Notices, index : 1..MaxClaims,
             verdict : [status : Supports,
                        used : SUBSET Hashes, conflict : SUBSET Hashes]]

\* v is the verdict on claim id, of which that was said.
Tells(v, id, said) ==
    /\ v.notice = draft[id[1]].notice /\ v.index = id[2]
    /\ v.verdict.status = said /\ v.verdict.conflict \subseteq v.verdict.used

DraftInv == \E n \in 1..MaxItems : draft \in [1..n -> Items]

\* Every verdict is about a claim, and a claim that was judged has one.
VerdictsInv ==
    /\ judged \in [ClaimIds -> Judgements]
    /\ verdicts \in Seq(Verdicts)
    /\ \A n \in 1..Len(verdicts) :
          \E id \in ClaimIds : Tells(verdicts[n], id, judged[id])
    /\ \A id \in ClaimIds : judged[id] \in Supports =>
          \E n \in 1..Len(verdicts) : Tells(verdicts[n], id, judged[id])

RowOf(item) ==
    [notice |-> item.notice,
     claims |-> [k \in DOMAIN item.claims |->
                   [cites |-> item.claims[k], support |-> VerdictFor(item.notice, k)]]]

\* Every span that an item cites has a row for the item's own version.
Resolved(item) == \A h \in Cited(item) : Resolves(h, item.notice)

RowsInv ==
    /\ phase \in {"validate", "verify", "persist", "delivered", "rejected", "failed"}
    /\ IF phase = "delivered"
       THEN /\ rows = [i \in DOMAIN draft |-> RowOf(draft[i])]
            /\ \A i \in DOMAIN draft : Resolved(draft[i])
       ELSE rows = <<>>

ReviewInv == DraftInv /\ VerdictsInv /\ RowsInv

(***************************************************************************)
(* The verdicts stand in the order of their claims: f[n] is the claim that *)
(* verdict n was said of.  Claims are judged in order, so whatever comes   *)
(* before a judged claim was judged, and no verdict can fall behind.       *)
(***************************************************************************)
JudgedInOrder ==
    \A c, d \in ClaimIds : judged[d] # NoVerdict /\ Before(c, d) => judged[c] # NoVerdict

Attributes(f) ==
    /\ f \in [1..Len(verdicts) -> ClaimIds]
    /\ \A n \in 1..Len(verdicts) : Tells(verdicts[n], f[n], judged[f[n]])
    /\ \A m, n \in 1..Len(verdicts) : m < n => Before(f[m], f[n])
    /\ \A id \in ClaimIds : judged[id] \in Supports =>
          \E n \in 1..Len(verdicts) : f[n] = id

OrderInv == JudgedInOrder /\ \E f : Attributes(f)

-----------------------------------------------------------------------------
(* The first claim in order, the last verdict in order                     *)

\* A finite set of pairs has a first one.
LEMMA HasFirst ==
  ASSUME NEW S \in SUBSET (Int \X Int), IsFiniteSet(S), S # {}
  PROVE  \E m \in S : \A n \in S : ~Before(n, m)
<1> DEFINE R == {p \in S \X S : ~Before(p[2], p[1])}
<1>1. \A p \in S : p \in Int \X Int
  OBVIOUS
<1>2. \A m, n \in S : <<m, n>> \in R <=> ~Before(n, m)
  OBVIOUS
<1>3. Transitive(R, S) /\ Connected(R, S)
  <2> HIDE DEF R
  <2>1. \A k, m, n \in S : ~Before(m, k) /\ ~Before(n, m) => ~Before(n, k)
    BY <1>1 DEF Before
  <2>2. \A m, n \in S : m = n \/ ~Before(m, n) \/ ~Before(n, m)
    BY <1>1 DEF Before
  <2> QED
    BY <1>2, <2>1, <2>2 DEF Transitive, Connected
<1>4. \A m \in S : ~Before(m, m)
  BY <1>1 DEF Before
<1> HIDE DEF R
<1>5. \E m \in S : \A n \in S : n = m \/ <<m, n>> \in R
  BY <1>3, FirstExists
<1> QED
  BY <1>2, <1>4, <1>5

LEMMA HasLast ==
  ASSUME NEW S, NEW n \in Nat, S \subseteq 1..n, S # {}
  PROVE  \E m \in S : \A k \in S : k <= m
<1> DEFINE Negated == {<<-k, 0>> : k \in S}
<1>1. IsFiniteSet(Negated)
  <2>1. -n \in Int /\ -1 \in Int
    OBVIOUS
  <2>2. IsFiniteSet(((-n)..(-1)) \X {0})
    BY <2>1, FS_Interval, FS_Singleton, FS_Product
  <2>3. Negated \subseteq ((-n)..(-1)) \X {0}
    OBVIOUS
  <2> HIDE DEF Negated
  <2> QED
    BY <2>2, <2>3, FS_Subset
<1>2. Negated \subseteq Int \X Int
  OBVIOUS
<1>3. Negated # {}
  OBVIOUS
<1>4. PICK f \in Negated : \A e \in Negated : ~Before(e, f)
  <2> HIDE DEF Negated
  <2> QED
    BY <1>1, <1>2, <1>3, HasFirst
<1>5. PICK m \in S : f = <<-m, 0>>
  OBVIOUS
<1>6. ASSUME NEW k \in S PROVE k <= m
  <2>1. ~Before(<<-k, 0>>, <<-m, 0>>)
    BY <1>4, <1>5
  <2> QED
    BY <2>1 DEF Before
<1> QED
  BY <1>6

LEMMA DraftShape ==
  ASSUME DraftInv
  PROVE  /\ Len(draft) \in 1..MaxItems /\ DOMAIN draft = 1..Len(draft)
         /\ \A i \in DOMAIN draft : draft[i] \in Items
BY ReviewAssumption DEF DraftInv, ReviewAssumption

LEMMA ItemShape ==
  ASSUME NEW item \in Items
  PROVE  /\ item.notice \in Notices
         /\ Len(item.claims) \in 0..MaxClaims /\ DOMAIN item.claims = 1..Len(item.claims)
         /\ \A k \in DOMAIN item.claims :
              item.claims[k] \in Citings /\ Range(item.claims[k]) \subseteq Hashes
<1>1. item.notice \in Notices /\ item.claims \in SeqOf(Citings, MaxClaims)
  BY DEF Items
<1>2. PICK m \in 0..MaxClaims : item.claims \in [1..m -> Citings]
  BY <1>1 DEF SeqOf
<1>3. Len(item.claims) = m
  BY <1>2, ReviewAssumption DEF ReviewAssumption
<1>4. ASSUME NEW k \in 1..m PROVE Range(item.claims[k]) \subseteq Hashes
  <2>1. PICK q \in 0..2 : item.claims[k] \in [1..q -> Hashes]
    BY <1>2, <1>4 DEF Citings, SeqOf
  <2> QED
    BY <2>1 DEF Range
<1> QED
  BY <1>1, <1>2, <1>3, <1>4

LEMMA ClaimShape ==
  ASSUME DraftInv, NEW id \in ClaimIds
  PROVE  /\ id = <<id[1], id[2]>> /\ id[1] \in DOMAIN draft /\ id[2] \in 1..MaxClaims
         /\ id[2] \in DOMAIN draft[id[1]].claims /\ draft[id[1]].notice \in Notices
         /\ Range(draft[id[1]].claims[id[2]]) \subseteq Hashes
<1>1. id \in (1..Len(draft)) \X (1..MaxClaims) /\ id[2] <= Len(draft[id[1]].claims)
  BY DEF ClaimIds
<1>2. draft[id[1]] \in Items /\ id[1] \in DOMAIN draft
  BY <1>1, DraftShape
<1>3. id[2] \in DOMAIN draft[id[1]].claims
  BY <1>1, <1>2, ItemShape, ReviewAssumption DEF ReviewAssumption
<1> QED
  BY <1>1, <1>2, <1>3, ItemShape

LEMMA NextIsUnjudged ==
  ASSUME DraftInv, Unjudged # {}
  PROVE  /\ NextClaim \in ClaimIds /\ judged[NextClaim] = NoVerdict
         /\ \A other \in Unjudged : ~Before(other, NextClaim)
<1>1. Unjudged \subseteq (1..Len(draft)) \X (1..MaxClaims)
  BY DEF Unjudged, ClaimIds
<1>2. IsFiniteSet(Unjudged)
  <2>1. Len(draft) \in Nat /\ MaxClaims \in Nat
    BY DraftShape, ReviewAssumption DEF ReviewAssumption
  <2>2. IsFiniteSet(1..Len(draft)) /\ IsFiniteSet(1..MaxClaims)
    BY <2>1, FS_Interval
  <2>3. IsFiniteSet((1..Len(draft)) \X (1..MaxClaims))
    BY <2>2, FS_Product
  <2> QED
    BY <1>1, <2>3, FS_Subset
<1>3. Unjudged \in SUBSET (Int \X Int)
  BY <1>1, DraftShape, ReviewAssumption DEF ReviewAssumption
<1>4. \E id \in Unjudged : \A other \in Unjudged : ~Before(other, id)
  BY <1>2, <1>3, HasFirst
<1>5. NextClaim \in Unjudged /\ \A other \in Unjudged : ~Before(other, NextClaim)
  BY <1>4 DEF NextClaim
<1> QED
  BY <1>5 DEF Unjudged

-----------------------------------------------------------------------------
(* Every step of the review keeps ReviewInv                                *)

LEMMA InitReviewInv == ReviewInit => ReviewInv
<1> SUFFICES ASSUME ReviewInit PROVE ReviewInv
  OBVIOUS
<1>1. DraftInv
  BY DEF ReviewInit, DraftInv
<1>2. VerdictsInv
  BY DEF ReviewInit, VerdictsInv, Judgements, Supports, NoVerdict
<1>3. RowsInv
  BY DEF ReviewInit, RowsInv
<1> QED
  BY <1>1, <1>2, <1>3 DEF ReviewInv

LEMMA SanitizedTyped ==
  ASSUME NEW status \in Supports, NEW used, NEW conflict, NEW allowed \in SUBSET Hashes
  PROVE  LET v == Sanitize(status, used, conflict, allowed)
         IN  /\ v \in [status : Supports, used : SUBSET Hashes, conflict : SUBSET Hashes]
             /\ v.status = status /\ v.conflict \subseteq v.used
BY DEF Sanitize

LEMMA VerdictsStay ==
  ASSUME DraftInv, VerdictsInv, UNCHANGED <<draft, judged, verdicts>>
  PROVE  DraftInv' /\ VerdictsInv'
<1>1. ClaimIds' = ClaimIds
  BY DEF ClaimIds
<1>2. \A u, id, said : Tells(u, id, said)' <=> Tells(u, id, said)
  BY DEF Tells
<1>3. VerdictsInv'
  BY <1>1, <1>2 DEF VerdictsInv
<1> QED
  BY <1>3 DEF DraftInv

LEMMA JudgeKeepsInv ==
  ASSUME ReviewInv, NEW status \in Supports,
         Judge(status)
  PROVE  ReviewInv'
<1> DEFINE id == NextClaim
           citing == draft[id[1]].claims[id[2]]
           labels == Labels(citing)
           v == [notice |-> draft[id[1]].notice, index |-> id[2],
                 verdict |-> Sanitize(status, labels, labels, Range(citing))]
<1>1. /\ phase = "verify" /\ UNCHANGED <<draft, phase, rows>>
      /\ judged' = [judged EXCEPT ![id] = status] /\ verdicts' = Append(verdicts, v)
      /\ Unjudged # {} /\ DraftInv /\ VerdictsInv /\ RowsInv
  BY DEF Judge, ReviewInv
<1>2. /\ id \in ClaimIds /\ judged[id] = NoVerdict
      /\ id[2] \in 1..MaxClaims /\ draft[id[1]].notice \in Notices
      /\ Range(citing) \in SUBSET Hashes
  BY <1>1, NextIsUnjudged, ClaimShape
<1> HIDE DEF id, citing
<1>3. v \in Verdicts /\ v.notice = draft[id[1]].notice /\ v.index = id[2]
      /\ v.verdict.status = status /\ v.verdict.conflict \subseteq v.verdict.used
  BY <1>2, SanitizedTyped DEF Verdicts
<1> HIDE DEF v
<1>4. ClaimIds' = ClaimIds /\ DraftInv'
  BY <1>1 DEF ClaimIds, DraftInv
<1>5. /\ judged' \in [ClaimIds -> Judgements] /\ judged'[id] = status
      /\ \A other \in ClaimIds : other # id => judged'[other] = judged[other]
  BY <1>1, <1>2 DEF VerdictsInv, Judgements
<1>6. /\ verdicts' \in Seq(Verdicts) /\ Len(verdicts') = Len(verdicts) + 1
      /\ verdicts'[Len(verdicts) + 1] = v /\ Len(verdicts) \in Nat
      /\ \A n \in 1..Len(verdicts) : verdicts'[n] = verdicts[n]
  BY <1>1, <1>3, AppendProperties DEF VerdictsInv
<1>8. ASSUME NEW n \in 1..Len(verdicts), NEW other \in ClaimIds,
             Tells(verdicts[n], other, judged[other])
      PROVE  other # id /\ Tells(verdicts'[n], other, judged'[other])
  <2>1. verdicts[n].verdict.status \in Supports
    <3>1. verdicts[n] \in Verdicts
      BY <1>1, ElementOfSeq DEF VerdictsInv
    <3> QED
      BY <3>1 DEF Verdicts
  <2>2. other # id
    BY <1>2, <1>8, <2>1 DEF Tells, Supports, NoVerdict
  <2> QED
    BY <1>5, <1>6, <1>8, <2>2 DEF Tells
<1>9. Tells(v, id, status)
  BY <1>3 DEF Tells
<1>10. ASSUME NEW n \in 1..Len(verdicts')
       PROVE  \E other \in ClaimIds : Tells(verdicts'[n], other, judged'[other])
  <2>1. CASE n = Len(verdicts) + 1
    BY <1>2, <1>5, <1>6, <1>9, <2>1
  <2>2. CASE n \in 1..Len(verdicts)
    BY <1>1, <1>8, <2>2 DEF VerdictsInv
  <2> QED
    BY <1>6, <2>1, <2>2
<1>11. ASSUME NEW other \in ClaimIds, judged'[other] \in Supports
       PROVE  \E n \in 1..Len(verdicts') : Tells(verdicts'[n], other, judged'[other])
  <2>1. CASE other = id
    <3>1. Len(verdicts) + 1 \in 1..Len(verdicts')
      BY <1>6
    <3> QED
      BY <1>5, <1>6, <1>9, <2>1, <3>1
  <2>2. CASE other # id
    <3>1. PICK n \in 1..Len(verdicts) : Tells(verdicts[n], other, judged[other])
      BY <1>1, <1>5, <1>11, <2>2 DEF VerdictsInv
    <3>2. n \in 1..Len(verdicts')
      BY <1>6
    <3> QED
      BY <1>8, <3>1, <3>2
  <2> QED
    BY <2>1, <2>2
<1>12. VerdictsInv'
  <2>1. \A u, other, said : Tells(u, other, said)' <=> Tells(u, other, said)
    BY <1>1 DEF Tells
  <2> QED
    BY <1>4, <1>5, <1>6, <1>10, <1>11, <2>1 DEF VerdictsInv
<1>13. RowsInv'
  BY <1>1 DEF RowsInv
<1> QED
  BY <1>4, <1>12, <1>13 DEF ReviewInv

LEMMA VerifierFailsKeepsInv ==
  ASSUME ReviewInv, VerifierFails
  PROVE  ReviewInv'
<1> DEFINE id == NextClaim
<1>1. /\ phase = "verify" /\ UNCHANGED <<draft, phase, verdicts, rows>>
      /\ judged' = [judged EXCEPT ![id] = "unverified"]
      /\ Unjudged # {} /\ DraftInv /\ VerdictsInv /\ RowsInv
  BY DEF VerifierFails, ReviewInv
<1>2. id \in ClaimIds /\ judged[id] = NoVerdict
  BY <1>1, NextIsUnjudged
<1> HIDE DEF id
<1>3. ClaimIds' = ClaimIds /\ DraftInv'
  BY <1>1 DEF ClaimIds, DraftInv
<1>4. /\ judged' \in [ClaimIds -> Judgements] /\ judged'[id] = "unverified"
      /\ \A other \in ClaimIds : other # id => judged'[other] = judged[other]
  BY <1>1, <1>2 DEF VerdictsInv, Judgements
<1>5. ASSUME NEW n \in 1..Len(verdicts), NEW other \in ClaimIds,
             Tells(verdicts[n], other, judged[other])
      PROVE  Tells(verdicts[n], other, judged'[other])
  <2>1. verdicts[n].verdict.status \in Supports
    <3>1. verdicts[n] \in Verdicts
      BY <1>1, ElementOfSeq DEF VerdictsInv
    <3> QED
      BY <3>1 DEF Verdicts
  <2>2. other # id
    BY <1>2, <1>5, <2>1 DEF Tells, Supports, NoVerdict
  <2> QED
    BY <1>1, <1>4, <1>5, <2>2 DEF Tells
<1>6. \A n \in 1..Len(verdicts) :
         \E other \in ClaimIds : Tells(verdicts[n], other, judged'[other])
  BY <1>1, <1>5 DEF VerdictsInv
<1>7. ASSUME NEW other \in ClaimIds, judged'[other] \in Supports
      PROVE  \E n \in 1..Len(verdicts) : Tells(verdicts[n], other, judged'[other])
  <2>1. judged[other] \in Supports
    BY <1>4, <1>7 DEF Supports
  <2> QED
    BY <1>1, <1>5, <2>1 DEF VerdictsInv
<1>8. VerdictsInv'
  <2>1. \A u, other, said : Tells(u, other, said)' <=> Tells(u, other, said)
    BY <1>1 DEF Tells
  <2> QED
    BY <1>1, <1>3, <1>4, <1>6, <1>7, <2>1 DEF VerdictsInv
<1>9. RowsInv'
  BY <1>1 DEF RowsInv
<1> QED
  BY <1>3, <1>8, <1>9 DEF ReviewInv

LEMMA PersistedKeepsInv ==
  ASSUME ReviewInv, Persist
  PROVE  ReviewInv'
<1>1. UNCHANGED <<draft, judged, verdicts>> /\ phase = "persist" /\ rows = <<>>
  BY DEF Persist, ReviewInv, RowsInv
<1>2. DraftInv' /\ VerdictsInv'
  BY <1>1, VerdictsStay DEF ReviewInv
<1>3. \A notice, k : VerdictFor(notice, k)' = VerdictFor(notice, k)
  BY <1>1 DEF VerdictFor
<1>4. \A item : RowOf(item)' = RowOf(item)
  BY <1>3 DEF RowOf
<1>5. RowsInv'
  <2>1. CASE \A i \in DOMAIN draft : Resolved(draft[i])
    <3>1. phase' = "delivered" /\ rows' = [i \in DOMAIN draft |-> RowOf(draft[i])]
      BY <2>1 DEF Persist, Resolved, RowOf
    <3> QED
      BY <1>1, <1>4, <2>1, <3>1 DEF RowsInv
  <2>2. CASE ~\A i \in DOMAIN draft : Resolved(draft[i])
    <3>1. phase' = "failed" /\ rows' = rows
      BY <2>2 DEF Persist, Resolved
    <3> QED
      BY <1>1, <3>1 DEF RowsInv
  <2> QED
    BY <2>1, <2>2
<1> QED
  BY <1>2, <1>5 DEF ReviewInv

LEMMA ReviewKeepsInv ==
  ASSUME ReviewInv, [ReviewNext]_reviewVars
  PROVE  ReviewInv'
<1>1. ASSUME UNCHANGED <<draft, judged, verdicts, rows>>,
             phase' = phase \/ phase' \in {"verify", "rejected", "persist"}, 
             phase' # phase => phase # "delivered"
      PROVE  ReviewInv'
  <2>1. DraftInv' /\ VerdictsInv'
    BY <1>1, VerdictsStay DEF ReviewInv
  <2>2. \A notice, k : VerdictFor(notice, k)' = VerdictFor(notice, k)
    BY <1>1 DEF VerdictFor
  <2>3. \A item : RowOf(item)' = RowOf(item)
    BY <2>2 DEF RowOf
  <2>4. RowsInv'
    BY <1>1, <2>3 DEF ReviewInv, RowsInv
  <2> QED
    BY <2>1, <2>4 DEF ReviewInv
<1>2. CASE Validate
  BY <1>1, <1>2 DEF Validate
<1>3. CASE Verified
  BY <1>1, <1>3 DEF Verified
<1>4. CASE UNCHANGED reviewVars
  BY <1>1, <1>4 DEF reviewVars
<1> QED
  BY <1>2, <1>3, <1>4, JudgeKeepsInv, VerifierFailsKeepsInv, PersistedKeepsInv DEF ReviewNext

(* Draft, verdicts and rows are well formed and agree with each other.     *)
THEOREM ReviewIsConsistent == ReviewSpec => []ReviewInv
  BY InitReviewInv, ReviewKeepsInv, PTL DEF ReviewSpec

(* The verdicts name claims of the draft and conflict only with evidence    *)
(* they use, and there are rows exactly when the report is delivered.      *)
THEOREM ReviewTypeCorrect == ReviewSpec => []ReviewTypeOK
<1>1. ASSUME ReviewInv PROVE ReviewTypeOK
  <2>1. \A n \in DOMAIN verdicts :
          /\ verdicts[n].notice \in Notices /\ verdicts[n].index \in 1..MaxClaims
          /\ verdicts[n].verdict.conflict \subseteq verdicts[n].verdict.used
          /\ verdicts[n].verdict.used \subseteq Hashes
    <3>1. verdicts \in Seq(Verdicts) /\ DOMAIN verdicts = 1..Len(verdicts)
      BY <1>1 DEF ReviewInv, VerdictsInv
    <3> SUFFICES ASSUME NEW n \in 1..Len(verdicts)
                 PROVE  /\ verdicts[n] \in Verdicts
                        /\ verdicts[n].verdict.conflict \subseteq verdicts[n].verdict.used
      BY <3>1 DEF Verdicts
    <3> QED
      BY <1>1, <3>1 DEF ReviewInv, VerdictsInv, Tells
  <2>2. phase = "delivered" <=> rows # <<>>
    <3>1. CASE phase = "delivered"
      <4>1. DOMAIN rows = 1..Len(draft) /\ Len(draft) \in Nat \ {0}
        BY <1>1, <3>1, DraftShape, ReviewAssumption
           DEF ReviewInv, RowsInv, ReviewAssumption
      <4>2. DOMAIN rows # {}
        BY <4>1
      <4> QED
        BY <3>1, <4>2
    <3> QED
      BY <1>1, <3>1 DEF ReviewInv, RowsInv
  <2> QED
    BY <1>1, <2>1, <2>2 DEF ReviewTypeOK, ReviewInv, VerdictsInv, RowsInv, Judgements
<1>2. ReviewSpec => []ReviewInv
  BY ReviewIsConsistent
<1> QED
  BY <1>1, <1>2, PTL

(* Whatever the models answer, each citation of a delivered claim has a row*)
(* for the item's own version: persist_online_report delivers all or none. *)
THEOREM ClaimsAreGrounded == ReviewSpec => []ClaimsStandOnEvidence
<1>1. ASSUME ReviewInv PROVE ClaimsStandOnEvidence
  <2> SUFFICES ASSUME NEW i \in DOMAIN rows, NEW k \in DOMAIN rows[i].claims,
                      NEW h \in Range(rows[i].claims[k].cites)
               PROVE  /\ \E b \in DOMAIN Binding[h] : Binding[h][b] = rows[i].notice
                      /\ <<rows[i].notice, h>> \in Stored
    BY DEF ClaimsStandOnEvidence
  <2>1. phase = "delivered"
    BY <1>1 DEF ReviewInv, RowsInv
  <2>2. i \in DOMAIN draft /\ rows[i] = RowOf(draft[i])
        /\ Resolved(draft[i])
    BY <1>1, <2>1 DEF ReviewInv, RowsInv
  <2>3. rows[i].notice = draft[i].notice /\ k \in DOMAIN draft[i].claims
        /\ rows[i].claims[k].cites = draft[i].claims[k]
    BY <2>2 DEF RowOf
  <2>4. h \in Cited(draft[i])
    <3>1. draft[i].claims[k] \in Range(draft[i].claims)
      BY <2>3 DEF Range
    <3> QED
      BY <2>3, <3>1 DEF Cited
  <2> QED
    BY <2>2, <2>3, <2>4 DEF Resolved, Resolves, SpanOf
<1>2. ReviewSpec => []ReviewInv
  BY ReviewIsConsistent
<1> QED
  BY <1>1, <1>2, PTL

-----------------------------------------------------------------------------
(* The verdicts keep the order of their claims                             *)

LEMMA BeforeIsOrder ==
  ASSUME DraftInv, NEW c \in ClaimIds, NEW d \in ClaimIds
  PROVE  /\ ~(Before(c, d) /\ Before(d, c))
         /\ c = d \/ Before(c, d) \/ Before(d, c)
<1>1. \A id \in ClaimIds : id = <<id[1], id[2]>> /\ id[1] \in Int /\ id[2] \in Int
  BY DraftShape, ReviewAssumption DEF ClaimIds, ReviewAssumption
<1> QED
  BY <1>1 DEF Before

LEMMA InitOrderInv == ReviewInit => OrderInv
<1> SUFFICES ASSUME ReviewInit PROVE OrderInv
  OBVIOUS
<1>1. verdicts = <<>> /\ Len(verdicts) = 0 /\ \A id \in ClaimIds : judged[id] = NoVerdict
  BY DEF ReviewInit
<1>2. Attributes(<<>>)
  BY <1>1 DEF Attributes, NoVerdict, Supports
<1> QED
  BY <1>1, <1>2 DEF OrderInv, JudgedInOrder

LEMMA OrderStays ==
  ASSUME OrderInv, UNCHANGED <<draft, judged, verdicts>>
  PROVE  OrderInv'
<1>1. ClaimIds' = ClaimIds
  BY DEF ClaimIds
<1>2. \A u, id, said : Tells(u, id, said)' <=> Tells(u, id, said)
  BY DEF Tells
<1>3. PICK f : Attributes(f)
  BY DEF OrderInv
<1>4. Attributes(f)'
  BY <1>1, <1>2, <1>3 DEF Attributes
<1>5. JudgedInOrder'
  BY <1>1 DEF OrderInv, JudgedInOrder
<1> QED
  BY <1>4, <1>5 DEF OrderInv

\* A claim that is judged next leaves no claim behind unjudged.
LEMMA JudgedStayInOrder ==
  ASSUME DraftInv, OrderInv, Unjudged # {}, UNCHANGED draft,
         NEW status \in Supports \cup {"unverified"},
         judged \in [ClaimIds -> Judgements],
         judged' = [judged EXCEPT ![NextClaim] = status]
  PROVE  JudgedInOrder'
<1> DEFINE id == NextClaim
<1>1. /\ id \in ClaimIds /\ judged[id] = NoVerdict
      /\ \A other \in Unjudged : ~Before(other, id)
  BY NextIsUnjudged
<1> HIDE DEF id
<1>2. judged'[id] = status /\ \A other \in ClaimIds \ {id} : judged'[other] = judged[other]
  BY <1>1 DEF id
<1>3. status # NoVerdict
  BY DEF Supports, NoVerdict
<1>4. ASSUME NEW c \in ClaimIds, NEW d \in ClaimIds, judged'[d] # NoVerdict, Before(c, d)
      PROVE  judged'[c] # NoVerdict
  <2>1. CASE c = id
    BY <1>2, <1>3, <2>1
  <2>2. CASE c # id /\ d = id
    BY <1>1, <1>2, <1>4, <2>2 DEF Unjudged
  <2>3. CASE c # id /\ d # id
    BY <1>2, <1>4, <2>3 DEF OrderInv, JudgedInOrder
  <2> QED
    BY <2>1, <2>2, <2>3
<1>5. ClaimIds' = ClaimIds
  BY DEF ClaimIds
<1> QED
  BY <1>4, <1>5 DEF JudgedInOrder

LEMMA JudgeKeepsOrder ==
  ASSUME ReviewInv, OrderInv, NEW status \in Supports, Judge(status)
  PROVE  OrderInv'
<1> DEFINE id == NextClaim
           citing == draft[id[1]].claims[id[2]]
           labels == Labels(citing)
           v == [notice |-> draft[id[1]].notice, index |-> id[2],
                 verdict |-> Sanitize(status, labels, labels, Range(citing))]
           N == Len(verdicts)
<1>1. /\ UNCHANGED draft
      /\ judged' = [judged EXCEPT ![id] = status] /\ verdicts' = Append(verdicts, v)
      /\ Unjudged # {} /\ DraftInv /\ VerdictsInv
  BY DEF Judge, ReviewInv
<1>2. judged \in [ClaimIds -> Judgements] /\ verdicts \in Seq(Verdicts) /\ N \in Nat
  BY <1>1 DEF VerdictsInv
<1>3. JudgedInOrder'
  BY <1>1, <1>2, JudgedStayInOrder
<1>4. id \in ClaimIds /\ judged[id] = NoVerdict /\ Range(citing) \in SUBSET Hashes
  BY <1>1, NextIsUnjudged, ClaimShape
<1>5. PICK f : Attributes(f)
  BY DEF OrderInv
<1> HIDE DEF id, citing
<1>6. Tells(v, id, status)
  BY SanitizedTyped, <1>4 DEF Tells
<1> HIDE DEF v
<1>7. /\ Len(verdicts') = N + 1 /\ verdicts'[N + 1] = v
      /\ \A n \in 1..N : verdicts'[n] = verdicts[n]
  BY <1>1, <1>2, AppendProperties
<1>8. judged'[id] = status /\ \A c \in ClaimIds \ {id} : judged'[c] = judged[c]
  BY <1>1, <1>2, <1>4
<1> HIDE DEF N
<1>9. /\ f \in [1..N -> ClaimIds]
      /\ \A n \in 1..N : Tells(verdicts[n], f[n], judged[f[n]])
      /\ \A m, n \in 1..N : m < n => Before(f[m], f[n])
      /\ \A c \in ClaimIds : judged[c] \in Supports => \E n \in 1..N : f[n] = c
  BY <1>5 DEF Attributes, N
<1>10. ASSUME NEW n \in 1..N
       PROVE  f[n] \in ClaimIds /\ f[n] # id /\ Before(f[n], id)
  <2>1. verdicts[n] \in Verdicts
    BY <1>2, ElementOfSeq DEF N
  <2>2. judged[f[n]] \in Supports
    BY <1>9, <2>1 DEF Tells, Verdicts
  <2>3. f[n] \in ClaimIds /\ judged[f[n]] # NoVerdict
    BY <1>9, <2>2 DEF Supports, NoVerdict
  <2>4. ~Before(id, f[n])
    BY <1>4, <2>3 DEF OrderInv, JudgedInOrder
  <2> QED
    BY <1>1, <1>4, <2>3, <2>4, BeforeIsOrder
<1>11. PICK ext : ext \in [1..(N + 1) -> ClaimIds] /\ ext[N + 1] = id /\ \A n \in 1..N : ext[n] = f[n]
  <2> DEFINE h == [n \in 1..(N + 1) |-> IF n = N + 1 THEN id ELSE f[n]]
  <2>1. h \in [1..(N + 1) -> ClaimIds] /\ h[N + 1] = id /\ \A n \in 1..N : h[n] = f[n]
    BY <1>2, <1>4, <1>10 DEF N
  <2> QED
    BY <2>1
<1>12. ASSUME NEW n \in 1..(N + 1) PROVE Tells(verdicts'[n], ext[n], judged'[ext[n]])
  <2>1. CASE n = N + 1
    BY <1>6, <1>7, <1>8, <1>11, <2>1
  <2>2. CASE n \in 1..N
    BY <1>7, <1>8, <1>9, <1>10, <1>11, <2>2
  <2> QED
    BY <1>2, <2>1, <2>2
<1>13. ASSUME NEW m \in 1..(N + 1), NEW n \in 1..(N + 1), m < n
       PROVE  Before(ext[m], ext[n])
  <2>1. m \in 1..N
    BY <1>2, <1>13
  <2>2. CASE n = N + 1
    BY <1>10, <1>11, <2>1, <2>2
  <2>3. CASE n \in 1..N
    BY <1>9, <1>11, <1>13, <2>1, <2>3
  <2> QED
    BY <1>2, <2>2, <2>3
<1>14. ASSUME NEW c \in ClaimIds, judged'[c] \in Supports
       PROVE  \E n \in 1..(N + 1) : ext[n] = c
  <2>1. CASE c = id
    BY <1>2, <1>11, <2>1
  <2>2. CASE c # id
    <3>1. PICK n \in 1..N : f[n] = c
      BY <1>8, <1>9, <1>14, <2>2
    <3> QED
      BY <1>2, <1>11, <3>1
  <2> QED
    BY <2>1, <2>2
<1>15. Attributes(ext)'
  <2>1. ClaimIds' = ClaimIds /\ \A u, c, said : Tells(u, c, said)' <=> Tells(u, c, said)
    BY <1>1 DEF ClaimIds, Tells
  <2>2. (ext \in [1..Len(verdicts) -> ClaimIds])'
    BY <1>7, <1>11, <2>1
  <2>3. (\A n \in 1..Len(verdicts) : Tells(verdicts[n], ext[n], judged[ext[n]]))'
    BY <1>7, <1>12, <2>1
  <2>4. (\A m, n \in 1..Len(verdicts) : m < n => Before(ext[m], ext[n]))'
    BY <1>7, <1>13
  <2>5. (\A c \in ClaimIds : judged[c] \in Supports => \E n \in 1..Len(verdicts) : ext[n] = c)'
    BY <1>7, <1>14, <2>1
  <2> QED
    BY <2>2, <2>3, <2>4, <2>5 DEF Attributes
<1> QED
  BY <1>3, <1>15 DEF OrderInv

LEMMA VerifierFailsKeepsOrder ==
  ASSUME ReviewInv, OrderInv, VerifierFails
  PROVE  OrderInv'
<1> DEFINE id == NextClaim
<1>1. /\ UNCHANGED <<draft, verdicts>> /\ judged' = [judged EXCEPT ![id] = "unverified"]
      /\ Unjudged # {} /\ DraftInv /\ VerdictsInv
  BY DEF VerifierFails, ReviewInv
<1>2. judged \in [ClaimIds -> Judgements] /\ verdicts \in Seq(Verdicts)
  BY <1>1 DEF VerdictsInv
<1>3. JudgedInOrder'
  BY <1>1, <1>2, JudgedStayInOrder
<1>4. id \in ClaimIds /\ judged[id] = NoVerdict
  BY <1>1, NextIsUnjudged
<1>5. PICK f : Attributes(f)
  BY DEF OrderInv
<1> HIDE DEF id
<1>6. judged'[id] = "unverified" /\ \A c \in ClaimIds \ {id} : judged'[c] = judged[c]
  BY <1>1, <1>2, <1>4
<1>7. \A n \in 1..Len(verdicts) : f[n] \in ClaimIds \ {id}
  <2> SUFFICES ASSUME NEW n \in 1..Len(verdicts) PROVE f[n] \in ClaimIds \ {id}
    OBVIOUS
  <2>1. verdicts[n] \in Verdicts
    BY <1>2, ElementOfSeq
  <2>2. f[n] \in ClaimIds /\ judged[f[n]] \in Supports
    BY <1>5, <2>1 DEF Attributes, Tells, Verdicts
  <2> QED
    BY <1>4, <2>2 DEF Supports, NoVerdict
<1>8. Attributes(f)'
  <2>1. ClaimIds' = ClaimIds /\ \A u, c, said : Tells(u, c, said)' <=> Tells(u, c, said)
    BY <1>1 DEF ClaimIds, Tells
  <2>2. \A c \in ClaimIds : judged'[c] \in Supports => judged[c] \in Supports
    BY <1>6 DEF Supports
  <2>3. /\ f \in [1..Len(verdicts) -> ClaimIds]
        /\ \A m, n \in 1..Len(verdicts) : m < n => Before(f[m], f[n])
        /\ \A n \in 1..Len(verdicts) : Tells(verdicts[n], f[n], judged[f[n]])
        /\ \A c \in ClaimIds : judged[c] \in Supports => \E n \in 1..Len(verdicts) : f[n] = c
    BY <1>5 DEF Attributes
  <2>4. \A n \in 1..Len(verdicts) : Tells(verdicts[n], f[n], judged'[f[n]])
    BY <1>6, <1>7, <2>3
  <2>5. verdicts' = verdicts
    BY <1>1
  <2> QED
    BY <2>1, <2>2, <2>3, <2>4, <2>5 DEF Attributes
<1> QED
  BY <1>3, <1>8 DEF OrderInv

LEMMA ReviewKeepsOrder ==
  ASSUME ReviewInv, OrderInv, [ReviewNext]_reviewVars
  PROVE  OrderInv'
<1>1. CASE UNCHANGED <<draft, judged, verdicts>>
  BY <1>1, OrderStays
<1>2. CASE Validate \/ Verified \/ Persist \/ UNCHANGED reviewVars
  BY <1>1, <1>2 DEF Validate, Verified, Persist, reviewVars
<1> QED
  BY <1>2, JudgeKeepsOrder, VerifierFailsKeepsOrder DEF ReviewNext

\* The verdict that _serialize_claims finds is the last one of a namesake.
LEMMA LastVerdict ==
  ASSUME ReviewInv, OrderInv, phase = "delivered", NEW id \in ClaimIds
  PROVE  LET support == rows[id[1]].claims[id[2]].support
             said == {c \in Namesakes(id) : judged[c] \in Supports}
         IN  \/ said = {} /\ support = NoVerdict
             \/ \E last \in said :
                   /\ support = judged[last]
                   /\ \A d \in said : d = last \/ Before(d, last)
<1> DEFINE notice == draft[id[1]].notice
           said == {c \in Namesakes(id) : judged[c] \in Supports}
           hits == {n \in DOMAIN verdicts :
                       verdicts[n].notice = notice /\ verdicts[n].index = id[2]}
           final == CHOOSE n \in hits : \A m \in hits : m <= n
<1>1. id[1] \in DOMAIN draft /\ id[2] \in DOMAIN draft[id[1]].claims
  BY ClaimShape DEF ReviewInv
<1>2. rows[id[1]].claims[id[2]].support = VerdictFor(notice, id[2])
  BY <1>1 DEF ReviewInv, RowsInv, RowOf
<1>3. verdicts \in Seq(Verdicts) /\ DOMAIN verdicts = 1..Len(verdicts) /\ Len(verdicts) \in Nat
  BY DEF ReviewInv, VerdictsInv
<1>4. PICK f : Attributes(f)
  BY DEF OrderInv
<1>5. ASSUME NEW n \in hits PROVE f[n] \in said /\ judged[f[n]] = verdicts[n].verdict.status
  <2>1. n \in 1..Len(verdicts) /\ verdicts[n] \in Verdicts
    BY <1>3, <1>5, ElementOfSeq
  <2>2. f[n] \in ClaimIds /\ Tells(verdicts[n], f[n], judged[f[n]])
    BY <1>4, <2>1 DEF Attributes
  <2>3. judged[f[n]] \in Supports
    BY <2>1, <2>2 DEF Tells, Verdicts
  <2> QED
    BY <1>5, <2>2, <2>3 DEF Tells, Namesakes
<1>6. ASSUME NEW c \in said PROVE \E n \in hits : f[n] = c
  <2>1. PICK n \in 1..Len(verdicts) : f[n] = c
    BY <1>4 DEF Attributes, Namesakes
  <2>2. Tells(verdicts[n], c, judged[c])
    BY <1>4, <2>1 DEF Attributes
  <2> QED
    BY <1>3, <2>1, <2>2 DEF Tells, Namesakes
<1>7. CASE hits = {}
  <2>1. VerdictFor(notice, id[2]) = NoVerdict
    BY <1>7 DEF VerdictFor
  <2> QED
    BY <1>2, <1>6, <1>7, <2>1
<1>8. CASE hits # {}
  <2>1. VerdictFor(notice, id[2]) = verdicts[final].verdict.status
    BY <1>8 DEF VerdictFor
  <2>2. hits \subseteq 1..Len(verdicts)
    BY <1>3
  <2> HIDE DEF hits, said
  <2>3. \E n \in hits : \A m \in hits : m <= n
    BY <1>3, <1>8, <2>2, HasLast
  <2>4. final \in hits /\ \A m \in hits : m <= final
    BY <2>3
  <2> HIDE DEF final
  <2>5. ASSUME NEW d \in said PROVE d = f[final] \/ Before(d, f[final])
    <3>1. PICK m \in hits : f[m] = d
      BY <1>6
    <3>2. m = final \/ m < final
      BY <2>2, <2>4, <3>1
    <3> QED
      BY <1>4, <2>2, <2>4, <3>1, <3>2 DEF Attributes
  <2>6. f[final] \in said /\ rows[id[1]].claims[id[2]].support = judged[f[final]]
    BY <1>2, <1>5, <2>1, <2>4
  <2> QED
    BY <2>5, <2>6 DEF said
<1> QED
  BY <1>7, <1>8

THEOREM ReviewIsOrdered == ReviewSpec => [](ReviewInv /\ OrderInv)
<1>1. ReviewInit => ReviewInv /\ OrderInv
  BY InitReviewInv, InitOrderInv
<1>2. (ReviewInv /\ OrderInv) /\ [ReviewNext]_reviewVars => (ReviewInv /\ OrderInv)'
  BY ReviewKeepsInv, ReviewKeepsOrder
<1> QED
  BY <1>1, <1>2, PTL DEF ReviewSpec

(* Although verdicts are looked up by notice and ordinal, a judged claim   *)
(* that shares its notice and ordinal with no other claim of the draft is  *)
(* stored with the verdict on itself.  A claim that does share them need   *)
(* not be: review_verdicts.cfg has a counterexample.                       *)
THEOREM VerdictsFindTheirClaims ==
  ReviewSpec => [](phase = "delivered" => \A id \in ClaimIds :
                      Namesakes(id) = {id} /\ judged[id] \in Supports =>
                         rows[id[1]].claims[id[2]].support = judged[id])
<1> DEFINE Own == phase = "delivered" => \A id \in ClaimIds :
                     Namesakes(id) = {id} /\ judged[id] \in Supports =>
                        rows[id[1]].claims[id[2]].support = judged[id]
<1>1. ReviewInv /\ OrderInv => Own
  <2> SUFFICES ASSUME ReviewInv, OrderInv, phase = "delivered", NEW id \in ClaimIds,
                      Namesakes(id) = {id}, judged[id] \in Supports
               PROVE  rows[id[1]].claims[id[2]].support = judged[id]
    OBVIOUS
  <2> DEFINE said == {c \in Namesakes(id) : judged[c] \in Supports}
  <2>1. said = {id}
    OBVIOUS
  <2>2. \E last \in said : rows[id[1]].claims[id[2]].support = judged[last]
    BY <2>1, LastVerdict
  <2> QED
    BY <2>1, <2>2
<1> HIDE DEF Own
<1>2. ReviewSpec => []Own
  BY <1>1, ReviewIsOrdered, PTL
<1> QED
  BY <1>2 DEF Own

(* For any draft, what the JSON report holds back is exactly what the last *)
(* verdict on a claim of that notice and ordinal rejects or doubts.        *)
THEOREM ListsFollowVerdicts == ReviewSpec => []MainListFollowsVerdicts
<1>1. ReviewInv /\ OrderInv => MainListFollowsVerdicts
  <2> SUFFICES ASSUME ReviewInv, OrderInv, phase = "delivered", NEW id \in ClaimIds
               PROVE  id \in ReviewList <=>
                        \E c \in Namesakes(id) :
                           /\ judged[c] \in {"unsupported", "uncertain"}
                           /\ \A d \in Namesakes(id) : judged[d] \in Supports => ~Before(c, d)
    BY DEF MainListFollowsVerdicts
  <2> DEFINE support == rows[id[1]].claims[id[2]].support
             said == {c \in Namesakes(id) : judged[c] \in Supports}
  <2>1. id \in ReviewList <=> support \notin {"supported", NoVerdict}
    BY DEF ReviewList, MainList, InReview
  <2>2. \/ said = {} /\ support = NoVerdict
        \/ \E last \in said : /\ support = judged[last]
                              /\ \A d \in said : d = last \/ Before(d, last)
    BY LastVerdict
  <2> HIDE DEF support
  <2>3. CASE said = {} /\ support = NoVerdict
    BY <2>1, <2>3 DEF Supports
  <2>4. CASE \E last \in said : /\ support = judged[last]
                                /\ \A d \in said : d = last \/ Before(d, last)
    <3>1. PICK last \in said : /\ support = judged[last]
                               /\ \A d \in said : d = last \/ Before(d, last)
      BY <2>4
    <3>2. \A c, d \in said : ~(Before(c, d) /\ Before(d, c))
      BY BeforeIsOrder DEF ReviewInv, Namesakes
    <3>3. id \in ReviewList <=> judged[last] \in {"unsupported", "uncertain"}
      BY <2>1, <3>1 DEF Supports, NoVerdict
    <3>4. ASSUME judged[last] \in {"unsupported", "uncertain"},
                 NEW d \in Namesakes(id), judged[d] \in Supports
          PROVE  ~Before(last, d)
      BY <3>1, <3>2, <3>4
    <3>5. ASSUME NEW c \in Namesakes(id), judged[c] \in {"unsupported", "uncertain"},
                 \A d \in Namesakes(id) : judged[d] \in Supports => ~Before(c, d)
          PROVE  c = last
      <4>1. c \in said
        BY <3>5 DEF Supports
      <4> QED
        BY <3>1, <3>5, <4>1
    <3> QED
      BY <3>1, <3>3, <3>4, <3>5
  <2> QED
    BY <2>2, <2>3, <2>4
<1> QED
  BY <1>1, ReviewIsOrdered, PTL

=============================================================================
