--------------------------- MODULE QueryWorkflow ---------------------------
(***************************************************************************)
(* The LangGraph workflow of one run, node by node, and the report and     *)
(* DOCX object its last node delivers.                                     *)
(*                                                                         *)
(* One execution drives the graph at a time (RunOwnership shows why), so   *)
(* the row's token, lock and heartbeat are left out: an execution starts,  *)
(* runs nodes, and ends by recording a status, by raising, or by dying.    *)
(* The durable checkpoint follows the state in memory at its own pace, the *)
(* report row is committed before the checkpoint of the node that wrote    *)
(* it, and a retry resumes the checkpoint or starts over.                  *)
(*                                                                         *)
(* Intents and drafts are reduced to what the nodes tell apart.            *)
(***************************************************************************)
EXTENDS Integers

CONSTANTS
    MaxAttempts,        \* bound: executions of the run
    RecursionLimit,     \* supersteps one invocation of the graph may take
    MaxSynthesisRetries,
    None

ASSUME WorkflowAssumption ==
    /\ MaxAttempts \in Nat /\ RecursionLimit \in Nat \ {0}
    /\ MaxSynthesisRetries \in Nat

VARIABLES
    run,        \* QueryRun.status
    alive,      \* an execution is driving the graph
    attempts,   \* executions so far
    g,          \* RunState in memory, and the node that comes next
    cp,         \* the durable checkpoint of the thread
    steps,      \* supersteps of this invocation
    report,     \* the report row of the run: the draft it was made from
    key,        \* Report.docx_object_key is set
    object,     \* the DOCX object exists in the store
    export      \* where each caller of export_docx stands

deliveryVars == <<report, key, object, export>>
vars == <<run, alive, attempts, g, cp, steps, deliveryVars>>

Intents == {"clear", "unsure", "empty"}     \* unsure: scheduled, or confidence < 0.5
Drafts  == {"sound", "unsound", "unbound"}  \* unbound: passes validate_report, but an
                                            \* item citation has no evidence row
Exporters == {"graph", "http"}

Nodes == {"parse_intent", "validate_intent", "confirm_intent", "pause",
          "build_retrieval_plan", "retrieve_candidates", "resolve_duplicates",
          "verify_evidence", "synthesize_report", "validate_report",
          "verify_semantics", "persist_and_deliver"}
Final == "__end__"

\* The edges that carry no decision.
Edge == [parse_intent         |-> "validate_intent",
         pause                |-> "build_retrieval_plan",
         build_retrieval_plan |-> "retrieve_candidates",
         retrieve_candidates  |-> "resolve_duplicates",
         resolve_duplicates   |-> "verify_evidence",
         verify_evidence      |-> "synthesize_report",
         synthesize_report    |-> "validate_report",
         verify_semantics     |-> "persist_and_deliver",
         persist_and_deliver  |-> Final]

\* {"user_request": ...}: what an execution that starts over feeds the graph.
Input == [next |-> "parse_intent", status |-> "pending", intent |-> None,
          draft |-> None, retries |-> 0, errors |-> 0, paused |-> FALSE]

\* StateSnapshot.next is not empty.
Resumable(c) == c # None /\ c.next # Final

Init ==
    /\ run = "pending" /\ alive = FALSE /\ attempts = 0
    /\ g = Input /\ cp = None /\ steps = 0
    /\ report = None /\ key = FALSE /\ object = FALSE
    /\ export = [x \in Exporters |-> "off"]

-----------------------------------------------------------------------------
(* Executions                                                              *)

Drive(from) ==
    /\ ~alive /\ attempts < MaxAttempts
    /\ alive' = TRUE /\ attempts' = attempts + 1
    /\ run' = "running"
    /\ g' = [from EXCEPT !.paused = FALSE]
    /\ steps' = 0
    /\ UNCHANGED deliveryVars

Start == run = "pending" /\ Drive(Input) /\ UNCHANGED cp

\* Command(resume={"action": "approve"}).
Confirm == run = "awaiting_confirmation" /\ Drive(cp) /\ UNCHANGED cp

\* Resume what can go on; otherwise force_fresh, which deletes the thread.
Retry ==
    /\ run = "retryable"
    /\ IF Resumable(cp) THEN Drive(cp) /\ UNCHANGED cp
                        ELSE Drive(Input) /\ cp' = None

\* FencedCheckpointSaver.aput, in the background of the nodes.
Checkpoint ==
    /\ alive /\ cp # g
    /\ cp' = g
    /\ UNCHANGED <<run, alive, attempts, g, steps, deliveryVars>>

Stop(status) ==
    /\ alive' = FALSE
    /\ run' = status
    /\ export' = [export EXCEPT !["graph"] = "off"]
    /\ UNCHANGED <<attempts, g, cp, steps, report, key, object>>

\* The stream ended and the status is that of the checkpoint.
Finish ==
    /\ alive /\ cp = g
    /\ g.next = Final \/ g.paused
    /\ Stop(cp.status)

\* A node, a write or the recursion limit raised, or the process died or was
\* cancelled: a repair or
\* the sweep hands the row back.
Abort == alive /\ Stop("retryable")

\* One superstep: the node's update is merged and the next node is chosen.
Step(node, update) ==
    /\ alive
    /\ g.next = node /\ ~g.paused
    /\ steps < RecursionLimit
    /\ steps' = steps + 1
    /\ g' = update
    /\ UNCHANGED <<run, alive, attempts, cp>>

-----------------------------------------------------------------------------
(* From the request to the evidence                                        *)

ParseIntent ==
    /\ \E intent \in Intents :
          Step("parse_intent", [g EXCEPT !.next = Edge["parse_intent"],
                                         !.status = "validate_intent", !.intent = intent])
    /\ UNCHANGED deliveryVars

\* The model failed on every attempt; the edge is taken all the same.
ParseIntentFails ==
    /\ Step("parse_intent", [g EXCEPT !.next = Edge["parse_intent"], !.status = "failed",
                                      !.errors = @ + 1])
    /\ UNCHANGED deliveryVars

\* Reads fields of the intent: without one it raises.
ValidateIntent ==
    /\ g.intent # None
    /\ Step("validate_intent",
            IF g.intent = "empty"
            THEN [g EXCEPT !.next = Final, !.status = "failed", !.errors = @ + 1]
            ELSE [g EXCEPT !.next = "confirm_intent", !.status = "confirm_intent"])
    /\ UNCHANGED deliveryVars

ConfirmIntent ==
    /\ Step("confirm_intent",
            IF g.intent = "unsure"
            THEN [g EXCEPT !.next = "pause", !.status = "awaiting_confirmation"]
            ELSE [g EXCEPT !.next = "build_retrieval_plan", !.status = "build_retrieval_plan"])
    /\ UNCHANGED deliveryVars

\* interrupt_after=["pause"]
Pause ==
    /\ Step("pause", [g EXCEPT !.next = Edge["pause"], !.paused = TRUE])
    /\ UNCHANGED deliveryVars

\* The nodes that only fill in the state; verify_semantics is one for the
\* graph: whatever the verifier does, the run goes on.
StatusAfter == [build_retrieval_plan |-> "retrieve_candidates",
                retrieve_candidates  |-> "resolve_duplicates",
                resolve_duplicates   |-> "candidates_resolved",
                verify_evidence      |-> "synthesize_report",
                verify_semantics     |-> "persist_and_deliver"]

Proceed(node) ==
    /\ Step(node, [g EXCEPT !.next = Edge[node], !.status = StatusAfter[node]])
    /\ UNCHANGED deliveryVars

-----------------------------------------------------------------------------
(* Synthesis and validation                                                *)

SynthesizeReport ==
    /\ \E draft \in Drafts :
          Step("synthesize_report", [g EXCEPT !.next = Edge["synthesize_report"],
                                              !.status = "validate_report", !.draft = draft])
    /\ UNCHANGED deliveryVars

Invalid(draft) == draft = "unsound"

\* Fault: the retry is not counted.
ValidateReportUncounted ==
    /\ Step("validate_report",
            IF ~Invalid(g.draft)
            THEN [g EXCEPT !.next = "verify_semantics", !.status = "persist_and_deliver"]
            ELSE [g EXCEPT !.next = "synthesize_report", !.status = "synthesize_report",
                           !.draft = None])
    /\ UNCHANGED deliveryVars

\* Fault: after the last retry the draft is delivered as it is.
ValidateReportGivesIn ==
    /\ Step("validate_report",
            IF ~Invalid(g.draft) \/ g.retries >= MaxSynthesisRetries
            THEN [g EXCEPT !.next = "verify_semantics", !.status = "persist_and_deliver"]
            ELSE [g EXCEPT !.next = "synthesize_report", !.status = "synthesize_report",
                           !.retries = @ + 1, !.draft = None])
    /\ UNCHANGED deliveryVars

\* route_after_validate_report follows the status the node has set.
ValidateReport ==
    /\ Step("validate_report",
            IF ~Invalid(g.draft)
            THEN [g EXCEPT !.next = "verify_semantics", !.status = "persist_and_deliver"]
            ELSE IF g.retries < MaxSynthesisRetries
            THEN [g EXCEPT !.next = "synthesize_report", !.status = "synthesize_report",
                           !.retries = @ + 1, !.draft = None]
            ELSE [g EXCEPT !.next = Final, !.status = "failed", !.draft = None,
                           !.errors = @ + 1])
    /\ UNCHANGED deliveryVars

-----------------------------------------------------------------------------
(* Delivery                                                                *)

AtDelivery == alive /\ g.next = "persist_and_deliver" /\ steps < RecursionLimit

\* persist_online_report commits the row, or finds the one of an earlier attempt.
PersistReport ==
    /\ AtDelivery
    /\ g.draft # None
    /\ export["graph"] = "off"
    /\ report # None \/ g.draft # "unbound"
    /\ report' = IF report = None THEN g.draft ELSE report
    /\ export' = [export EXCEPT !["graph"] = "check"]
    /\ UNCHANGED <<run, alive, attempts, g, cp, steps, key, object>>

\* Fault: the failure is noted and the run completes.
PersistFailsQuietly ==
    /\ AtDelivery
    /\ export["graph"] = "off"
    /\ report = None
    /\ Step("persist_and_deliver", [g EXCEPT !.next = Final, !.status = "completed",
                                             !.errors = @ + 1])
    /\ UNCHANGED deliveryVars

\* DeliveryError, or no draft at all: the run fails and nothing is committed.
PersistFails ==
    /\ AtDelivery
    /\ export["graph"] = "off"
    /\ report = None
    /\ Step("persist_and_deliver", [g EXCEPT !.next = Final, !.status = "failed",
                                             !.errors = @ + 1])
    /\ UNCHANGED deliveryVars

\* POST /api/reports/{run}/docx/retry, at any time after the row exists.
RetryDocx ==
    /\ export["http"] = "off" /\ report # None
    /\ export' = [export EXCEPT !["http"] = "check"]
    /\ UNCHANGED <<run, alive, attempts, g, cp, steps, report, key, object>>

Exporting(x, phase) == export[x] = phase /\ (x = "graph" => alive)

\* What export_report hands back to its caller; the node then ends.
ExportDone(x, failed) ==
    /\ export' = [export EXCEPT ![x] = "off"]
    /\ IF x = "graph"
       THEN Step("persist_and_deliver",
                 [g EXCEPT !.next = Final, !.status = "completed",
                           !.errors = IF failed THEN @ + 1 ELSE @])
       ELSE UNCHANGED <<run, alive, attempts, g, cp, steps>>

\* The object is attached already: nothing is rendered again.
ExportFound(x) ==
    /\ Exporting(x, "check")
    /\ key /\ object
    /\ ExportDone(x, FALSE)
    /\ UNCHANGED <<report, key, object>>

ExportRender(x) ==
    /\ Exporting(x, "check")
    /\ ~(key /\ object)
    /\ export' = [export EXCEPT ![x] = "put"]
    /\ UNCHANGED <<run, alive, attempts, g, cp, steps, report, key, object>>

\* Fault: the key is attached before the object is stored.
ExportAttachFirst(x) ==
    /\ Exporting(x, "put")
    /\ key' = TRUE
    /\ export' = [export EXCEPT ![x] = "attach"]
    /\ UNCHANGED <<run, alive, attempts, g, cp, steps, report, object>>

ExportPut(x) ==
    /\ Exporting(x, "put")
    /\ object' = TRUE
    /\ export' = [export EXCEPT ![x] = "attach"]
    /\ UNCHANGED <<run, alive, attempts, g, cp, steps, report, key>>

\* DeliveryError: the online report stands, the run completes with an error.
\* A put that failed may have stored the object all the same.
ExportStoreFails(x) ==
    /\ \/ Exporting(x, "check") /\ key /\ UNCHANGED object
       \/ Exporting(x, "put") /\ object' \in {object, TRUE}
    /\ ExportDone(x, TRUE)
    /\ UNCHANGED <<report, key>>

ExportAttach(x) ==
    /\ Exporting(x, "attach")
    /\ key' = TRUE
    /\ ExportDone(x, FALSE)
    /\ UNCHANGED <<report, object>>

\* The process that serves the retry dies or its database call fails.
RetryDocxAborts ==
    /\ export["http"] # "off"
    /\ export' = [export EXCEPT !["http"] = "off"]
    /\ UNCHANGED <<run, alive, attempts, g, cp, steps, report, key, object>>

-----------------------------------------------------------------------------
Graph ==
    \/ ParseIntent \/ ParseIntentFails \/ ValidateIntent \/ ConfirmIntent \/ Pause
    \/ \E node \in DOMAIN StatusAfter : Proceed(node)
    \/ SynthesizeReport \/ ValidateReport
    \/ PersistReport \/ PersistFails
    \/ \E x \in Exporters :
          \/ ExportFound(x) \/ ExportRender(x) \/ ExportPut(x)
          \/ ExportStoreFails(x) \/ ExportAttach(x)

Next ==
    \/ Start \/ Confirm \/ Retry
    \/ Checkpoint \/ Finish \/ Abort
    \/ Graph
    \/ RetryDocx \/ RetryDocxAborts

Spec == Init /\ [][Next]_vars

-----------------------------------------------------------------------------
(* Properties                                                              *)

States == [next : Nodes \cup {Final},
           status : Nodes \cup {"pending", "candidates_resolved", "awaiting_confirmation",
                                "completed", "failed"},
           intent : Intents \cup {None}, draft : Drafts \cup {None},
           retries : 0..MaxSynthesisRetries, errors : Nat, paused : BOOLEAN]

(* The state in memory, the checkpoint and the row hold what RunState and  *)
(* the columns can hold; no status of a node in progress reaches the row.  *)
TypeOK ==
    /\ run \in {"pending", "running", "awaiting_confirmation", "retryable",
                "completed", "failed"}
    /\ alive \in BOOLEAN /\ attempts \in 0..MaxAttempts
    /\ g \in States /\ cp \in States \cup {None}
    /\ steps \in 0..RecursionLimit
    /\ report \in Drafts \cup {None} /\ key \in BOOLEAN /\ object \in BOOLEAN
    /\ export \in [Exporters -> {"off", "check", "put", "attach"}]

(* "no unsupported report is ever delivered": no draft that validate_report*)
(* rejects becomes a report row, on any retry, resume or restart.          *)
DeliveredIsValidated == report # None => ~Invalid(report)

(* A completed run has its online report, whatever crashed between the     *)
(* commit of the row and the checkpoint of the node that wrote it.         *)
CompletedHasReport == run = "completed" => report # None

(* The recursion limit is never met: pausing, resuming and the synthesis   *)
(* loop stay within one invocation's supersteps.                           *)
WithinRecursionLimit == alive /\ g.next # Final /\ ~g.paused => steps < RecursionLimit

(* An attached DOCX key always names an object that was stored, however    *)
(* the graph's export and a retry over HTTP interleave or die.             *)
AttachedIsStored == key => object /\ report # None

(* "let a transient failure resume": a retry does not resume a run at the  *)
(* validation of an intent the failed parse never produced.                *)
RetryHasIntent ==
    [][Retry /\ g'.next = "validate_intent" => g'.intent # None]_vars
=============================================================================
