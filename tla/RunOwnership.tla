--------------------------- MODULE RunOwnership ---------------------------
(***************************************************************************)
(* One QueryRun row and the processes that contend for it.                 *)
(*                                                                         *)
(* A run is executed by whoever moved its row to "running": that UPDATE    *)
(* draws a fresh execution token, and every later write of the row is      *)
(* conditional on the token.  A Postgres session-level advisory lock keeps *)
(* a second execution out of the graph while the first is still inside it, *)
(* a heartbeat keeps updated_at young, and the sweep that the API runs at  *)
(* startup hands rows that have gone stale back as "retryable".            *)
(*                                                                         *)
(* An execution is one call that ends in RunService._execute_run: a        *)
(* scheduled start, POST /confirm or POST /retry, in the API process or in *)
(* the subscription scheduler's.  Slots are reused once a call returns.    *)
(* The graph the owner drives is abstracted to the fences it passes and    *)
(* the status it ends with; RunExecution fills it in.                      *)
(***************************************************************************)
EXTENDS Integers

CONSTANTS
    Executions,     \* slots in which _execute_run may be running
    Sweepers,       \* API processes whose startup sweep may be running
    NoHolder,       \* the advisory lock is free
    MaxClaims,      \* bound: how many execution tokens are ever drawn
    LockMayDrop     \* the session that owns the lock may lose its connection

ASSUME OwnershipAssumption ==
    /\ Executions \cap Sweepers = {}
    /\ NoHolder \notin Executions \cup Sweepers
    /\ MaxClaims \in Nat
    /\ LockMayDrop \in BOOLEAN

VARIABLES
    status,         \* QueryRun.status
    rowToken,       \* QueryRun.execution_token
    age,            \* QueryRun.updated_at: "old" past run_stale_after_seconds
    issued,         \* how many tokens gen_random_uuid() has drawn
    lockHolder,     \* who holds pg_try_advisory_lock(run_lock_key(run))
    pc,             \* pc[e]: where execution e stands
    token,          \* token[e]: the token e was handed when it claimed the row
    heart,          \* heart[e]: e's heartbeat task
    outcome,        \* outcome[e]: the status e's graph ended with
    sweep           \* sweep[s]: where the startup sweep of s stands

rowVars   == <<status, rowToken, age, issued>>
execVars  == <<pc, token, heart, outcome>>
vars      == <<rowVars, lockHolder, execVars, sweep>>

NoToken == 0

Outcomes == {"awaiting_confirmation", "completed", "failed"}
Terminal == {"completed", "failed"}
Statuses == {"pending", "running", "retryable"} \cup Outcomes
None     == "none"

Phases == {"idle", "context", "claimed", "giveup", "entering", "active",
           "committing", "repair", "releasing", "unwinding", "cancelled", "crashed"}
Hearts == {"off", "beating", "repairing", "failed"}
Ages     == {"young", "old"}
Sweeping == {"idle", "candidate", "locked", "unlocking"}

(***************************************************************************)
(* The fence of every owner write: status = 'running' AND execution_token  *)
(* = the caller's.                                                         *)
(***************************************************************************)
Owns(e) == status = "running" /\ token[e] # NoToken /\ rowToken = token[e]

\* Phases between acquiring the lock and the finally block that releases it.
Inside(e) == pc[e] \in {"entering", "active", "committing", "repair"}

Goto(e, phase) == pc' = [pc EXCEPT ![e] = phase]

\* The call is over: its claim and its result go with it.
Return(e) ==
    /\ Goto(e, "idle")
    /\ token' = [token EXCEPT ![e] = NoToken]
    /\ outcome' = [outcome EXCEPT ![e] = None]

\* The heartbeat side effect of every successful fence.
Touch == age' = "young"

Init ==
    /\ status = "pending" /\ rowToken = NoToken /\ age = "young" /\ issued = 0
    /\ lockHolder = NoHolder
    /\ pc = [e \in Executions |-> "idle"]
    /\ token = [e \in Executions |-> NoToken]
    /\ heart = [e \in Executions |-> "off"]
    /\ outcome = [e \in Executions |-> None]
    /\ sweep = [s \in Sweepers |-> "idle"]

-----------------------------------------------------------------------------
(* Claiming the row                                                        *)

\* Fault: the token names the run, not the attempt.
ClaimUnderRunId(e, eligible, phase) ==
    /\ pc[e] = "idle" /\ status = eligible /\ issued < MaxClaims
    /\ issued' = issued + 1
    /\ status' = "running" /\ rowToken' = 1 /\ Touch
    /\ token' = [token EXCEPT ![e] = 1]
    /\ Goto(e, phase)
    /\ UNCHANGED <<lockHolder, heart, outcome, sweep>>

\* One UPDATE ... WHERE status = eligible RETURNING execution_token.
Claim(e, eligible, phase) ==
    /\ pc[e] = "idle"
    /\ status = eligible
    /\ issued < MaxClaims
    /\ issued' = issued + 1
    /\ status' = "running"
    /\ rowToken' = issued'
    /\ Touch
    /\ token' = [token EXCEPT ![e] = issued']
    /\ Goto(e, phase)
    /\ UNCHANGED <<lockHolder, heart, outcome, sweep>>

StartRun(e)   == Claim(e, "pending", "claimed")
ConfirmRun(e) == Claim(e, "awaiting_confirmation", "claimed")
RetryRun(e)   == Claim(e, "retryable", "context")

\* retry() reads the row and the checkpoint before it enters _execute_run.
RetryContextLoaded(e) ==
    /\ pc[e] = "context"
    /\ Goto(e, "claimed")
    /\ UNCHANGED <<rowVars, lockHolder, token, heart, outcome, sweep>>

RetryContextFails(e) ==
    /\ pc[e] = "context"
    /\ Goto(e, "giveup")
    /\ UNCHANGED <<rowVars, lockHolder, token, heart, outcome, sweep>>

\* Fault: the bounce does not expect the row to be pending still.
BounceAnyStatus ==
    /\ status # "running"
    /\ status' = "retryable" /\ rowToken' = NoToken /\ Touch
    /\ UNCHANGED <<issued, lockHolder, execVars, sweep>>

\* POST /api/runs found no free slot: the pending row is left for a retry.
CapacityExhausted ==
    /\ status = "pending"
    /\ status' = "retryable" /\ rowToken' = NoToken /\ Touch
    /\ UNCHANGED <<issued, lockHolder, execVars, sweep>>

-----------------------------------------------------------------------------
(* Token-fenced status updates                                             *)

\* Fault: the WHERE clause lacks execution_token = :token.
UpdateWithoutToken(e, new) ==
    LET running == status = "running"
    IN /\ status' = IF running THEN new ELSE status
       /\ rowToken' = IF running THEN NoToken ELSE rowToken
       /\ age' = IF running THEN "young" ELSE age
       /\ UNCHANGED issued

\* _update_status(new, expected_status="running", execution_token=token[e]).
FencedUpdate(e, new) ==
    /\ status' = IF Owns(e) THEN new ELSE status
    /\ rowToken' = IF Owns(e) THEN NoToken ELSE rowToken
    /\ age' = IF Owns(e) THEN "young" ELSE age
    /\ UNCHANGED issued

\* The same, when the database may refuse it: the caller carries on.
FencedRepair(e) == FencedUpdate(e, "retryable") \/ UNCHANGED rowVars

\* No lock, or no retry context: hand the row back and return.
GiveUp(e) ==
    /\ pc[e] = "giveup"
    /\ FencedRepair(e)
    /\ Return(e)
    /\ UNCHANGED <<lockHolder, heart, sweep>>

-----------------------------------------------------------------------------
(* Inside _execute_run                                                     *)

\* Fault: the answer of pg_try_advisory_lock is not looked at.
EnterWithoutLock(e) ==
    /\ pc[e] = "claimed"
    /\ lockHolder' = IF lockHolder = NoHolder THEN e ELSE lockHolder
    /\ Goto(e, "entering")
    /\ UNCHANGED <<rowVars, token, heart, outcome, sweep>>

TryLock(e) ==
    /\ pc[e] = "claimed"
    /\ IF lockHolder = NoHolder
       THEN lockHolder' = e /\ Goto(e, "entering")
       ELSE UNCHANGED lockHolder /\ Goto(e, "giveup")
    /\ UNCHANGED <<rowVars, token, heart, outcome, sweep>>

\* The lock query raises: the connection is invalidated, the row is not touched.
LockQueryFails(e) ==
    /\ pc[e] = "claimed"
    /\ Return(e)
    /\ UNCHANGED <<rowVars, lockHolder, heart, sweep>>

\* The first ensure_active; the heartbeat task starts after it.
Enter(e) ==
    /\ pc[e] = "entering"
    /\ Owns(e)
    /\ Touch
    /\ heart' = [heart EXCEPT ![e] = "beating"]
    /\ Goto(e, "active")
    /\ UNCHANGED <<status, rowToken, issued, lockHolder, token, outcome, sweep>>

\* It raised, on a lost row or on a database error.
EnterFails(e) ==
    /\ pc[e] = "entering"
    /\ Goto(e, "repair")
    /\ UNCHANGED <<rowVars, lockHolder, token, heart, outcome, sweep>>

\* ensure_active from inside the graph: events, checkpoints, cursor.
Fence(e) ==
    /\ pc[e] = "active"
    /\ heart[e] = "beating"
    /\ Owns(e)
    /\ Touch
    /\ UNCHANGED <<status, rowToken, issued, lockHolder, execVars, sweep>>

\* RunOwnershipLostError: heartbeat_failure is set, or no row matched.
FenceLost(e) ==
    /\ pc[e] = "active"
    /\ heart[e] \in {"repairing", "failed"} \/ ~Owns(e)
    /\ Goto(e, "releasing")
    /\ UNCHANGED <<rowVars, lockHolder, token, heart, outcome, sweep>>

\* Any other exception of the graph, or the injected test failure.
GraphFails(e) ==
    /\ pc[e] = "active"
    /\ Goto(e, "repair")
    /\ UNCHANGED <<rowVars, lockHolder, token, heart, outcome, sweep>>

\* The graph returned a status; the last ensure_active passes.
GraphReturns(e, s) ==
    /\ pc[e] = "active"
    /\ heart[e] = "beating"
    /\ Owns(e)
    /\ Touch
    /\ outcome' = [outcome EXCEPT ![e] = s]
    /\ Goto(e, "committing")
    /\ UNCHANGED <<status, rowToken, issued, lockHolder, token, heart, sweep>>

Commit(e) ==
    /\ pc[e] = "committing"
    /\ FencedUpdate(e, outcome[e])
    /\ Goto(e, "releasing")
    /\ UNCHANGED <<lockHolder, token, heart, outcome, sweep>>

Repair(e) ==
    /\ pc[e] = "repair"
    /\ FencedRepair(e)
    /\ Goto(e, "releasing")
    /\ UNCHANGED <<lockHolder, token, heart, outcome, sweep>>

\* get_run, the last fence or the last update raises past the handlers: only
\* the finally block runs and the row keeps its token.
Abandon(e) ==
    /\ pc[e] \in {"active", "committing"}
    /\ Goto(e, "releasing")
    /\ UNCHANGED <<rowVars, lockHolder, token, heart, outcome, sweep>>

-----------------------------------------------------------------------------
(* The heartbeat task                                                      *)

Beat(e) ==
    /\ heart[e] = "beating"
    /\ Owns(e)
    /\ Touch
    /\ UNCHANGED <<status, rowToken, issued, lockHolder, execVars, sweep>>

\* ensure_active raised: no row matched, or the database failed.
BeatFails(e) ==
    /\ heart[e] = "beating"
    /\ heart' = [heart EXCEPT ![e] = "repairing"]
    /\ UNCHANGED <<rowVars, lockHolder, pc, token, outcome, sweep>>

HeartbeatRepair(e) ==
    /\ heart[e] = "repairing"
    /\ FencedRepair(e)
    /\ heart' = [heart EXCEPT ![e] = "failed"]
    /\ UNCHANGED <<lockHolder, pc, token, outcome, sweep>>

-----------------------------------------------------------------------------
(* The finally block and cancellation                                      *)

\* The heartbeat is cancelled and its repair drained, then the lock is freed.
ReleaseLock(e) ==
    /\ heart[e] # "repairing"
    /\ heart' = [heart EXCEPT ![e] = "off"]
    /\ lockHolder' = IF lockHolder = e THEN NoHolder ELSE lockHolder

Release(e) ==
    /\ pc[e] = "releasing"
    /\ ReleaseLock(e)
    /\ Return(e)
    /\ UNCHANGED <<rowVars, sweep>>

Unwind(e) ==
    /\ pc[e] = "unwinding"
    /\ ReleaseLock(e)
    /\ Goto(e, "cancelled")
    /\ UNCHANGED <<rowVars, token, outcome, sweep>>

\* The caller is cancelled: a client disconnect, a tick timeout, a shutdown.
Cancel(e) ==
    /\ \/ pc[e] \in {"context", "claimed", "giveup"} /\ Goto(e, "cancelled")
       \/ (Inside(e) \/ pc[e] = "releasing") /\ Goto(e, "unwinding")
    /\ UNCHANGED <<rowVars, lockHolder, token, heart, outcome, sweep>>

\* _persist_cancellation, which gives up after five seconds.
PersistCancellation(e) ==
    /\ pc[e] = "cancelled"
    /\ FencedRepair(e)
    /\ Return(e)
    /\ UNCHANGED <<lockHolder, heart, sweep>>

-----------------------------------------------------------------------------
(* The environment                                                         *)

\* The process dies; Postgres frees its lock only when it sees the socket close.
Crash(e) ==
    /\ pc[e] \notin {"idle", "crashed"}
    /\ Goto(e, "crashed")
    /\ heart' = [heart EXCEPT ![e] = "off"]
    /\ UNCHANGED <<rowVars, lockHolder, token, outcome, sweep>>

\* The owner's session ends: after a crash, or, unnoticed, under a live owner.
LockDrops(e) ==
    /\ lockHolder = e
    /\ pc[e] = "crashed" \/ LockMayDrop
    /\ lockHolder' = NoHolder
    /\ UNCHANGED <<rowVars, execVars, sweep>>

Restart(e) ==
    /\ pc[e] = "crashed"
    /\ lockHolder # e
    /\ Return(e)
    /\ UNCHANGED <<rowVars, lockHolder, heart, sweep>>

\* run_stale_after_seconds go by without a write of updated_at.
TimePasses ==
    /\ age = "young"
    /\ age' = "old"
    /\ UNCHANGED <<status, rowToken, issued, lockHolder, execVars, sweep>>

-----------------------------------------------------------------------------
(* mark_stale_runs_retryable                                               *)

\* Fault: the sweep only repairs runs that were never started.
SweepScanPendingOnly(s) ==
    /\ sweep[s] = "idle" /\ age = "old" /\ status = "pending"
    /\ status' = "retryable" /\ rowToken' = NoToken /\ Touch
    /\ UNCHANGED <<issued, sweep, lockHolder, execVars>>

\* First transaction: stale pending rows are flipped, stale running ones listed.
SweepScan(s) ==
    /\ sweep[s] = "idle"
    /\ age = "old"
    /\ \/ /\ status = "pending"
          /\ status' = "retryable" /\ rowToken' = NoToken /\ Touch
          /\ UNCHANGED <<issued, sweep>>
       \/ /\ status = "running"
          /\ sweep' = [sweep EXCEPT ![s] = "candidate"]
          /\ UNCHANGED rowVars
    /\ UNCHANGED <<lockHolder, execVars>>

\* Fault: a held lock does not stop the sweep.
SweepLockIgnored(s) ==
    /\ sweep[s] = "candidate"
    /\ lockHolder' = IF lockHolder = NoHolder THEN s ELSE lockHolder
    /\ sweep' = [sweep EXCEPT ![s] = "locked"]
    /\ UNCHANGED <<rowVars, execVars>>

\* A held lock is a live owner: skip the candidate.
SweepLock(s) ==
    /\ sweep[s] = "candidate"
    /\ IF lockHolder = NoHolder
       THEN lockHolder' = s /\ sweep' = [sweep EXCEPT ![s] = "locked"]
       ELSE UNCHANGED lockHolder /\ sweep' = [sweep EXCEPT ![s] = "idle"]
    /\ UNCHANGED <<rowVars, execVars>>

SweepFlip(s) ==
    /\ sweep[s] = "locked"
    /\ IF status = "running" /\ age = "old"
       THEN status' = "retryable" /\ rowToken' = NoToken /\ Touch /\ UNCHANGED issued
       ELSE UNCHANGED rowVars
    /\ sweep' = [sweep EXCEPT ![s] = "unlocking"]
    /\ UNCHANGED <<lockHolder, execVars>>

\* The finally block, or the sweeper's connection or process going away.
SweepUnlock(s) ==
    /\ sweep[s] \in {"locked", "unlocking"}
    /\ sweep' = [sweep EXCEPT ![s] = "idle"]
    /\ lockHolder' = NoHolder
    /\ UNCHANGED <<rowVars, execVars>>

-----------------------------------------------------------------------------
Progress(e) ==
    \/ RetryContextLoaded(e) \/ RetryContextFails(e) \/ GiveUp(e)
    \/ TryLock(e) \/ LockQueryFails(e) \/ Enter(e) \/ EnterFails(e)
    \/ FenceLost(e) \/ GraphFails(e) \/ \E s \in Outcomes : GraphReturns(e, s)
    \/ Commit(e) \/ Repair(e) \/ Abandon(e)
    \/ Release(e) \/ Unwind(e) \/ PersistCancellation(e)

ExecutionStep(e) ==
    \/ StartRun(e) \/ ConfirmRun(e) \/ RetryRun(e)
    \/ Progress(e) \/ Fence(e)
    \/ Beat(e) \/ BeatFails(e) \/ HeartbeatRepair(e)
    \/ Cancel(e) \/ Crash(e) \/ LockDrops(e) \/ Restart(e)

SweepStep(s) == SweepScan(s) \/ SweepLock(s) \/ SweepFlip(s) \/ SweepUnlock(s)

Next ==
    \/ \E e \in Executions : ExecutionStep(e)
    \/ \E s \in Sweepers : SweepStep(s)
    \/ CapacityExhausted
    \/ TimePasses

Spec == Init /\ [][Next]_vars

(***************************************************************************)
(* An execution that is scheduled keeps going (one event loop, bounded     *)
(* calls), its heartbeat's repair finishes, Postgres notices a dead        *)
(* session, time passes, and an operator keeps starting API processes, so  *)
(* sweeps keep running and one that can reach its UPDATE often enough does.*)
(***************************************************************************)
Fairness ==
    /\ \A e \in Executions :
          /\ WF_vars(Progress(e))
          /\ WF_vars(HeartbeatRepair(e))
          /\ WF_vars(LockDrops(e) /\ pc[e] = "crashed")
    /\ \A s \in Sweepers :
          /\ WF_vars(SweepScan(s))
          /\ WF_vars(SweepLock(s)) /\ SF_vars(SweepFlip(s)) /\ WF_vars(SweepUnlock(s))
    /\ WF_vars(TimePasses)

FairSpec == Spec /\ Fairness

-----------------------------------------------------------------------------
(* Properties                                                              *)

(* Every variable holds what the column or the local it models can hold.   *)
TypeOK ==
    /\ status \in Statuses /\ rowToken \in 0..MaxClaims /\ age \in Ages
    /\ issued \in 0..MaxClaims
    /\ lockHolder \in Executions \cup Sweepers \cup {NoHolder}
    /\ pc \in [Executions -> Phases]
    /\ token \in [Executions -> 0..MaxClaims]
    /\ heart \in [Executions -> Hearts]
    /\ outcome \in [Executions -> Outcomes \cup {None}]
    /\ sweep \in [Sweepers -> Sweeping]

(* A row carries a token exactly while it is running: _update_status, the  *)
(* sweep and the claims never leave one behind or run without one.         *)
TokenMarksRunning == status = "running" <=> rowToken # NoToken

(* However claims, crashes, sweeps and retries interleave, two executions  *)
(* never both pass the fence status = 'running' AND execution_token = mine.*)
SingleOwner == \A e, f \in Executions : Owns(e) /\ Owns(f) => e = f

(* While no live session loses its lock, the advisory lock keeps a second  *)
(* execution out of the part of _execute_run that it guards, even after    *)
(* the row has been handed back and claimed again under the first.         *)
OneGraphAtATime ==
    ~LockMayDrop => \A e, f \in Executions : Inside(e) /\ Inside(f) => e = f

(* The sweep, a retry or another execution never takes the row from an     *)
(* execution that holds the lock and whose heartbeat has not failed: only  *)
(* a step of its own gives the row up.                                     *)
Healthy(e) ==
    Owns(e) /\ lockHolder = e /\ Inside(e) /\ heart[e] \in {"off", "beating"}

HealthyOwnerKeepsRun ==
    [][\A e \in Executions :
          Healthy(e) /\ pc'[e] = pc[e] /\ heart'[e] = heart[e] => Owns(e)']_vars

(* A result other than "retryable" is recorded only by the execution that  *)
(* owns the row at that moment, and it is the result of its own graph.     *)
OutcomeFromOwner ==
    [][status = "running" /\ status' \in Outcomes =>
          \E e \in Executions :
             pc[e] = "committing" /\ Owns(e) /\ status' = outcome[e]]_vars

(* completed and failed are final: no late sweep, repair or retry reopens. *)
TerminalIsFinal == [][(status \in Terminal) => (status' = status)]_vars

(* A running row is eventually given an outcome or handed back, whichever  *)
(* execution crashed, was cancelled or lost its session on the way.        *)
RunLeavesRunning == status = "running" ~> status # "running"

(* The row, the lock, the heartbeats and the sweep implement the promise of *)
(* RunLifecycle.                                                           *)
Lifecycle == INSTANCE RunLifecycle WITH owner <- rowToken, claim <- token
ImplementsLifecycle == Lifecycle!Spec
=============================================================================
