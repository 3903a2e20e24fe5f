----------------------------- MODULE RunService -----------------------------
(***************************************************************************)
(* The API process in front of the runs: POST /api/runs with its           *)
(* idempotency key, the bounded pool of execution slots, the detached task *)
(* of a scheduled run, POST /confirm and POST /retry, which run the graph  *)
(* inside the request, and the shutdown of the service.                    *)
(*                                                                         *)
(* One run for each key.  What an execution does to its row is RunLifecycle*)
(* in a few words: it claims the row, may lose it to a repair or a sweep,  *)
(* and concludes it only while it owns it.                                 *)
(***************************************************************************)
EXTENDS Integers, FiniteSets

CONSTANTS
    Requests,   \* HTTP handlers that may be in progress
    Keys,       \* idempotency keys; a run is named by its key
    Limit,      \* max_concurrent_runs
    Task,       \* the detached task, as an owner of a row
    Nobody

ASSUME ServiceAssumption ==
    /\ Limit \in Nat \ {0}
    /\ IsFiniteSet(Requests) /\ IsFiniteSet(Keys)
    /\ Task \notin Requests /\ Nobody \notin Requests \cup {Task}
    /\ Requests \cap Keys = {}

VARIABLES
    status,     \* status[k]: QueryRun.status, or "absent"
    by,         \* by[k]: whose token the row carries
    task,       \* task[k]: the run's task in _run_tasks
    at,         \* at[h]: where handler h stands
    key,        \* key[h]: the run it is about
    reserved,   \* _active_run_reservations
    draining    \* _shutting_down

vars == <<status, by, task, at, key, reserved, draining>>

Outcomes == {"awaiting_confirmation", "completed", "failed", "retryable"}
Eligible == [confirm |-> "awaiting_confirmation", retry |-> "retryable"]
Ops      == DOMAIN Eligible

\* Places where a handler, or a task, holds a slot.
Claiming   == {"confirm", "retry"}
HeldAt     == Claiming \cup {"execute", "leave"}
HeldBy     == {"scheduled", "running", "leaving"}

Init ==
    /\ status = [k \in Keys |-> "absent"] /\ by = [k \in Keys |-> Nobody]
    /\ task = [k \in Keys |-> "none"]
    /\ at = [h \in Requests |-> "idle"] /\ key \in [Requests -> Keys]
    /\ reserved = 0 /\ draining = FALSE

Go(h, place) == at' = [at EXCEPT ![h] = place]
Row(k, s, owner) == status' = [status EXCEPT ![k] = s] /\ by' = [by EXCEPT ![k] = owner]

\* _try_reserve_run
Free == reserved < Limit

\* Fault: the counter may run ahead of its holders.
ReleaseTwice == reserved' = IF reserved > 1 THEN reserved - 2 ELSE 0

\* _release_run_reservation
Release == reserved' = IF reserved > 0 THEN reserved - 1 ELSE 0

-----------------------------------------------------------------------------
(* POST /api/runs                                                          *)

\* No row carries the key yet; one that does is simply read back.
Post(h, k) ==
    /\ at[h] = "idle" /\ status[k] = "absent"
    /\ Go(h, "insert") /\ key' = [key EXCEPT ![h] = k]
    /\ UNCHANGED <<status, by, task, reserved, draining>>

\* Fault: run_key is not unique, so both callers have created the run.
InsertTwice(h) ==
    /\ at[h] = "insert"
    /\ Go(h, "created")
    /\ IF status[key[h]] = "absent" THEN Row(key[h], "pending", Nobody)
                                    ELSE UNCHANGED <<status, by>>
    /\ UNCHANGED <<key, task, reserved, draining>>

\* The commit, where the unique run_key decides between two callers.
Insert(h) ==
    /\ at[h] = "insert"
    /\ IF status[key[h]] = "absent"
       THEN Row(key[h], "pending", Nobody) /\ Go(h, "created")
       ELSE Go(h, "idle") /\ UNCHANGED <<status, by>>
    /\ UNCHANGED <<key, task, reserved, draining>>

\* schedule_run, without an await between the check and the reservation.
Schedule(h) ==
    /\ at[h] = "created"
    /\ IF ~draining /\ Free
       THEN /\ reserved' = reserved + 1
            /\ task' = [task EXCEPT ![key[h]] = "scheduled"]
            /\ Go(h, "idle")
       ELSE Go(h, "bounced") /\ UNCHANGED <<reserved, task>>
    /\ UNCHANGED <<status, by, key, draining>>

\* RunCapacityError: the pending row becomes retryable, the caller gets 429.
Bounce(h) ==
    /\ at[h] = "bounced"
    /\ Go(h, "idle")
    /\ IF status[key[h]] = "pending" THEN Row(key[h], "retryable", Nobody)
                                     ELSE UNCHANGED <<status, by>>
    /\ UNCHANGED <<key, task, reserved, draining>>

\* The handler is cancelled or the database fails it: a row may stay pending.
PostFails(h) ==
    /\ at[h] \in {"insert", "created", "bounced"}
    /\ Go(h, "idle")
    /\ UNCHANGED <<status, by, key, task, reserved, draining>>

-----------------------------------------------------------------------------
(* The task of a scheduled run                                             *)

TaskTo(k, place) == task' = [task EXCEPT ![k] = place]

\* _start_run: the claim fails if the row is not pending any more, or raises.
TaskStarts(k) ==
    /\ task[k] = "scheduled"
    /\ \/ status[k] = "pending" /\ Row(k, "running", Task) /\ TaskTo(k, "running")
       \/ TaskTo(k, "leaving") /\ UNCHANGED <<status, by>>
    /\ UNCHANGED <<at, key, reserved, draining>>

\* The fenced update, which the database may also refuse.
Conclude(k, owner) ==
    \/ by[k] = owner /\ \E s \in Outcomes : Row(k, s, Nobody)
    \/ UNCHANGED <<status, by>>

TaskConcludes(k) ==
    /\ task[k] = "running"
    /\ Conclude(k, Task)
    /\ TaskTo(k, "leaving")
    /\ UNCHANGED <<at, key, reserved, draining>>

\* The finally block of _execute_reserved.
TaskLeaves(k) ==
    /\ task[k] = "leaving"
    /\ TaskTo(k, "done")
    /\ Release
    /\ UNCHANGED <<status, by, at, key, draining>>

-----------------------------------------------------------------------------
(* POST /confirm and POST /retry                                           *)

\* Without a free slot the answer is 429 and nothing has changed.
Reserve(h, op, k) ==
    /\ at[h] = "idle" /\ Free
    /\ reserved' = reserved + 1
    /\ Go(h, op) /\ key' = [key EXCEPT ![h] = k]
    /\ UNCHANGED <<status, by, task, draining>>

Claim(h) ==
    /\ at[h] \in Claiming
    /\ IF status[key[h]] = Eligible[at[h]]
       THEN Row(key[h], "running", h) /\ Go(h, "execute")
       ELSE Go(h, "leave") /\ UNCHANGED <<status, by>>
    /\ UNCHANGED <<key, task, reserved, draining>>

\* Cancelled in the claim: one that committed is repaired, if the database lets it.
ClaimCancelled(h) ==
    /\ at[h] \in Claiming
    /\ \/ /\ status[key[h]] = Eligible[at[h]]
          /\ Row(key[h], "retryable", Nobody) \/ Row(key[h], "running", Nobody)
       \/ UNCHANGED <<status, by>>
    /\ Go(h, "leave")
    /\ UNCHANGED <<key, task, reserved, draining>>

RequestConcludes(h) ==
    /\ at[h] = "execute"
    /\ Conclude(key[h], h)
    /\ Go(h, "leave")
    /\ UNCHANGED <<key, task, reserved, draining>>

\* Fault: a run that pauses keeps its slot for the confirmation.
LeaveUnlessPaused(h) ==
    /\ at[h] = "leave"
    /\ Go(h, "idle")
    /\ IF status[key[h]] = "awaiting_confirmation" THEN UNCHANGED reserved ELSE Release
    /\ UNCHANGED <<status, by, key, task, draining>>

\* The finally block of confirm, retry or _execute_reserved.
RequestLeaves(h) ==
    /\ at[h] = "leave"
    /\ Go(h, "idle")
    /\ Release
    /\ UNCHANGED <<status, by, key, task, draining>>

-----------------------------------------------------------------------------
\* A heartbeat's repair, or the sweep of another API process that starts.
HandBack(k) ==
    /\ status[k] \in {"pending", "running"}
    /\ Row(k, "retryable", Nobody)
    /\ UNCHANGED <<at, key, task, reserved, draining>>

\* shutdown(): a task that has not taken its first step never enters the try
\* block that frees its slot; a running one is repaired on its way out.
Shutdown ==
    /\ ~draining
    /\ draining' = TRUE
    /\ task' = [k \in Keys |-> CASE task[k] = "scheduled" -> "done"
                                 [] task[k] = "running"   -> "leaving"
                                 [] OTHER                 -> task[k]]
    /\ \E cut \in SUBSET {k \in Keys : task[k] = "running" /\ by[k] = Task} :
          /\ status' = [k \in Keys |-> IF k \in cut THEN "retryable" ELSE status[k]]
          /\ by' = [k \in Keys |-> IF k \in cut THEN Nobody ELSE by[k]]
    /\ UNCHANGED <<at, key, reserved>>

TaskStep(k) == TaskStarts(k) \/ TaskConcludes(k) \/ TaskLeaves(k)

RequestStep(h) ==
    \/ Insert(h) \/ Schedule(h) \/ Bounce(h) \/ PostFails(h)
    \/ Claim(h) \/ ClaimCancelled(h) \/ RequestConcludes(h) \/ RequestLeaves(h)

Next ==
    \/ \E h \in Requests, k \in Keys : Post(h, k) \/ \E op \in Ops : Reserve(h, op, k)
    \/ \E h \in Requests : RequestStep(h)
    \/ \E k \in Keys : TaskStep(k) \/ HandBack(k)
    \/ Shutdown

Spec == Init /\ [][Next]_vars

\* One event loop: what has been started goes on, and every node is bounded by
\* the timeouts of the model, the database and the object store.
FairSpec ==
    /\ Spec
    /\ \A k \in Keys : WF_vars(TaskStep(k))
    /\ \A h \in Requests : WF_vars(RequestStep(h))

-----------------------------------------------------------------------------
(* Properties                                                              *)

(* The rows, the handlers, the tasks and the counter stay in their ranges. *)
TypeOK ==
    /\ status \in [Keys -> Outcomes \cup {"absent", "pending", "running"}]
    /\ by \in [Keys -> Requests \cup {Task, Nobody}]
    /\ task \in [Keys -> HeldBy \cup {"none", "done"}]
    /\ at \in [Requests -> HeldAt \cup {"idle", "insert", "created", "bounced"}]
    /\ key \in [Requests -> Keys]
    /\ reserved \in 0..Limit /\ draining \in BOOLEAN

Holders == {h \in Requests : at[h] \in HeldAt} \cup {k \in Keys : task[k] \in HeldBy}

(* Every reservation belongs to one call in progress, and each is released *)
(* exactly once: on completion, pause, conflict, cancellation and loss.  No *)
(* more calls hold one than max_concurrent_runs, even while the service    *)
(* shuts down and /confirm and /retry still come in.                       *)
SlotsMatchHolders ==
    /\ ~draining => reserved = Cardinality(Holders)
    /\ Cardinality(Holders) <= Limit

(* "schedule new work exactly once": however POSTs with one key race, are  *)
(* bounced or replayed, the run never gets a second task.                  *)
ScheduledOnce ==
    [][\A k \in Keys : task'[k] = "scheduled" /\ task[k] # "scheduled" =>
          task[k] = "none"]_vars

(* An exhausted pool recovers: no run that ends, pauses, loses its row or  *)
(* is cancelled takes a slot with it.                                      *)
SlotsComeBack == reserved = Limit ~> (reserved < Limit \/ draining)
=============================================================================
