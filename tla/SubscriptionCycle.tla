------------------------- MODULE SubscriptionCycle -------------------------
(***************************************************************************)
(* One subscription, the scheduler processes whose ticks contend for it,   *)
(* the run of each of its occurrences, the operator and the importer.      *)
(*                                                                         *)
(* Occurrence k is the k-th instant of the cron expression.  A tick reads  *)
(* the due occurrence, takes an advisory lock named for it, reads the row  *)
(* again, creates the occurrence's run and drives the run only if it was   *)
(* the one to create it; whoever finds a report diffs it against the seen  *)
(* versions and consumes the occurrence, whoever finds none counts a       *)
(* failure.  A run that its creator left half-way is finished, if ever, by *)
(* the operator through POST /retry and /confirm.  The graph is RunLifecycle*)
(* in a few words: a driver at a time, a report before "completed".        *)
(***************************************************************************)
EXTENDS Integers, Sequences, FiniteSets

CONSTANTS
    Workers,        \* scheduler processes that may be in a tick
    Operator,       \* the API process, as the driver of a run
    Nobody,
    Notices,        \* source notices the query may find
    Published,      \* the contents of a notice in the order of their import, no
                    \* two alike; of each, the normalized material fields
    Orders,         \* orders in which the evidence rows of a version come back
    NoReport,
    Patience,       \* failures in a row that pause the subscription: 3
    MaxOccurrence,  \* bound: how many occurrences come due
    MaxFailures,    \* bound: failures in a row after which nobody resumes
    MaxFaults       \* bound: exceptions, timeouts and crashes

ASSUME CycleAssumption ==
    /\ Nobody \notin Workers \cup {Operator} /\ Operator \notin Workers
    /\ IsFiniteSet(Notices) /\ \A cited \in SUBSET Notices : cited # NoReport
    /\ Published \in Seq({Published[i] : i \in DOMAIN Published})
    /\ Orders # {}
    /\ Patience \in Nat \ {0} /\ Published # <<>>
    /\ MaxOccurrence \in Nat /\ MaxFailures \in Nat /\ MaxFaults \in Nat

VARIABLES
    status,     \* Subscription.status
    next,       \* __next_run_at
    failures,   \* __consecutive_failures
    now,        \* the clock: occurrences up to now are due
    run,        \* run[k]: status of the run keyed by occurrence k, or "none"
    driver,     \* driver[k]: whose graph call drives it
    report,     \* report[k]: the notices its online report cites, or NoReport
    lock,       \* lock[k]: who holds pg_try_advisory_lock of the occurrence
    pc,         \* pc[w]: where the tick of worker w stands
    job,        \* job[w]: the occurrence it has picked
    copy,       \* copy[w]: the failure counter in its Subscription object
    view,       \* view[w]: the latest versions it has read, by notice
    versions,   \* versions[n]: notice_versions of n, oldest first; of each, the
                \* order in which its evidence rows come back
    seen,       \* seen[n]: which version the seen item of n names, or Unseen
    told,       \* told[n]: the inbox events about n
    faults      \* how many faults have happened

subVars   == <<status, next, failures>>
runVars   == <<run, driver, report>>
tickVars  == <<pc, job, copy, view>>
inboxVars == <<seen, told>>
vars      == <<subVars, now, runVars, lock, tickVars, versions, inboxVars, faults>>

Unseen      == 0
Occurrences == 1..MaxOccurrence
Drivers     == Workers \cup {Operator}

RunStates == {"none", "pending", "running", "approved", "awaiting_confirmation",
              "retryable", "failed", "completed", "consumed"}
Phases    == {"idle", "listed", "locked", "create", "execute", "driving",
              "confirm", "gate", "diff", "fail", "release", "crashed"}

\* Both are "running" to the row; only the second is past confirm_intent.  A
\* run whose occurrence is consumed is not followed any further.
Active == {"running", "approved"}

\* Phases in which the worker holds the occurrence's lock.
Inside(w) == pc[w] \notin {"idle", "listed", "crashed"}

Goto(w, phase) == pc' = [pc EXCEPT ![w] = phase]

NoView == [n \in {} |-> Unseen]

\* What the cycle has read is of no use past its end.
Leave(w, phase) ==
    /\ Goto(w, phase)
    /\ copy' = [copy EXCEPT ![w] = 0]
    /\ view' = [view EXCEPT ![w] = NoView]
Idle(w) == Leave(w, "idle") /\ job' = [job EXCEPT ![w] = 0]
SetRun(k, s, d) == run' = [run EXCEPT ![k] = s] /\ driver' = [driver EXCEPT ![k] = d]

\* create_from_run, of a completed run whose intent carries a schedule.
Init ==
    /\ status = "active" /\ next = 1 /\ failures = 0 /\ now = 0
    /\ run = [k \in Occurrences |-> "none"]
    /\ driver = [k \in Occurrences |-> Nobody]
    /\ report = [k \in Occurrences |-> NoReport]
    /\ lock = [k \in Occurrences |-> Nobody]
    /\ pc = [w \in Workers |-> "idle"]
    /\ job = [w \in Workers |-> 0]
    /\ copy = [w \in Workers |-> 0]
    /\ view = [w \in Workers |-> NoView]
    /\ versions \in [Notices -> {<<order>> : order \in Orders}]
    /\ seen = [n \in Notices |-> Unseen]
    /\ told = [n \in Notices |-> <<>>]
    /\ faults = 0

-----------------------------------------------------------------------------
(* The tick, up to the run                                                 *)

\* list_due_subscriptions and the loop of _run_due_subscriptions.
Tick(w) ==
    /\ pc[w] = "idle"
    /\ status = "active" /\ next <= now
    /\ Goto(w, "listed")
    /\ job' = [job EXCEPT ![w] = next]
    /\ UNCHANGED <<subVars, now, runVars, lock, copy, view, versions, inboxVars, faults>>

\* Fault: the answer of pg_try_advisory_lock is not looked at.
EnterWithoutLock(w) ==
    /\ pc[w] = "listed"
    /\ lock' = [lock EXCEPT ![job[w]] = IF @ = Nobody THEN w ELSE @]
    /\ Goto(w, "locked")
    /\ UNCHANGED <<subVars, now, runVars, job, copy, view, versions, inboxVars, faults>>

\* Another holder means a skipped occurrence.
AcquireLock(w) ==
    /\ pc[w] = "listed"
    /\ IF lock[job[w]] = Nobody
       THEN /\ lock' = [lock EXCEPT ![job[w]] = w]
            /\ Goto(w, "locked")
            /\ UNCHANGED <<job, copy, view>>
       ELSE Idle(w) /\ UNCHANGED lock
    /\ UNCHANGED <<subVars, now, runVars, versions, inboxVars, faults>>

\* Fault: what the tick listed is not compared with the row again.
Unchecked(w) == TRUE

\* _matches_scheduled_occurrence
Matches(w) == status = "active" /\ next = job[w]

\* The row is read once, here, and its counter used at the end.
ReadSubscription(w) ==
    /\ pc[w] = "locked"
    /\ IF Matches(w)
       THEN Goto(w, "create") /\ copy' = [copy EXCEPT ![w] = failures]
       ELSE Goto(w, "release") /\ UNCHANGED copy
    /\ UNCHANGED <<subVars, now, runVars, lock, job, view, versions, inboxVars, faults>>

CreateRun(w) ==
    /\ pc[w] = "create"
    /\ IF run[job[w]] = "none"
       THEN SetRun(job[w], "pending", Nobody) /\ Goto(w, "execute")
       ELSE UNCHANGED <<run, driver>> /\ Goto(w, "gate")
    /\ UNCHANGED <<subVars, now, report, lock, job, copy, view, versions, inboxVars, faults>>

\* execute_run claims the pending row; a sweep may have been faster.
ExecuteRun(w) ==
    /\ pc[w] = "execute"
    /\ IF run[job[w]] = "pending"
       THEN SetRun(job[w], "running", w) /\ Goto(w, "driving")
       ELSE UNCHANGED <<run, driver>> /\ Goto(w, "fail")
    /\ UNCHANGED <<subVars, now, report, lock, job, copy, view, versions, inboxVars, faults>>

\* The bridge approves its own run; a 409 leaves the cycle uncounted.
AutoConfirm(w) ==
    /\ pc[w] = "confirm"
    /\ IF run[job[w]] = "awaiting_confirmation"
       THEN SetRun(job[w], "approved", w) /\ Goto(w, "driving") /\ UNCHANGED <<copy, view>>
       ELSE UNCHANGED <<run, driver>> /\ Leave(w, "release")
    /\ UNCHANGED <<subVars, now, report, lock, job, versions, inboxVars, faults>>

-----------------------------------------------------------------------------
(* The run                                                                 *)

\* The driver's call returns; a worker goes on with the status it returned.
Returns(k, s, phase) ==
    /\ SetRun(k, s, Nobody)
    /\ IF driver[k] \in Workers THEN Goto(driver[k], phase) ELSE UNCHANGED pc

Driven(k) == driver[k] # Nobody

GraphPauses(k) ==
    /\ Driven(k) /\ run[k] = "running"
    /\ Returns(k, "awaiting_confirmation", "confirm")
    /\ UNCHANGED <<subVars, now, report, lock, job, copy, view, versions, inboxVars, faults>>

\* The report is committed before the run's status is; a first one is kept.
GraphDelivers(k) ==
    /\ Driven(k) /\ report[k] = NoReport
    /\ \E cited \in SUBSET Notices :
          report' = [report EXCEPT ![k] = cited]
    /\ UNCHANGED <<subVars, now, run, driver, lock, tickVars, versions, inboxVars, faults>>

GraphCompletes(k) ==
    /\ Driven(k) /\ report[k] # NoReport
    /\ Returns(k, "completed", "gate")
    /\ UNCHANGED <<subVars, now, report, lock, job, copy, view, versions, inboxVars, faults>>

\* A failed node, an exception, or an ownership lost.
GraphFails(k) ==
    /\ Driven(k)
    /\ \E s \in {"failed", "retryable"} : Returns(k, s, "fail")
    /\ UNCHANGED <<subVars, now, report, lock, job, copy, view, versions, inboxVars, faults>>

-----------------------------------------------------------------------------
(* Report gate, diff and the end of the cycle                              *)

Latest(n) == Len(versions[n])

\* Fault: a cycle without a report is taken for one that cites nothing.
GateOpen(w) ==
    /\ pc[w] = "gate"
    /\ view' = [view EXCEPT ![w] =
                  [n \in (IF report[job[w]] = NoReport THEN {} ELSE report[job[w]]) |-> Latest(n)]]
    /\ Goto(w, "diff")
    /\ UNCHANGED <<subVars, now, runVars, lock, job, copy, versions, inboxVars, faults>>

\* No report, no delivery; else the latest version of each cited notice.
ReportGate(w) ==
    /\ pc[w] = "gate"
    /\ IF report[job[w]] = NoReport
       THEN Goto(w, "fail") /\ UNCHANGED view
       ELSE /\ Goto(w, "diff")
            /\ view' = [view EXCEPT ![w] = [n \in report[job[w]] |-> Latest(n)]]
    /\ UNCHANGED <<subVars, now, runVars, lock, job, copy, versions, inboxVars, faults>>

\* detect_material_changes: the fields, and the evidence texts as they come.
MaterialChange(n, old, new) ==
    \/ Published[old] # Published[new]
    \/ versions[n][old] # versions[n][new]

Event(kind, v) == <<[kind |-> kind, version |-> v]>>

\* _diff_and_emit for one notice of the report.
Emitted(n, v) ==
    IF seen[n] = Unseen THEN Event("new_notice", v)
    ELSE IF seen[n] # v /\ MaterialChange(n, seen[n], v) THEN Event("material_change", v)
    ELSE <<>>

\* Fault: seen items are only inserted, never brought up to date.
AdvanceNewOnly(w) ==
    seen' = [n \in Notices |-> IF n \in DOMAIN view[w] /\ seen[n] = Unseen
                               THEN view[w][n] ELSE seen[n]]

AdvanceSeen(w) ==
    seen' = [n \in Notices |-> IF n \in DOMAIN view[w] THEN view[w][n] ELSE seen[n]]

\* Events, seen items, counter and next occurrence commit together.
Consume(w) ==
    /\ pc[w] = "diff"
    /\ told' = [n \in Notices |-> IF n \in DOMAIN view[w]
                                  THEN told[n] \o Emitted(n, view[w][n]) ELSE told[n]]
    /\ AdvanceSeen(w)
    /\ failures' = 0
    /\ next' = job[w] + 1
    /\ SetRun(job[w], "consumed", Nobody)
    /\ Leave(w, "release")
    /\ UNCHANGED <<status, now, report, lock, job, versions, faults>>

\* Fault: the counter is bumped on a copy that is not saved.
FailureUncounted(w) ==
    /\ pc[w] = "fail"
    /\ Leave(w, "release")
    /\ UNCHANGED <<subVars, now, runVars, lock, job, versions, inboxVars, faults>>

RecordFailure(w) ==
    /\ pc[w] = "fail"
    /\ failures' = copy[w] + 1
    /\ status' = IF failures' >= Patience THEN "paused" ELSE status
    /\ Leave(w, "release")
    /\ UNCHANGED <<next, now, runVars, lock, job, versions, inboxVars, faults>>

\* The finally block; an unlock that fails retires the session with its lock.
Release(w) ==
    /\ pc[w] = "release"
    /\ lock' = [lock EXCEPT ![job[w]] = IF @ = w THEN Nobody ELSE @]
    /\ Idle(w)
    /\ UNCHANGED <<subVars, now, runVars, versions, inboxVars, faults>>

-----------------------------------------------------------------------------
(* Exceptions, timeouts, crashes                                           *)

Fault == faults < MaxFaults /\ faults' = faults + 1

\* An exception ends the cycle: the tick counts it, the subscription does not.
Raise(w) ==
    /\ Fault
    /\ pc[w] \in {"locked", "create", "execute", "confirm", "gate", "diff", "fail"}
    /\ Leave(w, "release")
    /\ UNCHANGED <<subVars, now, runVars, lock, job, versions, inboxVars>>

\* wait_for cancels the tick inside the graph; the run is handed back, or the
\* hand-back fails and its row goes on saying "running".
TickTimesOut(w) ==
    /\ Fault
    /\ pc[w] = "driving"
    /\ Leave(w, "release")
    /\ \E s \in {"retryable", run[job[w]]} : SetRun(job[w], s, Nobody)
    /\ UNCHANGED <<subVars, now, report, lock, job, versions, inboxVars>>

WorkerCrashes(w) ==
    /\ Fault
    /\ Inside(w)
    /\ Leave(w, "crashed")
    /\ driver' = [k \in Occurrences |-> IF driver[k] = w THEN Nobody ELSE driver[k]]
    /\ UNCHANGED <<subVars, now, run, report, lock, job, versions, inboxVars>>

\* Postgres sees the socket close, and the process is started again.
SessionEnds(w) ==
    /\ pc[w] = "crashed"
    /\ lock' = [lock EXCEPT ![job[w]] = IF @ = w THEN Nobody ELSE @]
    /\ Idle(w)
    /\ UNCHANGED <<subVars, now, runVars, versions, inboxVars, faults>>

ApiCrashes(k) ==
    /\ Fault
    /\ driver[k] = Operator
    /\ driver' = [driver EXCEPT ![k] = Nobody]
    /\ UNCHANGED <<subVars, now, run, report, lock, tickVars, versions, inboxVars>>

-----------------------------------------------------------------------------
(* The API: startup sweep, retry, confirm, pause, resume                   *)

Sweep(k) ==
    /\ ~Driven(k) /\ run[k] \in Active \cup {"pending"}
    /\ SetRun(k, "retryable", Nobody)
    /\ UNCHANGED <<subVars, now, report, lock, tickVars, versions, inboxVars, faults>>

OperatorRetries(k) ==
    /\ run[k] = "retryable"
    /\ SetRun(k, "running", Operator)
    /\ UNCHANGED <<subVars, now, report, lock, tickVars, versions, inboxVars, faults>>

OperatorConfirms(k) ==
    /\ run[k] = "awaiting_confirmation"
    /\ SetRun(k, "approved", Operator)
    /\ UNCHANGED <<subVars, now, report, lock, tickVars, versions, inboxVars, faults>>

Pause ==
    /\ status = "active"
    /\ status' = "paused"
    /\ UNCHANGED <<next, failures, now, runVars, lock, tickVars, versions, inboxVars, faults>>

\* The counter is left as it is.
Resume ==
    /\ status = "paused" /\ failures < MaxFailures
    /\ status' = "active"
    /\ UNCHANGED <<next, failures, now, runVars, lock, tickVars, versions, inboxVars, faults>>

-----------------------------------------------------------------------------
(* The importer and the clock                                              *)

\* The next content of the notice; one it has had before makes no version.
Import(n) ==
    /\ Len(versions[n]) < Len(Published)
    /\ \E order \in Orders : versions' = [versions EXCEPT ![n] = Append(@, order)]
    /\ UNCHANGED <<subVars, now, runVars, lock, tickVars, inboxVars, faults>>

OccurrenceComesDue ==
    /\ now < MaxOccurrence
    /\ now' = now + 1
    /\ UNCHANGED <<subVars, runVars, lock, tickVars, versions, inboxVars, faults>>

-----------------------------------------------------------------------------

Step(w) ==
    \/ AcquireLock(w) \/ ReadSubscription(w) \/ CreateRun(w) \/ ExecuteRun(w)
    \/ AutoConfirm(w) \/ ReportGate(w) \/ Consume(w) \/ RecordFailure(w)
    \/ Release(w) \/ SessionEnds(w)

Graph(k) == GraphPauses(k) \/ GraphDelivers(k) \/ GraphCompletes(k) \/ GraphFails(k)

Next ==
    \/ \E w \in Workers :
          Tick(w) \/ Step(w) \/ Raise(w) \/ TickTimesOut(w) \/ WorkerCrashes(w)
    \/ \E k \in Occurrences :
          Graph(k) \/ ApiCrashes(k) \/ Sweep(k) \/ OperatorRetries(k) \/ OperatorConfirms(k)
    \/ \E n \in Notices : Import(n)
    \/ Pause \/ Resume \/ OccurrenceComesDue

Spec == Init /\ [][Next]_vars

(***************************************************************************)
(* The scheduler's job fires every minute, a tick goes on unless it is cut *)
(* off, and the graph a tick drives comes to an end: the recursion limit   *)
(* and the model's timeouts see to it.  Nobody has to retry, confirm,      *)
(* resume or import anything.                                              *)
(***************************************************************************)
FairSpec ==
    /\ Spec
    /\ \A w \in Workers : WF_vars(Tick(w)) /\ WF_vars(Step(w))
    /\ \A k \in Occurrences : WF_vars(driver[k] \in Workers /\ Graph(k))

-----------------------------------------------------------------------------
(* Properties                                                              *)

Versions == 1..Len(Published)
Events   == [kind : {"new_notice", "material_change"}, version : Versions]

(* Every variable stays in its range.                                      *)
TypeOK ==
    /\ status \in {"active", "paused"}
    /\ next \in 1..(MaxOccurrence + 1) /\ now \in 0..MaxOccurrence
    /\ failures \in Nat /\ faults \in 0..MaxFaults
    /\ run \in [Occurrences -> RunStates]
    /\ driver \in [Occurrences -> Drivers \cup {Nobody}]
    /\ report \in [Occurrences -> (SUBSET Notices) \cup {NoReport}]
    /\ lock \in [Occurrences -> Workers \cup {Nobody}]
    /\ pc \in [Workers -> Phases] /\ job \in [Workers -> 0..MaxOccurrence]
    /\ copy \in [Workers -> Nat]
    /\ view \in [Workers -> UNION {[cited -> Versions] : cited \in SUBSET Notices}]
    /\ versions \in [Notices -> Seq(Orders)]
    /\ \A n \in Notices : Latest(n) \in Versions
    /\ seen \in [Notices -> Versions \cup {Unseen}]
    /\ told \in [Notices -> Seq(Events)]
    /\ \A k \in Occurrences : Driven(k) => run[k] \in Active

(* The scheduler module: the lock guarantees that two workers acting on    *)
(* the same occurrence execute it once.  Between acquiring and releasing,  *)
(* a worker is alone with its occurrence, and it drives the run alone.     *)
OneWorkerPerOccurrence ==
    /\ \A v, w \in Workers : Inside(v) /\ Inside(w) /\ job[v] = job[w] => v = w
    /\ \A k \in Occurrences : driver[k] \in Workers =>
          lock[k] = driver[k] /\ job[driver[k]] = k /\ pc[driver[k]] = "driving"

(* What the inbox was told of a notice and the seen item the next diff     *)
(* starts from agree: the first event announces it, no version is told     *)
(* twice, and what was seen since the last event is not materially         *)
(* different from what the event was about.                                *)
InboxMatchesSeen ==
    \A n \in Notices :
        /\ told[n] = <<>> <=> seen[n] = Unseen
        /\ \A i \in DOMAIN told[n] :
              /\ told[n][i].kind = IF i = 1 THEN "new_notice" ELSE "material_change"
              /\ \A j \in 1..(i - 1) : told[n][j].version < told[n][i].version
        /\ told[n] # <<>> => Published[told[n][Len(told[n])].version] = Published[seen[n]]

(* An occurrence is consumed once, in order and by a report, together with *)
(* its inbox events; every counted failure is the next in a row, and the   *)
(* third one pauses.                                                       *)
Contract == INSTANCE SubscriptionContract
              WITH reported <- {k \in Occurrences : report[k] # NoReport}
ImplementsContract == Contract!Spec

(* A due occurrence of an active subscription is consumed, or the          *)
(* subscription is paused: whatever its first run came to, the ticks do    *)
(* not go round in circles over it.                                        *)
OccurrenceSettles ==
    \A k \in Occurrences :
        (status = "active" /\ next = k /\ k <= now) ~> (next > k \/ status = "paused")

(* _diff_and_emit: a formatting-only change of the content hash advances   *)
(* the cursor without an event.                                            *)
FormattingIsSilent ==
    \A n \in Notices : \A i \in 2..Len(told[n]) :
        Published[told[n][i].version] # Published[told[n][i - 1].version]
=============================================================================
