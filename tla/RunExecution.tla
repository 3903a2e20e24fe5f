--------------------------- MODULE RunExecution ---------------------------
(***************************************************************************)
(* What an execution does between acquiring the run lock and recording an  *)
(* outcome: executor.execute() drives the LangGraph workflow, mirrors each *)
(* node event into the relational run_events table, and lets LangGraph     *)
(* checkpoint the state through FencedCheckpointSaver.                     *)
(*                                                                         *)
(* Two stores hold the progress of a run and no transaction spans them.    *)
(* The rows are appended in one transaction with the ownership fence.  The *)
(* checkpoint is written in the background (LangGraph's default "async"    *)
(* durability): first the fence, then, separately, the write.  The graph   *)
(* waits for these writes where it ends by itself.  When the body of the   *)
(* async for raises or the call is cancelled, nobody awaits or cancels     *)
(* them: they outlive the call, each still behind its own fence.           *)
(*                                                                         *)
(* The ownership protocol is RunOwnership's: each action below is one of   *)
(* its actions, leaves its variables alone, or is the fence of a write     *)
(* that outlived its call, which only makes updated_at young.  The         *)
(* workflow is a straight line of Steps supersteps; QueryWorkflow has the  *)
(* nodes.                                                                  *)
(***************************************************************************)
EXTENDS Integers, Sequences, FiniteSets

CONSTANTS
    Executions, Sweepers, NoHolder, MaxClaims, LockMayDrop,
    Steps,          \* supersteps from the input to the terminal checkpoint
    PauseAt,        \* the superstep that is the pause node (0: never paused)
    MaxPuts,        \* bound: background writes of one attempt at a time
    NoCheckpoint    \* the thread has no checkpoint

Tokens       == 1..MaxClaims
Fingerprints == [step : 1..Steps, by : Tokens]

\* base: event_seq_offset; trail: node_events; by: the attempt that drew its id.
Checkpoints == [base : Nat, pos : 0..Steps, trail : Seq(Fingerprints), by : Tokens]

ASSUME ExecutionAssumption ==
    /\ Executions \cap Sweepers = {} /\ NoHolder \notin Executions \cup Sweepers
    /\ MaxClaims \in Nat /\ LockMayDrop \in BOOLEAN
    /\ Steps \in Nat \ {0} /\ PauseAt \in 0..(Steps - 1) /\ MaxPuts \in Nat \ {0}
    /\ NoCheckpoint \notin Checkpoints

VARIABLES
    status, rowToken, age, issued, lockHolder, pc, token, heart,
    outcome, sweep,
    cp,             \* the checkpoint aget_tuple finds for the run's thread
    rows,           \* run_events: [seq, step, by]
    work,           \* work[e]: the locals of e's execute() call
    background,     \* background[t]: the checkpoint writes of attempt t
    moved           \* history: a stream began at another checkpoint than its event
                    \* cursor was reconciled with, or wrote a request over one

ownVars == <<status, rowToken, age, issued, lockHolder, pc, token,
             heart, outcome, sweep>>
vars    == <<ownVars, cp, rows, work, background, moved>>

Own == INSTANCE RunOwnership

(***************************************************************************)
(* An event's fingerprint: the superstep, and the execution that computed  *)
(* it (a node that runs again may well say something else).                *)
(***************************************************************************)
Event(step, e) == [step |-> step, by |-> token[e]]

\* StateSnapshot.next is not empty: the graph can go on from here.
Resumable(c) == c # NoCheckpoint /\ c.pos < Steps

TrailOf(c) == IF c = NoCheckpoint THEN <<>> ELSE c.trail
BaseOf(c)  == IF c = NoCheckpoint THEN 0 ELSE c.base

\* The saver keeps every checkpoint and reads the one with the greatest id; ids
\* are drawn in the order of the attempts and, in an attempt, of its supersteps.
Newer(d, c) ==
    c # NoCheckpoint => d.by > c.by \/ (d.by = c.by /\ d.pos > c.pos)

Blank ==
    [ph |-> "off",          \* where execute() stands
     mode |-> "resume",     \* input: a Command, the request, or the request force_fresh
     seen |-> NoCheckpoint, \* `existing`, until the stream begins
     base |-> 0,            \* persisted_seq_offset: where the trail begins in run_events
     done |-> 0,            \* `persisted`: how many of the trail are in run_events
     from |-> 0,            \* the superstep the stream began at
     pos |-> 0,             \* supersteps done, in the graph's memory
     trail |-> <<>>,        \* state["node_events"]
     offset |-> 0,          \* state["event_seq_offset"]
     broken |-> FALSE]      \* a background write failed: raised where the graph ends

\* Writes run one after another; the first is armed once it has passed its fence.
NoWrites == [queue |-> <<>>, armed |-> FALSE]

Init ==
    /\ Own!Init
    /\ cp = NoCheckpoint
    /\ rows = {}
    /\ work = [e \in Executions |-> Blank]
    /\ background = [t \in Tokens |-> NoWrites]
    /\ moved = FALSE

-----------------------------------------------------------------------------
(* _reconcile_event_cursor, for checkpoints that carry an attempt base     *)

NextSeq == IF rows = {} THEN 0
           ELSE 1 + (CHOOSE m \in {r.seq : r \in rows} : \A r \in rows : r.seq <= m)

Recorded(seq) == \E r \in rows : r.seq = seq
RecordedAs(seq, event) ==
    \E r \in rows : r.seq = seq /\ r.step = event.step /\ r.by = event.by

HasGap(base)          == \E q \in base..(NextSeq - 1) : ~Recorded(q)
Conflicts(base, trail) ==
    \E i \in 1..Len(trail) :
       Recorded(base + i - 1) /\ ~RecordedAs(base + i - 1, trail[i])

\* Fault: rows ahead of the checkpoint are not looked for.
TrailingIgnored(base, trail) == FALSE

HasTrailing(base, trail) == NextSeq > base + Len(trail)

\* Fault: every event of the checkpoint is taken to be a row.
MatchedAll(base, trail) == Len(trail)

\* How many events of the trail are already rows.
Matched(base, trail) ==
    Cardinality({i \in 1..Len(trail) : Recorded(base + i - 1)})

Reconciles(base, trail, complete) ==
    /\ ~HasGap(base) /\ ~Conflicts(base, trail) /\ ~HasTrailing(base, trail)
    /\ complete => Matched(base, trail) = Len(trail)

-----------------------------------------------------------------------------
At(e, ph) == pc[e] = "active" /\ work[e].ph = ph

\* execute() is over and its locals go; its background writes do not.
Leave(e) == work' = [work EXCEPT ![e] = Blank]

\* The graph ends by itself, which waits for its background writes.
Drained(e) == background[token[e]].queue = <<>>

\* LangGraph hands a checkpoint of e's attempt to the background.
Put(e, base, pos, trail) ==
    background' = [background EXCEPT ![token[e]].queue =
        Append(@, [base |-> base, pos |-> pos, trail |-> trail, by |-> token[e]])]

\* Of attempt t only a write that is past its fence can still land.
SentOnly(t) ==
    background' = [background EXCEPT ![t].queue =
        IF background[t].armed THEN <<Head(@)>> ELSE <<>>]

\* The input of a scheduled start is the request.
StartRun(e) ==
    /\ Own!StartRun(e)
    /\ work' = [work EXCEPT ![e].mode = "request"]
    /\ UNCHANGED <<cp, rows, background, moved>>

\* retry() resumes a checkpoint that can go on and starts over otherwise.
RetryContextLoaded(e) ==
    /\ Own!RetryContextLoaded(e)
    /\ work' = [work EXCEPT ![e].mode = IF Resumable(cp) THEN "resume" ELSE "fresh"]
    /\ UNCHANGED <<cp, rows, background, moved>>

Enter(e) ==
    /\ Own!Enter(e)
    /\ work' = [work EXCEPT ![e].ph = "load"]
    /\ UNCHANGED <<cp, rows, background, moved>>

\* _assert_execution_token, then graph.aget_state.
Load(e) ==
    /\ At(e, "load")
    /\ Own!Owns(e)
    /\ work' = [work EXCEPT ![e] =
          IF @.mode = "fresh" THEN [@ EXCEPT !.ph = "offset"]
          ELSE [@ EXCEPT !.ph = "reconcile", !.seen = cp, !.base = BaseOf(cp)]]
    /\ UNCHANGED <<ownVars, cp, rows, background, moved>>

\* force_fresh: ensure_active, and the new attempt's base is the next free seq.
FreshOffset(e) ==
    /\ At(e, "offset")
    /\ Own!Fence(e)
    /\ work' = [work EXCEPT ![e].base = NextSeq, ![e].ph = "clear"]
    /\ UNCHANGED <<cp, rows, background, moved>>

\* adelete_thread: the fence, then the delete.
ClearFence(e) ==
    /\ At(e, "clear")
    /\ Own!Fence(e)
    /\ work' = [work EXCEPT ![e].ph = "cleared"]
    /\ UNCHANGED <<cp, rows, background, moved>>

Clear(e) ==
    /\ At(e, "cleared")
    /\ cp' = NoCheckpoint
    /\ work' = [work EXCEPT ![e].ph = "reconcile"]
    /\ UNCHANGED <<ownVars, rows, background, moved>>

\* The stored checkpoint is terminal and the input is not to be run afresh.
Replays(e) == work[e].seen # NoCheckpoint /\ work[e].seen.pos = Steps

ReconcileAccepts(e) ==
    /\ At(e, "reconcile")
    /\ LET w == work[e]
       IN /\ Reconciles(w.base, TrailOf(w.seen), Replays(e))
          /\ IF Replays(e)
             THEN (\E s \in Own!Terminal : Own!GraphReturns(e, s)) /\ Leave(e)
             ELSE /\ Own!Fence(e)
                  /\ work' = [work EXCEPT ![e].ph = "start",
                                          ![e].done = Matched(w.base, TrailOf(w.seen))]
    /\ UNCHANGED <<cp, rows, background, moved>>

\* EventReconciliationError: the run goes back to "retryable".
ReconcileRejects(e) ==
    /\ At(e, "reconcile")
    /\ ~Reconciles(work[e].base, TrailOf(work[e].seen), Replays(e))
    /\ Own!GraphFails(e)
    /\ Leave(e)
    /\ UNCHANGED <<cp, rows, background, moved>>

-----------------------------------------------------------------------------
(* The stream                                                              *)

\* The next yield of a state with more events than `persisted` appends them.
PhaseAfter(trail, done) == IF Len(trail) > done THEN "append" ELSE "stream"

\* astream reads the thread's checkpoint once more.  A Command goes on from it
\* and cannot go on from nothing; a request is written over it as a new input
\* checkpoint, and node_events only ever grows.  The state is yielded first.
StartStream(e) ==
    /\ At(e, "start")
    /\ work[e].mode = "resume" => cp # NoCheckpoint
    /\ LET w       == work[e]
           resumes == w.mode = "resume"
           pos     == IF resumes THEN cp.pos ELSE 0
           offset  == IF resumes THEN cp.base ELSE w.base
       IN /\ work' = [work EXCEPT ![e] =
                [w EXCEPT !.seen = NoCheckpoint, !.from = pos, !.pos = pos,
                          !.trail = TrailOf(cp), !.offset = offset,
                          !.ph = PhaseAfter(TrailOf(cp), w.done)]]
          /\ IF resumes THEN UNCHANGED background ELSE Put(e, offset, 0, TrailOf(cp))
          /\ moved' = (moved \/ cp # w.seen \/ (~resumes /\ cp # NoCheckpoint))
    /\ UNCHANGED <<ownVars, cp, rows>>

Paused(e) == work[e].pos = PauseAt /\ PauseAt # 0 /\ work[e].from # PauseAt
Ended(e)  == work[e].pos = Steps \/ Paused(e)

\* A node runs, its state is handed to the saver and yielded to execute().
Superstep(e) ==
    /\ At(e, "stream")
    /\ ~Ended(e)
    /\ Len(background[token[e]].queue) < MaxPuts
    /\ LET w == work[e]
           trail == IF w.pos + 1 = PauseAt THEN w.trail
                    ELSE Append(w.trail, Event(w.pos + 1, e))
       IN /\ work' = [work EXCEPT ![e] =
                [w EXCEPT !.pos = w.pos + 1, !.trail = trail,
                          !.ph = PhaseAfter(trail, w.done)]]
          /\ Put(e, w.offset, w.pos + 1, trail)
    /\ UNCHANGED <<ownVars, cp, rows, moved>>

\* Fault: the insert transaction does not begin with the fence.
AppendUnfenced(e) ==
    /\ At(e, "append")
    /\ LET w == work[e]
           new == {[seq |-> w.base + i - 1, step |-> w.trail[i].step, by |-> w.trail[i].by] :
                      i \in (w.done + 1)..Len(w.trail)}
       IN /\ \A n \in new : ~Recorded(n.seq)
          /\ rows' = rows \cup new
          /\ work' = [work EXCEPT ![e].done = Len(w.trail), ![e].ph = "appended"]
    /\ UNCHANGED <<ownVars, cp, background, moved>>

\* Fault: events are numbered from one.
AppendFromOne(e) ==
    /\ At(e, "append")
    /\ LET w == work[e]
           new == {[seq |-> w.base + i, step |-> w.trail[i].step, by |-> w.trail[i].by] :
                      i \in (w.done + 1)..Len(w.trail)}
       IN /\ \A n \in new : ~Recorded(n.seq)
          /\ Own!Fence(e)
          /\ rows' = rows \cup new
          /\ work' = [work EXCEPT ![e].done = Len(w.trail), ![e].ph = "appended"]
    /\ UNCHANGED <<cp, background, moved>>

\* _append_events: fence and inserts in one transaction.
AppendEvents(e) ==
    /\ At(e, "append")
    /\ LET w == work[e]
           new == {[seq |-> w.base + i - 1, step |-> w.trail[i].step, by |-> w.trail[i].by] :
                      i \in (w.done + 1)..Len(w.trail)}
       IN /\ \A n \in new : ~Recorded(n.seq)
          /\ Own!Fence(e)
          /\ rows' = rows \cup new
          /\ work' = [work EXCEPT ![e].done = Len(w.trail), ![e].ph = "appended"]
    /\ UNCHANGED <<cp, background, moved>>

\* The body goes back to the graph for the next state.
AwaitNext(e) ==
    /\ At(e, "appended")
    /\ work' = [work EXCEPT ![e].ph = "stream"]
    /\ UNCHANGED <<ownVars, cp, rows, background, moved>>

\* The transaction fails, on uq_run_events_query_run_id_seq or on the database, which
\* may have committed it: the generators are abandoned with their writes on the way.
AppendFails(e) ==
    /\ At(e, "append") \/ At(e, "appended")
    /\ Own!GraphFails(e)
    /\ Leave(e)
    /\ UNCHANGED <<cp, rows, background, moved>>

\* A node raises, or a write failed: the error surfaces once the writes are over.
NodeFails(e) ==
    /\ At(e, "stream") /\ Drained(e)
    /\ Own!GraphFails(e)
    /\ Leave(e)
    /\ UNCHANGED <<cp, rows, background, moved>>

\* The injected test failure, or a read that fails before the stream.
FailsEarly(e) ==
    /\ pc[e] = "active"
    /\ work[e].ph \in {"load", "offset", "clear", "cleared", "reconcile", "start"}
    /\ Own!GraphFails(e)
    /\ Leave(e)
    /\ UNCHANGED <<cp, rows, background, moved>>

\* Fault: the status is taken from memory before the last writes are durable.
FinishBeforeDrain(e) ==
    /\ At(e, "stream") /\ Ended(e)
    /\ \/ work[e].pos = Steps /\ \E s \in Own!Terminal : Own!GraphReturns(e, s)
       \/ work[e].pos = PauseAt /\ Own!GraphReturns(e, "awaiting_confirmation")
    /\ Leave(e)
    /\ UNCHANGED <<cp, rows, background, moved>>

\* The stream is over, its writes are drained and none failed; the status is
\* that of the checkpoint aget_state now reads.
Finish(e) ==
    /\ At(e, "stream")
    /\ Ended(e)
    /\ Drained(e) /\ ~work[e].broken
    /\ cp # NoCheckpoint
    /\ \/ cp.pos = Steps /\ \E s \in Own!Terminal : Own!GraphReturns(e, s)
       \/ cp.pos = PauseAt /\ Own!GraphReturns(e, "awaiting_confirmation")
    /\ Leave(e)
    /\ UNCHANGED <<cp, rows, background, moved>>

-----------------------------------------------------------------------------
(* FencedCheckpointSaver.aput in the background, its call still there or not *)

HasFailedHeart(t) == \E e \in Executions : token[e] = t /\ heart[e] \in {"repairing", "failed"}

\* ensure_checkpoint_write_allowed, with the token and heartbeat_failure of the
\* attempt: it holds as long as the row is running under that token.
PutFence(t) ==
    /\ background[t].queue # <<>> /\ ~background[t].armed
    /\ status = "running" /\ rowToken = t /\ ~HasFailedHeart(t)
    /\ Own!Touch
    /\ background' = [background EXCEPT ![t].armed = TRUE]
    /\ UNCHANGED <<status, rowToken, issued, lockHolder, pc, token, heart, outcome, sweep,
                   cp, rows, work, moved>>

\* Fault: the write that comes last is the one that is read.
PutWriteOver(t) ==
    /\ background[t].armed
    /\ cp' = Head(background[t].queue)
    /\ background' = [background EXCEPT ![t].queue = Tail(@), ![t].armed = FALSE]
    /\ UNCHANGED <<ownVars, rows, work, moved>>

\* delegate.aput, whoever owns the run by now.
PutWrite(t) ==
    /\ background[t].armed
    /\ LET d == Head(background[t].queue) IN cp' = IF Newer(d, cp) THEN d ELSE cp
    /\ background' = [background EXCEPT ![t].queue = Tail(@), ![t].armed = FALSE]
    /\ UNCHANGED <<ownVars, rows, work, moved>>

\* The fence or the write raises; the next one starts all the same.
PutFails(t) ==
    /\ background[t].queue # <<>>
    /\ background' = [background EXCEPT ![t].queue = Tail(@), ![t].armed = FALSE]
    /\ work' = [e \in Executions |->
          IF token[e] = t /\ pc[e] = "active" THEN [work[e] EXCEPT !.broken = TRUE]
                                              ELSE work[e]]
    /\ UNCHANGED <<ownVars, cp, rows, moved>>

-----------------------------------------------------------------------------
(* Leaving                                                                 *)

\* A fence raises: in the body, or in the graph, which then drains its writes.
OwnershipLost(e) ==
    /\ work[e].ph \notin {"cleared", "start"}
    /\ work[e].ph = "stream" => Drained(e)
    /\ Own!FenceLost(e)
    /\ Leave(e)
    /\ UNCHANGED <<cp, rows, background, moved>>

\* Before execute() begins, or after it has returned.
Abandon(e) ==
    /\ pc[e] = "active" =>
          \/ work[e].ph = "load" \/ (work[e].ph = "reconcile" /\ Replays(e))
          \/ work[e].ph = "stream" /\ Ended(e) /\ Drained(e)
    /\ Own!Abandon(e)
    /\ Leave(e)
    /\ UNCHANGED <<cp, rows, background, moved>>

\* In the body the cancellation leaves the writes behind; in the graph it drains them.
Cancel(e) ==
    /\ work[e].ph = "stream" => Drained(e)
    /\ Own!Cancel(e)
    /\ Leave(e)
    /\ UNCHANGED <<cp, rows, background, moved>>

\* A write on its way when the process dies may still land.
Crash(e) ==
    /\ Own!Crash(e)
    /\ SentOnly(token[e])
    /\ Leave(e)
    /\ UNCHANGED <<cp, rows, moved>>

\* The lock is released; heartbeat_failure stays and fails what is not sent.
Release(e) ==
    /\ Own!Release(e) \/ Own!Unwind(e)
    /\ IF heart[e] = "failed" THEN SentOnly(token[e]) ELSE UNCHANGED background
    /\ Leave(e)
    /\ UNCHANGED <<cp, rows, moved>>

Return(e) ==
    /\ Own!GiveUp(e) \/ Own!LockQueryFails(e) \/ Own!PersistCancellation(e)
    /\ Leave(e)
    /\ UNCHANGED <<cp, rows, background, moved>>

\* Ownership steps that touch neither store.
OwnershipOnly(e) ==
    /\ \/ Own!ConfirmRun(e) \/ Own!RetryRun(e)
       \/ Own!RetryContextFails(e) \/ Own!TryLock(e) \/ Own!EnterFails(e)
       \/ Own!Commit(e) \/ Own!Repair(e)
       \/ Own!Beat(e) \/ Own!BeatFails(e) \/ Own!HeartbeatRepair(e)
       \/ Own!LockDrops(e) \/ Own!Restart(e)
    /\ UNCHANGED <<cp, rows, work, background, moved>>

Execute(e) ==
    \/ StartRun(e) \/ RetryContextLoaded(e) \/ Enter(e) \/ Load(e)
    \/ FreshOffset(e) \/ ClearFence(e) \/ Clear(e)
    \/ ReconcileAccepts(e) \/ ReconcileRejects(e)
    \/ StartStream(e) \/ Superstep(e)
    \/ AppendEvents(e) \/ AwaitNext(e) \/ AppendFails(e)
    \/ NodeFails(e) \/ FailsEarly(e) \/ Finish(e)

Next ==
    \/ \E e \in Executions :
          \/ Execute(e) \/ OwnershipOnly(e)
          \/ OwnershipLost(e) \/ Abandon(e) \/ Cancel(e) \/ Crash(e)
          \/ Release(e) \/ Return(e)
    \/ \E t \in Tokens : PutFence(t) \/ PutWrite(t) \/ PutFails(t)
    \/ /\ \/ \E s \in Sweepers : Own!SweepStep(s)
          \/ Own!CapacityExhausted \/ Own!TimePasses
       /\ UNCHANGED <<cp, rows, work, background, moved>>

Spec == Init /\ [][Next]_vars

-----------------------------------------------------------------------------
(* Properties                                                              *)

(* The checkpoint, the event rows, the locals of every execute() call and  *)
(* the writes in the background hold what they can hold.                   *)
TypeOK ==
    /\ Own!TypeOK
    /\ cp \in Checkpoints \cup {NoCheckpoint}
    /\ \A r \in rows : r.seq \in Nat /\ [step |-> r.step, by |-> r.by] \in Fingerprints
    /\ work \in [Executions ->
          [ph : {"off", "load", "offset", "clear", "cleared", "reconcile", "start",
                 "append", "appended", "stream"},
           mode : {"resume", "request", "fresh"},
           seen : Checkpoints \cup {NoCheckpoint},
           base : Nat, done : Nat, from : 0..Steps, pos : 0..Steps,
           trail : Seq(Fingerprints), offset : Nat, broken : BOOLEAN]]
    /\ background \in [Tokens -> [queue : Seq(Checkpoints), armed : BOOLEAN]]
    /\ moved \in BOOLEAN

(* While no live session loses its lock, the advisory lock keeps a second  *)
(* execution out of execute() until the first has left it.  It says nothing *)
(* of the writes the first has left in the background.                     *)
OneGraphAtATime == Own!OneGraphAtATime

(* run_events of a run are numbered 0, 1, 2, ... with no hole and no       *)
(* number used twice, whatever attempts, crashes and retries wrote them.   *)
EventsContiguous ==
    \A q \in 0..(NextSeq - 1) : Cardinality({r \in rows : r.seq = q}) = 1

EventSteps == {s \in 1..Steps : s # PauseAt}

(* Read in order, run_events is a series of attempts, each of which reports*)
(* the nodes in graph order: a resumed run never duplicates an upstream    *)
(* event and never skips one.  Writes that outlive their call, a lost lock *)
(* and crashes do not change that, except where one lands between          *)
(* execute()'s read of the checkpoint and the stream's own.                *)
AttemptsInOrder ==
    ~moved => \A r \in rows :
       \/ \A s \in EventSteps : r.step <= s
       \/ \E p \in rows :
             /\ p.seq = r.seq - 1
             /\ p.step < r.step
             /\ \A s \in EventSteps : ~(p.step < s /\ s < r.step)

(* Only the execution that owns the row at that moment appends events.     *)
EventsByOwner ==
    [][rows' # rows =>
          \E e \in Executions : Own!Owns(e) /\ work'[e].done # work[e].done]_vars

Streams(e) == pc[e] = "active" /\ work[e].ph \in {"append", "appended", "stream"}

(* The cursor an owner counts on is exact: its next event gets the next    *)
(* free number, and, as long as no stream began elsewhere than its cursor, *)
(* the rows before that number are the events it has in memory, however    *)
(* many attempts, late checkpoints and lost locks came before.             *)
CursorIsExact ==
    \A e \in Executions : Streams(e) /\ Own!Owns(e) =>
       /\ NextSeq = work[e].base + work[e].done
       /\ ~moved => \A i \in 1..work[e].done :
             RecordedAs(work[e].base + i - 1, work[e].trail[i])

StopOf(s) == IF s = "awaiting_confirmation" THEN PauseAt ELSE Steps

(* Once a run has an outcome, its thread has a checkpoint.  If that is the *)
(* last attempt's, the graph stops there and (unless a stream began        *)
(* elsewhere than its cursor) run_events ends with exactly its events, and *)
(* no write that comes late takes its place.                               *)
OutcomeIsRecorded ==
    ~LockMayDrop /\ status \in Own!Outcomes =>
       /\ cp # NoCheckpoint
       /\ cp.by = issued => /\ cp.pos = StopOf(status)
                            /\ ~moved => Reconciles(cp.base, cp.trail, TRUE)

(* While the lock is kept, a checkpoint of the owner's attempt is only     *)
(* followed by later ones of that attempt: a write that another attempt    *)
(* left behind can come up before the owner's first write, and not after.  *)
OwnersCheckpointStands ==
    [][\A e \in Executions :
          ~LockMayDrop /\ Own!Owns(e) /\ cp # NoCheckpoint /\ cp.by = token[e] =>
             cp' = cp \/ (cp' # NoCheckpoint /\ cp'.by = token[e] /\ cp'.pos > cp.pos)]_vars

(* "Delegate async checkpoint I/O while fencing every mutation by run      *)
(* ownership": while the lock is kept, the thread's checkpoint does not    *)
(* change under an owner inside the lock except by a write of its attempt. *)
CheckpointFenced ==
    [][cp' # cp => \A e \in Executions :
          ~LockMayDrop /\ Own!Inside(e) /\ Own!Owns(e) =>
             cp' = NoCheckpoint \/ cp'.by = token[e]]_vars

(* "a resumed run never duplicates upstream events": no event that a node  *)
(* reported once has two rows.                                             *)
NoEventTwice ==
    \A p, r \in rows : p.step = r.step /\ p.by = r.by => p = r
=============================================================================
