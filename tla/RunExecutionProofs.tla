------------------------- MODULE RunExecutionProofs -------------------------
(***************************************************************************)
(* Theorems about RunExecution, for any number of executions, sweepers,    *)
(* tokens, supersteps and background writes, wherever the graph pauses.    *)
(* The ownership protocol's own invariant comes from RunOwnershipProofs.   *)
(*                                                                         *)
(* The invariant is built in layers, each inductive relative to those      *)
(* before it: the ownership protocol, the calls by themselves, the writes  *)
(* in the background, the numbers of the rows, their content, and what the *)
(* lock adds.                                                              *)
(***************************************************************************)
EXTENDS RunExecution, FiniteSetTheorems, SequenceTheorems, TLAPS

Ownership == INSTANCE RunOwnershipProofs

-----------------------------------------------------------------------------
(* The ownership protocol                                                  *)

\* Only the token that was drawn last is ever on the row.
TokenCurrent == rowToken # Own!NoToken => rowToken = issued

ProtocolInv == Ownership!IInv /\ TokenCurrent

-----------------------------------------------------------------------------
(* The calls by themselves                                                 *)

Starting  == {"load", "offset", "clear", "cleared", "reconcile", "start"}
Streaming == {"append", "appended", "stream"}

Work ==
    [ph : {"off"} \cup Starting \cup Streaming,
     mode : {"resume", "request", "fresh"}, seen : Checkpoints \cup {NoCheckpoint},
     base : Nat, done : Nat, from : 0..Steps, pos : 0..Steps,
     trail : Seq(Fingerprints), offset : Nat, broken : BOOLEAN]

Writes == [queue : Seq(Checkpoints), armed : BOOLEAN]

TypeInv ==
    /\ cp \in Checkpoints \cup {NoCheckpoint}
    /\ work \in [Executions -> Work]
    /\ background \in [Tokens -> Writes]
    /\ moved \in BOOLEAN
    /\ rows \subseteq [seq : Nat, step : 1..Steps, by : Tokens]

\* Locals w of a call in phase p.
Local(p, w) ==
    /\ p = "active" <=> w.ph # "off"
    /\ w.seen # NoCheckpoint => w.ph \in {"reconcile", "start"} /\ w.base = w.seen.base
    /\ w.ph = "append" => Len(w.trail) > w.done
    /\ w.ph \in {"appended", "stream"} => Len(w.trail) <= w.done

CallsInv == TypeInv /\ \A e \in Executions : Local(pc[e], work[e])

-----------------------------------------------------------------------------
(* The writes in the background                                            *)

\* Attempt t's writes rise, above whatever of t is the checkpoint already.
Rising(t) ==
    LET q == background[t].queue
    IN /\ background[t].armed => q # <<>>
       /\ \A i \in 1..Len(q) : q[i].by = t
       /\ \A i, j \in 1..Len(q) : i < j => q[i].pos < q[j].pos
       /\ cp # NoCheckpoint /\ cp.by = t => \A i \in 1..Len(q) : cp.pos < q[i].pos
       /\ t > issued => q = <<>>

\* A call that has not begun to stream has nothing in either place.
Early(e) ==
    \/ pc[e] \in {"context", "claimed", "giveup", "entering"}
    \/ pc[e] = "active" /\ work[e].ph \in Starting

Unwritten(t) ==
    /\ background[t].queue = <<>>
    /\ cp # NoCheckpoint => cp.by # t

\* A stream is never behind its own writes.
Ahead(e) ==
    LET q == background[token[e]].queue
    IN /\ \A i \in 1..Len(q) : q[i].pos <= work[e].pos
       /\ cp # NoCheckpoint /\ cp.by = token[e] => cp.pos <= work[e].pos

WritesInv ==
    /\ \A t \in Tokens : Rising(t)
    /\ cp # NoCheckpoint => cp.by <= issued
    /\ \A e \in Executions : Early(e) => Unwritten(token[e])
    /\ \A e \in Executions : Streams(e) => Ahead(e)

\* The last write of a stream, none having failed, is the state it has in memory.
StateOf(c, w) == c.base = w.offset /\ c.pos = w.pos /\ c.trail = w.trail

Latest(e) ==
    LET q == background[token[e]].queue
    IN /\ q # <<>> => StateOf(q[Len(q)], work[e])
       /\ q = <<>> /\ cp # NoCheckpoint /\ cp.by = token[e] => StateOf(cp, work[e])

LatestInv == \A e \in Executions : Streams(e) /\ ~work[e].broken => Latest(e)

-----------------------------------------------------------------------------
(* The numbers of the rows                                                 *)

RowsInv ==
    /\ NextSeq \in Nat
    /\ \A r \in rows : r.seq < NextSeq
    /\ \A q \in 0..(NextSeq - 1) : Recorded(q)
    /\ \A r, s \in rows : r.seq = s.seq => r = s

\* Every attempt starts at a number that was free.
Based ==
    /\ cp # NoCheckpoint => cp.base <= NextSeq
    /\ \A t \in Tokens : \A i \in 1..Len(background[t].queue) :
          background[t].queue[i].base <= NextSeq
    /\ \A e \in Executions : work[e].base <= NextSeq /\ work[e].offset <= NextSeq

\* The cursor has been reconciled.
HasCursor(e) == pc[e] = "active" /\ work[e].ph \in {"start"} \cup Streaming

CursorInv ==
    \A e \in Executions :
       HasCursor(e) /\ Own!Owns(e) => work[e].base + work[e].done = NextSeq

NumbersInv == RowsInv /\ Based /\ CursorInv

-----------------------------------------------------------------------------
(* Their content, as long as every stream begins where its cursor does     *)

\* What a trail of events looks like after pos supersteps: one event for each
\* but the pause, in the order of the graph.
Nth(i)     == IF PauseAt = 0 \/ i < PauseAt THEN i ELSE i + 1
Events(pos) == IF PauseAt # 0 /\ pos >= PauseAt THEN pos - 1 ELSE pos
Ordered(c) ==
    Len(c.trail) = Events(c.pos) /\ \A i \in 1..Len(c.trail) : c.trail[i].step = Nth(i)

\* The trail the cursor was reconciled with.
CursorTrail(e) == IF work[e].ph = "start" THEN TrailOf(work[e].seen) ELSE work[e].trail

Traced(e) ==
    /\ Streams(e) => Ordered(work[e]) /\ work[e].offset = work[e].base
    /\ HasCursor(e) => work[e].done <= Len(CursorTrail(e))
    /\ HasCursor(e) /\ Own!Owns(e) => \A i \in 1..work[e].done :
          RecordedAs(work[e].base + i - 1, CursorTrail(e)[i])

ContentInv ==
    /\ AttemptsInOrder
    /\ ~moved =>
          /\ cp # NoCheckpoint => Ordered(cp)
          /\ \A t \in Tokens : \A i \in 1..Len(background[t].queue) :
                Ordered(background[t].queue[i])
          /\ \A e \in Executions :
                /\ work[e].seen # NoCheckpoint => Ordered(work[e].seen)
                /\ Traced(e)

-----------------------------------------------------------------------------
(* What the lock adds while no live session loses it                       *)

\* The checkpoint is one the graph stops at, and all its events are rows.
Good(c, s) ==
    /\ c.pos = StopOf(s)
    /\ ~moved => c.base + Len(c.trail) = NextSeq /\ ~Conflicts(c.base, c.trail)

\* Nothing of attempt t is on its way, and what is there of it is good.
Settled(t, s) ==
    /\ background[t].queue = <<>>
    /\ cp # NoCheckpoint
    /\ cp.by = t => Good(cp, s)

\* Nobody has written anything under a later token than t.
NoneAfter(t) ==
    /\ \A u \in Tokens : u > t => background[u].queue = <<>>
    /\ cp # NoCheckpoint => cp.by <= t

LockInv ==
    ~LockMayDrop =>
       /\ \A e \in Executions : pc[e] \in {"active", "committing"} => NoneAfter(token[e])
       /\ \A e \in Executions : work[e].seen # NoCheckpoint => cp # NoCheckpoint
       /\ \A e \in Executions : pc[e] = "committing" => Settled(token[e], outcome[e])
       /\ status \in Own!Outcomes =>
             /\ Settled(issued, status)
             /\ \A e \in Executions : pc[e] \notin {"active", "committing"}

IInv == ProtocolInv /\ CallsInv /\ WritesInv /\ LatestInv /\ NumbersInv /\ ContentInv /\ LockInv
-----------------------------------------------------------------------------
(* Every step is one of the ownership protocol, leaves it alone, or is the *)
(* fence of a write in the background                                      *)

LateFence ==
    /\ status = "running" /\ Own!Touch
    /\ UNCHANGED <<status, rowToken, issued, lockHolder, pc, token, heart, outcome, sweep>>

LEMMA StepOwns ==
  ASSUME [Next]_vars PROVE Own!Next \/ LateFence \/ UNCHANGED ownVars
<1> USE DEF Own!Next, Own!ExecutionStep, Own!Progress
<1>1. ASSUME NEW e \in Executions, Execute(e)
      PROVE  Own!Next \/ UNCHANGED ownVars
  <2>1. CASE StartRun(e) \/ RetryContextLoaded(e) \/ Enter(e)
    BY <2>1 DEF StartRun, RetryContextLoaded, Enter
  <2>2. CASE Load(e) \/ Clear(e) \/ StartStream(e) \/ Superstep(e) \/ AwaitNext(e)
    BY <2>2 DEF Load, Clear, StartStream, Superstep, AwaitNext
  <2>3. CASE FreshOffset(e) \/ ClearFence(e) \/ AppendEvents(e)
    BY <2>3 DEF FreshOffset, ClearFence, AppendEvents
  <2>4. CASE ReconcileAccepts(e)
    BY <2>4 DEF ReconcileAccepts, Own!Terminal, Own!Outcomes
  <2>5. CASE ReconcileRejects(e) \/ AppendFails(e) \/ NodeFails(e) \/ FailsEarly(e)
    BY <2>5 DEF ReconcileRejects, AppendFails, NodeFails, FailsEarly
  <2>6. CASE Finish(e)
    BY <2>6 DEF Finish, Own!Terminal, Own!Outcomes
  <2>7. QED
    BY <1>1, <2>1, <2>2, <2>3, <2>4, <2>5, <2>6 DEF Execute
<1>2. ASSUME NEW e \in Executions, OwnershipOnly(e)
      PROVE  Own!Next
  BY <1>2 DEF OwnershipOnly
<1>3. ASSUME NEW e \in Executions,
             \/ OwnershipLost(e) \/ Abandon(e) \/ Cancel(e) \/ Crash(e)
             \/ Release(e) \/ Return(e)
      PROVE  Own!Next
  BY <1>3 DEF OwnershipLost, Abandon, Cancel, Crash, Release, Return
<1>4. ASSUME NEW t \in Tokens, PutFence(t) \/ PutWrite(t) \/ PutFails(t)
      PROVE  LateFence \/ UNCHANGED ownVars
  BY <1>4 DEF PutFence, PutWrite, PutFails, LateFence
<1>5. CASE (\E s \in Sweepers : Own!SweepStep(s)) \/ Own!CapacityExhausted \/ Own!TimePasses
  BY <1>5
<1>6. CASE UNCHANGED vars
  BY <1>6 DEF vars
<1>7. QED
  BY <1>1, <1>2, <1>3, <1>4, <1>5, <1>6 DEF Next

(* The same protocol under the name its theorems are known by.             *)
LEMMA SameInit == Own!Init => Ownership!Init
  BY DEF Own!Init, Ownership!Init, Own!NoToken, Ownership!NoToken, Own!None, Ownership!None

LEMMA SameStutter == UNCHANGED Own!vars => UNCHANGED Ownership!vars
  BY DEF Own!vars, Ownership!vars, Own!rowVars, Ownership!rowVars, Own!execVars,
         Ownership!execVars

LEMMA SameFence ==
  ASSUME NEW e
  PROVE  (Own!Owns(e) <=> Ownership!Owns(e)) /\ (Own!Owns(e)' <=> Ownership!Owns(e)')
  BY DEF Own!Owns, Ownership!Owns, Own!NoToken, Ownership!NoToken

LEMMA SameNext == Own!Next => Ownership!Next
<1> USE DEF Own!NoToken, Ownership!NoToken, Own!Owns, Ownership!Owns, Own!Inside,
            Ownership!Inside, Own!Goto, Ownership!Goto, Own!Return, Ownership!Return,
            Own!Touch, Ownership!Touch, Own!FencedUpdate, Ownership!FencedUpdate,
            Own!FencedRepair, Ownership!FencedRepair, Own!ReleaseLock, Ownership!ReleaseLock,
            Own!rowVars, Ownership!rowVars, Own!execVars, Ownership!execVars,
            Own!None, Ownership!None, Own!Outcomes, Ownership!Outcomes
<1>1. ASSUME NEW e \in Executions, Own!ExecutionStep(e)
      PROVE  Ownership!ExecutionStep(e)
  BY <1>1, Zenon
     DEF Own!ExecutionStep, Ownership!ExecutionStep, Own!Progress, Ownership!Progress,
         Own!StartRun, Ownership!StartRun, Own!ConfirmRun, Ownership!ConfirmRun,
         Own!RetryRun, Ownership!RetryRun, Own!Claim, Ownership!Claim,
         Own!RetryContextLoaded, Ownership!RetryContextLoaded,
         Own!RetryContextFails, Ownership!RetryContextFails, Own!GiveUp, Ownership!GiveUp,
         Own!TryLock, Ownership!TryLock, Own!LockQueryFails, Ownership!LockQueryFails,
         Own!Enter, Ownership!Enter, Own!EnterFails, Ownership!EnterFails,
         Own!Fence, Ownership!Fence, Own!FenceLost, Ownership!FenceLost,
         Own!GraphFails, Ownership!GraphFails, Own!GraphReturns, Ownership!GraphReturns,
         Own!Commit, Ownership!Commit, Own!Repair, Ownership!Repair,
         Own!Abandon, Ownership!Abandon, Own!Release, Ownership!Release,
         Own!Unwind, Ownership!Unwind, Own!Cancel, Ownership!Cancel,
         Own!PersistCancellation, Ownership!PersistCancellation,
         Own!Beat, Ownership!Beat, Own!BeatFails, Ownership!BeatFails,
         Own!HeartbeatRepair, Ownership!HeartbeatRepair, Own!Crash, Ownership!Crash,
         Own!LockDrops, Ownership!LockDrops, Own!Restart, Ownership!Restart
<1>2. ASSUME NEW s \in Sweepers, Own!SweepStep(s)
      PROVE  Ownership!SweepStep(s)
  BY <1>2
     DEF Own!SweepStep, Ownership!SweepStep, Own!SweepScan, Ownership!SweepScan,
         Own!SweepLock, Ownership!SweepLock, Own!SweepFlip, Ownership!SweepFlip,
         Own!SweepUnlock, Ownership!SweepUnlock
<1>3. Own!CapacityExhausted => Ownership!CapacityExhausted
  BY DEF Own!CapacityExhausted, Ownership!CapacityExhausted
<1>4. Own!TimePasses => Ownership!TimePasses
  BY DEF Own!TimePasses, Ownership!TimePasses
<1>5. QED
  BY <1>1, <1>2, <1>3, <1>4 DEF Own!Next, Ownership!Next


LEMMA OwnershipSteps == [Next]_vars => [Ownership!Next]_Ownership!vars \/ LateFence
<1>1. UNCHANGED ownVars => UNCHANGED Ownership!vars
  BY DEF ownVars, Ownership!vars, Ownership!rowVars, Ownership!execVars
<1>2. QED
  BY <1>1, StepOwns, SameNext

\* A token comes to the row when it is drawn, and in no other way.
LEMMA TokenSteps ==
  ASSUME [Next]_vars
  PROVE  \/ UNCHANGED <<rowToken, issued>>
         \/ rowToken' = Own!NoToken /\ issued' = issued
         \/ rowToken' = issued' /\ issued' = issued + 1
<1> USE DEF Own!Claim, Own!FencedUpdate, Own!FencedRepair, Own!rowVars
<1>1. ASSUME NEW e \in Executions, Own!ExecutionStep(e)
      PROVE  \/ UNCHANGED <<rowToken, issued>>
             \/ rowToken' = Own!NoToken /\ issued' = issued
             \/ rowToken' = issued' /\ issued' = issued + 1
  BY <1>1
     DEF Own!ExecutionStep, Own!Progress, Own!StartRun, Own!ConfirmRun, Own!RetryRun,
         Own!RetryContextLoaded, Own!RetryContextFails, Own!GiveUp, Own!TryLock,
         Own!LockQueryFails, Own!Enter, Own!EnterFails, Own!Fence, Own!FenceLost,
         Own!GraphFails, Own!GraphReturns, Own!Commit, Own!Repair, Own!Abandon, Own!Release,
         Own!Unwind, Own!Cancel, Own!PersistCancellation, Own!Beat, Own!BeatFails,
         Own!HeartbeatRepair, Own!Crash, Own!LockDrops, Own!Restart
<1>2. ASSUME NEW s \in Sweepers, Own!SweepStep(s)
      PROVE  UNCHANGED <<rowToken, issued>> \/ (rowToken' = Own!NoToken /\ issued' = issued)
  BY <1>2
     DEF Own!SweepStep, Own!SweepScan, Own!SweepLock, Own!SweepFlip, Own!SweepUnlock
<1>3. QED
  BY <1>1, <1>2, StepOwns
     DEF Own!Next, Own!CapacityExhausted, Own!TimePasses, LateFence, ownVars

LEMMA ProtocolKept == ProtocolInv /\ [Next]_vars => ProtocolInv'
<1> SUFFICES ASSUME ProtocolInv, [Next]_vars PROVE ProtocolInv'
  OBVIOUS
<1>1. CASE [Ownership!Next]_Ownership!vars
  BY <1>1, Ownership!NextKeepsInv, ExecutionAssumption, TokenSteps
     DEF ProtocolInv, TokenCurrent
<1>2. CASE LateFence
  <2>1. Ownership!RowInv'
    BY <1>2, Ownership!AgeStepKeepsRow, ExecutionAssumption
       DEF ProtocolInv, LateFence, Own!Touch, Ownership!Ages
  <2>2. Ownership!ExecInv'
    BY <1>2, Ownership!InvariantSplits, ExecutionAssumption
       DEF ProtocolInv, LateFence, Ownership!ExecInv, Ownership!LockHeld,
           Ownership!OutcomeKnown, Ownership!Inside
  <2>3. Ownership!IInv'
    BY <2>1, <2>2, Ownership!InvariantSplitsPrimed, ExecutionAssumption
  <2>4. QED
    BY <1>2, <2>3 DEF ProtocolInv, TokenCurrent, LateFence
<1>3. QED
  BY <1>1, <1>2, OwnershipSteps

LEMMA OwnsBefore ==
  ASSUME ProtocolInv, [Next]_vars, NEW e \in Executions, pc[e] # "idle", Own!Owns(e)'
  PROVE  Own!Owns(e)
<1>1. CASE [Ownership!Next]_Ownership!vars
  BY <1>1, SameFence, Ownership!OwnershipNotRegained, ExecutionAssumption DEF ProtocolInv
<1>2. CASE LateFence
  BY <1>2 DEF LateFence, Own!Owns
<1>3. QED
  BY <1>1, <1>2, OwnershipSteps

\* Between acquiring the lock and releasing it.
Guarded == {"entering", "active", "committing", "repair", "releasing", "unwinding"}

(* What the ownership protocol promises each call.                         *)
LEMMA ProtocolFacts ==
  ASSUME ProtocolInv
  PROVE  /\ status \in Own!Statuses /\ rowToken \in 0..MaxClaims /\ issued \in 0..MaxClaims
         /\ pc \in [Executions -> Own!Phases] /\ token \in [Executions -> 0..MaxClaims]
         /\ heart \in [Executions -> Own!Hearts]
         /\ outcome \in [Executions -> Own!Outcomes \cup {Own!None}]
         /\ sweep \in [Sweepers -> Own!Sweeping]
         /\ \A e \in Executions : pc[e] # "idle" => token[e] \in Tokens
         /\ \A e \in Executions : token[e] <= issued
         /\ \A e, f \in Executions : token[e] = token[f] /\ pc[e] # "idle" => e = f
         /\ \A e \in Executions : Own!Owns(e) => token[e] = issued /\ issued \in Tokens
         /\ \A e \in Executions : pc[e] = "committing" => outcome[e] \in Own!Outcomes
         /\ ~LockMayDrop => \A e, f \in Executions :
               pc[e] \in Guarded /\ pc[f] \in Guarded => e = f
<1> USE DEF ProtocolInv, Ownership!IInv
<1>1. /\ status \in Own!Statuses /\ rowToken \in 0..MaxClaims /\ issued \in 0..MaxClaims
      /\ pc \in [Executions -> Own!Phases] /\ token \in [Executions -> 0..MaxClaims]
      /\ heart \in [Executions -> Own!Hearts]
      /\ outcome \in [Executions -> Own!Outcomes \cup {Own!None}]
      /\ sweep \in [Sweepers -> Own!Sweeping]
  BY DEF Ownership!TypeOK, Own!Phases, Ownership!Phases, Own!Outcomes, Ownership!Outcomes,
         Own!None, Ownership!None, Own!Hearts, Ownership!Hearts, Own!Sweeping,
         Ownership!Sweeping, Own!Statuses, Ownership!Statuses
<1>2. /\ \A e \in Executions : pc[e] # "idle" => token[e] \in Tokens
      /\ \A e \in Executions : token[e] <= issued
      /\ \A e, f \in Executions : token[e] = token[f] /\ pc[e] # "idle" => e = f
  BY <1>1, ExecutionAssumption DEF Ownership!TokensDistinct, Ownership!NoToken, Tokens
<1>3. ASSUME NEW e \in Executions, Own!Owns(e) PROVE token[e] = issued /\ issued \in Tokens
  BY <1>1, <1>3, ExecutionAssumption DEF TokenCurrent, Own!Owns, Own!NoToken, Tokens
<1>4. \A e \in Executions : pc[e] = "committing" => outcome[e] \in Own!Outcomes
  BY DEF Ownership!OutcomeKnown, Own!Outcomes, Ownership!Outcomes
<1>5. ~LockMayDrop => \A e, f \in Executions :
         pc[e] \in Guarded /\ pc[f] \in Guarded => e = f
  BY DEF Ownership!LockHeld, Ownership!Inside, Guarded
<1>6. QED
  BY <1>1, <1>2, <1>3, <1>4, <1>5

-----------------------------------------------------------------------------
(* What a step does to a call                                              *)

\* e's call is as before, but that a write of its attempt may have failed.
Kept(e) ==
    /\ pc'[e] = pc[e] /\ token'[e] = token[e] /\ outcome'[e] = outcome[e]
    /\ \/ work'[e] = work[e]
       \/ pc[e] = "active" /\ work'[e] = [work[e] EXCEPT !.broken = TRUE]

\* Outside execute() it only picks its input.
Outside(e) ==
    /\ pc[e] # "active" /\ pc'[e] # "active"
    /\ work'[e] = work[e] \/ \E m \in {"resume", "request", "fresh"} :
                                work'[e] = [work[e] EXCEPT !.mode = m]
    /\ \/ token'[e] = token[e]
       \/ pc'[e] = "idle"
       \/ pc[e] = "idle" /\ issued' = issued + 1 /\ token'[e] = issued'
    /\ pc'[e] = "committing" => pc[e] = "committing" /\ outcome'[e] = outcome[e]
    /\ pc'[e] \in {"context", "claimed", "giveup", "entering"} =>
          IF pc[e] = "idle" THEN issued' = issued + 1 /\ token'[e] = issued'
          ELSE pc[e] \in {"context", "claimed", "giveup", "entering"} /\ token'[e] = token[e]

\* It leaves execute(), or what comes after it.
Ends(e) ==
    /\ work'[e] = Blank
    /\ pc'[e] \in {"idle", "repair", "releasing", "unwinding", "cancelled", "crashed"}

\* execute() is over with a status.
Concludes(e) ==
    /\ (ReconcileAccepts(e) /\ Replays(e)) \/ Finish(e)
    /\ work'[e] = Blank /\ pc'[e] = "committing" /\ token' = token
    /\ outcome'[e] \in Own!Outcomes

\* It gets on inside execute().
Proceeds(e) ==
    \/ Load(e) \/ FreshOffset(e) \/ ClearFence(e) \/ Clear(e)
    \/ (ReconcileAccepts(e) /\ ~Replays(e))
    \/ StartStream(e) \/ Superstep(e) \/ AppendEvents(e) \/ AwaitNext(e)

LEMMA ProceedsFrom ==
  ASSUME NEW e \in Executions, Proceeds(e), CallsInv, ProtocolInv
  PROVE  UNCHANGED <<status, rowToken, issued, lockHolder, pc, token, outcome>>
         /\ pc[e] = "active"
  BY DEF Proceeds, Load, FreshOffset, ClearFence, Clear, ReconcileAccepts, StartStream,
         Superstep, AppendEvents, AwaitNext, ownVars, At, Own!Fence, Own!execVars

\* Only one call moves in a step.
LEMMA OneCallMoves ==
  ASSUME ProtocolInv, CallsInv, [Next]_vars
  PROVE  \/ \A f \in Executions : Kept(f)
         \/ \E e \in Executions :
               /\ Enter(e) \/ Proceeds(e) \/ Concludes(e) \/ Outside(e) \/ Ends(e)
               /\ \A f \in Executions \ {e} : Kept(f)
<1> DEFINE Moves(e) == /\ Enter(e) \/ Proceeds(e) \/ Concludes(e) \/ Outside(e) \/ Ends(e)
                       /\ \A f \in Executions \ {e} : Kept(f)
<1>0. /\ pc \in [Executions -> Own!Phases] /\ token \in [Executions -> 0..MaxClaims]
      /\ outcome \in [Executions -> Own!Outcomes \cup {Own!None}]
      /\ work \in [Executions -> Work] /\ issued \in 0..MaxClaims
  BY ProtocolFacts DEF CallsInv, TypeInv
<1> USE <1>0
<1>1. ASSUME NEW e \in Executions, Execute(e) PROVE Moves(e)
  <2>1. CASE StartRun(e)
    BY <2>1 DEF StartRun, Own!StartRun, Own!Claim, Own!Goto, Kept, Outside
  <2>2. CASE RetryContextLoaded(e)
    BY <2>2 DEF RetryContextLoaded, Own!RetryContextLoaded, Own!Goto, Kept, Outside
  <2>3. CASE Enter(e)
    BY <2>3 DEF Enter, Own!Enter, Own!Goto, Kept
  <2>4. CASE Proceeds(e)
    <3>1. \E w : work' = [work EXCEPT ![e] = w]
      BY <2>4 DEF Proceeds, Load, FreshOffset, ClearFence, Clear, ReconcileAccepts, StartStream,
                  Superstep, AppendEvents, AwaitNext
    <3>2. QED
      BY <2>4, <3>1, ProceedsFrom DEF Kept
  <2>5. CASE (ReconcileAccepts(e) /\ Replays(e)) \/ Finish(e)
    BY <2>5 DEF ReconcileAccepts, Finish, Leave, Own!GraphReturns, Own!Goto, Own!Terminal,
                Own!Outcomes, Kept, Concludes
  <2>6. CASE ReconcileRejects(e) \/ AppendFails(e) \/ NodeFails(e) \/ FailsEarly(e)
    BY <2>6 DEF ReconcileRejects, AppendFails, NodeFails, FailsEarly, Leave, Own!GraphFails,
                Own!Goto, Kept, Ends
  <2>7. QED
    BY <1>1, <2>1, <2>2, <2>3, <2>4, <2>5, <2>6 DEF Execute, Proceeds
<1>2. ASSUME NEW e \in Executions, OwnershipOnly(e)
      PROVE  Moves(e) \/ \A f \in Executions : Kept(f)
  <2>1. CASE Own!ConfirmRun(e) \/ Own!RetryRun(e)
    BY <1>2, <2>1 DEF OwnershipOnly, Own!ConfirmRun, Own!RetryRun, Own!Claim, Own!Goto, Kept, Outside
  <2>2. CASE Own!RetryContextFails(e) \/ Own!TryLock(e) \/ Own!EnterFails(e)
    BY <1>2, <2>2
       DEF OwnershipOnly, Own!RetryContextFails, Own!TryLock, Own!EnterFails, Own!Goto, Kept, Outside
  <2>3. CASE Own!Commit(e) \/ Own!Repair(e) \/ Own!Restart(e)
    BY <1>2, <2>3
       DEF OwnershipOnly, Own!Commit, Own!Repair, Own!Restart, Own!Return, Own!Goto, Kept, Outside
  <2>4. CASE Own!Beat(e) \/ Own!BeatFails(e) \/ Own!HeartbeatRepair(e) \/ Own!LockDrops(e)
    BY <1>2, <2>4
       DEF OwnershipOnly, Own!Beat, Own!BeatFails, Own!HeartbeatRepair, Own!LockDrops,
           Own!execVars, Kept
  <2>5. QED
    BY <1>2, <2>1, <2>2, <2>3, <2>4 DEF OwnershipOnly
<1>3. ASSUME NEW e \in Executions,
             \/ OwnershipLost(e) \/ Abandon(e) \/ Cancel(e) \/ Crash(e)
             \/ Release(e) \/ Return(e)
      PROVE  Moves(e)
  BY <1>3
     DEF OwnershipLost, Abandon, Cancel, Crash, Release, Return, Leave, Own!FenceLost,
         Own!Abandon, Own!Cancel, Own!Crash, Own!Release, Own!Unwind, Own!GiveUp,
         Own!LockQueryFails, Own!PersistCancellation, Own!Return, Own!Goto, Kept, Ends
<1>4. ASSUME NEW t \in Tokens, PutFence(t) \/ PutWrite(t) \/ PutFails(t)
      PROVE  \A f \in Executions : Kept(f)
  BY <1>4 DEF PutFence, PutWrite, PutFails, Kept, ownVars
<1>5. ASSUME /\ \/ \E s \in Sweepers : Own!SweepStep(s)
                \/ Own!CapacityExhausted \/ Own!TimePasses
             /\ UNCHANGED <<cp, rows, work, background, moved>>
      PROVE  \A f \in Executions : Kept(f)
  BY <1>5
     DEF Own!SweepStep, Own!SweepScan, Own!SweepLock, Own!SweepFlip, Own!SweepUnlock,
         Own!CapacityExhausted, Own!TimePasses, Own!execVars, Kept
<1>6. ASSUME UNCHANGED vars PROVE \A f \in Executions : Kept(f)
  BY <1>6 DEF vars, ownVars, Kept
<1>7. QED
  <2> HIDE DEF Moves
  <2>1. (\E e \in Executions : Moves(e)) \/ \A f \in Executions : Kept(f)
    <3>1. ASSUME NEW e \in Executions,
                 \/ Execute(e) \/ OwnershipOnly(e)
                 \/ OwnershipLost(e) \/ Abandon(e) \/ Cancel(e) \/ Crash(e)
                 \/ Release(e) \/ Return(e)
          PROVE  Moves(e) \/ \A f \in Executions : Kept(f)
      BY <1>1, <1>2, <1>3, <3>1
    <3>2. QED
      BY <1>4, <1>5, <1>6, <3>1 DEF Next
  <2>2. QED
    BY <2>1 DEF Moves

-----------------------------------------------------------------------------
(* What a step does to the stores                                          *)

LEMMA CheckpointSteps ==
  ASSUME [Next]_vars
  PROVE  \/ cp' = cp
         \/ \E e \in Executions : Clear(e)
         \/ \E t \in Tokens : PutWrite(t)
  BY ZenonT(30) DEF Next, vars, Execute, OwnershipOnly, StartRun, RetryContextLoaded, Enter, Load,
         FreshOffset, ClearFence, ReconcileAccepts, ReconcileRejects, StartStream, Superstep,
         AppendEvents, AwaitNext, AppendFails, NodeFails, FailsEarly, Finish, PutFence, PutFails,
         OwnershipLost, Abandon, Cancel, Crash, Release, Return

LEMMA RowSteps ==
  ASSUME [Next]_vars
  PROVE  rows' = rows \/ \E e \in Executions : AppendEvents(e)
  BY ZenonT(30) DEF Next, vars, Execute, OwnershipOnly, StartRun, RetryContextLoaded, Enter, Load,
         FreshOffset, ClearFence, Clear, ReconcileAccepts, ReconcileRejects, StartStream,
         Superstep, AwaitNext, AppendFails, NodeFails, FailsEarly, Finish, PutFence, PutWrite,
         PutFails, OwnershipLost, Abandon, Cancel, Crash, Release, Return

LEMMA MovedSteps ==
  ASSUME [Next]_vars, CallsInv
  PROVE  moved' = moved \/ \E e \in Executions : StartStream(e)
  BY ZenonT(30) DEF Next, vars, Execute, OwnershipOnly, StartRun, RetryContextLoaded, Enter, Load,
         FreshOffset, ClearFence, Clear, ReconcileAccepts, ReconcileRejects, Superstep,
         AppendEvents, AwaitNext, AppendFails, NodeFails, FailsEarly, Finish, PutFence, PutWrite,
         PutFails, OwnershipLost, Abandon, Cancel, Crash, Release, Return

\* r is what is left of q once a write is over, failed, or will never be sent.
Shrinks(q, r) == r = q \/ r = <<>> \/ (q # <<>> /\ r \in {Tail(q), <<Head(q)>>})

\* Attempt t's writes are not added to.
Dwindles(t) ==
    /\ Shrinks(background[t].queue, background'[t].queue)
    /\ \/ background'[t].queue = background[t].queue
       \/ PutWrite(t) \/ PutFails(t)
       \/ \E e \in Executions : token[e] = t /\ ~Streams(e)' /\ cp' = cp
    /\ background'[t].armed => background'[t].queue # <<>>

LEMMA WriteSteps ==
  ASSUME ProtocolInv, CallsInv, WritesInv, [Next]_vars, NEW t \in Tokens
  PROVE  Dwindles(t) \/ \E e \in Executions : token[e] = t /\ (StartStream(e) \/ Superstep(e))
<1>0. /\ background \in [Tokens -> Writes]
      /\ \A u \in Tokens : background[u].armed => background[u].queue # <<>>
      /\ \A e \in Executions : pc[e] # "idle" => token[e] \in Tokens
      /\ pc \in [Executions -> Own!Phases]
  BY ProtocolFacts DEF CallsInv, TypeInv, WritesInv, Rising
<1> USE <1>0
<1>1. ASSUME background' = background PROVE Dwindles(t)
  BY <1>1 DEF Dwindles, Shrinks
<1>2. ASSUME NEW u \in Tokens, PutFence(u) PROVE Dwindles(t)
  BY <1>2 DEF PutFence, Dwindles, Shrinks, Writes
<1>3. ASSUME NEW u \in Tokens, PutWrite(u) \/ PutFails(u) PROVE Dwindles(t)
  <2>1. /\ background[u].queue # <<>>
        /\ background' = [background EXCEPT ![u].queue = Tail(@), ![u].armed = FALSE]
    BY <1>3 DEF PutWrite, PutFails
  <2>2. CASE u = t
    <3>1. background'[t].queue = Tail(background[t].queue) /\ ~background'[t].armed
      BY <2>1, <2>2 DEF Writes
    <3>2. QED
      BY <1>3, <2>1, <2>2, <3>1 DEF Dwindles, Shrinks
  <2>3. CASE u # t
    <3>1. background'[t] = background[t]
      BY <2>1, <2>3
    <3>2. QED
      BY <3>1 DEF Dwindles, Shrinks
  <2>4. QED
    BY <2>2, <2>3
<1>4. ASSUME NEW e \in Executions, SentOnly(token[e]), Crash(e) \/ Release(e) PROVE Dwindles(t)
  <2>1. ~Streams(e)' /\ cp' = cp /\ token[e] \in Tokens
    BY <1>4 DEF Crash, Release, Own!Crash, Own!Release, Own!Unwind, Own!Return, Own!Goto, Streams
  <2>2. QED
    BY <1>4, <2>1 DEF SentOnly, Dwindles, Shrinks, Writes
<1>5. ASSUME NEW e \in Executions, Superstep(e) \/ StartStream(e) PROVE
        Dwindles(t) \/ token[e] = t
  <2>1. token[e] \in Tokens
    BY <1>5 DEF Superstep, StartStream, At
  <2>2. QED
    BY <1>5, <2>1, <1>1 DEF Superstep, StartStream, Put, Dwindles, Shrinks, Writes
<1>6. QED
  BY <1>1, <1>2, <1>3, <1>4, <1>5
     DEF Next, vars, Execute, OwnershipOnly, StartRun, RetryContextLoaded, Enter, Load,
         FreshOffset, ClearFence, Clear, ReconcileAccepts, ReconcileRejects,
         AppendEvents, AwaitNext, AppendFails, NodeFails, FailsEarly, Finish,
         OwnershipLost, Abandon, Cancel, Crash, Release, Return

-----------------------------------------------------------------------------
(* What the locals, a checkpoint and a trail are made of                   *)

LEMMA CheckpointTypes ==
  ASSUME NEW c \in Checkpoints
  PROVE  /\ c.base \in Nat /\ c.pos \in 0..Steps /\ c.by \in Tokens
         /\ c.trail \in Seq(Fingerprints) /\ Len(c.trail) \in Nat
         /\ \A i \in 1..Len(c.trail) : c.trail[i] \in Fingerprints
<1>1. /\ c.base \in Nat /\ c.pos \in 0..Steps /\ c.by \in Tokens
      /\ c.trail \in Seq(Fingerprints)
  BY DEF Checkpoints
<1>2. QED
  BY <1>1, ElementOfSeq

LEMMA WorkTypes ==
  ASSUME NEW w \in Work
  PROVE  /\ w.ph \in {"off"} \cup Starting \cup Streaming
         /\ w.base \in Nat /\ w.pos \in 0..Steps /\ w.from \in 0..Steps /\ w.done \in Nat
         /\ w.offset \in Nat /\ w.broken \in BOOLEAN /\ w.seen \in Checkpoints \cup {NoCheckpoint}
         /\ w.trail \in Seq(Fingerprints) /\ Len(w.trail) \in Nat
         /\ \A i \in 1..Len(w.trail) : w.trail[i] \in Fingerprints
<1>1. /\ w.ph \in {"off"} \cup Starting \cup Streaming
      /\ w.base \in Nat /\ w.pos \in 0..Steps /\ w.from \in 0..Steps /\ w.done \in Nat
      /\ w.offset \in Nat /\ w.broken \in BOOLEAN /\ w.seen \in Checkpoints \cup {NoCheckpoint}
      /\ w.trail \in Seq(Fingerprints)
  BY DEF Work
<1>2. QED
  BY <1>1, ElementOfSeq

\* What the steps of a call make of its locals.
WorkPhases == {"off"} \cup Starting \cup Streaming

LEMMA WorkPhase ==
  ASSUME NEW w \in Work, NEW ph \in WorkPhases
  PROVE  [w EXCEPT !.ph = ph] \in Work
  BY DEF Work, WorkPhases

LEMMA WorkMode ==
  ASSUME NEW w \in Work, NEW mode \in {"resume", "request", "fresh"}
  PROVE  [w EXCEPT !.mode = mode] \in Work
  BY DEF Work

LEMMA WorkBroken ==
  ASSUME NEW w \in Work PROVE [w EXCEPT !.broken = TRUE] \in Work
  BY DEF Work

LEMMA WorkSeen ==
  ASSUME NEW w \in Work, NEW ph \in WorkPhases, NEW seen \in Checkpoints \cup {NoCheckpoint},
         NEW base \in Nat
  PROVE  [w EXCEPT !.ph = ph, !.seen = seen, !.base = base] \in Work
  BY DEF Work, WorkPhases

LEMMA WorkBase ==
  ASSUME NEW w \in Work, NEW ph \in WorkPhases, NEW base \in Nat
  PROVE  [w EXCEPT !.base = base, !.ph = ph] \in Work
  BY DEF Work, WorkPhases

LEMMA WorkDone ==
  ASSUME NEW w \in Work, NEW ph \in WorkPhases, NEW done \in Nat
  PROVE  [w EXCEPT !.ph = ph, !.done = done] \in Work /\ [w EXCEPT !.done = done, !.ph = ph] \in Work
  BY DEF Work, WorkPhases

LEMMA WorkStep ==
  ASSUME NEW w \in Work, NEW ph \in WorkPhases, NEW pos \in 0..Steps,
         NEW trail \in Seq(Fingerprints)
  PROVE  [w EXCEPT !.pos = pos, !.trail = trail, !.ph = ph] \in Work
  BY DEF Work, WorkPhases

LEMMA WorkStream ==
  ASSUME NEW w \in Work, NEW ph \in WorkPhases, NEW seen \in Checkpoints \cup {NoCheckpoint},
         NEW from \in 0..Steps, NEW pos \in 0..Steps, NEW trail \in Seq(Fingerprints),
         NEW offset \in Nat
  PROVE  [w EXCEPT !.seen = seen, !.from = from, !.pos = pos, !.trail = trail,
                   !.offset = offset, !.ph = ph] \in Work
  BY DEF Work, WorkPhases

LEMMA BlankWork == Blank \in Work
  BY ExecutionAssumption DEF Blank, Work

\* What a call writes.
LEMMA WrittenTypes ==
  ASSUME NEW base \in Nat, NEW pos \in 0..Steps, NEW trail \in Seq(Fingerprints),
         NEW by \in Tokens
  PROVE  [base |-> base, pos |-> pos, trail |-> trail, by |-> by] \in Checkpoints
  BY DEF Checkpoints

LEMMA TrailTypes ==
  ASSUME TypeInv, NEW c \in Checkpoints \cup {NoCheckpoint}
  PROVE  TrailOf(c) \in Seq(Fingerprints) /\ BaseOf(c) \in Nat /\ Len(TrailOf(c)) \in Nat
<1>1. TrailOf(c) \in Seq(Fingerprints) /\ BaseOf(c) \in Nat
  BY CheckpointTypes DEF TrailOf, BaseOf
<1>2. QED
  BY <1>1

-----------------------------------------------------------------------------
(* Types                                                                   *)

LEMMA ProceedingTypes ==
  ASSUME IInv, NEW e \in Executions, Proceeds(e)
  PROVE  work'[e] \in Work /\ work' = [work EXCEPT ![e] = work'[e]]
<1>0. /\ work \in [Executions -> Work] /\ work[e] \in Work /\ pc[e] = "active"
      /\ token[e] \in Tokens /\ NextSeq \in Nat /\ TypeInv
  BY ProtocolFacts, ProceedsFrom DEF IInv, CallsInv, TypeInv, NumbersInv, RowsInv
<1> DEFINE w == work[e]
<1>1. /\ w.base \in Nat /\ w.pos \in 0..Steps /\ w.done \in Nat /\ Len(w.trail) \in Nat
      /\ w.trail \in Seq(Fingerprints) /\ w.seen \in Checkpoints \cup {NoCheckpoint}
  BY <1>0, WorkTypes
<1>2. {"offset", "clear", "cleared", "reconcile", "start", "append", "appended", "stream"}
         \subseteq WorkPhases
  BY DEF WorkPhases, Starting, Streaming
<1>3. NoCheckpoint \in Checkpoints \cup {NoCheckpoint} /\ 0 \in 0..Steps
  BY ExecutionAssumption
<1>4. CASE Load(e)
  <2>1. cp \in Checkpoints \cup {NoCheckpoint} /\ BaseOf(cp) \in Nat
    BY <1>0, TrailTypes DEF TypeInv
  <2> DEFINE a == [w EXCEPT !.ph = "offset"]
             b == [w EXCEPT !.ph = "reconcile", !.seen = cp, !.base = BaseOf(cp)]
  <2>2. a \in Work /\ b \in Work
    BY <1>0, <1>2, <2>1, WorkSeen, WorkPhase
  <2>3. work'[e] \in {a, b} /\ work' = [work EXCEPT ![e] = work'[e]]
    BY <1>0, <1>4 DEF Load
  <2>4. QED
    BY <2>2, <2>3
<1>5. CASE FreshOffset(e)
  <2> DEFINE a == [w EXCEPT !.base = NextSeq, !.ph = "clear"]
  <2>1. a \in Work
    BY <1>0, <1>2, WorkBase
  <2>2. work'[e] = a /\ work' = [work EXCEPT ![e] = work'[e]]
    BY <1>0, <1>5 DEF FreshOffset
  <2>3. QED
    BY <2>1, <2>2
<1>6. CASE ClearFence(e) \/ Clear(e) \/ AwaitNext(e)
  <2>1. \A ph \in {"cleared", "reconcile", "stream"} : [w EXCEPT !.ph = ph] \in Work
    BY <1>0, <1>2, WorkPhase
  <2>2. \E ph \in {"cleared", "reconcile", "stream"} : work'[e] = [w EXCEPT !.ph = ph]
    BY <1>0, <1>6 DEF ClearFence, Clear, AwaitNext
  <2>3. work' = [work EXCEPT ![e] = work'[e]]
    BY <1>0, <1>6 DEF ClearFence, Clear, AwaitNext
  <2>4. QED
    BY <2>1, <2>2, <2>3
<1>7. CASE ReconcileAccepts(e) /\ ~Replays(e)
  <2> DEFINE m == Matched(w.base, TrailOf(w.seen))
  <2>1. m \in Nat
    <3>1. Len(TrailOf(w.seen)) \in Nat
      BY <1>0, <1>1, TrailTypes
    <3>2. IsFiniteSet(1..Len(TrailOf(w.seen)))
      BY <3>1, FS_Interval
    <3>3. IsFiniteSet({i \in 1..Len(TrailOf(w.seen)) : Recorded(w.base + i - 1)})
      BY <3>2, FS_Subset
    <3>4. QED
      BY <3>3, FS_CardinalityType DEF Matched
  <2> DEFINE a == [w EXCEPT !.ph = "start", !.done = m]
  <2>2. a \in Work
    BY <1>0, <1>2, <2>1, WorkDone
  <2>3. work'[e] = a /\ work' = [work EXCEPT ![e] = work'[e]]
    BY <1>0, <1>7 DEF ReconcileAccepts
  <2>4. QED
    BY <2>2, <2>3
<1>8. CASE StartStream(e)
  <2> DEFINE resumes == w.mode = "resume"
             pos == IF resumes THEN cp.pos ELSE 0
             offset == IF resumes THEN cp.base ELSE w.base
             ph == PhaseAfter(TrailOf(cp), w.done)
             a == [w EXCEPT !.seen = NoCheckpoint, !.from = pos, !.pos = pos,
                            !.trail = TrailOf(cp), !.offset = offset, !.ph = ph]
  <2>1. TrailOf(cp) \in Seq(Fingerprints)
    BY <1>0, TrailTypes DEF TypeInv
  <2>2. pos \in 0..Steps /\ offset \in Nat
    <3>1. resumes => cp \in Checkpoints
      BY <1>0, <1>8 DEF StartStream, TypeInv
    <3>2. QED
      BY <1>1, <1>3, <3>1, CheckpointTypes
  <2>3. ph \in WorkPhases
    BY <1>2 DEF PhaseAfter
  <2>4. a \in Work
    <3> HIDE DEF pos, offset, ph
    <3>1. QED
      BY <1>0, <1>3, <2>1, <2>2, <2>3, WorkStream
  <2>5. work'[e] = a /\ work' = [work EXCEPT ![e] = work'[e]]
    BY <1>0, <1>8 DEF StartStream
  <2>6. QED
    BY <2>4, <2>5
<1>9. CASE Superstep(e)
  <2> DEFINE trail == IF w.pos + 1 = PauseAt THEN w.trail
                      ELSE Append(w.trail, Event(w.pos + 1, e))
             ph == PhaseAfter(trail, w.done)
             a == [w EXCEPT !.pos = w.pos + 1, !.trail = trail, !.ph = ph]
  <2>1. w.pos + 1 \in 1..Steps
    BY <1>1, <1>9, ExecutionAssumption DEF Superstep, Ended
  <2>2. Event(w.pos + 1, e) \in Fingerprints
    BY <1>0, <2>1 DEF Event, Fingerprints
  <2>3. trail \in Seq(Fingerprints)
    BY <1>1, <2>2, AppendProperties
  <2>4. ph \in WorkPhases
    BY <1>2 DEF PhaseAfter
  <2>5. a \in Work
    <3>1. w.pos + 1 \in 0..Steps
      BY <2>1
    <3> HIDE DEF trail, ph
    <3>2. QED
      BY <1>0, <2>3, <2>4, <3>1, WorkStep
  <2>6. work'[e] = a /\ work' = [work EXCEPT ![e] = work'[e]]
    BY <1>0, <1>9 DEF Superstep
  <2>7. QED
    BY <2>5, <2>6
<1>10. CASE AppendEvents(e)
  <2> DEFINE a == [w EXCEPT !.done = Len(w.trail), !.ph = "appended"]
  <2>1. a \in Work
    BY <1>0, <1>1, <1>2, WorkDone
  <2>2. work'[e] = a /\ work' = [work EXCEPT ![e] = work'[e]]
    BY <1>0, <1>10 DEF AppendEvents
  <2>3. QED
    BY <2>1, <2>2
<1>11. QED
  BY <1>4, <1>5, <1>6, <1>7, <1>8, <1>9, <1>10 DEF Proceeds

LEMMA WorkTyped == IInv /\ [Next]_vars => work' \in [Executions -> Work]
<1> SUFFICES ASSUME IInv, [Next]_vars PROVE work' \in [Executions -> Work]
  OBVIOUS
<1>0. work \in [Executions -> Work] /\ CallsInv /\ ProtocolInv
  BY DEF IInv, CallsInv, TypeInv
<1>1. work' = [x \in Executions |-> work'[x]]
  <2>1. ASSUME NEW e \in Executions, Execute(e) PROVE work' = [x \in Executions |-> work'[x]]
    <3>1. CASE Proceeds(e)
      <4>1. work' = [work EXCEPT ![e] = work'[e]]
        BY <3>1, ProceedingTypes
      <4>2. QED
        BY <1>0, <4>1
    <3>2. CASE StartRun(e) \/ RetryContextLoaded(e) \/ Enter(e)
      BY <1>0, <3>2 DEF StartRun, RetryContextLoaded, Enter
    <3>3. CASE Leave(e)
      BY <1>0, <3>3 DEF Leave
    <3>4. QED
      BY <2>1, <3>1, <3>2, <3>3
         DEF Execute, Proceeds, ReconcileAccepts, ReconcileRejects, AppendFails, NodeFails,
             FailsEarly, Finish
  <2>2. ASSUME NEW e \in Executions, Leave(e) PROVE work' = [x \in Executions |-> work'[x]]
    BY <1>0, <2>2 DEF Leave
  <2>3. ASSUME NEW t \in Tokens, PutFails(t) PROVE work' = [x \in Executions |-> work'[x]]
    BY <2>3 DEF PutFails
  <2>4. CASE UNCHANGED work
    BY <1>0, <2>4
  <2>5. QED
    BY <2>1, <2>2, <2>3, <2>4
       DEF Next, vars, OwnershipOnly, PutFence, PutWrite, OwnershipLost, Abandon, Cancel, Crash,
           Release, Return
<1>2. ASSUME NEW f \in Executions PROVE work'[f] \in Work
  <2>1. work[f] \in Work /\ Blank \in Work /\ [work[f] EXCEPT !.broken = TRUE] \in Work
    BY <1>0, BlankWork, WorkBroken
  <2>2. CASE Kept(f)
    BY <2>1, <2>2 DEF Kept
  <2>3. CASE Outside(f)
    <3>1. \A m \in {"resume", "request", "fresh"} : [work[f] EXCEPT !.mode = m] \in Work
      BY <2>1, WorkMode
    <3>2. QED
      BY <2>1, <2>3, <3>1 DEF Outside
  <2>4. CASE Ends(f) \/ Concludes(f)
    BY <2>1, <2>4 DEF Ends, Concludes
  <2>5. CASE Enter(f)
    <3>1. work'[f] = [work[f] EXCEPT !.ph = "load"] /\ "load" \in WorkPhases
      BY <1>0, <2>5 DEF Enter, WorkPhases, Starting
    <3>2. QED
      BY <2>1, <3>1, WorkPhase
  <2>6. CASE Proceeds(f)
    BY <2>6, ProceedingTypes, SMTT(30)
  <2>7. QED
    BY <1>0, <2>2, <2>3, <2>4, <2>5, <2>6, OneCallMoves
<1>3. QED
  BY <1>1, <1>2

LEMMA BackgroundTyped == IInv /\ [Next]_vars => background' \in [Tokens -> Writes]
<1> SUFFICES ASSUME IInv, [Next]_vars PROVE background' \in [Tokens -> Writes]
  OBVIOUS
<1>0. /\ background \in [Tokens -> Writes]
      /\ \A t \in Tokens : background[t].queue \in Seq(Checkpoints)
      /\ \A t \in Tokens : background[t].armed => background[t].queue # <<>>
      /\ work \in [Executions -> Work] /\ cp \in Checkpoints \cup {NoCheckpoint} /\ TypeInv
      /\ \A e \in Executions : pc[e] # "idle" => token[e] \in Tokens
  BY ProtocolFacts DEF IInv, CallsInv, TypeInv, WritesInv, Rising, Writes
<1>1. ASSUME NEW w \in Writes, NEW q \in Seq(Checkpoints)
      PROVE  [w EXCEPT !.queue = q] \in Writes /\ [w EXCEPT !.queue = q, !.armed = FALSE] \in Writes
             /\ [w EXCEPT !.armed = TRUE] \in Writes
  BY DEF Writes
<1>2. ASSUME NEW t \in Tokens, PutFence(t) PROVE background' \in [Tokens -> Writes]
  <2>1. background' = [background EXCEPT ![t] = [background[t] EXCEPT !.armed = TRUE]]
    BY <1>2 DEF PutFence
  <2>2. [background[t] EXCEPT !.armed = TRUE] \in Writes
    BY <1>0, <1>1
  <2>3. QED
    BY <1>0, <2>1, <2>2
<1>3. ASSUME NEW t \in Tokens, PutWrite(t) \/ PutFails(t) PROVE background' \in [Tokens -> Writes]
  <2> DEFINE q == Tail(background[t].queue)
             b == [background[t] EXCEPT !.queue = q, !.armed = FALSE]
  <2>1. background[t].queue # <<>> /\ background' = [background EXCEPT ![t] = b]
    BY <1>0, <1>3 DEF PutWrite, PutFails
  <2>2. q \in Seq(Checkpoints)
    BY <1>0, <2>1, HeadTailProperties
  <2>3. b \in Writes
    <3> HIDE DEF q
    <3>1. QED
      BY <1>0, <1>1, <2>2
  <2>4. QED
    BY <1>0, <2>1, <2>3
<1>4. ASSUME NEW t \in Tokens, SentOnly(t) PROVE background' \in [Tokens -> Writes]
  <2> DEFINE q == IF background[t].armed THEN <<Head(background[t].queue)>> ELSE <<>>
             b == [background[t] EXCEPT !.queue = q]
  <2>1. background' = [background EXCEPT ![t] = b]
    BY <1>4 DEF SentOnly
  <2>2. q \in Seq(Checkpoints)
    BY <1>0, HeadTailProperties
  <2>3. b \in Writes
    <3> HIDE DEF q
    <3>1. QED
      BY <1>0, <1>1, <2>2
  <2>4. QED
    BY <1>0, <2>1, <2>3
<1>5. ASSUME NEW t \in Tokens, NEW d \in Checkpoints,
             background' = [background EXCEPT ![t].queue = Append(@, d)]
      PROVE  background' \in [Tokens -> Writes]
  <2> DEFINE q == Append(background[t].queue, d)
             b == [background[t] EXCEPT !.queue = q]
  <2>1. background' = [background EXCEPT ![t] = b]
    BY <1>5
  <2>2. q \in Seq(Checkpoints)
    BY <1>0, AppendProperties
  <2>3. b \in Writes
    <3> HIDE DEF q
    <3>1. QED
      BY <1>0, <1>1, <2>2
  <2>4. QED
    BY <1>0, <2>1, <2>3
<1>6. ASSUME NEW e \in Executions, StartStream(e) PROVE background' \in [Tokens -> Writes]
  <2>1. token[e] \in Tokens /\ TrailOf(cp) \in Seq(Fingerprints) /\ 0 \in 0..Steps
    BY <1>0, <1>6, TrailTypes, ExecutionAssumption DEF StartStream, At
  <2>2. work[e].base \in Nat
    BY <1>0, WorkTypes
  <2>3. [base |-> work[e].base, pos |-> 0, trail |-> TrailOf(cp), by |-> token[e]] \in Checkpoints
    BY <2>1, <2>2, WrittenTypes
  <2>4. \/ UNCHANGED background
        \/ background' = [background EXCEPT ![token[e]].queue = Append(@,
             [base |-> work[e].base, pos |-> 0, trail |-> TrailOf(cp), by |-> token[e]])]
    BY <1>6 DEF StartStream, Put
  <2>5. QED
    BY <1>0, <1>5, <2>1, <2>3, <2>4
<1>7. ASSUME NEW e \in Executions, Superstep(e) PROVE background' \in [Tokens -> Writes]
  <2> DEFINE w == work[e]
             trail == IF w.pos + 1 = PauseAt THEN w.trail
                      ELSE Append(w.trail, Event(w.pos + 1, e))
             d == [base |-> w.offset, pos |-> w.pos + 1, trail |-> trail, by |-> token[e]]
  <2>1. /\ token[e] \in Tokens /\ w.offset \in Nat /\ w.pos \in 0..Steps
        /\ w.trail \in Seq(Fingerprints)
    BY <1>0, <1>7, WorkTypes DEF Superstep, At
  <2>2. w.pos + 1 \in 1..Steps
    BY <1>7, <2>1, ExecutionAssumption DEF Superstep, Ended
  <2>3. Event(w.pos + 1, e) \in Fingerprints
    BY <2>1, <2>2 DEF Event, Fingerprints
  <2>4. trail \in Seq(Fingerprints)
    BY <2>1, <2>3, AppendProperties
  <2>5. d \in Checkpoints
    <3>1. w.pos + 1 \in 0..Steps
      BY <2>2
    <3> HIDE DEF trail
    <3>2. QED
      BY <2>1, <2>4, <3>1, WrittenTypes
  <2>6. background' = [background EXCEPT ![token[e]].queue = Append(@, d)]
    BY <1>7 DEF Superstep, Put
  <2>7. QED
    <3> HIDE DEF d
    <3>1. QED
      BY <1>5, <2>1, <2>5, <2>6
<1>8. ASSUME NEW e \in Executions, Crash(e) \/ Release(e) PROVE background' \in [Tokens -> Writes]
  <2>1. token[e] \in Tokens
    BY <1>0, <1>8 DEF Crash, Release, Own!Crash, Own!Release, Own!Unwind
  <2>2. QED
    BY <1>0, <1>4, <1>8, <2>1 DEF Crash, Release
<1>9. CASE background' = background
  BY <1>0, <1>9
<1>10. QED
  BY <1>2, <1>3, <1>6, <1>7, <1>8, <1>9
     DEF Next, vars, Execute, OwnershipOnly, StartRun, RetryContextLoaded, Enter, Load,
         FreshOffset, ClearFence, Clear, ReconcileAccepts, ReconcileRejects,
         AppendEvents, AwaitNext, AppendFails, NodeFails, FailsEarly, Finish,
         OwnershipLost, Abandon, Cancel, Return

LEMMA TypesKept == IInv /\ [Next]_vars => TypeInv'
<1> SUFFICES ASSUME IInv, [Next]_vars PROVE TypeInv'
  OBVIOUS
<1>0. TypeInv /\ CallsInv /\ ProtocolInv
  BY DEF IInv, CallsInv
<1>1. cp' \in Checkpoints \cup {NoCheckpoint}
  <2>1. ASSUME NEW t \in Tokens, PutWrite(t) PROVE cp' \in Checkpoints \cup {NoCheckpoint}
    <3>1. background[t].queue \in Seq(Checkpoints) /\ background[t].queue # <<>>
      BY <1>0, <2>1 DEF IInv, TypeInv, Writes, WritesInv, Rising, PutWrite
    <3>2. Head(background[t].queue) \in Checkpoints
      BY <3>1, HeadTailProperties
    <3>3. QED
      BY <1>0, <2>1, <3>2 DEF PutWrite, TypeInv
  <2>2. QED
    BY <1>0, <2>1, CheckpointSteps DEF TypeInv, Clear
<1>2. moved' \in BOOLEAN
  BY <1>0, MovedSteps DEF TypeInv, StartStream
<1>3. rows' \subseteq [seq : Nat, step : 1..Steps, by : Tokens]
  <2>1. ASSUME NEW e \in Executions, AppendEvents(e)
        PROVE  rows' \subseteq [seq : Nat, step : 1..Steps, by : Tokens]
    <3> DEFINE w == work[e]
    <3>1. /\ w.base \in Nat /\ w.done \in Nat /\ Len(w.trail) \in Nat
          /\ \A i \in 1..Len(w.trail) : w.trail[i] \in Fingerprints
      BY <1>0, WorkTypes DEF TypeInv
    <3>2. ASSUME NEW i \in (w.done + 1)..Len(w.trail)
          PROVE  [seq |-> w.base + i - 1, step |-> w.trail[i].step, by |-> w.trail[i].by]
                   \in [seq : Nat, step : 1..Steps, by : Tokens]
      BY <3>1 DEF Fingerprints
    <3>3. QED
      BY <1>0, <2>1, <3>2 DEF AppendEvents, TypeInv
  <2>2. QED
    BY <1>0, <2>1, RowSteps DEF TypeInv
<1>4. QED
  BY <1>1, <1>2, <1>3, WorkTyped, BackgroundTyped DEF TypeInv

LEMMA CallsKept == IInv /\ [Next]_vars => CallsInv'
<1> SUFFICES ASSUME IInv, [Next]_vars, NEW f \in Executions PROVE Local(pc[f], work[f])'
  BY TypesKept DEF CallsInv
<1>0. /\ work \in [Executions -> Work] /\ pc \in [Executions -> Own!Phases]
      /\ Local(pc[f], work[f]) /\ CallsInv /\ ProtocolInv /\ TypeInv
      /\ work[f] \in Work /\ cp \in Checkpoints \cup {NoCheckpoint}
  BY ProtocolFacts DEF IInv, CallsInv, TypeInv
<1> USE <1>0
<1>1. CASE Kept(f)
  BY <1>1 DEF Kept, Local, Work
<1>2. CASE Outside(f)
  BY <1>2 DEF Outside, Local, Work
<1>3. CASE Ends(f) \/ Concludes(f)
  BY <1>3 DEF Ends, Concludes, Local, Blank
<1>4. CASE Enter(f)
  BY <1>4 DEF Enter, Own!Enter, Own!Goto, Local, Work
<1>5. CASE Proceeds(f)
  <2>0. pc'[f] = "active" /\ pc[f] = "active"
    BY <1>5, ProceedsFrom
  <2>1. CASE Load(f)
    BY <2>0, <2>1 DEF Load, At, Local, Work, BaseOf
  <2>2. CASE FreshOffset(f) \/ ClearFence(f) \/ Clear(f)
    BY <2>0, <2>2 DEF FreshOffset, ClearFence, Clear, At, Local, Work
  <2>3. CASE ReconcileAccepts(f) /\ ~Replays(f)
    BY <2>0, <2>3 DEF ReconcileAccepts, At, Local, Work
  <2>4. CASE StartStream(f)
    <3>1. Len(TrailOf(cp)) \in Nat /\ work[f].done \in Nat
      BY TrailTypes, WorkTypes
    <3>2. /\ work'[f].ph = PhaseAfter(TrailOf(cp), work[f].done)
          /\ work'[f].seen = NoCheckpoint /\ work'[f].trail = TrailOf(cp)
          /\ work'[f].done = work[f].done
      BY <2>4 DEF StartStream, Work
    <3>3. QED
      BY <2>0, <3>1, <3>2 DEF Local, PhaseAfter
  <2>5. CASE Superstep(f)
    <3> DEFINE trail == IF work[f].pos + 1 = PauseAt THEN work[f].trail
                        ELSE Append(work[f].trail, Event(work[f].pos + 1, f))
    <3>1. work'[f] \in Work /\ work[f].done \in Nat
      BY <2>5, ProceedingTypes, WorkTypes DEF Proceeds
    <3>2. /\ work'[f].ph = PhaseAfter(trail, work[f].done)
          /\ work'[f].seen = work[f].seen /\ work'[f].trail = trail
          /\ work'[f].done = work[f].done
      BY <2>5 DEF Superstep, Work
    <3>3. Len(trail) \in Nat /\ work[f].seen = NoCheckpoint
      BY <2>5, <3>1, <3>2, WorkTypes DEF Superstep, At, Local
    <3>4. QED
      <4> HIDE DEF trail
      <4>1. QED
        BY <2>0, <3>1, <3>2, <3>3 DEF Local, PhaseAfter
  <2>6. CASE AppendEvents(f) \/ AwaitNext(f)
    <3>1. /\ work'[f].ph \in {"appended", "stream"}
          /\ work'[f].seen = work[f].seen /\ work'[f].trail = work[f].trail
      BY <2>6 DEF AppendEvents, AwaitNext, Work
    <3>2. work'[f].done = Len(work[f].trail) \/ (work'[f].done = work[f].done /\ AwaitNext(f))
      BY <2>6 DEF AppendEvents, AwaitNext, Work
    <3>3. work[f].seen = NoCheckpoint /\ Len(work[f].trail) \in Nat
      BY <2>6, WorkTypes DEF AppendEvents, AwaitNext, At, Local
    <3>4. QED
      BY <2>0, <3>1, <3>2, <3>3 DEF AwaitNext, At, Local
  <2>7. QED
    BY <1>5, <2>1, <2>2, <2>3, <2>4, <2>5, <2>6 DEF Proceeds
<1>6. QED
  BY <1>1, <1>2, <1>3, <1>4, <1>5, OneCallMoves

-----------------------------------------------------------------------------
(* Where a call can have come from                                         *)

LEMMA TypedState ==
  ASSUME IInv
  PROVE  /\ ProtocolInv /\ CallsInv /\ TypeInv /\ WritesInv
         /\ work \in [Executions -> Work] /\ \A e \in Executions : work[e] \in Work
         /\ background \in [Tokens -> Writes]
         /\ \A t \in Tokens : background[t].queue \in Seq(Checkpoints)
                              /\ background[t].armed \in BOOLEAN
         /\ cp \in Checkpoints \cup {NoCheckpoint} /\ moved \in BOOLEAN
         /\ \A e \in Executions : Local(pc[e], work[e])
         /\ issued \in 0..MaxClaims /\ Tokens \subseteq Nat
         /\ \A e \in Executions : pc[e] # "idle" => token[e] \in Tokens
         /\ \A e, f \in Executions : token[e] = token[f] /\ pc[e] # "idle" => e = f
         /\ \A e \in Executions : token[e] \in Nat /\ token[e] <= issued
  BY ProtocolFacts, ExecutionAssumption DEF IInv, CallsInv, TypeInv, Writes, Tokens

LEMMA IssuedGrows ==
  ASSUME IInv, [Next]_vars PROVE issued' \in Nat /\ (issued' = issued \/ issued' = issued + 1)
  BY TypedState, TokenSteps

LEMMA StreamsBefore ==
  ASSUME IInv, [Next]_vars, NEW e \in Executions, Streams(e)'
  PROVE  /\ pc[e] = "active" /\ token'[e] = token[e] /\ token[e] \in Tokens
         /\ \/ StartStream(e)
            \/ Streams(e) /\ Superstep(e)
            \/ /\ Streams(e)
               /\ work'[e].pos = work[e].pos /\ work'[e].trail = work[e].trail
               /\ work'[e].offset = work[e].offset /\ work'[e].base = work[e].base
               /\ work'[e].from = work[e].from
               /\ \/ work'[e].done = work[e].done /\ Kept(e)
                  \/ AppendEvents(e)
                  \/ work'[e].done = work[e].done /\ AwaitNext(e)
               /\ work'[e].broken = work[e].broken \/ work'[e].broken
<1> USE TypedState DEF Streams
<1>1. CASE Kept(e)
  BY <1>1 DEF Kept, Work
<1>2. CASE Outside(e) \/ Ends(e) \/ Concludes(e)
  BY <1>2 DEF Outside, Ends, Concludes
<1>3. CASE Enter(e)
  BY <1>3 DEF Enter, Work
<1>4. CASE Proceeds(e)
  <2>1. UNCHANGED <<pc, token>> /\ pc[e] = "active"
    BY <1>4, ProceedsFrom
  <2>2. CASE Load(e) \/ FreshOffset(e) \/ ClearFence(e) \/ Clear(e)
             \/ (ReconcileAccepts(e) /\ ~Replays(e))
    <3>1. work'[e].ph \in {"offset", "clear", "cleared", "reconcile", "start"}
      <4>1. CASE Load(e)
        BY <4>1 DEF Load, Work
      <4>2. CASE FreshOffset(e) \/ ClearFence(e) \/ Clear(e)
        BY <4>2 DEF FreshOffset, ClearFence, Clear, Work
      <4>3. CASE ReconcileAccepts(e) /\ ~Replays(e)
        BY <4>3 DEF ReconcileAccepts, Work
      <4>4. QED
        BY <2>2, <4>1, <4>2, <4>3
    <3>2. QED
      BY <3>1
  <2>3. CASE AppendEvents(e)
    BY <2>1, <2>3 DEF AppendEvents, At, Work
  <2>4. CASE AwaitNext(e)
    BY <2>1, <2>4 DEF AwaitNext, At, Work
  <2>5. CASE Superstep(e)
    BY <2>1, <2>5 DEF Superstep, At
  <2>6. QED
    BY <1>4, <2>1, <2>2, <2>3, <2>4, <2>5 DEF Proceeds
<1>5. QED
  BY <1>1, <1>2, <1>3, <1>4, OneCallMoves

LEMMA EarlyBefore ==
  ASSUME IInv, [Next]_vars, NEW e \in Executions, Early(e)'
  PROVE  /\ \/ Early(e) /\ token'[e] = token[e]
            \/ issued' = issued + 1 /\ token'[e] = issued'
         /\ ~StartStream(e) /\ ~Superstep(e)
<1> USE TypedState DEF Early
<1>0. ~StartStream(e) /\ ~Superstep(e)
  <2>1. ASSUME StartStream(e) \/ Superstep(e) PROVE FALSE
    <3>1. \E t, n : work'[e].ph = PhaseAfter(t, n)
      <4>1. CASE StartStream(e)
        <5>1. work'[e].ph = PhaseAfter(TrailOf(cp), work[e].done)
          BY <4>1 DEF StartStream, Work
        <5>2. QED
          BY <5>1
      <4>2. CASE Superstep(e)
        <5>1. work'[e].ph = PhaseAfter(IF work[e].pos + 1 = PauseAt THEN work[e].trail
                 ELSE Append(work[e].trail, Event(work[e].pos + 1, e)), work[e].done)
          BY <4>2 DEF Superstep, Work
        <5>2. QED
          BY <5>1
      <4>3. QED
        BY <2>1, <4>1, <4>2
    <3>2. pc'[e] = "active"
      BY <2>1 DEF StartStream, Superstep, At, ownVars
    <3>3. QED
      BY <3>1, <3>2 DEF Starting, PhaseAfter
  <2>2. QED
    BY <2>1
<1>1. CASE Kept(e)
  BY <1>0, <1>1 DEF Kept, Work
<1>2. CASE Outside(e) \/ Ends(e) \/ Concludes(e)
  BY <1>0, <1>2 DEF Outside, Ends, Concludes
<1>3. CASE Enter(e)
  BY <1>0, <1>3 DEF Enter, Own!Enter
<1>4. CASE Proceeds(e)
  <2>1. UNCHANGED <<pc, token>> /\ pc[e] = "active"
    BY <1>4, ProceedsFrom
  <2>2. CASE Load(e) \/ FreshOffset(e) \/ ClearFence(e) \/ Clear(e)
             \/ (ReconcileAccepts(e) /\ ~Replays(e))
    BY <1>0, <2>1, <2>2 DEF Load, FreshOffset, ClearFence, Clear, ReconcileAccepts, At, Starting
  <2>3. CASE AppendEvents(e) \/ AwaitNext(e)
    <3>1. work'[e].ph \in {"appended", "stream"}
      BY <2>3 DEF AppendEvents, AwaitNext, Work
    <3>2. QED
      BY <2>1, <3>1 DEF Starting
  <2>4. QED
    BY <1>0, <1>4, <2>2, <2>3 DEF Proceeds
<1>5. QED
  BY <1>1, <1>2, <1>3, <1>4, OneCallMoves

-----------------------------------------------------------------------------
(* Where a checkpoint and a write can have come from                       *)

LEMMA CheckpointBecomes ==
  ASSUME IInv, [Next]_vars
  PROVE  \/ cp' = cp
         \/ cp' = NoCheckpoint /\ \E e \in Executions : Clear(e)
         \/ \E t \in Tokens :
               /\ PutWrite(t) /\ background[t].queue # <<>> /\ 1 \in 1..Len(background[t].queue)
               /\ cp' = background[t].queue[1] /\ cp' \in Checkpoints /\ cp'.by = t
               /\ background'[t].queue = Tail(background[t].queue)
               /\ Newer(cp', cp)
<1> USE TypedState
<1>1. ASSUME NEW t \in Tokens, PutWrite(t), cp' # cp
      PROVE  /\ background[t].queue # <<>> /\ 1 \in 1..Len(background[t].queue)
             /\ cp' = background[t].queue[1] /\ cp' \in Checkpoints /\ cp'.by = t
             /\ background'[t].queue = Tail(background[t].queue)
             /\ Newer(cp', cp)
  <2> DEFINE q == background[t].queue
  <2>1. Rising(t) /\ q \in Seq(Checkpoints)
    BY DEF WritesInv
  <2>2. q # <<>> /\ cp' = Head(q) /\ Newer(Head(q), cp)
    BY <1>1, <2>1 DEF PutWrite, Rising
  <2>3. 1 \in 1..Len(q) /\ Head(q) = q[1] /\ Head(q) \in Checkpoints
    BY <2>1, <2>2
  <2>4. q[1].by = t
    BY <2>1, <2>3 DEF Rising
  <2>5. background'[t].queue = Tail(q)
    BY <1>1 DEF PutWrite, Writes
  <2>6. QED
    BY <2>2, <2>3, <2>4, <2>5
<1>2. QED
  BY <1>1, CheckpointSteps DEF Clear

LEMMA Shrunk ==
  ASSUME NEW S, NEW q \in Seq(S), NEW r, Shrinks(q, r)
  PROVE  /\ r \in Seq(S) /\ Len(r) \in Nat /\ Len(r) <= Len(q)
         /\ \/ \A i \in 1..Len(r) : i \in 1..Len(q) /\ r[i] = q[i]
            \/ r = Tail(q) /\ \A i \in 1..Len(r) : i + 1 \in 1..Len(q) /\ r[i] = q[i + 1]
<1>1. CASE r = q
  BY <1>1
<1>2. CASE r = <<>>
  BY <1>2
<1>3. CASE q # <<>> /\ r = Tail(q)
  BY <1>3, HeadTailProperties
<1>4. CASE q # <<>> /\ r = <<Head(q)>>
  BY <1>4
<1>5. QED
  BY <1>1, <1>2, <1>3, <1>4 DEF Shrinks

\* What a call adds to the writes of its attempt.
LEMMA PutAppends ==
  ASSUME IInv, NEW e \in Executions, StartStream(e) \/ Superstep(e)
  PROVE  /\ token[e] \in Tokens /\ UNCHANGED <<cp, rows, issued, pc, token, status>>
         /\ Superstep(e) => /\ Streams(e) /\ work'[e].pos = work[e].pos + 1
                            /\ work'[e].offset = work[e].offset
         /\ \/ UNCHANGED background /\ StartStream(e)
            \/ \E d \in Checkpoints :
                  /\ background'[token[e]].queue = Append(background[token[e]].queue, d)
                  /\ background'[token[e]].armed = background[token[e]].armed
                  /\ d.by = token[e] /\ StateOf(d, work'[e])
<1> USE TypedState
<1>0. /\ pc[e] = "active" /\ token[e] \in Tokens
      /\ UNCHANGED <<cp, rows, issued, pc, token, status>>
  BY DEF StartStream, Superstep, At, ownVars
<1>1. work'[e] \in Work
  BY ProceedingTypes DEF Proceeds
<1>2. CASE StartStream(e)
  <2> DEFINE d == [base |-> work[e].base, pos |-> 0, trail |-> TrailOf(cp), by |-> token[e]]
  <2>1. ~(work[e].mode = "resume") => d \in Checkpoints /\ StateOf(d, work'[e])
    <3>1. TrailOf(cp) \in Seq(Fingerprints) /\ work[e].base \in Nat /\ 0 \in 0..Steps
      BY TrailTypes, WorkTypes, ExecutionAssumption
    <3>2. d \in Checkpoints
      BY <1>0, <3>1, WrittenTypes
    <3>3. ~(work[e].mode = "resume") =>
             /\ work'[e].offset = work[e].base /\ work'[e].pos = 0
             /\ work'[e].trail = TrailOf(cp)
      BY <1>2 DEF StartStream, Work
    <3>4. QED
      BY <3>2, <3>3 DEF StateOf
  <2>2. \/ UNCHANGED background
        \/ /\ ~(work[e].mode = "resume")
           /\ background' = [background EXCEPT ![token[e]].queue = Append(@, d)]
    BY <1>2 DEF StartStream, Put
  <2>3. ~Superstep(e)
    BY <1>2 DEF StartStream, Superstep, At
  <2>4. CASE UNCHANGED background
    BY <1>0, <1>2, <2>3, <2>4
  <2>5. CASE background' = [background EXCEPT ![token[e]].queue = Append(@, d)]
             /\ ~(work[e].mode = "resume")
    <3>1. d \in Checkpoints /\ StateOf(d, work'[e]) /\ d.by = token[e]
      BY <2>1, <2>5
    <3> HIDE DEF d
    <3>2. /\ background'[token[e]].queue = Append(background[token[e]].queue, d)
          /\ background'[token[e]].armed = background[token[e]].armed
      BY <1>0, <2>5 DEF Writes
    <3>3. QED
      BY <1>0, <2>3, <3>1, <3>2
  <2>6. QED
    BY <2>2, <2>4, <2>5
<1>3. CASE Superstep(e)
  <2> DEFINE w == work[e]
             trail == IF w.pos + 1 = PauseAt THEN w.trail
                      ELSE Append(w.trail, Event(w.pos + 1, e))
             d == [base |-> w.offset, pos |-> w.pos + 1, trail |-> trail, by |-> token[e]]
  <2>1. work'[e].pos = w.pos + 1 /\ work'[e].offset = w.offset /\ work'[e].trail = trail
    BY <1>3 DEF Superstep, Work
  <2>2. d \in Checkpoints
    <3>1. w.pos + 1 \in 0..Steps /\ trail \in Seq(Fingerprints) /\ w.offset \in Nat
      BY <1>1, <2>1, WorkTypes
    <3> HIDE DEF trail
    <3>2. QED
      BY <1>0, <3>1, WrittenTypes
  <2>3. StateOf(d, work'[e]) /\ d.by = token[e]
    BY <2>1 DEF StateOf
  <2>4. /\ background' = [background EXCEPT ![token[e]].queue = Append(@, d)]
        /\ Streams(e)
    BY <1>3 DEF Superstep, Put, At, Streams
  <2> HIDE DEF d, trail
  <2>5. /\ background'[token[e]].queue = Append(background[token[e]].queue, d)
        /\ background'[token[e]].armed = background[token[e]].armed
    BY <1>0, <2>4 DEF Writes
  <2>6. QED
    BY <1>0, <2>1, <2>2, <2>3, <2>4, <2>5
<1>4. QED
  BY <1>2, <1>3

-----------------------------------------------------------------------------
(* The writes in the background                                            *)

LEMMA RisingKept ==
  ASSUME IInv, [Next]_vars, NEW t \in Tokens PROVE Rising(t)'
<1> DEFINE q == background[t].queue
           r == background'[t].queue
<1>0. /\ Rising(t) /\ q \in Seq(Checkpoints) /\ Len(q) \in Nat /\ t \in Nat
      /\ \A i \in 1..Len(q) : q[i].pos \in Nat
      /\ cp # NoCheckpoint => cp.pos \in Nat
      /\ issued \in Nat /\ issued' \in Nat /\ issued <= issued'
  <2>1. \A i \in 1..Len(q) : q[i] \in Checkpoints
    BY TypedState, ElementOfSeq
  <2>2. Rising(t) /\ q \in Seq(Checkpoints) /\ t \in Nat /\ issued \in Nat
    BY TypedState DEF WritesInv
  <2>3. /\ \A i \in 1..Len(q) : q[i].pos \in Nat
        /\ cp # NoCheckpoint => cp.pos \in Nat
    BY <2>1, TypedState, CheckpointTypes, ExecutionAssumption
  <2>4. QED
    BY <2>2, <2>3, IssuedGrows
<1>1. CASE Dwindles(t)
  <2>1. Shrinks(q, r) /\ (background'[t].armed => r # <<>>)
    BY <1>1 DEF Dwindles
  <2>2. /\ r \in Seq(Checkpoints) /\ Len(r) \in Nat /\ Len(r) <= Len(q)
        /\ \/ \A i \in 1..Len(r) : i \in 1..Len(q) /\ r[i] = q[i]
           \/ r = Tail(q) /\ \A i \in 1..Len(r) : i + 1 \in 1..Len(q) /\ r[i] = q[i + 1]
    <3> HIDE DEF q, r
    <3>1. q \in Seq(Checkpoints) /\ Shrinks(q, r)
      BY <1>0, <2>1
    <3>2. QED
      BY <3>1, Shrunk, ZenonT(30)
  <2> HIDE DEF q, r
  <2>3. /\ \A i \in 1..Len(r) : r[i].by = t
        /\ \A i, j \in 1..Len(r) : i < j => r[i].pos < r[j].pos
    <3>1. /\ \A i \in 1..Len(q) : q[i].by = t
          /\ \A i, j \in 1..Len(q) : i < j => q[i].pos < q[j].pos
      BY <1>0 DEF Rising, q
    <3>2. CASE \A i \in 1..Len(r) : i \in 1..Len(q) /\ r[i] = q[i]
      BY <3>1, <3>2
    <3>3. CASE \A i \in 1..Len(r) : i + 1 \in 1..Len(q) /\ r[i] = q[i + 1]
      <4>1. ASSUME NEW i \in 1..Len(r), NEW j \in 1..Len(r), i < j PROVE r[i].pos < r[j].pos
        <5>1. i + 1 \in 1..Len(q) /\ j + 1 \in 1..Len(q) /\ i + 1 < j + 1
              /\ r[i] = q[i + 1] /\ r[j] = q[j + 1]
          BY <2>2, <3>3, <4>1
        <5>2. QED
          BY <3>1, <5>1
      <4>2. QED
        BY <3>1, <3>3, <4>1
    <3>4. QED
      BY <2>2, <3>2, <3>3
  <2>4. ASSUME cp' # NoCheckpoint, cp'.by = t, NEW i \in 1..Len(r) PROVE cp'.pos < r[i].pos
    <3>1. \E k \in 1..Len(q) : r[i] = q[k] /\ (r = Tail(q) /\ q # <<>> => k > 1 \/ r[i] = q[i])
      BY <1>0, <2>2
    <3>2. CASE cp' = cp
      BY <1>0, <2>4, <3>1, <3>2 DEF Rising, q
    <3>3. ASSUME NEW u \in Tokens,
                 background[u].queue # <<>>, 1 \in 1..Len(background[u].queue),
                 cp' = background[u].queue[1], cp'.by = u,
                 background'[u].queue = Tail(background[u].queue)
          PROVE  cp'.pos < r[i].pos
      <4>1. u = t /\ r = Tail(q) /\ cp' = q[1] /\ q # <<>> /\ 1 \in 1..Len(q)
        BY <2>4, <3>3 DEF q, r
      <4>2. Len(r) = Len(q) - 1 /\ r[i] = q[i + 1] /\ i + 1 \in 1..Len(q)
        BY <1>0, <2>4, <4>1, HeadTailProperties
      <4>3. QED
        BY <1>0, <4>1, <4>2 DEF Rising, q
    <3>4. QED
      BY <2>4, <3>2, <3>3, CheckpointBecomes
  <2>5. t > issued' => r = <<>>
    <3>1. t > issued' => q = <<>>
      BY <1>0 DEF Rising, q
    <3>2. QED
      BY <2>1, <3>1 DEF Shrinks
  <2>6. QED
    BY <2>1, <2>3, <2>4, <2>5 DEF Rising, r
<1>2. ASSUME NEW e \in Executions, token[e] = t, StartStream(e) \/ Superstep(e)
      PROVE  Rising(t)'
  <2>1. UNCHANGED <<cp, issued>>
    BY <1>2, PutAppends
  <2>2. CASE UNCHANGED background
    BY <1>0, <2>1, <2>2 DEF Rising
  <2>3. ASSUME NEW d \in Checkpoints, r = Append(q, d),
               background'[t].armed = background[t].armed, d.by = t, StateOf(d, work'[e])
        PROVE  Rising(t)'
    <3>1. /\ \A i \in 1..Len(q) : q[i].pos < d.pos
          /\ cp # NoCheckpoint /\ cp.by = t => cp.pos < d.pos
      <4>1. CASE StartStream(e)
        <5>1. Early(e)
          BY <4>1 DEF StartStream, At, Early, Starting
        <5>2. q = <<>> /\ (cp # NoCheckpoint => cp.by # t)
          BY <1>2, <5>1, TypedState DEF WritesInv, Unwritten
        <5>3. QED
          BY <5>2
      <4>2. CASE Superstep(e)
        <5>1. Streams(e) /\ d.pos = work[e].pos + 1 /\ work[e].pos \in Nat
          BY <2>3, <4>2, PutAppends, WorkTypes, TypedState, ExecutionAssumption DEF StateOf
        <5>2. /\ \A i \in 1..Len(q) : q[i].pos <= work[e].pos
              /\ cp # NoCheckpoint /\ cp.by = t => cp.pos <= work[e].pos
          <6>1. Ahead(e)
            BY <5>1, TypedState DEF WritesInv
          <6>2. QED
            BY <1>2, <6>1 DEF Ahead
        <5>3. /\ \A i \in 1..Len(q) : q[i].pos \in Nat
              /\ cp # NoCheckpoint => cp.pos \in Nat
          BY <1>0
        <5> HIDE DEF q, r
        <5>4. \A i \in 1..Len(q) : q[i].pos < d.pos
          BY <5>1, <5>2, <5>3
        <5>5. cp # NoCheckpoint /\ cp.by = t => cp.pos < d.pos
          BY <5>1, <5>2, <5>3
        <5>6. QED
          BY <5>4, <5>5
      <4>3. QED
        BY <1>2, <4>1, <4>2
    <3>2. /\ Len(r) = Len(q) + 1 /\ r[Len(q) + 1] = d
          /\ \A i \in 1..Len(q) : r[i] = q[i]
      BY <1>0, <2>3, AppendProperties
    <3>3. r # <<>>
      BY <1>0, <3>2
    <3>4. t <= issued'
      BY <1>0, <1>2, TypedState
    <3> HIDE DEF q, r
    <3>5. \A i \in 1..Len(r) : r[i].by = t
      BY <1>0, <2>3, <3>2 DEF Rising, q
    <3>6. \A i, j \in 1..Len(r) : i < j => r[i].pos < r[j].pos
      <4>1. \A i, j \in 1..Len(q) : i < j => q[i].pos < q[j].pos
        BY <1>0 DEF Rising, q
      <4>2. ASSUME NEW i \in 1..Len(r), NEW j \in 1..Len(r), i < j PROVE r[i].pos < r[j].pos
        <5>1. i \in 1..Len(q) /\ r[i] = q[i]
          BY <1>0, <3>2, <4>2
        <5>2. CASE j \in 1..Len(q)
          BY <3>2, <4>1, <4>2, <5>1, <5>2
        <5>3. CASE j = Len(q) + 1
          BY <3>1, <3>2, <5>1, <5>3
        <5>4. QED
          BY <1>0, <3>2, <5>2, <5>3
      <4>3. QED
        BY <4>2
    <3>7. ASSUME cp' # NoCheckpoint, cp'.by = t, NEW i \in 1..Len(r) PROVE cp'.pos < r[i].pos
      <4>1. \A k \in 1..Len(q) : cp.pos < q[k].pos
        BY <1>0, <2>1, <3>7 DEF Rising, q
      <4>2. cp' = cp /\ cp.pos < d.pos
        BY <2>1, <3>1, <3>7
      <4>3. i \in 1..Len(q) \/ i = Len(q) + 1
        BY <1>0, <3>2
      <4>4. QED
        BY <3>2, <4>1, <4>2, <4>3
    <3>8. QED
      BY <1>0, <3>3, <3>4, <3>5, <3>6, <3>7 DEF Rising, r
  <2>4. QED
    BY <1>2, <2>2, <2>3, PutAppends
<1>3. QED
  BY <1>1, <1>2, WriteSteps, TypedState

LEMMA UnwrittenKept ==
  ASSUME IInv, [Next]_vars, NEW e \in Executions, Early(e)', ProtocolInv'
  PROVE  Unwritten(token[e])'
<1> DEFINE t == token'[e]
<1>1. t \in Tokens /\ t \in Nat
  BY ProtocolFacts, ExecutionAssumption DEF Early, ProtocolInv, Ownership!IInv, Ownership!TokensDistinct,
     Ownership!TypeOK, Ownership!NoToken, Tokens
<1>2. /\ background[t].queue = <<>> /\ (cp # NoCheckpoint => cp.by # t)
      /\ \A f \in Executions : token[f] = t /\ pc[f] # "idle" => f = e
  <2>1. CASE issued' = issued + 1 /\ t = issued'
    <3>1. t > issued
      BY <2>1, TypedState
    <3>2. Rising(t)
      BY <1>1, TypedState DEF WritesInv
    <3>3. \A f \in Executions : token[f] # t
      BY <3>1, TypedState
    <3>4. cp # NoCheckpoint => cp.by # t
      BY <1>1, <3>1, TypedState, CheckpointTypes DEF WritesInv
    <3>5. QED
      BY <3>1, <3>2, <3>3, <3>4 DEF Rising
  <2>2. CASE Early(e) /\ t = token[e]
    BY <2>2, TypedState DEF WritesInv, Unwritten, Early
  <2>3. QED
    BY <2>1, <2>2, EarlyBefore
<1> HIDE DEF t
<1>3. background'[t].queue = <<>>
  <2>1. CASE Dwindles(t)
    BY <1>2, <2>1 DEF Dwindles, Shrinks
  <2>2. ASSUME NEW f \in Executions, token[f] = t, StartStream(f) \/ Superstep(f) PROVE FALSE
    <3>1. pc[f] = "active"
      BY <2>2 DEF StartStream, Superstep, At
    <3>2. QED
      BY <1>2, <2>2, <3>1, EarlyBefore
  <2>3. QED
    BY <1>1, <2>1, <2>2, WriteSteps, TypedState
<1>4. cp' # NoCheckpoint => cp'.by # t
  BY <1>2, CheckpointBecomes
<1>5. QED
  BY <1>3, <1>4 DEF Unwritten, t

LEMMA AheadKept ==
  ASSUME IInv, [Next]_vars, NEW e \in Executions, Streams(e)' PROVE Ahead(e)'
<1> DEFINE t == token[e]
           q == background[t].queue
           r == background'[t].queue
<1>0. /\ pc[e] = "active" /\ token'[e] = t /\ t \in Tokens /\ q \in Seq(Checkpoints)
      /\ Len(q) \in Nat
      /\ \A i \in 1..Len(q) : q[i] \in Checkpoints /\ q[i].pos \in Nat
      /\ work[e].pos \in Nat /\ work'[e].pos \in Nat
      /\ cp # NoCheckpoint => cp.pos \in Nat
      /\ \A f \in Executions : token[f] = t => f = e
  <2>1. /\ pc[e] = "active" /\ token'[e] = t /\ t \in Tokens /\ q \in Seq(Checkpoints)
        /\ \A f \in Executions : token[f] = t => f = e
    BY StreamsBefore, TypedState
  <2>2. work'[e] \in Work
    BY TypesKept DEF TypeInv
  <2>3. \A i \in 1..Len(q) : q[i] \in Checkpoints
    BY <2>1, ElementOfSeq
  <2>4. QED
    BY <2>1, <2>2, <2>3, TypedState, WorkTypes, CheckpointTypes, ExecutionAssumption
<1>1. /\ \A i \in 1..Len(q) : q[i].pos <= work'[e].pos
      /\ cp # NoCheckpoint /\ cp.by = t => cp.pos <= work'[e].pos
  <2>1. CASE StartStream(e)
    <3>1. Early(e)
      BY <2>1 DEF StartStream, At, Early, Starting
    <3>2. q = <<>> /\ (cp # NoCheckpoint => cp.by # t)
      BY <3>1, TypedState DEF WritesInv, Unwritten
    <3>3. QED
      BY <3>2
  <2>2. CASE Streams(e) /\ work'[e].pos \in {work[e].pos, work[e].pos + 1}
    <3>1. Ahead(e)
      BY <2>2, TypedState DEF WritesInv
    <3>2. QED
      BY <1>0, <2>2, <3>1 DEF Ahead
  <2>3. QED
    BY <2>1, <2>2, StreamsBefore, PutAppends
<1>2. \A i \in 1..Len(r) : r[i].pos <= work'[e].pos
  <2>1. CASE Dwindles(t)
    <3>1. Shrinks(q, r)
      BY <2>1 DEF Dwindles
    <3>2. \A i \in 1..Len(r) : \E k \in 1..Len(q) : r[i] = q[k]
      <4> HIDE DEF q, r
      <4>1. QED
        BY <1>0, <3>1, Shrunk
    <3>3. QED
      BY <1>1, <3>2
  <2>2. CASE StartStream(e) \/ Superstep(e)
    <3>1. CASE UNCHANGED background
      BY <1>1, <3>1
    <3>2. ASSUME NEW d \in Checkpoints, r = Append(q, d), StateOf(d, work'[e])
          PROVE  \A i \in 1..Len(r) : r[i].pos <= work'[e].pos
      <4>1. /\ Len(r) = Len(q) + 1 /\ r[Len(q) + 1] = d
            /\ \A i \in 1..Len(q) : r[i] = q[i]
        BY <1>0, <3>2, AppendProperties
      <4> HIDE DEF q, r
      <4>2. QED
        BY <1>0, <1>1, <3>2, <4>1 DEF StateOf
    <3>3. QED
      BY <2>2, <3>1, <3>2, PutAppends
  <2>3. QED
    BY <1>0, <2>1, <2>2, WriteSteps, TypedState
<1>3. cp' # NoCheckpoint /\ cp'.by = t => cp'.pos <= work'[e].pos
  <2>1. CASE cp' = cp
    BY <1>1, <2>1
  <2>2. ASSUME NEW u \in Tokens, 1 \in 1..Len(background[u].queue),
               cp' = background[u].queue[1], cp'.by = u
        PROVE  cp'.by = t => cp'.pos <= work'[e].pos
    BY <1>1, <2>2
  <2>3. QED
    BY <2>1, <2>2, CheckpointBecomes
<1>4. QED
  BY <1>0, <1>2, <1>3 DEF Ahead

LEMMA WritesKept == IInv /\ [Next]_vars => WritesInv'
<1> SUFFICES ASSUME IInv, [Next]_vars PROVE WritesInv'
  OBVIOUS
<1>1. ProtocolInv'
  BY ProtocolKept DEF IInv
<1>2. cp' # NoCheckpoint => cp'.by <= issued'
  <2>1. CASE cp' = cp
    <3>1. cp # NoCheckpoint => cp.by <= issued /\ cp.by \in Nat
      BY TypedState, CheckpointTypes DEF WritesInv
    <3>2. QED
      BY <2>1, <3>1, IssuedGrows, TypedState
  <2>2. ASSUME NEW t \in Tokens, background[t].queue # <<>>, cp'.by = t PROVE cp'.by <= issued'
    <3>1. t <= issued /\ t \in Nat
      BY <2>2, TypedState DEF WritesInv, Rising
    <3>2. QED
      BY <2>2, <3>1, IssuedGrows, TypedState
  <2>3. QED
    BY <2>1, <2>2, CheckpointBecomes
<1>3. \A e \in Executions : Early(e)' => Unwritten(token[e])'
  BY <1>1, UnwrittenKept
<1>4. QED
  BY <1>2, <1>3, RisingKept, AheadKept DEF WritesInv

LEMMA LatestKept == IInv /\ [Next]_vars => LatestInv'
<1> SUFFICES ASSUME IInv, [Next]_vars, NEW e \in Executions, Streams(e)', ~work'[e].broken
             PROVE  Latest(e)'
  BY DEF LatestInv
<1> DEFINE t == token[e]
           q == background[t].queue
           r == background'[t].queue
<1>0. /\ pc[e] = "active" /\ token'[e] = t /\ t \in Tokens /\ q \in Seq(Checkpoints)
      /\ Len(q) \in Nat /\ \A f \in Executions : token[f] = t => f = e
      /\ \A i \in 1..Len(q) : q[i] \in Checkpoints
      /\ work[e].broken \in BOOLEAN
  BY StreamsBefore, TypedState, ElementOfSeq, WorkTypes
<1>1. CASE StartStream(e) \/ Superstep(e)
  <2>1. CASE UNCHANGED background /\ StartStream(e)
    <3>1. Early(e)
      BY <2>1 DEF StartStream, At, Early, Starting
    <3>2. q = <<>> /\ (cp # NoCheckpoint => cp.by # t)
      BY <3>1, TypedState DEF WritesInv, Unwritten
    <3>3. cp' = cp
      BY <2>1 DEF StartStream
    <3>4. QED
      BY <1>0, <2>1, <3>2, <3>3 DEF Latest
  <2>2. ASSUME NEW d \in Checkpoints, r = Append(q, d), StateOf(d, work'[e]) PROVE Latest(e)'
    <3> HIDE DEF q, r
    <3>1. Len(r) = Len(q) + 1 /\ r[Len(q) + 1] = d /\ r # <<>>
      BY <1>0, <2>2, AppendProperties
    <3>2. r[Len(r)] = d
      BY <1>0, <3>1
    <3>3. QED
      BY <1>0, <2>2, <3>1, <3>2 DEF Latest, r
  <2>3. QED
    BY <1>1, <2>1, <2>2, PutAppends
<1>2. CASE ~(StartStream(e) \/ Superstep(e))
  <2>1. /\ Streams(e) /\ ~work[e].broken
        /\ work'[e].pos = work[e].pos /\ work'[e].trail = work[e].trail
        /\ work'[e].offset = work[e].offset
    BY <1>0, <1>2, StreamsBefore
  <2>2. Latest(e)
    BY <2>1 DEF IInv, LatestInv
  <2>3. \A c : StateOf(c, work[e]) => StateOf(c, work'[e])
    BY <2>1 DEF StateOf
  <2>4. Dwindles(t)
    BY <1>0, <1>2, WriteSteps, TypedState
  <2>5. CASE r = q
    <3>1. q # <<>> => StateOf(q[Len(q)], work'[e])
      BY <2>2, <2>3 DEF Latest
    <3>2. ASSUME q = <<>>, cp' # NoCheckpoint, cp'.by = t PROVE StateOf(cp', work'[e])
      BY <2>2, <2>3, <3>2, CheckpointBecomes DEF Latest
    <3>3. QED
      BY <1>0, <2>5, <3>1, <3>2 DEF Latest
  <2>6. CASE PutWrite(t)
    <3>1. /\ Rising(t) /\ background[t].armed /\ q # <<>>
          /\ r = Tail(q)
          /\ cp' = IF Newer(Head(q), cp) THEN Head(q) ELSE cp
      BY <1>0, <2>6, TypedState DEF WritesInv, Rising, PutWrite, Writes
    <3>2. /\ Len(r) = Len(q) - 1 /\ \A i \in 1..Len(r) : r[i] = q[i + 1]
          /\ 1 \in 1..Len(q) /\ Head(q) = q[1]
      BY <1>0, <3>1, HeadTailProperties
    <3>3. CASE r # <<>>
      <4>1. r \in Seq(Checkpoints)
        BY <1>0, <3>1, HeadTailProperties
      <4>2. Len(r) \in 1..Len(r)
        BY <3>3, <4>1
      <4>3. r[Len(r)] = q[Len(q)]
        <5> HIDE DEF q, r
        <5>1. QED
          BY <1>0, <3>2, <4>2
      <4>4. QED
        BY <1>0, <2>2, <2>3, <3>1, <3>3, <4>3 DEF Latest
    <3>4. ASSUME r = <<>>, cp' # NoCheckpoint, cp'.by = t PROVE StateOf(cp', work'[e])
      <4>1. Len(q) = 1
        <5> HIDE DEF q, r
        <5>1. QED
          BY <1>0, <3>2, <3>4
      <4>2. q[1].by = t /\ (cp # NoCheckpoint /\ cp.by = t => cp.pos < q[1].pos)
        BY <3>1, <3>2 DEF Rising
      <4>3. cp # NoCheckpoint => cp.pos \in Nat /\ q[1].pos \in Nat
        BY <1>0, <3>2, TypedState, CheckpointTypes, ExecutionAssumption
      <4>4. cp' = q[1]
        BY <3>1, <3>2, <3>4, <4>2, <4>3 DEF Newer
      <4>5. QED
        BY <2>2, <2>3, <3>1, <4>1, <4>4 DEF Latest
    <3>5. QED
      BY <1>0, <3>3, <3>4 DEF Latest
  <2>7. CASE PutFails(t)
    <3>1. work'[e].broken
      BY <1>0, <2>7, TypedState DEF PutFails, Work
    <3>2. QED
      BY <3>1
  <2>8. CASE \E f \in Executions : token[f] = t /\ ~Streams(f)'
    BY <1>0, <2>8
  <2>9. QED
    BY <2>4, <2>5, <2>6, <2>7, <2>8 DEF Dwindles
<1>3. QED
  BY <1>1, <1>2

-----------------------------------------------------------------------------
(* The numbers of the rows                                                 *)

FreeAfter(R) ==
    IF R = {} THEN 0
    ELSE 1 + (CHOOSE m \in {r.seq : r \in R} : \A r \in R : r.seq <= m)

LEMMA NextFree ==
  ASSUME NEW R, NEW n \in Nat, \A r \in R : r.seq \in 0..(n - 1),
         n > 0 => \E r \in R : r.seq = n - 1
  PROVE  FreeAfter(R) = n
<1> USE DEF FreeAfter
<1>1. CASE R = {}
  BY <1>1
<1>2. CASE R # {}
  <2>1. n - 1 \in {r.seq : r \in R} /\ \A r \in R : r.seq <= n - 1
    BY <1>2
  <2> DEFINE M == CHOOSE m \in {r.seq : r \in R} : \A r \in R : r.seq <= m
  <2>2. M \in {r.seq : r \in R} /\ \A r \in R : r.seq <= M
    BY <2>1
  <2>3. M = n - 1
    BY <2>1, <2>2
  <2>4. QED
    BY <1>2, <2>3
<1>3. QED
  BY <1>1, <1>2

(* What depends on the rows alone stays as it is with them.                *)
LEMMA RowsStay ==
  ASSUME rows' = rows
  PROVE  /\ NextSeq' = NextSeq
         /\ \A q : Recorded(q)' <=> Recorded(q)
         /\ \A q, x : RecordedAs(q, x)' <=> RecordedAs(q, x)
         /\ \A b, t : Conflicts(b, t)' <=> Conflicts(b, t)
         /\ RowsInv' <=> RowsInv
<1>1. NextSeq' = NextSeq
  BY DEF NextSeq
<1>2. \A q : Recorded(q)' <=> Recorded(q)
  BY DEF Recorded
<1>3. \A q, x : RecordedAs(q, x)' <=> RecordedAs(q, x)
  BY DEF RecordedAs
<1>4. \A b, t : Conflicts(b, t)' <=> Conflicts(b, t)
  BY DEF Conflicts, Recorded, RecordedAs
<1>5. RowsInv' <=> RowsInv
  BY <1>1, <1>2 DEF RowsInv
<1>6. QED
  BY <1>1, <1>2, <1>3, <1>4, <1>5

(* How many of an attempt's events are rows when none is missing.          *)
LEMMA MatchedIs ==
  ASSUME RowsInv, NEW base \in Nat, NEW trail \in Seq(Fingerprints),
         base <= NextSeq, ~HasTrailing(base, trail)
  PROVE  Matched(base, trail) = NextSeq - base
<1> DEFINE S == {i \in 1..Len(trail) : Recorded(base + i - 1)}
<1>1. NextSeq \in Nat /\ Len(trail) \in Nat /\ NextSeq <= base + Len(trail)
  BY DEF RowsInv, HasTrailing
<1>2. \A i \in 1..Len(trail) : Recorded(base + i - 1) <=> base + i - 1 < NextSeq
  BY <1>1 DEF RowsInv, Recorded
<1>3. S = 1..(NextSeq - base)
  BY <1>1, <1>2
<1>4. Cardinality(1..(NextSeq - base)) = NextSeq - base
  BY <1>1, FS_Interval
<1>5. QED
  BY <1>3, <1>4 DEF Matched

(* What an append makes of the rows.                                       *)
LEMMA Appended ==
  ASSUME IInv, [Next]_vars, NEW e \in Executions, AppendEvents(e)
  PROVE  /\ Own!Owns(e) /\ pc[e] = "active" /\ Streams(e)
         /\ work[e].base \in Nat /\ work[e].done \in Nat /\ Len(work[e].trail) \in Nat
         /\ work[e].done < Len(work[e].trail)
         /\ NextSeq' = work[e].base + Len(work[e].trail) /\ NextSeq <= NextSeq'
         /\ RowsInv' /\ rows \subseteq rows'
         /\ \A r \in rows' : r \in rows \/ \E i \in (work[e].done + 1)..Len(work[e].trail) :
               /\ r.seq = work[e].base + i - 1
               /\ r.step = work[e].trail[i].step /\ r.by = work[e].trail[i].by
         /\ \A i \in (work[e].done + 1)..Len(work[e].trail) : \E r \in rows' :
               /\ r.seq = work[e].base + i - 1
               /\ r.step = work[e].trail[i].step /\ r.by = work[e].trail[i].by
         /\ work'[e] = [work[e] EXCEPT !.done = Len(work[e].trail), !.ph = "appended"]
<1> DEFINE w == work[e]
           n == Len(w.trail)
           row(i) == [seq |-> w.base + i - 1, step |-> w.trail[i].step, by |-> w.trail[i].by]
           new == {row(i) : i \in (w.done + 1)..n}
<1>1. /\ pc[e] = "active" /\ w.ph = "append" /\ Own!Owns(e)
      /\ rows' = rows \cup new
      /\ work' = [work EXCEPT ![e].done = n, ![e].ph = "appended"]
  BY DEF AppendEvents, At, Own!Fence
<1>2. /\ Local(pc[e], w) /\ work \in [Executions -> Work] /\ w \in Work
      /\ RowsInv /\ NextSeq \in Nat /\ CursorInv
      /\ rows \subseteq [seq : Nat, step : 1..Steps, by : Tokens]
  BY TypedState DEF IInv, NumbersInv, RowsInv, TypeInv
<1>3. /\ w.base \in Nat /\ w.trail \in Seq(Fingerprints) /\ n \in Nat /\ w.done \in Nat
      /\ \A i \in 1..n : w.trail[i] \in Fingerprints
      /\ w.base + w.done = NextSeq /\ w.done < n /\ w.done \in 0..n
  <2>1. w.base + w.done = NextSeq
    BY <1>1, <1>2 DEF CursorInv, HasCursor, Streaming
  <2>2. w.base \in Nat /\ w.trail \in Seq(Fingerprints) /\ n \in Nat /\ w.done \in Nat
        /\ \A i \in 1..n : w.trail[i] \in Fingerprints
    BY <1>2, WorkTypes
  <2>3. w.done < n
    BY <1>1, <1>2, <2>2 DEF Local
  <2>4. QED
    BY <2>1, <2>2, <2>3
<1>4. \A i \in (w.done + 1)..n :
         /\ i \in 1..n /\ row(i) \in rows'
         /\ row(i) \in [seq : Nat, step : 1..Steps, by : Tokens]
         /\ row(i).seq = w.base + i - 1
         /\ row(i).step = w.trail[i].step /\ row(i).by = w.trail[i].by
         /\ NextSeq <= row(i).seq /\ row(i).seq < w.base + n
  <2> SUFFICES ASSUME NEW i \in (w.done + 1)..n
               PROVE  /\ i \in 1..n /\ row(i) \in rows'
                      /\ row(i) \in [seq : Nat, step : 1..Steps, by : Tokens]
                      /\ row(i).seq = w.base + i - 1
                      /\ row(i).step = w.trail[i].step /\ row(i).by = w.trail[i].by
                      /\ NextSeq <= row(i).seq /\ row(i).seq < w.base + n
    OBVIOUS
  <2>1. i \in 1..n /\ w.base + i - 1 \in Nat /\ NextSeq <= w.base + i - 1
        /\ w.base + i - 1 < w.base + n
    BY <1>3
  <2>2. row(i) \in rows'
    BY <1>1
  <2>3. w.trail[i].step \in 1..Steps /\ w.trail[i].by \in Tokens
    BY <1>3, <2>1 DEF Fingerprints
  <2>4. QED
    BY <2>1, <2>2, <2>3
<1>5. \A r \in rows' : r \in rows \/ \E i \in (w.done + 1)..n : r = row(i)
  BY <1>1
<1>6. rows \subseteq rows' /\ rows' \subseteq [seq : Nat, step : 1..Steps, by : Tokens]
  BY <1>1, TypesKept DEF TypeInv
<1> HIDE DEF row, new
<1>7. NextSeq' = w.base + n
  <2> DEFINE m == w.base + n
  <2>1. m \in Nat
    BY <1>3
  <2>2. \A r \in rows' : r.seq \in 0..(m - 1)
    <3> SUFFICES ASSUME NEW r \in rows' PROVE r.seq \in 0..(m - 1)
      OBVIOUS
    <3>1. r.seq \in Nat
      BY <1>6
    <3>2. CASE r \in rows
      BY <1>2, <1>3, <3>1, <3>2 DEF RowsInv
    <3>3. CASE r \notin rows
      BY <1>3, <1>4, <1>5, <3>1, <3>3, SMTT(30)
    <3>4. QED
      BY <3>2, <3>3
  <2>3. m > 0 => \E r \in rows' : r.seq = m - 1
    <3>1. CASE w.done < n
      <4>1. n \in (w.done + 1)..n
        BY <1>3, <3>1
      <4>2. \A i \in (w.done + 1)..n : \E r \in rows' : r.seq = w.base + i - 1
        BY <1>4
      <4>3. \E r \in rows' : r.seq = w.base + n - 1
        BY <4>1, <4>2
      <4>4. \A b, x \in Nat : b + x - 1 = (b + x) - 1
        OBVIOUS
      <4>5. w.base + n - 1 = m - 1
        BY <1>3, <4>4
      <4> HIDE DEF m
      <4>6. QED
        BY <4>3, <4>5
    <3>2. CASE w.done = n
      BY <1>3, <3>2
    <3>3. QED
      BY <1>3, <3>1, <3>2
  <2> HIDE DEF m
  <2>4. FreeAfter(rows') = m
    BY <2>1, <2>2, <2>3, NextFree
  <2>5. QED
    BY <2>4 DEF m, NextSeq, FreeAfter
<1>8. \A i \in (w.done + 1)..n : \E r \in rows' : r.seq = w.base + i - 1
  BY <1>4
<1>9. RowsInv'
  <2>1. \A r \in rows' : r.seq < NextSeq'
    <3> SUFFICES ASSUME NEW r \in rows' PROVE r.seq < NextSeq'
      OBVIOUS
    <3>1. CASE r \in rows
      BY <1>2, <1>3, <1>6, <1>7, <3>1 DEF RowsInv
    <3>2. CASE r \notin rows
      BY <1>4, <1>5, <1>7, <3>2
    <3>3. QED
      BY <3>1, <3>2
  <2>2. \A q \in 0..(NextSeq' - 1) : \E r \in rows' : r.seq = q
    <3> SUFFICES ASSUME NEW q \in 0..(NextSeq' - 1) PROVE \E r \in rows' : r.seq = q
      OBVIOUS
    <3>1. CASE q < NextSeq
      BY <1>2, <1>6, <3>1 DEF RowsInv, Recorded
    <3>2. CASE NextSeq <= q
      <4>1. \A b, d, m \in Nat : \A k \in 0..(b + m - 1) :
               b + d <= k => k - b + 1 \in (d + 1)..m /\ b + (k - b + 1) - 1 = k
        OBVIOUS
      <4>2. w.base \in Nat /\ w.done \in Nat /\ n \in Nat /\ q \in 0..(w.base + n - 1)
            /\ w.base + w.done <= q
        BY <1>3, <1>7, <3>2
      <4>3. q - w.base + 1 \in (w.done + 1)..n /\ w.base + (q - w.base + 1) - 1 = q
        BY <4>1, <4>2
      <4>4. QED
        BY <1>8, <4>3
    <3>3. QED
      BY <1>2, <3>1, <3>2
  <2>3. \A r, s \in rows' : r.seq = s.seq => r = s
    <3> SUFFICES ASSUME NEW r \in rows', NEW s \in rows', r.seq = s.seq PROVE r = s
      OBVIOUS
    <3>0. \A x \in rows : x.seq < NextSeq /\ x.seq \in Nat
      BY <1>2 DEF RowsInv
    <3>1. CASE r \in rows /\ s \in rows
      BY <1>2, <3>1 DEF RowsInv
    <3>2. CASE r \in rows /\ s \notin rows
      <4>1. NextSeq <= s.seq
        BY <1>4, <1>5, <3>2
      <4>2. QED
        BY <1>2, <3>0, <3>2, <4>1
    <3>3. CASE r \notin rows /\ s \in rows
      <4>1. NextSeq <= r.seq
        BY <1>4, <1>5, <3>3
      <4>2. QED
        BY <1>2, <3>0, <3>3, <4>1
    <3>4. CASE r \notin rows /\ s \notin rows
      <4>1. PICK i \in (w.done + 1)..n : r = row(i)
        BY <1>5, <3>4
      <4>2. PICK j \in (w.done + 1)..n : s = row(j)
        BY <1>5, <3>4
      <4>3. w.base + i - 1 = w.base + j - 1
        BY <1>4, <4>1, <4>2
      <4>4. i = j
        BY <1>3, <4>3
      <4>5. QED
        BY <4>1, <4>2, <4>4
    <3>5. QED
      BY <3>1, <3>2, <3>3, <3>4
  <2>4. NextSeq' \in Nat
    BY <1>3, <1>7
  <2>5. QED
    BY <1>6, <2>1, <2>2, <2>3, <2>4 DEF RowsInv, Recorded
<1>10. /\ \A r \in rows' : r \in rows \/ \E i \in (w.done + 1)..n :
             r.seq = w.base + i - 1 /\ r.step = w.trail[i].step /\ r.by = w.trail[i].by
       /\ \A i \in (w.done + 1)..n : \E r \in rows' :
             r.seq = w.base + i - 1 /\ r.step = w.trail[i].step /\ r.by = w.trail[i].by
  BY <1>4, <1>5
<1>11. work'[e] = [w EXCEPT !.done = n, !.ph = "appended"]
  BY <1>1, <1>2
<1>12. Streams(e) /\ NextSeq <= NextSeq'
  BY <1>1, <1>3, <1>7 DEF Streams
<1>13. QED
  BY <1>1, <1>3, <1>6, <1>7, <1>9, <1>10, <1>11, <1>12

\* The free number only grows.
LEMMA NextSeqGrows ==
  ASSUME IInv, [Next]_vars
  PROVE  NextSeq \in Nat /\ NextSeq' \in Nat /\ NextSeq <= NextSeq' /\ RowsInv'
<1>1. RowsInv /\ NextSeq \in Nat
  BY DEF IInv, NumbersInv, RowsInv
<1>2. CASE rows' = rows
  BY <1>1, <1>2, RowsStay, SMTT(30)
<1>3. CASE \E e \in Executions : AppendEvents(e)
  BY <1>1, <1>3, Appended DEF RowsInv
<1>4. QED
  BY <1>2, <1>3, RowSteps

LEMMA CallBased ==
  ASSUME IInv, [Next]_vars, NEW e \in Executions
  PROVE  work'[e].base <= NextSeq /\ work'[e].offset <= NextSeq
<1> USE TypedState
<1>0. /\ NextSeq \in Nat /\ work[e].base <= NextSeq /\ work[e].offset <= NextSeq
      /\ cp # NoCheckpoint => cp.base <= NextSeq
  BY DEF IInv, NumbersInv, RowsInv, Based
<1>1. CASE Kept(e) \/ Outside(e) \/ Enter(e)
  <2>1. \/ work'[e] = work[e] \/ work'[e] = [work[e] EXCEPT !.broken = TRUE]
        \/ \E m \in {"resume", "request", "fresh"} : work'[e] = [work[e] EXCEPT !.mode = m]
        \/ work'[e] = [work[e] EXCEPT !.ph = "load"]
    BY <1>1 DEF Kept, Outside, Enter
  <2>2. work'[e].base = work[e].base /\ work'[e].offset = work[e].offset
    BY <2>1 DEF Work
  <2>3. QED
    BY <1>0, <2>2
<1>2. CASE Ends(e) \/ Concludes(e)
  <2>1. work'[e] = Blank
    BY <1>2 DEF Ends, Concludes
  <2>2. QED
    BY <1>0, <2>1 DEF Blank
<1>3. CASE Proceeds(e)
  <2>1. CASE Load(e)
    <3>1. work'[e].base \in {work[e].base, BaseOf(cp)} /\ work'[e].offset = work[e].offset
      BY <2>1 DEF Load, Work
    <3>2. BaseOf(cp) <= NextSeq
      BY <1>0 DEF BaseOf
    <3>3. QED
      BY <1>0, <3>1, <3>2
  <2>2. CASE FreshOffset(e)
    <3>1. work'[e].base = NextSeq /\ work'[e].offset = work[e].offset
      BY <2>2 DEF FreshOffset, Work
    <3>2. QED
      BY <1>0, <3>1
  <2>3. CASE StartStream(e)
    <3>1. /\ work'[e].base = work[e].base
          /\ \/ work'[e].offset = work[e].base
             \/ work'[e].offset = cp.base /\ cp # NoCheckpoint
      BY <2>3 DEF StartStream, Work
    <3>2. QED
      BY <1>0, <3>1
  <2>4. CASE ClearFence(e) \/ Clear(e) \/ AwaitNext(e)
    <3>1. work'[e].base = work[e].base /\ work'[e].offset = work[e].offset
      BY <2>4 DEF ClearFence, Clear, AwaitNext, Work
    <3>2. QED
      BY <1>0, <3>1
  <2>5. CASE ReconcileAccepts(e) /\ ~Replays(e)
    <3>1. work'[e].base = work[e].base /\ work'[e].offset = work[e].offset
      BY <2>5 DEF ReconcileAccepts, Work
    <3>2. QED
      BY <1>0, <3>1
  <2>6. CASE Superstep(e)
    <3>1. work'[e].base = work[e].base /\ work'[e].offset = work[e].offset
      BY <2>6 DEF Superstep, Work
    <3>2. QED
      BY <1>0, <3>1
  <2>7. CASE AppendEvents(e)
    <3>1. work'[e].base = work[e].base /\ work'[e].offset = work[e].offset
      BY <2>7 DEF AppendEvents, Work
    <3>2. QED
      BY <1>0, <3>1
  <2>8. QED
    BY <1>3, <2>1, <2>2, <2>3, <2>4, <2>5, <2>6, <2>7 DEF Proceeds
<1>4. QED
  BY <1>1, <1>2, <1>3, OneCallMoves

LEMMA BasedKept == IInv /\ [Next]_vars => Based'
<1> SUFFICES ASSUME IInv, [Next]_vars PROVE Based'
  OBVIOUS
<1> USE TypedState
<1>0. /\ NextSeq \in Nat /\ NextSeq' \in Nat /\ NextSeq <= NextSeq' /\ Based
      /\ background' \in [Tokens -> Writes]
      /\ cp' \in Checkpoints \cup {NoCheckpoint} /\ work' \in [Executions -> Work]
  BY NextSeqGrows, TypesKept DEF IInv, NumbersInv, TypeInv
<1>1. \A e \in Executions : work'[e].base <= NextSeq' /\ work'[e].offset <= NextSeq'
  <2> TAKE e \in Executions
  <2>1. work'[e].base \in Nat /\ work'[e].offset \in Nat
    BY <1>0, WorkTypes
  <2>2. QED
    BY <1>0, <2>1, CallBased
<1>2. cp' # NoCheckpoint => cp'.base <= NextSeq'
  <2>1. cp' # NoCheckpoint => cp'.base <= NextSeq
    BY <1>0, CheckpointBecomes DEF Based
  <2>2. cp' # NoCheckpoint => cp'.base \in Nat
    BY <1>0, CheckpointTypes
  <2>3. QED
    BY <1>0, <2>1, <2>2
<1>3. ASSUME NEW t \in Tokens, NEW i \in 1..Len(background'[t].queue)
      PROVE  background'[t].queue[i].base <= NextSeq'
  <2> DEFINE q == background[t].queue
             r == background'[t].queue
  <2>0. q \in Seq(Checkpoints) /\ Len(q) \in Nat /\ r \in Seq(Checkpoints) /\ r[i] \in Checkpoints
    BY <1>0, <1>3, ElementOfSeq DEF Writes
  <2>1. r[i].base \in Nat
    BY <2>0, CheckpointTypes
  <2>2. \A k \in 1..Len(q) : q[k].base <= NextSeq
    BY <1>0 DEF Based
  <2>3. CASE Dwindles(t)
    <3>1. Shrinks(q, r)
      BY <2>3 DEF Dwindles
    <3>2. \E k \in 1..Len(q) : r[i] = q[k]
      <4> HIDE DEF q, r
      <4>1. QED
        BY <1>3, <2>0, <3>1, Shrunk DEF r
    <3>3. QED
      BY <1>0, <2>1, <2>2, <3>2
  <2>4. ASSUME NEW e \in Executions, token[e] = t, StartStream(e) \/ Superstep(e)
        PROVE  r[i].base <= NextSeq'
    <3>1. CASE UNCHANGED background
      BY <1>0, <1>3, <2>1, <2>2, <3>1
    <3>2. ASSUME NEW d \in Checkpoints, r = Append(q, d), StateOf(d, work'[e])
          PROVE  r[i].base <= NextSeq'
      <4>1. /\ Len(r) = Len(q) + 1 /\ r[Len(q) + 1] = d
            /\ \A k \in 1..Len(q) : r[k] = q[k]
        BY <2>0, <3>2, AppendProperties
      <4>2. d.base <= NextSeq
        BY <3>2, CallBased DEF StateOf
      <4> HIDE DEF q, r
      <4>3. r[i].base <= NextSeq
        BY <1>3, <2>0, <2>2, <4>1, <4>2, SMTT(30) DEF r
      <4>4. QED
        BY <1>0, <2>1, <4>3
    <3>3. QED
      BY <2>4, <3>1, <3>2, PutAppends
  <2>5. QED
    BY <2>3, <2>4, WriteSteps
<1>4. QED
  BY <1>1, <1>2, <1>3 DEF Based

\* Where a call that has reconciled its cursor can have come from.
LEMMA CursorBefore ==
  ASSUME IInv, [Next]_vars, NEW e \in Executions, HasCursor(e)'
  PROVE  /\ pc[e] = "active" /\ token'[e] = token[e] /\ token[e] \in Tokens
         /\ \/ ReconcileAccepts(e) /\ ~Replays(e)
            \/ /\ HasCursor(e) /\ work'[e].base = work[e].base
               /\ work'[e].done = work[e].done \/ AppendEvents(e)
         /\ work'[e].ph = "start" =>
               \/ ReconcileAccepts(e) /\ ~Replays(e)
               \/ work[e].ph = "start" /\ work'[e].seen = work[e].seen
<1> USE TypedState DEF HasCursor
<1>1. CASE Kept(e)
  BY <1>1 DEF Kept, Work
<1>2. CASE Outside(e) \/ Ends(e) \/ Concludes(e)
  BY <1>2 DEF Outside, Ends, Concludes
<1>3. CASE Enter(e)
  BY <1>3 DEF Enter, Work, Streaming
<1>4. CASE Proceeds(e)
  <2>1. UNCHANGED <<pc, token>> /\ pc[e] = "active"
    BY <1>4, ProceedsFrom
  <2>2. CASE Load(e) \/ FreshOffset(e) \/ ClearFence(e) \/ Clear(e)
    <3>1. work'[e].ph \in {"offset", "clear", "cleared", "reconcile"}
      <4>1. CASE Load(e)
        BY <4>1 DEF Load, Work
      <4>2. CASE FreshOffset(e) \/ ClearFence(e) \/ Clear(e)
        BY <4>2 DEF FreshOffset, ClearFence, Clear, Work
      <4>4. QED
        BY <2>2, <4>1, <4>2
    <3>2. QED
      BY <3>1 DEF Streaming
  <2>3. CASE ReconcileAccepts(e) /\ ~Replays(e)
    BY <2>1, <2>3
  <2>4. CASE StartStream(e)
    <3>1. work[e].ph = "start" /\ work'[e].base = work[e].base /\ work'[e].done = work[e].done
      BY <2>4 DEF StartStream, At, Work
    <3>2. work'[e].ph # "start"
      <4>1. work'[e].ph = PhaseAfter(TrailOf(cp), work[e].done)
        BY <2>4 DEF StartStream, Work
      <4>2. QED
        BY <4>1 DEF PhaseAfter
    <3>3. QED
      BY <2>1, <3>1, <3>2
  <2>5. CASE Superstep(e)
    <3>1. work[e].ph = "stream" /\ work'[e].base = work[e].base /\ work'[e].done = work[e].done
      BY <2>5 DEF Superstep, At, Work
    <3>2. work'[e].ph # "start"
      <4>1. work'[e].ph = PhaseAfter(IF work[e].pos + 1 = PauseAt THEN work[e].trail
                 ELSE Append(work[e].trail, Event(work[e].pos + 1, e)), work[e].done)
        BY <2>5 DEF Superstep, Work
      <4>2. QED
        BY <4>1 DEF PhaseAfter
    <3>3. QED
      BY <2>1, <3>1, <3>2 DEF Streaming
  <2>6. CASE AppendEvents(e)
    <3>1. work[e].ph = "append" /\ work'[e].base = work[e].base /\ work'[e].ph = "appended"
      BY <2>6 DEF AppendEvents, At, Work
    <3>2. QED
      BY <2>1, <2>6, <3>1 DEF Streaming
  <2>7. CASE AwaitNext(e)
    <3>1. /\ work[e].ph = "appended" /\ work'[e].base = work[e].base
          /\ work'[e].done = work[e].done /\ work'[e].ph = "stream"
      BY <2>7 DEF AwaitNext, At, Work
    <3>2. QED
      BY <2>1, <3>1 DEF Streaming
  <2>8. QED
    BY <1>4, <2>2, <2>3, <2>4, <2>5, <2>6, <2>7 DEF Proceeds
<1>5. QED
  BY <1>1, <1>2, <1>3, <1>4, OneCallMoves

\* Only the call that owns the row adds to the rows.
LEMMA OwnerAlone ==
  ASSUME IInv, [Next]_vars, NEW e \in Executions, HasCursor(e)', Own!Owns(e)'
  PROVE  Own!Owns(e) /\ \A f \in Executions : AppendEvents(f) => f = e
<1>1. Own!Owns(e) /\ pc[e] # "idle"
  BY CursorBefore, OwnsBefore, TypedState
<1>2. ASSUME NEW f \in Executions, AppendEvents(f) PROVE f = e
  <2>1. Own!Owns(f) /\ pc[f] = "active"
    BY <1>2, Appended
  <2>2. QED
    BY <1>1, <2>1, ProtocolFacts, TypedState, SMTT(30)
<1>3. QED
  BY <1>1, <1>2

\* What an accepted cursor is.
LEMMA Accepted ==
  ASSUME IInv, NEW e \in Executions, ReconcileAccepts(e)
  PROVE  LET w == work[e]
             trail == TrailOf(w.seen)
         IN /\ w \in Work /\ trail \in Seq(Fingerprints) /\ Len(trail) \in Nat
            /\ w.base \in Nat /\ w.base <= NextSeq /\ NextSeq <= w.base + Len(trail)
            /\ RowsInv /\ NextSeq \in Nat /\ rows' = rows
            /\ ~Conflicts(w.base, trail)
            /\ Matched(w.base, trail) = NextSeq - w.base
            /\ Replays(e) => NextSeq = w.base + Len(trail)
            /\ ~Replays(e) => work'[e] = [w EXCEPT !.ph = "start", !.done = NextSeq - w.base]
<1> DEFINE w == work[e]
           trail == TrailOf(w.seen)
<1>1. w \in Work /\ work \in [Executions -> Work] /\ w.base \in Nat
      /\ w.seen \in Checkpoints \cup {NoCheckpoint} /\ TypeInv
  BY TypedState, WorkTypes
<1>2. trail \in Seq(Fingerprints) /\ Len(trail) \in Nat
  BY <1>1, TrailTypes
<1>3. RowsInv /\ NextSeq \in Nat /\ w.base <= NextSeq
  BY DEF IInv, NumbersInv, RowsInv, Based
<1>4. /\ ~Conflicts(w.base, trail) /\ ~HasTrailing(w.base, trail)
      /\ Replays(e) => Matched(w.base, trail) = Len(trail)
      /\ rows' = rows
  BY DEF ReconcileAccepts, Reconciles
<1>5. Matched(w.base, trail) = NextSeq - w.base
  BY <1>1, <1>2, <1>3, <1>4, MatchedIs
<1>6. NextSeq <= w.base + Len(trail)
  BY <1>1, <1>2, <1>3, <1>4 DEF HasTrailing
<1>7. Replays(e) => NextSeq = w.base + Len(trail)
  BY <1>1, <1>2, <1>3, <1>4, <1>5
<1>8. ~Replays(e) => work'[e] = [w EXCEPT !.ph = "start", !.done = Matched(w.base, trail)]
  BY <1>1 DEF ReconcileAccepts
<1>9. QED
  BY <1>1, <1>2, <1>3, <1>4, <1>5, <1>6, <1>7, <1>8

LEMMA CursorKept == IInv /\ [Next]_vars => CursorInv'
<1> SUFFICES ASSUME IInv, [Next]_vars, NEW e \in Executions, HasCursor(e)', Own!Owns(e)'
             PROVE  work'[e].base + work'[e].done = NextSeq'
  BY DEF CursorInv
<1>1. Own!Owns(e) /\ \A f \in Executions : AppendEvents(f) => f = e
  BY OwnerAlone
<1>2. CASE ReconcileAccepts(e) /\ ~Replays(e)
  <2>1. work'[e].base = work[e].base /\ work'[e].done = NextSeq - work[e].base
    BY <1>2, Accepted DEF Work
  <2>2. work[e].base \in Nat /\ NextSeq \in Nat /\ NextSeq' = NextSeq
    BY <1>2, Accepted, RowsStay
  <2>3. QED
    BY <2>1, <2>2
<1>3. CASE HasCursor(e) /\ work'[e].base = work[e].base
           /\ (work'[e].done = work[e].done \/ AppendEvents(e))
  <2>1. work[e].base + work[e].done = NextSeq
    BY <1>1, <1>3, SMTT(30) DEF IInv, NumbersInv, CursorInv
  <2>2. CASE AppendEvents(e)
    <3>1. work'[e].done = Len(work[e].trail)
      <4>1. /\ work'[e] = [work[e] EXCEPT !.done = Len(work[e].trail), !.ph = "appended"]
            /\ work[e] \in Work
        BY <2>2, Appended, TypedState
      <4>2. QED
        BY <4>1 DEF Work
    <3>2. QED
      BY <1>3, <2>2, <3>1, Appended
  <2>3. CASE ~AppendEvents(e)
    <3>1. rows' = rows
      BY <1>1, <2>3, RowSteps
    <3>2. QED
      BY <1>3, <2>1, <2>3, <3>1, RowsStay
  <2>4. QED
    BY <2>2, <2>3
<1>4. QED
  BY <1>2, <1>3, CursorBefore

LEMMA NumbersKept == IInv /\ [Next]_vars => NumbersInv'
  BY NextSeqGrows, BasedKept, CursorKept DEF NumbersInv

-----------------------------------------------------------------------------
(* The content of the rows                                                 *)

LEMMA EventsGrow ==
  ASSUME NEW pos \in 0..(Steps - 1)
  PROVE  IF pos + 1 = PauseAt THEN Events(pos + 1) = Events(pos)
         ELSE Events(pos + 1) = Events(pos) + 1 /\ Nth(Events(pos) + 1) = pos + 1
  BY ExecutionAssumption DEF Events, Nth

LEMMA NthInOrder ==
  ASSUME NEW s \in EventSteps, NEW i \in Nat \ {0}
  PROVE  /\ Nth(1) <= s
         /\ i > 1 => Nth(i - 1) < Nth(i) /\ ~(Nth(i - 1) < s /\ s < Nth(i))
  BY ExecutionAssumption DEF Nth, EventSteps

LEMMA NthGrows ==
  ASSUME NEW i \in Nat, i > 1
  PROVE  Nth(i - 1) < Nth(i)
  BY ExecutionAssumption DEF Nth

(* A stream that begins where its cursor was reconciled.                   *)
LEMMA StartedAt ==
  ASSUME IInv, NEW e \in Executions, StartStream(e), ~moved'
  PROVE  /\ ~moved /\ cp = work[e].seen /\ work[e].ph = "start"
         /\ work'[e].trail = TrailOf(cp) /\ work'[e].base = work[e].base
         /\ work'[e].offset = work'[e].base /\ work'[e].done = work[e].done
         /\ Streams(e)' /\ Ordered(work[e])'
<1> DEFINE w == work[e]
           resumes == w.mode = "resume"
           pos == IF resumes THEN cp.pos ELSE 0
           offset == IF resumes THEN cp.base ELSE w.base
<1>1. /\ work \in [Executions -> Work] /\ w \in Work /\ moved \in BOOLEAN
      /\ Local(pc[e], w) /\ cp \in Checkpoints \cup {NoCheckpoint}
  BY TypedState
<1>2. /\ w.ph = "start" /\ pc'[e] = "active"
      /\ ~moved /\ cp = w.seen /\ (resumes => cp # NoCheckpoint)
      /\ (~resumes => cp = NoCheckpoint)
  BY <1>1 DEF StartStream, At, ownVars
<1>3. work'[e] = [w EXCEPT !.seen = NoCheckpoint, !.from = pos, !.pos = pos,
                           !.trail = TrailOf(cp), !.offset = offset,
                           !.ph = PhaseAfter(TrailOf(cp), w.done)]
  BY <1>1 DEF StartStream
<1> HIDE DEF pos, offset
<1>4. /\ work'[e].trail = TrailOf(cp) /\ work'[e].base = w.base /\ work'[e].offset = offset
      /\ work'[e].done = w.done /\ work'[e].pos = pos
      /\ work'[e].ph = PhaseAfter(TrailOf(cp), w.done)
  BY <1>1, <1>3 DEF Work
<1>5. offset = w.base
  BY <1>1, <1>2 DEF offset, Local
<1>6. Ordered(work[e])'
  <2>1. CASE resumes
    <3>1. Ordered(cp) /\ pos = cp.pos /\ TrailOf(cp) = cp.trail
      BY <1>2, <2>1 DEF IInv, ContentInv, pos, TrailOf
    <3>2. QED
      BY <1>4, <3>1 DEF Ordered
  <2>2. CASE ~resumes
    <3>1. pos = 0 /\ TrailOf(cp) = <<>>
      BY <1>2, <2>2 DEF pos, TrailOf
    <3>2. Events(0) = 0
      BY ExecutionAssumption DEF Events
    <3>3. QED
      BY <1>4, <3>1, <3>2 DEF Ordered
  <2>3. QED
    BY <2>1, <2>2
<1>7. Streams(e)'
  BY <1>2, <1>4 DEF Streams, PhaseAfter
<1>8. QED
  BY <1>2, <1>4, <1>5, <1>6, <1>7

(* What a superstep adds to the trail.                                     *)
LEMMA SuperstepTrail ==
  ASSUME IInv, NEW e \in Executions, Superstep(e)
  PROVE  /\ work[e].ph = "stream" /\ work'[e].ph # "start" /\ moved' = moved /\ rows' = rows
         /\ work'[e].base = work[e].base /\ work'[e].offset = work[e].offset
         /\ work'[e].done = work[e].done
         /\ Len(work[e].trail) \in Nat /\ Len(work'[e].trail) \in Nat
         /\ Len(work[e].trail) <= Len(work'[e].trail)
         /\ \A i \in 1..Len(work[e].trail) : work'[e].trail[i] = work[e].trail[i]
         /\ Ordered(work[e]) => Ordered(work[e])'
<1> DEFINE w == work[e]
           trail == IF w.pos + 1 = PauseAt THEN w.trail
                    ELSE Append(w.trail, Event(w.pos + 1, e))
<1>1. /\ work \in [Executions -> Work] /\ w \in Work
      /\ w.ph = "stream" /\ moved' = moved /\ rows' = rows /\ w.pos # Steps
      /\ work'[e] = [w EXCEPT !.pos = w.pos + 1, !.trail = trail,
                              !.ph = PhaseAfter(trail, w.done)]
  BY TypedState DEF Superstep, At, Ended
<1>2. w.pos \in 0..(Steps - 1) /\ w.trail \in Seq(Fingerprints) /\ Len(w.trail) \in Nat
  BY <1>1, WorkTypes, ExecutionAssumption
<1> HIDE DEF trail
<1>3. /\ work'[e].base = w.base /\ work'[e].offset = w.offset /\ work'[e].done = w.done
      /\ work'[e].pos = w.pos + 1 /\ work'[e].trail = trail
      /\ work'[e].ph = PhaseAfter(trail, w.done)
  BY <1>1 DEF Work
<1>4. CASE w.pos + 1 = PauseAt
  <2>1. trail = w.trail /\ Events(w.pos + 1) = Events(w.pos)
    BY <1>2, <1>4, EventsGrow DEF trail
  <2>2. QED
    BY <1>1, <1>2, <1>3, <2>1 DEF Ordered, PhaseAfter
<1>5. CASE w.pos + 1 # PauseAt
  <2> DEFINE x == Event(w.pos + 1, e)
  <2>1. trail = Append(w.trail, x)
    BY <1>5 DEF trail
  <2>2. Events(w.pos + 1) = Events(w.pos) + 1 /\ Nth(Events(w.pos) + 1) = w.pos + 1
    BY <1>2, <1>5, EventsGrow
  <2>3. x.step = w.pos + 1
    BY DEF Event
  <2> HIDE DEF x
  <2>4. /\ Len(trail) = Len(w.trail) + 1 /\ trail[Len(w.trail) + 1] = x
        /\ \A i \in 1..Len(w.trail) : trail[i] = w.trail[i]
    BY <1>2, <2>1
  <2>5. ASSUME Ordered(w) PROVE Ordered(w)'
    <3>1. Len(w.trail) = Events(w.pos) /\ \A i \in 1..Len(w.trail) : w.trail[i].step = Nth(i)
      BY <2>5 DEF Ordered
    <3>2. Len(trail) = Events(w.pos + 1)
      BY <2>2, <2>4, <3>1
    <3>3. \A i \in 1..Len(trail) : trail[i].step = Nth(i)
      <4> TAKE i \in 1..Len(trail)
      <4>1. CASE i \in 1..Len(w.trail)
        BY <2>4, <3>1, <4>1
      <4>2. CASE i = Len(w.trail) + 1
        BY <2>2, <2>3, <2>4, <3>1, <4>2
      <4>3. QED
        BY <1>2, <2>4, <4>1, <4>2
    <3>4. QED
      BY <1>3, <3>2, <3>3 DEF Ordered
  <2>6. Len(trail) \in Nat /\ Len(w.trail) <= Len(trail)
    BY <1>2, <2>4
  <2>7. QED
    BY <1>1, <1>2, <1>3, <2>4, <2>5, <2>6 DEF PhaseAfter
<1>6. QED
  BY <1>4, <1>5

LEMMA StillUnmoved ==
  ASSUME IInv, [Next]_vars, ~moved' PROVE ~moved
<1>1. CASE moved' = moved
  BY <1>1
<1>2. CASE \E e \in Executions : StartStream(e)
  BY <1>2, StartedAt
<1>3. QED
  BY <1>1, <1>2, MovedSteps, TypedState

(* A stream is in order and has its attempt's base.                        *)
LEMMA StreamOrdered ==
  ASSUME IInv, [Next]_vars, ~moved', NEW e \in Executions, Streams(e)'
  PROVE  Ordered(work[e])' /\ work'[e].offset = work'[e].base
<1>1. CASE StartStream(e)
  BY <1>1, StartedAt
<1>2. CASE Streams(e)
  <2>1. Ordered(work[e]) /\ work[e].offset = work[e].base
    BY <1>2, StillUnmoved DEF IInv, ContentInv, Traced
  <2>2. CASE Superstep(e)
    BY <2>1, <2>2, SuperstepTrail
  <2>3. CASE /\ work'[e].pos = work[e].pos /\ work'[e].trail = work[e].trail
             /\ work'[e].offset = work[e].offset /\ work'[e].base = work[e].base
    BY <2>1, <2>3 DEF Ordered
  <2>4. CASE StartStream(e)
    BY <2>4, StartedAt
  <2>5. QED
    BY <2>2, <2>3, <2>4, StreamsBefore
<1>3. QED
  BY <1>1, <1>2, StreamsBefore

(* Every checkpoint and every write is in order.                           *)
LEMMA StoresOrdered ==
  ASSUME IInv, [Next]_vars, ~moved'
  PROVE  /\ cp' # NoCheckpoint => Ordered(cp)'
         /\ \A t \in Tokens : \A i \in 1..Len(background'[t].queue) :
               Ordered(background'[t].queue[i])
<1> USE TypedState
<1>0. /\ ~moved
      /\ cp # NoCheckpoint => Ordered(cp)
      /\ \A t \in Tokens : \A i \in 1..Len(background[t].queue) : Ordered(background[t].queue[i])
  BY StillUnmoved DEF IInv, ContentInv
<1>1. cp' # NoCheckpoint => Ordered(cp)'
  <2>1. CASE cp' = cp
    BY <1>0, <2>1 DEF Ordered
  <2>2. ASSUME NEW t \in Tokens, 1 \in 1..Len(background[t].queue), cp' = background[t].queue[1]
        PROVE  Ordered(cp)'
    <3>1. Ordered(background[t].queue[1])
      BY <1>0, <2>2
    <3>2. QED
      BY <2>2, <3>1 DEF Ordered
  <2>3. QED
    BY <2>1, <2>2, CheckpointBecomes
<1>2. ASSUME NEW t \in Tokens, NEW i \in 1..Len(background'[t].queue)
      PROVE  Ordered(background'[t].queue[i])
  <2> DEFINE q == background[t].queue
             r == background'[t].queue
  <2>0. q \in Seq(Checkpoints) /\ Len(q) \in Nat /\ \A k \in 1..Len(q) : Ordered(q[k])
    BY <1>0
  <2>1. CASE Dwindles(t)
    <3>1. Shrinks(q, r)
      BY <2>1 DEF Dwindles
    <3>2. \E k \in 1..Len(q) : r[i] = q[k]
      <4> HIDE DEF q, r
      <4>1. QED
        BY <1>2, <2>0, <3>1, Shrunk DEF r
    <3>3. QED
      BY <2>0, <3>2
  <2>2. ASSUME NEW e \in Executions, token[e] = t, StartStream(e) \/ Superstep(e)
        PROVE  Ordered(r[i])
    <3>0. Ordered(work[e])'
      <4>1. CASE StartStream(e)
        BY <4>1, StartedAt
      <4>2. CASE Superstep(e)
        <5>1. Streams(e)
          BY <4>2, PutAppends
        <5>2. Ordered(work[e])
          BY <1>0, <5>1 DEF IInv, ContentInv, Traced
        <5>3. QED
          BY <4>2, <5>2, SuperstepTrail
      <4>3. QED
        BY <2>2, <4>1, <4>2
    <3>1. CASE UNCHANGED background
      BY <1>2, <2>0, <3>1
    <3>2. ASSUME NEW d \in Checkpoints, r = Append(q, d), StateOf(d, work'[e])
          PROVE  Ordered(r[i])
      <4>1. /\ Len(r) = Len(q) + 1 /\ r[Len(q) + 1] = d
            /\ \A k \in 1..Len(q) : r[k] = q[k]
        BY <2>0, <3>2, AppendProperties
      <4>2. Ordered(d)
        BY <3>0, <3>2 DEF StateOf, Ordered
      <4> HIDE DEF q, r
      <4>3. QED
        BY <1>2, <2>0, <4>1, <4>2 DEF r
    <3>3. QED
      BY <2>2, <3>1, <3>2, PutAppends
  <2>3. QED
    BY <2>1, <2>2, WriteSteps
<1>3. QED
  BY <1>1, <1>2

(* `existing` is the checkpoint that was there when it was read.           *)
LEMMA SeenBefore ==
  ASSUME IInv, [Next]_vars, NEW e \in Executions, work'[e].seen # NoCheckpoint
  PROVE  /\ work'[e].seen = work[e].seen \/ (Load(e) /\ work'[e].seen = cp)
         /\ pc[e] = "active" /\ pc'[e] = "active"
<1> USE TypedState
<1>0. pc'[e] = "active" /\ work \in [Executions -> Work]
  BY CallsKept DEF CallsInv, Local
<1>1. CASE Kept(e)
  BY <1>0, <1>1 DEF Kept, Work
<1>2. CASE Outside(e) \/ Ends(e) \/ Concludes(e)
  BY <1>0, <1>2 DEF Outside, Ends, Concludes
<1>3. CASE Enter(e)
  <2>1. work'[e].seen = work[e].seen /\ pc[e] = "entering"
    BY <1>3 DEF Enter, Own!Enter, Work
  <2>2. QED
    BY <2>1 DEF Local
<1>4. CASE Proceeds(e)
  <2>0. pc[e] = "active"
    BY <1>4, ProceedsFrom
  <2>1. CASE Load(e)
    BY <1>0, <2>0, <2>1 DEF Load, Work
  <2>2. CASE FreshOffset(e) \/ ClearFence(e) \/ Clear(e) \/ AwaitNext(e)
    BY <1>0, <2>0, <2>2 DEF FreshOffset, ClearFence, Clear, AwaitNext, Work
  <2>3. CASE ReconcileAccepts(e) /\ ~Replays(e)
    BY <1>0, <2>0, <2>3 DEF ReconcileAccepts, Work
  <2>4. CASE StartStream(e)
    BY <2>4 DEF StartStream, Work
  <2>5. CASE Superstep(e)
    <3>1. work'[e].seen = work[e].seen
      BY <2>5 DEF Superstep, Work
    <3>2. QED
      BY <1>0, <2>0, <3>1
  <2>6. CASE AppendEvents(e)
    <3>1. work'[e].seen = work[e].seen
      BY <2>6 DEF AppendEvents, Work
    <3>2. QED
      BY <1>0, <2>0, <3>1
  <2>7. QED
    BY <1>4, <2>1, <2>2, <2>3, <2>4, <2>5, <2>6 DEF Proceeds
<1>5. QED
  BY <1>1, <1>2, <1>3, <1>4, OneCallMoves

LEMMA SeenOrdered ==
  ASSUME IInv, [Next]_vars, ~moved', NEW e \in Executions, work'[e].seen # NoCheckpoint
  PROVE  Ordered(work'[e].seen)
<1>1. /\ cp # NoCheckpoint => Ordered(cp)
      /\ work[e].seen # NoCheckpoint => Ordered(work[e].seen)
  BY StillUnmoved DEF IInv, ContentInv
<1>2. QED
  BY <1>1, SeenBefore

(* The trail of a cursor only grows, and what it counts on are its rows.   *)
LEMMA CursorTrailGrows ==
  ASSUME IInv, [Next]_vars, ~moved', NEW e \in Executions, HasCursor(e)',
         ~(ReconcileAccepts(e) /\ ~Replays(e))
  PROVE  LET old == CursorTrail(e)
             new == CursorTrail(e)'
         IN /\ HasCursor(e) /\ work'[e].base = work[e].base
            /\ work'[e].done = work[e].done \/ (AppendEvents(e) /\ new = work[e].trail)
            /\ Len(old) \in Nat /\ Len(new) \in Nat /\ Len(old) <= Len(new)
            /\ \A i \in 1..Len(old) : new[i] = old[i]
<1> USE TypedState
<1>0. /\ HasCursor(e) /\ pc[e] = "active" /\ work'[e].base = work[e].base
      /\ work'[e].done = work[e].done \/ AppendEvents(e)
      /\ work'[e].ph = "start" => work[e].ph = "start" /\ work'[e].seen = work[e].seen
      /\ work'[e] \in Work /\ pc'[e] = "active"
  BY CursorBefore, TypesKept DEF HasCursor, TypeInv
<1>1. Len(CursorTrail(e)) \in Nat /\ Len(CursorTrail(e)') \in Nat
  BY <1>0, WorkTypes, TrailTypes DEF CursorTrail
<1>2. CASE work'[e].ph = "start"
  <2>1. CursorTrail(e)' = CursorTrail(e)
    BY <1>0, <1>2 DEF CursorTrail, TrailOf
  <2>2. ~AppendEvents(e)
    <3>1. ~(work[e].ph = "append")
      BY <1>0, <1>2
    <3>2. QED
      BY <3>1 DEF AppendEvents, At
  <2>3. QED
    BY <1>0, <1>1, <2>1, <2>2
<1>3. CASE work'[e].ph # "start"
  <2>1. Streams(e)' /\ CursorTrail(e)' = work'[e].trail
    BY <1>0, <1>3 DEF HasCursor, Streams, CursorTrail, Streaming
  <2>2. CASE StartStream(e)
    <3>1. CursorTrail(e) = work'[e].trail /\ work'[e].done = work[e].done
      BY <2>2, StartedAt DEF CursorTrail
    <3>2. QED
      BY <1>0, <1>1, <2>1, <3>1
  <2>3. CASE Superstep(e)
    <3>1. CursorTrail(e) = work[e].trail /\ work'[e].done = work[e].done
      BY <2>3, SuperstepTrail DEF CursorTrail
    <3>2. QED
      BY <1>0, <2>1, <2>3, <3>1, SuperstepTrail
  <2>4. CASE Streams(e) /\ work'[e].trail = work[e].trail
    <3>1. CursorTrail(e) = work[e].trail
      BY <2>4 DEF Streams, CursorTrail
    <3>2. QED
      BY <1>0, <1>1, <2>1, <2>4, <3>1
  <2>5. QED
    BY <2>1, <2>2, <2>3, <2>4, StreamsBefore
<1>4. QED
  BY <1>2, <1>3

RecordedNext(q, x) == \E r \in rows' : r.seq = q /\ r.step = x.step /\ r.by = x.by

LEMMA RecordsStay ==
  ASSUME IInv, [Next]_vars, NEW q, NEW x, RecordedAs(q, x)
  PROVE  RecordedNext(q, x)
<1>1. rows \subseteq rows'
  BY RowSteps, Appended
<1>2. QED
  BY <1>1, SMTT(30) DEF RecordedAs, RecordedNext

LEMMA RecordsCome ==
  ASSUME IInv, [Next]_vars, NEW e \in Executions, AppendEvents(e),
         NEW i \in (work[e].done + 1)..Len(work[e].trail)
  PROVE  RecordedNext(work[e].base + i - 1, work[e].trail[i])
<1>1. \A k \in (work[e].done + 1)..Len(work[e].trail) : \E r \in rows' :
         /\ r.seq = work[e].base + k - 1
         /\ r.step = work[e].trail[k].step /\ r.by = work[e].trail[k].by
  BY Appended
<1>2. QED
  BY <1>1, SMTT(30) DEF RecordedNext

LEMMA RowsCome ==
  ASSUME IInv, [Next]_vars, NEW e \in Executions, AppendEvents(e), NEW r \in rows', r \notin rows
  PROVE  \E i \in (work[e].done + 1)..Len(work[e].trail) :
            r.seq = work[e].base + i - 1 /\ r.step = work[e].trail[i].step
<1>1. r \in rows \/ \E i \in (work[e].done + 1)..Len(work[e].trail) :
               /\ r.seq = work[e].base + i - 1
               /\ r.step = work[e].trail[i].step /\ r.by = work[e].trail[i].by
  BY Appended
<1>2. QED
  BY <1>1, SMTT(30)

LEMMA TracedKept ==
  ASSUME IInv, [Next]_vars, ~moved', NEW e \in Executions, HasCursor(e)'
  PROVE  /\ work'[e].done <= Len(CursorTrail(e)')
         /\ Own!Owns(e)' => \A i \in 1..work'[e].done :
               RecordedNext(work'[e].base + i - 1, CursorTrail(e)'[i])
<1> USE TypedState
<1>0. work'[e] \in Work
  BY TypesKept DEF TypeInv
<1>1. CASE ReconcileAccepts(e) /\ ~Replays(e)
  <2> DEFINE w == work[e]
             trail == TrailOf(w.seen)
             d == NextSeq - w.base
  <2>1. /\ Len(trail) \in Nat /\ w.base \in Nat /\ w.base <= NextSeq
        /\ NextSeq <= w.base + Len(trail) /\ RowsInv /\ NextSeq \in Nat /\ rows' = rows
        /\ ~Conflicts(w.base, trail) /\ w \in Work
        /\ work'[e] = [w EXCEPT !.ph = "start", !.done = d]
    BY <1>1, Accepted
  <2> HIDE DEF d
  <2>2. /\ work'[e].ph = "start" /\ work'[e].done = d /\ work'[e].base = w.base
        /\ work'[e].seen = w.seen
    BY <2>1 DEF Work
  <2>3. CursorTrail(e)' = trail
    BY <2>2 DEF CursorTrail, TrailOf
  <2> HIDE DEF trail
  <2>4. d <= Len(trail) /\ d \in Nat
    BY <2>1 DEF d
  <2>5. ASSUME NEW i \in 1..d PROVE RecordedNext(w.base + i - 1, trail[i])
    <3>1. i \in 1..Len(trail) /\ w.base + i - 1 \in 0..(NextSeq - 1)
      BY <2>1, <2>4 DEF d
    <3>2. Recorded(w.base + i - 1)
      BY <2>1, <3>1 DEF RowsInv
    <3>3. RecordedAs(w.base + i - 1, trail[i])
      BY <2>1, <3>1, <3>2 DEF Conflicts
    <3>4. QED
      BY <3>3, RecordsStay
  <2>6. QED
    BY <2>2, <2>3, <2>4, <2>5
<1>2. CASE ~(ReconcileAccepts(e) /\ ~Replays(e))
  <2> DEFINE old == CursorTrail(e)
             new == CursorTrail(e)'
             b == work[e].base
             d == work[e].done
  <2>1. /\ HasCursor(e) /\ work'[e].base = b
        /\ work'[e].done = d \/ (AppendEvents(e) /\ new = work[e].trail)
        /\ Len(old) \in Nat /\ Len(new) \in Nat /\ Len(old) <= Len(new)
        /\ \A i \in 1..Len(old) : new[i] = old[i]
        /\ d \in Nat /\ b \in Nat
    BY <1>2, CursorTrailGrows, WorkTypes
  <2>2. /\ d <= Len(old)
        /\ Own!Owns(e) => \A i \in 1..d : RecordedAs(b + i - 1, old[i])
    BY <2>1, StillUnmoved DEF IInv, ContentInv, Traced
  <2> HIDE DEF old, new, b, d
  <2>3. ASSUME Own!Owns(e)', NEW i \in 1..d PROVE RecordedNext(b + i - 1, new[i])
    <3>1. Own!Owns(e)
      BY <2>3, OwnerAlone
    <3>2. i \in 1..Len(old)
      BY <2>1, <2>2
    <3>3. RecordedAs(b + i - 1, new[i])
      BY <2>1, <2>2, <3>1, <3>2
    <3>4. QED
      BY <3>3, RecordsStay
  <2>4. CASE work'[e].done = d
    <3>1. d <= Len(new)
      BY <2>1, <2>2
    <3>2. QED
      BY <2>1, <2>3, <2>4, <3>1 DEF new
  <2>5. CASE AppendEvents(e) /\ new = work[e].trail
    <3>1. work'[e].done = Len(new)
      <4>1. work'[e] = [work[e] EXCEPT !.done = Len(work[e].trail), !.ph = "appended"]
            /\ work[e] \in Work
        BY <2>5, Appended
      <4>2. QED
        BY <2>5, <4>1 DEF Work
    <3>2. ASSUME Own!Owns(e)', NEW i \in 1..Len(new) PROVE RecordedNext(b + i - 1, new[i])
      <4>1. CASE i \in 1..d
        BY <2>3, <3>2, <4>1
      <4>2. CASE i \in (d + 1)..Len(new)
        <5>1. i \in (work[e].done + 1)..Len(work[e].trail)
          BY <2>5, <4>2 DEF d
        <5>2. RecordedNext(work[e].base + i - 1, work[e].trail[i])
          BY <2>5, <5>1, RecordsCome
        <5>3. QED
          BY <2>5, <5>2 DEF b
      <4>3. QED
        BY <2>1, <3>2, <4>1, <4>2
    <3>3. QED
      BY <2>1, <3>1, <3>2 DEF new
  <2>6. QED
    BY <2>1, <2>4, <2>5
<1>3. QED
  BY <1>1, <1>2

LEMMA AttemptsKept == IInv /\ [Next]_vars => AttemptsInOrder'
<1> SUFFICES ASSUME IInv, [Next]_vars, ~moved', NEW r \in rows'
             PROVE  \/ \A s \in EventSteps : r.step <= s
                    \/ \E p \in rows' :
                          /\ p.seq = r.seq - 1
                          /\ p.step < r.step
                          /\ \A s \in EventSteps : ~(p.step < s /\ s < r.step)
  BY DEF AttemptsInOrder, EventSteps
<1>0. /\ ~moved
      /\ \A x \in rows : \/ \A s \in EventSteps : x.step <= s
                         \/ \E p \in rows :
                               /\ p.seq = x.seq - 1
                               /\ p.step < x.step
                               /\ \A s \in EventSteps : ~(p.step < s /\ s < x.step)
  BY StillUnmoved, SMTT(30) DEF IInv, ContentInv, AttemptsInOrder
<1>1. rows \subseteq rows'
  BY RowSteps, Appended
<1>2. CASE r \in rows
  BY <1>0, <1>1, <1>2
<1>3. CASE r \notin rows
  <2>0. PICK e \in Executions : AppendEvents(e)
    BY <1>3, RowSteps, SMTT(30)
  <2> DEFINE w == work[e]
             n == Len(w.trail)
  <2>1. /\ w.base \in Nat /\ w.done \in Nat /\ n \in Nat /\ Streams(e) /\ Own!Owns(e)
        /\ HasCursor(e) /\ CursorTrail(e) = w.trail
    BY <2>0, Appended DEF Streams, HasCursor, Streaming, CursorTrail
  <2>2. PICK i \in (w.done + 1)..n : r.seq = w.base + i - 1 /\ r.step = w.trail[i].step
    BY <1>3, <2>0, RowsCome
  <2>3. /\ \A k \in 1..n : w.trail[k].step = Nth(k)
        /\ \A k \in 1..w.done : RecordedAs(w.base + k - 1, w.trail[k])
    BY <1>0, <2>1 DEF IInv, ContentInv, Traced, Ordered
  <2>4. \A k \in 1..n : \E p \in rows' : p.seq = w.base + k - 1 /\ p.step = Nth(k)
    <3> TAKE k \in 1..n
    <3>1. CASE k \in 1..w.done
      BY <1>1, <2>3, <3>1 DEF RecordedAs
    <3>2. CASE k \in (w.done + 1)..n
      <4>1. RecordedNext(w.base + k - 1, w.trail[k])
        BY <2>0, <3>2, RecordsCome
      <4>2. QED
        BY <2>3, <4>1 DEF RecordedNext
    <3>3. QED
      BY <2>1, <3>1, <3>2
  <2>5. i \in 1..n /\ r.step = Nth(i) /\ i \in Nat \ {0}
    BY <2>1, <2>2, <2>3
  <2>6. CASE i = 1
    BY <2>5, <2>6, NthInOrder
  <2>7. CASE i # 1
    <3>1. i > 1 /\ i - 1 \in 1..n
      BY <2>1, <2>5, <2>7
    <3>2. PICK p \in rows' : p.seq = w.base + (i - 1) - 1 /\ p.step = Nth(i - 1)
      BY <2>4, <3>1
    <3>3. p.seq = r.seq - 1
      <4>1. \A b, k \in Nat : b + (k - 1) - 1 = (b + k - 1) - 1
        OBVIOUS
      <4>2. w.base + (i - 1) - 1 = (w.base + i - 1) - 1
        BY <2>1, <2>5, <4>1
      <4>3. QED
        BY <2>2, <3>2, <4>2
    <3>4. p.step < r.step
      BY <2>5, <3>1, <3>2, NthGrows
    <3>5. \A s \in EventSteps : ~(p.step < s /\ s < r.step)
      BY <2>5, <3>1, <3>2, NthInOrder
    <3>6. QED
      BY <3>3, <3>4, <3>5
  <2>8. QED
    BY <2>6, <2>7
<1>4. QED
  BY <1>2, <1>3

LEMMA ContentKept == IInv /\ [Next]_vars => ContentInv'
<1> SUFFICES ASSUME IInv, [Next]_vars PROVE ContentInv'
  OBVIOUS
<1>1. ASSUME ~moved', NEW e \in Executions PROVE Traced(e)'
  BY <1>1, StreamOrdered, TracedKept DEF Traced, RecordedNext, RecordedAs
<1>2. ASSUME ~moved' PROVE
         /\ cp' # NoCheckpoint => Ordered(cp)'
         /\ \A t \in Tokens : \A i \in 1..Len(background'[t].queue) :
               Ordered(background'[t].queue[i])
         /\ \A e \in Executions : work'[e].seen # NoCheckpoint => Ordered(work'[e].seen)
  BY <1>2, StoresOrdered, SeenOrdered DEF Ordered
<1>3. QED
  BY <1>1, <1>2, AttemptsKept DEF ContentInv

-----------------------------------------------------------------------------
(* What the lock adds                                                      *)

\* Inside execute(), or about to record what it returned.
Executing(e) == pc[e] \in {"active", "committing"}

LEMMA LockFacts ==
  ASSUME IInv, ~LockMayDrop
  PROVE  /\ \A e, f \in Executions : Executing(e) /\ Executing(f) => e = f
         /\ \A e \in Executions : Executing(e) => NoneAfter(token[e])
         /\ \A e \in Executions : work[e].seen # NoCheckpoint => cp # NoCheckpoint
         /\ \A e \in Executions : pc[e] = "committing" => Settled(token[e], outcome[e])
         /\ status \in Own!Outcomes =>
               Settled(issued, status) /\ \A e \in Executions : ~Executing(e)
  BY ProtocolFacts DEF IInv, LockInv, Executing, Guarded

LEMMA ExecutingBefore ==
  ASSUME IInv, [Next]_vars, NEW e \in Executions, Executing(e)'
  PROVE  /\ Enter(e) \/ (Executing(e) /\ token'[e] = token[e])
         /\ pc'[e] = "committing" =>
               Concludes(e) \/ (pc[e] = "committing" /\ outcome'[e] = outcome[e])
<1> USE TypedState DEF Executing
<1>1. CASE Kept(e)
  BY <1>1 DEF Kept
<1>2. CASE Outside(e)
  BY <1>2 DEF Outside
<1>3. CASE Ends(e)
  BY <1>3 DEF Ends
<1>4. CASE Concludes(e)
  BY <1>4 DEF Concludes, ReconcileAccepts, Finish, At
<1>5. CASE Enter(e)
  <2>1. pc \in [Executions -> Own!Phases]
    BY ProtocolFacts
  <2>2. pc'[e] = "active"
    BY <1>5, <2>1 DEF Enter, Own!Enter, Own!Goto
  <2>3. QED
    BY <1>5, <2>2
<1>6. CASE Proceeds(e)
  BY <1>6, ProceedsFrom
<1>7. QED
  BY <1>1, <1>2, <1>3, <1>4, <1>5, <1>6, OneCallMoves

(* The steps that empty the thread, append or add a write are those of a   *)
(* call inside execute().                                                  *)
LEMMA ActiveSteps ==
  ASSUME IInv, NEW e \in Executions,
         Clear(e) \/ AppendEvents(e) \/ StartStream(e) \/ Superstep(e)
  PROVE  pc[e] = "active" /\ pc' = pc /\ status' = status /\ (Clear(e) => work[e].ph = "cleared")
  BY DEF Clear, AppendEvents, StartStream, Superstep, At, Own!Fence, Own!execVars, ownVars

LEMMA NoneAfterKept ==
  ASSUME IInv, [Next]_vars, ~LockMayDrop, NEW e \in Executions, Executing(e)'
  PROVE  NoneAfter(token[e])'
<1> USE TypedState
<1>0. /\ background' \in [Tokens -> Writes] /\ cp' \in Checkpoints \cup {NoCheckpoint}
      /\ issued \in Nat
  BY TypesKept DEF TypeInv
<1>1. CASE Enter(e)
  <2>1. token'[e] = issued /\ cp' = cp /\ background' = background
    <3>1. Own!Owns(e) /\ token' = token /\ cp' = cp /\ background' = background
      BY <1>1 DEF Enter, Own!Enter
    <3>2. QED
      BY <3>1, ProtocolFacts
  <2>2. \A t \in Tokens : t > issued => background[t].queue = <<>>
    BY DEF WritesInv, Rising
  <2>3. QED
    BY <2>1, <2>2 DEF NoneAfter, WritesInv
<1>2. CASE Executing(e) /\ token'[e] = token[e]
  <2>1. /\ \A u \in Tokens : u > token[e] => background[u].queue = <<>>
        /\ cp # NoCheckpoint => cp.by <= token[e]
    BY <1>2, LockFacts DEF NoneAfter
  <2>2. ASSUME NEW u \in Tokens, u > token[e] PROVE background'[u].queue = <<>>
    <3>1. background[u].queue = <<>>
      BY <2>1, <2>2
    <3>2. CASE Dwindles(u)
      BY <3>1, <3>2 DEF Dwindles, Shrinks
    <3>3. ASSUME NEW f \in Executions, token[f] = u, StartStream(f) \/ Superstep(f) PROVE FALSE
      <4>1. f = e
        BY <1>2, <3>3, ActiveSteps, LockFacts DEF Executing
      <4>2. QED
        BY <2>2, <3>3, <4>1
    <3>4. QED
      BY <3>2, <3>3, WriteSteps
  <2>3. cp' # NoCheckpoint => cp'.by <= token[e]
    <3>1. ASSUME NEW t \in Tokens, background[t].queue # <<>>, cp'.by = t PROVE cp'.by <= token[e]
      <4>1. ~(t > token[e]) /\ t \in Nat /\ token[e] \in Nat
        BY <2>1, <3>1
      <4>2. QED
        BY <3>1, <4>1
    <3>2. QED
      BY <2>1, <3>1, CheckpointBecomes
  <2>4. QED
    BY <1>2, <2>2, <2>3 DEF NoneAfter
<1>3. QED
  BY <1>1, <1>2, ExecutingBefore

LEMMA SeenStays ==
  ASSUME IInv, [Next]_vars, ~LockMayDrop, NEW e \in Executions, work'[e].seen # NoCheckpoint
  PROVE  cp' # NoCheckpoint
<1> USE TypedState
<1>1. CASE Load(e) /\ work'[e].seen = cp
  BY <1>1 DEF Load
<1>2. CASE work'[e].seen = work[e].seen
  <2>1. cp # NoCheckpoint /\ work[e].ph # "cleared" /\ pc[e] = "active"
    BY <1>2, LockFacts, SeenBefore DEF Local
  <2>2. ASSUME NEW f \in Executions, Clear(f) PROVE FALSE
    <3>1. pc[f] = "active" /\ work[f].ph = "cleared"
      BY <2>2, ActiveSteps
    <3>2. f = e
      BY <2>1, <3>1, LockFacts DEF Executing
    <3>3. QED
      BY <2>1, <3>1, <3>2
  <2>3. QED
    BY <2>1, <2>2, CheckpointBecomes, ExecutionAssumption
<1>3. QED
  BY <1>1, <1>2, SeenBefore

(* Without a call inside execute(), what is settled stays so.              *)
LEMMA SettledStays ==
  ASSUME IInv, [Next]_vars, NEW t \in Tokens, NEW s, Settled(t, s),
         \A f \in Executions : pc[f] # "active"
  PROVE  Settled(t, s)'
<1> USE TypedState
<1>0. \A f \in Executions :
         ~(Clear(f) \/ AppendEvents(f) \/ StartStream(f) \/ Superstep(f))
  BY ActiveSteps
<1>1. background'[t].queue = <<>>
  <2>1. Dwindles(t)
    BY <1>0, WriteSteps
  <2>2. QED
    BY <2>1 DEF Dwindles, Shrinks, Settled
<1>2. cp' # NoCheckpoint /\ (cp' = cp \/ cp'.by # t)
  BY <1>0, CheckpointBecomes, ExecutionAssumption DEF Settled
<1>3. rows' = rows /\ moved' = moved
  BY <1>0, RowSteps, MovedSteps
<1>4. ASSUME cp'.by = t PROVE Good(cp, s)'
  <2>1. cp' = cp /\ Good(cp, s)
    BY <1>2, <1>4 DEF Settled
  <2>2. NextSeq' = NextSeq /\ (Conflicts(cp.base, cp.trail)' <=> Conflicts(cp.base, cp.trail))
    BY <1>3, <2>1 DEF NextSeq, Conflicts, Recorded, RecordedAs
  <2>3. QED
    BY <1>3, <2>1, <2>2 DEF Good, StopOf
<1>5. QED
  BY <1>1, <1>2, <1>4 DEF Settled

(* What execute() returns with is settled.                                 *)
LEMMA FinishIsGood ==
  ASSUME IInv, NEW e \in Executions, Finish(e), NEW s, cp.pos = StopOf(s), cp.by = token[e]
  PROVE  Good(cp, s)
<1> USE TypedState
<1> DEFINE w == work[e]
           n == Len(w.trail)
<1>1. /\ pc[e] = "active" /\ w.ph = "stream" /\ Streams(e) /\ HasCursor(e)
      /\ CursorTrail(e) = w.trail /\ Own!Owns(e) /\ ~w.broken
      /\ background[token[e]].queue = <<>> /\ cp # NoCheckpoint
  BY DEF Finish, At, Streams, HasCursor, Streaming, CursorTrail, Drained, Own!GraphReturns
<1>2. /\ cp.base = w.offset /\ cp.trail = w.trail
  BY <1>1 DEF IInv, LatestInv, Latest, StateOf
<1>3. w.base \in Nat /\ w.done \in Nat /\ n \in Nat /\ NextSeq = w.base + w.done /\ n <= w.done
  BY <1>1, WorkTypes DEF IInv, NumbersInv, CursorInv, Local
<1>4. ASSUME ~moved PROVE cp.base + Len(cp.trail) = NextSeq /\ ~Conflicts(cp.base, cp.trail)
  <2>1. /\ w.offset = w.base /\ w.done <= n
        /\ \A i \in 1..w.done : RecordedAs(w.base + i - 1, w.trail[i])
    BY <1>1, <1>4 DEF IInv, ContentInv, Traced
  <2>2. w.done = n
    BY <1>3, <2>1
  <2>3. QED
    BY <1>2, <1>3, <2>1, <2>2 DEF Conflicts
<1>5. QED
  BY <1>4 DEF Good

LEMMA ConclusionSettled ==
  ASSUME IInv, ~LockMayDrop, NEW e \in Executions, Concludes(e)
  PROVE  Settled(token[e], outcome[e])'
<1> USE TypedState
<1>1. /\ UNCHANGED <<cp, rows, background, moved, token>> /\ pc[e] = "active"
  BY DEF Concludes, ReconcileAccepts, Finish, At
<1>2. CASE ReconcileAccepts(e) /\ Replays(e)
  <2>1. Early(e) /\ work[e].seen # NoCheckpoint
    BY <1>1, <1>2 DEF ReconcileAccepts, At, Early, Starting, Replays
  <2>2. Unwritten(token[e])
    BY <2>1 DEF WritesInv
  <2>3. cp # NoCheckpoint
    BY <2>1, LockFacts
  <2>4. QED
    BY <1>1, <2>2, <2>3 DEF Unwritten, Settled
<1>3. CASE Finish(e)
  <2>1. background[token[e]].queue = <<>> /\ cp # NoCheckpoint
    BY <1>3 DEF Finish, Drained
  <2>2. cp.pos = StopOf(outcome'[e])
    <3>1. outcome \in [Executions -> Own!Outcomes \cup {Own!None}]
      BY ProtocolFacts
    <3>2. \/ cp.pos = Steps /\ \E s \in Own!Terminal : outcome'[e] = s
          \/ cp.pos = PauseAt /\ outcome'[e] = "awaiting_confirmation"
      BY <1>3, <3>1 DEF Finish, Own!GraphReturns
    <3>3. QED
      BY <3>2 DEF StopOf, Own!Terminal
  <2>3. ASSUME cp.by = token[e] PROVE Good(cp, outcome[e])'
    <3>1. Good(cp, outcome'[e])
      BY <1>3, <2>2, <2>3, FinishIsGood
    <3>2. NextSeq' = NextSeq /\ (Conflicts(cp.base, cp.trail)' <=> Conflicts(cp.base, cp.trail))
      BY <1>1 DEF NextSeq, Conflicts, Recorded, RecordedAs
    <3>3. QED
      BY <1>1, <3>1, <3>2 DEF Good, StopOf
  <2>4. QED
    BY <1>1, <2>1, <2>3 DEF Settled
<1>4. QED
  BY <1>2, <1>3 DEF Concludes

LEMMA CommittingSettled ==
  ASSUME IInv, [Next]_vars, ~LockMayDrop, NEW e \in Executions, pc'[e] = "committing"
  PROVE  Settled(token[e], outcome[e])'
<1>1. CASE Concludes(e)
  BY <1>1, ConclusionSettled
<1>2. CASE pc[e] = "committing" /\ outcome'[e] = outcome[e]
  <2>1. token'[e] = token[e] /\ token[e] \in Tokens
    <3>1. ~Enter(e)
      BY <1>2 DEF Enter, Own!Enter
    <3>2. QED
      BY <1>2, <3>1, ExecutingBefore, TypedState DEF Executing
  <2>2. \A f \in Executions : pc[f] # "active"
    BY <1>2, LockFacts DEF Executing
  <2>3. Settled(token[e], outcome[e])
    BY <1>2, LockFacts
  <2>4. ASSUME NEW u \in Tokens, NEW v, Settled(u, v)
        PROVE  background'[u].queue = <<>> /\ cp' # NoCheckpoint /\ (cp'.by = u => Good(cp, v)')
    BY <2>2, <2>4, SettledStays DEF Settled
  <2>5. QED
    BY <1>2, <2>1, <2>3, <2>4 DEF Settled
<1>3. QED
  BY <1>1, <1>2, ExecutingBefore DEF Executing

LEMMA OutcomeSettled ==
  ASSUME IInv, [Next]_vars, ~LockMayDrop, status' \in Own!Outcomes
  PROVE  Settled(issued, status)' /\ \A e \in Executions : ~Executing(e)'
<1> USE TypedState
<1>0. issued' = issued
  <2>1. Ownership!TokenMarksRunning' /\ issued' \in 0..MaxClaims
    BY ProtocolKept DEF IInv, ProtocolInv, Ownership!IInv, Ownership!TypeOK
  <2>2. rowToken' = Own!NoToken
    BY <2>1 DEF Ownership!TokenMarksRunning, Ownership!NoToken, Own!NoToken, Own!Outcomes
  <2>3. QED
    BY <2>2, TokenSteps, ExecutionAssumption DEF Own!NoToken
<1>1. \A e \in Executions : ~Enter(e)
  BY DEF Enter, Own!Enter, Own!Owns, Own!Outcomes
<1>2. CASE status' = status
  <2>1. Settled(issued, status) /\ \A e \in Executions : ~Executing(e)
    BY <1>2, LockFacts
  <2>2. Settled(issued, status)'
    <3>1. issued \in Tokens
      <4>1. cp # NoCheckpoint => cp.by \in Tokens /\ cp.by <= issued
        BY CheckpointTypes DEF WritesInv
      <4>2. QED
        BY <2>1, <4>1, ExecutionAssumption DEF Settled, Tokens
    <3>2. ASSUME NEW u \in Tokens, NEW v, Settled(u, v)
          PROVE  background'[u].queue = <<>> /\ cp' # NoCheckpoint /\ (cp'.by = u => Good(cp, v)')
      BY <2>1, <3>2, SettledStays DEF Settled, Executing
    <3>3. QED
      BY <1>0, <1>2, <2>1, <3>1, <3>2 DEF Settled
  <2>3. QED
    BY <1>1, <2>1, <2>2, ExecutingBefore
<1>3. CASE status' # status
  <2>1. [Ownership!Next]_Ownership!vars /\ Ownership!IInv /\ status' \in Ownership!Outcomes
    BY <1>3, OwnershipSteps DEF LateFence, IInv, ProtocolInv, Own!Outcomes, Ownership!Outcomes
  <2>2. PICK e \in Executions :
           Ownership!Commit(e) /\ Ownership!Owns(e) /\ status' = outcome[e]
    BY <1>3, <2>1, Ownership!OutcomeIsCommitted, ExecutionAssumption
  <2>3. /\ pc[e] = "committing" /\ pc'[e] = "releasing" /\ token[e] = issued /\ issued \in Tokens
    <3>1. pc \in [Executions -> Own!Phases] /\ Own!Owns(e)
      BY <2>2, ProtocolFacts, SameFence
    <3>2. QED
      BY <2>2, <3>1, ProtocolFacts DEF Ownership!Commit, Ownership!Goto
  <2>4. \A f \in Executions : Executing(f) => f = e
    BY <2>3, LockFacts DEF Executing
  <2>5. \A f \in Executions : pc[f] # "active"
    BY <2>3, <2>4 DEF Executing
  <2>6. Settled(issued, outcome[e])
    BY <2>3, LockFacts
  <2>7. Settled(issued, status)'
    <3>1. ASSUME NEW u \in Tokens, NEW v, Settled(u, v)
          PROVE  background'[u].queue = <<>> /\ cp' # NoCheckpoint /\ (cp'.by = u => Good(cp, v)')
      BY <2>5, <3>1, SettledStays DEF Settled
    <3>2. QED
      BY <1>0, <2>2, <2>3, <2>6, <3>1 DEF Settled
  <2>8. \A f \in Executions : ~Executing(f)'
    BY <1>1, <2>3, <2>4, ExecutingBefore DEF Executing
  <2>9. QED
    BY <2>7, <2>8
<1>4. QED
  BY <1>2, <1>3

LEMMA LockKept == IInv /\ [Next]_vars => LockInv'
<1> SUFFICES ASSUME IInv, [Next]_vars, ~LockMayDrop PROVE LockInv'
  BY DEF LockInv
<1>1. \A e \in Executions : pc'[e] \in {"active", "committing"} => NoneAfter(token[e])'
  BY NoneAfterKept DEF Executing
<1>2. \A e \in Executions : work'[e].seen # NoCheckpoint => cp' # NoCheckpoint
  BY SeenStays
<1>3. \A e \in Executions : pc'[e] = "committing" => Settled(token[e], outcome[e])'
  BY CommittingSettled
<1>4. status' \in Own!Outcomes =>
         Settled(issued, status)' /\ \A e \in Executions : pc'[e] \notin {"active", "committing"}
  BY OutcomeSettled DEF Executing
<1>5. QED
  BY <1>1, <1>2, <1>3, <1>4 DEF LockInv

-----------------------------------------------------------------------------
(* The inductive invariant                                                 *)

LEMMA InitIInv == Init => IInv
<1> SUFFICES ASSUME Init PROVE IInv
  OBVIOUS
<1>1. ProtocolInv
  <2>1. Ownership!IInv
    BY SameInit, Ownership!InitIInv, ExecutionAssumption DEF Init
  <2>2. TokenCurrent
    BY DEF Init, Own!Init, TokenCurrent
  <2>3. QED
    BY <2>1, <2>2 DEF ProtocolInv
<1>2. /\ pc = [e \in Executions |-> "idle"] /\ issued = 0 /\ status = "pending"
      /\ cp = NoCheckpoint /\ rows = {} /\ work = [e \in Executions |-> Blank]
      /\ background = [t \in Tokens |-> NoWrites] /\ moved = FALSE
  BY DEF Init, Own!Init
<1>3. CallsInv
  <2>1. TypeInv
    <3>1. <<>> \in Seq(Checkpoints)
      OBVIOUS
    <3>2. NoWrites \in Writes
      BY <3>1 DEF Writes, NoWrites
    <3>3. background \in [Tokens -> Writes]
      BY <1>2, <3>2
    <3>4. work \in [Executions -> Work]
      BY <1>2, BlankWork
    <3>5. QED
      BY <1>2, <3>3, <3>4 DEF TypeInv
  <2>2. \A e \in Executions : Local(pc[e], work[e])
    BY <1>2 DEF Local, Blank
  <2>3. QED
    BY <2>1, <2>2 DEF CallsInv
<1>4. WritesInv
  BY <1>2 DEF WritesInv, Rising, NoWrites, Early, Streams
<1>5. LatestInv
  BY <1>2 DEF LatestInv, Streams
<1>6. NumbersInv
  <2>1. NextSeq = 0
    BY <1>2 DEF NextSeq
  <2>2. RowsInv
    BY <1>2, <2>1 DEF RowsInv
  <2>3. Based
    BY <1>2, <2>1 DEF Based, NoWrites, Blank
  <2>4. CursorInv
    BY <1>2 DEF CursorInv, HasCursor
  <2>5. QED
    BY <2>2, <2>3, <2>4 DEF NumbersInv
<1>7. ContentInv
  <2>1. AttemptsInOrder
    BY <1>2 DEF AttemptsInOrder
  <2>2. \A e \in Executions : work[e].seen = NoCheckpoint /\ Traced(e)
    BY <1>2 DEF Traced, Streams, HasCursor, Blank
  <2>3. QED
    BY <1>2, <2>1, <2>2 DEF ContentInv, NoWrites
<1>8. LockInv
  BY <1>2 DEF LockInv, Blank, Own!Outcomes
<1>9. QED
  BY <1>1, <1>3, <1>4, <1>5, <1>6, <1>7, <1>8 DEF IInv

LEMMA NextKeepsInv == IInv /\ [Next]_vars => IInv'
<1> SUFFICES ASSUME IInv, [Next]_vars PROVE IInv'
  OBVIOUS
<1>1. ProtocolInv'
  BY ProtocolKept DEF IInv
<1>2. CallsInv' /\ WritesInv' /\ LatestInv'
  BY CallsKept, WritesKept, LatestKept
<1>3. NumbersInv' /\ ContentInv' /\ LockInv'
  BY NumbersKept, ContentKept, LockKept
<1>4. QED
  BY <1>1, <1>2, <1>3 DEF IInv

-----------------------------------------------------------------------------
(* Theorems                                                                *)

(* The inductive invariant holds of every reachable state.                 *)
THEOREM Inductive == Spec => []IInv
  BY InitIInv, NextKeepsInv, PTL DEF Spec

(* The execution with its two stores is an execution of the ownership      *)
(* protocol, but that the fence of a checkpoint write that outlived its    *)
(* call may make updated_at young.                                         *)
THEOREM FollowsProtocol == Spec => Own!Init /\ [][Own!Next \/ LateFence]_ownVars
<1>1. Init => Own!Init
  BY DEF Init
<1>2. [Next]_vars => [Own!Next \/ LateFence]_ownVars
  BY StepOwns
<1>3. QED
  BY <1>1, <1>2, PTL DEF Spec

(* The checkpoint, the rows, the locals of every call and the writes in    *)
(* the background keep their types.                                        *)
THEOREM TypeCorrect == Spec => []TypeOK
<1>1. IInv => TypeOK
  <2> SUFFICES ASSUME IInv PROVE TypeOK
    OBVIOUS
  <2>1. Own!TypeOK
    BY DEF IInv, ProtocolInv, Ownership!IInv, Ownership!TypeOK, Own!TypeOK, Own!Statuses,
           Ownership!Statuses, Own!Outcomes, Ownership!Outcomes, Own!Ages, Ownership!Ages,
           Own!Phases, Ownership!Phases, Own!Hearts, Ownership!Hearts, Own!None, Ownership!None,
           Own!Sweeping, Ownership!Sweeping
  <2>2. TypeInv
    BY TypedState
  <2>3. \A r \in rows : r.seq \in Nat /\ [step |-> r.step, by |-> r.by] \in Fingerprints
    BY <2>2 DEF TypeInv, Fingerprints
  <2>4. work \in [Executions ->
          [ph : {"off", "load", "offset", "clear", "cleared", "reconcile", "start",
                 "append", "appended", "stream"},
           mode : {"resume", "request", "fresh"},
           seen : Checkpoints \cup {NoCheckpoint},
           base : Nat, done : Nat, from : 0..Steps, pos : 0..Steps,
           trail : Seq(Fingerprints), offset : Nat, broken : BOOLEAN]]
    <3>1. {"off"} \cup Starting \cup Streaming =
             {"off", "load", "offset", "clear", "cleared", "reconcile", "start",
              "append", "appended", "stream"}
      BY DEF Starting, Streaming
    <3>2. QED
      BY <2>2, <3>1 DEF TypeInv, Work
  <2>5. QED
    BY <2>1, <2>2, <2>3, <2>4 DEF TypeOK, TypeInv, Writes
<1>2. QED
  BY <1>1, Inductive, PTL

(* While live sessions keep the lock, one execution at a time is between   *)
(* acquiring it and its last update.  Nothing is said of the writes that   *)
(* earlier ones have left in the background.                               *)
THEOREM GraphIsExclusive == Spec => []OneGraphAtATime
<1>1. IInv => OneGraphAtATime
  BY DEF IInv, ProtocolInv, OneGraphAtATime, Own!OneGraphAtATime, Ownership!IInv,
         Ownership!LockHeld, Own!Inside, Ownership!Inside
<1>2. QED
  BY <1>1, Inductive, PTL

(* run_events is numbered 0, 1, 2, ... with no hole and no number used     *)
(* twice, even when the lock's session is lost and whatever checkpoint     *)
(* writes come late.                                                       *)
THEOREM EventsHaveNoHoles == Spec => []EventsContiguous
<1>1. ASSUME IInv PROVE EventsContiguous
  <2> SUFFICES ASSUME NEW q \in 0..(NextSeq - 1)
               PROVE  Cardinality({r \in rows : r.seq = q}) = 1
    BY DEF EventsContiguous
  <2>1. PICK p \in rows : p.seq = q
    BY <1>1 DEF IInv, NumbersInv, RowsInv, Recorded
  <2>2. {r \in rows : r.seq = q} = {p}
    BY <1>1, <2>1 DEF IInv, NumbersInv, RowsInv
  <2>3. QED
    BY <2>2, FS_Singleton
<1>2. QED
  BY <1>1, Inductive, PTL

(* Read in order, the events are attempts that follow the graph, as long   *)
(* as no write lands between the two reads of a starting attempt.          *)
THEOREM AttemptsFollowGraph == Spec => []AttemptsInOrder
<1>1. IInv => AttemptsInOrder
  BY DEF IInv, ContentInv
<1>2. QED
  BY <1>1, Inductive, PTL

(* The cursor of the owner is exact: where its next event goes, and, with  *)
(* the same exception, which events the rows before that are.              *)
THEOREM CursorStaysExact == Spec => []CursorIsExact
<1>1. ASSUME IInv PROVE CursorIsExact
  <2> SUFFICES ASSUME NEW e \in Executions, Streams(e), Own!Owns(e)
               PROVE  /\ NextSeq = work[e].base + work[e].done
                      /\ ~moved => \A i \in 1..work[e].done :
                            RecordedAs(work[e].base + i - 1, work[e].trail[i])
    BY DEF CursorIsExact
  <2>1. HasCursor(e) /\ CursorTrail(e) = work[e].trail
    BY DEF Streams, HasCursor, Streaming, CursorTrail
  <2>2. NextSeq = work[e].base + work[e].done
    BY <1>1, <2>1 DEF IInv, NumbersInv, CursorInv
  <2>3. QED
    BY <1>1, <2>1, <2>2 DEF IInv, ContentInv, Traced
<1>2. QED
  BY <1>1, Inductive, PTL

(* Once a run has an outcome, its thread has a checkpoint; if it is the    *)
(* last attempt's, the graph stops there and, with the same exception,     *)
(* run_events ends with exactly its events.                                *)
THEOREM OutcomesAreRecorded == Spec => []OutcomeIsRecorded
<1>1. ASSUME IInv PROVE OutcomeIsRecorded
  <2> SUFFICES ASSUME ~LockMayDrop, status \in Own!Outcomes
               PROVE  /\ cp # NoCheckpoint
                      /\ cp.by = issued => /\ cp.pos = StopOf(status)
                                           /\ ~moved => Reconciles(cp.base, cp.trail, TRUE)
    BY DEF OutcomeIsRecorded
  <2>1. cp # NoCheckpoint /\ (cp.by = issued => Good(cp, status))
    BY <1>1, LockFacts DEF Settled
  <2>2. ASSUME Good(cp, status), ~moved PROVE Reconciles(cp.base, cp.trail, TRUE)
    <3>1. /\ cp \in Checkpoints /\ cp.base <= NextSeq /\ RowsInv /\ NextSeq \in Nat
          /\ cp.base + Len(cp.trail) = NextSeq /\ ~Conflicts(cp.base, cp.trail)
      BY <1>1, <2>1, <2>2, TypedState DEF IInv, NumbersInv, Based, RowsInv, Good
    <3>2. cp.base \in Nat /\ cp.trail \in Seq(Fingerprints) /\ Len(cp.trail) \in Nat
      BY <3>1, CheckpointTypes
    <3>3. ~HasTrailing(cp.base, cp.trail)
      BY <3>1, <3>2 DEF HasTrailing
    <3>4. Matched(cp.base, cp.trail) = Len(cp.trail)
      <4>1. Matched(cp.base, cp.trail) = NextSeq - cp.base
        BY <3>1, <3>2, <3>3, MatchedIs
      <4>2. QED
        BY <3>1, <3>2, <4>1
    <3>5. ~HasGap(cp.base)
      BY <3>1, <3>2 DEF HasGap, RowsInv
    <3>6. QED
      BY <3>1, <3>3, <3>4, <3>5 DEF Reconciles
  <2>3. QED
    BY <2>1, <2>2 DEF Good
<1>2. QED
  BY <1>1, Inductive, PTL

(* Only the execution that owns the row appends events.                    *)
THEOREM OwnerAppends == Spec => EventsByOwner
<1>1. ASSUME IInv, [Next]_vars, rows' # rows
      PROVE  \E e \in Executions : Own!Owns(e) /\ work'[e].done # work[e].done
  <2>1. PICK e \in Executions : AppendEvents(e)
    BY <1>1, RowSteps, SMTT(30)
  <2>2. /\ Own!Owns(e) /\ work[e].done \in Nat /\ Len(work[e].trail) \in Nat
        /\ work[e].done < Len(work[e].trail)
    BY <1>1, <2>1, Appended
  <2>3. work'[e] = [work[e] EXCEPT !.done = Len(work[e].trail), !.ph = "appended"]
    BY <1>1, <2>1, Appended
  <2>4. work'[e].done = Len(work[e].trail)
    BY <1>1, <2>3, TypedState DEF Work
  <2>5. QED
    BY <2>2, <2>4
<1>2. QED
  BY <1>1, Inductive, PTL DEF Spec, EventsByOwner

(* While live sessions keep the lock, nothing but a later write of the     *)
(* owner's attempt follows a checkpoint of it.                             *)
THEOREM OwnersCheckpointIsKept == Spec => OwnersCheckpointStands
<1>1. ASSUME IInv, [Next]_vars, NEW e \in Executions,
             ~LockMayDrop, Own!Owns(e), cp # NoCheckpoint, cp.by = token[e]
      PROVE  cp' = cp \/ (cp' # NoCheckpoint /\ cp'.by = token[e] /\ cp'.pos > cp.pos)
  <2>1. /\ token[e] = issued /\ issued \in Nat /\ cp.by \in Nat /\ cp.pos \in Nat
        /\ \A f \in Executions : token[f] \in Nat /\ token[f] <= issued
    BY <1>1, ProtocolFacts, TypedState, CheckpointTypes, ExecutionAssumption
  <2>2. ASSUME NEW f \in Executions, Clear(f) PROVE FALSE
    <3>1. pc[f] = "active" /\ work[f].ph = "cleared"
      BY <1>1, <2>2, ActiveSteps
    <3>2. cp.by <= token[f]
      BY <1>1, <3>1, LockFacts DEF Executing, NoneAfter
    <3>3. cp.by # token[f]
      BY <1>1, <3>1 DEF IInv, WritesInv, Early, Starting, Unwritten
    <3>4. QED
      BY <1>1, <2>1, <3>2, <3>3
  <2>3. ASSUME NEW t \in Tokens, background[t].queue # <<>>, cp' \in Checkpoints, cp'.by = t,
               Newer(cp', cp)
        PROVE  cp' # NoCheckpoint /\ cp'.by = token[e] /\ cp'.pos > cp.pos
    <3>1. t \in Nat /\ t <= issued
      BY <1>1, <2>1, <2>3, TypedState DEF IInv, WritesInv, Rising
    <3>2. QED
      BY <1>1, <2>1, <2>3, <3>1, ExecutionAssumption DEF Newer
  <2>4. QED
    BY <1>1, <2>2, <2>3, CheckpointBecomes
<1>2. IInv /\ [Next]_vars =>
        [\A e \in Executions :
            ~LockMayDrop /\ Own!Owns(e) /\ cp # NoCheckpoint /\ cp.by = token[e] =>
               cp' = cp \/ (cp' # NoCheckpoint /\ cp'.by = token[e] /\ cp'.pos > cp.pos)]_vars
  BY <1>1
<1>3. QED
  BY <1>2, Inductive, PTL DEF Spec, OwnersCheckpointStands
=============================================================================
