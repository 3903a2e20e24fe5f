------------------------ MODULE RunOwnershipProofs ------------------------
(***************************************************************************)
(* Theorems about RunOwnership, for any number of executions, sweepers and *)
(* tokens, whether or not the lock's session may be lost.                  *)
(***************************************************************************)
EXTENDS RunOwnership, TLAPS

(* Tokens are only ever handed out once: none in use is newer than the     *)
(* last one drawn, every call acts under one, and no two under the same.   *)
TokensDistinct ==
    /\ rowToken <= issued
    /\ \A e \in Executions : token[e] <= issued /\ (pc[e] # "idle" => token[e] # NoToken)
    /\ \A e, f \in Executions : token[e] = token[f] /\ token[e] # NoToken => e = f

(* A sweep inside its critical section holds the lock, and so does an      *)
(* execution from inside its own to the end of the finally block, unless   *)
(* its session has been lost.                                              *)
LockHeld ==
    /\ \A s \in Sweepers : sweep[s] \in {"locked", "unlocking"} => lockHolder = s
    /\ ~LockMayDrop => \A e \in Executions :
          Inside(e) \/ pc[e] \in {"releasing", "unwinding"} => lockHolder = e

(* An execution about to record a status has one to record.                *)
OutcomeKnown == \A e \in Executions : pc[e] = "committing" => outcome[e] \in Outcomes

IInv == TypeOK /\ TokenMarksRunning /\ TokensDistinct /\ LockHeld /\ OutcomeKnown

-----------------------------------------------------------------------------
LEMMA InitIInv == Init => IInv
<1> SUFFICES ASSUME Init PROVE IInv
  OBVIOUS
<1>1. TypeOK
  BY OwnershipAssumption
     DEF Init, TypeOK, Statuses, Outcomes, Phases, Hearts, Sweeping, Ages, NoToken, None
<1>2. TokenMarksRunning
  BY DEF Init, TokenMarksRunning, NoToken
<1>3. TokensDistinct
  BY DEF Init, TokensDistinct, NoToken
<1>4. LockHeld
  BY DEF Init, LockHeld, Inside
<1>5. OutcomeKnown
  BY DEF Init, OutcomeKnown
<1>6. QED
  BY <1>1, <1>2, <1>3, <1>4, <1>5 DEF IInv

(* What a token-fenced update does to the row: either nothing, or the run  *)
(* the caller owns leaves "running" with no token.                         *)
LEMMA FencedUpdateEffect ==
  ASSUME NEW e \in Executions, NEW new \in Statuses \ {"running"},
         IInv, FencedUpdate(e, new)
  PROVE  \/ UNCHANGED rowVars
         \/ /\ Owns(e) /\ status' = new /\ rowToken' = NoToken /\ age' = "young"
            /\ UNCHANGED issued
  BY DEF FencedUpdate, rowVars

LEMMA FencedRepairEffect ==
  ASSUME NEW e \in Executions, IInv, FencedRepair(e)
  PROVE  \/ UNCHANGED rowVars
         \/ /\ Owns(e) /\ status' = "retryable" /\ rowToken' = NoToken /\ age' = "young"
            /\ UNCHANGED issued
  BY FencedUpdateEffect DEF FencedRepair, Statuses

(* The row part of the invariant, for a step that either leaves the row    *)
(* alone or takes the token off it.                                        *)
RowStep ==
    \/ UNCHANGED rowVars
    \/ /\ status \in {"pending", "running"}
       /\ status' \in Statuses \ {"running"} /\ rowToken' = NoToken /\ age' = "young"
       /\ UNCHANGED issued

RowInv ==
    /\ status \in Statuses /\ rowToken \in 0..MaxClaims /\ age \in Ages
    /\ issued \in 0..MaxClaims
    /\ TokenMarksRunning
    /\ rowToken <= issued

LEMMA RowStepKeepsRow == IInv /\ RowStep => RowInv'
  BY OwnershipAssumption
     DEF IInv, RowStep, RowInv, TypeOK, TokenMarksRunning, TokensDistinct, rowVars,
         Statuses, Outcomes, Ages, NoToken

(* Likewise for a step that only makes a row of unchanged status younger   *)
(* or older.                                                               *)
LEMMA AgeStepKeepsRow ==
  IInv /\ UNCHANGED <<status, rowToken, issued>> /\ age' \in Ages => RowInv'
  BY DEF IInv, RowInv, TypeOK, TokenMarksRunning, TokensDistinct

(* The part of the invariant about the executions and the lock, for a step *)
(* of execution e that draws no token and keeps e's claim or drops it.     *)
ExecInv ==
    /\ lockHolder \in Executions \cup Sweepers \cup {NoHolder}
    /\ pc \in [Executions -> Phases]
    /\ token \in [Executions -> 0..MaxClaims]
    /\ heart \in [Executions -> Hearts]
    /\ outcome \in [Executions -> Outcomes \cup {None}]
    /\ sweep \in [Sweepers -> Sweeping]
    /\ \A e \in Executions : token[e] <= issued /\ (pc[e] # "idle" => token[e] # NoToken)
    /\ \A e, f \in Executions : token[e] = token[f] /\ token[e] # NoToken => e = f
    /\ LockHeld
    /\ OutcomeKnown

LEMMA InvariantSplits == IInv <=> RowInv /\ ExecInv
  BY DEF IInv, RowInv, ExecInv, TypeOK, TokensDistinct

LEMMA InvariantSplitsPrimed == IInv' <=> RowInv' /\ ExecInv'
  BY DEF IInv, RowInv, ExecInv, TypeOK, TokensDistinct
-----------------------------------------------------------------------------
(* A claim draws the next token, which nobody acts under yet.              *)
LEMMA ClaimKeepsInv ==
  ASSUME NEW e \in Executions, NEW eligible \in Statuses \ {"running"},
         NEW phase \in {"claimed", "context"},
         IInv, Claim(e, eligible, phase)
  PROVE  IInv'
<1>1. RowInv'
  BY OwnershipAssumption
     DEF IInv, TypeOK, TokenMarksRunning, TokensDistinct, RowInv, Claim, Touch,
         Statuses, Outcomes, Ages, NoToken
<1>2. ExecInv'
  BY OwnershipAssumption
     DEF IInv, TypeOK, TokensDistinct, LockHeld, OutcomeKnown, ExecInv, Inside,
         Claim, Goto, Touch, Phases, Hearts, Sweeping, Outcomes, None, NoToken
<1>3. QED
  BY <1>1, <1>2, InvariantSplitsPrimed

(* Every other step of an execution, by what it does to the row ...        *)
RowUntouched(e) ==
    \/ RetryContextLoaded(e) \/ RetryContextFails(e) \/ TryLock(e) \/ LockQueryFails(e)
    \/ EnterFails(e) \/ FenceLost(e) \/ GraphFails(e) \/ Abandon(e)
    \/ BeatFails(e) \/ Release(e) \/ Unwind(e) \/ Cancel(e)
    \/ Crash(e) \/ LockDrops(e) \/ Restart(e)

RowRepaired(e) == GiveUp(e) \/ Repair(e) \/ HeartbeatRepair(e) \/ PersistCancellation(e)

RowFenced(e) == Enter(e) \/ Fence(e) \/ Beat(e) \/ \E s \in Outcomes : GraphReturns(e, s)

LEMMA ExecutionStepCases ==
  ASSUME NEW e \in Executions
  PROVE  ExecutionStep(e) <=>
            \/ StartRun(e) \/ ConfirmRun(e) \/ RetryRun(e)
            \/ RowUntouched(e) \/ RowRepaired(e) \/ RowFenced(e) \/ Commit(e)
  BY Zenon DEF ExecutionStep, Progress, RowUntouched, RowRepaired, RowFenced

LEMMA ExecutionKeepsRow ==
  ASSUME NEW e \in Executions, IInv,
         RowUntouched(e) \/ RowRepaired(e) \/ RowFenced(e) \/ Commit(e)
  PROVE  RowInv'
<1>1. CASE RowUntouched(e)
  <2>1. UNCHANGED rowVars
    BY <1>1
       DEF RowUntouched, rowVars, RetryContextLoaded, RetryContextFails,
           TryLock, LockQueryFails, EnterFails, FenceLost, GraphFails,
           Abandon, BeatFails, Release, Unwind, Cancel, Crash, LockDrops,
           Restart
  <2>2. QED
    BY <2>1, RowStepKeepsRow DEF RowStep
<1>2. CASE RowRepaired(e)
  <2>1. FencedRepair(e)
    BY <1>2 DEF RowRepaired, GiveUp, Repair, HeartbeatRepair, PersistCancellation
  <2>2. QED
    BY <2>1, FencedRepairEffect, RowStepKeepsRow DEF RowStep, Owns, Statuses
<1>3. CASE RowFenced(e)
  BY <1>3, AgeStepKeepsRow DEF RowFenced, Enter, Fence, Beat, GraphReturns, Touch, Ages
<1>4. CASE Commit(e)
  <2>1. outcome[e] \in Statuses \ {"running"}
    BY <1>4 DEF Commit, IInv, OutcomeKnown, Outcomes, Statuses
  <2>2. QED
    BY <1>4, <2>1, FencedUpdateEffect, RowStepKeepsRow DEF Commit, RowStep, Owns
<1>5. QED
  BY <1>1, <1>2, <1>3, <1>4

(* ... and by what it does to the executions and the lock.                 *)
LEMMA ExecutionKeepsExec ==
  ASSUME NEW e \in Executions, IInv,
         RowUntouched(e) \/ RowRepaired(e) \/ RowFenced(e) \/ Commit(e)
  PROVE  ExecInv'
<1> USE OwnershipAssumption
    DEF IInv, TypeOK, TokensDistinct, LockHeld, OutcomeKnown, ExecInv, Inside,
        Goto, Return, ReleaseLock, Touch, FencedRepair, FencedUpdate,
        Phases, Hearts, Sweeping, Outcomes, None, NoToken, rowVars, execVars
<1>1. CASE RetryContextLoaded(e)
  BY <1>1 DEF RetryContextLoaded
<1>2. CASE RetryContextFails(e)
  BY <1>2 DEF RetryContextFails
<1>3. CASE TryLock(e)
  BY <1>3 DEF TryLock
<1>4. CASE LockQueryFails(e)
  BY <1>4 DEF LockQueryFails
<1>5. CASE EnterFails(e)
  BY <1>5 DEF EnterFails
<1>6. CASE FenceLost(e)
  BY <1>6 DEF FenceLost
<1>7. CASE GraphFails(e)
  BY <1>7 DEF GraphFails
<1>8. CASE Abandon(e)
  BY <1>8 DEF Abandon
<1>9. CASE BeatFails(e)
  BY <1>9 DEF BeatFails
<1>10. CASE Release(e)
  BY <1>10 DEF Release
<1>11. CASE Unwind(e)
  BY <1>11 DEF Unwind
<1>12. CASE Cancel(e)
  BY <1>12 DEF Cancel
<1>13. CASE Crash(e)
  BY <1>13 DEF Crash
<1>14. CASE LockDrops(e)
  BY <1>14 DEF LockDrops
<1>15. CASE Restart(e)
  BY <1>15 DEF Restart
<1>16. CASE GiveUp(e)
  BY <1>16 DEF GiveUp
<1>17. CASE Repair(e)
  BY <1>17 DEF Repair
<1>18. CASE HeartbeatRepair(e)
  BY <1>18 DEF HeartbeatRepair
<1>19. CASE PersistCancellation(e)
  BY <1>19 DEF PersistCancellation
<1>20. CASE Enter(e)
  BY <1>20 DEF Enter
<1>21. CASE Fence(e)
  BY <1>21 DEF Fence
<1>22. CASE Beat(e)
  BY <1>22 DEF Beat
<1>23. CASE Commit(e)
  BY <1>23 DEF Commit
<1>24. ASSUME NEW s \in Outcomes, GraphReturns(e, s) PROVE ExecInv'
  BY <1>24 DEF GraphReturns
<1>25. QED
  BY <1>1, <1>2, <1>3, <1>4, <1>5, <1>6, <1>7, <1>8, <1>9, <1>10, <1>11,
     <1>12, <1>13, <1>14, <1>15, <1>16, <1>17, <1>18, <1>19, <1>20, <1>21,
     <1>22, <1>23, <1>24
     DEF RowUntouched, RowRepaired, RowFenced

LEMMA ExecutionKeepsInv ==
  ASSUME NEW e \in Executions, IInv, ExecutionStep(e)
  PROVE  IInv'
<1>1. CASE StartRun(e) \/ ConfirmRun(e) \/ RetryRun(e)
  BY <1>1, ClaimKeepsInv DEF StartRun, ConfirmRun, RetryRun, Statuses, Outcomes
<1>2. CASE RowUntouched(e) \/ RowRepaired(e) \/ RowFenced(e) \/ Commit(e)
  BY <1>2, ExecutionKeepsRow, ExecutionKeepsExec, InvariantSplitsPrimed
<1>3. QED
  BY <1>1, <1>2, ExecutionStepCases

(* A startup sweep takes the token off a stale row, and only holds the lock*)
(* while it does.                                                          *)
LEMMA SweepKeepsInv ==
  ASSUME NEW s \in Sweepers, IInv, SweepStep(s)
  PROVE  IInv'
<1>1. RowInv'
  <2>1. RowStep
    BY DEF SweepStep, SweepScan, SweepLock, SweepFlip, SweepUnlock, RowStep, Touch,
           Statuses, rowVars
  <2>2. QED
    BY <2>1, RowStepKeepsRow
<1>2. ExecInv'
  <2> USE OwnershipAssumption
      DEF IInv, TypeOK, TokensDistinct, LockHeld, OutcomeKnown, ExecInv, Inside,
          Touch, Sweeping, rowVars, execVars
  <2>1. CASE SweepScan(s)
    BY <2>1 DEF SweepScan
  <2>2. CASE SweepLock(s)
    BY <2>2 DEF SweepLock
  <2>3. CASE SweepFlip(s)
    BY <2>3 DEF SweepFlip
  <2>4. CASE SweepUnlock(s)
    BY <2>4 DEF SweepUnlock
  <2>5. QED
    BY <2>1, <2>2, <2>3, <2>4 DEF SweepStep
<1>3. QED
  BY <1>1, <1>2, InvariantSplitsPrimed

(* The remaining steps: the clock, and a run turned away at creation.      *)
LEMMA EnvironmentKeepsInv ==
  ASSUME IInv, TimePasses \/ CapacityExhausted
  PROVE  IInv'
<1>1. RowInv'
  <2>1. CASE TimePasses
    BY <2>1, AgeStepKeepsRow DEF TimePasses, Ages
  <2>2. CASE CapacityExhausted
    BY <2>2, RowStepKeepsRow DEF CapacityExhausted, RowStep, Touch, Statuses
  <2>3. QED
    BY <2>1, <2>2
<1>2. ExecInv'
  BY DEF IInv, TypeOK, TokensDistinct, LockHeld, OutcomeKnown, ExecInv, Inside,
         TimePasses, CapacityExhausted, execVars
<1>3. QED
  BY <1>1, <1>2, InvariantSplitsPrimed

LEMMA StutterKeepsInv == IInv /\ UNCHANGED vars => IInv'
  BY DEF IInv, TypeOK, TokensDistinct, LockHeld, OutcomeKnown, ExecInv, Inside,
         TokenMarksRunning, vars, rowVars, execVars

LEMMA NextKeepsInv == IInv /\ [Next]_vars => IInv'
  BY ExecutionKeepsInv, SweepKeepsInv, EnvironmentKeepsInv, StutterKeepsInv DEF Next

-----------------------------------------------------------------------------
(* Theorems                                                                *)

(* The inductive invariant holds of every reachable state.                 *)
THEOREM Inductive == Spec => []IInv
  BY InitIInv, NextKeepsInv, PTL DEF Spec

(* Every variable keeps its type.                                          *)
THEOREM TypeCorrect == Spec => []TypeOK
<1>1. IInv => TypeOK
  BY DEF IInv
<1>2. QED
  BY <1>1, Inductive, PTL

(* A row carries a token exactly while it is running.                      *)
THEOREM RunningHasToken == Spec => []TokenMarksRunning
<1>1. IInv => TokenMarksRunning
  BY DEF IInv
<1>2. QED
  BY <1>1, Inductive, PTL

(* At most one execution passes the ownership fence, even when the lock    *)
(* is lost.                                                                *)
LEMMA OwnersAgree == IInv => SingleOwner
  BY DEF IInv, TokensDistinct, SingleOwner, Owns

THEOREM OwnershipIsExclusive == Spec => []SingleOwner
  BY OwnersAgree, Inductive, PTL

(* While live sessions keep their locks, one execution is in the graph.    *)
THEOREM GraphIsExclusive == Spec => []OneGraphAtATime
<1>1. IInv => OneGraphAtATime
  BY DEF IInv, LockHeld, OneGraphAtATime
<1>2. QED
  BY <1>1, Inductive, PTL

(* Only the owner records an outcome, and it is its own graph's.           *)
THEOREM OutcomesAreTheOwners == Spec => OutcomeFromOwner
<1>1. ASSUME IInv, [Next]_vars, status = "running", status' \in Outcomes
      PROVE  \E e \in Executions :
                pc[e] = "committing" /\ Owns(e) /\ status' = outcome[e]
  <2>1. status' # status
    BY <1>1 DEF Outcomes
  <2>2. PICK e \in Executions : ExecutionStep(e)
    BY <1>1, <2>1
       DEF Next, vars, rowVars, SweepStep, SweepScan, SweepLock, SweepFlip, SweepUnlock,
           CapacityExhausted, TimePasses, Outcomes
  <2>3. CASE Commit(e)
    BY <2>1, <2>3 DEF Commit, FencedUpdate
  <2>4. ~(StartRun(e) \/ ConfirmRun(e) \/ RetryRun(e))
    BY <1>1 DEF StartRun, ConfirmRun, RetryRun, Claim
  <2>5. CASE RowUntouched(e)
    BY <2>1, <2>5
       DEF RowUntouched, rowVars, RetryContextLoaded, RetryContextFails,
           TryLock, LockQueryFails, EnterFails, FenceLost, GraphFails,
           Abandon, BeatFails, Release, Unwind, Cancel, Crash, LockDrops,
           Restart
  <2>6. CASE RowRepaired(e)
    BY <1>1, <2>1, <2>6
       DEF RowRepaired, GiveUp, Repair, HeartbeatRepair, PersistCancellation,
           FencedRepair, FencedUpdate, rowVars, Outcomes
  <2>7. CASE RowFenced(e)
    BY <2>1, <2>7 DEF RowFenced, Enter, Fence, Beat, GraphReturns
  <2>8. QED
    BY <2>2, <2>3, <2>4, <2>5, <2>6, <2>7, ExecutionStepCases
<1>2. QED
  BY <1>1, Inductive, PTL DEF Spec, OutcomeFromOwner

(* completed and failed are never left.                                    *)
THEOREM TerminalNeverLeft == Spec => TerminalIsFinal
<1>1. ASSUME IInv, [Next]_vars, status \in Terminal
      PROVE  status' = status
  <2> USE <1>1 DEF Terminal
  <2>1. ASSUME NEW e \in Executions, ExecutionStep(e)
        PROVE  status' = status
    <3>1. ~Owns(e)
      BY DEF Owns
    <3>2. CASE StartRun(e) \/ ConfirmRun(e) \/ RetryRun(e)
      BY <3>2 DEF StartRun, ConfirmRun, RetryRun, Claim
    <3>3. CASE RowUntouched(e)
      BY <3>3
         DEF RowUntouched, rowVars, RetryContextLoaded, RetryContextFails, TryLock,
             LockQueryFails, EnterFails, FenceLost, GraphFails, Abandon, BeatFails,
             Release, Unwind, Cancel, Crash, LockDrops, Restart
    <3>4. CASE RowRepaired(e)
      BY <3>1, <3>4
         DEF RowRepaired, GiveUp, Repair, HeartbeatRepair, PersistCancellation,
             FencedRepair, FencedUpdate, rowVars
    <3>5. CASE RowFenced(e)
      BY <3>5 DEF RowFenced, Enter, Fence, Beat, GraphReturns
    <3>6. CASE Commit(e)
      BY <3>1, <3>6 DEF Commit, FencedUpdate
    <3>7. QED
      BY <2>1, <3>2, <3>3, <3>4, <3>5, <3>6, ExecutionStepCases
  <2>2. ASSUME NEW s \in Sweepers, SweepStep(s)
        PROVE  status' = status
    BY <2>2 DEF SweepStep, SweepScan, SweepLock, SweepFlip, SweepUnlock, rowVars
  <2>3. QED
    BY <2>1, <2>2 DEF Next, vars, rowVars, TimePasses, CapacityExhausted
<1>2. QED
  BY <1>1, Inductive, PTL DEF Spec, TerminalIsFinal

(* A step by which e loses the row while it is healthy is a step of e.     *)
THEOREM HealthyOwnerIsSafe == Spec => HealthyOwnerKeepsRun
<1>1. ASSUME IInv, [Next]_vars, NEW e \in Executions,
             Healthy(e), pc'[e] = pc[e], heart'[e] = heart[e]
      PROVE  Owns(e)'
  <2>1. Owns(e) /\ Inside(e) /\ lockHolder = e /\ heart[e] \in {"off", "beating"}
    BY <1>1 DEF Healthy
  <2>2. CASE UNCHANGED <<status, rowToken, token>>
    BY <2>1, <2>2 DEF Owns
  <2>3. ASSUME NEW f \in Executions, ExecutionStep(f)
        PROVE  Owns(e)'
    <3>1. ~Owns(f) \/ f = e
      BY <1>1, <2>1, OwnersAgree DEF SingleOwner
    <3>2. CASE StartRun(f) \/ ConfirmRun(f) \/ RetryRun(f)
      BY <2>1, <3>2 DEF Owns, StartRun, ConfirmRun, RetryRun, Claim
    <3>3. CASE RowUntouched(f)
      <4>1. UNCHANGED rowVars
        BY <3>3
           DEF RowUntouched, RetryContextLoaded, RetryContextFails, TryLock,
               LockQueryFails, EnterFails, FenceLost, GraphFails, Abandon, BeatFails,
               Release, Unwind, Cancel, Crash, LockDrops, Restart
      <4>2. CASE UNCHANGED token
        BY <2>1, <4>1, <4>2 DEF Owns, rowVars
      <4>3. CASE Return(f)
        <5>1. f # e
          BY <1>1, <2>1, <3>3, <4>3 DEF Return, Goto, Inside, IInv, TypeOK
        <5>2. QED
          BY <2>1, <4>1, <4>3, <5>1 DEF Owns, rowVars, Return, IInv, TypeOK
      <4>4. QED
        BY <3>3, <4>2, <4>3
           DEF RowUntouched, RetryContextLoaded, RetryContextFails, TryLock,
               LockQueryFails, EnterFails, FenceLost, GraphFails, Abandon, BeatFails,
               Release, Unwind, Cancel, Crash, LockDrops, Restart, execVars
    <3>4. CASE RowRepaired(f)
      <4>1. CASE f = e
        BY <1>1, <2>1, <3>4, <4>1
           DEF RowRepaired, GiveUp, Repair, HeartbeatRepair, PersistCancellation,
               Goto, Return, Inside, IInv, TypeOK
      <4>2. CASE f # e
        <5>1. FencedRepair(f)
          BY <3>4 DEF RowRepaired, GiveUp, Repair, HeartbeatRepair, PersistCancellation
        <5>2. UNCHANGED rowVars
          BY <1>1, <3>1, <4>2, <5>1, FencedRepairEffect
        <5>3. token'[e] = token[e]
          BY <1>1, <3>4, <4>2
             DEF RowRepaired, GiveUp, Repair, HeartbeatRepair, PersistCancellation, Return,
                 IInv, TypeOK
        <5>4. QED
          BY <2>1, <5>2, <5>3 DEF Owns, rowVars
      <4>3. QED
        BY <4>1, <4>2
    <3>5. CASE RowFenced(f)
      BY <2>1, <3>5 DEF RowFenced, Enter, Fence, Beat, GraphReturns, Owns, execVars
    <3>6. CASE Commit(f)
      <4>1. CASE f = e
        BY <1>1, <2>1, <3>6, <4>1 DEF Commit, Goto, IInv, TypeOK
      <4>2. CASE f # e
        BY <2>1, <3>1, <3>6, <4>2 DEF Commit, FencedUpdate, Owns
      <4>3. QED
        BY <4>1, <4>2
    <3>7. QED
      BY <2>3, <3>2, <3>3, <3>4, <3>5, <3>6, ExecutionStepCases
  <2>4. ASSUME NEW s \in Sweepers, SweepStep(s)
        PROVE  Owns(e)'
    <3>1. sweep[s] # "locked"
      BY <1>1, <2>1, OwnershipAssumption DEF IInv, LockHeld
    <3>2. QED
      BY <2>1, <2>4, <3>1
         DEF SweepStep, SweepScan, SweepLock, SweepFlip, SweepUnlock, rowVars, execVars, Owns
  <2>5. QED
    BY <1>1, <2>1, <2>2, <2>3, <2>4
       DEF Next, vars, rowVars, execVars, TimePasses, CapacityExhausted, Owns
<1>2. IInv /\ [Next]_vars
         => [\A e \in Executions :
               Healthy(e) /\ pc'[e] = pc[e] /\ heart'[e] = heart[e] => Owns(e)']_vars
  BY <1>1
<1>3. QED
  BY <1>2, Inductive, PTL DEF Spec, HealthyOwnerKeepsRun

-----------------------------------------------------------------------------
(* What a composition needs to know of a step                              *)

LEMMA EnvironmentMoves ==
  ASSUME (\E s \in Sweepers : SweepStep(s)) \/ CapacityExhausted \/ TimePasses
         \/ UNCHANGED vars
  PROVE  /\ UNCHANGED execVars
         /\ status' = "running" => UNCHANGED <<status, rowToken>>
         /\ status' = status \/ status' = "retryable"
  BY DEF SweepStep, SweepScan, SweepLock, SweepFlip, SweepUnlock, CapacityExhausted,
         TimePasses, vars, rowVars, execVars

(* A call that has lost the row does not get it back.                      *)
LEMMA OwnershipNotRegained ==
  ASSUME IInv, [Next]_vars, NEW e \in Executions, Owns(e)', pc[e] # "idle"
  PROVE  Owns(e)
<1>1. ASSUME NEW f \in Executions, ExecutionStep(f)
      PROVE  Owns(e)
  <2>1. CASE StartRun(f) \/ ConfirmRun(f) \/ RetryRun(f)
    BY <2>1, OwnershipAssumption
       DEF StartRun, ConfirmRun, RetryRun, Claim, IInv, TypeOK, TokensDistinct, Owns, NoToken
  <2>2. CASE RowUntouched(f)
    <3>1. token' = token \/ token' = [token EXCEPT ![f] = NoToken]
      BY <2>2
         DEF RowUntouched, RetryContextLoaded, RetryContextFails, TryLock,
             LockQueryFails, EnterFails, FenceLost, GraphFails, Abandon, BeatFails,
             Release, Unwind, Cancel, Crash, LockDrops, Restart, Return, execVars
    <3>2. UNCHANGED rowVars
      BY <2>2
         DEF RowUntouched, rowVars, RetryContextLoaded, RetryContextFails, TryLock,
             LockQueryFails, EnterFails, FenceLost, GraphFails, Abandon, BeatFails,
             Release, Unwind, Cancel, Crash, LockDrops, Restart
    <3>3. QED
      BY <3>1, <3>2 DEF rowVars, Owns, IInv, TypeOK
  <2>3. CASE RowRepaired(f)
    <3>1. token' = token \/ token' = [token EXCEPT ![f] = NoToken]
      BY <2>3 DEF RowRepaired, GiveUp, Repair, HeartbeatRepair, PersistCancellation, Return
    <3>2. UNCHANGED rowVars \/ status' = "retryable"
      BY <2>3, FencedRepairEffect
         DEF RowRepaired, GiveUp, Repair, HeartbeatRepair, PersistCancellation
    <3>3. QED
      BY <3>1, <3>2 DEF rowVars, Owns, IInv, TypeOK
  <2>4. CASE RowFenced(f)
    BY <2>4 DEF RowFenced, Enter, Fence, Beat, GraphReturns, Owns, execVars
  <2>5. CASE Commit(f)
    BY <2>5 DEF Commit, FencedUpdate, Owns, IInv, OutcomeKnown, Outcomes
  <2>6. QED
    BY <1>1, <2>1, <2>2, <2>3, <2>4, <2>5, ExecutionStepCases
<1>2. CASE UNCHANGED execVars /\ (status' = "running" => UNCHANGED <<status, rowToken>>)
  BY <1>2 DEF execVars, Owns
<1>3. QED
  BY <1>1, <1>2, EnvironmentMoves DEF Next

(* Only a call that is about to record its outcome brings the run to one.  *)
LEMMA OutcomeIsCommitted ==
  ASSUME IInv, [Next]_vars, status' \in Outcomes, status' # status
  PROVE  \E e \in Executions :
            Commit(e) /\ Owns(e) /\ status' = outcome[e]
<1>1. PICK e \in Executions : ExecutionStep(e)
  BY EnvironmentMoves DEF Next, Outcomes
<1>2. CASE Commit(e)
  BY <1>2 DEF Commit, FencedUpdate
<1>3. ~(StartRun(e) \/ ConfirmRun(e) \/ RetryRun(e))
  BY DEF StartRun, ConfirmRun, RetryRun, Claim, Outcomes
<1>4. CASE RowUntouched(e)
  BY <1>4
     DEF RowUntouched, rowVars, RetryContextLoaded, RetryContextFails,
         TryLock, LockQueryFails, EnterFails, FenceLost, GraphFails,
         Abandon, BeatFails, Release, Unwind, Cancel, Crash, LockDrops,
         Restart
<1>5. CASE RowRepaired(e)
  BY <1>5
     DEF RowRepaired, GiveUp, Repair, HeartbeatRepair, PersistCancellation,
         FencedRepair, FencedUpdate, rowVars, Outcomes
<1>6. CASE RowFenced(e)
  BY <1>6 DEF RowFenced, Enter, Fence, Beat, GraphReturns
<1>7. QED
  BY <1>1, <1>2, <1>3, <1>4, <1>5, <1>6, ExecutionStepCases

-----------------------------------------------------------------------------
(* RunOwnership implements RunLifecycle                                    *)

LEMMA InitImplements == Init => Lifecycle!Init
  BY DEF Init, Lifecycle!Init

LEMMA StepImplements == IInv /\ [Next]_vars => [Lifecycle!Next]_Lifecycle!lifecycle
<1> SUFFICES ASSUME IInv, [Next]_vars
             PROVE  Lifecycle!Next \/ UNCHANGED <<status, rowToken, token>>
  BY DEF Lifecycle!lifecycle
<1> USE DEF Lifecycle!Next
<1>1. ASSUME NEW e \in Executions, ExecutionStep(e)
      PROVE  Lifecycle!Next \/ UNCHANGED <<status, rowToken, token>>
  <2>1. CASE StartRun(e) \/ ConfirmRun(e) \/ RetryRun(e)
    <3>1. Lifecycle!Take(e)
      BY <2>1
         DEF StartRun, ConfirmRun, RetryRun, Claim, Lifecycle!Take, Lifecycle!Claimable,
             IInv, TypeOK, TokensDistinct, NoToken
    <3>2. QED
      BY <3>1
  <2>2. CASE RowUntouched(e)
    <3>1. token' = token \/ token' = [token EXCEPT ![e] = NoToken]
      BY <2>2
         DEF RowUntouched, RetryContextLoaded, RetryContextFails, TryLock,
             LockQueryFails, EnterFails, FenceLost, GraphFails, Abandon, BeatFails,
             Release, Unwind, Cancel, Crash, LockDrops, Restart, Return, execVars
    <3>2. UNCHANGED rowVars
      BY <2>2
         DEF RowUntouched, rowVars, RetryContextLoaded, RetryContextFails, TryLock,
             LockQueryFails, EnterFails, FenceLost, GraphFails, Abandon, BeatFails,
             Release, Unwind, Cancel, Crash, LockDrops, Restart
    <3>3. QED
      BY <3>1, <3>2 DEF rowVars, Lifecycle!Leave
  <2>3. CASE RowRepaired(e)
    <3>1. token' = token \/ token' = [token EXCEPT ![e] = NoToken]
      BY <2>3 DEF RowRepaired, GiveUp, Repair, HeartbeatRepair, PersistCancellation, Return
    <3>2. UNCHANGED <<status, rowToken>> \/ Lifecycle!HandBack
      BY <2>3, FencedRepairEffect
         DEF RowRepaired, GiveUp, Repair, HeartbeatRepair, PersistCancellation,
             Owns, rowVars, Lifecycle!HandBack
    <3>3. QED
      BY <3>1, <3>2 DEF Lifecycle!Leave
  <2>4. CASE RowFenced(e)
    BY <2>4 DEF RowFenced, Enter, Fence, Beat, GraphReturns, execVars
  <2>5. CASE Commit(e)
    <3>1. CASE ~Owns(e)
      BY <2>5, <3>1 DEF Commit, FencedUpdate
    <3>2. CASE Owns(e)
      <4>1. Lifecycle!Conclude(e, outcome[e])
        BY <2>5, <3>2 DEF Commit, FencedUpdate, Owns, Lifecycle!Conclude
      <4>2. outcome[e] \in Lifecycle!Results
        BY <2>5 DEF Commit, IInv, OutcomeKnown, Outcomes, Lifecycle!Results
      <4>3. QED
        BY <4>1, <4>2
    <3>3. QED
      BY <3>1, <3>2
  <2>6. QED
    BY <1>1, <2>1, <2>2, <2>3, <2>4, <2>5, ExecutionStepCases
<1>2. ASSUME NEW s \in Sweepers, SweepStep(s)
      PROVE  Lifecycle!Next \/ UNCHANGED <<status, rowToken, token>>
  BY <1>2
     DEF SweepStep, SweepScan, SweepLock, SweepFlip, SweepUnlock, rowVars, execVars,
         Lifecycle!HandBack
<1>3. CASE CapacityExhausted
  BY <1>3 DEF CapacityExhausted, execVars, Lifecycle!HandBack
<1>4. CASE TimePasses \/ UNCHANGED vars
  BY <1>4 DEF TimePasses, vars, rowVars, execVars
<1>5. QED
  BY <1>1, <1>2, <1>3, <1>4 DEF Next

(* The whole protocol keeps the promise the abstract lifecycle makes.      *)
THEOREM Implements == Spec => ImplementsLifecycle
  BY InitImplements, StepImplements, Inductive, PTL
     DEF Spec, ImplementsLifecycle, Lifecycle!Spec
=============================================================================
