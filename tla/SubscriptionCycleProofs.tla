---------------------- MODULE SubscriptionCycleProofs ----------------------
(***************************************************************************)
(* Theorems about SubscriptionCycle, for any number of scheduler processes,*)
(* occurrences, notices, contents, failures and faults.                    *)
(***************************************************************************)
EXTENDS SubscriptionCycle, SequenceTheorems, TLAPS

\* Phases in which the worker still goes by the row it has read.
Working == {"create", "execute", "driving", "confirm", "gate", "diff", "fail"}

(* A worker between acquiring and releasing holds the lock of its          *)
(* occurrence.                                                             *)
LockHeld ==
    \A w \in Workers :
        /\ pc[w] # "idle" => job[w] \in Occurrences
        /\ Inside(w) => lock[job[w]] = w

(* A worker that drives a run is at the run of its own occurrence.         *)
DriverHeld ==
    \A k \in Occurrences : driver[k] \in Workers =>
        job[driver[k]] = k /\ pc[driver[k]] = "driving"

(* What a worker has read of the row is still true when it writes: only    *)
(* the holder of the lock of the next occurrence writes it.                *)
ReadIsFresh ==
    \A w \in Workers : pc[w] \in Working => job[w] = next /\ copy[w] = failures

(* Who diffs has found a report.                                           *)
ReportFound == \A w \in Workers : pc[w] = "diff" => report[job[w]] # NoReport

IInv == TypeOK /\ LockHeld /\ DriverHeld /\ ReadIsFresh /\ ReportFound

-----------------------------------------------------------------------------
LEMMA InitIInv == Init => IInv
<1> SUFFICES ASSUME Init PROVE IInv
  OBVIOUS
<1>1. Len(Published) \in Nat \ {0}
  BY CycleAssumption
<1>2. TypeOK
  <2>1. /\ status \in {"active", "paused"} /\ next \in 1..(MaxOccurrence + 1)
        /\ now \in 0..MaxOccurrence /\ failures \in Nat /\ faults \in 0..MaxFaults
    BY CycleAssumption DEF Init
  <2>2. /\ run \in [Occurrences -> RunStates]
        /\ driver \in [Occurrences -> Drivers \cup {Nobody}]
        /\ report \in [Occurrences -> (SUBSET Notices) \cup {NoReport}]
        /\ lock \in [Occurrences -> Workers \cup {Nobody}]
    BY DEF Init, RunStates
  <2>3. /\ pc \in [Workers -> Phases] /\ job \in [Workers -> 0..MaxOccurrence]
        /\ copy \in [Workers -> Nat]
    BY CycleAssumption DEF Init, Phases
  <2>4. view \in [Workers -> UNION {[cited -> Versions] : cited \in SUBSET Notices}]
    <3>1. NoView \in [{} -> Versions]
      BY DEF NoView
    <3>2. NoView \in UNION {[cited -> Versions] : cited \in SUBSET Notices}
      BY <3>1
    <3>3. QED
      BY <3>2 DEF Init
  <2>5. versions \in [Notices -> Seq(Orders)] /\ \A n \in Notices : Latest(n) \in Versions
    <3>1. \A order \in Orders : <<order>> \in Seq(Orders) /\ Len(<<order>>) = 1
      OBVIOUS
    <3>2. \A n \in Notices : \E order \in Orders : versions[n] = <<order>>
      BY DEF Init
    <3>3. versions = [n \in Notices |-> versions[n]]
      BY DEF Init
    <3>4. \A n \in Notices : versions[n] \in Seq(Orders) /\ Latest(n) = 1
      BY <3>1, <3>2 DEF Latest
    <3>5. 1 \in Versions
      BY <1>1 DEF Versions
    <3>6. QED
      BY <3>3, <3>4, <3>5
  <2>6. /\ seen \in [Notices -> Versions \cup {Unseen}]
        /\ told \in [Notices -> Seq(Events)]
    BY DEF Init
  <2>7. \A k \in Occurrences : Driven(k) => run[k] \in Active
    BY DEF Init, Driven
  <2>8. QED
    BY <2>1, <2>2, <2>3, <2>4, <2>5, <2>6, <2>7 DEF TypeOK
<1>3. LockHeld /\ DriverHeld /\ ReadIsFresh /\ ReportFound
  BY CycleAssumption DEF Init, LockHeld, DriverHeld, ReadIsFresh, ReportFound, Inside, Working
<1>4. QED
  BY <1>2, <1>3 DEF IInv

-----------------------------------------------------------------------------
(* The invariant by what its parts are about: who holds a lock and where   *)
(* the workers stand ...                                                   *)
TickInv ==
    /\ next \in 1..(MaxOccurrence + 1) /\ now \in 0..MaxOccurrence /\ failures \in Nat
    /\ lock \in [Occurrences -> Workers \cup {Nobody}]
    /\ pc \in [Workers -> Phases] /\ job \in [Workers -> 0..MaxOccurrence]
    /\ copy \in [Workers -> Nat]
    /\ LockHeld /\ ReadIsFresh

(* ... who drives a run ...                                                *)
DriveInv ==
    /\ run \in [Occurrences -> RunStates]
    /\ driver \in [Occurrences -> Drivers \cup {Nobody}]
    /\ \A k \in Occurrences : Driven(k) => run[k] \in Active
    /\ DriverHeld

(* ... and what is reported, compared and told.                            *)
DataInv ==
    /\ status \in {"active", "paused"} /\ faults \in 0..MaxFaults
    /\ report \in [Occurrences -> (SUBSET Notices) \cup {NoReport}]
    /\ view \in [Workers -> UNION {[cited -> Versions] : cited \in SUBSET Notices}]
    /\ versions \in [Notices -> Seq(Orders)]
    /\ \A n \in Notices : Latest(n) \in Versions
    /\ seen \in [Notices -> Versions \cup {Unseen}]
    /\ told \in [Notices -> Seq(Events)]
    /\ ReportFound

LEMMA InvariantSplits == IInv <=> TickInv /\ DriveInv /\ DataInv
  BY DEF IInv, TypeOK, TickInv, DriveInv, DataInv

LEMMA InvariantSplitsPrimed == IInv' <=> TickInv' /\ DriveInv' /\ DataInv'
  BY DEF IInv, TypeOK, TickInv, DriveInv, DataInv

(* Nobody else goes by what it has read of the row while a worker does.    *)
LEMMA AloneAtNext ==
  ASSUME TickInv, NEW w \in Workers, pc[w] \in Working
  PROVE  \A v \in Workers \ {w} : pc[v] \notin Working
<1> SUFFICES ASSUME NEW v \in Workers \ {w}, pc[v] \in Working PROVE FALSE
  OBVIOUS
<1>1. Inside(v) /\ Inside(w)
  BY DEF Inside, Working
<1>2. lock[job[v]] = v /\ lock[job[w]] = w
  BY <1>1 DEF TickInv, LockHeld
<1>3. job[v] = job[w]
  BY DEF TickInv, ReadIsFresh
<1>4. QED
  BY <1>2, <1>3

(* A worker that goes on with what it has read, ...                        *)
LEMMA GotoKeepsTick ==
  ASSUME TickInv, NEW w \in Workers, NEW phase \in Working, Goto(w, phase), pc[w] \in Working,
         UNCHANGED <<next, failures, now, lock, job, copy>>
  PROVE  TickInv'
BY DEF TickInv, LockHeld, ReadIsFresh, Inside, Working, Goto, Phases

(* ... that gives its cycle up, ...                                        *)
LEMMA LeaveKeepsTick ==
  ASSUME TickInv, NEW w \in Workers, NEW phase \in {"release", "crashed"}, Leave(w, phase), Inside(w),
         UNCHANGED <<next, failures, now, lock, job>>
  PROVE  TickInv'
BY DEF TickInv, LockHeld, ReadIsFresh, Inside, Working, Leave, Goto, Phases

(* ... and that is done with its occurrence, whether or not it held the    *)
(* lock.                                                                   *)
LEMMA IdleKeepsTick ==
  ASSUME TickInv, NEW w \in Workers, Idle(w), pc[w] # "idle",
         UNCHANGED lock \/ lock' = [lock EXCEPT ![job[w]] = IF @ = w THEN Nobody ELSE @],
         UNCHANGED <<next, failures, now>>
  PROVE  TickInv'
<1>1. /\ pc' = [pc EXCEPT ![w] = "idle"] /\ job' = [job EXCEPT ![w] = 0]
      /\ copy' = [copy EXCEPT ![w] = 0]
  BY DEF Idle, Leave, Goto
<1>2. /\ pc' \in [Workers -> Phases] /\ job' \in [Workers -> 0..MaxOccurrence]
      /\ copy' \in [Workers -> Nat]
  BY CycleAssumption, <1>1 DEF TickInv, Phases
<1>3. lock' \in [Occurrences -> Workers \cup {Nobody}]
  BY DEF TickInv
<1>4. LockHeld'
  <2>1. \A k \in Occurrences : lock'[k] = lock[k] \/ lock[k] = w
    BY DEF TickInv
  <2>2. \A v \in Workers \ {w} : pc'[v] = pc[v] /\ job'[v] = job[v]
    BY <1>1 DEF TickInv
  <2>3. pc'[w] = "idle"
    BY <1>1 DEF TickInv
  <2>4. QED
    BY <2>1, <2>2, <2>3 DEF TickInv, LockHeld, Inside
<1>5. ReadIsFresh'
  BY <1>1 DEF TickInv, ReadIsFresh, Working
<1>6. QED
  BY <1>2, <1>3, <1>4, <1>5 DEF TickInv

LEMMA TickKeepsTick ==
  ASSUME NEW w \in Workers, IInv,
         Tick(w) \/ Step(w) \/ Raise(w) \/ TickTimesOut(w) \/ WorkerCrashes(w)
  PROVE  TickInv'
<1>0. TickInv
  BY InvariantSplits
<1>1. CASE Tick(w)
  <2>1. pc[w] = "idle" /\ next \in Occurrences
    BY CycleAssumption, <1>0, <1>1 DEF Tick, TickInv, Occurrences
  <2>2. /\ pc' = [pc EXCEPT ![w] = "listed"] /\ job' = [job EXCEPT ![w] = next]
        /\ UNCHANGED <<next, failures, now, lock, copy>>
    BY <1>1 DEF Tick, Goto, subVars
  <2>3. QED
    BY <1>0, <2>1, <2>2 DEF TickInv, LockHeld, ReadIsFresh, Inside, Working, Phases, Occurrences
<1>2. CASE AcquireLock(w)
  <2>1. CASE lock[job[w]] = Nobody
    <3>1. /\ pc[w] = "listed" /\ pc' = [pc EXCEPT ![w] = "locked"]
          /\ lock' = [lock EXCEPT ![job[w]] = w]
          /\ UNCHANGED <<next, failures, now, job, copy>>
      BY <1>2, <2>1 DEF AcquireLock, Goto, subVars
    <3>2. LockHeld'
      BY CycleAssumption, <1>0, <2>1, <3>1 DEF TickInv, LockHeld, Inside
    <3>3. QED
      BY <1>0, <3>1, <3>2 DEF TickInv, ReadIsFresh, Working, Phases, Occurrences
  <2>2. CASE lock[job[w]] # Nobody
    BY <1>0, <1>2, <2>2, IdleKeepsTick DEF AcquireLock, subVars
  <2>3. QED
    BY <2>1, <2>2
<1>3. CASE ReadSubscription(w)
  BY <1>0, <1>3 DEF ReadSubscription, Matches, TickInv, LockHeld, ReadIsFresh, Inside, Working,
                    Goto, Phases, subVars
<1>4. CASE CreateRun(w) \/ ExecuteRun(w) \/ ReportGate(w)
  <2>1. pc[w] \in Working /\ \E phase \in Working : Goto(w, phase)
    BY <1>4 DEF CreateRun, ExecuteRun, ReportGate, Working
  <2>2. UNCHANGED <<next, failures, now, lock, job, copy>>
    BY <1>4 DEF CreateRun, ExecuteRun, ReportGate, subVars
  <2>3. QED
    BY <1>0, <2>1, <2>2, GotoKeepsTick
<1>5. CASE AutoConfirm(w)
  <2>1. pc[w] = "confirm" /\ UNCHANGED <<next, failures, now, lock, job>>
    BY <1>5 DEF AutoConfirm, subVars
  <2>2. (Goto(w, "driving") /\ UNCHANGED copy) \/ Leave(w, "release")
    BY <1>5 DEF AutoConfirm
  <2>3. QED
    BY <1>0, <2>1, <2>2, GotoKeepsTick, LeaveKeepsTick DEF Working, Inside
<1>6. CASE Consume(w)
  <2>1. /\ pc[w] = "diff" /\ failures' = 0 /\ next' = job[w] + 1
        /\ pc' = [pc EXCEPT ![w] = "release"] /\ copy' = [copy EXCEPT ![w] = 0]
        /\ UNCHANGED <<now, lock, job>>
    BY <1>6 DEF Consume, Leave, Goto
  <2>2. \A v \in Workers \ {w} : pc[v] \notin Working
    BY <1>0, <2>1, AloneAtNext DEF Working
  <2>3. next' \in 1..(MaxOccurrence + 1) /\ failures' \in Nat
    BY CycleAssumption, <1>0, <2>1 DEF TickInv, LockHeld, Occurrences
  <2>4. ReadIsFresh'
    BY <1>0, <2>1, <2>2 DEF TickInv, ReadIsFresh, Working
  <2>5. QED
    BY <1>0, <2>1, <2>3, <2>4 DEF TickInv, LockHeld, Inside, Phases
<1>7. CASE RecordFailure(w)
  <2>1. /\ pc[w] = "fail" /\ failures' = copy[w] + 1
        /\ pc' = [pc EXCEPT ![w] = "release"] /\ copy' = [copy EXCEPT ![w] = 0]
        /\ UNCHANGED <<next, now, lock, job>>
    BY <1>7 DEF RecordFailure, Leave, Goto
  <2>2. \A v \in Workers \ {w} : pc[v] \notin Working
    BY <1>0, <2>1, AloneAtNext DEF Working
  <2>3. failures' \in Nat
    BY <1>0, <2>1 DEF TickInv
  <2>4. ReadIsFresh'
    BY <1>0, <2>1, <2>2 DEF TickInv, ReadIsFresh, Working
  <2>5. QED
    BY <1>0, <2>1, <2>3, <2>4 DEF TickInv, LockHeld, Inside, Phases
<1>8. CASE Release(w) \/ SessionEnds(w)
  BY <1>0, <1>8, IdleKeepsTick DEF Release, SessionEnds, subVars
<1>9. CASE Raise(w) \/ TickTimesOut(w) \/ WorkerCrashes(w)
  <2>1. Inside(w) /\ UNCHANGED <<next, failures, now, lock, job>>
    BY <1>9 DEF Raise, TickTimesOut, WorkerCrashes, Inside, subVars
  <2>2. \E phase \in {"release", "crashed"} : Leave(w, phase)
    BY <1>9 DEF Raise, TickTimesOut, WorkerCrashes
  <2>3. QED
    BY <1>0, <2>1, <2>2, LeaveKeepsTick
<1>10. QED
  BY <1>1, <1>2, <1>3, <1>4, <1>5, <1>6, <1>7, <1>8, <1>9 DEF Step

LEMMA GraphKeepsTick ==
  ASSUME NEW k \in Occurrences, IInv, Graph(k)
  PROVE  TickInv'
<1>0. TickInv /\ DriverHeld
  BY DEF IInv, TypeOK, TickInv
<1>1. UNCHANGED <<next, failures, now, lock, job, copy>>
  BY DEF Graph, GraphPauses, GraphDelivers, GraphCompletes, GraphFails, subVars, tickVars
<1>2. \/ UNCHANGED pc
      \/ /\ driver[k] \in Workers
         /\ \E phase \in {"confirm", "gate", "fail"} : pc' = [pc EXCEPT ![driver[k]] = phase]
  BY DEF Graph, GraphPauses, GraphDelivers, GraphCompletes, GraphFails, Returns, Goto, tickVars
<1>3. CASE UNCHANGED pc
  BY <1>0, <1>1, <1>3 DEF TickInv, LockHeld, ReadIsFresh, Inside
<1>4. CASE ~UNCHANGED pc
  <2>1. PICK phase \in {"confirm", "gate", "fail"} : pc' = [pc EXCEPT ![driver[k]] = phase]
    BY <1>2, <1>4
  <2>2. driver[k] \in Workers /\ pc[driver[k]] = "driving"
    BY <1>0, <1>2, <1>4 DEF DriverHeld
  <2>3. QED
    BY <1>0, <1>1, <2>1, <2>2 DEF TickInv, LockHeld, ReadIsFresh, Inside, Working, Phases
<1>5. QED
  BY <1>3, <1>4

\* What the API, the operator, the importer and the clock do.
Elsewhere ==
    \/ \E k \in Occurrences :
          ApiCrashes(k) \/ Sweep(k) \/ OperatorRetries(k) \/ OperatorConfirms(k)
    \/ \E n \in Notices : Import(n)
    \/ Pause \/ Resume \/ OccurrenceComesDue

LEMMA ElsewhereKeepsTick ==
  ASSUME IInv, Elsewhere
  PROVE  TickInv'
<1>0. TickInv
  BY DEF IInv, TypeOK, TickInv
<1>1. UNCHANGED <<next, failures, lock, pc, job, copy>>
  BY DEF Elsewhere, ApiCrashes, Sweep, OperatorRetries, OperatorConfirms, Import, Pause, Resume,
         OccurrenceComesDue, subVars, tickVars
<1>2. now' \in 0..MaxOccurrence
  BY CycleAssumption, <1>0 DEF Elsewhere, ApiCrashes, Sweep, OperatorRetries, OperatorConfirms,
         Import, Pause, Resume, OccurrenceComesDue, TickInv
<1>3. QED
  BY <1>0, <1>1, <1>2 DEF TickInv, LockHeld, ReadIsFresh, Inside

-----------------------------------------------------------------------------
(* A worker drives the run of its own occurrence and no other.             *)
LEMMA DrivesItsOwn ==
  ASSUME DriveInv, NEW w \in Workers, NEW k \in Occurrences, driver[k] = w
  PROVE  k = job[w] /\ pc[w] = "driving"
BY DEF DriveInv, DriverHeld

(* A worker outside the graph moves without touching any run.              *)
LEMMA MoveKeepsDrive ==
  ASSUME DriveInv, NEW w \in Workers, pc[w] # "driving", UNCHANGED <<run, driver>>,
         \A v \in Workers \ {w} : pc'[v] = pc[v] /\ job'[v] = job[v]
  PROVE  DriveInv'
<1>1. DriverHeld'
  BY DrivesItsOwn DEF DriveInv, DriverHeld
<1>2. QED
  BY <1>1 DEF DriveInv, Driven

(* A worker sets the status of the run of its own occurrence.              *)
LEMMA SetKeepsDrive ==
  ASSUME DriveInv, NEW w \in Workers, job[w] \in Occurrences, UNCHANGED job,
         NEW s \in RunStates, NEW d \in {w, Nobody}, SetRun(job[w], s, d),
         d = w => s \in Active /\ pc'[w] = "driving",
         \A v \in Workers \ {w} : pc'[v] = pc[v]
  PROVE  DriveInv'
<1>1. \A k \in Occurrences \ {job[w]} : run'[k] = run[k] /\ driver'[k] = driver[k] /\ driver[k] # w
  BY DrivesItsOwn DEF SetRun, DriveInv
<1>2. run'[job[w]] = s /\ driver'[job[w]] = d
  BY DEF SetRun, DriveInv
<1>3. /\ run' \in [Occurrences -> RunStates]
      /\ driver' \in [Occurrences -> Drivers \cup {Nobody}]
  BY DEF SetRun, DriveInv, Drivers
<1>4. \A k \in Occurrences : driver'[k] # Nobody => run'[k] \in Active
  BY <1>1, <1>2 DEF DriveInv, Driven
<1>5. DriverHeld'
  BY CycleAssumption, <1>1, <1>2 DEF DriveInv, DriverHeld
<1>6. QED
  BY <1>3, <1>4, <1>5 DEF DriveInv, Driven

LEMMA TickKeepsDrive ==
  ASSUME NEW w \in Workers, IInv,
         Tick(w) \/ Step(w) \/ Raise(w) \/ TickTimesOut(w) \/ WorkerCrashes(w)
  PROVE  DriveInv'
<1>0. TickInv /\ DriveInv
  BY InvariantSplits
<1>1. CASE \/ Tick(w) \/ AcquireLock(w) \/ ReadSubscription(w) \/ ReportGate(w)
           \/ RecordFailure(w) \/ Release(w) \/ SessionEnds(w) \/ Raise(w)
  <2>1. pc[w] # "driving" /\ UNCHANGED <<run, driver>>
    BY <1>1 DEF Tick, AcquireLock, ReadSubscription, ReportGate, RecordFailure, Release,
                SessionEnds, Raise, runVars
  <2>2. \A v \in Workers \ {w} : pc'[v] = pc[v] /\ job'[v] = job[v]
    BY <1>0, <1>1 DEF Tick, AcquireLock, ReadSubscription, ReportGate, RecordFailure, Release,
                SessionEnds, Raise, Idle, Leave, Goto, TickInv
  <2>3. QED
    BY <1>0, <2>1, <2>2, MoveKeepsDrive
<1>2. CASE CreateRun(w) \/ ExecuteRun(w) \/ AutoConfirm(w) \/ Consume(w) \/ TickTimesOut(w)
  <2>1. /\ UNCHANGED job /\ job[w] \in Occurrences
        /\ \A v \in Workers \ {w} : pc'[v] = pc[v]
    BY <1>0, <1>2 DEF CreateRun, ExecuteRun, AutoConfirm, Consume, TickTimesOut, Leave, Goto,
                      TickInv, LockHeld
  <2>2. CASE pc[w] # "driving" /\ UNCHANGED <<run, driver>>
    BY <1>0, <2>1, <2>2, MoveKeepsDrive
  <2>3. CASE ~(pc[w] # "driving" /\ UNCHANGED <<run, driver>>)
    <3>1. \E s \in RunStates, d \in {w, Nobody} :
            /\ SetRun(job[w], s, d)
            /\ d = w => s \in Active /\ pc'[w] = "driving"
      <4>1. CASE CreateRun(w)
        BY CycleAssumption, <2>3, <4>1 DEF CreateRun, RunStates
      <4>2. CASE ExecuteRun(w)
        BY <1>0, <2>3, <4>2 DEF ExecuteRun, RunStates, Active, Goto, TickInv
      <4>3. CASE AutoConfirm(w)
        BY <1>0, <2>3, <4>3 DEF AutoConfirm, RunStates, Active, Goto, TickInv
      <4>4. CASE Consume(w)
        BY CycleAssumption, <2>3, <4>4 DEF Consume, RunStates
      <4>5. CASE TickTimesOut(w)
        BY CycleAssumption, <1>0, <2>1, <4>5 DEF TickTimesOut, RunStates, DriveInv
      <4>6. QED
        BY <1>2, <4>1, <4>2, <4>3, <4>4, <4>5
    <3>2. QED
      BY <1>0, <2>1, <3>1, SetKeepsDrive
  <2>4. QED
    BY <2>2, <2>3
<1>3. CASE WorkerCrashes(w)
  <2>1. /\ driver' = [k \in Occurrences |-> IF driver[k] = w THEN Nobody ELSE driver[k]]
        /\ UNCHANGED <<run, job>>
        /\ \A v \in Workers \ {w} : pc'[v] = pc[v]
    BY <1>0, <1>3 DEF WorkerCrashes, Leave, Goto, TickInv
  <2>2. DriverHeld'
    BY CycleAssumption, <1>0, <2>1 DEF DriveInv, DriverHeld
  <2>3. QED
    BY <1>0, <2>1, <2>2 DEF DriveInv, Driven
<1>4. QED
  BY <1>1, <1>2, <1>3 DEF Step

LEMMA GraphKeepsDrive ==
  ASSUME NEW k \in Occurrences, IInv, Graph(k)
  PROVE  DriveInv'
<1>0. TickInv /\ DriveInv
  BY InvariantSplits
<1>1. CASE GraphDelivers(k)
  BY <1>0, <1>1 DEF GraphDelivers, DriveInv, DriverHeld, Driven, tickVars
<1>2. CASE GraphPauses(k) \/ GraphCompletes(k) \/ GraphFails(k)
  <2>1. PICK s \in RunStates, phase \in Phases : Returns(k, s, phase)
    BY <1>2 DEF GraphPauses, GraphCompletes, GraphFails, RunStates, Phases
  <2>2. /\ run' = [run EXCEPT ![k] = s] /\ driver' = [driver EXCEPT ![k] = Nobody]
        /\ UNCHANGED job
    BY <1>2, <2>1 DEF GraphPauses, GraphCompletes, GraphFails, Returns, SetRun
  <2>3. \A v \in Workers : v # driver[k] => pc'[v] = pc[v]
    BY <1>0, <2>1 DEF Returns, Goto, TickInv
  <2>4. \A j \in Occurrences \ {k} : driver[j] \in Workers => driver[j] # driver[k]
    BY <1>0 DEF DriveInv, DriverHeld
  <2>5. DriverHeld'
    BY CycleAssumption, <1>0, <2>2, <2>3, <2>4 DEF DriveInv, DriverHeld
  <2>6. QED
    BY <1>0, <2>2, <2>5 DEF DriveInv, Driven
<1>3. QED
  BY <1>1, <1>2 DEF Graph

LEMMA ElsewhereKeepsDrive ==
  ASSUME IInv, Elsewhere
  PROVE  DriveInv'
<1>0. DriveInv
  BY InvariantSplits
<1>1. UNCHANGED <<pc, job>>
  BY DEF Elsewhere, ApiCrashes, Sweep, OperatorRetries, OperatorConfirms, Import, Pause, Resume,
         OccurrenceComesDue, tickVars
<1>2. CASE UNCHANGED <<run, driver>>
  BY <1>0, <1>1, <1>2 DEF DriveInv, DriverHeld, Driven
<1>3. CASE ~UNCHANGED <<run, driver>>
  <2>1. PICK k \in Occurrences :
          ApiCrashes(k) \/ Sweep(k) \/ OperatorRetries(k) \/ OperatorConfirms(k)
    BY <1>3 DEF Elsewhere, Import, Pause, Resume, OccurrenceComesDue, runVars
  <2>2. CASE ApiCrashes(k)
    BY CycleAssumption, <1>0, <1>1, <2>2 DEF ApiCrashes, DriveInv, DriverHeld, Driven
  <2>3. CASE Sweep(k)
    BY CycleAssumption, <1>0, <1>1, <2>3 DEF Sweep, SetRun, DriveInv, DriverHeld, Driven, RunStates
  <2>4. CASE OperatorRetries(k) \/ OperatorConfirms(k)
    BY CycleAssumption, <1>0, <1>1, <2>4 DEF OperatorRetries, OperatorConfirms, SetRun, DriveInv,
         DriverHeld, Driven, RunStates, Active, Drivers
  <2>5. QED
    BY <2>1, <2>2, <2>3, <2>4
<1>4. QED
  BY <1>2, <1>3

-----------------------------------------------------------------------------
Views == UNION {[cited -> Versions] : cited \in SUBSET Notices}

LEMMA NoViewTyped == NoView \in Views
<1>1. NoView \in [{} -> Versions]
  BY DEF NoView
<1>2. QED
  BY <1>1 DEF Views

(* A worker that comes to compare has just found the report; elsewhere who *)
(* compares was comparing, and reports stay.                               *)
LEMMA FoundStaysFound ==
  ASSUME ReportFound, UNCHANGED report,
         \A v \in Workers : pc'[v] = "diff" => pc[v] = "diff" /\ job'[v] = job[v]
  PROVE  ReportFound'
BY DEF ReportFound

(* A step that leaves the reports, the versions, the seen items and the    *)
(* inbox alone, and whose worker at most drops what it has read.           *)
LEMMA QuietKeepsData ==
  ASSUME DataInv, UNCHANGED <<report, versions, seen, told>>,
         status' \in {"active", "paused"}, faults' \in 0..MaxFaults,
         UNCHANGED view \/ \E w \in Workers : view' = [view EXCEPT ![w] = NoView],
         \A v \in Workers : pc'[v] = "diff" => pc[v] = "diff" /\ job'[v] = job[v]
  PROVE  DataInv'
<1>1. view' \in [Workers -> Views]
  BY NoViewTyped DEF DataInv, Views
<1>2. ReportFound'
  BY FoundStaysFound DEF DataInv
<1>3. QED
  BY <1>1, <1>2 DEF DataInv, Views, Latest

(* What a comparison adds to the inbox is a sequence of events.            *)
LEMMA EmittedTyped ==
  ASSUME NEW n, NEW v \in Versions
  PROVE  Emitted(n, v) \in Seq(Events)
<1>1. \A kind \in {"new_notice", "material_change"} : Event(kind, v) \in Seq(Events)
  <2>1. \A kind \in {"new_notice", "material_change"} : [kind |-> kind, version |-> v] \in Events
    BY DEF Events
  <2>2. QED
    BY <2>1 DEF Event
<1>2. <<>> \in Seq(Events)
  OBVIOUS
<1>3. QED
  BY <1>1, <1>2 DEF Emitted

LEMMA TickKeepsData ==
  ASSUME NEW w \in Workers, IInv,
         Tick(w) \/ Step(w) \/ Raise(w) \/ TickTimesOut(w) \/ WorkerCrashes(w)
  PROVE  DataInv'
<1>0. TickInv /\ DataInv
  BY InvariantSplits
<1>1. CASE ReportGate(w)
  <2>1. job[w] \in Occurrences
    BY <1>0, <1>1 DEF ReportGate, TickInv, LockHeld
  <2>2. CASE report[job[w]] = NoReport
    BY <1>0, <1>1, <2>2, QuietKeepsData
       DEF ReportGate, Goto, subVars, runVars, inboxVars, DataInv, TickInv
  <2>3. CASE report[job[w]] # NoReport
    <3>1. report[job[w]] \in SUBSET Notices
      BY <1>0, <2>1, <2>3 DEF DataInv
    <3>2. [n \in report[job[w]] |-> Latest(n)] \in Views
      BY <1>0, <3>1 DEF DataInv, Views
    <3>3. /\ view' = [view EXCEPT ![w] = [n \in report[job[w]] |-> Latest(n)]]
          /\ pc' = [pc EXCEPT ![w] = "diff"]
          /\ UNCHANGED <<status, job, report, versions, seen, told, faults>>
      BY <1>1, <2>3 DEF ReportGate, Goto, subVars, runVars, inboxVars
    <3>4. view' \in [Workers -> Views]
      BY <1>0, <3>2, <3>3 DEF DataInv, Views
    <3>5. ReportFound'
      BY <1>0, <2>3, <3>3 DEF DataInv, ReportFound, TickInv
    <3>6. QED
      BY <1>0, <3>3, <3>4, <3>5 DEF DataInv, Views, Latest
  <2>4. QED
    BY <2>2, <2>3
<1>2. CASE Consume(w)
  <2>1. /\ told' = [n \in Notices |-> IF n \in DOMAIN view[w]
                                     THEN told[n] \o Emitted(n, view[w][n]) ELSE told[n]]
        /\ seen' = [n \in Notices |-> IF n \in DOMAIN view[w] THEN view[w][n] ELSE seen[n]]
        /\ pc' = [pc EXCEPT ![w] = "release"]
        /\ view' = [view EXCEPT ![w] = NoView]
        /\ UNCHANGED <<status, job, report, versions, faults>>
    BY <1>2 DEF Consume, AdvanceSeen, Leave, Goto
  <2>2. \A n \in DOMAIN view[w] : view[w][n] \in Versions
    BY <1>0 DEF DataInv, Views
  <2>3. told' \in [Notices -> Seq(Events)]
    <3>1. \A n \in DOMAIN view[w] : Emitted(n, view[w][n]) \in Seq(Events)
      BY <2>2, EmittedTyped
    <3>2. QED
      BY <1>0, <2>1, <3>1, ConcatProperties DEF DataInv
  <2>4. seen' \in [Notices -> Versions \cup {Unseen}]
    BY <1>0, <2>1, <2>2 DEF DataInv
  <2>5. view' \in [Workers -> Views]
    BY <1>0, <2>1, NoViewTyped DEF DataInv, Views
  <2>6. ReportFound'
    BY <1>0, <2>1, FoundStaysFound DEF DataInv, TickInv
  <2>7. QED
    BY <1>0, <2>1, <2>3, <2>4, <2>5, <2>6 DEF DataInv, Views, Latest
<1>3. CASE \/ Tick(w) \/ AcquireLock(w) \/ ReadSubscription(w) \/ CreateRun(w) \/ ExecuteRun(w)
           \/ AutoConfirm(w) \/ RecordFailure(w) \/ Release(w) \/ SessionEnds(w)
  <2>1. UNCHANGED <<report, versions, seen, told, faults>> /\ status' \in {"active", "paused"}
    BY <1>0, <1>3 DEF Tick, AcquireLock, ReadSubscription, CreateRun, ExecuteRun, AutoConfirm,
         RecordFailure, Release, SessionEnds, subVars, runVars, inboxVars, DataInv
  <2>2. UNCHANGED view \/ view' = [view EXCEPT ![w] = NoView]
    BY <1>3 DEF Tick, AcquireLock, ReadSubscription, CreateRun, ExecuteRun, AutoConfirm,
         RecordFailure, Release, SessionEnds, Idle, Leave
  <2>3. \A v \in Workers : pc'[v] = "diff" => pc[v] = "diff" /\ job'[v] = job[v]
    <3>1. \E phase \in Phases \ {"diff"} : pc' = [pc EXCEPT ![w] = phase]
      BY <1>3 DEF Tick, AcquireLock, ReadSubscription, CreateRun, ExecuteRun, AutoConfirm,
         RecordFailure, Release, SessionEnds, Idle, Leave, Goto, Phases
    <3>2. UNCHANGED job \/ \E j \in 0..MaxOccurrence : job' = [job EXCEPT ![w] = j]
      BY CycleAssumption, <1>0, <1>3 DEF Tick, AcquireLock, ReadSubscription, CreateRun, ExecuteRun,
         AutoConfirm, RecordFailure, Release, SessionEnds, Idle, TickInv
    <3>3. QED
      BY <1>0, <3>1, <3>2 DEF TickInv
  <2>4. QED
    BY <1>0, <2>1, <2>2, <2>3, QuietKeepsData DEF DataInv
<1>4. CASE Raise(w) \/ TickTimesOut(w) \/ WorkerCrashes(w)
  <2>1. UNCHANGED <<status, report, versions, seen, told, job>> /\ faults' \in 0..MaxFaults
    BY CycleAssumption, <1>0, <1>4 DEF Raise, TickTimesOut, WorkerCrashes, Fault, subVars, runVars,
         inboxVars, DataInv
  <2>2. /\ view' = [view EXCEPT ![w] = NoView]
        /\ \E phase \in {"release", "crashed"} : pc' = [pc EXCEPT ![w] = phase]
    BY <1>4 DEF Raise, TickTimesOut, WorkerCrashes, Leave, Goto
  <2>3. \A v \in Workers : pc'[v] = "diff" => pc[v] = "diff"
    BY <1>0, <2>2 DEF TickInv
  <2>4. QED
    BY <1>0, <2>1, <2>2, <2>3, QuietKeepsData DEF DataInv
<1>5. QED
  BY <1>1, <1>2, <1>3, <1>4 DEF Step

LEMMA GraphKeepsData ==
  ASSUME NEW k \in Occurrences, IInv, Graph(k)
  PROVE  DataInv'
<1>0. TickInv /\ DataInv
  BY InvariantSplits
<1>1. CASE GraphDelivers(k)
  <2>1. PICK cited \in SUBSET Notices : report' = [report EXCEPT ![k] = cited]
    BY <1>1 DEF GraphDelivers
  <2>2. UNCHANGED <<status, pc, job, view, versions, seen, told, faults>>
    BY <1>1 DEF GraphDelivers, subVars, tickVars, inboxVars
  <2>3. ReportFound'
    BY CycleAssumption, <1>0, <2>1, <2>2 DEF DataInv, ReportFound
  <2>4. QED
    BY <1>0, <2>1, <2>2, <2>3 DEF DataInv, Latest
<1>2. CASE GraphPauses(k) \/ GraphCompletes(k) \/ GraphFails(k)
  <2>1. UNCHANGED <<status, report, job, view, versions, seen, told, faults>>
    BY <1>2 DEF GraphPauses, GraphCompletes, GraphFails, subVars, inboxVars
  <2>2. UNCHANGED pc \/ \E phase \in Phases \ {"diff"} : pc' = [pc EXCEPT ![driver[k]] = phase]
    BY <1>2 DEF GraphPauses, GraphCompletes, GraphFails, Returns, Goto, Phases
  <2>3. \A v \in Workers : pc'[v] = "diff" => pc[v] = "diff"
    BY <1>0, <2>2 DEF TickInv
  <2>4. QED
    BY <1>0, <2>1, <2>3, QuietKeepsData DEF DataInv
<1>3. QED
  BY <1>1, <1>2 DEF Graph

LEMMA ElsewhereKeepsData ==
  ASSUME IInv, Elsewhere
  PROVE  DataInv'
<1>0. DataInv
  BY InvariantSplits
<1>1. CASE \E n \in Notices : Import(n)
  <2>1. PICK n \in Notices, order \in Orders :
          /\ Len(versions[n]) < Len(Published)
          /\ versions' = [versions EXCEPT ![n] = Append(@, order)]
    BY <1>1 DEF Import
  <2>2. UNCHANGED <<status, report, pc, job, view, seen, told, faults>>
    BY <1>1 DEF Import, subVars, runVars, tickVars, inboxVars
  <2>3. versions[n] \in Seq(Orders)
    BY <1>0 DEF DataInv
  <2>4. /\ Append(versions[n], order) \in Seq(Orders)
        /\ Len(Append(versions[n], order)) = Len(versions[n]) + 1
    BY <2>3
  <2>5. Len(versions[n]) + 1 \in Versions
    BY CycleAssumption, <2>1, <2>3 DEF Versions
  <2>6. versions' \in [Notices -> Seq(Orders)]
    BY <1>0, <2>1, <2>4 DEF DataInv
  <2>7. \A m \in Notices : Latest(m)' \in Versions
    BY <1>0, <2>1, <2>4, <2>5 DEF DataInv, Latest
  <2>8. QED
    BY <1>0, <2>2, <2>6, <2>7 DEF DataInv, ReportFound
<1>2. CASE ~\E n \in Notices : Import(n)
  <2>1. UNCHANGED <<report, versions, seen, told, view, pc, job>> /\ status' \in {"active", "paused"}
    BY <1>0, <1>2 DEF Elsewhere, ApiCrashes, Sweep, OperatorRetries, OperatorConfirms, Pause, Resume,
         OccurrenceComesDue, subVars, runVars, tickVars, inboxVars, DataInv
  <2>2. faults' \in 0..MaxFaults
    BY CycleAssumption, <1>0, <1>2 DEF Elsewhere, ApiCrashes, Sweep, OperatorRetries, OperatorConfirms,
         Pause, Resume, OccurrenceComesDue, Fault, DataInv
  <2>3. QED
    BY <1>0, <2>1, <2>2, QuietKeepsData
<1>3. QED
  BY <1>1, <1>2

-----------------------------------------------------------------------------
LEMMA StepsOfNext ==
  Next <=> \/ \E w \in Workers :
                Tick(w) \/ Step(w) \/ Raise(w) \/ TickTimesOut(w) \/ WorkerCrashes(w)
           \/ \E k \in Occurrences : Graph(k)
           \/ Elsewhere
BY DEF Next, Elsewhere

LEMMA StutterKeepsIInv == IInv /\ UNCHANGED vars => IInv'
BY DEF IInv, TypeOK, LockHeld, DriverHeld, ReadIsFresh, ReportFound, Driven, Inside, Latest,
       vars, subVars, runVars, tickVars, inboxVars

LEMMA NextKeepsIInv == IInv /\ [Next]_vars => IInv'
<1> SUFFICES ASSUME IInv, [Next]_vars PROVE IInv'
  OBVIOUS
<1>1. ASSUME NEW w \in Workers,
             Tick(w) \/ Step(w) \/ Raise(w) \/ TickTimesOut(w) \/ WorkerCrashes(w)
      PROVE  IInv'
  BY <1>1, TickKeepsTick, TickKeepsDrive, TickKeepsData, InvariantSplitsPrimed
<1>2. ASSUME NEW k \in Occurrences, Graph(k) PROVE IInv'
  BY <1>2, GraphKeepsTick, GraphKeepsDrive, GraphKeepsData, InvariantSplitsPrimed
<1>3. CASE Elsewhere
  BY <1>3, ElsewhereKeepsTick, ElsewhereKeepsDrive, ElsewhereKeepsData, InvariantSplitsPrimed
<1>4. CASE UNCHANGED vars
  BY <1>4, StutterKeepsIInv
<1>5. QED
  BY <1>1, <1>2, <1>3, <1>4, StepsOfNext

LEMMA Invariance == Spec => []IInv
BY InitIInv, NextKeepsIInv, PTL DEF Spec

(* Every variable stays in its range, whatever the order of the ticks, the *)
(* crashes and the operator's calls.                                       *)
THEOREM CycleTypeCorrect == Spec => []TypeOK
<1>1. IInv => TypeOK
  BY DEF IInv
<1>2. QED
  BY <1>1, Invariance, PTL

(* The advisory lock makes two workers acting on the same occurrence       *)
(* execute it once, however many schedulers there are and wherever they    *)
(* are cut off.                                                            *)
THEOREM OneWorkerAtATime == Spec => []OneWorkerPerOccurrence
<1>1. IInv => OneWorkerPerOccurrence
  <2> SUFFICES ASSUME IInv PROVE OneWorkerPerOccurrence
    OBVIOUS
  <2>1. \A v, w \in Workers : Inside(v) /\ Inside(w) /\ job[v] = job[w] => v = w
    BY DEF IInv, LockHeld
  <2>2. \A k \in Occurrences : driver[k] \in Workers =>
           lock[k] = driver[k] /\ job[driver[k]] = k /\ pc[driver[k]] = "driving"
    BY DEF IInv, LockHeld, DriverHeld, Inside
  <2>3. QED
    BY <2>1, <2>2 DEF OneWorkerPerOccurrence
<1>2. QED
  BY <1>1, Invariance, PTL

-----------------------------------------------------------------------------
(* The contract: which occurrences have a report ...                       *)
Reported == {k \in Occurrences : report[k] # NoReport}

(* A sequence with one element appended by a concatenation.                *)
LEMMA AppendOne ==
  ASSUME NEW S, NEW s \in Seq(S), NEW e \in Seq(S), Len(e) = 1
  PROVE  Len(s \o e) = Len(s) + 1 /\ SubSeq(s \o e, 1, Len(s)) = s
<1>1. /\ s \o e \in Seq(S) /\ Len(s \o e) = Len(s) + 1
      /\ \A i \in 1..Len(s) : (s \o e)[i] = s[i]
  BY ConcatProperties
<1>2. SubSeq(s \o e, 1, Len(s)) = [i \in 1..Len(s) |-> (s \o e)[i]]
  BY <1>1
<1>3. QED
  BY <1>1, <1>2

(* ... and which of its steps a step of the cycle is.                      *)
LEMMA ConsumeDelivers ==
  ASSUME IInv, NEW w \in Workers, Consume(w)
  PROVE  Contract!Deliver
<1>0. TickInv /\ DataInv
  BY InvariantSplits
<1>1. pc[w] = "diff" /\ job[w] = next /\ next \in Occurrences
  BY <1>0 DEF Consume, TickInv, LockHeld, ReadIsFresh, Working
<1>2. next \in Reported
  BY <1>0, <1>1 DEF DataInv, ReportFound, Reported
<1>3. next' = next + 1 /\ failures' = 0 /\ UNCHANGED <<status, report>>
  BY <1>1 DEF Consume
<1>4. ASSUME NEW n \in Notices PROVE Contract!Hears(n)
  <2>1. /\ told'[n] = IF n \in DOMAIN view[w]
                      THEN told[n] \o Emitted(n, view[w][n]) ELSE told[n]
        /\ seen'[n] = IF n \in DOMAIN view[w] THEN view[w][n] ELSE seen[n]
    BY DEF Consume, AdvanceSeen
  <2>2. told[n] \in Seq(Events)
    BY <1>0 DEF DataInv
  <2>3. CASE n \notin DOMAIN view[w]
    BY <2>1, <2>3 DEF Contract!Hears
  <2>4. CASE n \in DOMAIN view[w] /\ Emitted(n, view[w][n]) = <<>>
    <3>1. told'[n] = told[n]
      BY <2>1, <2>2, <2>4, ConcatEmptySeq
    <3>2. seen[n] # Unseen
      BY <2>4 DEF Emitted, Event
    <3>3. QED
      BY <3>1, <3>2 DEF Contract!Hears
  <2>5. CASE n \in DOMAIN view[w] /\ Emitted(n, view[w][n]) # <<>>
    <3>1. view[w][n] \in Versions
      BY <1>0, <2>5 DEF DataInv
    <3>2. /\ Emitted(n, view[w][n]) \in Seq(Events)
          /\ Len(Emitted(n, view[w][n])) = 1
      BY <2>5, <3>1, EmittedTyped DEF Emitted, Event
    <3>3. seen'[n] # seen[n]
      BY <2>1, <2>5, <3>1 DEF Emitted, Versions, Unseen
    <3>4. /\ Len(told'[n]) = Len(told[n]) + 1
          /\ SubSeq(told'[n], 1, Len(told[n])) = told[n]
      BY <2>1, <2>2, <2>5, <3>2, AppendOne
    <3>5. QED
      BY <3>3, <3>4 DEF Contract!Hears
  <2>6. QED
    BY <2>3, <2>4, <2>5
<1>5. QED
  BY <1>2, <1>3, <1>4 DEF Contract!Deliver, Reported

LEMMA FailureMisses ==
  ASSUME IInv, NEW w \in Workers, RecordFailure(w)
  PROVE  Contract!Miss
<1>1. copy[w] = failures
  BY DEF IInv, ReadIsFresh, RecordFailure, Working
<1>2. QED
  BY <1>1 DEF RecordFailure, Contract!Miss, runVars, inboxVars

LEMMA DeliveryReports ==
  ASSUME IInv, NEW k \in Occurrences, GraphDelivers(k)
  PROVE  Contract!Report
<1>1. PICK cited \in SUBSET Notices : report' = [report EXCEPT ![k] = cited]
  BY DEF GraphDelivers
<1>2. Reported \subseteq Reported'
  BY CycleAssumption, <1>1 DEF IInv, TypeOK, Reported
<1>3. QED
  BY <1>2 DEF GraphDelivers, Contract!Report, Reported, subVars, inboxVars

LEMMA StepIsContractStep ==
  ASSUME IInv, [Next]_vars
  PROVE  [Contract!Next]_(Contract!contract)
<1> DEFINE Same == UNCHANGED <<status, next, failures, report, seen, told>>
<1>0. Same => UNCHANGED Contract!contract
  BY DEF Contract!contract
<1>1. ASSUME NEW w \in Workers,
             Tick(w) \/ Step(w) \/ Raise(w) \/ TickTimesOut(w) \/ WorkerCrashes(w)
      PROVE  Contract!Next \/ Same
  <2>1. CASE Consume(w)
    BY <2>1, ConsumeDelivers DEF Contract!Next
  <2>2. CASE RecordFailure(w)
    BY <2>2, FailureMisses DEF Contract!Next
  <2>3. CASE ~Consume(w) /\ ~RecordFailure(w)
    BY <1>1, <2>3 DEF Tick, Step, AcquireLock, ReadSubscription, CreateRun, ExecuteRun, AutoConfirm,
       ReportGate, Release, SessionEnds, Raise, TickTimesOut, WorkerCrashes, subVars, runVars, inboxVars
  <2>4. QED
    BY <2>1, <2>2, <2>3
<1>2. ASSUME NEW k \in Occurrences, Graph(k) PROVE Contract!Next \/ Same
  <2>1. CASE GraphDelivers(k)
    BY <2>1, DeliveryReports DEF Contract!Next
  <2>2. CASE ~GraphDelivers(k)
    BY <1>2, <2>2 DEF Graph, GraphPauses, GraphCompletes, GraphFails, subVars, inboxVars
  <2>3. QED
    BY <2>1, <2>2
<1>3. ASSUME Elsewhere PROVE Contract!Next \/ Same
  <2>1. CASE Pause \/ Resume
    BY <2>1 DEF Pause, Resume, Contract!Next, Contract!Switch, runVars, inboxVars
  <2>2. CASE ~Pause /\ ~Resume
    BY <1>3, <2>2 DEF Elsewhere, ApiCrashes, Sweep, OperatorRetries, OperatorConfirms, Import,
       OccurrenceComesDue, subVars, runVars, inboxVars
  <2>3. QED
    BY <2>1, <2>2
<1>4. UNCHANGED vars => Same
  BY DEF vars, subVars, runVars, inboxVars
<1>5. Contract!Next \/ Same
  BY <1>1, <1>2, <1>3, <1>4, StepsOfNext
<1>6. QED
  BY <1>0, <1>5

(* The cycle, with its locks, ticks, runs and crashes, keeps what          *)
(* SubscriptionContract promises: an occurrence is consumed once, in order *)
(* and by a report, and the failures are counted in a row.                 *)
THEOREM CycleKeepsContract == Spec => ImplementsContract
<1>1. Init => Contract!Init
  BY DEF Init, Contract!Init
<1>2. IInv /\ [Next]_vars => [Contract!Next]_(Contract!contract)
  BY StepIsContractStep
<1>3. QED
  BY <1>1, <1>2, Invariance, PTL DEF Spec, ImplementsContract, Contract!Spec

-----------------------------------------------------------------------------
(* What the inbox heard of a notice, t, fits the version compared last, s, *)
(* and never runs ahead of it.                                             *)
Agrees(t, s) ==
    /\ t = <<>> <=> s = Unseen
    /\ \A i \in DOMAIN t :
          /\ t[i].kind = IF i = 1 THEN "new_notice" ELSE "material_change"
          /\ \A j \in 1..(i - 1) : t[j].version < t[i].version
    /\ t # <<>> => /\ Published[t[Len(t)].version] = Published[s]
                   /\ t[Len(t)].version <= s

(* The seen item never runs ahead of what is imported; and what a worker   *)
(* is about to compare is no older than what was compared last, because    *)
(* nobody else compares in the meantime.                                   *)
InboxInv ==
    /\ \A n \in Notices : Agrees(told[n], seen[n]) /\ seen[n] <= Latest(n)
    /\ \A w \in Workers : pc[w] = "diff" => \A n \in DOMAIN view[w] :
          seen[n] <= view[w][n] /\ view[w][n] <= Latest(n)

LEMMA VersionsAreNumbers ==
  /\ \A v \in Versions : v \in Nat /\ v # Unseen
  /\ Unseen \in Nat
  /\ \A event \in Events : event.version \in Versions
<1>1. (\A v \in Versions : v \in Nat /\ v # Unseen) /\ Unseen \in Nat
  BY CycleAssumption DEF Versions, Unseen
<1>2. \A event \in Events : event.version \in Versions
  BY DEF Events
<1>3. QED
  BY <1>1, <1>2

LEMMA InitInbox == Init => InboxInv
<1> SUFFICES ASSUME Init PROVE InboxInv
  OBVIOUS
<1>1. \A n \in Notices : told[n] = <<>> /\ seen[n] = Unseen /\ Latest(n) = 1
  BY DEF Init, Latest
<1>2. \A w \in Workers : pc[w] # "diff"
  BY DEF Init
<1>3. Agrees(<<>>, Unseen)
  BY DEF Agrees
<1>4. QED
  BY <1>1, <1>2, <1>3 DEF InboxInv, Unseen

(* A step that neither compares nor imports, nor starts to compare.        *)
LEMMA QuietKeepsInbox ==
  ASSUME InboxInv, UNCHANGED <<versions, seen, told>>,
         \A v \in Workers : pc'[v] = "diff" => pc[v] = "diff" /\ view'[v] = view[v]
  PROVE  InboxInv'
BY DEF InboxInv, Latest

(* An event about a version that is newer than the one compared last.      *)
LEMMA EventAgrees ==
  ASSUME NEW t \in Seq(Events), NEW s \in Versions \cup {Unseen}, Agrees(t, s),
         NEW v \in Versions, s < v
  PROVE  Agrees(t \o Event(IF s = Unseen THEN "new_notice" ELSE "material_change", v), v)
<1> DEFINE e == Event(IF s = Unseen THEN "new_notice" ELSE "material_change", v)
           u == t \o e
<1>0. v \in Nat /\ s \in Nat /\ v # Unseen
  BY VersionsAreNumbers
<1>1. /\ e \in Seq(Events) /\ Len(e) = 1 /\ e[1].version = v
      /\ e[1].kind = IF s = Unseen THEN "new_notice" ELSE "material_change"
  BY DEF Event, Events
<1>2. /\ u \in Seq(Events) /\ Len(u) = Len(t) + 1 /\ Len(t) \in Nat
      /\ \A i \in 1..Len(t) : u[i] = t[i]
      /\ u[Len(t) + 1] = e[1]
  BY <1>1, ConcatProperties
<1> HIDE DEF e, u
<1>3. \A j \in 1..Len(t) : t[j].version \in Nat
  <2>1. \A j \in 1..Len(t) : t[j] \in Events
    OBVIOUS
  <2>2. QED
    BY <2>1, VersionsAreNumbers
<1>4. \A j \in 1..Len(t) : t[j].version < v
  <2> SUFFICES ASSUME NEW j \in 1..Len(t) PROVE t[j].version < v
    OBVIOUS
  <2>1. t # <<>> /\ Len(t) \in 1..Len(t) /\ DOMAIN t = 1..Len(t)
    OBVIOUS
  <2>2. t[Len(t)].version <= s
    BY <2>1 DEF Agrees
  <2>3. t[j].version <= t[Len(t)].version
    <3>1. CASE j = Len(t)
      BY <1>0, <1>3, <3>1
    <3>2. CASE j # Len(t)
      <4>1. j \in 1..(Len(t) - 1)
        BY <3>2
      <4>2. t[j].version < t[Len(t)].version
        BY <2>1, <4>1 DEF Agrees
      <4>3. QED
        BY <1>0, <1>3, <2>1, <4>2
    <3>3. QED
      BY <3>1, <3>2
  <2>4. QED
    BY <1>0, <1>3, <2>1, <2>2, <2>3
<1>5. ASSUME NEW i \in DOMAIN u
      PROVE  /\ u[i].kind = IF i = 1 THEN "new_notice" ELSE "material_change"
             /\ \A j \in 1..(i - 1) : u[j].version < u[i].version
  <2>1. i \in 1..(Len(t) + 1) /\ DOMAIN t = 1..Len(t)
    BY <1>2
  <2>2. CASE i \in 1..Len(t)
    <3>1. u[i] = t[i] /\ \A j \in 1..(i - 1) : u[j] = t[j]
      BY <1>2, <2>2
    <3>2. QED
      BY <2>1, <2>2, <3>1 DEF Agrees
  <2>3. CASE i = Len(t) + 1
    <3>1. u[i] = e[1] /\ \A j \in 1..(i - 1) : j \in 1..Len(t) /\ u[j] = t[j]
      BY <1>2, <2>3
    <3>2. i = 1 <=> s = Unseen
      BY <1>2, <2>3 DEF Agrees
    <3>3. QED
      BY <1>1, <1>4, <3>1, <3>2
  <2>4. QED
    BY <1>2, <2>1, <2>2, <2>3
<1>6. u # <<>> /\ v # Unseen /\ u[Len(u)].version = v
  BY <1>0, <1>1, <1>2
<1>7. Agrees(u, v)
  BY <1>0, <1>5, <1>6 DEF Agrees
<1>8. QED
  BY <1>7 DEF u, e

(* What a comparison leaves behind for one notice.                         *)
LEMMA NoticeCompared ==
  ASSUME IInv, InboxInv, NEW w \in Workers, Consume(w), NEW n \in Notices
  PROVE  Agrees(told'[n], seen'[n]) /\ seen'[n] <= Latest(n)
<1>0. TickInv /\ DataInv
  BY InvariantSplits
<1>1. /\ told'[n] = IF n \in DOMAIN view[w]
                    THEN told[n] \o Emitted(n, view[w][n]) ELSE told[n]
      /\ seen'[n] = IF n \in DOMAIN view[w] THEN view[w][n] ELSE seen[n]
      /\ pc[w] = "diff"
  BY DEF Consume, AdvanceSeen
<1>2. /\ told[n] \in Seq(Events) /\ seen[n] \in Versions \cup {Unseen}
      /\ Agrees(told[n], seen[n]) /\ seen[n] <= Latest(n)
  BY <1>0 DEF DataInv, InboxInv
<1>3. CASE n \notin DOMAIN view[w]
  BY <1>1, <1>2, <1>3
<1>4. CASE n \in DOMAIN view[w]
  <2> DEFINE v == view[w][n]
  <2>1. v \in Versions /\ seen[n] <= v /\ v <= Latest(n)
    BY <1>0, <1>1, <1>4 DEF DataInv, InboxInv
  <2>1a. v \in Nat /\ v # Unseen /\ seen[n] \in Nat
    BY VersionsAreNumbers, <1>2, <2>1
  <2>2. seen'[n] = v /\ told'[n] = told[n] \o Emitted(n, v)
    BY <1>1, <1>4
  <2> HIDE DEF v
  <2>3. CASE Emitted(n, v) = <<>>
    <3>1. told'[n] = told[n]
      BY <1>2, <2>2, <2>3, ConcatEmptySeq
    <3>2. seen[n] # Unseen /\ Published[seen[n]] = Published[v]
      BY <2>3 DEF Emitted, Event, MaterialChange
    <3>3. told[n] # <<>> /\ told[n][Len(told[n])] \in Events
      BY <1>2, <3>2 DEF Agrees
    <3>4. told[n][Len(told[n])].version <= v
      <4>1. told[n][Len(told[n])].version \in Nat
        BY VersionsAreNumbers, <3>3
      <4>2. told[n][Len(told[n])].version <= seen[n]
        BY <1>2, <3>3 DEF Agrees
      <4>3. QED
        BY <2>1a, <2>1, <4>1, <4>2
    <3>5. Agrees(told[n], v)
      BY <1>2, <2>1a, <3>2, <3>3, <3>4 DEF Agrees
    <3>6. QED
      BY <2>1, <2>2, <3>1, <3>5
  <2>4. CASE Emitted(n, v) # <<>>
    <3>1. Emitted(n, v) = Event(IF seen[n] = Unseen THEN "new_notice" ELSE "material_change", v)
      BY <2>4 DEF Emitted
    <3>2. seen[n] # v
      BY <2>1a, <2>4 DEF Emitted
    <3>3. seen[n] < v
      BY <2>1a, <2>1, <3>2
    <3>4. QED
      BY <1>2, <2>1, <2>2, <3>1, <3>3, EventAgrees
  <2>5. QED
    BY <2>3, <2>4
<1>5. QED
  BY <1>3, <1>4

LEMMA ConsumeKeepsInbox ==
  ASSUME IInv, InboxInv, NEW w \in Workers, Consume(w)
  PROVE  InboxInv'
<1>0. TickInv
  BY InvariantSplits
<1>1. \A n \in Notices : Agrees(told'[n], seen'[n]) /\ seen'[n] <= Latest(n)'
  BY NoticeCompared DEF Consume, Latest
<1>2. \A v \in Workers : pc'[v] # "diff"
  BY <1>0, AloneAtNext DEF Consume, Leave, Goto, TickInv, Working
<1>3. QED
  BY <1>1, <1>2 DEF InboxInv

LEMMA NextKeepsInbox == IInv /\ InboxInv /\ [Next]_vars => InboxInv'
<1> SUFFICES ASSUME IInv, InboxInv, [Next]_vars PROVE InboxInv'
  OBVIOUS
<1>0. TickInv /\ DataInv
  BY InvariantSplits
<1>1. CASE \E w \in Workers : Consume(w)
  BY <1>1, ConsumeKeepsInbox
<1>2. CASE \E w \in Workers : ReportGate(w)
  <2>1. PICK w \in Workers : ReportGate(w)
    BY <1>2
  <2>2. CASE report[job[w]] = NoReport
    BY <1>0, <2>1, <2>2, QuietKeepsInbox DEF ReportGate, Goto, inboxVars, TickInv
  <2>3. CASE report[job[w]] # NoReport
    <3>1. /\ view' = [view EXCEPT ![w] = [n \in report[job[w]] |-> Latest(n)]]
          /\ pc' = [pc EXCEPT ![w] = "diff"]
          /\ UNCHANGED <<versions, seen, told>>
      BY <2>1, <2>3 DEF ReportGate, Goto, inboxVars
    <3>2. job[w] \in Occurrences
      BY <1>0, <2>1 DEF ReportGate, TickInv, LockHeld
    <3>3. report[job[w]] \in SUBSET Notices
      BY <1>0, <2>3, <3>2 DEF DataInv
    <3>4. \A n \in Notices : (Agrees(told[n], seen[n]) /\ seen[n] <= Latest(n))'
      BY <3>1 DEF InboxInv, Latest
    <3>5. \A n \in Notices : Latest(n) \in Nat
      BY <1>0 DEF DataInv, Versions
    <3>6. ASSUME NEW v \in Workers, pc'[v] = "diff", NEW n \in DOMAIN view'[v]
          PROVE  seen[n] <= view'[v][n] /\ view'[v][n] <= Latest(n)
      <4>1. CASE v = w
        BY <1>0, <3>1, <3>3, <3>5, <3>6, <4>1 DEF DataInv, InboxInv
      <4>2. CASE v # w
        BY <1>0, <3>1, <3>6, <4>2 DEF DataInv, TickInv, InboxInv
      <4>3. QED
        BY <4>1, <4>2
    <3>7. QED
      BY <3>1, <3>4, <3>6 DEF InboxInv, Latest
  <2>4. QED
    BY <2>2, <2>3
<1>3. CASE \E n \in Notices : Import(n)
  <2>1. PICK n \in Notices, order \in Orders : versions' = [versions EXCEPT ![n] = Append(@, order)]
    BY <1>3 DEF Import
  <2>2. UNCHANGED <<pc, view, seen, told>>
    BY <1>3 DEF Import, tickVars, inboxVars
  <2>3. \A m \in Notices : Latest(m)' \in Nat /\ Latest(m) \in Nat /\ Latest(m) <= Latest(m)'
    BY <1>0, <2>1 DEF DataInv, Latest, Versions
  <2>4. \A m \in Notices : Agrees(told'[m], seen'[m])
    BY <2>2 DEF InboxInv
  <2>5. \A m \in Notices : seen[m] \in Nat
    BY <1>0 DEF DataInv, Versions, Unseen
  <2>6. \A v \in Workers : \A m \in DOMAIN view[v] : m \in Notices /\ view[v][m] \in Nat
    BY <1>0 DEF DataInv, Versions
  <2>7. QED
    BY <2>2, <2>3, <2>4, <2>5, <2>6 DEF InboxInv
<1>4. CASE /\ ~\E w \in Workers : Consume(w) \/ ReportGate(w)
           /\ ~\E n \in Notices : Import(n)
  <2>1. UNCHANGED <<versions, seen, told>>
    BY <1>4 DEF Next, Step, Graph, Tick, AcquireLock, ReadSubscription, CreateRun, ExecuteRun,
       AutoConfirm, RecordFailure, Release, SessionEnds, Raise, TickTimesOut, WorkerCrashes,
       GraphPauses, GraphDelivers, GraphCompletes, GraphFails, ApiCrashes, Sweep, OperatorRetries,
       OperatorConfirms, Pause, Resume, OccurrenceComesDue, vars, inboxVars
  <2>2. \/ UNCHANGED <<pc, view>>
        \/ \E w \in Workers, phase \in Phases \ {"diff"} :
              /\ pc' = [pc EXCEPT ![w] = phase]
              /\ UNCHANGED view \/ view' = [view EXCEPT ![w] = NoView]
    <3>1. ASSUME NEW w \in Workers,
                 Tick(w) \/ Step(w) \/ Raise(w) \/ TickTimesOut(w) \/ WorkerCrashes(w)
          PROVE  \E phase \in Phases \ {"diff"} :
                    /\ pc' = [pc EXCEPT ![w] = phase]
                    /\ UNCHANGED view \/ view' = [view EXCEPT ![w] = NoView]
      BY <1>4, <3>1 DEF Tick, Step, AcquireLock, ReadSubscription, CreateRun, ExecuteRun, AutoConfirm,
         RecordFailure, Release, SessionEnds, Raise, TickTimesOut, WorkerCrashes, Idle, Leave, Goto, Phases
    <3>2. ASSUME NEW k \in Occurrences, Graph(k)
          PROVE  /\ UNCHANGED view
                 /\ UNCHANGED pc \/ \E w \in Workers, phase \in Phases \ {"diff"} :
                                         pc' = [pc EXCEPT ![w] = phase]
      BY <3>2 DEF Graph, GraphPauses, GraphDelivers, GraphCompletes, GraphFails, Returns, Goto,
         tickVars, Phases
    <3>3. Elsewhere \/ UNCHANGED vars => UNCHANGED <<pc, view>>
      BY DEF Elsewhere, ApiCrashes, Sweep, OperatorRetries, OperatorConfirms, Import, Pause, Resume,
         OccurrenceComesDue, tickVars, vars
    <3>4. QED
      BY <3>1, <3>2, <3>3, StepsOfNext
  <2>3. \A v \in Workers : pc'[v] = "diff" => pc[v] = "diff" /\ view'[v] = view[v]
    BY <1>0, <2>2 DEF TickInv, DataInv
  <2>4. QED
    BY <2>1, <2>3, QuietKeepsInbox
<1>5. QED
  BY <1>1, <1>2, <1>3, <1>4

(* The inbox and the seen items agree, whatever is imported while a cycle  *)
(* runs and wherever one is cut off: the first event announces a notice,   *)
(* no version is told twice, and nothing material is passed over.          *)
THEOREM InboxAgrees == Spec => []InboxMatchesSeen
<1>1. Init => InboxInv
  BY InitInbox
<1>2. IInv /\ InboxInv /\ [Next]_vars => InboxInv'
  BY NextKeepsInbox
<1>3. InboxInv => InboxMatchesSeen
  BY DEF InboxInv, InboxMatchesSeen, Agrees
<1>4. QED
  BY <1>1, <1>2, <1>3, Invariance, PTL DEF Spec
=============================================================================
