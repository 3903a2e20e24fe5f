------------------------- MODULE RunServiceProofs -------------------------
(***************************************************************************)
(* Theorems about RunService, for any number of handlers, keys and slots.  *)
(***************************************************************************)
EXTENDS RunService, FiniteSetTheorems, TLAPS

(* Who is about to schedule a run has created it, alone, and it has no     *)
(* task yet: the row that the unique key admitted is never taken back.     *)
CreatedInv ==
    /\ \A k \in Keys : status[k] = "absent" => task[k] = "none"
    /\ \A h \in Requests : at[h] = "created" =>
          /\ status[key[h]] # "absent" /\ task[key[h]] = "none"
          /\ \A i \in Requests \ {h} : at[i] = "created" => key[i] # key[h]

(* A shutdown forgets the slots of tasks that have not started; until then *)
(* the counter is exact, and afterwards it errs on the safe side.          *)
SlotsInv ==
    /\ Cardinality(Holders) <= reserved
    /\ ~draining => reserved = Cardinality(Holders)

IInv == TypeOK /\ CreatedInv /\ SlotsInv

-----------------------------------------------------------------------------
(* Holders                                                                 *)

LEMMA HoldersFinite ==
  /\ IsFiniteSet(Holders) /\ Cardinality(Holders) \in Nat
<1>1. IsFiniteSet(Requests \cup Keys)
  BY ServiceAssumption, FS_Union
<1>2. Holders \subseteq Requests \cup Keys
  BY DEF Holders
<1>3. QED
  BY <1>1, <1>2, FS_Subset, FS_CardinalityType

LEMMA HandlerMoves ==
  ASSUME TypeOK, NEW h \in Requests, NEW p, at' = [at EXCEPT ![h] = p], task' = task
  PROVE  /\ h \in Holders <=> at[h] \in HeldAt
         /\ p \in HeldAt => Holders' = Holders \cup {h}
         /\ p \notin HeldAt => Holders' = Holders \ {h}
         /\ (at[h] \in HeldAt <=> p \in HeldAt) => Holders' = Holders
BY ServiceAssumption DEF Holders, TypeOK

LEMMA TaskMoves ==
  ASSUME TypeOK, NEW k \in Keys, NEW p, task' = [task EXCEPT ![k] = p], at' = at
  PROVE  /\ k \in Holders <=> task[k] \in HeldBy
         /\ p \in HeldBy => Holders' = Holders \cup {k}
         /\ p \notin HeldBy => Holders' = Holders \ {k}
         /\ (task[k] \in HeldBy <=> p \in HeldBy) => Holders' = Holders
BY ServiceAssumption DEF Holders, TypeOK

(* What happens to the counter when a slot is kept, taken or given back.   *)
LEMMA SlotKept ==
  ASSUME SlotsInv, Holders' = Holders, reserved' = reserved, draining' = draining
  PROVE  SlotsInv'
BY DEF SlotsInv

LEMMA SlotTaken ==
  ASSUME TypeOK, SlotsInv, NEW x, x \notin Holders, Holders' = Holders \cup {x},
         reserved' = reserved + 1, draining' = draining
  PROVE  SlotsInv'
<1>1. Cardinality(Holders') = Cardinality(Holders) + 1
  BY HoldersFinite, FS_AddElement
<1>2. QED
  BY <1>1, HoldersFinite DEF SlotsInv, TypeOK

LEMMA SlotGivenBack ==
  ASSUME TypeOK, SlotsInv, NEW x, x \in Holders, Holders' = Holders \ {x},
         Release, draining' = draining
  PROVE  SlotsInv' /\ reserved' \in 0..Limit
<1>1. Cardinality(Holders') = Cardinality(Holders) - 1
  BY HoldersFinite, FS_RemoveElement
<1>2. Cardinality(Holders) # 0
  BY HoldersFinite, FS_EmptySet
<1>3. reserved \in 0..Limit /\ Limit \in Nat
  BY ServiceAssumption DEF TypeOK
<1>4. reserved > 0 /\ reserved' = reserved - 1
  BY <1>2, <1>3, HoldersFinite DEF SlotsInv, Release
<1>5. QED
  BY <1>1, <1>3, <1>4, HoldersFinite DEF SlotsInv

-----------------------------------------------------------------------------
LEMMA InitIInv == Init => IInv
<1> SUFFICES ASSUME Init PROVE IInv
  OBVIOUS
<1>1. TypeOK
  <2>1. draining \in BOOLEAN
    BY DEF Init
  <2>2. reserved \in 0..Limit
    BY ServiceAssumption DEF Init
  <2>3. QED
    BY <2>1, <2>2 DEF Init, TypeOK
<1>2. CreatedInv
  BY DEF Init, CreatedInv
<1>3. Holders = {}
  BY DEF Init, Holders, HeldAt, HeldBy, Claiming
<1>4. SlotsInv
  BY <1>3, FS_EmptySet DEF Init, SlotsInv
<1>5. QED
  BY <1>1, <1>2, <1>4 DEF IInv

(* A handler goes on to a place other than "created": the run it is about  *)
(* keeps its task, and its row is not taken back.                          *)
LEMMA HandlerKeepsCreated ==
  ASSUME IInv, NEW h \in Requests, NEW p, p # "created", at' = [at EXCEPT ![h] = p],
         key' = key \/ (\E k \in Keys : key' = [key EXCEPT ![h] = k]), task' = task,
         \A k \in Keys : status'[k] = "absent" => status[k] = "absent"
  PROVE  CreatedInv'
BY DEF IInv, TypeOK, CreatedInv

(* A handler that goes from one place without a slot to another, or from   *)
(* one with a slot to another.                                             *)
LEMMA HandlerKeepsSlots ==
  ASSUME IInv, NEW h \in Requests, NEW p, at' = [at EXCEPT ![h] = p], task' = task,
         at[h] \in HeldAt <=> p \in HeldAt, reserved' = reserved, draining' = draining
  PROVE  SlotsInv'
<1>1. Holders' = Holders
  BY HandlerMoves DEF IInv
<1>2. QED
  BY <1>1, SlotKept DEF IInv

-----------------------------------------------------------------------------
(* The steps                                                               *)

LEMMA PostKeepsInv ==
  ASSUME IInv, NEW h \in Requests, NEW k \in Keys, Post(h, k)
  PROVE  IInv'
<1>1. TypeOK'
  BY DEF IInv, TypeOK, Post, Go
<1>2. CreatedInv'
  BY HandlerKeepsCreated DEF Post, Go
<1>3. SlotsInv'
  BY HandlerKeepsSlots DEF Post, Go, HeldAt, Claiming
<1>4. QED
  BY <1>1, <1>2, <1>3 DEF IInv

LEMMA ReserveKeepsInv ==
  ASSUME IInv, NEW h \in Requests, NEW k \in Keys, NEW op \in Ops, Reserve(h, op, k)
  PROVE  IInv'
<1>0. op \in Claiming /\ op \in HeldAt /\ op # "created" /\ at[h] \notin HeldAt
  BY DEF Ops, Eligible, Claiming, HeldAt, Reserve
<1>1. TypeOK'
  BY <1>0, ServiceAssumption DEF IInv, TypeOK, Reserve, Go, Free
<1>2. CreatedInv'
  BY <1>0, HandlerKeepsCreated DEF Reserve, Go
<1>3. h \notin Holders /\ Holders' = Holders \cup {h}
  BY <1>0, HandlerMoves DEF IInv, Reserve, Go
<1>4. SlotsInv'
  BY <1>3, SlotTaken DEF IInv, Reserve
<1>5. QED
  BY <1>1, <1>2, <1>4 DEF IInv

LEMMA InsertKeepsInv ==
  ASSUME IInv, NEW h \in Requests, Insert(h)
  PROVE  IInv'
<1>1. TypeOK'
  BY DEF IInv, TypeOK, Insert, Go, Row
<1>2. CASE status[key[h]] = "absent"
  <2>1. CreatedInv'
    BY <1>2 DEF IInv, TypeOK, CreatedInv, Insert, Go, Row
  <2>2. SlotsInv'
    BY <1>2, HandlerKeepsSlots DEF Insert, Go, HeldAt, Claiming
  <2>3. QED
    BY <1>1, <2>1, <2>2 DEF IInv
<1>3. CASE status[key[h]] # "absent"
  <2>1. CreatedInv'
    BY <1>3, HandlerKeepsCreated DEF Insert, Go
  <2>2. SlotsInv'
    BY <1>3, HandlerKeepsSlots DEF Insert, Go, HeldAt, Claiming
  <2>3. QED
    BY <1>1, <2>1, <2>2 DEF IInv
<1>4. QED
  BY <1>2, <1>3

(* The reservation and the task come together, and only the creator of a   *)
(* run gets here, so the task is a new holder.                             *)
LEMMA ScheduleKeepsInv ==
  ASSUME IInv, NEW h \in Requests, Schedule(h)
  PROVE  IInv'
<1>1. CASE ~draining /\ Free
  <2> DEFINE k == key[h]
  <2>0. /\ k \in Keys /\ at[h] = "created" /\ task[k] = "none"
        /\ at' = [at EXCEPT ![h] = "idle"] /\ task' = [task EXCEPT ![k] = "scheduled"]
        /\ reserved' = reserved + 1 /\ UNCHANGED <<status, by, key, draining>>
    BY <1>1 DEF Schedule, Go, IInv, TypeOK, CreatedInv
  <2>1. TypeOK'
    BY <2>0, <1>1, ServiceAssumption DEF IInv, TypeOK, Free, HeldBy
  <2>2. CreatedInv'
    BY <2>0 DEF IInv, TypeOK, CreatedInv
  <2>3. k \notin Holders /\ Holders' = Holders \cup {k}
    BY <2>0, ServiceAssumption DEF IInv, TypeOK, Holders, HeldAt, HeldBy, Claiming
  <2>4. SlotsInv'
    BY <2>0, <2>3, SlotTaken DEF IInv
  <2>5. QED
    BY <2>1, <2>2, <2>4 DEF IInv
<1>2. CASE ~(~draining /\ Free)
  <2>1. TypeOK'
    BY <1>2 DEF IInv, TypeOK, Schedule, Go
  <2>2. CreatedInv'
    BY <1>2, HandlerKeepsCreated DEF Schedule, Go
  <2>3. SlotsInv'
    BY <1>2, HandlerKeepsSlots DEF Schedule, Go, HeldAt, Claiming
  <2>4. QED
    BY <2>1, <2>2, <2>3 DEF IInv
<1>3. QED
  BY <1>1, <1>2

\* A row that is written is there, and nothing else about absence changes.
LEMMA RowStays ==
  ASSUME TypeOK, NEW k \in Keys, NEW s \in Outcomes \cup {"pending", "running"},
         NEW o \in Requests \cup {Task, Nobody}, Row(k, s, o)
  PROVE  /\ \A j \in Keys : status'[j] = "absent" => status[j] = "absent"
         /\ status' \in [Keys -> Outcomes \cup {"absent", "pending", "running"}]
         /\ by' \in [Keys -> Requests \cup {Task, Nobody}]
BY DEF TypeOK, Row, Outcomes

LEMMA ConcludeStays ==
  ASSUME TypeOK, NEW k \in Keys, NEW o \in Requests \cup {Task}, Conclude(k, o)
  PROVE  /\ \A j \in Keys : status'[j] = "absent" => status[j] = "absent"
         /\ status' \in [Keys -> Outcomes \cup {"absent", "pending", "running"}]
         /\ by' \in [Keys -> Requests \cup {Task, Nobody}]
<1>1. CASE \E s \in Outcomes : Row(k, s, Nobody)
  BY <1>1, RowStays
<1>2. CASE UNCHANGED <<status, by>>
  BY <1>2 DEF TypeOK
<1>3. QED
  BY <1>1, <1>2 DEF Conclude

(* The other steps of a handler, which keep its slot or its lack of one.   *)
LEMMA QuietHandlerKeepsInv ==
  ASSUME IInv, NEW h \in Requests,
         Bounce(h) \/ PostFails(h) \/ Claim(h) \/ ClaimCancelled(h) \/ RequestConcludes(h)
  PROVE  IInv'
<1> DEFINE Stays == /\ \A j \in Keys : status'[j] = "absent" => status[j] = "absent"
                    /\ status' \in [Keys -> Outcomes \cup {"absent", "pending", "running"}]
                    /\ by' \in [Keys -> Requests \cup {Task, Nobody}]
<1>0. key[h] \in Keys /\ TypeOK
  BY DEF IInv, TypeOK
<1>1. Stays
  <2>1. CASE UNCHANGED <<status, by>>
    BY <2>1, <1>0 DEF TypeOK
  <2>2. CASE \E s \in {"retryable", "running"} : Row(key[h], s, Nobody)
    BY <2>2, <1>0, RowStays DEF Outcomes
  <2>3. CASE Row(key[h], "running", h)
    BY <2>3, <1>0, RowStays
  <2>4. CASE Conclude(key[h], h)
    BY <2>4, <1>0, ConcludeStays
  <2>5. QED
    BY <2>1, <2>2, <2>3, <2>4 DEF Bounce, PostFails, Claim, ClaimCancelled, RequestConcludes
<1>2. PICK p \in HeldAt \cup {"idle"} :
         /\ at' = [at EXCEPT ![h] = p] /\ (at[h] \in HeldAt <=> p \in HeldAt)
         /\ UNCHANGED <<key, task, reserved, draining>>
  BY DEF Bounce, PostFails, Claim, ClaimCancelled, RequestConcludes, Go, HeldAt, Claiming
<1>3. p # "created"
  BY DEF HeldAt, Claiming
<1>4. TypeOK'
  BY <1>0, <1>1, <1>2 DEF TypeOK
<1>5. CreatedInv'
  BY <1>1, <1>2, <1>3, HandlerKeepsCreated
<1>6. SlotsInv'
  BY <1>2, HandlerKeepsSlots
<1>7. QED
  BY <1>4, <1>5, <1>6 DEF IInv

LEMMA RequestLeavesKeepsInv ==
  ASSUME IInv, NEW h \in Requests, RequestLeaves(h)
  PROVE  IInv'
<1>0. at[h] \in HeldAt /\ "idle" \notin HeldAt
  BY DEF RequestLeaves, HeldAt, Claiming
<1>1. h \in Holders /\ Holders' = Holders \ {h}
  BY <1>0, HandlerMoves DEF IInv, RequestLeaves, Go
<1>2. SlotsInv' /\ reserved' \in 0..Limit
  BY <1>1, SlotGivenBack DEF IInv, RequestLeaves
<1>3. TypeOK'
  BY <1>2 DEF IInv, TypeOK, RequestLeaves, Go
<1>4. CreatedInv'
  BY HandlerKeepsCreated DEF RequestLeaves, Go
<1>5. QED
  BY <1>2, <1>3, <1>4 DEF IInv

LEMMA TaskKeepsInv ==
  ASSUME IInv, NEW k \in Keys, TaskStep(k)
  PROVE  IInv'
<1>0. TypeOK /\ task[k] # "none" /\ UNCHANGED <<at, key, draining>>
  BY DEF IInv, TaskStep, TaskStarts, TaskConcludes, TaskLeaves
<1>1. /\ \A j \in Keys : status'[j] = "absent" => status[j] = "absent"
      /\ status' \in [Keys -> Outcomes \cup {"absent", "pending", "running"}]
      /\ by' \in [Keys -> Requests \cup {Task, Nobody}]
  <2>1. CASE UNCHANGED <<status, by>>
    BY <2>1, <1>0 DEF TypeOK
  <2>2. CASE Row(k, "running", Task)
    BY <2>2, <1>0, RowStays
  <2>3. CASE Conclude(k, Task)
    BY <2>3, <1>0, ConcludeStays
  <2>4. QED
    BY <2>1, <2>2, <2>3 DEF TaskStep, TaskStarts, TaskConcludes, TaskLeaves
<1>2. PICK p \in {"running", "leaving", "done"} : task' = [task EXCEPT ![k] = p]
  BY DEF TaskStep, TaskStarts, TaskConcludes, TaskLeaves, TaskTo
<1>3. CreatedInv'
  BY <1>0, <1>1, <1>2 DEF IInv, TypeOK, CreatedInv
<1>4. SlotsInv' /\ reserved' \in 0..Limit
  <2>1. CASE TaskLeaves(k)
    <3>0. task[k] \in HeldBy /\ "done" \notin HeldBy
      BY <2>1 DEF TaskLeaves, HeldBy
    <3>1. k \in Holders /\ Holders' = Holders \ {k}
      BY <2>1, <3>0, <1>0, TaskMoves DEF TaskLeaves, TaskTo
    <3>2. QED
      BY <2>1, <3>1, <1>0, SlotGivenBack DEF IInv, TaskLeaves
  <2>2. CASE TaskStarts(k) \/ TaskConcludes(k)
    <3>1. \E q \in HeldBy : task[k] \in HeldBy /\ task' = [task EXCEPT ![k] = q]
      BY <2>2 DEF TaskStarts, TaskConcludes, TaskTo, HeldBy
    <3>2. Holders' = Holders
      BY <3>1, <1>0, TaskMoves
    <3>3. reserved' = reserved
      BY <2>2 DEF TaskStarts, TaskConcludes
    <3>4. QED
      BY <3>2, <3>3, <1>0, SlotKept DEF IInv, TypeOK
  <2>3. QED
    BY <2>1, <2>2 DEF TaskStep
<1>5. TypeOK'
  BY <1>0, <1>1, <1>2, <1>4 DEF TypeOK, HeldBy
<1>6. QED
  BY <1>3, <1>4, <1>5 DEF IInv

LEMMA HandBackKeepsInv ==
  ASSUME IInv, NEW k \in Keys, HandBack(k)
  PROVE  IInv'
<1>1. /\ \A j \in Keys : status'[j] = "absent" => status[j] = "absent"
      /\ status' \in [Keys -> Outcomes \cup {"absent", "pending", "running"}]
      /\ by' \in [Keys -> Requests \cup {Task, Nobody}]
  BY RowStays DEF IInv, HandBack, Outcomes
<1>2. TypeOK'
  BY <1>1 DEF IInv, TypeOK, HandBack
<1>3. CreatedInv'
  BY <1>1 DEF IInv, TypeOK, CreatedInv, HandBack
<1>4. Holders' = Holders
  BY DEF Holders, HandBack
<1>5. SlotsInv'
  BY <1>4, SlotKept DEF IInv, HandBack
<1>6. QED
  BY <1>2, <1>3, <1>5 DEF IInv

(* Tasks that have not started go and leave the counter where it is.       *)
LEMMA ShutdownKeepsInv ==
  ASSUME IInv, Shutdown
  PROVE  IInv'
<1>1. /\ \A j \in Keys : status'[j] = "absent" => status[j] = "absent"
      /\ status' \in [Keys -> Outcomes \cup {"absent", "pending", "running"}]
      /\ by' \in [Keys -> Requests \cup {Task, Nobody}]
  BY DEF IInv, TypeOK, Shutdown, Outcomes
<1>2. /\ \A k \in Keys : task[k] = "none" => task'[k] = "none"
      /\ \A k \in Keys : task'[k] \in HeldBy => task[k] \in HeldBy
      /\ task' \in [Keys -> HeldBy \cup {"none", "done"}]
  BY DEF IInv, TypeOK, Shutdown, HeldBy
<1>3. TypeOK'
  BY <1>1, <1>2 DEF IInv, TypeOK, Shutdown
<1>4. CreatedInv'
  BY <1>1, <1>2 DEF IInv, TypeOK, CreatedInv, Shutdown
<1>5. Holders' \subseteq Holders
  BY <1>2 DEF Holders, Shutdown
<1>6. Cardinality(Holders') <= Cardinality(Holders) /\ Cardinality(Holders') \in Nat
  BY <1>5, HoldersFinite, FS_Subset, FS_CardinalityType
<1>7. SlotsInv'
  BY <1>6, HoldersFinite DEF IInv, TypeOK, SlotsInv, Shutdown
<1>8. QED
  BY <1>3, <1>4, <1>7 DEF IInv

-----------------------------------------------------------------------------
LEMMA NextKeepsIInv == IInv /\ [Next]_vars => IInv'
<1> SUFFICES ASSUME IInv, [Next]_vars PROVE IInv'
  OBVIOUS
<1>1. CASE \E h \in Requests, k \in Keys : Post(h, k) \/ \E op \in Ops : Reserve(h, op, k)
  BY <1>1, PostKeepsInv, ReserveKeepsInv
<1>2. CASE \E h \in Requests : RequestStep(h)
  BY <1>2, InsertKeepsInv, ScheduleKeepsInv, QuietHandlerKeepsInv, RequestLeavesKeepsInv
     DEF RequestStep
<1>3. CASE \E k \in Keys : TaskStep(k) \/ HandBack(k)
  BY <1>3, TaskKeepsInv, HandBackKeepsInv
<1>4. CASE Shutdown
  BY <1>4, ShutdownKeepsInv
<1>5. CASE UNCHANGED vars
  BY <1>5 DEF vars, IInv, TypeOK, CreatedInv, SlotsInv, Holders
<1>6. QED
  BY <1>1, <1>2, <1>3, <1>4, <1>5 DEF Next

LEMMA Invariance == Spec => []IInv
<1>1. QED
  BY InitIInv, NextKeepsIInv, PTL DEF Spec

(* The rows, handlers, tasks and the counter of reservations stay in their *)
(* ranges; the counter never exceeds max_concurrent_runs.                  *)
THEOREM ServiceTypeCorrect == Spec => []TypeOK
<1>1. IInv => TypeOK
  BY DEF IInv
<1>2. QED
  BY <1>1, Invariance, PTL

(* Every reservation belongs to one call in progress, and no more calls    *)
(* hold one than max_concurrent_runs, also while the service shuts down.   *)
THEOREM SlotsAreExact == Spec => []SlotsMatchHolders
<1>1. IInv => SlotsMatchHolders
  BY HoldersFinite, ServiceAssumption DEF IInv, TypeOK, SlotsInv, SlotsMatchHolders
<1>2. QED
  BY <1>1, Invariance, PTL

(* However requests with one key race, the run gets one task.              *)
THEOREM WorkScheduledOnce == Spec => ScheduledOnce
<1>1. IInv /\ [Next]_vars =>
        [\A k \in Keys : task'[k] = "scheduled" /\ task[k] # "scheduled" =>
            task[k] = "none"]_vars
  <2> SUFFICES ASSUME IInv, [Next]_vars, NEW k \in Keys,
                      task'[k] = "scheduled", task[k] # "scheduled"
               PROVE  task[k] = "none"
    OBVIOUS
  <2>1. PICK h \in Requests : Schedule(h)
    <3>1. task' # task
      OBVIOUS
    <3>2. CASE \E h \in Requests : RequestStep(h)
      BY <3>1, <3>2 DEF RequestStep, Insert, Bounce, PostFails, Claim, ClaimCancelled,
                        RequestConcludes, RequestLeaves
    <3>3. CASE \E j \in Keys : TaskStep(j)
      BY <3>3 DEF TaskStep, TaskStarts, TaskConcludes, TaskLeaves, TaskTo, IInv, TypeOK
    <3>4. CASE Shutdown
      BY <3>4 DEF Shutdown, IInv, TypeOK
    <3>5. QED
      BY <3>1, <3>2, <3>3, <3>4 DEF Next, Post, Reserve, HandBack, vars
  <2>2. QED
    BY <2>1 DEF Schedule, IInv, TypeOK, CreatedInv
<1>2. QED
  BY <1>1, Invariance, PTL DEF Spec, ScheduledOnce
=============================================================================
