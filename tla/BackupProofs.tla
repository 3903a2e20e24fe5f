---------------------------- MODULE BackupProofs ----------------------------
(***************************************************************************)
(* Theorems about Backup, for any objects, checkpoints, commands, backups   *)
(* and retention limits.                                                   *)
(***************************************************************************)
EXTENDS Backup, FiniteSetTheorems, TLAPS

\* What a directory holds for its application rows, and for the checkpoints.
Named(dir) == dir.dumps["application"].application
Durable(dir) == dir.dumps["checkpoint"].checkpoint

\* A backup of one database has one dump for both roles.
OneDump(dir) == layout.source => dir.dumps["application"] = dir.dumps["checkpoint"]

\* A row is written after what it refers to.
SystemInv == rows \subseteq stored \cup saved

\* A create on its way: whatever the application dump names has been written
\* before the checkpoints are dumped, the objects listed and the files copied.
Underway(c) ==
    LET dir == backups[cli[c].dir] IN
    /\ cli[c].dir \in 1..MaxBackups /\ dir.state = "writing"
    /\ At(c, "dump") =>
         \/ cli[c].todo = Databases(layout.source)
         \/ /\ ~layout.source /\ cli[c].todo = <<"checkpoint">>
            /\ Named(dir) \subseteq stored \cup saved
    /\ cli[c].step \in {"list", "copy", "manifest"} => OneDump(dir)
    /\ At(c, "list") => Named(dir) \subseteq stored \cup Durable(dir)
    /\ At(c, "copy") => Named(dir) \subseteq Files(cli[c].listed) \cup Durable(dir)
    /\ At(c, "manifest") => Named(dir) \subseteq Files(dir.files) \cup Durable(dir)

\* Every create has a directory of its own.
CreateInv ==
    /\ \A c \in Commands : cli[c].step \in Creating => Underway(c)
    /\ \A c, e \in Commands :
         cli[c].step \in Creating /\ cli[e].step \in Creating /\ cli[c].dir = cli[e].dir => c = e
    /\ \A b \in 1..MaxBackups : Verified(b) => OneDump(backups[b])

Valid == {n \in 1..MaxBackups : Verified(n)}

\* What a prune is to take away stays expendable while others prune and create.
PruneInv ==
    /\ \A c \in Commands : \A b \in cli[c].doomed :
         /\ backups[b].state \in {"whole", "damaged", "gone"}
         /\ Verified(b) => Cardinality(NewerOf(b, Valid)) >= Limit[backups[b].class]
    /\ \A c \in Commands : At(c, "remove") =>
         cli[c].dir \in 1..MaxBackups /\ backups[cli[c].dir].state \in {"damaged", "gone"}

Restoring == {"restore", "objects", "compare", "restored"}

\* The application database is filled by one restore, which alone goes on.
Past(c) == \/ cli[c].step \in {"objects", "compare", "restored"}
           \/ At(c, "restore") /\ cli[c].todo = <<"checkpoint">>

Restores(c) ==
    /\ cli[c].step \in Restoring => OneDump(cli[c].manifest)
    /\ At(c, "restore") =>
         \/ cli[c].todo = TargetDatabases
         \/ ~layout.target /\ cli[c].todo = <<"checkpoint">>
    /\ Past(c) =>
         /\ target.state["application"] = "full"
         /\ target.dump["application"] = cli[c].manifest.dumps["application"]
    /\ Past(c) /\ cli[c].step \in {"restore", "objects"} => target.files = {}
    /\ cli[c].step \in {"objects", "compare", "restored"} /\ ~layout.target =>
         target.dump["checkpoint"] = cli[c].manifest.dumps["checkpoint"]
    /\ cli[c].step \in {"compare", "restored"} => target.files = cli[c].manifest.files
    /\ At(c, "restored") => cli[c].manifest.skewed = {}

RestoreInv ==
    /\ target.state["application"] # "full" => target.files = {}
    /\ \A c, e \in Commands : Past(c) /\ Past(e) => c = e
    /\ \A c \in Commands : Restores(c)

IInv == TypeOK /\ SystemInv /\ CreateInv /\ BackupResolves /\ PruneInv /\ RestoreInv

-----------------------------------------------------------------------------
(* Numbers and sets                                                        *)

\* A finite set of numbers that is not empty has a greatest one.
LEMMA HasGreatest ==
  ASSUME NEW S \in SUBSET Nat, IsFiniteSet(S), S # {}
  PROVE  \E m \in S : \A n \in S : m >= n
<1> DEFINE Greatest(T) == \E m \in T : \A n \in T : m >= n
           None == {T \in FiniteSubsetsOf(S) : T # {} /\ ~Greatest(T)}
<1>1. SUFFICES None = {}
  BY DEF FiniteSubsetsOf
<1>2. SUFFICES ASSUME None # {} PROVE FALSE
  OBVIOUS
<1>3. PICK T \in None : \A U \in None : <<U, T>> \notin StrictSubsetOrdering(S)
  <2> HIDE DEF None
  <2>1. None \subseteq FiniteSubsetsOf(S)
    BY DEF None
  <2> QED
    BY <1>2, <2>1, FS_StrictSubsetOrderingWellFounded, WFMin
<1>4. PICK x \in T : TRUE
  OBVIOUS
<1> DEFINE U == T \ {x}
<1>5. U \in FiniteSubsetsOf(S) /\ <<U, T>> \in StrictSubsetOrdering(S)
  <2>1. IsFiniteSet(U)
    BY FS_RemoveElement DEF FiniteSubsetsOf
  <2>2. T \subseteq S
    BY DEF FiniteSubsetsOf
  <2> QED
    BY <2>1, <2>2 DEF FiniteSubsetsOf, StrictSubsetOrdering
<1>6. U = {} \/ Greatest(U)
  BY <1>3, <1>5
<1>7. T \subseteq Nat
  BY DEF FiniteSubsetsOf
<1>8. CASE U = {}
  BY <1>4, <1>7, <1>8
<1>9. CASE Greatest(U)
  <2>1. PICK m \in U : \A n \in U : m >= n
    BY <1>9
  <2>2. CASE m >= x
    BY <2>1, <2>2, <1>7
  <2>3. CASE ~(m >= x)
    <3>1. \A n \in T : x >= n
      BY <2>1, <2>3, <1>4, <1>7
    <3> QED
      BY <3>1, <1>4
  <2> QED
    BY <2>2, <2>3
<1> QED
  BY <1>6, <1>8, <1>9

LEMMA MaxIsGreatest ==
  ASSUME NEW S \in SUBSET Nat, IsFiniteSet(S), S # {}
  PROVE  Max(S) \in S
BY HasGreatest DEF Max

\* The time of the next manifest.
LEMMA NewestIsNumber ==
  ASSUME backups \in [1..MaxBackups -> Directories], 1..MaxBackups # {}
  PROVE  Max({backups[b].at : b \in 1..MaxBackups}) \in Nat
<1> DEFINE T == {backups[b].at : b \in 1..MaxBackups}
           f == [b \in 1..MaxBackups |-> backups[b].at]
<1>1. T \in SUBSET Nat /\ T # {}
  BY DEF Directories
<1>2. IsFiniteSet(T)
  <2>1. f \in Surjection(1..MaxBackups, T)
    BY DEF Surjection
  <2>2. IsFiniteSet(1..MaxBackups)
    BY FS_Interval, BackupAssumption DEF BackupAssumption
  <2> QED
    BY <2>1, <2>2, FS_Surjection
<1> HIDE DEF T
<1>3. Max(T) \in T
  BY <1>1, <1>2, MaxIsGreatest
<1> QED
  BY <1>1, <1>3 DEF T

\* The backups in question are finitely many.
LEMMA ValidIsFinite ==
  ASSUME NEW b, NEW S \in SUBSET (1..MaxBackups)
  PROVE  /\ IsFiniteSet(S) /\ Cardinality(S) \in Nat
         /\ IsFiniteSet(NewerOf(b, S)) /\ Cardinality(NewerOf(b, S)) \in Nat
<1>1. IsFiniteSet(1..MaxBackups)
  BY FS_Interval, BackupAssumption DEF BackupAssumption
<1>2. IsFiniteSet(S)
  BY <1>1, FS_Subset
<1>3. IsFiniteSet(NewerOf(b, S))
  BY <1>2, FS_Subset DEF NewerOf
<1> QED
  BY <1>2, <1>3, FS_CardinalityType

-----------------------------------------------------------------------------
(* Directories and jobs as their commands change them                      *)

LEMMA Numbered == MaxBackups \in Nat /\ 1..MaxBackups \subseteq 0..MaxBackups
<1>1. MaxBackups \in Nat
  BY BackupAssumption DEF BackupAssumption
<1> QED
  BY <1>1

LEMMA NoBackupTyped ==
  /\ NoBackup \in Directories /\ NoDumps \in Dumps
  /\ NoBackup.state = "none" /\ NoBackup.dumps = NoDumps /\ NoBackup.files = {}
BY DEF NoBackup, Directories, States, Classes, NoDumps, NoData, Dumps, Roles

LEMMA NewDirectory ==
  ASSUME NEW class \in Classes
  PROVE  LET dir == [NoBackup EXCEPT !.state = "writing", !.class = class]
         IN  dir \in Directories /\ dir.state = "writing"
BY NoBackupTyped DEF Directories, States

LEMMA GoneDirectory ==
  LET dir == [NoBackup EXCEPT !.state = "gone"]
  IN  dir \in Directories /\ dir.state = "gone"
BY NoBackupTyped DEF Directories, States

LEMMA DamagedDirectory ==
  ASSUME NEW r \in Directories
  PROVE  [r EXCEPT !.state = "damaged"] \in Directories
BY DEF Directories, States

LEMMA DumpedDirectory ==
  ASSUME NEW r \in Directories, NEW dumps \in Dumps, NEW skewed \in SUBSET Roles
  PROVE  [r EXCEPT !.dumps = dumps, !.skewed = skewed] \in Directories
BY DEF Directories

LEMMA FilledDirectory ==
  ASSUME NEW r \in Directories, NEW files \in SUBSET StoreKeys
  PROVE  [r EXCEPT !.files = files] \in Directories
BY DEF Directories

LEMMA WholeDirectory ==
  ASSUME NEW r \in Directories, NEW n \in Nat
  PROVE  [r EXCEPT !.state = "whole", !.at = n] \in Directories
BY DEF Directories, States

Todos == {Databases(shared) : shared \in BOOLEAN} \cup {<<"checkpoint">>, <<>>}

LEMMA IdleTyped ==
  /\ Idle \in Jobs
  /\ Idle.step = "idle" /\ Idle.doomed = {}
BY NoBackupTyped, BackupAssumption DEF Idle, Jobs, Steps, BackupAssumption

LEMMA CreatingJob ==
  ASSUME NEW b \in 1..MaxBackups, NEW todo \in Todos
  PROVE  LET j == [Idle EXCEPT !.step = "dump", !.dir = b, !.todo = todo]
         IN  /\ j \in Jobs /\ j.step = "dump" /\ j.dir = b /\ j.todo = todo
             /\ j.doomed = {}
BY IdleTyped, Numbered DEF Jobs, Steps, Todos

LEMMA AdvancedJob ==
  ASSUME NEW r \in Jobs, NEW step \in Steps, NEW todo \in Todos
  PROVE  [r EXCEPT !.step = step, !.todo = todo] \in Jobs
BY DEF Jobs, Todos

LEMMA ListingJob ==
  ASSUME NEW r \in Jobs, NEW step \in Steps, NEW listed \in SUBSET StoreKeys
  PROVE  [r EXCEPT !.step = step, !.listed = listed] \in Jobs
BY DEF Jobs

LEMMA PruningJob ==
  ASSUME NEW doomed \in SUBSET (1..MaxBackups)
  PROVE  LET j == [Idle EXCEPT !.step = "prune", !.doomed = doomed]
         IN  j \in Jobs /\ j.step = "prune" /\ j.doomed = doomed
BY IdleTyped DEF Jobs, Steps

LEMMA RemovingJob ==
  ASSUME NEW r \in Jobs, NEW b \in 1..MaxBackups
  PROVE  [r EXCEPT !.step = "remove", !.dir = b] \in Jobs
BY Numbered DEF Jobs, Steps

LEMMA RestoringJob ==
  ASSUME NEW b \in 1..MaxBackups, NEW todo \in Todos, NEW manifest \in Directories
  PROVE  LET j == [Idle EXCEPT !.step = "restore", !.dir = b, !.todo = todo,
                               !.manifest = manifest]
         IN  /\ j \in Jobs /\ j.step = "restore" /\ j.todo = todo
             /\ j.manifest = manifest /\ j.doomed = {}
BY IdleTyped, Numbered DEF Jobs, Steps, Todos

LEMMA SteppedJob ==
  ASSUME NEW r \in Jobs, NEW step \in Steps
  PROVE  [r EXCEPT !.step = step] \in Jobs
BY DEF Jobs

-----------------------------------------------------------------------------
(* What a step may change without disturbing the commands it is not of     *)

Resolves(dir) == Named(dir) \subseteq Files(dir.files) \cup Durable(dir)

LEMMA OneJob ==
  ASSUME TypeOK, NEW c \in Commands, NEW j \in Jobs, cli' = [cli EXCEPT ![c] = j]
  PROVE  /\ cli' \in [Commands -> Jobs] /\ cli'[c] = j
         /\ \A e \in Commands \ {c} : cli'[e] = cli[e]
BY DEF TypeOK

LEMMA OneDirectory ==
  ASSUME TypeOK, NEW b \in 1..MaxBackups, NEW r \in Directories,
         backups' = [backups EXCEPT ![b] = r]
  PROVE  /\ backups' \in [1..MaxBackups -> Directories] /\ backups'[b] = r
         /\ \A a \in (1..MaxBackups) \ {b} : backups'[a] = backups[a]
BY DEF TypeOK

LEMMA TypesStay ==
  ASSUME TypeOK, UNCHANGED <<layout, systemVars>>,
         cli' \in [Commands -> Jobs], backups' \in [1..MaxBackups -> Directories],
         target' \in [state : [Roles -> {"empty", "partial", "full"}], dump : Dumps,
                      files : SUBSET StoreKeys],
         given' = given \/ (given < MaxCommands /\ given' = given + 1),
         faults' = faults \/ Fault
  PROVE  TypeOK'
<1>1. MaxCommands \in Nat /\ MaxFaults \in Nat
  BY BackupAssumption DEF BackupAssumption
<1>2. given' \in 0..MaxCommands /\ faults' \in 0..MaxFaults
  BY <1>1 DEF TypeOK, Fault
<1> QED
  BY <1>2 DEF TypeOK, systemVars

\* Objects and checkpoints that are written meanwhile do not hurt a create.
LEMMA UnderwayStays ==
  ASSUME NEW c \in Commands, Underway(c), cli'[c] = cli[c], layout' = layout,
         backups'[cli[c].dir] = backups[cli[c].dir],
         stored \subseteq stored', saved \subseteq saved'
  PROVE  Underway(c)'
BY DEF Underway, At, OneDump, Named, Durable

\* A step of c that leaves alone what the other creates are writing.
LEMMA CreatesUndisturbed ==
  ASSUME CreateInv, BackupResolves, layout' = layout,
         stored \subseteq stored', saved \subseteq saved',
         NEW c \in Commands,
         \A e \in Commands \ {c} : cli'[e] = cli[e],
         cli'[c].step \in Creating =>
            /\ Underway(c)'
            /\ \/ cli[c].step \in Creating /\ cli'[c].dir = cli[c].dir
               \/ backups[cli'[c].dir].state # "writing",
         \A b \in 1..MaxBackups :
            \/ backups'[b] = backups[b]
            \/ backups[b].state # "writing"
            \/ cli[c].step \in Creating /\ b = cli[c].dir,
         \A b \in 1..MaxBackups : Verified(b)' =>
            \/ backups'[b] = backups[b]
            \/ OneDump(backups[b])' /\ Resolves(backups[b])'
  PROVE  CreateInv' /\ BackupResolves'
<1>1. ASSUME NEW e \in Commands, e # c, cli'[e].step \in Creating
      PROVE  /\ Underway(e) /\ Underway(e)' /\ cli'[e].dir = cli[e].dir
             /\ cli'[c].step \in Creating => cli'[e].dir # cli'[c].dir
  <2>1. cli'[e] = cli[e] /\ Underway(e)
    BY <1>1 DEF CreateInv
  <2>2. cli[c].step \in Creating => cli[e].dir # cli[c].dir
    BY <1>1, <2>1 DEF CreateInv
  <2>3. cli[e].dir \in 1..MaxBackups /\ backups[cli[e].dir].state = "writing"
    BY <2>1 DEF Underway
  <2>4. backups'[cli[e].dir] = backups[cli[e].dir]
    BY <2>2, <2>3
  <2>5. Underway(e)'
    BY <2>1, <2>4, UnderwayStays
  <2> QED
    BY <2>1, <2>2, <2>3, <2>5
<1>2. \A e \in Commands : cli'[e].step \in Creating => Underway(e)'
  BY <1>1
<1>3. \A d, e \in Commands :
        cli'[d].step \in Creating /\ cli'[e].step \in Creating /\ cli'[d].dir = cli'[e].dir
          => d = e
  <2> SUFFICES ASSUME NEW d \in Commands, NEW e \in Commands, d # e,
                      cli'[d].step \in Creating, cli'[e].step \in Creating
               PROVE  cli'[d].dir # cli'[e].dir
    OBVIOUS
  <2>1. CASE d = c \/ e = c
    BY <1>1, <2>1
  <2>2. CASE d # c /\ e # c
    BY <2>2 DEF CreateInv
  <2> QED
    BY <2>1, <2>2
<1>4. \A b \in 1..MaxBackups :
         Verified(b)' => OneDump(backups[b])' /\ Resolves(backups[b])'
  <2> SUFFICES ASSUME NEW b \in 1..MaxBackups, Verified(b)', backups'[b] = backups[b]
               PROVE  OneDump(backups[b])' /\ Resolves(backups[b])'
    OBVIOUS
  <2>1. Verified(b)
    BY DEF Verified
  <2>2. OneDump(backups[b]) /\ Resolves(backups[b])
    BY <2>1 DEF CreateInv, BackupResolves, Resolves, Named, Durable
  <2> QED
    BY <2>2 DEF OneDump, Resolves, Named, Durable
<1> QED
  BY <1>2, <1>3, <1>4 DEF CreateInv, BackupResolves, Resolves, Named, Durable

\* A step after which every valid backup is still there.
LEMMA PrunesUndisturbed ==
  ASSUME TypeOK, PruneInv, TypeOK',
         \A b \in 1..MaxBackups : Verified(b) => backups'[b] = backups[b],
         \A b \in 1..MaxBackups : backups[b].state \in {"damaged", "gone"} =>
            backups'[b].state \in {"damaged", "gone"},
         \A e \in Commands : cli'[e].doomed \subseteq cli[e].doomed,
         \A e \in Commands : cli'[e].step = "remove" => cli'[e] = cli[e]
  PROVE  PruneInv'
<1>1. ASSUME NEW e \in Commands, NEW b \in cli'[e].doomed
      PROVE  /\ backups'[b].state \in {"whole", "damaged", "gone"}
             /\ Verified(b)' =>
                  (Cardinality(NewerOf(b, Valid)) >= Limit[backups[b].class])'
  <2>1. b \in 1..MaxBackups /\ b \in cli[e].doomed
    BY <1>1 DEF TypeOK, Jobs
  <2>2. backups[b].state \in {"whole", "damaged", "gone"}
    BY <2>1 DEF PruneInv
  <2>3. backups'[b].state \in {"whole", "damaged", "gone"}
    BY <2>1, <2>2 DEF Verified
  <2>4. ASSUME Verified(b)'
        PROVE  (Cardinality(NewerOf(b, Valid)) >= Limit[backups[b].class])'
    <3>1. Verified(b) /\ backups'[b] = backups[b]
      BY <2>1, <2>2, <2>4 DEF Verified
    <3>2. Cardinality(NewerOf(b, Valid)) >= Limit[backups[b].class]
      BY <2>1, <3>1 DEF PruneInv
    <3>3. NewerOf(b, Valid) \subseteq NewerOf(b, Valid)'
      BY <2>1, <3>1 DEF NewerOf, Valid, Verified
    <3>4. /\ IsFiniteSet(NewerOf(b, Valid)') /\ Cardinality(NewerOf(b, Valid)') \in Nat
          /\ Cardinality(NewerOf(b, Valid)) \in Nat
      <4>1. IsFiniteSet(1..MaxBackups)
        BY FS_Interval, Numbered
      <4>2. NewerOf(b, Valid)' \subseteq 1..MaxBackups /\ NewerOf(b, Valid) \subseteq 1..MaxBackups
        BY DEF NewerOf, Valid
      <4> QED
        BY <4>1, <4>2, FS_Subset, FS_CardinalityType
    <3>5. Cardinality(NewerOf(b, Valid)) <= Cardinality(NewerOf(b, Valid)')
      BY <3>3, <3>4, FS_Subset
    <3>6. Limit[backups[b].class] \in Nat
      BY <2>1, BackupAssumption DEF BackupAssumption, TypeOK, Directories
    <3>7. Cardinality(NewerOf(b, Valid)') >= Limit[backups'[b].class]
      BY <3>1, <3>2, <3>4, <3>5, <3>6
    <3> QED
      BY <3>7
  <2> QED
    BY <2>3, <2>4
<1>2. ASSUME NEW e \in Commands, cli'[e].step = "remove"
      PROVE  /\ cli'[e].dir \in 1..MaxBackups
             /\ backups'[cli'[e].dir].state \in {"damaged", "gone"}
  BY <1>2 DEF PruneInv, At
<1> QED
  BY <1>1, <1>2 DEF PruneInv, At

\* A step that neither restores nor begins to.
LEMMA RestoresUndisturbed ==
  ASSUME RestoreInv, UNCHANGED <<layout, target>>,
         \A e \in Commands : cli'[e].step \in Restoring => cli'[e] = cli[e]
  PROVE  RestoreInv'
<1>1. \A e \in Commands : Past(e)' => Past(e) /\ cli'[e] = cli[e]
  BY DEF Past, At, Restoring
<1>2. \A d, e \in Commands : Past(d)' /\ Past(e)' => d = e
  BY <1>1 DEF RestoreInv
<1>3. ASSUME NEW e \in Commands PROVE Restores(e)'
  <2>1. CASE cli'[e] = cli[e]
    BY <2>1 DEF RestoreInv, Restores, Past, At, OneDump, TargetDatabases
  <2>2. CASE cli'[e].step \notin Restoring
    BY <2>2 DEF Restores, Past, At, Restoring
  <2> QED
    BY <2>1, <2>2
<1> QED
  BY <1>2, <1>3 DEF RestoreInv

-----------------------------------------------------------------------------
(* The initial states, the system, and create                              *)

LEMMA InitInv == Init => IInv
<1> SUFFICES ASSUME Init PROVE IInv
  OBVIOUS
<1>1. PICK class \in [1..OldBackups -> Classes] :
         backups = [b \in 1..MaxBackups |->
                       IF b <= OldBackups THEN OldBackup(b, class[b]) ELSE NoBackup]
  BY DEF Init
<1>2. ASSUME NEW b \in 1..MaxBackups, b <= OldBackups
      PROVE  /\ OldBackup(b, class[b]) \in Directories
             /\ OldBackup(b, class[b]).dumps = NoDumps
  <2>1. b \in 1..OldBackups /\ b \in Nat
    BY <1>2, BackupAssumption DEF BackupAssumption
  <2>2. ASSUME NEW k \in Classes
        PROVE  /\ OldBackup(b, k) \in Directories
               /\ OldBackup(b, k).dumps = NoDumps
    BY <2>1, NoBackupTyped DEF OldBackup, Directories, States
  <2> QED
    BY <2>1, <2>2
<1>3. ASSUME NEW b \in 1..MaxBackups
      PROVE  backups[b] \in Directories /\ backups[b].dumps = NoDumps
  <2>1. CASE b <= OldBackups
    BY <1>1, <1>2, <2>1
  <2>2. CASE ~(b <= OldBackups)
    BY <1>1, <2>2, NoBackupTyped
  <2> QED
    BY <2>1, <2>2
<1>4. backups \in [1..MaxBackups -> Directories]
  BY <1>1, <1>3
<1>5. cli \in [Commands -> Jobs] /\ \A c \in Commands : cli[c].step = "idle" /\ cli[c].doomed = {}
  BY IdleTyped DEF Init
<1>6. target \in [state : [Roles -> {"empty", "partial", "full"}], dump : Dumps,
                  files : SUBSET StoreKeys] /\ target.files = {}
  BY NoBackupTyped DEF Init, NoTarget
<1>7. MaxCommands \in Nat /\ MaxFaults \in Nat
  BY BackupAssumption DEF BackupAssumption
<1>8. TypeOK /\ SystemInv
  BY <1>4, <1>5, <1>6, <1>7 DEF Init, TypeOK, SystemInv
<1>9. CreateInv /\ BackupResolves
  <2>1. \A b \in 1..MaxBackups :
           /\ backups[b].dumps["application"] = NoData
           /\ backups[b].dumps["checkpoint"] = NoData
    BY <1>3 DEF NoDumps, Roles
  <2>2. BackupResolves
    BY <2>1 DEF BackupResolves, NoData
  <2>3. \A b \in 1..MaxBackups : OneDump(backups[b])
    BY <2>1 DEF OneDump
  <2> QED
    BY <1>5, <2>2, <2>3 DEF CreateInv, Creating
<1>10. PruneInv /\ RestoreInv
  BY <1>5, <1>6 DEF PruneInv, RestoreInv, Restores, At, Past, Restoring
<1> QED
  BY <1>8, <1>9, <1>10 DEF IInv

LEMMA SystemKeepsInv ==
  ASSUME IInv, SystemStep
  PROVE  IInv'
<1>1. /\ UNCHANGED <<layout, backups, target, cli, boundVars>>
      /\ temps' \subseteq Objects /\ stored' \subseteq Objects /\ saved' \subseteq Checkpoints
      /\ stored \subseteq stored' /\ saved \subseteq saved'
      /\ rows' \subseteq rows \cup stored \cup saved
  BY DEF IInv, SystemStep, BeginPut, EndPut, WriteCheckpoint, InsertRow, SystemOnly, TypeOK
<1>2. TypeOK' /\ SystemInv'
  BY <1>1 DEF IInv, TypeOK, SystemInv, boundVars
<1>3. CreateInv'
  <2>1. \A c \in Commands : cli[c].step \in Creating => Underway(c)'
    BY <1>1, UnderwayStays DEF IInv, CreateInv
  <2> QED
    BY <1>1, <2>1 DEF IInv, CreateInv, OneDump, Verified
<1>4. BackupResolves'
  BY <1>1 DEF IInv, BackupResolves, Verified
<1>5. PruneInv'
  BY <1>1 DEF IInv, PruneInv, Verified, Valid, NewerOf, At
<1>6. RestoreInv'
  BY <1>1, RestoresUndisturbed DEF IInv
<1> QED
  BY <1>2, <1>3, <1>4, <1>5, <1>6 DEF IInv

LEMMA KeysAreStored ==
  ASSUME TypeOK
  PROVE  Keys \in SUBSET StoreKeys /\ Files(Keys) = stored
BY DEF TypeOK, Keys, Temp, StoreKeys, Files

LEMMA BeginCreateKeepsInv ==
  ASSUME IInv, NEW c \in Commands, BeginCreate(c)
  PROVE  IInv'
<1>1. PICK b \in 1..MaxBackups, class \in Classes :
         /\ backups[b].state = "none"
         /\ backups' = [backups EXCEPT ![b] =
                           [NoBackup EXCEPT !.state = "writing", !.class = class]]
         /\ cli' = [cli EXCEPT ![c] = [Idle EXCEPT !.step = "dump", !.dir = b,
                                                   !.todo = Databases(layout.source)]]
  BY DEF BeginCreate, Continue
<1> DEFINE dir == [NoBackup EXCEPT !.state = "writing", !.class = class]
           j == [Idle EXCEPT !.step = "dump", !.dir = b, !.todo = Databases(layout.source)]
<1>2. /\ TypeOK /\ At(c, "idle") /\ UNCHANGED <<layout, systemVars, target, faults>>
      /\ given < MaxCommands /\ given' = given + 1
  BY DEF BeginCreate, Begin, IInv
<1>3. dir \in Directories /\ dir.state = "writing"
  BY NewDirectory
<1>4. /\ j \in Jobs /\ j.step = "dump" /\ j.dir = b /\ j.todo = Databases(layout.source)
      /\ j.doomed = {}
  <2>1. Databases(layout.source) \in Todos
    BY <1>2, BackupAssumption DEF BackupAssumption, TypeOK, Todos
  <2> QED
    BY <2>1, CreatingJob
<1> HIDE DEF dir, j
<1>5. /\ cli' \in [Commands -> Jobs] /\ cli'[c] = j
      /\ \A e \in Commands \ {c} : cli'[e] = cli[e]
  BY <1>1, <1>2, <1>4, OneJob DEF j
<1>6. /\ backups' \in [1..MaxBackups -> Directories] /\ backups'[b] = dir
      /\ \A a \in (1..MaxBackups) \ {b} : backups'[a] = backups[a]
  BY <1>1, <1>2, <1>3, OneDirectory DEF dir
<1>7. TypeOK' /\ SystemInv'
  <2>1. TypeOK'
    BY <1>2, <1>5, <1>6, TypesStay DEF TypeOK
  <2> QED
    BY <1>2, <2>1 DEF SystemInv, IInv, systemVars
<1>8. CreateInv' /\ BackupResolves'
  <2>1. Underway(c)'
    BY <1>2, <1>3, <1>4, <1>5, <1>6 DEF Underway, At
  <2> QED
    BY <1>1, <1>2, <1>3, <1>4, <1>5, <1>6, <2>1, CreatesUndisturbed
       DEF IInv, systemVars, Verified
<1>9. PruneInv'
  BY <1>1, <1>2, <1>4, <1>5, <1>6, <1>7, PrunesUndisturbed DEF IInv, Verified
<1>10. RestoreInv'
  BY <1>2, <1>4, <1>5, RestoresUndisturbed DEF IInv, Restoring
<1> QED
  BY <1>7, <1>8, <1>9, <1>10 DEF IInv

\* A command that goes on with its own directory and leaves the target alone.
LEMMA CreateKeepsRest ==
  ASSUME IInv, NEW c \in Commands, cli[c].step \in Creating, NEW j \in Jobs,
         NEW dir \in Directories, dir.state \in {"writing", "whole", "gone"},
         j.step \in Creating \cup {"idle"}, j.doomed \subseteq cli[c].doomed,
         cli' = [cli EXCEPT ![c] = j],
         backups' = [backups EXCEPT ![cli[c].dir] = dir],
         UNCHANGED <<layout, systemVars, target, given>>,
         faults' = faults \/ Fault
  PROVE  /\ cli'[c] = j /\ backups'[cli[c].dir] = dir
         /\ cli[c].dir \in 1..MaxBackups /\ Underway(c)
         /\ (j.step \in Creating => j.dir = cli[c].dir /\ Underway(c)')
            /\ (dir.state = "whole" => OneDump(dir) /\ Resolves(dir)) => IInv'
<1> DEFINE b == cli[c].dir
<1>1. TypeOK /\ Underway(c) /\ b \in 1..MaxBackups /\ backups[b].state = "writing"
  BY DEF IInv, CreateInv, Underway
<1>2. cli' \in [Commands -> Jobs] /\ cli'[c] = j /\ \A e \in Commands \ {c} : cli'[e] = cli[e]
  BY <1>1, OneJob
<1>3. /\ backups' \in [1..MaxBackups -> Directories] /\ backups'[b] = dir
      /\ \A a \in (1..MaxBackups) \ {b} : backups'[a] = backups[a]
  BY <1>1, OneDirectory
<1> HIDE DEF b
<1>4. TypeOK' /\ SystemInv'
  <2>1. TypeOK'
    BY <1>1, <1>2, <1>3, TypesStay DEF TypeOK
  <2> QED
    BY <2>1 DEF SystemInv, IInv, systemVars
<1>5. PruneInv'
  <2>1. \A a \in 1..MaxBackups : Verified(a) => backups'[a] = backups[a]
    BY <1>1, <1>3 DEF Verified
  <2>2. \A a \in 1..MaxBackups : backups[a].state \in {"damaged", "gone"} =>
           backups'[a].state \in {"damaged", "gone"}
    BY <1>1, <1>3
  <2>3. \A e \in Commands : cli'[e].doomed \subseteq cli[e].doomed
    BY <1>2
  <2>4. \A e \in Commands : cli'[e].step = "remove" => cli'[e] = cli[e]
    BY <1>2 DEF Creating
  <2> QED
    BY <1>1, <1>4, <2>1, <2>2, <2>3, <2>4, PrunesUndisturbed DEF IInv
<1>6. RestoreInv'
  BY <1>2, RestoresUndisturbed DEF IInv, Creating, Restoring
<1>7. ASSUME j.step \in Creating => j.dir = cli[c].dir /\ Underway(c)',
             dir.state = "whole" => OneDump(dir) /\ Resolves(dir)
      PROVE  CreateInv' /\ BackupResolves'
  <2>1. \A a \in 1..MaxBackups : Verified(a)' =>
           \/ backups'[a] = backups[a]
           \/ OneDump(backups[a])' /\ Resolves(backups[a])'
    BY <1>3, <1>7 DEF Verified, OneDump, Resolves, Named, Durable
  <2>2. \A a \in 1..MaxBackups :
           \/ backups'[a] = backups[a]
           \/ backups[a].state # "writing"
           \/ cli[c].step \in Creating /\ a = cli[c].dir
    BY <1>3 DEF b
  <2> QED
    BY <1>2, <1>7, <2>1, <2>2, CreatesUndisturbed DEF IInv, systemVars
<1> QED
  BY <1>1, <1>2, <1>3, <1>4, <1>5, <1>6, <1>7 DEF IInv, b

LEMMA DumpKeepsInv ==
  ASSUME IInv, NEW c \in Commands, Dump(c)
  PROVE  IInv'
<1> DEFINE b == cli[c].dir
           tables == Tables(Head(cli[c].todo))
           rest == Tail(cli[c].todo)
           dump == [application |-> IF "application" \in tables THEN rows ELSE {},
                    checkpoint  |-> IF "checkpoint" \in tables THEN saved ELSE {}]
           dumps == [r \in Roles |-> IF r \in tables THEN dump ELSE backups[b].dumps[r]]
           j == [cli[c] EXCEPT !.step = IF rest = <<>> THEN "list" ELSE "dump", !.todo = rest]
<1>1. /\ At(c, "dump") /\ cli[c].step \in Creating /\ cli' = [cli EXCEPT ![c] = j]
      /\ UNCHANGED <<layout, systemVars, target, given>>
  BY DEF Dump, CommandsOnly, At, Creating, Continue
<1>2. PICK extra \in {{}, tables} :
         /\ backups' = [backups EXCEPT ![b].dumps = dumps, ![b].skewed = @ \cup extra]
         /\ faults' = faults \/ Fault
  BY DEF Dump
<1> DEFINE dir == [backups[b] EXCEPT !.dumps = dumps, !.skewed = backups[b].skewed \cup extra]
<1>3. TypeOK /\ Underway(c) /\ b \in 1..MaxBackups /\ backups[b] \in Directories
      /\ backups[b].state = "writing" /\ rows \subseteq stored \cup saved
      /\ layout.source \in BOOLEAN /\ cli[c] \in Jobs
  BY <1>1, BackupAssumption DEF IInv, CreateInv, Underway, TypeOK, SystemInv, BackupAssumption
<1>4. tables \subseteq Roles
  BY DEF Tables
<1>5. dumps \in Dumps /\ dir \in Directories /\ dir.state = "writing" /\ dir.dumps = dumps
  <2> HIDE DEF tables
  <2>1. dump \in [application : SUBSET (Objects \cup Checkpoints),
                  checkpoint  : SUBSET Checkpoints]
    BY <1>3 DEF TypeOK
  <2>2. backups[b].dumps \in Dumps /\ backups[b].skewed \in SUBSET Roles
    BY <1>3 DEF Directories
  <2> HIDE DEF dump
  <2>3. dumps \in Dumps
    BY <2>1, <2>2 DEF Dumps
  <2>4. backups[b].skewed \cup extra \in SUBSET Roles
    BY <1>4, <2>2
  <2> HIDE DEF dumps
  <2>5. backups[b] \in Directories
    BY <1>3
  <2>6. dir \in Directories
    BY <2>3, <2>4, <2>5, DumpedDirectory
  <2>7. dir.state = backups[b].state /\ dir.dumps = dumps
    BY <2>5 DEF Directories
  <2> QED
    BY <1>3, <2>3, <2>6, <2>7
<1>6. backups' = [backups EXCEPT ![b] = dir]
  <2>1. \A a \in 1..MaxBackups : backups'[a] = IF a = b THEN dir ELSE backups[a]
    <3> HIDE DEF dumps
    <3> QED
      BY <1>2, <1>3 DEF TypeOK
  <2>2. backups' = [a \in 1..MaxBackups |-> backups'[a]]
    <3> HIDE DEF dumps
    <3> QED
      BY <1>2, <1>3 DEF TypeOK
  <2> HIDE DEF dir
  <2> QED
    BY <1>3, <2>1, <2>2 DEF TypeOK
<1>7. \/ cli[c].todo = <<"application">> /\ layout.source
      \/ cli[c].todo = <<"application", "checkpoint">> /\ ~layout.source
      \/ /\ cli[c].todo = <<"checkpoint">> /\ ~layout.source
         /\ Named(backups[b]) \subseteq stored \cup saved
  BY <1>1, <1>3 DEF Underway, Databases
<1>8. rest \in Todos
  <2>1. CASE cli[c].todo = <<"application", "checkpoint">>
    BY <2>1 DEF Todos
  <2>2. CASE cli[c].todo = <<"application">>
    BY <2>2 DEF Todos
  <2>3. CASE cli[c].todo = <<"checkpoint">>
    BY <2>3 DEF Todos
  <2> QED
    BY <1>7, <2>1, <2>2, <2>3
<1>9. /\ j \in Jobs /\ j.step = (IF rest = <<>> THEN "list" ELSE "dump") /\ j.todo = rest
      /\ j.dir = b /\ j.doomed = cli[c].doomed
  <2> HIDE DEF rest
  <2>1. (IF rest = <<>> THEN "list" ELSE "dump") \in Steps
    BY DEF Steps
  <2>2. cli[c] \in Jobs
    BY <1>3
  <2>3. j \in Jobs
    BY <1>8, <2>1, <2>2, AdvancedJob
  <2> QED
    BY <2>2, <2>3 DEF Jobs
<1>10. j.step \in Creating \cup {"idle"}
  BY <1>9 DEF Creating
<1>11. /\ cli'[c] = j /\ backups'[b] = dir
       /\ Underway(c)' => IInv'
  <2> HIDE DEF j, dir
  <2>1. /\ dir.state \in {"writing", "whole", "gone"} /\ dir.state # "whole"
        /\ j.doomed \subseteq cli[c].doomed /\ j.dir = b
    BY <1>5, <1>9
  <2>2. dir \in Directories /\ j \in Jobs
    BY <1>5, <1>9
  <2>3. cli' = [cli EXCEPT ![c] = j] /\ backups' = [backups EXCEPT ![b] = dir]
    BY <1>1, <1>6
  <2>4. faults' = faults \/ Fault
    BY <1>2
  <2> HIDE DEF tables, rest, dump, dumps
  <2>5. cli[c].step \in Creating /\ UNCHANGED <<layout, systemVars, target, given>>
    BY <1>1
  <2>6. j.step \in Creating \cup {"idle"}
    BY <1>10
  <2> HIDE DEF b
  <2> QED
    BY <2>1, <2>2, <2>3, <2>4, <2>5, <2>6, CreateKeepsRest DEF b
<1>12. \A r \in Roles : dir.dumps[r] = IF r \in tables THEN dump ELSE backups[b].dumps[r]
  <2> HIDE DEF tables, dump, dir
  <2> QED
    BY <1>5
<1>13. /\ dump.application = (IF "application" \in tables THEN rows ELSE {})
       /\ dump.checkpoint = (IF "checkpoint" \in tables THEN saved ELSE {})
  OBVIOUS
<1> HIDE DEF dump, dumps, dir, j
<1>14. UNCHANGED <<layout, stored, saved>>
  BY <1>1 DEF systemVars
<1>15. Underway(c)'
  <2>1. CASE cli[c].todo = <<"application">> /\ layout.source
    <3>1. rest = <<>> /\ tables = Roles
      BY <2>1 DEF Tables, DatabaseOf
    <3>2. dir.dumps["application"] = dump /\ dir.dumps["checkpoint"] = dump
      BY <1>12, <3>1 DEF Roles
    <3>3. Named(dir) = rows /\ Durable(dir) = saved
      BY <1>13, <3>1, <3>2 DEF Named, Durable, Roles
    <3> QED
      BY <1>3, <1>5, <1>9, <1>11, <1>14, <3>1, <3>2, <3>3
         DEF Underway, At, OneDump, Named, Durable
  <2>2. CASE cli[c].todo = <<"application", "checkpoint">> /\ ~layout.source
    <3>1. rest = <<"checkpoint">> /\ tables = {"application"}
      BY <2>2 DEF Tables, DatabaseOf, Roles
    <3>2. Named(dir) = rows
      BY <1>12, <1>13, <3>1 DEF Named, Roles
    <3> QED
      BY <1>3, <1>5, <1>9, <1>11, <1>14, <2>2, <3>1, <3>2
         DEF Underway, At, Named
  <2>3. CASE /\ cli[c].todo = <<"checkpoint">> /\ ~layout.source
             /\ Named(backups[b]) \subseteq stored \cup saved
    <3>1. rest = <<>> /\ tables = {"checkpoint"}
      BY <2>3 DEF Tables, DatabaseOf, Roles
    <3>2. Named(dir) = Named(backups[b]) /\ Durable(dir) = saved
      BY <1>12, <1>13, <3>1 DEF Named, Durable, Roles
    <3> QED
      BY <1>3, <1>5, <1>9, <1>11, <1>14, <2>3, <3>1, <3>2
         DEF Underway, At, OneDump, Named, Durable
  <2> QED
    BY <1>7, <2>1, <2>2, <2>3
<1> QED
  BY <1>11, <1>15

LEMMA ListKeepsInv ==
  ASSUME IInv, NEW c \in Commands, ListObjects(c)
  PROVE  IInv'
<1> DEFINE b == cli[c].dir
           j == [cli[c] EXCEPT !.step = "copy", !.listed = Keys]
<1>1. /\ At(c, "list") /\ cli[c].step \in Creating /\ cli' = [cli EXCEPT ![c] = j]
      /\ UNCHANGED <<layout, systemVars, target, given, backups, faults>>
  BY DEF ListObjects, CommandsOnly, At, Creating, Continue
<1>2. TypeOK /\ Underway(c) /\ b \in 1..MaxBackups /\ backups[b] \in Directories
      /\ backups[b].state = "writing" /\ cli[c] \in Jobs
  BY <1>1 DEF IInv, CreateInv, Underway, TypeOK
<1>3. /\ j \in Jobs /\ j.step = "copy" /\ j.listed = Keys /\ j.dir = b
      /\ j.doomed = cli[c].doomed
  <2>1. "copy" \in Steps /\ Keys \in SUBSET StoreKeys /\ cli[c] \in Jobs
    BY <1>2, KeysAreStored DEF Steps
  <2>2. j \in Jobs
    BY <2>1, ListingJob
  <2> QED
    BY <2>1, <2>2 DEF Jobs
<1> HIDE DEF j
<1>4. backups' = [backups EXCEPT ![b] = backups[b]]
  BY <1>1, <1>2 DEF TypeOK
<1>5. j.step \in Creating \cup {"idle"}
  BY <1>3 DEF Creating
<1>6. cli'[c] = j /\ (Underway(c)' => IInv')
  BY <1>1, <1>2, <1>3, <1>4, <1>5, CreateKeepsRest
<1>7. Underway(c)'
  BY <1>1, <1>2, <1>3, <1>6, KeysAreStored DEF Underway, At, OneDump, Named, Durable
<1> QED
  BY <1>6, <1>7

\* The directory goes away, and with it the command.
LEMMA RemovedKeepsInv ==
  ASSUME IInv, NEW c \in Commands, cli[c].step \in Creating,
         Removed(cli[c].dir), Continue(c, Idle),
         UNCHANGED <<layout, systemVars, target, given>>, faults' = faults \/ Fault
  PROVE  IInv'
<1> DEFINE dir == [NoBackup EXCEPT !.state = "gone"]
<1>1. dir \in Directories /\ dir.state = "gone"
  BY GoneDirectory
<1>2. backups' = [backups EXCEPT ![cli[c].dir] = dir] /\ cli' = [cli EXCEPT ![c] = Idle]
  BY DEF Removed, Continue
<1> HIDE DEF dir
<1> QED
  BY <1>1, <1>2, IdleTyped, CreateKeepsRest DEF Creating

LEMMA CopyKeepsInv ==
  ASSUME IInv, NEW c \in Commands, CopyObjects(c)
  PROVE  IInv'
<1> DEFINE b == cli[c].dir
           j == [cli[c] EXCEPT !.step = "manifest", !.listed = {}]
           dir == [backups[b] EXCEPT !.files = cli[c].listed]
<1>1. /\ At(c, "copy") /\ cli[c].step \in Creating
      /\ UNCHANGED <<layout, systemVars, target, given, faults>>
  BY DEF CopyObjects, CommandsOnly, At, Creating
<1>2. TypeOK /\ Underway(c) /\ b \in 1..MaxBackups /\ backups[b] \in Directories
      /\ backups[b].state = "writing" /\ cli[c] \in Jobs
  BY <1>1 DEF IInv, CreateInv, Underway, TypeOK
<1>3. CASE ~(cli[c].listed \subseteq Keys)
  BY <1>1, <1>3, RemovedKeepsInv DEF CopyObjects
<1>4. CASE cli[c].listed \subseteq Keys
  <2>1. cli' = [cli EXCEPT ![c] = j] /\ backups' = [backups EXCEPT ![b].files = cli[c].listed]
    BY <1>4 DEF CopyObjects, Continue
  <2>2. backups' = [backups EXCEPT ![b] = dir]
    BY <1>2, <2>1 DEF TypeOK
  <2>3. cli[c].listed \in SUBSET StoreKeys
    BY <1>2 DEF Jobs
  <2>4. /\ j \in Jobs /\ j.step = "manifest" /\ j.dir = b /\ j.doomed = cli[c].doomed
    <3>1. "manifest" \in Steps /\ {} \in SUBSET StoreKeys /\ cli[c] \in Jobs
      BY <1>2 DEF Steps
    <3>2. j \in Jobs
      BY <3>1, ListingJob
    <3> QED
      BY <3>1, <3>2 DEF Jobs
  <2>5. /\ dir \in Directories /\ dir.state = "writing" /\ dir.dumps = backups[b].dumps
        /\ dir.files = cli[c].listed
    <3>1. backups[b] \in Directories
      BY <1>2
    <3>2. dir \in Directories
      BY <2>3, <3>1, FilledDirectory
    <3> QED
      BY <1>2, <3>1, <3>2 DEF Directories
  <2>6. j.step \in Creating \cup {"idle"}
    BY <2>4 DEF Creating
  <2> HIDE DEF j, dir
  <2>7. cli'[c] = j /\ backups'[b] = dir /\ (Underway(c)' => IInv')
    <3>1. /\ dir.state \in {"writing", "whole", "gone"} /\ dir.state # "whole"
          /\ j.doomed \subseteq cli[c].doomed /\ j.dir = cli[c].dir
          /\ faults' = faults \/ Fault
          /\ UNCHANGED <<layout, systemVars, target, given>> /\ cli[c].step \in Creating
      BY <1>1, <2>4, <2>5
    <3>2. j \in Jobs /\ dir \in Directories
      BY <2>4, <2>5
    <3>3. cli' = [cli EXCEPT ![c] = j] /\ backups' = [backups EXCEPT ![cli[c].dir] = dir]
      BY <2>1, <2>2
    <3>4. /\ cli'[c] = j /\ backups'[cli[c].dir] = dir
          /\ (j.step \in Creating => j.dir = cli[c].dir /\ Underway(c)')
             /\ (dir.state = "whole" => OneDump(dir) /\ Resolves(dir)) => IInv'
      <4> HIDE DEF b
      <4> QED
        BY <2>6, <3>1, <3>2, <3>3, CreateKeepsRest
    <3> QED
      BY <3>1, <3>4
  <2>8. Underway(c)'
    BY <1>1, <1>2, <2>4, <2>5, <2>7 DEF Underway, At, OneDump, Named, Durable
  <2> QED
    BY <2>7, <2>8
<1> QED
  BY <1>3, <1>4

LEMMA ManifestKeepsInv ==
  ASSUME IInv, NEW c \in Commands, WriteManifest(c)
  PROVE  IInv'
<1> DEFINE b == cli[c].dir
           newest == Max({backups[a].at : a \in 1..MaxBackups})
           dir == [backups[b] EXCEPT !.state = "whole", !.at = newest + 1]
<1>1. /\ At(c, "manifest") /\ cli[c].step \in Creating /\ cli' = [cli EXCEPT ![c] = Idle]
      /\ backups' = [backups EXCEPT ![b].state = "whole", ![b].at = newest + 1]
      /\ UNCHANGED <<layout, systemVars, target, given, faults>>
  BY DEF WriteManifest, CommandsOnly, At, Creating, Continue
<1>2. TypeOK /\ Underway(c) /\ b \in 1..MaxBackups /\ backups[b] \in Directories
  BY <1>1 DEF IInv, CreateInv, Underway, TypeOK
<1>3. newest \in Nat
  BY <1>2, NewestIsNumber DEF TypeOK
<1> HIDE DEF newest
<1>4. backups' = [backups EXCEPT ![b] = dir]
  BY <1>1, <1>2 DEF TypeOK
<1>5. /\ dir \in Directories /\ dir.state = "whole" /\ dir.dumps = backups[b].dumps
      /\ dir.files = backups[b].files
  <2>1. newest + 1 \in Nat /\ backups[b] \in Directories
    BY <1>2, <1>3
  <2>2. dir \in Directories
    BY <2>1, WholeDirectory
  <2> QED
    BY <2>1, <2>2 DEF Directories
<1> HIDE DEF dir
<1>6. OneDump(dir) /\ Resolves(dir)
  BY <1>1, <1>2, <1>5 DEF Underway, OneDump, Resolves, Named, Durable, At
<1> QED
  BY <1>1, <1>4, <1>5, <1>6, IdleTyped, CreateKeepsRest DEF Creating

LEMMA CreateFailsKeepsInv ==
  ASSUME IInv, NEW c \in Commands, CreateFails(c)
  PROVE  IInv'
BY RemovedKeepsInv DEF CreateFails, CommandsOnly

-----------------------------------------------------------------------------
(* prune                                                                   *)

\* A command that only takes directories away, or does nothing any more.
LEMMA RemovalKeepsRest ==
  ASSUME IInv, NEW c \in Commands, NEW j \in Jobs, j.step \in {"idle", "prune", "remove"},
         cli' = [cli EXCEPT ![c] = j], backups' \in [1..MaxBackups -> Directories],
         \A b \in 1..MaxBackups :
            backups'[b] = backups[b] \/ (backups[b].state # "writing" /\ ~Verified(b)'),
         UNCHANGED <<layout, systemVars, target>>,
         given' = given \/ (given < MaxCommands /\ given' = given + 1),
         faults' = faults \/ Fault
  PROVE  /\ cli'[c] = j /\ \A e \in Commands \ {c} : cli'[e] = cli[e]
         /\ TypeOK' /\ SystemInv' /\ CreateInv' /\ BackupResolves' /\ RestoreInv'
<1>1. TypeOK /\ cli' \in [Commands -> Jobs] /\ cli'[c] = j
      /\ \A e \in Commands \ {c} : cli'[e] = cli[e]
  BY OneJob DEF IInv
<1>2. TypeOK' /\ SystemInv'
  <2>1. TypeOK'
    BY <1>1, TypesStay DEF TypeOK
  <2> QED
    BY <2>1 DEF SystemInv, IInv, systemVars
<1>3. CreateInv' /\ BackupResolves'
  <2>1. cli'[c].step \notin Creating
    BY <1>1 DEF Creating
  <2>2. stored \subseteq stored' /\ saved \subseteq saved'
    BY DEF systemVars
  <2>3. \A b \in 1..MaxBackups : backups'[b] = backups[b] \/ backups[b].state # "writing"
    OBVIOUS
  <2> QED
    BY <1>1, <2>1, <2>2, <2>3, CreatesUndisturbed DEF IInv
<1>4. RestoreInv'
  BY <1>1, RestoresUndisturbed DEF IInv, Restoring
<1> QED
  BY <1>1, <1>2, <1>3, <1>4

LEMMA BeginPruneKeepsInv ==
  ASSUME IInv, NEW c \in Commands, BeginPrune(c)
  PROVE  IInv'
<1> DEFINE verified == {b \in Existing : Verified(b)}
           doomed == verified \ Kept(verified)
           j == [Idle EXCEPT !.step = "prune", !.doomed = doomed]
<1>1. /\ cli' = [cli EXCEPT ![c] = j] /\ UNCHANGED <<layout, systemVars, target, backups, faults>>
      /\ given < MaxCommands /\ given' = given + 1
  BY DEF BeginPrune, Begin, Continue
<1>2. verified = Valid
  BY DEF Existing, Valid, Verified
<1>3. doomed \in SUBSET (1..MaxBackups)
  BY <1>2 DEF Valid
<1>4. j \in Jobs /\ j.step = "prune" /\ j.doomed = doomed
  <2> HIDE DEF doomed
  <2> QED
    BY <1>3, PruningJob
<1>5. ASSUME NEW b \in doomed
      PROVE  Verified(b) /\ Cardinality(NewerOf(b, Valid)) >= Limit[backups[b].class]
  <2>1. b \in Valid /\ b \in 1..MaxBackups
    BY <1>2 DEF Valid
  <2>2. ~(Cardinality(NewerOf(b, Valid)) < Limit[backups[b].class])
    BY <1>2, <2>1 DEF Kept
  <2>3. Cardinality(NewerOf(b, Valid)) \in Nat
    BY ValidIsFinite DEF Valid
  <2>4. Limit[backups[b].class] \in Nat
    BY <2>1, BackupAssumption DEF BackupAssumption, IInv, TypeOK, Directories
  <2> QED
    BY <2>1, <2>2, <2>3, <2>4 DEF Valid
<1> HIDE DEF doomed, j, verified
<1>6. /\ cli'[c] = j /\ \A e \in Commands \ {c} : cli'[e] = cli[e]
      /\ TypeOK' /\ SystemInv' /\ CreateInv' /\ BackupResolves' /\ RestoreInv'
  <2>1. backups' \in [1..MaxBackups -> Directories]
    BY <1>1 DEF IInv, TypeOK
  <2> QED
    BY <1>1, <1>4, <2>1, RemovalKeepsRest
<1>7. \A e \in Commands : \A b \in cli'[e].doomed :
         /\ backups[b].state \in {"whole", "damaged", "gone"}
         /\ Verified(b) => Cardinality(NewerOf(b, Valid)) >= Limit[backups[b].class]
  BY <1>4, <1>5, <1>6 DEF IInv, PruneInv, Verified
<1>8. \A e \in Commands : cli'[e].step = "remove" =>
         cli'[e].dir \in 1..MaxBackups /\ backups[cli'[e].dir].state \in {"damaged", "gone"}
  BY <1>4, <1>6 DEF IInv, PruneInv, At
<1>9. PruneInv'
  BY <1>1, <1>7, <1>8 DEF PruneInv, At, Verified, NewerOf, Valid
<1> QED
  BY <1>6, <1>9 DEF IInv

\* Two backups of a class: when the newer of two that may go goes, there are
\* still enough that are newer than the older one, for they are newer than both.
LEMMA NewerRemain ==
  ASSUME TypeOK, PruneInv, TypeOK', NEW c \in Commands, NEW d \in cli[c].doomed,
         backups' = [backups EXCEPT ![d].state = "damaged"],
         NEW b \in 1..MaxBackups, Verified(b)',
         Cardinality(NewerOf(b, Valid)) >= Limit[backups[b].class]
  PROVE  (Cardinality(NewerOf(b, Valid)) >= Limit[backups[b].class])'
<1>1. d \in 1..MaxBackups /\ backups[d] \in Directories
  BY DEF TypeOK, Jobs
<1>2. /\ \A a \in (1..MaxBackups) \ {d} : backups'[a] = backups[a]
      /\ backups'[d].state = "damaged" /\ backups'[d].at = backups[d].at
      /\ backups'[d].class = backups[d].class
  BY <1>1 DEF TypeOK, Directories
<1>3. b # d /\ Verified(b) /\ backups'[b] = backups[b]
  BY <1>2 DEF Verified
<1>4. Valid' = Valid \ {d}
  BY <1>2 DEF Valid, Verified
<1>5. NewerOf(b, Valid)' = NewerOf(b, Valid) \ {d}
  BY <1>2, <1>3, <1>4 DEF NewerOf, Valid
<1>6. /\ Limit[backups[b].class] \in Nat
      /\ \A a \in 1..MaxBackups : backups[a].at \in Nat
  BY BackupAssumption DEF BackupAssumption, TypeOK, Directories
<1>7. CASE d \notin NewerOf(b, Valid)
  BY <1>3, <1>5, <1>7
<1>8. CASE d \in NewerOf(b, Valid)
  <2>1. /\ Verified(d) /\ backups[d].class = backups[b].class
        /\ backups[d].at > backups[b].at
    BY <1>8 DEF NewerOf, Valid
  <2>2. Cardinality(NewerOf(d, Valid)) >= Limit[backups[b].class]
    BY <2>1 DEF PruneInv
  <2>3. NewerOf(d, Valid) \subseteq NewerOf(b, Valid) \ {d}
    BY <1>1, <1>6, <2>1 DEF NewerOf, Valid
  <2>4. /\ IsFiniteSet(NewerOf(b, Valid) \ {d})
        /\ Cardinality(NewerOf(b, Valid) \ {d}) \in Nat
        /\ Cardinality(NewerOf(d, Valid)) \in Nat
    <3>1. IsFiniteSet(NewerOf(b, Valid)) /\ Cardinality(NewerOf(d, Valid)) \in Nat
      BY ValidIsFinite DEF Valid
    <3>2. IsFiniteSet(NewerOf(b, Valid) \ {d})
      BY <3>1, FS_RemoveElement
    <3> QED
      BY <3>1, <3>2, FS_CardinalityType
  <2>5. Cardinality(NewerOf(d, Valid)) <= Cardinality(NewerOf(b, Valid) \ {d})
    BY <2>3, <2>4, FS_Subset
  <2> QED
    BY <1>3, <1>5, <1>6, <2>2, <2>4, <2>5
<1> QED
  BY <1>7, <1>8

LEMMA BeginRemoveKeepsInv ==
  ASSUME IInv, NEW c \in Commands, BeginRemove(c)
  PROVE  IInv'
<1>1. /\ TypeOK /\ UNCHANGED <<layout, systemVars, target, given, faults>>
      /\ cli[c] \in Jobs /\ cli[c].doomed \subseteq 1..MaxBackups
  BY DEF BeginRemove, CommandsOnly, IInv, TypeOK, Jobs
<1>2. PICK d \in cli[c].doomed :
         \/ /\ backups[d].state \in {"whole", "damaged"}
            /\ backups' = [backups EXCEPT ![d].state = "damaged"]
            /\ cli' = [cli EXCEPT ![c] = [cli[c] EXCEPT !.step = "remove", !.dir = d]]
         \/ cli' = [cli EXCEPT ![c] = Idle] /\ UNCHANGED backups
  BY DEF BeginRemove, Continue
<1>3. CASE cli' = [cli EXCEPT ![c] = Idle] /\ UNCHANGED backups
  <2>1. backups' \in [1..MaxBackups -> Directories]
    BY <1>1, <1>3 DEF TypeOK
  <2>2. /\ cli'[c] = Idle /\ \A e \in Commands \ {c} : cli'[e] = cli[e]
        /\ TypeOK' /\ SystemInv' /\ CreateInv' /\ BackupResolves' /\ RestoreInv'
    BY <1>1, <1>3, <2>1, IdleTyped, RemovalKeepsRest
  <2>3. PruneInv'
    BY <1>1, <1>3, <2>2, IdleTyped, PrunesUndisturbed DEF IInv
  <2> QED
    BY <2>2, <2>3 DEF IInv
<1>4. CASE /\ backups[d].state \in {"whole", "damaged"}
           /\ backups' = [backups EXCEPT ![d].state = "damaged"]
           /\ cli' = [cli EXCEPT ![c] = [cli[c] EXCEPT !.step = "remove", !.dir = d]]
  <2> DEFINE dir == [backups[d] EXCEPT !.state = "damaged"]
             j == [cli[c] EXCEPT !.step = "remove", !.dir = d]
  <2>1. d \in 1..MaxBackups /\ backups[d] \in Directories
    BY <1>1 DEF TypeOK
  <2>2. dir \in Directories /\ dir.state = "damaged"
    <3>1. dir \in Directories
      BY <2>1, DamagedDirectory
    <3> QED
      BY <2>1, <3>1 DEF Directories
  <2>3. j \in Jobs /\ j.step = "remove" /\ j.dir = d /\ j.doomed = cli[c].doomed
    <3>1. j \in Jobs
      BY <1>1, <2>1, RemovingJob
    <3> QED
      BY <1>1, <3>1 DEF Jobs
  <2>4. backups' = [backups EXCEPT ![d] = dir]
    BY <1>1, <1>4, <2>1 DEF TypeOK
  <2>5. cli' = [cli EXCEPT ![c] = j]
    BY <1>4
  <2> HIDE DEF dir, j
  <2>6. /\ backups' \in [1..MaxBackups -> Directories] /\ backups'[d] = dir
        /\ \A a \in (1..MaxBackups) \ {d} : backups'[a] = backups[a]
    BY <1>1, <2>1, <2>2, <2>4, OneDirectory
  <2>7. /\ cli'[c] = j /\ \A e \in Commands \ {c} : cli'[e] = cli[e]
        /\ TypeOK' /\ SystemInv' /\ CreateInv' /\ BackupResolves' /\ RestoreInv'
    <3>1. \A b \in 1..MaxBackups :
             backups'[b] = backups[b] \/ (backups[b].state # "writing" /\ ~Verified(b)')
      BY <1>4, <2>2, <2>6 DEF Verified
    <3>2. j.step \in {"idle", "prune", "remove"}
      BY <2>3
    <3> QED
      BY <1>1, <2>3, <2>5, <2>6, <3>1, <3>2, RemovalKeepsRest
  <2>8. ASSUME NEW e \in Commands, NEW b \in cli'[e].doomed
        PROVE  /\ backups'[b].state \in {"whole", "damaged", "gone"}
               /\ Verified(b)' =>
                    (Cardinality(NewerOf(b, Valid)) >= Limit[backups[b].class])'
    <3>1. b \in cli[e].doomed /\ b \in 1..MaxBackups
      BY <1>1, <2>3, <2>7 DEF TypeOK, Jobs
    <3>2. backups'[b].state \in {"whole", "damaged", "gone"}
      BY <2>2, <2>6, <3>1 DEF IInv, PruneInv
    <3>3. ASSUME Verified(b)'
          PROVE  (Cardinality(NewerOf(b, Valid)) >= Limit[backups[b].class])'
      <4>1. Verified(b)
        BY <2>2, <2>6, <3>1, <3>3 DEF Verified
      <4>2. Cardinality(NewerOf(b, Valid)) >= Limit[backups[b].class]
        BY <3>1, <4>1 DEF IInv, PruneInv
      <4> QED
        BY <1>1, <1>4, <2>7, <3>1, <3>3, <4>2, NewerRemain DEF IInv
    <3> QED
      BY <3>2, <3>3
  <2>9. ASSUME NEW e \in Commands, cli'[e].step = "remove"
        PROVE  /\ cli'[e].dir \in 1..MaxBackups
               /\ backups'[cli'[e].dir].state \in {"damaged", "gone"}
    <3>1. CASE e = c
      BY <2>1, <2>2, <2>3, <2>6, <2>7, <3>1
    <3>2. CASE e # c
      <4>1. cli[e].dir \in 1..MaxBackups /\ backups[cli[e].dir].state \in {"damaged", "gone"}
            /\ cli'[e] = cli[e]
        BY <2>7, <2>9, <3>2 DEF IInv, PruneInv, At
      <4> QED
        BY <2>2, <2>6, <4>1
    <3> QED
      BY <3>1, <3>2
  <2>10. PruneInv'
    BY <2>8, <2>9 DEF PruneInv, At
  <2> QED
    BY <2>7, <2>10 DEF IInv
<1> QED
  BY <1>2, <1>3, <1>4

LEMMA EndRemoveKeepsInv ==
  ASSUME IInv, NEW c \in Commands, EndRemove(c)
  PROVE  IInv'
<1> DEFINE left == cli[c].doomed \ {cli[c].dir}
           j == [Idle EXCEPT !.step = "prune", !.doomed = left]
           dir == [NoBackup EXCEPT !.state = "gone"]
<1>1. /\ TypeOK /\ UNCHANGED <<layout, systemVars, target, given, faults>>
      /\ At(c, "remove") /\ cli[c].doomed \subseteq 1..MaxBackups
      /\ cli[c].dir \in 1..MaxBackups /\ backups[cli[c].dir].state \in {"damaged", "gone"}
  BY DEF EndRemove, CommandsOnly, IInv, TypeOK, Jobs, PruneInv
<1>2. dir \in Directories /\ dir.state = "gone"
  BY GoneDirectory
<1>3. j \in Jobs /\ j.step = "prune" /\ j.doomed = left
  <2>1. left \in SUBSET (1..MaxBackups)
    BY <1>1
  <2> HIDE DEF left
  <2> QED
    BY <2>1, PruningJob
<1>4. /\ backups' = backups \/ backups' = [backups EXCEPT ![cli[c].dir] = dir]
      /\ cli' = [cli EXCEPT ![c] = Idle] \/ cli' = [cli EXCEPT ![c] = j]
  BY DEF EndRemove, Continue, Removed
<1> HIDE DEF dir
<1>5. /\ backups' \in [1..MaxBackups -> Directories]
      /\ \A a \in (1..MaxBackups) \ {cli[c].dir} : backups'[a] = backups[a]
      /\ backups'[cli[c].dir].state \in {"damaged", "gone"}
      /\ backups'[cli[c].dir] = backups[cli[c].dir] \/ backups'[cli[c].dir] = dir
  <2>1. CASE backups' = backups
    BY <1>1, <2>1 DEF TypeOK
  <2>2. CASE backups' = [backups EXCEPT ![cli[c].dir] = dir]
    BY <1>1, <1>2, <2>2, OneDirectory
  <2> QED
    BY <1>4, <2>1, <2>2
<1>6. PICK next \in Jobs :
         /\ cli' = [cli EXCEPT ![c] = next] /\ next.step \in {"idle", "prune"}
         /\ next.doomed \subseteq cli[c].doomed
  <2> HIDE DEF j
  <2>1. Idle \in Jobs /\ Idle.step = "idle" /\ Idle.doomed \subseteq cli[c].doomed
    BY IdleTyped
  <2>2. j \in Jobs /\ j.step = "prune" /\ j.doomed \subseteq cli[c].doomed
    BY <1>3
  <2> QED
    BY <1>4, <2>1, <2>2
<1>7. /\ cli'[c] = next /\ \A e \in Commands \ {c} : cli'[e] = cli[e]
      /\ TypeOK' /\ SystemInv' /\ CreateInv' /\ BackupResolves' /\ RestoreInv'
  <2>1. \A b \in 1..MaxBackups :
           backups'[b] = backups[b] \/ (backups[b].state # "writing" /\ ~Verified(b)')
    BY <1>1, <1>5 DEF Verified
  <2>2. next.step \in {"idle", "prune", "remove"}
    BY <1>6
  <2> QED
    BY <1>1, <1>5, <1>6, <2>1, <2>2, RemovalKeepsRest
<1>8. PruneInv'
  <2>1. \A b \in 1..MaxBackups : Verified(b) => backups'[b] = backups[b]
    BY <1>1, <1>5 DEF Verified
  <2>2. \A b \in 1..MaxBackups : backups[b].state \in {"damaged", "gone"} =>
           backups'[b].state \in {"damaged", "gone"}
    BY <1>5
  <2>3. \A e \in Commands : cli'[e].doomed \subseteq cli[e].doomed
    BY <1>6, <1>7
  <2>4. \A e \in Commands : cli'[e].step = "remove" => cli'[e] = cli[e]
    BY <1>6, <1>7
  <2> QED
    BY <1>7, <2>1, <2>2, <2>3, <2>4, PrunesUndisturbed DEF IInv
<1> QED
  BY <1>7, <1>8 DEF IInv

\* A command that ends, or dies, and leaves everything as it is.
LEMMA EndedKeepsInv ==
  ASSUME IInv, NEW c \in Commands, Continue(c, Idle),
         UNCHANGED <<layout, systemVars, backups, target, given>>, faults' = faults \/ Fault
  PROVE  IInv'
<1>1. backups' \in [1..MaxBackups -> Directories]
  BY DEF IInv, TypeOK
<1>2. /\ cli'[c] = Idle /\ \A e \in Commands \ {c} : cli'[e] = cli[e]
      /\ TypeOK' /\ SystemInv' /\ CreateInv' /\ BackupResolves' /\ RestoreInv'
  BY <1>1, IdleTyped, RemovalKeepsRest DEF Continue
<1>3. PruneInv'
  BY <1>2, IdleTyped, PrunesUndisturbed DEF IInv
<1> QED
  BY <1>2, <1>3 DEF IInv

-----------------------------------------------------------------------------
(* restore                                                                 *)

Targets == [state : [Roles -> {"empty", "partial", "full"}], dump : Dumps,
            files : SUBSET StoreKeys]

\* A step of c while no other restore is past the application database.
LEMMA RestoreMoves ==
  ASSUME RestoreInv, NEW c \in Commands, \A e \in Commands \ {c} : cli'[e] = cli[e],
         layout' = layout,
         target' = target \/ \A e \in Commands \ {c} : ~Past(e),
         target'.state["application"] # "full" => target'.files = {},
         Past(c)' => \A e \in Commands \ {c} : ~Past(e),
         Restores(c)'
  PROVE  RestoreInv'
<1>1. \A e \in Commands \ {c} : Past(e)' <=> Past(e)
  BY DEF Past, At
<1>2. \A d, e \in Commands : Past(d)' /\ Past(e)' => d = e
  BY <1>1 DEF RestoreInv
<1>3. ASSUME NEW e \in Commands \ {c} PROVE Restores(e)'
  <2>1. Restores(e) /\ cli'[e] = cli[e]
    BY DEF RestoreInv
  <2>2. CASE target' = target
    BY <2>1, <2>2 DEF Restores, Past, At, OneDump, TargetDatabases
  <2>3. CASE ~Past(e)
    <3>1. ~Past(e)' /\ cli'[e].step \notin {"objects", "compare", "restored"}
      BY <1>1, <2>1, <2>3 DEF Past
    <3> QED
      BY <2>1, <3>1 DEF Restores, At, OneDump, TargetDatabases
  <2> QED
    BY <2>2, <2>3
<1> QED
  BY <1>2, <1>3 DEF RestoreInv

\* A restore changes no backup.
LEMMA RestoreKeepsRest ==
  ASSUME IInv, NEW c \in Commands, NEW j \in Jobs, j.step \in {"idle"} \cup Restoring,
         j.doomed \subseteq cli[c].doomed, cli' = [cli EXCEPT ![c] = j], target' \in Targets,
         UNCHANGED <<layout, systemVars, backups>>,
         given' = given \/ (given < MaxCommands /\ given' = given + 1),
         faults' = faults \/ Fault
  PROVE  /\ cli'[c] = j /\ \A e \in Commands \ {c} : cli'[e] = cli[e]
         /\ RestoreInv' => IInv'
<1>1. TypeOK /\ cli' \in [Commands -> Jobs] /\ cli'[c] = j
      /\ \A e \in Commands \ {c} : cli'[e] = cli[e]
  BY OneJob DEF IInv
<1>2. TypeOK' /\ SystemInv'
  <2>1. TypeOK'
    BY <1>1, TypesStay DEF TypeOK, Targets
  <2> QED
    BY <2>1 DEF SystemInv, IInv, systemVars
<1>3. CreateInv' /\ BackupResolves'
  <2>1. cli'[c].step \notin Creating
    BY <1>1 DEF Creating, Restoring
  <2>2. stored \subseteq stored' /\ saved \subseteq saved'
    BY DEF systemVars
  <2>3. \A b \in 1..MaxBackups : backups'[b] = backups[b]
    OBVIOUS
  <2> QED
    BY <1>1, <2>1, <2>2, <2>3, CreatesUndisturbed DEF IInv
<1>4. PruneInv'
  <2>1. \A e \in Commands : cli'[e].doomed \subseteq cli[e].doomed
    BY <1>1
  <2>2. \A e \in Commands : cli'[e].step = "remove" => cli'[e] = cli[e]
    BY <1>1 DEF Restoring
  <2> QED
    BY <1>1, <1>2, <2>1, <2>2, PrunesUndisturbed DEF IInv
<1> QED
  BY <1>1, <1>2, <1>3, <1>4 DEF IInv

\* Where a restore can stand, and what it may then rely on.
LEMMA RestoreStands ==
  ASSUME IInv, NEW c \in Commands
  PROVE  /\ TypeOK /\ RestoreInv /\ Restores(c) /\ cli[c] \in Jobs /\ target \in Targets
         /\ cli[c].manifest \in Directories /\ layout.target \in BOOLEAN
         /\ Past(c) => \A e \in Commands \ {c} : ~Past(e)
         /\ target.state["application"] # "full" =>
              target.files = {} /\ \A e \in Commands : ~Past(e)
         /\ At(c, "restore") =>
              \/ cli[c].todo = <<"application">> /\ layout.target
              \/ cli[c].todo = <<"application", "checkpoint">> /\ ~layout.target
              \/ cli[c].todo = <<"checkpoint">> /\ ~layout.target
<1>1. /\ TypeOK /\ RestoreInv /\ Restores(c) /\ cli[c] \in Jobs /\ target \in Targets
      /\ cli[c].manifest \in Directories /\ layout.target \in BOOLEAN
  BY BackupAssumption DEF IInv, RestoreInv, TypeOK, Jobs, Targets, BackupAssumption
<1>2. At(c, "restore") =>
        \/ cli[c].todo = <<"application">> /\ layout.target
        \/ cli[c].todo = <<"application", "checkpoint">> /\ ~layout.target
        \/ cli[c].todo = <<"checkpoint">> /\ ~layout.target
  BY <1>1 DEF Restores, TargetDatabases, Databases
<1>3. Past(c) => \A e \in Commands \ {c} : ~Past(e)
  BY <1>1 DEF RestoreInv
<1>4. target.state["application"] # "full" =>
        target.files = {} /\ \A e \in Commands : ~Past(e)
  BY <1>1 DEF RestoreInv, Restores
<1> QED
  BY <1>1, <1>2, <1>3, <1>4

LEMMA BeginRestoreKeepsInv ==
  ASSUME IInv, NEW c \in Commands, BeginRestore(c)
  PROVE  IInv'
<1>1. PICK b \in 1..MaxBackups :
         /\ Verified(b)
         /\ cli' = [cli EXCEPT ![c] = [Idle EXCEPT !.step = "restore", !.dir = b,
                                          !.todo = TargetDatabases, !.manifest = backups[b]]]
  BY DEF BeginRestore, Continue, Existing
<1>2. /\ UNCHANGED <<layout, systemVars, target, backups, faults>>
      /\ given < MaxCommands /\ given' = given + 1
  BY DEF BeginRestore, Begin
<1>3. TypeOK /\ RestoreInv /\ target \in Targets /\ layout.target \in BOOLEAN
  BY RestoreStands
<1> DEFINE j == [Idle EXCEPT !.step = "restore", !.dir = b, !.todo = TargetDatabases,
                             !.manifest = backups[b]]
<1>4. /\ j \in Jobs /\ j.step = "restore" /\ j.todo = TargetDatabases
      /\ j.manifest = backups[b] /\ j.doomed = {}
  <2>1. TargetDatabases \in Todos
    BY <1>3 DEF TargetDatabases, Todos
  <2>2. backups[b] \in Directories
    BY <1>3 DEF TypeOK
  <2> QED
    BY <2>1, <2>2, RestoringJob
<1> HIDE DEF j
<1>5. /\ cli'[c] = j /\ \A e \in Commands \ {c} : cli'[e] = cli[e]
      /\ RestoreInv' => IInv'
  <2>1. /\ j.step \in {"idle"} \cup Restoring /\ j.doomed \subseteq cli[c].doomed
        /\ target' \in Targets /\ cli' = [cli EXCEPT ![c] = j]
    BY <1>1, <1>2, <1>3, <1>4 DEF j, Restoring
  <2> QED
    BY <1>2, <1>4, <2>1, RestoreKeepsRest
<1>6. TargetDatabases # <<"checkpoint">>
  BY DEF TargetDatabases, Databases
<1>7. ~Past(c)' /\ Restores(c)'
  <2>1. OneDump(backups[b])
    BY <1>1 DEF IInv, CreateInv
  <2>2. cli'[c].step = "restore" /\ cli'[c].todo = TargetDatabases
        /\ cli'[c].manifest = backups[b]
    BY <1>4, <1>5
  <2>3. ~Past(c)'
    BY <1>6, <2>2 DEF Past, At
  <2> QED
    BY <1>2, <2>1, <2>2, <2>3 DEF Restores, At, OneDump, TargetDatabases
<1>8. RestoreInv'
  <2>1. target'.state["application"] # "full" => target'.files = {}
    BY <1>2, <1>3 DEF RestoreInv
  <2> QED
    BY <1>2, <1>3, <1>5, <1>7, <2>1, RestoreMoves
<1> QED
  BY <1>5, <1>8

LEMMA FilledTarget ==
  ASSUME NEW t \in Targets, NEW r \in Roles, NEW state \in {"empty", "partial", "full"},
         NEW dump \in [application : SUBSET (Objects \cup Checkpoints),
                       checkpoint  : SUBSET Checkpoints]
  PROVE  /\ [t EXCEPT !.state[r] = state, !.dump[r] = dump] \in Targets
         /\ [t EXCEPT !.state[r] = state] \in Targets
<1>1. [t.state EXCEPT ![r] = state] \in [Roles -> {"empty", "partial", "full"}]
  BY DEF Targets
<1>2. [t.dump EXCEPT ![r] = dump] \in Dumps
  BY DEF Targets, Dumps
<1>3. [t EXCEPT !.state = [t.state EXCEPT ![r] = state]] \in Targets
  BY <1>1 DEF Targets
<1>4. [t EXCEPT !.state = [t.state EXCEPT ![r] = state],
                !.dump = [t.dump EXCEPT ![r] = dump]] \in Targets
  BY <1>1, <1>2 DEF Targets
<1> QED
  BY <1>3, <1>4 DEF Targets

LEMMA CopiedTarget ==
  ASSUME NEW t \in Targets, NEW files \in SUBSET StoreKeys
  PROVE  [t EXCEPT !.files = files] \in Targets
BY DEF Targets

LEMMA RestoreDatabaseKeepsInv ==
  ASSUME IInv, NEW c \in Commands, RestoreDatabase(c)
  PROVE  IInv'
<1> DEFINE database == Head(cli[c].todo)
           rest == Tail(cli[c].todo)
           manifest == cli[c].manifest
           dump == manifest.dumps[database]
           next == IF rest = <<>> THEN "objects" ELSE "restore"
           j == [cli[c] EXCEPT !.step = next, !.todo = rest]
<1>1. /\ At(c, "restore") /\ UNCHANGED <<layout, systemVars, given, backups, faults>>
      /\ \/ /\ target.state[database] = "empty" /\ cli' = [cli EXCEPT ![c] = j]
            /\ target' = [target EXCEPT !.state[database] = "full", !.dump[database] = dump]
         \/ Continue(c, Idle) /\ UNCHANGED target
  BY DEF RestoreDatabase, CommandsOnly, Continue
<1>2. /\ TypeOK /\ RestoreInv /\ Restores(c) /\ cli[c] \in Jobs /\ target \in Targets
      /\ manifest \in Directories /\ layout.target \in BOOLEAN
      /\ Past(c) => \A e \in Commands \ {c} : ~Past(e)
      /\ target.state["application"] # "full" =>
           target.files = {} /\ \A e \in Commands : ~Past(e)
      /\ \/ cli[c].todo = <<"application">> /\ layout.target
         \/ cli[c].todo = <<"application", "checkpoint">> /\ ~layout.target
         \/ cli[c].todo = <<"checkpoint">> /\ ~layout.target
  BY <1>1, RestoreStands
<1>3. CASE Continue(c, Idle) /\ UNCHANGED target
  BY <1>1, <1>3, EndedKeepsInv
<1>4. CASE /\ target.state[database] = "empty" /\ cli' = [cli EXCEPT ![c] = j]
           /\ target' = [target EXCEPT !.state[database] = "full", !.dump[database] = dump]
  <2>1. \/ database = "application" /\ rest = <<>> /\ layout.target
        \/ database = "application" /\ rest = <<"checkpoint">> /\ ~layout.target
        \/ database = "checkpoint" /\ rest = <<>> /\ ~layout.target /\ Past(c)
    <3>1. CASE cli[c].todo = <<"application">> /\ layout.target
      BY <3>1
    <3>2. CASE cli[c].todo = <<"application", "checkpoint">> /\ ~layout.target
      BY <3>2
    <3>3. CASE cli[c].todo = <<"checkpoint">> /\ ~layout.target
      BY <1>1, <3>3 DEF Past, At
    <3> QED
      BY <1>2, <3>1, <3>2, <3>3
  <2> HIDE DEF database, rest
  <2>2. database \in Roles
    BY <2>1 DEF Roles
  <2>3. rest \in Todos
    BY <2>1 DEF Todos
  <2>4. dump \in [application : SUBSET (Objects \cup Checkpoints),
                  checkpoint  : SUBSET Checkpoints]
    BY <1>2, <2>2 DEF Directories, Dumps
  <2>5. next \in Steps /\ next \in Restoring /\ (next = "objects" <=> rest = <<>>)
        /\ next \in {"objects", "restore"}
    BY DEF Steps, Restoring
  <2>6. /\ j \in Jobs /\ j.step = next /\ j.todo = rest /\ j.doomed = cli[c].doomed
        /\ j.manifest = manifest
    <3> HIDE DEF next
    <3>1. j \in Jobs
      BY <1>2, <2>3, <2>5, AdvancedJob
    <3> QED
      BY <1>2, <3>1 DEF Jobs
  <2> HIDE DEF dump, next, j
  <2>7. target' \in Targets
    BY <1>2, <1>4, <2>2, <2>4, FilledTarget
  <2>8. /\ target'.state[database] = "full" /\ target'.dump[database] = dump
        /\ target'.files = target.files
        /\ database = "checkpoint" =>
             /\ target'.state["application"] = target.state["application"]
             /\ target'.dump["application"] = target.dump["application"]
    BY <1>2, <1>4, <2>2 DEF Targets, Dumps, Roles
  <2>9. /\ cli'[c] = j /\ \A e \in Commands \ {c} : cli'[e] = cli[e]
        /\ RestoreInv' => IInv'
    <3>1. /\ j.step \in {"idle"} \cup Restoring /\ j.doomed \subseteq cli[c].doomed
          /\ given' = given /\ faults' = faults /\ cli' = [cli EXCEPT ![c] = j]
      BY <1>1, <1>4, <2>5, <2>6
    <3> QED
      BY <1>1, <2>6, <2>7, <3>1, RestoreKeepsRest
  <2>10. \A e \in Commands \ {c} : ~Past(e)
    BY <1>2, <1>4, <2>1
  <2>11. target.files = {}
    BY <1>1, <1>2, <1>4, <2>1 DEF Restores, At
  <2>12. target'.state["application"] = "full"
         /\ target'.dump["application"] = manifest.dumps["application"]
    BY <1>2, <2>1, <2>8 DEF Restores, dump
  <2>13. Restores(c)'
    <3>1. layout.source => manifest.dumps["application"] = manifest.dumps["checkpoint"]
      BY <1>1, <1>2 DEF Restores, At, OneDump, Restoring
    <3>2. /\ cli'[c].step = next /\ cli'[c].todo = rest /\ cli'[c].manifest = manifest
      BY <2>6, <2>9
    <3>3. ~layout.target /\ next = "objects" =>
            target'.dump["checkpoint"] = manifest.dumps["checkpoint"]
      BY <2>1, <2>5, <2>8 DEF dump
    <3>4. next = "restore" => rest = <<"checkpoint">> /\ ~layout.target
      BY <2>1, <2>5
    <3>5. layout' = layout
      BY <1>1
    <3>6. OneDump(cli[c].manifest)'
      BY <3>1, <3>2, <3>5 DEF OneDump
    <3>7. target'.files = {}
      BY <2>8, <2>11
    <3> HIDE DEF manifest
    <3> QED
      BY <2>5, <2>12, <3>2, <3>3, <3>4, <3>5, <3>6, <3>7 DEF Restores, At
  <2>14. RestoreInv'
    BY <1>1, <1>2, <2>9, <2>10, <2>12, <2>13, RestoreMoves
  <2> QED
    BY <2>9, <2>14
<1> QED
  BY <1>1, <1>3, <1>4

\* A restore that copies files or compares revisions.
LEMMA StepKeepsInv ==
  ASSUME IInv, NEW c \in Commands, NEW step \in Restoring, Past(c),
         cli[c].step \in Restoring,
         cli' = [cli EXCEPT ![c] = [cli[c] EXCEPT !.step = step]], target' \in Targets,
         target'.state = target.state, target'.dump = target.dump,
         UNCHANGED <<layout, systemVars, given, backups, faults>>
  PROVE  /\ cli'[c].step = step /\ cli'[c].todo = cli[c].todo
         /\ cli'[c].manifest = cli[c].manifest
         /\ Restores(c)' => IInv'
<1> DEFINE j == [cli[c] EXCEPT !.step = step]
<1>1. /\ TypeOK /\ RestoreInv /\ Restores(c) /\ cli[c] \in Jobs /\ target \in Targets
      /\ \A e \in Commands \ {c} : ~Past(e)
  BY RestoreStands
<1>2. step \in Steps
  BY DEF Steps, Restoring
<1>3. /\ j \in Jobs /\ j.step = step /\ j.doomed = cli[c].doomed
      /\ j.manifest = cli[c].manifest /\ j.todo = cli[c].todo
  <2>1. j \in Jobs
    BY <1>1, <1>2, SteppedJob
  <2> QED
    BY <1>1, <2>1 DEF Jobs
<1>4. cli' = [cli EXCEPT ![c] = j]
  OBVIOUS
<1> HIDE DEF j
<1>5. /\ cli'[c] = j /\ \A e \in Commands \ {c} : cli'[e] = cli[e]
      /\ RestoreInv' => IInv'
  <2>1. /\ j.step \in {"idle"} \cup Restoring /\ j.doomed \subseteq cli[c].doomed
        /\ given' = given /\ faults' = faults
    BY <1>3
  <2> QED
    BY <1>3, <1>4, <2>1, RestoreKeepsRest
<1>6. target'.state["application"] = "full"
  BY <1>1 DEF Restores
<1>7. ASSUME Restores(c)' PROVE RestoreInv'
  BY <1>1, <1>5, <1>6, <1>7, RestoreMoves
<1> QED
  BY <1>3, <1>5, <1>7

LEMMA CopyBackKeepsInv ==
  ASSUME IInv, NEW c \in Commands, CopyBack(c)
  PROVE  IInv'
<1>1. /\ At(c, "objects")
      /\ target' = [target EXCEPT !.files = target.files \cup cli[c].manifest.files]
      /\ cli' = [cli EXCEPT ![c] = [cli[c] EXCEPT !.step = "compare"]]
      /\ UNCHANGED <<layout, systemVars, given, backups, faults>>
  <2>1. cli[c] \in Jobs /\ cli \in [Commands -> Jobs]
    BY DEF IInv, TypeOK
  <2> QED
    BY <2>1 DEF CopyBack, CommandsOnly, Goto
<1>2. /\ Restores(c) /\ cli[c] \in Jobs /\ target \in Targets /\ cli[c].manifest \in Directories
  BY RestoreStands
<1>3. Past(c) /\ target.files = {} /\ cli[c].step \in Restoring /\ "compare" \in Restoring
  BY <1>1, <1>2 DEF Past, Restores, At, Restoring
<1>4. target' \in Targets /\ target'.files = cli[c].manifest.files
      /\ target'.state = target.state /\ target'.dump = target.dump
  <2>1. cli[c].manifest.files \in SUBSET StoreKeys
    BY <1>2 DEF Directories
  <2>2. target' = [target EXCEPT !.files = cli[c].manifest.files]
    BY <1>1, <1>3
  <2> QED
    BY <1>2, <2>1, <2>2, CopiedTarget DEF Targets
<1>5. /\ cli'[c].step = "compare" /\ cli'[c].todo = cli[c].todo
      /\ cli'[c].manifest = cli[c].manifest
      /\ Restores(c)' => IInv'
  BY <1>1, <1>3, <1>4, StepKeepsInv
<1>6. Restores(c)'
  BY <1>1, <1>2, <1>3, <1>4, <1>5 DEF Restores, At, OneDump, Restoring, Past
<1> QED
  BY <1>5, <1>6

LEMMA CompareKeepsInv ==
  ASSUME IInv, NEW c \in Commands, CompareRevisions(c)
  PROVE  IInv'
<1>1. /\ At(c, "compare") /\ UNCHANGED <<layout, systemVars, given, backups, target, faults>>
      /\ \/ /\ cli[c].manifest.skewed = {}
            /\ cli' = [cli EXCEPT ![c] = [cli[c] EXCEPT !.step = "restored"]]
         \/ Continue(c, Idle)
  <2>1. cli[c] \in Jobs /\ cli \in [Commands -> Jobs]
    BY DEF IInv, TypeOK
  <2> QED
    BY <2>1 DEF CompareRevisions, CommandsOnly, Goto
<1>2. /\ Restores(c) /\ cli[c] \in Jobs /\ target \in Targets
  BY RestoreStands
<1>3. Past(c) /\ cli[c].step \in Restoring /\ "restored" \in Restoring
  BY <1>1 DEF Past, At, Restoring
<1>4. CASE Continue(c, Idle)
  BY <1>1, <1>4, EndedKeepsInv
<1>5. CASE /\ cli[c].manifest.skewed = {}
           /\ cli' = [cli EXCEPT ![c] = [cli[c] EXCEPT !.step = "restored"]]
  <2>1. /\ cli'[c].step = "restored" /\ cli'[c].todo = cli[c].todo
        /\ cli'[c].manifest = cli[c].manifest
        /\ Restores(c)' => IInv'
    <3>1. target' \in Targets /\ target'.state = target.state /\ target'.dump = target.dump
      BY <1>1, <1>2
    <3> QED
      BY <1>1, <1>3, <1>5, <3>1, StepKeepsInv
  <2>2. Restores(c)'
    BY <1>1, <1>2, <1>3, <1>5, <2>1 DEF Restores, At, OneDump, Restoring, Past
  <2> QED
    BY <2>1, <2>2
<1> QED
  BY <1>1, <1>4, <1>5

LEMMA RestoreFailsKeepsInv ==
  ASSUME IInv, NEW c \in Commands, RestoreFails(c)
  PROVE  IInv'
<1> DEFINE database == Head(cli[c].todo)
<1>1. /\ cli' = [cli EXCEPT ![c] = Idle]
      /\ UNCHANGED <<layout, systemVars, given, backups>>
      /\ faults' = faults \/ Fault
  BY DEF RestoreFails, CommandsOnly, Continue
<1>2. /\ TypeOK /\ RestoreInv /\ Restores(c) /\ cli[c] \in Jobs /\ target \in Targets
      /\ cli[c].manifest \in Directories
      /\ Past(c) => \A e \in Commands \ {c} : ~Past(e)
      /\ target.state["application"] # "full" =>
           target.files = {} /\ \A e \in Commands : ~Past(e)
      /\ At(c, "restore") =>
           \/ cli[c].todo = <<"application">> /\ layout.target
           \/ cli[c].todo = <<"application", "checkpoint">> /\ ~layout.target
           \/ cli[c].todo = <<"checkpoint">> /\ ~layout.target
  BY RestoreStands
<1>3. /\ target' \in Targets
      /\ target' = target \/ \A e \in Commands \ {c} : ~Past(e)
      /\ target'.state["application"] # "full" => target'.files = {}
  <2>1. CASE UNCHANGED target
    BY <1>2, <2>1 DEF RestoreInv
  <2>2. CASE /\ At(c, "restore") /\ target.state[database] = "empty"
             /\ target' = [target EXCEPT !.state[database] = "partial"]
    <3>1. database \in Roles /\ (database = "application" \/ Past(c))
      BY <1>2, <2>2 DEF Roles, Past, At
    <3> HIDE DEF database
    <3>2. target' \in Targets /\ target'.files = target.files
      <4>1. NoData \in [application : SUBSET (Objects \cup Checkpoints),
                        checkpoint  : SUBSET Checkpoints]
        BY DEF NoData
      <4>2. target' \in Targets
        BY <1>2, <2>2, <3>1, <4>1, FilledTarget
      <4> QED
        BY <1>2, <2>2, <4>2 DEF Targets
    <3>3. target.files = {} /\ \A e \in Commands \ {c} : ~Past(e)
      BY <1>2, <2>2, <3>1 DEF Restores, At
    <3> QED
      BY <3>2, <3>3
  <2>3. CASE /\ At(c, "objects")
             /\ \E files \in SUBSET cli[c].manifest.files :
                   target' = [target EXCEPT !.files = target.files \cup files]
    <3>1. PICK files \in SUBSET cli[c].manifest.files :
             target' = [target EXCEPT !.files = target.files \cup files]
      BY <2>3
    <3>2. target.files \cup files \in SUBSET StoreKeys
      BY <1>2 DEF Directories, Targets
    <3>3. Past(c) /\ target.state["application"] = "full"
      BY <1>2, <2>3 DEF Past, At, Restores
    <3>4. target' \in Targets /\ target'.state = target.state
      BY <1>2, <3>1, <3>2, CopiedTarget DEF Targets
    <3> QED
      BY <1>2, <3>3, <3>4
  <2> QED
    BY <2>1, <2>2, <2>3 DEF RestoreFails
<1>4. /\ cli'[c] = Idle /\ \A e \in Commands \ {c} : cli'[e] = cli[e]
      /\ RestoreInv' => IInv'
  <2>1. /\ Idle \in Jobs /\ Idle.step \in {"idle"} \cup Restoring
        /\ Idle.doomed \subseteq cli[c].doomed /\ given' = given
    BY <1>1, IdleTyped
  <2> QED
    BY <1>1, <1>3, <2>1, RestoreKeepsRest
<1>5. ~Past(c)' /\ Restores(c)'
  <2>1. cli'[c].step = "idle"
    BY <1>4, IdleTyped
  <2> QED
    BY <2>1 DEF Past, At, Restores, Restoring
<1>6. RestoreInv'
  <2>1. layout' = layout /\ RestoreInv /\ \A e \in Commands \ {c} : cli'[e] = cli[e]
    BY <1>1, <1>2, <1>4
  <2> QED
    BY <1>3, <1>5, <2>1, RestoreMoves
<1> QED
  BY <1>4, <1>6

-----------------------------------------------------------------------------
(* The theorems                                                            *)

LEMMA NextKeepsInv ==
  ASSUME IInv, [Next]_vars
  PROVE  IInv'
<1>1. CASE UNCHANGED vars
  <2>1. UNCHANGED <<layout, temps, stored, saved, rows, backups, target, cli, given, faults>>
    BY <1>1 DEF vars, systemVars, boundVars
  <2>2. TypeOK' /\ SystemInv' /\ BackupResolves'
    BY <2>1 DEF IInv, TypeOK, SystemInv, BackupResolves, Verified
  <2>3. CreateInv'
    BY <2>1 DEF IInv, CreateInv, Underway, At, OneDump, Named, Durable, Verified
  <2>4. PruneInv'
    <3>1. Valid' = Valid
      BY <2>1 DEF Valid, Verified
    <3> QED
      BY <2>1, <3>1 DEF IInv, PruneInv, NewerOf, Verified, At
  <2>5. RestoreInv'
    BY <2>1 DEF IInv, RestoreInv, Restores, Past, At, OneDump, TargetDatabases
  <2> QED
    BY <2>2, <2>3, <2>4, <2>5 DEF IInv
<1>2. CASE SystemStep
  BY <1>2, SystemKeepsInv
<1>3. ASSUME NEW c \in Commands, CommandStep(c) PROVE IInv'
  <2>1. CASE BeginCreate(c)
    BY <2>1, BeginCreateKeepsInv
  <2>2. CASE Dump(c)
    BY <2>2, DumpKeepsInv
  <2>3. CASE ListObjects(c)
    BY <2>3, ListKeepsInv
  <2>4. CASE CopyObjects(c)
    BY <2>4, CopyKeepsInv
  <2>5. CASE WriteManifest(c)
    BY <2>5, ManifestKeepsInv
  <2>6. CASE CreateFails(c)
    BY <2>6, CreateFailsKeepsInv
  <2>7. CASE BeginPrune(c)
    BY <2>7, BeginPruneKeepsInv
  <2>8. CASE BeginRemove(c)
    BY <2>8, BeginRemoveKeepsInv
  <2>9. CASE EndRemove(c)
    BY <2>9, EndRemoveKeepsInv
  <2>10. CASE BeginRestore(c)
    BY <2>10, BeginRestoreKeepsInv
  <2>11. CASE RestoreDatabase(c)
    BY <2>11, RestoreDatabaseKeepsInv
  <2>12. CASE CopyBack(c)
    BY <2>12, CopyBackKeepsInv
  <2>13. CASE CompareRevisions(c)
    BY <2>13, CompareKeepsInv
  <2>14. CASE RestoreFails(c)
    BY <2>14, RestoreFailsKeepsInv
  <2>15. CASE Crash(c)
    BY <2>15, EndedKeepsInv DEF Crash, CommandsOnly
  <2> QED
    BY <1>3, <2>1, <2>2, <2>3, <2>4, <2>5, <2>6, <2>7, <2>8, <2>9, <2>10, <2>11, <2>12,
       <2>13, <2>14, <2>15
       DEF CommandStep
<1> QED
  BY <1>1, <1>2, <1>3 DEF Next

(* Directories, dumps, the target and every command keep their types and   *)
(* agree with each other: the invariant from which the rest follows.       *)
THEOREM BackupsAreConsistent == Spec => []IInv
  BY InitInv, NextKeepsInv, PTL DEF Spec

(* A backup that create calls verified has, for every application row in   *)
(* its dump, the object or the checkpoint the row refers to, whatever is   *)
(* written, migrated, pruned or cut off meanwhile.                         *)
THEOREM VerifiedBackupsResolve == Spec => []BackupResolves
<1>1. IInv => BackupResolves
  BY DEF IInv
<1> QED
  BY <1>1, BackupsAreConsistent, PTL

(* A restore that reports success has brought back what the manifest names *)
(* and nothing else, when a backup of two databases is restored into two:  *)
(* without this, restore_shared_target has the counterexample.             *)
THEOREM RestoresAreWhole ==
  ASSUME \A l \in Layouts : l.target => l.source
  PROVE  Spec => []RestoredIsWhole
<1>1. ASSUME IInv PROVE RestoredIsWhole
  <2> SUFFICES ASSUME NEW c \in Commands, At(c, "restored")
               PROVE  /\ cli[c].manifest.skewed = {}
                      /\ \A r \in Roles :
                           target.dump[DatabaseOf(layout.target, r)][r]
                             = cli[c].manifest.dumps[r][r]
                      /\ target.files = cli[c].manifest.files
    BY DEF RestoredIsWhole
  <2>1. Restores(c) /\ Past(c) /\ cli[c].step = "restored" /\ layout \in Layouts
    BY <1>1 DEF IInv, RestoreInv, Past, At, TypeOK
  <2>2. /\ cli[c].manifest.skewed = {} /\ target.files = cli[c].manifest.files
        /\ target.dump["application"] = cli[c].manifest.dumps["application"]
        /\ OneDump(cli[c].manifest)
        /\ ~layout.target => target.dump["checkpoint"] = cli[c].manifest.dumps["checkpoint"]
    BY <2>1 DEF Restores, At, Restoring
  <2>3. CASE layout.target
    <3>1. cli[c].manifest.dumps["application"] = cli[c].manifest.dumps["checkpoint"]
      BY <2>1, <2>2, <2>3 DEF OneDump
    <3> QED
      BY <2>2, <2>3, <3>1 DEF DatabaseOf, Roles
  <2>4. CASE ~layout.target
    BY <2>2, <2>4 DEF DatabaseOf, Roles
  <2> QED
    BY <2>2, <2>3, <2>4
<1> QED
  BY <1>1, BackupsAreConsistent, PTL

(* A verified backup is only taken away while as many newer ones of its    *)
(* class are there as the class keeps, however many prunes and creates run *)
(* side by side.                                                           *)
THEOREM NewestAreKept == Spec => PruneKeepsNewest
<1>1. ASSUME IInv, [Next]_vars, NEW b \in 1..MaxBackups, Verified(b), ~Verified(b)'
      PROVE  Cardinality(NewerOf(b, {n \in 1..MaxBackups : Verified(n)}))
               >= Limit[backups[b].class]
  <2>1. TypeOK /\ PruneInv /\ backups[b].state = "whole" /\ backups'[b] # backups[b]
    BY <1>1 DEF IInv, Verified
  <2>2. PICK c \in Commands : CommandStep(c)
    BY <1>1, <2>1
       DEF Next, vars, SystemStep, BeginPut, EndPut, WriteCheckpoint, InsertRow, SystemOnly
  <2>3. ASSUME NEW d, backups[d].state # "whole",
               \A a \in 1..MaxBackups \ {d} : backups'[a] = backups[a]
        PROVE  FALSE
    BY <2>1, <2>3
  <2>4. cli[c].step \in Creating => backups[cli[c].dir].state # "whole"
    BY <1>1 DEF IInv, CreateInv, Underway
  <2>5. ~BeginCreate(c)
    <3> SUFFICES ASSUME BeginCreate(c) PROVE FALSE
      OBVIOUS
    <3>1. PICK d \in 1..MaxBackups, class \in Classes :
             /\ backups[d].state = "none"
             /\ backups' = [backups EXCEPT
                    ![d] = [NoBackup EXCEPT !.state = "writing", !.class = class]]
      BY DEF BeginCreate
    <3>2. \A a \in 1..MaxBackups \ {d} : backups'[a] = backups[a]
      BY <2>1, <3>1 DEF TypeOK
    <3> QED
      BY <2>3, <3>1, <3>2
  <2>6. ~(Dump(c) \/ CopyObjects(c) \/ WriteManifest(c) \/ CreateFails(c))
    <3> SUFFICES ASSUME Dump(c) \/ CopyObjects(c) \/ WriteManifest(c) \/ CreateFails(c)
                 PROVE  FALSE
      OBVIOUS
    <3>1. cli[c].step \in Creating
      BY DEF Dump, CopyObjects, WriteManifest, CreateFails, At, Creating
    <3>2. \A a \in 1..MaxBackups \ {cli[c].dir} : backups'[a] = backups[a]
      <4>1. CASE Dump(c)
        BY <2>1, <4>1 DEF TypeOK, Dump
      <4>2. CASE CopyObjects(c)
        BY <2>1, <4>2 DEF TypeOK, CopyObjects, Removed
      <4>3. CASE WriteManifest(c)
        BY <2>1, <4>3 DEF TypeOK, WriteManifest
      <4>4. CASE CreateFails(c)
        BY <2>1, <4>4 DEF TypeOK, CreateFails, Removed
      <4> QED
        BY <4>1, <4>2, <4>3, <4>4
    <3> QED
      BY <2>3, <2>4, <3>1, <3>2
  <2>7. ~EndRemove(c)
    <3> SUFFICES ASSUME EndRemove(c) PROVE FALSE
      OBVIOUS
    <3>1. At(c, "remove") /\ (backups' = backups \/ Removed(cli[c].dir))
      BY DEF EndRemove
    <3>2. backups[cli[c].dir].state # "whole"
      BY <2>1, <3>1 DEF PruneInv
    <3>3. \A a \in 1..MaxBackups \ {cli[c].dir} : backups'[a] = backups[a]
      BY <2>1, <3>1 DEF TypeOK, Removed
    <3> QED
      BY <2>3, <3>2, <3>3
  <2>8. ~(\/ ListObjects(c) \/ BeginPrune(c) \/ BeginRestore(c) \/ RestoreDatabase(c)
          \/ CopyBack(c) \/ CompareRevisions(c) \/ RestoreFails(c) \/ Crash(c))
    BY <2>1
       DEF ListObjects, BeginPrune, BeginRestore, RestoreDatabase, CopyBack, CompareRevisions,
           RestoreFails, Crash
  <2>9. b \in cli[c].doomed
    <3>1. BeginRemove(c)
      BY <2>2, <2>5, <2>6, <2>7, <2>8 DEF CommandStep
    <3>2. PICK d \in cli[c].doomed :
             backups' = backups \/ backups' = [backups EXCEPT ![d].state = "damaged"]
      BY <3>1 DEF BeginRemove
    <3> QED
      BY <2>1, <3>2 DEF TypeOK
  <2> QED
    BY <1>1, <2>1, <2>9 DEF PruneInv, Valid
<1>2. IInv /\ [Next]_vars
         => [\A b \in 1..MaxBackups :
               Verified(b) /\ ~Verified(b)' =>
                  Cardinality(NewerOf(b, {n \in 1..MaxBackups : Verified(n)}))
                    >= Limit[backups[b].class]]_vars
  BY <1>1
<1> QED
  BY <1>2, BackupsAreConsistent, PTL DEF Spec, PruneKeepsNewest

=============================================================================
