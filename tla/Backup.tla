------------------------------- MODULE Backup -------------------------------
(***************************************************************************)
(* Backups of a running system and what can be restored from them: the      *)
(* create, prune and restore commands of backup.py, each a process of its   *)
(* own, beside the API and the scheduler, which go on writing.              *)
(*                                                                         *)
(* What the system writes are references: a row of the application tables  *)
(* names an object of the store or relies on a checkpoint, and is written   *)
(* after it.  Neither is ever deleted or changed.  The two roles of tables  *)
(* may share a database, in the system and in the target of a restore.      *)
(***************************************************************************)
EXTENDS Integers, Sequences, FiniteSets, FiniteSetsExt

CONSTANTS
    Commands,       \* command lines that can run side by side
    Objects,        \* contents of the object store
    Checkpoints,
    Layouts,        \* [source, target]: do the roles share a database there?
    Limit,          \* Limit[c]: backups kept of class c; 7 daily, 4 weekly
    OldBackups,     \* how many backups there are at first, of an empty system
    MaxBackups,     \* bound: backup directories
    MaxCommands,    \* bound: commands given
    MaxFaults       \* bound: failures, crashes, and migrations during a dump

Classes == {"daily", "weekly"}
Roles == {"application", "checkpoint"}

ASSUME BackupAssumption ==
    /\ Layouts \subseteq [source : BOOLEAN, target : BOOLEAN]
    /\ Limit \in [Classes -> Nat \ {0}]
    /\ Objects \cap Checkpoints = {}
    /\ {OldBackups, MaxBackups, MaxCommands, MaxFaults} \subseteq Nat

VARIABLES
    layout,
    temps,      \* temporary files of the object store, each of an object
    stored,     \* objects under their keys
    saved,      \* checkpoints
    rows,       \* what the application rows refer to
    backups,    \* backups[b]: the directory b of the backup root
    target,     \* the target of the restores
    cli,        \* cli[c]: the command that c runs
    given, faults

systemVars == <<temps, stored, saved, rows>>
boundVars  == <<given, faults>>
vars == <<layout, systemVars, backups, target, cli, boundVars>>

\* A database goes by the first role that names it.
DatabaseOf(shared, role) == IF shared THEN "application" ELSE role

\* Fault: the checkpoints are dumped first.
DatabasesReversed(shared) ==
    IF shared THEN <<"application">> ELSE <<"checkpoint", "application">>

\* The distinct databases, in the order of the roles in database_urls.
Databases(shared) ==
    IF shared THEN <<"application">> ELSE <<"application", "checkpoint">>

\* What a dump holds; nothing in one that has not been taken.
NoData == [application |-> {}, checkpoint |-> {}]
NoDumps == [r \in Roles |-> NoData]
NoBackup == [state |-> "none", class |-> "daily", at |-> 0, dumps |-> NoDumps,
             skewed |-> {}, files |-> {}]
OldBackup(b, class) == [NoBackup EXCEPT !.state = "whole", !.class = class, !.at = b]
NoTarget == [state |-> [r \in Roles |-> "empty"], dump |-> NoDumps, files |-> {}]
Idle == [step |-> "idle", dir |-> 0, todo |-> <<>>, listed |-> {}, doomed |-> {},
         manifest |-> NoBackup]

States == {"none", "writing", "whole", "damaged", "gone"}
StoreKeys == {"key", "tmp"} \X Objects
Dumps == [Roles -> [application : SUBSET (Objects \cup Checkpoints),
                    checkpoint  : SUBSET Checkpoints]]
Directories ==
    [state : States, class : Classes, at : Nat, dumps : Dumps,
     skewed : SUBSET Roles, files : SUBSET StoreKeys]
Steps == {"idle", "dump", "list", "copy", "manifest", "prune", "remove",
          "restore", "objects", "compare", "restored"}
Jobs ==
    [step : Steps, dir : 0..MaxBackups,
     todo : {Databases(shared) : shared \in BOOLEAN} \cup {<<"checkpoint">>, <<>>},
     listed : SUBSET StoreKeys, doomed : SUBSET (1..MaxBackups), manifest : Directories]

TypeOK ==
    /\ layout \in Layouts
    /\ temps \subseteq Objects /\ stored \subseteq Objects
    /\ saved \subseteq Checkpoints /\ rows \subseteq Objects \cup Checkpoints
    /\ backups \in [1..MaxBackups -> Directories]
    /\ target \in [state : [Roles -> {"empty", "partial", "full"}], dump : Dumps,
                    files : SUBSET StoreKeys]
    /\ cli \in [Commands -> Jobs]
    /\ given \in 0..MaxCommands /\ faults \in 0..MaxFaults

Init ==
    /\ layout \in Layouts
    /\ temps = {} /\ stored = {} /\ saved = {} /\ rows = {}
    /\ \E class \in [1..OldBackups -> Classes] :
         backups = [b \in 1..MaxBackups |->
                       IF b <= OldBackups THEN OldBackup(b, class[b]) ELSE NoBackup]
    /\ target = NoTarget
    /\ cli = [c \in Commands |-> Idle]
    /\ given = 0 /\ faults = 0

-----------------------------------------------------------------------------
(* The running system                                                      *)

SystemOnly == UNCHANGED <<layout, backups, target, cli, boundVars>>

\* LocalObjectStore.put_bytes writes a temporary file beside its target and
\* renames it, or removes it when anything fails.
BeginPut(o) ==
    /\ o \notin stored \cup temps /\ temps' = temps \cup {o}
    /\ UNCHANGED <<stored, saved, rows>> /\ SystemOnly

EndPut(o) ==
    /\ o \in temps /\ temps' = temps \ {o}
    /\ stored' \in {stored, stored \cup {o}}
    /\ UNCHANGED <<saved, rows>> /\ SystemOnly

WriteCheckpoint(k) ==
    /\ k \notin saved /\ saved' = saved \cup {k}
    /\ UNCHANGED <<temps, stored, rows>> /\ SystemOnly

\* Reports, documents and imported notices are put before the row that names
\* them, and a run is recorded as paused after its checkpoint is durable.
InsertRow(x) ==
    /\ x \in (stored \cup saved) \ rows /\ rows' = rows \cup {x}
    /\ UNCHANGED <<temps, stored, saved>> /\ SystemOnly

-----------------------------------------------------------------------------
(* create                                                                  *)

At(c, step) == cli[c].step = step
Continue(c, record) == cli' = [cli EXCEPT ![c] = record]
Goto(c, step) == cli' = [cli EXCEPT ![c].step = step]
CommandsOnly == UNCHANGED <<layout, systemVars, given>>
Fault == faults < MaxFaults /\ faults' = faults + 1

Begin(c) ==
    /\ At(c, "idle") /\ given < MaxCommands /\ given' = given + 1
    /\ UNCHANGED <<layout, systemVars, target, faults>>

Existing == {b \in 1..MaxBackups : backups[b].state \notin {"none", "gone"}}

\* verify_manifest: every file the manifest names is there with its hash.
Verified(b) == backups[b].state = "whole"

\* rmtree of the directory.  A name is not used again.
Removed(b) == backups' = [backups EXCEPT ![b] = [NoBackup EXCEPT !.state = "gone"]]

BeginCreate(c) ==
    /\ Begin(c)
    /\ \E b \in 1..MaxBackups, class \in Classes :
         /\ backups[b].state = "none" /\ \A older \in 1..(b - 1) : backups[older].state # "none"
         /\ backups' = [backups EXCEPT ![b] = [NoBackup EXCEPT !.state = "writing", !.class = class]]
         /\ Continue(c, [Idle EXCEPT !.step = "dump", !.dir = b, !.todo = Databases(layout.source)])

\* The roles whose tables are in the database.
Tables(database) == {r \in Roles : DatabaseOf(layout.source, r) = database}

\* pg_dump sees one snapshot of its database.  The revision is read after it, and
\* is another one when the database is migrated in between.
Dump(c) ==
    LET dir == cli[c].dir
        tables == Tables(Head(cli[c].todo))
        rest == Tail(cli[c].todo)
        dump == [application |-> IF "application" \in tables THEN rows ELSE {},
                 checkpoint  |-> IF "checkpoint" \in tables THEN saved ELSE {}]
    IN  /\ At(c, "dump")
        /\ \E skewed \in {{}, tables} :
             /\ backups' = [backups EXCEPT
                    ![dir].dumps = [r \in Roles |-> IF r \in tables THEN dump ELSE @[r]],
                    ![dir].skewed = @ \cup skewed]
             /\ IF skewed = {} THEN UNCHANGED faults ELSE Fault
        /\ Continue(c, [cli[c] EXCEPT !.step = IF rest = <<>> THEN "list" ELSE "dump", !.todo = rest])
        /\ UNCHANGED target /\ CommandsOnly

Temp(o) == <<"tmp", o>>
Keys == {<<"key", o>> : o \in stored} \cup {Temp(o) : o \in temps}

\* list_keys finds the temporary files too.
ListObjects(c) ==
    /\ At(c, "list")
    /\ Continue(c, [cli[c] EXCEPT !.step = "copy", !.listed = Keys])
    /\ UNCHANGED <<backups, target, faults>> /\ CommandsOnly

\* A temporary file that is gone by now fails the whole backup.
CopyObjects(c) ==
    LET dir == cli[c].dir IN
    /\ At(c, "copy")
    /\ IF cli[c].listed \subseteq Keys
       THEN /\ backups' = [backups EXCEPT ![dir].files = cli[c].listed]
            /\ Continue(c, [cli[c] EXCEPT !.step = "manifest", !.listed = {}])
       ELSE Removed(dir) /\ Continue(c, Idle)
    /\ UNCHANGED <<target, faults>> /\ CommandsOnly

\* created_at is the time of the manifest, not of the directory.
WriteManifest(c) ==
    LET newest == Max({backups[b].at : b \in 1..MaxBackups}) IN
    /\ At(c, "manifest")
    /\ backups' = [backups EXCEPT ![cli[c].dir].state = "whole", ![cli[c].dir].at = newest + 1]
    /\ Continue(c, Idle)
    /\ UNCHANGED <<target, faults>> /\ CommandsOnly

Creating == {"dump", "list", "copy", "manifest"}

CreateFails(c) ==
    /\ cli[c].step \in Creating /\ Fault
    /\ Removed(cli[c].dir) /\ Continue(c, Idle)
    /\ UNCHANGED target /\ CommandsOnly

-----------------------------------------------------------------------------
(* prune                                                                   *)

NewerOf(b, verified) ==
    {n \in verified : backups[n].class = backups[b].class /\ backups[n].at > backups[b].at}

\* Fault: the oldest of each class are kept.
KeptOldest(verified) ==
    {b \in verified : \/ \A n \in verified : backups[n].at <= backups[b].at
                      \/ Cardinality({o \in verified : /\ backups[o].class = backups[b].class
                                                       /\ backups[o].at < backups[b].at})
                           < Limit[backups[b].class]}

\* The newest of each class, and the newest of all.
Kept(verified) ==
    {b \in verified : \/ \A n \in verified : backups[n].at <= backups[b].at
                      \/ Cardinality(NewerOf(b, verified)) < Limit[backups[b].class]}

\* The directories are verified one after the other; what is not valid is left
\* alone.  What another prune takes away meanwhile is older than what is kept.
BeginPrune(c) ==
    LET verified == {b \in Existing : Verified(b)} IN
    /\ Begin(c) /\ verified \ Kept(verified) # {}
    /\ Continue(c, [Idle EXCEPT !.step = "prune", !.doomed = verified \ Kept(verified)])
    /\ UNCHANGED backups

\* rmtree takes one file after the other.  It fails on a directory that is gone,
\* and may fail on one that another prune is removing.
BeginRemove(c) ==
    /\ At(c, "prune")
    /\ \E b \in cli[c].doomed :
         \/ /\ backups[b].state \in {"whole", "damaged"}
            /\ backups' = [backups EXCEPT ![b].state = "damaged"]
            /\ Continue(c, [cli[c] EXCEPT !.step = "remove", !.dir = b])
         \/ /\ backups[b].state \in {"damaged", "gone"}
            /\ Continue(c, Idle) /\ UNCHANGED backups
    /\ UNCHANGED <<target, faults>> /\ CommandsOnly

EndRemove(c) ==
    LET left == cli[c].doomed \ {cli[c].dir} IN
    /\ At(c, "remove")
    /\ IF backups[cli[c].dir].state = "gone"
       THEN Continue(c, Idle) /\ UNCHANGED backups
       ELSE /\ Removed(cli[c].dir)
            /\ Continue(c, IF left = {} THEN Idle
                           ELSE [Idle EXCEPT !.step = "prune", !.doomed = left])
    /\ UNCHANGED <<target, faults>> /\ CommandsOnly

-----------------------------------------------------------------------------
(* restore                                                                 *)

TargetDatabases == Databases(layout.target)

\* The backup is verified before the target is looked at: its object root has to
\* be empty and no database may have a revision, which a partial one need not have.
BeginRestore(c) ==
    /\ Begin(c)
    /\ \E b \in Existing :
         /\ Verified(b)
         /\ target.files = {}
         /\ \A r \in Range(TargetDatabases) : target.state[r] # "full"
         /\ Continue(c, [Idle EXCEPT !.step = "restore", !.dir = b, !.todo = TargetDatabases,
                                     !.manifest = backups[b]])
    /\ UNCHANGED backups

\* The files of the backup are still there, or, when it is being removed, may be.
Readable(b) == backups[b].state \in {"whole", "damaged"}
Unreadable(b) == backups[b].state \in {"damaged", "gone"}

\* Fault: pg_restore goes on after an error.
RestoreAnyway(c) ==
    LET database == Head(cli[c].todo)
        rest == Tail(cli[c].todo)
        dump == cli[c].manifest.dumps[database]
    IN  /\ At(c, "restore") /\ Readable(cli[c].dir)
        /\ target' = [target EXCEPT !.state[database] = "full",
                                    !.dump[database] =
                            IF target.state[database] = "empty" THEN dump ELSE @]
        /\ Continue(c, [cli[c] EXCEPT !.step = IF rest = <<>> THEN "objects" ELSE "restore",
                                      !.todo = rest])
        /\ UNCHANGED <<backups, faults>>
        /\ CommandsOnly

\* pg_restore --exit-on-error of the dump of the role the database goes by, into
\* a database that must not have the tables yet.
RestoreDatabase(c) ==
    LET database == Head(cli[c].todo)
        rest == Tail(cli[c].todo)
        dump == cli[c].manifest.dumps[database]
    IN  /\ At(c, "restore") /\ Readable(cli[c].dir)
        /\ IF target.state[database] = "empty"
           THEN /\ target' = [target EXCEPT !.state[database] = "full",
                                            !.dump[database] = dump]
                /\ Continue(c, [cli[c] EXCEPT !.step = IF rest = <<>> THEN "objects" ELSE "restore",
                                              !.todo = rest])
           ELSE Continue(c, Idle) /\ UNCHANGED target
        /\ UNCHANGED <<backups, faults>> /\ CommandsOnly

\* Each file is copied and its hash compared.
CopyBack(c) ==
    /\ At(c, "objects") /\ Readable(cli[c].dir)
    /\ target' = [target EXCEPT !.files = @ \cup cli[c].manifest.files]
    /\ Goto(c, "compare")
    /\ UNCHANGED <<backups, faults>> /\ CommandsOnly

\* The revision of the target, against the one the manifest has for the role.
CompareRevisions(c) ==
    /\ At(c, "compare")
    /\ IF cli[c].manifest.skewed = {} THEN Goto(c, "restored") ELSE Continue(c, Idle)
    /\ UNCHANGED <<backups, target, faults>> /\ CommandsOnly

\* A file of the backup is gone, a tool fails or the process dies, in the middle of
\* a database or of the files.
RestoreFails(c) ==
    /\ (cli[c].dir > 0 /\ Unreadable(cli[c].dir) /\ UNCHANGED faults) \/ Fault
    /\ \/ /\ At(c, "restore")
          /\ LET database == Head(cli[c].todo) IN
             target' = IF target.state[database] = "empty"
                       THEN [target EXCEPT !.state[database] = "partial"] ELSE target
       \/ /\ At(c, "objects")
          /\ \E files \in SUBSET cli[c].manifest.files : target' = [target EXCEPT !.files = @ \cup files]
    /\ Continue(c, Idle)
    /\ UNCHANGED backups /\ CommandsOnly

-----------------------------------------------------------------------------

\* A command dies and leaves its directory as it is.
Crash(c) ==
    /\ cli[c].step \in Creating \cup {"prune", "remove"} /\ Fault
    /\ Continue(c, Idle)
    /\ UNCHANGED <<backups, target>> /\ CommandsOnly

SystemStep ==
    \/ \E o \in Objects : BeginPut(o) \/ EndPut(o)
    \/ \E k \in Checkpoints : WriteCheckpoint(k)
    \/ \E x \in Objects \cup Checkpoints : InsertRow(x)

CommandStep(c) ==
    \/ BeginCreate(c) \/ Dump(c) \/ ListObjects(c) \/ CopyObjects(c)
    \/ WriteManifest(c) \/ CreateFails(c)
    \/ BeginPrune(c) \/ BeginRemove(c) \/ EndRemove(c)
    \/ BeginRestore(c) \/ RestoreDatabase(c) \/ CopyBack(c) \/ CompareRevisions(c)
    \/ RestoreFails(c)
    \/ Crash(c)

Next == SystemStep \/ \E c \in Commands : CommandStep(c)

Spec == Init /\ [][Next]_vars

-----------------------------------------------------------------------------
(* Properties                                                              *)

Files(keys) == {o \in Objects : <<"key", o>> \in keys}

\* Whatever was written while it was taken, a backup that create calls verified
\* has, for every application row in its dump, the object or the checkpoint that
\* the row refers to: create dumps the application tables first.
BackupResolves ==
    \A b \in 1..MaxBackups : Verified(b) =>
        backups[b].dumps["application"].application
            \subseteq Files(backups[b].files) \cup backups[b].dumps["checkpoint"].checkpoint

\* A restore that reports success has brought back everything the manifest names,
\* the tables of both roles among it, and nothing from an earlier attempt.
RestoredIsWhole ==
    \A c \in Commands : At(c, "restored") =>
        LET manifest == cli[c].manifest
        IN  /\ manifest.skewed = {}
            /\ \A r \in Roles :
                 target.dump[DatabaseOf(layout.target, r)][r] = manifest.dumps[r][r]
            /\ target.files = manifest.files

\* A verified backup is only taken away while the newer ones that its class keeps
\* are there, also when several prunes and creates run at once.
PruneKeepsNewest ==
    [][\A b \in 1..MaxBackups :
         Verified(b) /\ ~Verified(b)' =>
            Cardinality(NewerOf(b, {n \in 1..MaxBackups : Verified(n)})) >= Limit[backups[b].class]]_vars
=============================================================================
