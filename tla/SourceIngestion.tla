--------------------------- MODULE SourceIngestion --------------------------
(***************************************************************************)
(* Acquisition from the authorized source: ingestion workers under one      *)
(* advisory lock (ingestion/scheduler.py), the run that pages through the   *)
(* source and imports what it gets (IngestionService.run_once), the cursor  *)
(* and run rows (SourceAcquisitionRepository), beside an operator who       *)
(* imports bundles from the command line.                                   *)
(*                                                                         *)
(* The source is external: a feed of pages, of which the first `published`  *)
(* are out and do not change; a page names the next one if that is out.     *)
(* A cursor is the number of the page it fetches, "" is 1.  The cursor row  *)
(* and the row of the run are flushed but not committed before the run is   *)
(* finished, while every import commits on its own, so that the pages of a  *)
(* run are stored one by one and the cursor moves once.                     *)
(***************************************************************************)
EXTENDS SnapshotImport

CONSTANTS
    Workers,            \* ingestion processes, more than one when one is started
                        \* while another still runs
    Operators,          \* command lines that import
    Nobody,
    Feed,               \* the items of each page
    Archive,            \* bundles the operator has besides the staged ones
    MaxPagesPerRun,     \* max_pages_per_run: 100
    MaxRetries,         \* MAX_TRANSIENT_RETRIES: 2
    MaxRuns,            \* bound: runs
    MaxDisturbances,    \* bound: imports from the command line, and connections
                        \* lost with the lock, together
    MaxFaults           \* bound: failures and crashes

Items == UNION {Range(Feed[page]) : page \in DOMAIN Feed}
           \cup UNION {Range(b.items) : b \in Archive}

ASSUME IngestionAssumption ==
    /\ Importers = Workers \cup Operators /\ Workers \cap Operators = {}
    /\ Nobody \notin Workers
    /\ Feed \in Seq(Seq(Items)) /\ Feed # <<>>
    /\ \A b \in Archive : b.items \in Seq(Items)
    /\ {MaxPagesPerRun, MaxRetries} \subseteq Nat /\ MaxPagesPerRun > 0
    /\ {MaxRuns, MaxDisturbances, MaxFaults} \subseteq Nat

VARIABLES
    published,  \* how many pages are out
    staged,     \* bundles in the staging directory
    lock,       \* who holds the ingestion advisory lock
    cursor,     \* source_sync_cursors: [exists, value, version, failures]
    lastStatus, \* status of the source_acquisition_runs row committed last
    recorded,   \* the response objects those rows name
    pc,         \* pc[w]: where the run of worker w stands
    job,        \* job[w]: what that run has in memory
    runs,       \* how many runs have begun
    imports,    \* how many imports the operator has begun
    faults, losses

sourceVars == <<published, staged>>
cursorVars == <<cursor, lastStatus, recorded>>
boundVars  == <<runs, imports, faults, losses>>
vars == <<importVars, sourceVars, lock, cursorVars, pc, job, boundVars>>

NoPage  == 0
NoJob   == [run |-> 0, before |-> 0, version |-> 0, failures |-> 0, holds |-> FALSE,
            request |-> NoPage, next |-> NoPage, last |-> 0, responses |-> {},
            count |-> 0, tries |-> 0, status |-> "none"]

\* The run is in the retrieved_at of its pages, which the bundle id covers.
LiveBundle(run, page, next) ==
    [id |-> <<page, run>>, manifest |-> next, items |-> Feed[page], state |-> "sound"]
Response(page, next) == <<"response", page, next>>
LiveBundles ==
    UNION {{LiveBundle(run, page, next) : run \in 1..MaxRuns, next \in {NoPage, page, page + 1}}
             : page \in DOMAIN Feed}
Bundles == LiveBundles \cup Archive

\* inspect_bundle: the manifest names the hash of every file.
ASSUME KeyNamesItems ==
    \A a, b \in Bundles : Intact(a) /\ Intact(b) /\ Key(a) = Key(b) => a.items = b.items

\* Nothing has run yet, or one run has, which got no page.
Init ==
    /\ ImportInit
    /\ published = 1 /\ staged = {}
    /\ lock = Nobody
    /\ recorded = {}
    /\ \/ /\ cursor = [exists |-> FALSE, value |-> 1, version |-> 0, failures |-> 0]
          /\ lastStatus = "none" /\ faults = 0
       \/ /\ cursor = [exists |-> TRUE, value |-> 1, version |-> 1, failures |-> 1]
          /\ lastStatus = "rate_limited" /\ faults = MaxFaults
    /\ pc = [w \in Workers |-> "idle"] /\ job = [w \in Workers |-> NoJob]
    /\ runs = 0 /\ imports = 0 /\ losses = 0

Continue(w, step, record) ==
    /\ pc' = [pc EXCEPT ![w] = step]
    /\ job' = [job EXCEPT ![w] = record]

\* An exception reaches run_once: the run will be finished with this status.
FinishAs(w, status) ==
    Continue(w, IF status = "success" THEN "commit" ELSE "finish",
             [job[w] EXCEPT !.status = status])

Fault == faults < MaxFaults /\ faults' = faults + 1

\* Nobody else has inserted or updated the cursor row without committing.
CursorFree(w) == \A v \in Workers \ {w} : ~job[v].holds

-----------------------------------------------------------------------------
(* The lock and the beginning of a run                                     *)

\* run_with_ingestion_lock; without the lock the worker sleeps until the next poll.
AcquireLock(w) ==
    /\ pc[w] = "idle" /\ runs < MaxRuns
    /\ lock = Nobody /\ lock' = w
    /\ runs' = runs + 1
    /\ Continue(w, "open", [NoJob EXCEPT !.run = runs + 1])
    /\ UNCHANGED <<importVars, sourceVars, cursorVars, imports, faults, losses>>

\* get_or_create_source_sync_cursor and create_acquisition_run.  Where there is
\* no row yet it is inserted, and whoever comes second waits for that insert.
OpenRun(w) ==
    /\ pc[w] = "open"
    /\ cursor.exists \/ CursorFree(w)
    /\ Continue(w, "fetch",
          [job[w] EXCEPT !.before = cursor.value, !.version = cursor.version,
                         !.failures = cursor.failures, !.holds = ~cursor.exists,
                         !.request = cursor.value, !.last = cursor.value])
    /\ UNCHANGED <<importVars, sourceVars, lock, cursorVars, boundVars>>

-----------------------------------------------------------------------------
(* One page after the other                                                *)

\* A page comes: its response is put, its bundle built in a hidden directory,
\* inspected and moved to its place, and the import begins.
Materialize(w, next) ==
    LET page == job[w].request  b == LiveBundle(job[w].run, page, next) IN
    /\ objects' = objects \cup {Response(page, next)}
    /\ staged' = staged \cup {b}
    /\ imp' = [imp EXCEPT ![w] = Begun(b)]
    /\ Continue(w, "import", [job[w] EXCEPT !.next = next, !.tries = 0,
                                            !.responses = @ \cup {Response(page, next)}])
    /\ UNCHANGED <<bundleRows, importRows, notices, versions, published, lock, cursorVars,
                   runs, imports, losses>>

NextCursor(w) == IF job[w].request < published THEN job[w].request + 1 ELSE NoPage

FetchPage(w) == pc[w] = "fetch" /\ Materialize(w, NextCursor(w)) /\ UNCHANGED faults

\* A source that misbehaves names the page that has just been asked for.
FetchRepeated(w) == pc[w] = "fetch" /\ Materialize(w, job[w].request) /\ Fault

\* _fetch_page_with_retry: a timeout, a broken connection or a 5xx is tried again
\* a few times.
FetchBreaks(w) ==
    /\ pc[w] = "fetch" /\ Fault
    /\ IF job[w].tries < MaxRetries
       THEN Continue(w, "fetch", [job[w] EXCEPT !.tries = @ + 1])
       ELSE FinishAs(w, "failed")
    /\ UNCHANGED <<importVars, sourceVars, lock, cursorVars, runs, imports, losses>>

\* A rate limit, an answer that cannot be read, or anything else is raised at once.
FetchRefused(w) ==
    /\ pc[w] = "fetch" /\ Fault
    /\ \E status \in {"rate_limited", "failed", "quarantined"} : FinishAs(w, status)
    /\ UNCHANGED <<importVars, sourceVars, lock, cursorVars, runs, imports, losses>>

\* The store refuses the response, or the materializer quarantines it: no
\* directory is left behind, but the response is.
MaterializeFails(w) ==
    LET response == Response(job[w].request, NextCursor(w)) IN
    /\ pc[w] = "fetch" /\ Fault
    /\ \/ FinishAs(w, "failed") /\ UNCHANGED objects
       \/ /\ objects' = objects \cup {response}
          /\ Continue(w, "finish", [job[w] EXCEPT !.responses = @ \cup {response},
                                                  !.status = "quarantined"])
    /\ UNCHANGED <<bundleRows, importRows, notices, versions, imp, sourceVars, lock, cursorVars,
                   runs, imports, losses>>

\* Any transaction error is an unexpected one to the run.
StatusOf(result) == IF result = "rejected" THEN "quarantined" ELSE "failed"

\* The last page ends the run, the same page again and one page too many
\* quarantine it, another one is fetched.
FollowPage(w) ==
    LET next == job[w].next IN
    IF next = NoPage THEN Continue(w, "advance", job[w])
    ELSE IF next = job[w].request \/ job[w].count + 1 >= MaxPagesPerRun
    THEN FinishAs(w, "quarantined")
    ELSE Continue(w, "fetch",
                  [job[w] EXCEPT !.last = next, !.request = next, !.count = @ + 1])

\* Fault: a page that is refused is left out.
PageImportedSkipping(w) ==
    /\ pc[w] = "import" /\ imp[w].step = "idle"
    /\ FollowPage(w)
    /\ End(w, "none")
    /\ UNCHANGED <<objects, bundleRows, importRows, notices, versions, sourceVars, lock,
                   cursorVars, boundVars>>

\* After the import: a page that is not in the library ends the run.
PageImported(w) ==
    LET result == imp[w].result IN
    /\ pc[w] = "import" /\ imp[w].step = "idle"
    /\ IF result \in {"success", "reused"} THEN FollowPage(w)
       ELSE FinishAs(w, StatusOf(result))
    /\ End(w, "none")
    /\ UNCHANGED <<objects, bundleRows, importRows, notices, versions, sourceVars, lock,
                   cursorVars, boundVars>>

-----------------------------------------------------------------------------
(* The end of a run                                                        *)

Seen(w) == cursor.version = job[w].version /\ cursor.value = job[w].before

\* Fault: whatever the row says by now, it is written.
AdvanceUnseen(w) ==
    /\ pc[w] = "advance" /\ CursorFree(w)
    /\ Continue(w, "commit", [job[w] EXCEPT !.holds = TRUE, !.status = "success"])
    /\ UNCHANGED <<importVars, sourceVars, lock, cursorVars, boundVars>>

\* advance_source_sync_cursor updates the row it has seen, or none.  Either way
\* the ORM takes the new values over into the object it has loaded.
Advance(w) ==
    /\ pc[w] = "advance" /\ CursorFree(w)
    /\ IF Seen(w)
       THEN Continue(w, "commit", [job[w] EXCEPT !.holds = TRUE, !.status = "success"])
       ELSE Continue(w, "finish", [job[w] EXCEPT !.status = "failed", !.failures = 0,
                                                 !.version = @ + 1])
    /\ UNCHANGED <<importVars, sourceVars, lock, cursorVars, boundVars>>

Record(w) ==
    /\ lastStatus' = job[w].status
    /\ recorded' = recorded \cup job[w].responses

\* _finish of a success: the run row, the audit row and the cursor together.
CommitRun(w) ==
    /\ pc[w] = "commit"
    /\ cursor' = [exists |-> TRUE, value |-> job[w].last,
                  version |-> job[w].version + 1, failures |-> 0]
    /\ Record(w)
    /\ Continue(w, "release", NoJob)
    /\ UNCHANGED <<importVars, sourceVars, lock, boundVars>>

\* _finish of anything else.  The row is selected FOR UPDATE, but version and
\* consecutive_failures are counted up from the object loaded at the start.
FinishRun(w) ==
    /\ pc[w] = "finish" /\ CursorFree(w)
    /\ cursor' = [cursor EXCEPT !.exists = TRUE, !.version = job[w].version + 1,
                                !.failures = job[w].failures + 1]
    /\ Record(w)
    /\ Continue(w, "release", NoJob)
    /\ UNCHANGED <<importVars, sourceVars, lock, boundVars>>

Unlocked(w) == IF lock = w THEN Nobody ELSE lock

\* Fault: the lock is released only by a run that succeeds.
ReleaseAfterSuccess(w) ==
    /\ pc[w] = "release"
    /\ lock' = IF lastStatus = "success" THEN Unlocked(w) ELSE lock
    /\ Continue(w, "idle", NoJob)
    /\ UNCHANGED <<importVars, sourceVars, cursorVars, boundVars>>

Release(w) ==
    /\ pc[w] = "release"
    /\ lock' = Unlocked(w)
    /\ Continue(w, "idle", NoJob)
    /\ UNCHANGED <<importVars, sourceVars, cursorVars, boundVars>>

-----------------------------------------------------------------------------
(* Everybody else                                                          *)

Publish ==
    /\ published < Len(Feed) /\ published' = published + 1
    /\ UNCHANGED <<importVars, staged, lock, cursorVars, pc, job, boundVars>>

\* `bidscope snapshots import`, of a staged bundle or of one from elsewhere.
OperatorImports(o) ==
    /\ imp[o].step = "idle" /\ imports + losses < MaxDisturbances
    /\ imports' = imports + 1
    /\ \E b \in staged \cup Archive : imp' = [imp EXCEPT ![o] = Begun(b)]
    /\ UNCHANGED <<objects, bundleRows, importRows, notices, versions, sourceVars, lock,
                   cursorVars, pc, job, runs, faults, losses>>

\* A process ends, or an exception leaves run_once: what it has not committed is
\* gone, and so are the locks of its connections.
Crash(p) ==
    /\ Fault
    /\ IF p \in Workers
       THEN /\ pc[p] # "idle" /\ Continue(p, "idle", NoJob) /\ lock' = Unlocked(p)
       ELSE imp[p].step # "idle" /\ UNCHANGED <<pc, job, lock>>
    /\ End(p, "none")
    /\ UNCHANGED <<objects, bundleRows, importRows, notices, versions, sourceVars, cursorVars,
                   runs, imports, losses>>

\* The idle connection that holds the lock is cut; the run goes on.
LoseLock ==
    /\ lock # Nobody /\ imports + losses < MaxDisturbances
    /\ lock' = Nobody /\ losses' = losses + 1
    /\ UNCHANGED <<importVars, sourceVars, cursorVars, pc, job, runs, imports, faults>>

Others == UNCHANGED <<sourceVars, lock, cursorVars, pc, job, runs, imports, losses>>

Import(p) == ImportStep(p) /\ Others /\ UNCHANGED faults
Unblock(p) == BreakDeadlock(p) /\ Others /\ UNCHANGED faults
Raise(p) == ImportRaises(p) /\ Fault /\ Others

WorkerStep(w) ==
    \/ OpenRun(w) \/ FetchPage(w) \/ PageImported(w)
    \/ Advance(w) \/ CommitRun(w) \/ FinishRun(w) \/ Release(w)

Next ==
    \/ \E w \in Workers : \/ AcquireLock(w) \/ WorkerStep(w)
                          \/ FetchRepeated(w) \/ FetchBreaks(w) \/ FetchRefused(w)
                          \/ MaterializeFails(w)
    \/ \E o \in Operators : OperatorImports(o)
    \/ \E p \in Importers : Import(p) \/ Unblock(p) \/ Raise(p) \/ Crash(p)
    \/ Publish \/ LoseLock

Spec == Init /\ [][Next]_vars

\* Whoever can go on does; nobody has to start anything.
FairSpec ==
    /\ Spec
    /\ \A w \in Workers : WF_vars(WorkerStep(w) \/ Import(w) \/ Unblock(w))
    /\ \A o \in Operators : WF_vars(Import(o) \/ Unblock(o))

-----------------------------------------------------------------------------
(* Properties                                                              *)

Library == {v.item : v \in Range(versions)}

\* The cursor only leaves pages behind whose notices are all stored, whatever
\* failed, crashed or ran twice: run_once moves it after the last import.
CursorCoversImports ==
    \A page \in 1..(cursor.value - 1) : Range(Feed[page]) \subseteq Library

\* A run never takes the cursor back behind another run's, even when both have
\* started from the same row: advance_source_sync_cursor compares what it has seen.
CursorNeverGoesBack == [][cursor'.value >= cursor.value]_cursor

\* Every payload a version names, and every response a run names, is in the
\* store, though the store takes no part in the transactions.
RowsHaveObjects ==
    /\ \A v \in Range(versions) : v.key \in objects
    /\ recorded \subseteq objects

\* No two versions of a notice have the same content: the unique constraint of
\* create_version never has to stop an import, because the source notice row
\* makes the importers of a notice wait for each other.
VersionsDistinct ==
    \A i, j \in DOMAIN versions : versions[i].item = versions[j].item => i = j

\* A bundle arrives whole or not at all, and once.
Contract == INSTANCE ImportContract
    WITH Bundles <- Bundles,
         imported <- importRows,
         library <- Library
ImplementsContract == Contract!Spec

\* Every run and every import comes to its end and the lock comes free, through
\* retries, limits, waits for the rows of others and deadlocks.
Busy ==
    \/ \E w \in Workers : pc[w] # "idle" \/ lock = w
    \/ \E o \in Operators : imp[o].step # "idle"
EveryRunEnds == Busy ~> ~Busy

\* "Verify a duplicate run reuses the immutable bundle": a response that comes
\* again does not make another bundle.
DuplicateReusesBundle ==
    \A a, b \in bundleRows : a.id[1] = b.id[1] /\ a.manifest = b.manifest => a = b
=============================================================================
