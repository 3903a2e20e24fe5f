--------------------------- MODULE SnapshotImport ---------------------------
(***************************************************************************)
(* Concurrent imports of snapshot bundles: SnapshotImporter.import_bundle   *)
(* over the tables of SnapshotRepository and the object store.              *)
(*                                                                         *)
(* An import is one READ COMMITTED transaction: what it has written is in   *)
(* its own record (inserted, touched, added) and becomes visible in Commit. *)
(* PostgreSQL makes a second writer of a unique key or of a row wait until  *)
(* the first one ends.  The object store takes no part in the transaction.  *)
(* A notice's content hash stands for the whole notice, its identity        *)
(* included, so an item is [ext, content] and its payload is stored under   *)
(* <<bundle id, item>>.  A bundle is [id, manifest, items, state].          *)
(***************************************************************************)
EXTENDS Integers, Sequences, FiniteSets, Functions

CONSTANTS
    Importers,  \* processes that import: the ingestion workers, the CLI
    NoBundle

VARIABLES
    objects,    \* keys present in the object store
    bundleRows, \* snapshot_bundles: [id, manifest]
    importRows, \* snapshot_imports with status "success", by idempotency key
    notices,    \* source_notices: the external ids that have a row
    versions,   \* notice_versions in the order of their commit: [item, key]
    imp         \* imp[p]: the import process p is in, or how its last one ended

importVars == <<objects, bundleRows, importRows, notices, versions, imp>>

Results == {"none", "success", "reused", "rejected", "conflict", "error"}

Steps == {"find", "select", "insert", "import", "payload", "notice", "commit"}

\* _derive_idempotency_key: the manifest names the hash of every file, so the
\* id and the manifest determine the notices too.
Key(b) == [id |-> b.id, manifest |-> b.manifest]

\* _payload_object_key
PayloadKey(b, item) == <<b.id, item>>

At(p, step) == imp[p].step = step
Goto(p, step) == imp' = [imp EXCEPT ![p].step = step]

\* The transaction is over and its locks are free.
Ended(result) ==
    [step |-> "idle", bundle |-> NoBundle, todo |-> <<>>, inserted |-> {},
     touched |-> {}, added |-> <<>>, result |-> result]
End(p, result) == imp' = [imp EXCEPT ![p] = Ended(result)]

\* _check_bundle_resource_limits: files and bytes, before anything is copied.
WithinLimits(b) == b.state # "oversized"

\* inspect_bundle: the manifest is valid and its files are those of the bundle.
Intact(b) == b.state # "corrupt"

\* ADAPTERS[source].parse: ParseDrift when the notices are not those expected.
Parses(b) == b.state # "drifted"

\* import_bundle, up to the transaction: nothing is written before all of the
\* bundle has been looked at.  ParseDrift leaves it as it is.
Begun(b) ==
    IF ~WithinLimits(b) \/ ~Intact(b) THEN Ended("rejected")
    ELSE IF ~Parses(b) THEN Ended("error")
    ELSE [Ended("none") EXCEPT !.step = "find", !.bundle = b, !.todo = b.items]

ImportInit ==
    /\ objects = {}
    /\ bundleRows = {} /\ importRows = {} /\ notices = {} /\ versions = <<>>
    /\ imp = [p \in Importers |-> Ended("none")]

-----------------------------------------------------------------------------
(* Who waits for whom                                                      *)

\* q has inserted, or updated, the row that p is about to write and has not
\* committed yet.
Blocks(q, p) ==
    /\ q # p
    /\ \/ At(p, "insert") /\ "bundle" \in imp[q].inserted
          /\ imp[q].bundle.id = imp[p].bundle.id
       \/ At(p, "import") /\ "import" \in imp[q].inserted
          /\ Key(imp[q].bundle) = Key(imp[p].bundle)
       \/ At(p, "notice") /\ Head(imp[p].todo).ext \in imp[q].touched

Free(p) == \A q \in Importers : ~Blocks(q, p)

\* A cycle of waiters through p.
Deadlocked(p) ==
    \E ring \in SUBSET Importers :
        /\ p \in ring
        /\ \A q \in ring : /\ \E r \in ring : Blocks(r, q)
                           /\ \E r \in ring : Blocks(q, r)

-----------------------------------------------------------------------------
(* The steps of an import                                                  *)

\* find_import: a success under this key is returned as it is.  If there is none,
\* the id may not stand for another manifest.
FindImport(p) ==
    LET b == imp[p].bundle IN
    /\ At(p, "find")
    /\ IF Key(b) \in importRows THEN End(p, "reused")
       ELSE IF \E row \in bundleRows : row.id = b.id /\ row.manifest # b.manifest
       THEN End(p, "rejected")
       ELSE Goto(p, "select")
    /\ UNCHANGED <<objects, bundleRows, importRows, notices, versions>>

\* get_or_create_bundle looks by the id alone ...
SelectBundle(p) ==
    /\ At(p, "select")
    /\ IF \E row \in bundleRows : row.id = imp[p].bundle.id
       THEN Goto(p, "import") ELSE Goto(p, "insert")
    /\ UNCHANGED <<objects, bundleRows, importRows, notices, versions>>

\* ... and then inserts.  Whoever loses the race fails on the unique id, and no
\* savepoint saves the transaction.
InsertBundle(p) ==
    /\ At(p, "insert") /\ Free(p)
    /\ IF \E row \in bundleRows : row.id = imp[p].bundle.id
       THEN End(p, "conflict")
       ELSE imp' = [imp EXCEPT ![p].step = "import", ![p].inserted = @ \cup {"bundle"}]
    /\ UNCHANGED <<objects, bundleRows, importRows, notices, versions>>

NextItem(todo) == IF todo = <<>> THEN "commit" ELSE "payload"

\* create_import: idempotency_key is unique, whatever find_import has seen.
CreateImport(p) ==
    /\ At(p, "import") /\ Free(p)
    /\ IF Key(imp[p].bundle) \in importRows
       THEN End(p, "conflict")
       ELSE imp' = [imp EXCEPT ![p].step = NextItem(imp[p].todo),
                               ![p].inserted = @ \cup {"import"}]
    /\ UNCHANGED <<objects, bundleRows, importRows, notices, versions>>

\* Fault: the payload is left for after the commit.
PutPayloadLater(p) ==
    /\ At(p, "payload")
    /\ Goto(p, "notice")
    /\ UNCHANGED <<objects, bundleRows, importRows, notices, versions>>

\* put_bytes, before the rows that will name the payload.
PutPayload(p) ==
    /\ At(p, "payload")
    /\ objects' = objects \cup {PayloadKey(imp[p].bundle, Head(imp[p].todo))}
    /\ Goto(p, "notice")
    /\ UNCHANGED <<bundleRows, importRows, notices, versions>>

NoticeImported(p, added) ==
    LET item == Head(imp[p].todo)  rest == Tail(imp[p].todo) IN
    /\ imp' = [imp EXCEPT ![p].step = NextItem(rest), ![p].todo = rest,
                          ![p].touched = @ \cup {item.ext}, ![p].added = @ \o added]
    /\ UNCHANGED <<objects, bundleRows, importRows, notices, versions>>

NewVersion(p) ==
    LET item == Head(imp[p].todo) IN <<[item |-> item, key |-> PayloadKey(imp[p].bundle, item)]>>

Known(p) ==
    \E v \in Range(versions) \cup Range(imp[p].added) : v.item = Head(imp[p].todo)

\* Fault: nobody waits for the row of the notice.
ImportNoticeUnlocked(p) ==
    /\ At(p, "notice")
    /\ NoticeImported(p, IF Known(p) THEN <<>> ELSE NewVersion(p))

\* get_or_create_source_notice inserts the row, or takes over the one it finds
\* or loses the race to, and stamps latest_seen_at: either way the row is its
\* own until the transaction ends.  Under it find_version_by_hash and, of
\* contents not seen before, create_version with its evidence rows.
ImportNotice(p) ==
    /\ At(p, "notice") /\ Free(p)
    /\ NoticeImported(p, IF Known(p) THEN <<>> ELSE NewVersion(p))

\* Fault: a commit after every notice.
CommitEachNotice(p) ==
    /\ At(p, "commit") \/ At(p, "payload")
    /\ IF At(p, "commit")
       THEN /\ importRows' = importRows \cup {Key(imp[p].bundle)} /\ End(p, "success")
       ELSE /\ imp' = [imp EXCEPT ![p].added = <<>>] /\ UNCHANGED importRows
    /\ bundleRows' = bundleRows \cup {Key(imp[p].bundle)}
    /\ notices' = notices \cup imp[p].touched
    /\ versions' = versions \o imp[p].added
    /\ UNCHANGED objects

\* mark_import_success, the audit row, and the commit of the UnitOfWork.
Commit(p) ==
    LET b == imp[p].bundle IN
    /\ At(p, "commit")
    /\ bundleRows' = IF "bundle" \in imp[p].inserted
                     THEN bundleRows \cup {Key(b)} ELSE bundleRows
    /\ importRows' = importRows \cup {Key(b)}
    /\ notices' = notices \cup imp[p].touched
    /\ versions' = versions \o imp[p].added
    /\ End(p, "success")
    /\ UNCHANGED objects

ImportStep(p) ==
    \/ FindImport(p) \/ SelectBundle(p) \/ InsertBundle(p) \/ CreateImport(p)
    \/ PutPayload(p) \/ ImportNotice(p) \/ Commit(p)

-----------------------------------------------------------------------------
(* What ends an import before its time                                     *)

\* PostgreSQL aborts one of the transactions of a cycle of waiters.
BreakDeadlock(p) ==
    /\ Deadlocked(p)
    /\ End(p, "conflict")
    /\ UNCHANGED <<objects, bundleRows, importRows, notices, versions>>

\* An exception: the UnitOfWork rolls back.  SnapshotImportError and OSError
\* reach the caller as a rejection, anything else (ParseDrift, a database
\* error) as it is.
ImportRaises(p) ==
    /\ imp[p].step # "idle"
    /\ \E result \in {"rejected", "error"} : End(p, result)
    /\ UNCHANGED <<objects, bundleRows, importRows, notices, versions>>
=============================================================================
