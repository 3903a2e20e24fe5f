------------------------ MODULE SourceIngestionProofs -----------------------
(***************************************************************************)
(* Theorems about SourceIngestion and SnapshotImport, for any importers,   *)
(* any feed, any bundles of the operator and any number of runs and faults.*)
(***************************************************************************)
EXTENDS SourceIngestion, SequenceTheorems, TLAPS

-----------------------------------------------------------------------------
(* Imports                                                                 *)

Exts     == {item.ext : item \in Items}
Versions == [item : Items, key : {PayloadKey(b, item) : b \in Bundles, item \in Items}]

Imports ==
    [step : {"idle"} \cup Steps, bundle : Bundles \cup {NoBundle}, todo : Seq(Items),
     inserted : SUBSET {"bundle", "import"}, touched : SUBSET Exts,
     added : Seq(Versions), result : Results]

AddedItems(p) == {v.item : v \in Range(imp[p].added)}

\* Nothing is left of a transaction that is over.
AtRest(i) == i.todo = <<>> /\ i.inserted = {} /\ i.touched = {} /\ i.added = <<>>

\* What is not in the library yet is still to do or added already.
Progress(p) ==
    LET items == Range(imp[p].bundle.items) IN
    /\ imp[p].bundle \in Bundles /\ Intact(imp[p].bundle)
    /\ Range(imp[p].todo) \subseteq items /\ AddedItems(p) \subseteq items
    /\ items \subseteq Range(imp[p].todo) \cup AddedItems(p) \cup Library
    /\ At(p, "commit") => imp[p].todo = <<>>
    /\ At(p, "payload") \/ At(p, "notice") => imp[p].todo # <<>>
    /\ At(p, "payload") \/ At(p, "notice") \/ At(p, "commit") => "import" \in imp[p].inserted
    /\ At(p, "notice") => PayloadKey(imp[p].bundle, Head(imp[p].todo)) \in objects

\* Who has written the import row is the only one to do so under its key.
OwnKey(p) == "import" \in imp[p].inserted => Key(imp[p].bundle) \notin importRows

\* What is added is new, has its payload, and belongs to a row that is its own.
AddedInv(p) ==
    LET added == imp[p].added IN
    /\ \A v \in Range(added) :
          v.key \in objects /\ v.item.ext \in imp[p].touched /\ v.item \notin Library
    /\ \A i, j \in DOMAIN added : added[i].item = added[j].item => i = j

ImportInv(p) ==
    /\ IF At(p, "idle") THEN AtRest(imp[p]) ELSE Progress(p)
    /\ OwnKey(p) /\ AddedInv(p)

Apart(p, q) ==
    /\ imp[p].touched \cap imp[q].touched = {}
    /\ "import" \in imp[p].inserted /\ "import" \in imp[q].inserted =>
          Key(imp[p].bundle) # Key(imp[q].bundle)

ImportsInv ==
    /\ imp \in [Importers -> Imports]
    /\ \A p \in Importers : ImportInv(p)
    /\ \A p, q \in Importers : p # q => Apart(p, q)

StoreInv ==
    /\ versions \in Seq(Versions) /\ RowsHaveObjects /\ VersionsDistinct
    /\ \A b \in Bundles :
          Intact(b) /\ Key(b) \in importRows => Range(b.items) \subseteq Library

-----------------------------------------------------------------------------
(* Runs                                                                    *)

Runs == {"idle", "open", "fetch", "import", "advance", "commit", "finish", "release"}

Answers == {Response(page, next) : page \in Nat, next \in Nat}

Jobs ==
    [run : 0..MaxRuns, before : Nat, version : Nat, failures : Nat, holds : BOOLEAN,
     request : Nat, next : Nat, last : Nat,
     responses : SUBSET Answers,
     count : Nat, tries : Nat,
     status : {"none", "success", "rate_limited", "failed", "quarantined"}]

\* The pages before this one have been imported.
Covered(page) == \A n \in 1..(page - 1) : Range(Feed[n]) \subseteq Library

\* The import of a page that has been fetched.
PageInv(w) ==
    LET j == job[w] IN
    /\ j.next = NoPage \/ j.next = j.request \/ (j.next = j.request + 1 /\ j.next <= published)
    /\ ~At(w, "idle") => imp[w].bundle = LiveBundle(j.run, j.request, j.next)
    /\ At(w, "idle") /\ imp[w].result \in {"success", "reused"} =>
          Range(Feed[j.request]) \subseteq Library

RunInv(w) ==
    LET j == job[w] IN
    /\ j.responses \subseteq objects
    /\ pc[w] # "import" => At(w, "idle")
    /\ pc[w] \in {"open", "fetch", "import"} => j.run > 0
    /\ pc[w] \in {"fetch", "import"} => j.request = j.last
    /\ pc[w] \in {"fetch", "import", "advance", "commit"} =>
          j.last \in 1..published /\ j.before <= j.last /\ Covered(j.last)
    /\ pc[w] = "import" => PageInv(w)
    /\ pc[w] = "commit" => j.holds /\ cursor.value <= j.last

RunsInv ==
    /\ published \in 1..Len(Feed) /\ staged \subseteq LiveBundles /\ runs \in 0..MaxRuns
    /\ cursor \in [exists : BOOLEAN, value : 1..published, version : Nat, failures : Nat]
    /\ Covered(cursor.value)
    /\ pc \in [Workers -> Runs] /\ job \in [Workers -> Jobs]
    /\ \A w \in Workers : RunInv(w)
    /\ \A v, w \in Workers : job[v].holds /\ job[w].holds => v = w

IInv == ImportsInv /\ StoreInv /\ RunsInv

-----------------------------------------------------------------------------
(* Sequences of items, bundles and pages                                   *)

LEMMA FirstAndRest ==
  ASSUME NEW s \in Seq(Items), s # <<>>
  PROVE  /\ Head(s) \in Items /\ Tail(s) \in Seq(Items)
         /\ Range(s) = {Head(s)} \cup Range(Tail(s))
<1>1. /\ Head(s) \in Items /\ Tail(s) \in Seq(Items) /\ Len(s) \in Nat \ {0}
      /\ Len(Tail(s)) = Len(s) - 1 /\ Head(s) = s[1]
      /\ \A i \in 1..Len(Tail(s)) : Tail(s)[i] = s[i + 1]
  BY HeadTailProperties, EmptySeq
<1>2. Range(s) = {s[i] : i \in 1..Len(s)} /\ Range(Tail(s)) = {Tail(s)[i] : i \in 1..Len(Tail(s))}
  BY <1>1, RangeEquality
<1>3. ASSUME NEW x \in Range(s), x # Head(s)
      PROVE  x \in Range(Tail(s))
  <2>1. PICK i \in 1..Len(s) : x = s[i]
    BY <1>2, <1>3
  <2>2. i - 1 \in 1..Len(Tail(s)) /\ s[i] = Tail(s)[i - 1]
    BY <1>1, <1>3, <2>1
  <2>3. QED
    BY <1>2, <2>1, <2>2
<1>4. Range(Tail(s)) \subseteq Range(s)
  BY <1>1, <1>2
<1>5. Head(s) \in Range(s)
  BY <1>1, <1>2
<1>6. QED
  BY <1>1, <1>3, <1>4, <1>5

LEMMA NothingIn == Range(<<>>) = {}
  BY DEF Range

LEMMA OneIn == ASSUME NEW x PROVE Range(<<x>>) = {x}
  BY DEF Range

LEMMA PagesAreSequences == ASSUME NEW page \in 1..Len(Feed) PROVE Feed[page] \in Seq(Items)
  BY IngestionAssumption, ElementOfSeq

LEMMA LiveIsBundle ==
  ASSUME NEW run \in 1..MaxRuns, NEW page \in 1..Len(Feed), NEW next \in {NoPage, page, page + 1}
  PROVE  /\ LiveBundle(run, page, next) \in LiveBundles
         /\ LiveBundle(run, page, next) \in Bundles
         /\ LiveBundle(run, page, next).items = Feed[page]
         /\ LiveBundle(run, page, next).state = "sound"
<1>1. page \in DOMAIN Feed
  BY IngestionAssumption, LenProperties
<1>2. LiveBundle(run, page, next) \in LiveBundles
  BY <1>1 DEF LiveBundles
<1>3. QED
  BY <1>2 DEF Bundles, LiveBundle

LEMMA BundleItems == ASSUME NEW b \in Bundles PROVE b.items \in Seq(Items)
<1>1. CASE b \in Archive
  BY <1>1, IngestionAssumption
<1>2. CASE b \in LiveBundles
  <2>1. PICK page \in DOMAIN Feed :
           \E run \in 1..MaxRuns, next \in {NoPage, page, page + 1} :
              b = LiveBundle(run, page, next)
    BY <1>2 DEF LiveBundles
  <2>2. page \in 1..Len(Feed)
    BY IngestionAssumption, LenProperties
  <2>3. b.items = Feed[page]
    BY <2>1 DEF LiveBundle
  <2>4. QED
    BY <2>2, <2>3, PagesAreSequences
<1>3. QED
  BY <1>1, <1>2 DEF Bundles

LEMMA LibraryGrows ==
  ASSUME versions \in Seq(Versions), NEW added \in Seq(Versions), versions' = versions \o added
  PROVE  /\ versions' \in Seq(Versions)
         /\ Range(versions') = Range(versions) \cup Range(added)
         /\ Library' = Library \cup {v.item : v \in Range(added)}
<1>1. versions' \in Seq(Versions) /\ Range(versions') = Range(versions) \cup Range(added)
  BY ConcatProperties, RangeConcatenation
<1>2. QED
  BY <1>1 DEF Library

-----------------------------------------------------------------------------
(* Steps that only rewrite what one process has in memory                  *)

\* p's own record changes, no row does.
Rewrites(p) ==
    /\ imp' \in [Importers -> Imports] /\ \A q \in Importers \ {p} : imp'[q] = imp[q]
    /\ versions' = versions /\ importRows' = importRows /\ objects \subseteq objects'

LEMMA OthersImports ==
  ASSUME ImportsInv, NEW p \in Importers, Rewrites(p), NEW q \in Importers, q # p
  PROVE  ImportInv(q)' /\ imp'[q] = imp[q]
<1>1. imp'[q] = imp[q] /\ Library' = Library
  BY DEF Rewrites, Library
<1>2. (At(q, "idle")' <=> At(q, "idle")) /\ (At(q, "commit")' <=> At(q, "commit"))
      /\ (At(q, "payload")' <=> At(q, "payload")) /\ (At(q, "notice")' <=> At(q, "notice"))
      /\ AddedItems(q)' = AddedItems(q)
  BY <1>1 DEF At, AddedItems
<1>3. Progress(q) => Progress(q)'
  BY <1>1, <1>2 DEF Progress, Rewrites
<1>4. (OwnKey(q) => OwnKey(q)') /\ (AddedInv(q) => AddedInv(q)')
  BY <1>1 DEF OwnKey, AddedInv, Rewrites
<1>5. QED
  BY <1>1, <1>2, <1>3, <1>4 DEF ImportsInv, ImportInv

LEMMA ImportReplaced ==
  ASSUME ImportsInv, NEW p \in Importers, Rewrites(p), ImportInv(p)',
         \A q \in Importers : q # p => Apart(p, q)'
  PROVE  ImportsInv'
<1>1. imp' \in [Importers -> Imports]
  BY DEF Rewrites
<1>2. \A q \in Importers : ImportInv(q)'
  BY OthersImports
<1>3. ASSUME NEW q \in Importers, NEW s \in Importers, q # s
      PROVE  Apart(q, s)'
  <2>1. CASE p \notin {q, s}
    BY <1>3, <2>1, OthersImports DEF ImportsInv, Apart
  <2>2. CASE q = p
    BY <1>3, <2>2
  <2>3. CASE s = p
    BY <1>3, <2>3 DEF Apart
  <2>4. QED
    BY <2>1, <2>2, <2>3
<1>4. QED
  BY <1>1, <1>2, <1>3 DEF ImportsInv

LEMMA EndedIsImport ==
  ASSUME NEW result \in Results
  PROVE  /\ Ended(result) \in Imports /\ AtRest(Ended(result))
         /\ Ended(result).step = "idle" /\ Ended(result).result = result
<1>1. <<>> \in Seq(Items) /\ <<>> \in Seq(Versions)
  BY EmptySeq
<1>2. QED
  BY <1>1 DEF Ended, Imports, AtRest

(* However an import ends without a commit, nothing is left of it.         *)
LEMMA EndingKeepsImports ==
  ASSUME ImportsInv, NEW p \in Importers, NEW result \in Results, End(p, result),
         versions' = versions, importRows' = importRows, objects \subseteq objects'
  PROVE  ImportsInv' /\ imp'[p] = Ended(result) /\ \A q \in Importers \ {p} : imp'[q] = imp[q]
<1>1. Ended(result) \in Imports /\ AtRest(Ended(result)) /\ Ended(result).step = "idle"
  BY EndedIsImport
<1>2. Rewrites(p) /\ imp'[p] = Ended(result)
  BY <1>1 DEF End, ImportsInv, Rewrites
<1>3. ImportInv(p)'
  BY <1>1, <1>2, NothingIn DEF ImportInv, At, OwnKey, AddedInv, AtRest
<1>4. \A q \in Importers : Apart(p, q)'
  BY <1>1, <1>2 DEF Apart, AtRest
<1>5. QED
  BY <1>2, <1>3, <1>4, ImportReplaced DEF Rewrites

LEMMA BeginningKeepsImports ==
  ASSUME ImportsInv, NEW p \in Importers, NEW b \in Bundles, imp' = [imp EXCEPT ![p] = Begun(b)],
         versions' = versions, importRows' = importRows, objects \subseteq objects'
  PROVE  /\ ImportsInv' /\ \A q \in Importers \ {p} : imp'[q] = imp[q]
         /\ b.state = "sound" => ~At(p, "idle")' /\ imp'[p].bundle = b
<1>1. CASE Begun(b).step = "idle"
  <2>1. ~(WithinLimits(b) /\ Intact(b) /\ Parses(b))
    BY <1>1 DEF Begun, Ended
  <2>2. PICK result \in Results : Begun(b) = Ended(result)
    BY <2>1 DEF Begun, Results
  <2>3. End(p, result)
    BY <2>2 DEF End
  <2>4. QED
    BY <2>1, <2>3, EndingKeepsImports DEF WithinLimits, Intact, Parses
<1>2. CASE Begun(b).step # "idle"
  <2>1. WithinLimits(b) /\ Intact(b) /\ Parses(b)
    BY <1>2, EndedIsImport DEF Begun, Results
  <2>2. Begun(b) = [Ended("none") EXCEPT !.step = "find", !.bundle = b, !.todo = b.items]
    BY <2>1 DEF Begun
  <2>3. /\ Begun(b) \in Imports /\ Begun(b).step = "find" /\ Begun(b).bundle = b
        /\ Begun(b).todo = b.items /\ Begun(b).inserted = {} /\ Begun(b).touched = {}
        /\ Begun(b).added = <<>>
    BY <2>2, EndedIsImport, BundleItems DEF Imports, Ended, Steps, Results
  <2>4. Rewrites(p) /\ imp'[p] = Begun(b)
    BY <2>3 DEF ImportsInv, Rewrites
  <2>5. ImportInv(p)'
    BY <2>1, <2>3, <2>4, NothingIn DEF ImportInv, At, Progress, AddedItems, OwnKey, AddedInv
  <2>6. \A q \in Importers : Apart(p, q)'
    BY <2>3, <2>4 DEF Apart
  <2>7. QED
    BY <2>3, <2>4, <2>5, <2>6, ImportReplaced DEF Rewrites, At
<1>3. QED
  BY <1>1, <1>2

-----------------------------------------------------------------------------
(* The steps of an import that is under way                                *)

LEMMA Underway ==
  ASSUME ImportsInv, NEW p \in Importers, ~At(p, "idle")
  PROVE  /\ imp[p] \in Imports /\ Progress(p) /\ OwnKey(p) /\ AddedInv(p)
         /\ imp[p].bundle \in Bundles /\ Intact(imp[p].bundle)
         /\ imp[p].todo \in Seq(Items) /\ imp[p].added \in Seq(Versions)
         /\ imp[p].touched \subseteq Exts
         /\ imp[p].inserted \subseteq {"bundle", "import"}
<1>1. imp[p] \in Imports /\ Progress(p) /\ OwnKey(p) /\ AddedInv(p)
  BY DEF ImportsInv, ImportInv
<1>2. QED
  BY <1>1 DEF Progress, Imports

\* Nobody else has, or has written, an import row under p's key.
KeyIsFree(p) ==
    /\ Key(imp[p].bundle) \notin importRows
    /\ \A q \in Importers \ {p} :
          "import" \in imp[q].inserted => Key(imp[q].bundle) # Key(imp[p].bundle)

LEMMA KeyStaysFree ==
  ASSUME ImportsInv, NEW p \in Importers, "import" \in imp[p].inserted
  PROVE  KeyIsFree(p)
  BY DEF ImportsInv, ImportInv, OwnKey, Apart, KeyIsFree

(* A step that leaves the work as it is and goes where the work allows.    *)
LEMMA MovingKeepsImports ==
  ASSUME ImportsInv, NEW p \in Importers, ~At(p, "idle"), ~At(p, "idle")', Rewrites(p),
         imp'[p].bundle = imp[p].bundle, imp'[p].todo = imp[p].todo,
         imp'[p].touched = imp[p].touched, imp'[p].added = imp[p].added,
         "import" \in imp'[p].inserted => KeyIsFree(p),
         At(p, "commit")' => imp[p].todo = <<>>,
         At(p, "payload")' \/ At(p, "notice")' => imp[p].todo # <<>>,
         At(p, "payload")' \/ At(p, "notice")' \/ At(p, "commit")' =>
            "import" \in imp'[p].inserted,
         At(p, "notice")' => PayloadKey(imp[p].bundle, Head(imp[p].todo)) \in objects'
  PROVE  ImportsInv'
<1>1. Progress(p) /\ AddedInv(p) /\ Library' = Library /\ AddedItems(p)' = AddedItems(p)
  BY Underway DEF Rewrites, Library, AddedItems
<1>2. Progress(p)' /\ OwnKey(p)' /\ AddedInv(p)'
  BY <1>1 DEF Progress, OwnKey, AddedInv, KeyIsFree, Rewrites
<1>3. ImportInv(p)'
  BY <1>2 DEF ImportInv
<1>4. ASSUME NEW q \in Importers, q # p
      PROVE  Apart(p, q)'
  <2>1. Apart(p, q) /\ imp'[q] = imp[q]
    BY <1>4 DEF ImportsInv, Rewrites
  <2>2. QED
    BY <1>4, <2>1 DEF Apart, KeyIsFree
<1>5. QED
  BY <1>3, <1>4, ImportReplaced

LEMMA Rewriting ==
  ASSUME ImportsInv, NEW p \in Importers, NEW r \in Imports, imp' = [imp EXCEPT ![p] = r],
         versions' = versions, importRows' = importRows, objects \subseteq objects'
  PROVE  Rewrites(p) /\ imp'[p] = r
  BY DEF ImportsInv, Rewrites

LEMMA GoingKeepsImports ==
  ASSUME ImportsInv, NEW p \in Importers, ~At(p, "idle"),
         NEW step \in {"select", "insert", "import"}, Goto(p, step),
         versions' = versions, importRows' = importRows, objects' = objects
  PROVE  ImportsInv' /\ ~At(p, "idle")' /\ imp'[p].bundle = imp[p].bundle
<1>1. imp' = [imp EXCEPT ![p] = [imp[p] EXCEPT !.step = step]]
  BY DEF Goto
<1>2. [imp[p] EXCEPT !.step = step] \in Imports
  BY Underway DEF Imports, Steps
<1>3. Rewrites(p) /\ imp'[p] = [imp[p] EXCEPT !.step = step]
  BY <1>1, <1>2, Rewriting
<1>4. /\ imp'[p].step = step
      /\ imp'[p].bundle = imp[p].bundle /\ imp'[p].todo = imp[p].todo
      /\ imp'[p].touched = imp[p].touched /\ imp'[p].added = imp[p].added
      /\ imp'[p].inserted = imp[p].inserted
  BY <1>3, Underway DEF Imports
<1>5. QED
  BY <1>3, <1>4, KeyStaysFree, MovingKeepsImports DEF At

LEMMA InsertKeepsImports ==
  ASSUME ImportsInv, NEW p \in Importers, InsertBundle(p)
  PROVE  /\ ImportsInv' /\ \A q \in Importers \ {p} : imp'[q] = imp[q]
         /\ ~At(p, "idle")' => imp'[p].bundle = imp[p].bundle
         /\ At(p, "idle")' => imp'[p].result = "conflict"
<1>1. CASE End(p, "conflict")
  BY <1>1, EndingKeepsImports, EndedIsImport DEF InsertBundle, Results, At
<1>2. CASE imp' = [imp EXCEPT ![p].step = "import", ![p].inserted = @ \cup {"bundle"}]
  <2> DEFINE r == [imp[p] EXCEPT !.step = "import", !.inserted = @ \cup {"bundle"}]
  <2>1. ~At(p, "idle")
    BY DEF InsertBundle, At
  <2>2. imp' = [imp EXCEPT ![p] = r]
    BY <1>2
  <2>3. r \in Imports
    BY <2>1, Underway DEF Imports, Steps
  <2>4. Rewrites(p) /\ imp'[p] = r
    BY <2>2, <2>3, Rewriting DEF InsertBundle
  <2>5. /\ imp'[p].step = "import"
        /\ imp'[p].bundle = imp[p].bundle /\ imp'[p].todo = imp[p].todo
        /\ imp'[p].touched = imp[p].touched /\ imp'[p].added = imp[p].added
        /\ imp'[p].inserted = imp[p].inserted \cup {"bundle"}
    BY <2>1, <2>4, Underway DEF Imports
  <2>6. ImportsInv'
    BY <2>4, <2>5, KeyStaysFree, MovingKeepsImports DEF InsertBundle, At
  <2>7. QED
    BY <2>4, <2>5, <2>6 DEF At, Rewrites
<1>3. QED
  BY <1>1, <1>2 DEF InsertBundle

LEMMA CreateKeepsImports ==
  ASSUME ImportsInv, NEW p \in Importers, CreateImport(p)
  PROVE  /\ ImportsInv' /\ \A q \in Importers \ {p} : imp'[q] = imp[q]
         /\ ~At(p, "idle")' => imp'[p].bundle = imp[p].bundle
         /\ At(p, "idle")' => imp'[p].result = "conflict"
<1>1. CASE Key(imp[p].bundle) \in importRows
  BY <1>1, EndingKeepsImports, EndedIsImport DEF CreateImport, Results, At
<1>2. CASE Key(imp[p].bundle) \notin importRows
  <2> DEFINE r == [imp[p] EXCEPT !.step = NextItem(imp[p].todo), !.inserted = @ \cup {"import"}]
  <2>1. ~At(p, "idle")
    BY DEF CreateImport, At
  <2>2. imp' = [imp EXCEPT ![p] = r]
    BY <1>2 DEF CreateImport
  <2>3. r \in Imports
    BY <2>1, Underway DEF Imports, Steps, NextItem
  <2>4. Rewrites(p) /\ imp'[p] = r
    BY <2>2, <2>3, Rewriting DEF CreateImport
  <2>5. /\ imp'[p].step = NextItem(imp[p].todo)
        /\ imp'[p].bundle = imp[p].bundle /\ imp'[p].todo = imp[p].todo
        /\ imp'[p].touched = imp[p].touched /\ imp'[p].added = imp[p].added
        /\ imp'[p].inserted = imp[p].inserted \cup {"import"}
    BY <2>1, <2>4, Underway DEF Imports
  <2>6. KeyIsFree(p)
    BY <1>2 DEF CreateImport, Free, Blocks, KeyIsFree, At
  <2>7. ImportsInv'
    BY <2>4, <2>5, <2>6, MovingKeepsImports DEF CreateImport, At, NextItem
  <2>8. QED
    BY <2>4, <2>5, <2>7 DEF At, Rewrites, NextItem
<1>3. QED
  BY <1>1, <1>2

LEMMA PutKeepsImports ==
  ASSUME ImportsInv, NEW p \in Importers, PutPayload(p)
  PROVE  /\ ImportsInv' /\ \A q \in Importers \ {p} : imp'[q] = imp[q]
         /\ ~At(p, "idle")' /\ imp'[p].bundle = imp[p].bundle
<1>1. ~At(p, "idle") /\ imp' = [imp EXCEPT ![p] = [imp[p] EXCEPT !.step = "notice"]]
  BY DEF PutPayload, Goto, At
<1>2. [imp[p] EXCEPT !.step = "notice"] \in Imports
  BY <1>1, Underway DEF Imports, Steps
<1>3. Rewrites(p) /\ imp'[p] = [imp[p] EXCEPT !.step = "notice"]
  BY <1>1, <1>2, Rewriting DEF PutPayload
<1>4. /\ imp'[p].step = "notice"
      /\ imp'[p].bundle = imp[p].bundle /\ imp'[p].todo = imp[p].todo
      /\ imp'[p].touched = imp[p].touched /\ imp'[p].added = imp[p].added
      /\ imp'[p].inserted = imp[p].inserted
  BY <1>1, <1>3, Underway DEF Imports
<1>5. /\ imp[p].todo # <<>> /\ "import" \in imp[p].inserted
      /\ PayloadKey(imp[p].bundle, Head(imp[p].todo)) \in objects'
  BY Underway DEF PutPayload, At, Progress
<1>6. ImportsInv'
  BY <1>3, <1>4, <1>5, KeyStaysFree, MovingKeepsImports DEF PutPayload, At
<1>7. QED
  BY <1>3, <1>4, <1>6 DEF At, Rewrites

LEMMA NoticeKeepsImports ==
  ASSUME ImportsInv, NEW p \in Importers, ImportNotice(p)
  PROVE  /\ ImportsInv' /\ \A q \in Importers \ {p} : imp'[q] = imp[q]
         /\ ~At(p, "idle")' /\ imp'[p].bundle = imp[p].bundle
<1> DEFINE item  == Head(imp[p].todo)
           rest  == Tail(imp[p].todo)
           extra == IF Known(p) THEN <<>> ELSE NewVersion(p)
           r     == [imp[p] EXCEPT !.step = NextItem(rest), !.todo = rest,
                                   !.touched = @ \cup {item.ext}, !.added = @ \o extra]
<1>1. /\ At(p, "notice") /\ ~At(p, "idle")
      /\ imp[p] \in Imports /\ Progress(p) /\ OwnKey(p) /\ AddedInv(p)
      /\ imp[p].bundle \in Bundles /\ imp[p].todo \in Seq(Items) /\ imp[p].added \in Seq(Versions)
      /\ imp[p].touched \subseteq Exts /\ imp[p].inserted \subseteq {"bundle", "import"}
  BY Underway DEF ImportNotice, At
<1>2. /\ imp[p].todo # <<>> /\ "import" \in imp[p].inserted
      /\ PayloadKey(imp[p].bundle, item) \in objects
  BY <1>1 DEF Progress
<1>3. item \in Items /\ rest \in Seq(Items) /\ Range(imp[p].todo) = {item} \cup Range(rest)
  BY <1>1, <1>2, FirstAndRest
<1>4. NewVersion(p) = <<[item |-> item, key |-> PayloadKey(imp[p].bundle, item)]>>
  BY DEF NewVersion
<1>5. extra \in Seq(Versions)
  <2>1. [item |-> item, key |-> PayloadKey(imp[p].bundle, item)] \in Versions
    BY <1>1, <1>3 DEF Versions
  <2>2. QED
    BY <1>4, <2>1, EmptySeq
<1> HIDE DEF extra
<1>6. imp[p].added \o extra \in Seq(Versions)
      /\ Range(imp[p].added \o extra) = Range(imp[p].added) \cup Range(extra)
  BY <1>1, <1>5, ConcatProperties, RangeConcatenation
<1>7. r \in Imports
  <2>1. item.ext \in Exts
    BY <1>3 DEF Exts
  <2>2. NextItem(rest) \in Steps
    BY DEF NextItem, Steps
  <2>3. QED
    BY <1>1, <1>3, <1>6, <2>1, <2>2 DEF Imports
<1>8. imp' = [imp EXCEPT ![p] = r]
  BY DEF ImportNotice, NoticeImported, extra
<1>9. Rewrites(p) /\ imp'[p] = r
  BY <1>7, <1>8, Rewriting DEF ImportNotice, NoticeImported
<1>10. /\ r.step = NextItem(rest) /\ r.bundle = imp[p].bundle /\ r.todo = rest
       /\ r.touched = imp[p].touched \cup {item.ext} /\ r.added = imp[p].added \o extra
       /\ r.inserted = imp[p].inserted
  BY <1>1 DEF Imports
<1> HIDE DEF r
<1>11. /\ imp'[p].step = NextItem(rest) /\ imp'[p].bundle = imp[p].bundle /\ imp'[p].todo = rest
       /\ imp'[p].touched = imp[p].touched \cup {item.ext}
       /\ imp'[p].added = imp[p].added \o extra /\ imp'[p].inserted = imp[p].inserted
  BY <1>9, <1>10
<1>12. Library' = Library
  BY <1>9 DEF Rewrites, Library
<1>13. AddedItems(p)' = AddedItems(p) \cup {v.item : v \in Range(extra)}
  BY <1>6, <1>11 DEF AddedItems
<1>14. \/ extra = <<>> /\ Range(extra) = {} /\ item \in Library \cup AddedItems(p)
       \/ /\ extra = NewVersion(p) /\ item \notin Library \cup AddedItems(p)
          /\ Range(extra) = {[item |-> item, key |-> PayloadKey(imp[p].bundle, item)]}
  <2>1. CASE Known(p)
    BY <2>1, NothingIn DEF extra, Known, Library, AddedItems
  <2>2. CASE ~Known(p)
    <3>1. extra = NewVersion(p) /\ item \notin Library \cup AddedItems(p)
      BY <2>2 DEF extra, Known, Library, AddedItems
    <3>2. Range(extra) = {[item |-> item, key |-> PayloadKey(imp[p].bundle, item)]}
      BY <1>4, <3>1, OneIn
    <3>3. QED
      BY <3>1, <3>2
  <2>3. QED
    BY <2>1, <2>2
<1>15. Progress(p)'
  <2>0. \/ {v.item : v \in Range(extra)} = {} /\ item \in Library \cup AddedItems(p)
        \/ {v.item : v \in Range(extra)} = {item}
    <3>1. Range(extra) = {} => {v.item : v \in Range(extra)} = {}
      OBVIOUS
    <3>2. ASSUME NEW v, v.item = item, Range(extra) = {v}
          PROVE  {u.item : u \in Range(extra)} = {item}
      BY <3>2
    <3>3. [item |-> item, key |-> PayloadKey(imp[p].bundle, item)].item = item
      OBVIOUS
    <3>4. QED
      BY <1>14, <3>1, <3>2, <3>3
  <2>1. item \in Library \cup AddedItems(p)' /\ AddedItems(p)' \subseteq AddedItems(p) \cup {item}
        /\ AddedItems(p) \subseteq AddedItems(p)'
    BY <1>13, <2>0
  <2>2. /\ Range(rest) \subseteq Range(imp[p].bundle.items)
        /\ AddedItems(p)' \subseteq Range(imp[p].bundle.items)
        /\ Range(imp[p].bundle.items) \subseteq Range(rest) \cup AddedItems(p)' \cup Library
    BY <1>1, <1>3, <2>1 DEF Progress
  <2>3. QED
    BY <1>1, <1>2, <1>11, <1>12, <2>2 DEF Progress, At, NextItem
<1>16. OwnKey(p)'
  BY <1>1, <1>9, <1>11 DEF OwnKey, Rewrites
<1>17. AddedInv(p)'
  <2>1. \A v \in Range(extra) :
           v.key \in objects /\ v.item.ext = item.ext /\ v.item \notin Library
    BY <1>2, <1>14
  <2>2. \A v \in Range(imp[p].added) \cup Range(extra) :
           v.key \in objects' /\ v.item.ext \in imp'[p].touched /\ v.item \notin Library'
    BY <1>1, <1>9, <1>11, <1>12, <2>1 DEF AddedInv, Rewrites
  <2>3. ASSUME NEW i \in DOMAIN (imp[p].added \o extra), NEW j \in DOMAIN (imp[p].added \o extra),
               (imp[p].added \o extra)[i].item = (imp[p].added \o extra)[j].item
        PROVE  i = j
    <3>1. CASE extra = <<>>
      BY <1>1, <2>3, <3>1, ConcatEmptySeq DEF AddedInv
    <3>2. CASE extra = NewVersion(p)
      <4>1. Len(imp[p].added) \in Nat /\ DOMAIN imp[p].added = 1..Len(imp[p].added)
        BY <1>1, LenProperties
      <4>2. DOMAIN (imp[p].added \o extra) = 1..(Len(imp[p].added) + 1)
            /\ \A k \in 1..(Len(imp[p].added) + 1) :
                  (imp[p].added \o extra)[k] =
                     IF k <= Len(imp[p].added) THEN imp[p].added[k]
                     ELSE extra[k - Len(imp[p].added)]
        <5>1. Len(extra) = 1
          BY <1>4, <3>2
        <5>2. QED
          <6>1. DOMAIN (imp[p].added \o extra) = 1..Len(imp[p].added \o extra)
            BY <1>6, LenProperties
          <6>2. /\ Len(imp[p].added \o extra) = Len(imp[p].added) + Len(extra)
                /\ \A k \in 1..(Len(imp[p].added) + Len(extra)) :
                      (imp[p].added \o extra)[k] =
                         IF k <= Len(imp[p].added) THEN imp[p].added[k]
                         ELSE extra[k - Len(imp[p].added)]
            BY <1>1, <1>5, ConcatProperties
          <6>3. QED
            BY <5>1, <6>1, <6>2
      <4>3. extra[1].item = item
        BY <1>4, <3>2
      <4>4. \A k \in 1..Len(imp[p].added) : imp[p].added[k].item # item
        <5>1. item \notin AddedItems(p)
          <6>1. Len(extra) = 1
            BY <1>4, <3>2
          <6>2. extra # <<>>
            BY <6>1
          <6>3. QED
            BY <1>14, <6>2
        <5>2. QED
          BY <4>1, <5>1 DEF AddedItems, Range
      <4>5. \A k \in 1..Len(imp[p].added), m \in 1..Len(imp[p].added) :
               imp[p].added[k].item = imp[p].added[m].item => k = m
        BY <1>1, <4>1 DEF AddedInv
      <4>6. QED
        BY <2>3, <4>1, <4>2, <4>3, <4>4, <4>5
    <3>3. QED
      BY <1>14, <3>1, <3>2
  <2>4. QED
    BY <1>6, <1>11, <2>2, <2>3 DEF AddedInv
<1>18. ~At(p, "idle")'
  BY <1>11 DEF At, NextItem
<1>19. ASSUME NEW q \in Importers, q # p
       PROVE  Apart(p, q)'
  <2>1. Apart(p, q) /\ imp'[q] = imp[q]
    BY <1>9, <1>19 DEF ImportsInv, Rewrites
  <2>2. item.ext \notin imp[q].touched
    BY <1>1, <1>19 DEF ImportNotice, Free, Blocks
  <2>3. QED
    BY <1>11, <2>1, <2>2 DEF Apart
<1>20. QED
  BY <1>9, <1>11, <1>15, <1>16, <1>17, <1>18, <1>19, ImportReplaced DEF ImportInv, Rewrites

-----------------------------------------------------------------------------
(* The commit, and what any step of an import does                         *)

LEMMA StoreStays ==
  ASSUME StoreInv, versions' = versions, importRows' = importRows,
         objects \subseteq objects', recorded' \subseteq objects'
  PROVE  StoreInv'
<1>1. Library' = Library
  BY DEF Library
<1>2. QED
  BY <1>1 DEF StoreInv, RowsHaveObjects, VersionsDistinct

\* Everything in the bundle is in the library afterwards, and nothing else is new.
Arrives(b) ==
    /\ Key(b) \notin importRows /\ importRows' = importRows \cup {Key(b)}
    /\ Library' = Library \cup Range(b.items)

LEMMA CommitArrives ==
  ASSUME ImportsInv, StoreInv, NEW p \in Importers, Commit(p)
  PROVE  /\ imp[p].bundle \in Bundles /\ Intact(imp[p].bundle) /\ Arrives(imp[p].bundle)
         /\ versions' = versions \o imp[p].added /\ versions' \in Seq(Versions)
         /\ Range(versions') = Range(versions) \cup Range(imp[p].added)
         /\ Library' = Library \cup AddedItems(p)
<1>1. /\ Progress(p) /\ OwnKey(p) /\ imp[p].added \in Seq(Versions)
      /\ imp[p].bundle \in Bundles /\ Intact(imp[p].bundle)
  BY Underway DEF Commit, At
<1>2. versions' = versions \o imp[p].added
  BY DEF Commit
<1>3. /\ versions' \in Seq(Versions) /\ Range(versions') = Range(versions) \cup Range(imp[p].added)
      /\ Library' = Library \cup AddedItems(p)
  BY <1>1, <1>2, LibraryGrows DEF StoreInv, AddedItems
<1>4. Range(imp[p].todo) = {} /\ Key(imp[p].bundle) \notin importRows
  BY <1>1, NothingIn DEF Commit, Progress, OwnKey, At
<1>5. Library' = Library \cup Range(imp[p].bundle.items)
  BY <1>1, <1>3, <1>4 DEF Progress
<1>6. QED
  BY <1>1, <1>2, <1>3, <1>4, <1>5 DEF Arrives, Commit

LEMMA CommitKeepsStore ==
  ASSUME ImportsInv, StoreInv, NEW p \in Importers, Commit(p), recorded' = recorded
  PROVE  StoreInv'
<1> DEFINE added == imp[p].added
<1>1. /\ imp[p].bundle \in Bundles /\ Intact(imp[p].bundle) /\ Arrives(imp[p].bundle)
      /\ versions' = versions \o added /\ versions' \in Seq(Versions)
      /\ Range(versions') = Range(versions) \cup Range(added)
  BY CommitArrives
<1>2. AddedInv(p) /\ added \in Seq(Versions) /\ objects' = objects
  BY Underway DEF Commit, At
<1>3. RowsHaveObjects'
  BY <1>1, <1>2 DEF StoreInv, RowsHaveObjects, AddedInv
<1>4. VersionsDistinct'
  <2>1. /\ Len(versions) \in Nat /\ Len(added) \in Nat
        /\ DOMAIN versions = 1..Len(versions) /\ DOMAIN added = 1..Len(added)
        /\ DOMAIN versions' = 1..(Len(versions) + Len(added))
    BY <1>1, <1>2, LenProperties, ConcatProperties DEF StoreInv
  <2>2. \A k \in 1..(Len(versions) + Len(added)) :
           versions'[k] = IF k <= Len(versions) THEN versions[k] ELSE added[k - Len(versions)]
    BY <1>1, <1>2, ConcatProperties DEF StoreInv
  <2>3. ASSUME NEW k \in 1..Len(versions), NEW m \in 1..Len(added)
        PROVE  versions[k].item # added[m].item
    <3>1. versions[k].item \in Library
      BY <2>1 DEF Library, Range
    <3>2. added[m] \in Range(added)
      BY <2>1 DEF Range
    <3>3. added[m].item \notin Library
      BY <1>2, <3>2 DEF AddedInv
    <3> QED
      BY <3>1, <3>3
  <2>4. \A k, m \in 1..Len(versions) : versions[k].item = versions[m].item => k = m
    BY <2>1 DEF StoreInv, VersionsDistinct
  <2>5. \A k, m \in 1..Len(added) : added[k].item = added[m].item => k = m
    BY <1>2, <2>1 DEF AddedInv
  <2>6. ASSUME NEW i \in DOMAIN versions', NEW j \in DOMAIN versions',
               versions'[i].item = versions'[j].item
        PROVE  i = j
    <3> HIDE DEF added
    <3>1. CASE i <= Len(versions) /\ j <= Len(versions)
      BY <2>1, <2>2, <2>4, <2>6, <3>1
    <3>2. CASE i <= Len(versions) /\ ~(j <= Len(versions))
      BY <2>1, <2>2, <2>3, <2>6, <3>2
    <3>3. CASE ~(i <= Len(versions)) /\ j <= Len(versions)
      BY <2>1, <2>2, <2>3, <2>6, <3>3
    <3>4. CASE ~(i <= Len(versions)) /\ ~(j <= Len(versions))
      <4>1. i - Len(versions) \in 1..Len(added) /\ j - Len(versions) \in 1..Len(added)
        BY <2>1, <2>6, <3>4
      <4>2. added[i - Len(versions)].item = added[j - Len(versions)].item
        BY <2>1, <2>2, <2>6, <3>4
      <4>3. i - Len(versions) = j - Len(versions)
        BY <2>5, <4>1, <4>2
      <4>4. QED
        BY <2>1, <2>6, <4>3
    <3>5. QED
      BY <3>1, <3>2, <3>3, <3>4
  <2>7. QED
    BY <2>6 DEF VersionsDistinct
<1>5. ASSUME NEW b \in Bundles, Intact(b), Key(b) \in importRows'
      PROVE  Range(b.items) \subseteq Library'
  <2>1. CASE Key(b) = Key(imp[p].bundle)
    BY <1>1, <1>5, <2>1, KeyNamesItems DEF Arrives
  <2>2. CASE Key(b) \in importRows
    BY <1>1, <1>5, <2>2 DEF Arrives, StoreInv
  <2>3. QED
    BY <1>1, <1>5, <2>1, <2>2 DEF Arrives
<1>6. QED
  BY <1>1, <1>3, <1>4, <1>5 DEF StoreInv

LEMMA CommitKeepsImports ==
  ASSUME ImportsInv, StoreInv, NEW p \in Importers, Commit(p)
  PROVE  /\ ImportsInv' /\ imp'[p] = Ended("success")
         /\ \A q \in Importers \ {p} : imp'[q] = imp[q]
<1>1. /\ Arrives(imp[p].bundle) /\ Library' = Library \cup AddedItems(p)
  BY CommitArrives
<1>2. /\ ~At(p, "idle") /\ AddedInv(p) /\ "import" \in imp[p].inserted
  BY Underway DEF Commit, At, Progress
<1>3. /\ Ended("success") \in Imports /\ AtRest(Ended("success")) /\ Ended("success").step = "idle"
  BY EndedIsImport DEF Results
<1>4. /\ imp' \in [Importers -> Imports] /\ imp'[p] = Ended("success") /\ objects' = objects
      /\ \A q \in Importers \ {p} : imp'[q] = imp[q]
  BY <1>3 DEF Commit, End, ImportsInv
<1>5. ImportInv(p)'
  BY <1>3, <1>4, NothingIn DEF ImportInv, At, OwnKey, AddedInv, AtRest
<1>6. ASSUME NEW q \in Importers, q # p
      PROVE  ImportInv(q)'
  <2>1. imp'[q] = imp[q] /\ ImportInv(q) /\ Apart(p, q)
    BY <1>4, <1>6 DEF ImportsInv
  <2>2. (At(q, "idle")' <=> At(q, "idle")) /\ (At(q, "commit")' <=> At(q, "commit"))
        /\ (At(q, "payload")' <=> At(q, "payload")) /\ (At(q, "notice")' <=> At(q, "notice"))
        /\ AddedItems(q)' = AddedItems(q)
    BY <2>1 DEF At, AddedItems
  <2>3. Progress(q) => Progress(q)'
    BY <1>1, <1>4, <2>1, <2>2 DEF Progress
  <2>4. OwnKey(q)'
    BY <1>1, <1>2, <2>1 DEF OwnKey, ImportInv, Apart, Arrives
  <2>5. \A v \in Range(imp[q].added) : v.item \notin AddedItems(p)
    BY <1>2, <2>1 DEF ImportInv, AddedInv, AddedItems, Apart
  <2>6. AddedInv(q)'
    BY <1>1, <1>4, <2>1, <2>5 DEF ImportInv, AddedInv
  <2>7. QED
    BY <2>1, <2>2, <2>3, <2>4, <2>6 DEF ImportInv
<1>7. \A q, s \in Importers : q # s => Apart(q, s)'
  BY <1>3, <1>4 DEF ImportsInv, Apart, AtRest
<1>8. QED
  BY <1>4, <1>5, <1>6, <1>7 DEF ImportsInv

\* What a run sees of a step of its import.
Moves(p) ==
    /\ ~At(p, "idle") /\ \A q \in Importers \ {p} : imp'[q] = imp[q]
    /\ objects \subseteq objects' /\ Library \subseteq Library'
    /\ ~At(p, "idle")' => imp'[p].bundle = imp[p].bundle
    /\ At(p, "idle")' /\ imp'[p].result \in {"success", "reused"} =>
          Range(imp[p].bundle.items) \subseteq Library'

LEMMA EndingMoves ==
  ASSUME ImportsInv, StoreInv, NEW p \in Importers, ~At(p, "idle"),
         NEW result \in Results, End(p, result),
         UNCHANGED <<objects, importRows, versions, recorded>>,
         result = "reused" => Key(imp[p].bundle) \in importRows, result # "success"
  PROVE  ImportsInv' /\ StoreInv' /\ Moves(p)
<1>1. /\ ImportsInv' /\ imp'[p] = Ended(result) /\ \A q \in Importers \ {p} : imp'[q] = imp[q]
      /\ Ended(result).result = result /\ Ended(result).step = "idle"
  BY EndingKeepsImports, EndedIsImport
<1>2. StoreInv' /\ Library' = Library
  BY StoreStays DEF StoreInv, RowsHaveObjects, Library
<1>3. result = "reused" => Range(imp[p].bundle.items) \subseteq Library
  BY Underway DEF StoreInv
<1>4. QED
  BY <1>1, <1>2, <1>3 DEF Moves, At

LEMMA ImportMoves ==
  ASSUME ImportsInv, StoreInv, NEW p \in Importers, recorded' = recorded,
         ImportStep(p) \/ BreakDeadlock(p) \/ ImportRaises(p)
  PROVE  ImportsInv' /\ StoreInv' /\ Moves(p)
<1>1. ASSUME versions' = versions, importRows' = importRows, objects \subseteq objects'
      PROVE  StoreInv' /\ Library' = Library
  BY <1>1, StoreStays DEF StoreInv, RowsHaveObjects, Library
<1>2. CASE FindImport(p)
  <2>1. ~At(p, "idle") /\ UNCHANGED <<objects, importRows, versions>>
    BY <1>2 DEF FindImport, At
  <2>2. CASE End(p, "reused") /\ Key(imp[p].bundle) \in importRows
    BY <2>1, <2>2, EndingMoves DEF Results
  <2>3. CASE End(p, "rejected")
    BY <2>1, <2>3, EndingMoves DEF Results
  <2>4. CASE Goto(p, "select")
    <3>1. ImportsInv' /\ ~At(p, "idle")' /\ imp'[p].bundle = imp[p].bundle
      BY <2>1, <2>4, GoingKeepsImports
    <3>2. QED
      BY <1>1, <2>1, <2>4, <3>1 DEF Moves, Goto, ImportsInv
  <2>5. QED
    BY <1>2, <2>2, <2>3, <2>4 DEF FindImport
<1>3. CASE SelectBundle(p)
  <2>1. ~At(p, "idle") /\ UNCHANGED <<objects, importRows, versions>>
    BY <1>3 DEF SelectBundle, At
  <2>2. PICK step \in {"import", "insert"} : Goto(p, step)
    BY <1>3 DEF SelectBundle
  <2>3. ImportsInv' /\ ~At(p, "idle")' /\ imp'[p].bundle = imp[p].bundle
    BY <2>1, <2>2, GoingKeepsImports
  <2>4. QED
    BY <1>1, <2>1, <2>2, <2>3 DEF Moves, Goto, ImportsInv
<1>4. CASE InsertBundle(p)
  <2>1. ~At(p, "idle") /\ UNCHANGED <<objects, importRows, versions>>
    BY <1>4 DEF InsertBundle, At
  <2>2. QED
    BY <1>1, <1>4, <2>1, InsertKeepsImports DEF Moves
<1>5. CASE CreateImport(p)
  <2>1. ~At(p, "idle") /\ UNCHANGED <<objects, importRows, versions>>
    BY <1>5 DEF CreateImport, At
  <2>2. QED
    BY <1>1, <1>5, <2>1, CreateKeepsImports DEF Moves
<1>6. CASE PutPayload(p)
  <2>1. /\ ~At(p, "idle") /\ UNCHANGED <<importRows, versions>> /\ objects \subseteq objects'
    BY <1>6 DEF PutPayload, At
  <2>2. QED
    BY <1>1, <1>6, <2>1, PutKeepsImports DEF Moves
<1>7. CASE ImportNotice(p)
  <2>1. ~At(p, "idle") /\ UNCHANGED <<objects, importRows, versions>>
    BY <1>7 DEF ImportNotice, NoticeImported, At
  <2>2. QED
    BY <1>1, <1>7, <2>1, NoticeKeepsImports DEF Moves
<1>8. CASE Commit(p)
  <2>1. ~At(p, "idle") /\ objects' = objects
    BY <1>8 DEF Commit, At
  <2>2. Ended("success").step = "idle"
    BY EndedIsImport DEF Results
  <2>3. QED
    BY <1>8, <2>1, <2>2, CommitArrives, CommitKeepsStore, CommitKeepsImports
       DEF Moves, Arrives, At
<1>9. CASE BreakDeadlock(p)
  <2>1. ~At(p, "idle")
    BY <1>9 DEF BreakDeadlock, Deadlocked, Blocks, At
  <2>2. QED
    BY <1>9, <2>1, EndingMoves DEF BreakDeadlock, Results
<1>10. CASE ImportRaises(p)
  BY <1>10, EndingMoves DEF ImportRaises, Results, At
<1>11. QED
  BY <1>2, <1>3, <1>4, <1>5, <1>6, <1>7, <1>8, <1>9, <1>10 DEF ImportStep

-----------------------------------------------------------------------------
(* What a step of a run leaves as it is                                    *)

LEMMA ImportsStay ==
  ASSUME ImportsInv, imp' = imp, versions' = versions, importRows' = importRows,
         objects \subseteq objects'
  PROVE  ImportsInv'
<1>1. Library' = Library
  BY DEF Library
<1>2. ASSUME NEW q \in Importers
      PROVE  ImportInv(q)'
  <2>1. (At(q, "idle")' <=> At(q, "idle")) /\ (At(q, "commit")' <=> At(q, "commit"))
        /\ (At(q, "payload")' <=> At(q, "payload")) /\ (At(q, "notice")' <=> At(q, "notice"))
        /\ AddedItems(q)' = AddedItems(q)
    BY DEF At, AddedItems
  <2>2. Progress(q) => Progress(q)'
    BY <1>1, <2>1 DEF Progress
  <2>3. (OwnKey(q) => OwnKey(q)') /\ (AddedInv(q) => AddedInv(q)')
    BY <1>1 DEF OwnKey, AddedInv
  <2>4. QED
    BY <1>2, <2>1, <2>2, <2>3 DEF ImportsInv, ImportInv
<1>3. \A q, s \in Importers : q # s => Apart(q, s)'
  BY DEF ImportsInv, Apart
<1>4. QED
  BY <1>2, <1>3 DEF ImportsInv

LEMMA CoverageGrows ==
  ASSUME Library \subseteq Library', NEW page, Covered(page)
  PROVE  Covered(page)'
  BY DEF Covered

(* A run goes on as long as the others and what it relies on do.           *)
LEMMA RunUndisturbed ==
  ASSUME NEW v \in Workers, RunInv(v), pc'[v] = pc[v], job'[v] = job[v], imp'[v] = imp[v],
         published \in Int, published' \in Int, published <= published',
         objects \subseteq objects', Library \subseteq Library',
         job[v] \in Jobs, pc[v] = "commit" => cursor'.value <= job[v].last
  PROVE  RunInv(v)'
<1>1. (At(v, "idle")' <=> At(v, "idle"))
  BY DEF At
<1>2. pc[v] \in {"fetch", "import", "advance", "commit"} =>
         job[v].last \in 1..published /\ job[v].before <= job[v].last /\ Covered(job[v].last)'
  BY CoverageGrows DEF RunInv
<1>3. job[v].next \in Nat /\ job[v].last \in Nat /\ job[v].request \in Nat
  BY DEF Jobs
<1>4. PageInv(v) => PageInv(v)'
  BY <1>1, <1>3 DEF PageInv
<1>5. QED
  BY <1>1, <1>2, <1>3, <1>4 DEF RunInv

\* Of all the runs, only that of w moves.
RunMoves(w) ==
    /\ pc' \in [Workers -> Runs] /\ job' \in [Workers -> Jobs]
    /\ \A v \in Workers \ {w} : pc'[v] = pc[v] /\ job'[v] = job[v] /\ imp'[v] = imp[v]
    /\ objects \subseteq objects' /\ versions' = versions /\ published' = published
    /\ staged' \subseteq LiveBundles /\ runs' \in 0..MaxRuns

LEMMA RunsKept ==
  ASSUME RunsInv, NEW w \in Workers, RunMoves(w), RunInv(w)',
         job'[w].holds => job[w].holds \/ CursorFree(w),
         cursor' \in [exists : BOOLEAN, value : 1..published, version : Nat, failures : Nat],
         Covered(cursor'.value),
         \A v \in Workers \ {w} : pc[v] = "commit" => cursor'.value <= job[v].last
  PROVE  RunsInv'
<1>1. Library' = Library
  BY DEF RunMoves, Library
<1>2. published \in Int /\ published' = published
  BY DEF RunsInv, RunMoves
<1>3. \A v \in Workers : RunInv(v)'
  BY <1>1, <1>2, RunUndisturbed DEF RunsInv, RunMoves
<1>4. \A v, u \in Workers : job'[v].holds /\ job'[u].holds => v = u
  BY DEF RunsInv, RunMoves, CursorFree
<1>5. Covered(cursor.value)'
  BY <1>1 DEF Covered
<1>6. QED
  BY <1>2, <1>3, <1>4, <1>5 DEF RunsInv, RunMoves

LEMMA RunsKeptWithCursor ==
  ASSUME RunsInv, NEW w \in Workers, RunMoves(w), RunInv(w)', cursor' = cursor,
         job'[w].holds => job[w].holds \/ CursorFree(w)
  PROVE  RunsInv'
<1>1. \A v \in Workers : pc[v] = "commit" => cursor.value <= job[v].last
  BY DEF RunsInv, RunInv
<1>2. QED
  BY <1>1, RunsKept DEF RunsInv

LEMMA Continues ==
  ASSUME RunsInv, NEW w \in Workers, NEW step \in Runs, NEW r \in Jobs, Continue(w, step, r)
  PROVE  /\ pc' \in [Workers -> Runs] /\ job' \in [Workers -> Jobs]
         /\ pc'[w] = step /\ job'[w] = r
         /\ \A v \in Workers \ {w} : pc'[v] = pc[v] /\ job'[v] = job[v]
  BY DEF Continue, RunsInv

\* A run that is over, or will be without touching the cursor's value.
LEMMA QuietRun ==
  ASSUME NEW w \in Workers, pc'[w] \in {"idle", "finish", "release"}, At(w, "idle")',
         job'[w].responses \subseteq objects'
  PROVE  RunInv(w)'
  BY DEF RunInv

LEMMA ImportKeepsRuns ==
  ASSUME RunsInv, NEW p \in Importers, Moves(p), Others
  PROVE  RunsInv'
<1>1. /\ Library \subseteq Library' /\ objects \subseteq objects' /\ published \in Int
      /\ UNCHANGED <<pc, job, cursor, published, staged, runs>>
  BY DEF Moves, Others, sourceVars, cursorVars, RunsInv
<1>2. ASSUME NEW w \in Workers
      PROVE  RunInv(w)'
  <2>1. RunInv(w) /\ job[w] \in Jobs
    BY DEF RunsInv
  <2>2. CASE w # p
    <3>1. imp'[w] = imp[w]
      BY <2>2, IngestionAssumption DEF Moves
    <3>2. QED
      BY <1>1, <2>1, <3>1, RunUndisturbed DEF RunInv
  <2>3. CASE w = p
    <3>1. pc[w] = "import" /\ PageInv(w) /\ ~At(w, "idle")
      BY <2>1, <2>3 DEF Moves, RunInv
    <3>2. imp[w].bundle.items = Feed[job[w].request]
      BY <3>1 DEF PageInv, LiveBundle
    <3>3. PageInv(w)'
      BY <1>1, <2>3, <3>1, <3>2 DEF PageInv, Moves, At
    <3>4. Covered(job[w].last)'
      BY <1>1, <2>1, <3>1, CoverageGrows DEF RunInv
    <3>5. QED
      BY <1>1, <2>1, <3>1, <3>3, <3>4 DEF RunInv
  <2>4. QED
    BY <2>2, <2>3
<1>3. Covered(cursor.value)'
  BY <1>1, CoverageGrows DEF RunsInv
<1>4. QED
  BY <1>1, <1>2, <1>3 DEF RunsInv

-----------------------------------------------------------------------------
(* The steps of a run                                                      *)

LEMMA InitInv == Init => IInv
<1> SUFFICES ASSUME Init PROVE IInv
  OBVIOUS
<1>1. Ended("none") \in Imports /\ AtRest(Ended("none")) /\ Ended("none").step = "idle"
  BY EndedIsImport DEF Results
<1>2. ImportsInv
  <2>1. \A p \in Importers : imp[p] = Ended("none")
    BY DEF Init, ImportInit
  <2>2. imp \in [Importers -> Imports]
    BY <1>1 DEF Init, ImportInit
  <2>3. \A p \in Importers : ImportInv(p)
    BY <1>1, <2>1, NothingIn DEF ImportInv, At, OwnKey, AddedInv, AtRest
  <2>4. QED
    BY <1>1, <2>1, <2>2, <2>3 DEF ImportsInv, Apart, AtRest
<1>3. StoreInv
  BY NothingIn, EmptySeq DEF Init, ImportInit, StoreInv, RowsHaveObjects, VersionsDistinct
<1>4. RunsInv
  <2>1. NoJob \in Jobs /\ ~NoJob.holds /\ NoJob.responses = {}
    BY IngestionAssumption DEF NoJob, Jobs, NoPage
  <2>2. Len(Feed) \in Nat \ {0}
    BY IngestionAssumption, EmptySeq, LenProperties
  <2>3. \A w \in Workers : pc[w] = "idle" /\ job[w] = NoJob /\ imp[w].step = "idle"
    BY <1>1, IngestionAssumption DEF Init, ImportInit
  <2>4. \A w \in Workers : RunInv(w)
    BY <2>1, <2>3 DEF RunInv, At
  <2>5. cursor \in [exists : BOOLEAN, value : 1..published, version : Nat, failures : Nat]
    <3>1. 1 \in 1..published
      BY DEF Init
    <3>2. CASE cursor = [exists |-> FALSE, value |-> 1, version |-> 0, failures |-> 0]
      BY <3>1, <3>2
    <3>3. CASE cursor = [exists |-> TRUE, value |-> 1, version |-> 1, failures |-> 1]
      BY <3>1, <3>3
    <3>4. QED
      BY <3>2, <3>3 DEF Init
  <2>6. Covered(cursor.value)
    <3>1. cursor.value = 1
      BY DEF Init
    <3>2. QED
      BY <3>1 DEF Covered
  <2>7. QED
    BY <2>1, <2>2, <2>3, <2>4, <2>5, <2>6, IngestionAssumption DEF Init, RunsInv, Runs
<1>5. QED
  BY <1>2, <1>3, <1>4 DEF IInv

(* What is known of a run when it takes a step.                            *)
LEMMA AtWork ==
  ASSUME RunsInv, NEW w \in Workers
  PROVE  /\ w \in Importers /\ RunInv(w) /\ job[w] \in Jobs /\ pc[w] \in Runs
         /\ job[w].run \in 0..MaxRuns /\ job[w].before \in Nat /\ job[w].version \in Nat
         /\ job[w].failures \in Nat /\ job[w].holds \in BOOLEAN
         /\ job[w].request \in Nat /\ job[w].next \in Nat /\ job[w].last \in Nat
         /\ job[w].count \in Nat /\ job[w].tries \in Nat
         /\ job[w].responses \subseteq objects
         /\ published \in 1..Len(Feed) /\ Len(Feed) \in Nat
<1>1. w \in Importers /\ RunInv(w) /\ job[w] \in Jobs /\ pc[w] \in Runs
  BY IngestionAssumption DEF RunsInv
<1>2. /\ job[w].run \in 0..MaxRuns /\ job[w].before \in Nat /\ job[w].version \in Nat
      /\ job[w].failures \in Nat /\ job[w].holds \in BOOLEAN
      /\ job[w].request \in Nat /\ job[w].next \in Nat /\ job[w].last \in Nat
      /\ job[w].count \in Nat /\ job[w].tries \in Nat
  BY <1>1 DEF Jobs
<1>3. published \in 1..Len(Feed) /\ Len(Feed) \in Nat
  BY IngestionAssumption, LenProperties DEF RunsInv
<1>4. QED
  BY <1>1, <1>2, <1>3 DEF RunInv

LEMMA AcquireKeepsInv ==
  ASSUME IInv, NEW w \in Workers, AcquireLock(w)
  PROVE  IInv'
<1> DEFINE r == [NoJob EXCEPT !.run = runs + 1]
<1>1. UNCHANGED <<importVars, sourceVars, cursorVars>> /\ pc[w] = "idle"
      /\ Continue(w, "open", r) /\ runs < MaxRuns /\ runs' = runs + 1
  BY DEF AcquireLock
<1>2. runs \in 0..MaxRuns /\ runs' \in 1..MaxRuns
  BY <1>1, IngestionAssumption DEF IInv, RunsInv
<1>3. r \in Jobs /\ r.run = runs + 1 /\ r.responses = {} /\ ~r.holds
  <2>1. NoJob \in Jobs /\ NoJob.responses = {} /\ ~NoJob.holds
    BY IngestionAssumption DEF NoJob, Jobs, NoPage
  <2>2. runs + 1 \in 0..MaxRuns
    BY <1>1, <1>2, IngestionAssumption
  <2>3. QED
    BY <2>1, <2>2 DEF Jobs
<1> HIDE DEF r
<1>4. RunMoves(w) /\ pc'[w] = "open" /\ job'[w] = r
  BY <1>1, <1>2, <1>3, Continues DEF RunMoves, IInv, RunsInv, importVars, sourceVars, Runs
<1>5. RunInv(w)'
  BY <1>1, <1>2, <1>3, <1>4, AtWork DEF RunInv, At, IInv, importVars
<1>6. RunsInv'
  BY <1>1, <1>3, <1>4, <1>5, RunsKeptWithCursor DEF IInv, cursorVars
<1>7. ImportsInv' /\ StoreInv'
  BY <1>1, ImportsStay, StoreStays
     DEF IInv, StoreInv, RowsHaveObjects, importVars, cursorVars
<1>8. QED
  BY <1>6, <1>7 DEF IInv

LEMMA OpenedJob ==
  ASSUME NEW j \in Jobs, NEW value \in Nat, NEW version \in Nat, NEW failures \in Nat,
         NEW holds \in BOOLEAN
  PROVE  [j EXCEPT !.before = value, !.version = version, !.failures = failures,
                   !.holds = holds, !.request = value, !.last = value] \in Jobs
  BY DEF Jobs

LEMMA OpenKeepsInv ==
  ASSUME IInv, NEW w \in Workers, OpenRun(w)
  PROVE  IInv'
<1> DEFINE r == [job[w] EXCEPT !.before = cursor.value, !.version = cursor.version,
                               !.failures = cursor.failures, !.holds = ~cursor.exists,
                               !.request = cursor.value, !.last = cursor.value]
<1>1. UNCHANGED <<importVars, sourceVars, cursorVars, runs>> /\ pc[w] = "open"
      /\ Continue(w, "fetch", r) /\ (cursor.exists \/ CursorFree(w))
  BY DEF OpenRun, boundVars
<1>2. cursor.value \in 1..published /\ cursor.version \in Nat /\ cursor.failures \in Nat
      /\ cursor.exists \in BOOLEAN /\ Covered(cursor.value) /\ cursor.value \in Nat
  BY AtWork DEF IInv, RunsInv
<1>3. r \in Jobs
  <2>1. job[w] \in Jobs
    BY AtWork DEF IInv
  <2>2. (~cursor.exists) \in BOOLEAN
    OBVIOUS
  <2>3. QED
    BY <1>2, <2>1, <2>2, OpenedJob
<1>4. /\ r.run = job[w].run /\ r.request = cursor.value /\ r.last = cursor.value
      /\ r.before = cursor.value /\ r.responses = job[w].responses /\ r.holds = ~cursor.exists
  BY AtWork DEF IInv, Jobs
<1> HIDE DEF r
<1>5. RunMoves(w) /\ pc'[w] = "fetch" /\ job'[w] = r
  BY <1>1, <1>3, Continues DEF RunMoves, IInv, RunsInv, importVars, sourceVars, Runs
<1>6. Covered(cursor.value)'
  BY <1>1, <1>2, CoverageGrows DEF Library, importVars, cursorVars
<1>7. RunInv(w)'
  BY <1>1, <1>2, <1>4, <1>5, <1>6, AtWork DEF RunInv, At, IInv, importVars, sourceVars, cursorVars
<1>8. RunsInv'
  BY <1>1, <1>4, <1>5, <1>7, RunsKeptWithCursor DEF IInv, cursorVars
<1>9. ImportsInv' /\ StoreInv'
  BY <1>1, ImportsStay, StoreStays
     DEF IInv, StoreInv, RowsHaveObjects, importVars, cursorVars
<1>10. QED
  BY <1>8, <1>9 DEF IInv

LEMMA MaterializeKeepsInv ==
  ASSUME IInv, NEW w \in Workers, pc[w] = "fetch",
         NEW next \in {NoPage, job[w].request, NextCursor(w)}, Materialize(w, next)
  PROVE  IInv'
<1> DEFINE page == job[w].request
           b    == LiveBundle(job[w].run, page, next)
           r    == [job[w] EXCEPT !.next = next, !.tries = 0,
                                  !.responses = @ \cup {Response(page, next)}]
<1>1. /\ objects' = objects \cup {Response(page, next)} /\ staged' = staged \cup {b}
      /\ imp' = [imp EXCEPT ![w] = Begun(b)] /\ Continue(w, "import", r)
      /\ UNCHANGED <<importRows, versions, published, cursor, recorded, runs>>
  BY DEF Materialize, cursorVars
<1>2. /\ page \in 1..published /\ page = job[w].last /\ job[w].run \in 1..MaxRuns
      /\ page \in 1..Len(Feed) /\ job[w].before <= page /\ Covered(page)
  BY AtWork DEF IInv, RunInv
<1>3. next \in Nat /\ (next = NoPage \/ next = page \/ (next = page + 1 /\ next <= published))
  BY <1>2, AtWork DEF IInv, NextCursor, NoPage
<1>4. b \in LiveBundles /\ b \in Bundles /\ b.state = "sound"
  BY <1>2, <1>3, LiveIsBundle
<1>5. r \in Jobs
  <2>1. job[w] \in Jobs /\ page \in Nat
    BY AtWork DEF IInv
  <2>2. Response(page, next) \in Answers
    BY <1>3, <2>1 DEF Answers
  <2>3. QED
    BY <1>3, <2>1, <2>2 DEF Jobs
<1>6. /\ r.run = job[w].run /\ r.request = page /\ r.last = page /\ r.next = next
      /\ r.before = job[w].before /\ r.holds = job[w].holds
      /\ r.responses = job[w].responses \cup {Response(page, next)}
  BY <1>2, AtWork DEF IInv, Jobs
<1> HIDE DEF b, r
<1>7. /\ ImportsInv' /\ \A q \in Importers \ {w} : imp'[q] = imp[q]
      /\ ~At(w, "idle")' /\ imp'[w].bundle = b
  BY <1>1, <1>4, AtWork, BeginningKeepsImports DEF IInv
<1>8. RunMoves(w) /\ pc'[w] = "import" /\ job'[w] = r
  <2>1. /\ pc' \in [Workers -> Runs] /\ job' \in [Workers -> Jobs]
        /\ pc'[w] = "import" /\ job'[w] = r
        /\ \A v \in Workers \ {w} : pc'[v] = pc[v] /\ job'[v] = job[v]
    BY <1>1, <1>5, Continues DEF IInv, Runs
  <2>2. \A v \in Workers \ {w} : imp'[v] = imp[v]
    BY <1>7, IngestionAssumption
  <2>3. staged' \subseteq LiveBundles /\ runs' \in 0..MaxRuns
    BY <1>1, <1>4 DEF IInv, RunsInv
  <2>4. QED
    BY <1>1, <2>1, <2>2, <2>3 DEF RunMoves
<1>9. \A n : Covered(n) => Covered(n)'
  BY <1>1, CoverageGrows DEF Library
<1>10. PageInv(w)'
  BY <1>1, <1>3, <1>6, <1>7, <1>8 DEF PageInv, b
<1>11. RunInv(w)'
  BY <1>1, <1>2, <1>6, <1>8, <1>9, <1>10, AtWork DEF RunInv, IInv
<1>12. RunsInv'
  BY <1>1, <1>6, <1>8, <1>11, RunsKeptWithCursor DEF IInv
<1>13. StoreInv'
  BY <1>1, StoreStays DEF IInv, StoreInv, RowsHaveObjects
<1>14. QED
  BY <1>7, <1>12, <1>13 DEF IInv

(* The rows and the imports, when a run changes neither.                   *)
LEMMA RestKeepsInv ==
  ASSUME IInv, NEW w \in Workers, RunsInv', objects \subseteq objects',
         UNCHANGED <<importRows, versions>>, recorded' \subseteq objects',
         End(w, "none") \/ imp' = imp
  PROVE  IInv'
<1>1. ImportsInv'
  BY ImportsStay, EndingKeepsImports, IngestionAssumption DEF IInv, Results
<1>2. StoreInv'
  BY StoreStays DEF IInv
<1>3. QED
  BY <1>1, <1>2 DEF IInv

LEMMA OthersStayIdle ==
  ASSUME IInv, NEW w \in Workers, End(w, "none") \/ imp' = imp
  PROVE  /\ \A v \in Workers \ {w} : imp'[v] = imp[v]
         /\ End(w, "none") \/ At(w, "idle") => At(w, "idle")'
<1>1. Ended("none").step = "idle" /\ w \in Importers
  BY EndedIsImport, IngestionAssumption DEF Results
<1>2. QED
  BY <1>1, IngestionAssumption DEF IInv, ImportsInv, End, At

LEMMA QuietKeepsInv ==
  ASSUME IInv, NEW w \in Workers, NEW step \in {"idle", "finish", "release"}, NEW r \in Jobs,
         Continue(w, step, r), r.responses \subseteq objects', r.holds => job[w].holds,
         objects \subseteq objects', recorded' \subseteq objects',
         UNCHANGED <<importRows, versions, published, staged, runs>>,
         cursor' \in [exists : BOOLEAN, value : 1..published, version : Nat, failures : Nat],
         Covered(cursor'.value),
         \A v \in Workers \ {w} : pc[v] = "commit" => cursor'.value <= job[v].last,
         End(w, "none") \/ (imp' = imp /\ At(w, "idle"))
  PROVE  IInv'
<1>1. /\ pc' \in [Workers -> Runs] /\ job' \in [Workers -> Jobs]
      /\ pc'[w] = step /\ job'[w] = r
      /\ \A v \in Workers \ {w} : pc'[v] = pc[v] /\ job'[v] = job[v]
  BY Continues DEF IInv, Runs
<1>2. At(w, "idle")' /\ \A v \in Workers \ {w} : imp'[v] = imp[v]
  BY OthersStayIdle
<1>3. RunMoves(w)
  BY <1>1, <1>2 DEF RunMoves, IInv, RunsInv
<1>4. RunInv(w)'
  BY <1>1, <1>2, QuietRun
<1>5. RunsInv'
  BY <1>1, <1>3, <1>4, RunsKept DEF IInv
<1>6. QED
  BY <1>5, RestKeepsInv

(* The cursor row stays, or only its value does.                           *)
LEMMA ValueStays ==
  ASSUME IInv, cursor'.value = cursor.value
  PROVE  /\ Covered(cursor'.value)
         /\ \A v \in Workers : pc[v] = "commit" => cursor'.value <= job[v].last
         /\ cursor' = cursor =>
               cursor' \in [exists : BOOLEAN, value : 1..published, version : Nat, failures : Nat]
  BY DEF IInv, RunsInv, RunInv

LEMMA JobWithStatus ==
  ASSUME NEW j \in Jobs, NEW status \in {"none", "success", "rate_limited", "failed", "quarantined"}
  PROVE  /\ [j EXCEPT !.status = status] \in Jobs
         /\ [j EXCEPT !.status = status].responses = j.responses
         /\ [j EXCEPT !.status = status].holds = j.holds
  BY DEF Jobs

LEMMA FailureKeepsInv ==
  ASSUME IInv, NEW w \in Workers, NEW status \in {"rate_limited", "failed", "quarantined"},
         FinishAs(w, status), objects' = objects, recorded' = recorded,
         UNCHANGED <<importRows, versions, published, staged, runs, cursor>>,
         End(w, "none") \/ (imp' = imp /\ At(w, "idle"))
  PROVE  IInv'
<1>1. job[w] \in Jobs /\ job[w].responses \subseteq objects
  BY AtWork DEF IInv
<1>2. Continue(w, "finish", [job[w] EXCEPT !.status = status])
  BY DEF FinishAs
<1>3. recorded \subseteq objects
  BY DEF IInv, StoreInv, RowsHaveObjects
<1>4. QED
  BY <1>1, <1>2, <1>3, JobWithStatus, ValueStays, QuietKeepsInv

LEMMA RefusedKeepsInv ==
  ASSUME IInv, NEW w \in Workers, FetchRefused(w)
  PROVE  IInv'
<1>1. At(w, "idle")
  BY AtWork DEF FetchRefused, IInv, RunInv
<1>2. QED
  BY <1>1, FailureKeepsInv DEF FetchRefused, importVars, sourceVars, cursorVars

LEMMA BreaksKeepsInv ==
  ASSUME IInv, NEW w \in Workers, FetchBreaks(w)
  PROVE  IInv'
<1>1. At(w, "idle") /\ RunInv(w) /\ job[w] \in Jobs /\ job[w].tries \in Nat
  BY AtWork DEF FetchBreaks, IInv, RunInv
<1>2. imp' = imp /\ UNCHANGED <<importRows, versions, objects, published, staged, runs, cursor,
                                recorded>>
  BY DEF FetchBreaks, importVars, sourceVars, cursorVars
<1>3. CASE FinishAs(w, "failed")
  BY <1>1, <1>2, <1>3, FailureKeepsInv
<1>4. CASE Continue(w, "fetch", [job[w] EXCEPT !.tries = @ + 1])
  <2> DEFINE r == [job[w] EXCEPT !.tries = @ + 1]
  <2>1. /\ r \in Jobs /\ r.run = job[w].run /\ r.request = job[w].request /\ r.last = job[w].last
        /\ r.before = job[w].before /\ r.responses = job[w].responses /\ r.holds = job[w].holds
    BY <1>1 DEF Jobs
  <2>2. Continue(w, "fetch", r)
    BY <1>4
  <2> HIDE DEF r
  <2>3. RunMoves(w) /\ pc'[w] = "fetch" /\ job'[w] = r
    BY <1>2, <2>1, <2>2, Continues DEF RunMoves, IInv, RunsInv, Runs
  <2>4. \A n : Covered(n) => Covered(n)'
    BY <1>2, CoverageGrows DEF Library
  <2>5. RunInv(w)'
    BY <1>1, <1>2, <2>1, <2>3, <2>4 DEF RunInv, At, FetchBreaks
  <2>6. RunsInv'
    BY <1>2, <2>1, <2>3, <2>5, RunsKeptWithCursor DEF IInv
  <2>7. QED
    BY <1>2, <2>6, RestKeepsInv DEF IInv, StoreInv, RowsHaveObjects
<1>5. QED
  BY <1>3, <1>4 DEF FetchBreaks

LEMMA MaterializeFailsKeepsInv ==
  ASSUME IInv, NEW w \in Workers, MaterializeFails(w)
  PROVE  IInv'
<1> DEFINE response == Response(job[w].request, NextCursor(w))
           r        == [job[w] EXCEPT !.responses = @ \cup {response}, !.status = "quarantined"]
<1>1. /\ At(w, "idle") /\ job[w] \in Jobs /\ job[w].responses \subseteq objects
      /\ job[w].request \in Nat /\ published \in Nat
  BY AtWork DEF MaterializeFails, IInv, RunInv
<1>2. imp' = imp /\ UNCHANGED <<importRows, versions, published, staged, runs, cursor, recorded>>
  BY DEF MaterializeFails, sourceVars, cursorVars
<1>3. CASE FinishAs(w, "failed") /\ objects' = objects
  BY <1>1, <1>2, <1>3, FailureKeepsInv
<1>4. CASE Continue(w, "finish", r) /\ objects' = objects \cup {response}
  <2>1. response \in Answers
    BY <1>1 DEF Answers, NextCursor, NoPage
  <2>2. r \in Jobs
    BY <1>1, <2>1 DEF Jobs
  <2>3. r.responses = job[w].responses \cup {response} /\ r.holds = job[w].holds
    BY <1>1 DEF Jobs
  <2> HIDE DEF r, response
  <2>4. r.responses \subseteq objects' /\ objects \subseteq objects' /\ recorded' \subseteq objects'
    BY <1>1, <1>2, <1>4, <2>3 DEF IInv, StoreInv, RowsHaveObjects
  <2>5. QED
    BY <1>1, <1>2, <1>4, <2>2, <2>3, <2>4, ValueStays, QuietKeepsInv
<1>5. QED
  BY <1>3, <1>4 DEF MaterializeFails

LEMMA FollowedJob ==
  ASSUME NEW j \in Jobs, NEW next \in Nat, NEW count \in Nat
  PROVE  [j EXCEPT !.last = next, !.request = next, !.count = count] \in Jobs
  BY DEF Jobs

LEMMA OvertakenJob ==
  ASSUME NEW j \in Jobs, NEW version \in Nat
  PROVE  [j EXCEPT !.status = "failed", !.failures = 0, !.version = version] \in Jobs
  BY DEF Jobs

LEMMA FailedCursor ==
  ASSUME NEW values,
         NEW c \in [exists : BOOLEAN, value : values, version : Nat, failures : Nat],
         NEW version \in Nat, NEW failures \in Nat
  PROVE  [c EXCEPT !.exists = TRUE, !.version = version, !.failures = failures] \in
            [exists : BOOLEAN, value : values, version : Nat, failures : Nat]
  OBVIOUS

LEMMA FollowKeepsInv ==
  ASSUME IInv, NEW w \in Workers, pc[w] = "import", At(w, "idle"),
         imp[w].result \in {"success", "reused"}, FollowPage(w), End(w, "none"),
         UNCHANGED <<objects, importRows, versions, recorded, published, staged, runs, cursor>>
  PROVE  IInv'
<1> DEFINE next == job[w].next
<1>1. /\ RunInv(w) /\ job[w] \in Jobs /\ next \in Nat /\ job[w].request \in Nat
      /\ job[w].count \in Nat /\ published \in Nat
  BY AtWork DEF IInv
<1>2. /\ job[w].request = job[w].last /\ job[w].last \in 1..published
      /\ job[w].before <= job[w].last /\ Covered(job[w].last)
      /\ next = NoPage \/ next = job[w].request \/ (next = job[w].request + 1 /\ next <= published)
      /\ Range(Feed[job[w].request]) \subseteq Library /\ job[w].before \in Nat
  BY <1>1, AtWork DEF IInv, RunInv, PageInv
<1>3. \A n : Covered(n) => Covered(n)'
  BY CoverageGrows DEF Library
<1>4. At(w, "idle")' /\ \A v \in Workers \ {w} : imp'[v] = imp[v]
  BY OthersStayIdle
<1>5. CASE next = NoPage
  <2>1. Continue(w, "advance", job[w])
    BY <1>5 DEF FollowPage
  <2>2. RunMoves(w) /\ pc'[w] = "advance" /\ job'[w] = job[w]
    BY <1>1, <1>4, <2>1, Continues DEF RunMoves, IInv, RunsInv, Runs
  <2>3. RunInv(w)'
    BY <1>1, <1>2, <1>3, <1>4, <2>2 DEF RunInv
  <2>4. RunsInv'
    BY <2>2, <2>3, RunsKeptWithCursor DEF IInv
  <2>5. QED
    BY <2>4, RestKeepsInv DEF IInv, StoreInv, RowsHaveObjects
<1>6. CASE FinishAs(w, "quarantined")
  BY <1>6, FailureKeepsInv
<1>7. CASE ~(next = NoPage) /\ ~(next = job[w].request \/ job[w].count + 1 >= MaxPagesPerRun)
  <2> DEFINE r == [job[w] EXCEPT !.last = next, !.request = next, !.count = @ + 1]
  <2>1. Continue(w, "fetch", r)
    BY <1>7 DEF FollowPage
  <2>2. /\ r \in Jobs /\ r.run = job[w].run /\ r.request = next /\ r.last = next
        /\ r.before = job[w].before /\ r.responses = job[w].responses /\ r.holds = job[w].holds
    <3>1. job[w].count + 1 \in Nat
      BY <1>1
    <3>2. r \in Jobs
      BY <1>1, <3>1, FollowedJob
    <3>3. QED
      BY <1>1, <3>2 DEF Jobs
  <2>3. next = job[w].last + 1 /\ next \in 1..published /\ job[w].before <= next
    BY <1>1, <1>2, <1>7
  <2>4. Covered(next)
    <3>1. ASSUME NEW n \in 1..(next - 1)
          PROVE  Range(Feed[n]) \subseteq Library
      <4>1. n \in 1..(job[w].last - 1) \/ n = job[w].request
        BY <1>1, <1>2, <2>3, <3>1
      <4>2. QED
        BY <1>2, <4>1 DEF Covered
    <3>2. QED
      BY <3>1 DEF Covered
  <2> HIDE DEF r
  <2>5. RunMoves(w) /\ pc'[w] = "fetch" /\ job'[w] = r
    BY <1>4, <2>1, <2>2, Continues DEF RunMoves, IInv, RunsInv, Runs
  <2>6. RunInv(w)'
    BY <1>1, <1>3, <1>4, <2>2, <2>3, <2>4, <2>5 DEF RunInv
  <2>7. RunsInv'
    BY <2>2, <2>5, <2>6, RunsKeptWithCursor DEF IInv
  <2>8. QED
    BY <2>7, RestKeepsInv DEF IInv, StoreInv, RowsHaveObjects
<1>8. QED
  BY <1>5, <1>6, <1>7 DEF FollowPage

LEMMA ImportedKeepsInv ==
  ASSUME IInv, NEW w \in Workers, PageImported(w)
  PROVE  IInv'
<1>1. /\ pc[w] = "import" /\ At(w, "idle") /\ End(w, "none")
      /\ UNCHANGED <<objects, importRows, versions, recorded, published, staged, runs, cursor>>
  BY DEF PageImported, At, sourceVars, cursorVars, boundVars
<1>2. CASE imp[w].result \in {"success", "reused"}
  BY <1>1, <1>2, FollowKeepsInv DEF PageImported
<1>3. CASE imp[w].result \notin {"success", "reused"}
  BY <1>1, <1>3, FailureKeepsInv DEF PageImported, StatusOf
<1>4. QED
  BY <1>2, <1>3

LEMMA AdvanceKeepsInv ==
  ASSUME IInv, NEW w \in Workers, Advance(w)
  PROVE  IInv'
<1>1. /\ At(w, "idle") /\ RunInv(w) /\ job[w] \in Jobs /\ job[w].version \in Nat
      /\ job[w].responses \subseteq objects
  BY AtWork DEF Advance, IInv, RunInv
<1>2. /\ pc[w] = "advance" /\ CursorFree(w)
      /\ UNCHANGED <<imp, objects, importRows, versions, published, staged, runs, cursor, recorded>>
  BY DEF Advance, importVars, sourceVars, cursorVars, boundVars
<1>3. recorded' \subseteq objects'
  BY <1>2 DEF IInv, StoreInv, RowsHaveObjects
<1>4. CASE Seen(w)
  <2> DEFINE r == [job[w] EXCEPT !.holds = TRUE, !.status = "success"]
  <2>1. Continue(w, "commit", r)
    BY <1>4 DEF Advance
  <2>2. /\ r \in Jobs /\ r.run = job[w].run /\ r.request = job[w].request /\ r.last = job[w].last
        /\ r.before = job[w].before /\ r.responses = job[w].responses /\ r.holds = TRUE
    BY <1>1 DEF Jobs
  <2> HIDE DEF r
  <2>3. RunMoves(w) /\ pc'[w] = "commit" /\ job'[w] = r
    BY <1>2, <2>1, <2>2, Continues DEF RunMoves, IInv, RunsInv, Runs
  <2>4. \A n : Covered(n) => Covered(n)'
    BY <1>2, CoverageGrows DEF Library
  <2>5. cursor.value <= job[w].last
    BY <1>1, <1>2, <1>4 DEF RunInv, Seen
  <2>6. RunInv(w)'
    BY <1>1, <1>2, <2>2, <2>3, <2>4, <2>5 DEF RunInv, At
  <2>7. RunsInv'
    BY <1>2, <2>2, <2>3, <2>6, RunsKeptWithCursor DEF IInv
  <2>8. QED
    BY <1>2, <1>3, <2>7, RestKeepsInv
<1>5. CASE ~Seen(w)
  <2> DEFINE r == [job[w] EXCEPT !.status = "failed", !.failures = 0, !.version = @ + 1]
  <2>1. Continue(w, "finish", r)
    BY <1>5 DEF Advance
  <2>2. r \in Jobs /\ r.responses = job[w].responses /\ r.holds = job[w].holds
    <3>1. job[w].version + 1 \in Nat
      BY <1>1
    <3>2. r \in Jobs
      BY <1>1, <3>1, OvertakenJob
    <3>3. QED
      BY <1>1, <3>2 DEF Jobs
  <2> HIDE DEF r
  <2>3. QED
    BY <1>1, <1>2, <1>3, <2>1, <2>2, ValueStays, QuietKeepsInv
<1>6. QED
  BY <1>4, <1>5

LEMMA BlankJob == NoJob \in Jobs /\ NoJob.responses = {} /\ NoJob.holds = FALSE
  BY IngestionAssumption DEF NoJob, Jobs, NoPage

LEMMA CommitRunKeepsInv ==
  ASSUME IInv, NEW w \in Workers, CommitRun(w)
  PROVE  IInv'
<1>1. /\ At(w, "idle") /\ RunInv(w) /\ job[w] \in Jobs /\ job[w].version \in Nat
      /\ job[w].responses \subseteq objects
  BY AtWork DEF CommitRun, IInv, RunInv
<1>2. /\ pc[w] = "commit" /\ Continue(w, "release", NoJob)
      /\ UNCHANGED <<imp, objects, importRows, versions, published, staged, runs>>
      /\ recorded' = recorded \cup job[w].responses
  BY DEF CommitRun, Record, importVars, sourceVars, boundVars
<1>3. cursor' \in [exists : BOOLEAN, value : 1..published, version : Nat, failures : Nat]
      /\ cursor'.value = job[w].last /\ Covered(cursor'.value)
  BY <1>1, <1>2 DEF CommitRun, RunInv
<1>4. recorded' \subseteq objects'
  BY <1>1, <1>2 DEF IInv, StoreInv, RowsHaveObjects
<1>5. \A v \in Workers \ {w} : pc[v] # "commit"
  BY <1>1, <1>2 DEF IInv, RunsInv, RunInv
<1>6. QED
  BY <1>1, <1>2, <1>3, <1>4, <1>5, BlankJob, QuietKeepsInv

LEMMA FinishKeepsInv ==
  ASSUME IInv, NEW w \in Workers, FinishRun(w)
  PROVE  IInv'
<1>1. /\ At(w, "idle") /\ job[w].version \in Nat /\ job[w].failures \in Nat
      /\ job[w].responses \subseteq objects
  BY AtWork DEF FinishRun, IInv, RunInv
<1>2. /\ Continue(w, "release", NoJob)
      /\ UNCHANGED <<imp, objects, importRows, versions, published, staged, runs>>
      /\ recorded' = recorded \cup job[w].responses
      /\ cursor' = [cursor EXCEPT !.exists = TRUE, !.version = job[w].version + 1,
                                  !.failures = job[w].failures + 1]
  BY DEF FinishRun, Record, importVars, sourceVars, boundVars
<1>3. cursor' \in [exists : BOOLEAN, value : 1..published, version : Nat, failures : Nat]
      /\ cursor'.value = cursor.value
  <2>1. /\ cursor \in [exists : BOOLEAN, value : 1..published, version : Nat, failures : Nat]
        /\ job[w].version + 1 \in Nat /\ job[w].failures + 1 \in Nat
    BY <1>1 DEF IInv, RunsInv
  <2>2. cursor' \in [exists : BOOLEAN, value : 1..published, version : Nat, failures : Nat]
    BY <1>2, <2>1, FailedCursor
  <2>3. QED
    BY <1>2, <2>1, <2>2
<1>4. recorded' \subseteq objects'
  BY <1>1, <1>2 DEF IInv, StoreInv, RowsHaveObjects
<1>5. QED
  BY <1>1, <1>2, <1>3, <1>4, BlankJob, ValueStays, QuietKeepsInv

LEMMA ReleaseKeepsInv ==
  ASSUME IInv, NEW w \in Workers, Release(w)
  PROVE  IInv'
<1>1. At(w, "idle")
  BY AtWork DEF Release, IInv, RunInv
<1>2. /\ Continue(w, "idle", NoJob)
      /\ UNCHANGED <<imp, objects, importRows, versions, published, staged, runs, cursor, recorded>>
  BY DEF Release, importVars, sourceVars, cursorVars, boundVars
<1>3. recorded' \subseteq objects'
  BY <1>2 DEF IInv, StoreInv, RowsHaveObjects
<1>4. QED
  BY <1>1, <1>2, <1>3, BlankJob, ValueStays, QuietKeepsInv

-----------------------------------------------------------------------------
(* Everybody else                                                          *)

\* No run is touched: what changes is the feed, the lock or an operator's import.
RunsStay ==
    /\ UNCHANGED <<pc, job, cursor, staged, runs, versions>> /\ objects \subseteq objects'
    /\ published' \in 1..Len(Feed) /\ published <= published'
    /\ \A w \in Workers : imp'[w] = imp[w]

LEMMA StayingKeepsRuns == ASSUME RunsInv, RunsStay PROVE RunsInv'
<1>1. Library' = Library /\ published \in Int /\ published' \in Int
  BY IngestionAssumption DEF RunsStay, Library, RunsInv
<1>2. \A w \in Workers : pc[w] = "commit" => cursor'.value <= job[w].last
  BY DEF RunsStay, RunsInv, RunInv
<1>3. \A w \in Workers : RunInv(w)'
  BY <1>1, <1>2, RunUndisturbed DEF RunsStay, RunsInv
<1>4. Covered(cursor.value)'
  BY <1>1, CoverageGrows DEF RunsStay, RunsInv
<1>5. cursor' \in [exists : BOOLEAN, value : 1..published', version : Nat, failures : Nat]
  <2>1. \A n \in 1..published : n \in 1..published'
    BY <1>1 DEF RunsStay
  <2>2. cursor \in [exists : BOOLEAN, value : 1..published, version : Nat, failures : Nat]
    BY DEF RunsInv
  <2>3. QED
    BY <2>1, <2>2 DEF RunsStay
<1>6. QED
  BY <1>3, <1>4, <1>5 DEF RunsStay, RunsInv

LEMMA OperatorKeepsInv ==
  ASSUME IInv, NEW o \in Operators, OperatorImports(o)
  PROVE  IInv'
<1>1. PICK b \in staged \cup Archive : imp' = [imp EXCEPT ![o] = Begun(b)]
  BY DEF OperatorImports
<1>2. b \in Bundles /\ o \in Importers /\ o \notin Workers
  BY IngestionAssumption DEF IInv, RunsInv, Bundles
<1>3. UNCHANGED <<objects, importRows, versions, recorded, pc, job, cursor, staged, runs,
                  published>>
  BY DEF OperatorImports, sourceVars, cursorVars
<1>4. ImportsInv' /\ \A q \in Importers \ {o} : imp'[q] = imp[q]
  BY <1>1, <1>2, <1>3, BeginningKeepsImports DEF IInv
<1>5. RunsStay
  BY <1>2, <1>3, <1>4, IngestionAssumption, LenProperties DEF RunsStay, IInv, RunsInv
<1>6. StoreInv'
  BY <1>3, StoreStays DEF IInv, StoreInv, RowsHaveObjects
<1>7. QED
  BY <1>4, <1>5, <1>6, StayingKeepsRuns DEF IInv

LEMMA CrashKeepsInv ==
  ASSUME IInv, NEW p \in Importers, Crash(p)
  PROVE  IInv'
<1>1. /\ End(p, "none")
      /\ UNCHANGED <<objects, importRows, versions, recorded, cursor, staged, runs, published>>
  BY DEF Crash, sourceVars, cursorVars
<1>2. recorded \subseteq objects
  BY DEF IInv, StoreInv, RowsHaveObjects
<1>3. CASE p \in Workers
  <2>1. Continue(p, "idle", NoJob)
    BY <1>3 DEF Crash
  <2>2. QED
    BY <1>1, <1>2, <1>3, <2>1, BlankJob, ValueStays, QuietKeepsInv
<1>4. CASE p \notin Workers
  <2>1. ImportsInv' /\ \A q \in Importers \ {p} : imp'[q] = imp[q]
    BY <1>1, EndingKeepsImports DEF IInv, Results
  <2>2. UNCHANGED <<pc, job>>
    BY <1>4 DEF Crash
  <2>3. RunsStay
    BY <1>1, <1>4, <2>1, <2>2, IngestionAssumption, LenProperties DEF RunsStay, IInv, RunsInv
  <2>4. StoreInv'
    BY <1>1, <1>2, StoreStays DEF IInv
  <2>5. QED
    BY <2>1, <2>3, <2>4, StayingKeepsRuns DEF IInv
<1>5. QED
  BY <1>3, <1>4

LEMMA SurroundingsKeepInv ==
  ASSUME IInv, Publish \/ LoseLock \/ UNCHANGED vars
  PROVE  IInv'
<1>1. UNCHANGED <<imp, objects, importRows, versions, recorded, pc, job, cursor, staged, runs>>
  BY DEF Publish, LoseLock, vars, importVars, sourceVars, cursorVars, boundVars
<1>2. published' \in 1..Len(Feed) /\ published <= published'
  <2>1. published \in 1..Len(Feed) /\ Len(Feed) \in Nat
    BY IngestionAssumption, LenProperties DEF IInv, RunsInv
  <2>2. QED
    BY <2>1 DEF Publish, LoseLock, vars, sourceVars
<1>3. RunsInv'
  BY <1>1, <1>2, StayingKeepsRuns DEF RunsStay, IInv
<1>4. ImportsInv' /\ StoreInv'
  BY <1>1, ImportsStay, StoreStays DEF IInv, StoreInv, RowsHaveObjects
<1>5. QED
  BY <1>3, <1>4 DEF IInv

LEMMA ImportingKeepsInv ==
  ASSUME IInv, NEW p \in Importers, Import(p) \/ Unblock(p) \/ Raise(p)
  PROVE  IInv'
<1>1. Others /\ recorded' = recorded /\ (ImportStep(p) \/ BreakDeadlock(p) \/ ImportRaises(p))
  BY DEF Import, Unblock, Raise, Others, cursorVars
<1>2. ImportsInv' /\ StoreInv' /\ Moves(p)
  BY <1>1, ImportMoves DEF IInv
<1>3. QED
  BY <1>1, <1>2, ImportKeepsRuns DEF IInv

LEMMA FetchKeepsInv ==
  ASSUME IInv, NEW w \in Workers, FetchPage(w) \/ FetchRepeated(w)
  PROVE  IInv'
<1>1. pc[w] = "fetch"
  BY DEF FetchPage, FetchRepeated
<1>2. PICK next \in {NoPage, job[w].request, NextCursor(w)} : Materialize(w, next)
  BY DEF FetchPage, FetchRepeated
<1>3. QED
  BY <1>1, <1>2, MaterializeKeepsInv

LEMMA NextKeepsInv == IInv /\ [Next]_vars => IInv'
<1> SUFFICES ASSUME IInv, [Next]_vars PROVE IInv'
  OBVIOUS
<1>1. ASSUME NEW w \in Workers, AcquireLock(w) \/ WorkerStep(w)
      PROVE  IInv'
  BY <1>1, AcquireKeepsInv, OpenKeepsInv, FetchKeepsInv, ImportedKeepsInv, AdvanceKeepsInv,
     CommitRunKeepsInv, FinishKeepsInv, ReleaseKeepsInv DEF WorkerStep
<1>2. ASSUME NEW w \in Workers,
             FetchRepeated(w) \/ FetchBreaks(w) \/ FetchRefused(w) \/ MaterializeFails(w)
      PROVE  IInv'
  BY <1>2, FetchKeepsInv, BreaksKeepsInv, RefusedKeepsInv, MaterializeFailsKeepsInv
<1>3. ASSUME NEW o \in Operators, OperatorImports(o)
      PROVE  IInv'
  BY <1>3, OperatorKeepsInv
<1>4. ASSUME NEW p \in Importers, Import(p) \/ Unblock(p) \/ Raise(p) \/ Crash(p)
      PROVE  IInv'
  BY <1>4, ImportingKeepsInv, CrashKeepsInv
<1>5. QED
  BY <1>1, <1>2, <1>3, <1>4, SurroundingsKeepInv DEF Next

-----------------------------------------------------------------------------
(* The theorems                                                            *)

(* Imports, rows and runs stay in their ranges and agree with each other,   *)
(* whatever the steps of import_bundle and run_once meet: the invariant     *)
(* from which the rest follows.                                            *)
THEOREM IngestionIsConsistent == Spec => []IInv
  BY InitInv, NextKeepsInv, PTL DEF Spec

(* The cursor leaves no page behind that is not in the library: run_once    *)
(* moves it after its last import, however long the feed is and whoever     *)
(* fails, crashes or runs beside.                                          *)
THEOREM CursorIsBehindImports == Spec => []CursorCoversImports
<1>1. IInv => CursorCoversImports
  BY DEF IInv, RunsInv, Covered, CursorCoversImports
<1>2. QED
  BY <1>1, IngestionIsConsistent, PTL

(* A version's payload, and a run's responses, are in the store: put_bytes  *)
(* comes before the rows that name them.                                   *)
THEOREM ObjectsComeFirst == Spec => []RowsHaveObjects
<1>1. IInv => RowsHaveObjects
  BY DEF IInv, StoreInv
<1>2. QED
  BY <1>1, IngestionIsConsistent, PTL

(* Concurrent imports never make two versions of the same content: who      *)
(* stamps the source notice is alone with it until the commit.              *)
THEOREM OneVersionEach == Spec => []VersionsDistinct
<1>1. IInv => VersionsDistinct
  BY DEF IInv, StoreInv
<1>2. QED
  BY <1>1, IngestionIsConsistent, PTL

(* advance_source_sync_cursor never takes the cursor back: nobody moves it   *)
(* between the comparison and the commit.                                  *)
THEOREM CursorAdvances == Spec => CursorNeverGoesBack
<1>1. ASSUME IInv, [Next]_vars
      PROVE  [cursor'.value >= cursor.value]_cursor
  <2>1. cursor.value \in Nat
    BY <1>1, AtWork DEF IInv, RunsInv
  <2>2. ASSUME NEW w \in Workers, CommitRun(w)
        PROVE  cursor'.value >= cursor.value
    BY <1>1, <2>1, <2>2, AtWork DEF CommitRun, IInv, RunInv
  <2>3. ASSUME NEW w \in Workers, FinishRun(w)
        PROVE  cursor'.value >= cursor.value
    BY <1>1, <2>1, <2>3 DEF FinishRun, IInv, RunsInv
  <2>4. cursor' = cursor \/ \E w \in Workers : CommitRun(w) \/ FinishRun(w)
    BY <1>1
       DEF Next, vars, WorkerStep, AcquireLock, OpenRun, FetchPage, PageImported, Advance, Release,
           FetchRepeated, Materialize, FetchBreaks, FetchRefused, MaterializeFails,
           OperatorImports, Import, Unblock, Raise, Others, Crash, Publish, LoseLock, cursorVars
  <2>5. QED
    BY <2>2, <2>3, <2>4
<1>2. QED
  BY <1>1, IngestionIsConsistent, PTL DEF Spec, CursorNeverGoesBack

(* SnapshotImport implements ImportContract: a bundle arrives whole, at most *)
(* once, and nothing that has arrived goes away; only the commit of the     *)
(* UnitOfWork changes what readers see.                                    *)
THEOREM ImportsKeepContract == Spec => ImplementsContract
<1>1. Init => Contract!Init
  BY NothingIn DEF Init, ImportInit, Contract!Init, Library
<1>2. ASSUME IInv, [Next]_vars
      PROVE  [Contract!Next]_<<importRows, Library>>
  <2>1. ASSUME NEW p \in Importers, Commit(p)
        PROVE  Contract!Next
    <3>1. imp[p].bundle \in Bundles /\ Arrives(imp[p].bundle)
      BY <1>2, <2>1, CommitArrives DEF IInv
    <3>2. Contract!Import(imp[p].bundle)
      BY <3>1 DEF Arrives, Contract!Import, Contract!Key, Key, Contract!Range, Range
    <3>3. QED
      BY <3>1, <3>2 DEF Contract!Next
  <2>2. UNCHANGED <<importRows, versions>> \/ \E p \in Importers : Commit(p)
    BY <1>2
       DEF Next, vars, WorkerStep, AcquireLock, OpenRun, FetchPage, PageImported, Advance, Release,
           CommitRun, FinishRun, FetchRepeated, Materialize, FetchBreaks, FetchRefused,
           MaterializeFails, OperatorImports, Import, ImportStep, FindImport, SelectBundle,
           InsertBundle, CreateImport, PutPayload, ImportNotice, NoticeImported, Unblock,
           BreakDeadlock, Raise, ImportRaises, Crash, Publish, LoseLock, importVars
  <2>3. QED
    BY <2>1, <2>2 DEF Library
<1>3. QED
  BY <1>1, <1>2, IngestionIsConsistent, PTL DEF Spec, ImplementsContract, Contract!Spec
=============================================================================
