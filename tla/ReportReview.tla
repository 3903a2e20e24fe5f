---------------------------- MODULE ReportReview ----------------------------
(***************************************************************************)
(* From a synthesized draft to what a reader of the report sees: the       *)
(* deterministic citation check, the semantic verifier's verdicts, the     *)
(* report rows, and the two renderings of them, the JSON report with its   *)
(* main and review lists and the DOCX.                                     *)
(*                                                                         *)
(* A draft is what the report model may return: items that name a notice   *)
(* version (nothing keeps two of them from naming the same one), each with *)
(* citations and claims, each claim with the span hashes it cites.  Texts, *)
(* labels and offsets are left out; the extractor builds spans whose       *)
(* offsets and hash agree with their text.                                 *)
(***************************************************************************)
EXTENDS Integers, Sequences, FiniteSets, SequencesExt

CONSTANTS
    Notices,        \* notice versions
    Hashes,         \* span hashes
    Binding,        \* Binding[h]: notices with a span of that text (state.evidence_by_id)
    Stored,         \* <<notice, hash>> pairs that have a notice_evidence row
    MaxItems,       \* bound: items of a draft
    MaxClaims       \* bound: claims of an item

ASSUME ReviewAssumption ==
    /\ Binding \in [Hashes -> Seq(Notices)]
    /\ Stored \subseteq Notices \X Hashes
    /\ Hashes \cap Nat = {}
    /\ {MaxItems, MaxClaims} \subseteq Nat

VARIABLES
    draft,      \* ReportDraft.items
    phase,      \* where the workflow stands
    judged,     \* judged[i][k]: what the verifier said of claim k of item i
    verdicts,   \* state.claim_verifications
    rows        \* the report's items and claims in the database

reviewVars == <<draft, phase, judged, verdicts, rows>>

Supports  == {"supported", "unsupported", "uncertain"}
NoVerdict == "none"

\* A claim cites one or two spans, without repetition (ReportClaim's validator).
Citings == {c \in SeqOf(Hashes, 2) : c # <<>> /\ IsInjective(c)}
Items == [notice : Notices,
          citations : {<<>>} \cup {<<h>> : h \in Hashes},
          claims : SeqOf(Citings, MaxClaims)]

ClaimIds == {id \in (1..Len(draft)) \X (1..MaxClaims) : id[2] <= Len(draft[id[1]].claims)}

-----------------------------------------------------------------------------
(* validate_claim and validate_report                                      *)

\* The span of that hash which belongs to the item's version, if there is one.
SpanOf(hash, notice) == \E i \in DOMAIN Binding[hash] : Binding[hash][i] = notice

ClaimValid(citing, notice) == \A i \in DOMAIN citing : SpanOf(citing[i], notice)

ReportValid(items) ==
    \A i \in DOMAIN items : \A k \in DOMAIN items[i].claims :
       ClaimValid(items[i].claims[k], items[i].notice)

ReviewInit ==
    /\ \E n \in 1..MaxItems : draft \in [1..n -> Items]
    /\ phase = "validate"
    /\ judged = [id \in ClaimIds |-> NoVerdict]
    /\ verdicts = <<>>
    /\ rows = <<>>

Validate ==
    /\ phase = "validate"
    /\ phase' = IF ReportValid(draft) THEN "verify" ELSE "rejected"
    /\ UNCHANGED <<draft, judged, verdicts, rows>>

-----------------------------------------------------------------------------
(* verify_semantics                                                        *)

Before(a, b) == a[1] < b[1] \/ (a[1] = b[1] /\ a[2] < b[2])

\* The claims are judged in order; `next` is the first one not passed yet.
Unjudged == {id \in ClaimIds : judged[id] = NoVerdict}
NextClaim == CHOOSE id \in Unjudged : \A other \in Unjudged : ~Before(other, id)

(***************************************************************************)
(* The verifier refers to the evidence by the [index] labels of its        *)
(* prompt, 0, 1, ...; _sanitize keeps the references that are citation ids.*)
(***************************************************************************)
Labels(citing) == 0..(Len(citing) - 1)

Sanitize(status, used, conflict, allowed) ==
    [status   |-> status,
     used     |-> used \cap allowed,
     conflict |-> IF status = "unsupported" THEN conflict \cap allowed \cap used ELSE {}]

\* Fault: the ordinal of a verdict counts the verdicts, not the claims.
JudgeCountsVerdicts(status) ==
    /\ phase = "verify" /\ Unjudged # {}
    /\ LET id == NextClaim
           citing == draft[id[1]].claims[id[2]]
           earlier == {n \in DOMAIN verdicts : verdicts[n].notice = draft[id[1]].notice}
       IN /\ judged' = [judged EXCEPT ![id] = status]
          /\ verdicts' = Append(verdicts,
                [notice |-> draft[id[1]].notice, index |-> Cardinality(earlier) + 1,
                 verdict |-> Sanitize(status, Labels(citing), Labels(citing), Range(citing))])
    /\ UNCHANGED <<draft, phase, rows>>

Judge(status) ==
    /\ phase = "verify" /\ Unjudged # {}
    /\ LET id == NextClaim
           citing == draft[id[1]].claims[id[2]]
       IN /\ judged' = [judged EXCEPT ![id] = status]
          /\ verdicts' = Append(verdicts,
                [notice |-> draft[id[1]].notice, index |-> id[2],
                 verdict |-> Sanitize(status, Labels(citing), Labels(citing), Range(citing))])
    /\ UNCHANGED <<draft, phase, rows>>

\* The verifier raised: the claim keeps no verdict and the run goes on.
VerifierFails ==
    /\ phase = "verify" /\ Unjudged # {}
    /\ judged' = [judged EXCEPT ![NextClaim] = "unverified"]
    /\ UNCHANGED <<draft, phase, verdicts, rows>>

Verified ==
    /\ phase = "verify" /\ Unjudged = {}
    /\ phase' = "persist"
    /\ UNCHANGED <<draft, judged, verdicts, rows>>

-----------------------------------------------------------------------------
(* persist_online_report                                                   *)

\* Both indexes are keyed by (notice, ordinal); a later entry replaces an earlier.
VerdictFor(notice, k) ==
    LET hits == {n \in DOMAIN verdicts : verdicts[n].notice = notice /\ verdicts[n].index = k}
    IN IF hits = {} THEN NoVerdict
       ELSE verdicts[CHOOSE n \in hits : \A m \in hits : m <= n].verdict.status

\* Fault: the row is looked up by the hash alone.
ResolvesByHash(hash, notice) == \E n \in Notices : SpanOf(hash, n) /\ <<n, hash>> \in Stored

\* _resolve_evidence: a span of this version in the state, and its row.
Resolves(hash, notice) == SpanOf(hash, notice) /\ <<notice, hash>> \in Stored

Cited(item) == Range(item.citations) \cup UNION {Range(c) : c \in Range(item.claims)}

\* One transaction, so a citation that cannot be resolved leaves no row.
Persist ==
    /\ phase = "persist"
    /\ IF \A i \in DOMAIN draft : \A h \in Cited(draft[i]) : Resolves(h, draft[i].notice)
       THEN /\ rows' = [i \in DOMAIN draft |->
                  [notice |-> draft[i].notice,
                   claims |-> [k \in DOMAIN draft[i].claims |->
                      [cites |-> draft[i].claims[k],
                       support |-> VerdictFor(draft[i].notice, k)]]]]
            /\ phase' = "delivered"
       ELSE phase' = "failed" /\ UNCHANGED rows
    /\ UNCHANGED <<draft, judged, verdicts>>

-----------------------------------------------------------------------------
(* What a reader sees: claim k of item i, by the list it is in             *)

\* _serialize_claims
InReview(support) == support \notin {"supported", NoVerdict}
MainList   == {id \in ClaimIds : ~InReview(rows[id[1]].claims[id[2]].support)}
ReviewList == ClaimIds \ MainList

ReviewNext ==
    \/ Validate
    \/ \E status \in Supports : Judge(status)
    \/ VerifierFails \/ Verified
    \/ Persist

ReviewSpec == ReviewInit /\ [][ReviewNext]_reviewVars

-----------------------------------------------------------------------------
(* Properties                                                              *)

(* The verdicts, the history of judgements and the rows are well formed.   *)
ReviewTypeOK ==
    /\ phase \in {"validate", "verify", "persist", "delivered", "rejected", "failed"}
    /\ \A id \in ClaimIds : judged[id] \in Supports \cup {"unverified", NoVerdict}
    /\ \A n \in DOMAIN verdicts :
          /\ verdicts[n].notice \in Notices /\ verdicts[n].index \in 1..MaxClaims
          /\ verdicts[n].verdict.conflict \subseteq verdicts[n].verdict.used
          /\ verdicts[n].verdict.used \subseteq Hashes
    /\ phase = "delivered" <=> rows # <<>>

(* "Every claim resolves to an immutable evidence span": each citation of  *)
(* a delivered claim has a row for the item's own notice version, not just *)
(* for another version that happens to quote the same text.                *)
ClaimsStandOnEvidence ==
    \A i \in DOMAIN rows : \A k \in DOMAIN rows[i].claims :
       \A h \in Range(rows[i].claims[k].cites) :
          /\ \E b \in DOMAIN Binding[h] : Binding[h][b] = rows[i].notice
          /\ <<rows[i].notice, h>> \in Stored

\* The claims that the key of the two indexes does not tell from claim id.
Namesakes(id) ==
    {c \in ClaimIds : draft[c[1]].notice = draft[id[1]].notice /\ c[2] = id[2]}

(* A claim is held back exactly if the last verdict that a claim of its    *)
(* notice and ordinal got is unsupported or uncertain: verifier failures   *)
(* shift no verdict to another ordinal, and a claim that shares its key    *)
(* with no other is listed by the verdict on itself.                       *)
MainListFollowsVerdicts ==
    phase = "delivered" => \A id \in ClaimIds :
       id \in ReviewList <=>
          \E c \in Namesakes(id) :
             /\ judged[c] \in {"unsupported", "uncertain"}
             /\ \A d \in Namesakes(id) : judged[d] \in Supports => ~Before(c, d)

(* "attach each verdict to exactly the right claim row": the support that  *)
(* is stored with a claim is the verdict on that very claim.               *)
VerdictOnOwnClaim ==
    phase = "delivered" => \A id \in ClaimIds :
       judged[id] \in Supports => rows[id[1]].claims[id[2]].support = judged[id]
=============================================================================
