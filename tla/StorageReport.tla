---------------------------- MODULE StorageReport -----------------------------
(***************************************************************************)
(* The storage crate's own reading of the index: which entries retention   *)
(* gives up, and the Phase 1 readiness of its support bundle, judged by    *)
(* entry statuses, ages and sidecars alone.  Entries of different kinds    *)
(* never meet in either, so an index is read kind by kind: index[kind] is  *)
(* the sequence of its entries in the order they were ingested, the newest *)
(* last; no two of a kind were ingested at the same moment.                *)
(***************************************************************************)
EXTENDS Naturals, FiniteSets, Sequences, SequencesExt, Subsequences

\* entry_kind: AI task boards and Windows progress map to no kind, so retention
\* and reports pass them over.
PrunableKinds ==
    {"codex", "claude", "antigravity", "bundle", "evidence", "watchdog", "memory", "packet",
     "checklist", "decision", "inputs", "readiness", "registry", "evaluator", "publication", "smoke"}

UnprunableKinds == {"board", "progress"}

Nothing == [kind |-> "none"]

\* The latest entry of a kind.
LatestEntry(index, kind) == IF index[kind] = <<>> THEN Nothing ELSE Last(index[kind])

-----------------------------------------------------------------------------
(* Retention.                                                              *)

\* Mutant: the entries are sorted oldest first before keep_latest are skipped.
CandidatesOldestKept(index, keepLatest) ==
    UNION { { index[k][i].doc : i \in keepLatest + 1 .. Len(index[k]) } : k \in PrunableKinds }

\* Of every prunable kind all entries but the keep_latest newest.
RetentionCandidates(index, keepLatest) ==
    UNION { { index[k][i].doc : i \in 1 .. Len(index[k]) - keepLatest } : k \in PrunableKinds }

\* The entries of other documents, in their order.
Without(entries, docs) ==
    ElementsAt(entries, { i \in DOMAIN entries : entries[i].doc \notin docs })

\* The index without them, as it was read.
RetainedEntries(index, keepLatest) ==
    [k \in DOMAIN index |-> Without(index[k], RetentionCandidates(index, keepLatest))]

-----------------------------------------------------------------------------
(* The Phase 1 readiness of the support bundle.                            *)

RequiredArtifacts ==
    {"readiness", "codex", "claude", "checklist", "decision", "smoke", "publication", "evaluator"}

\* PHASE1_RELEASE_FRESHNESS_SECONDS applies to all but these.
Ageless == {"checklist", "decision"}

\* A status that contains one of these words; "signed" contains none of them.
BlockingStatuses == {"failed", "error", "rejected", "blocked"}

\* The gap an artifact leaves, the first of the three that applies.
ArtifactGap(index, kind, stale) ==
    LET entry == LatestEntry(index, kind) IN
    IF entry = Nothing THEN {[id |-> kind, gap |-> "missing_artifact"]}
    ELSE IF kind \notin Ageless /\ entry.doc \in stale THEN {[id |-> kind, gap |-> "stale_artifact"]}
    ELSE IF entry.status \in BlockingStatuses THEN {[id |-> kind, gap |-> "failed_status"]}
    ELSE {}

\* enforce_required_signed_artifact_sidecars: readiness must be authoritative
\* where it is signed, the two decisions must be signed; nobody asks by whom.
SignatureGap(index, sidecar, kind) ==
    LET entry == LatestEntry(index, kind)
        gap(g) == {[id |-> kind, gap |-> g]} IN
    IF entry = Nothing THEN {}
    ELSE IF sidecar[entry.doc] = Nothing
         THEN IF kind = "readiness" THEN {} ELSE gap("missing_signature")
    ELSE IF ~sidecar[entry.doc].verified THEN gap("unverified_signature")
    ELSE IF kind = "readiness" /\ ~sidecar[entry.doc].authoritative
         THEN gap("untrusted_signature") ELSE {}

\* stale: the documents older than the freshness window.  No gap is reported
\* twice.
StorageGaps(index, sidecar, stale) ==
    (UNION { ArtifactGap(index, kind, stale) : kind \in RequiredArtifacts })
    \cup SignatureGap(index, sidecar, "readiness")
    \cup SignatureGap(index, sidecar, "decision")
    \cup SignatureGap(index, sidecar, "evaluator")

\* readiness_status
StorageReady(index, sidecar, stale) == StorageGaps(index, sidecar, stale) = {}

\* support_bundle_gap_summary
GapCount(gaps, kind) == Cardinality({ g \in gaps : g.gap = kind })
=============================================================================
