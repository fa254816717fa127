---------------------------- MODULE AtomicIndex ----------------------------
(***************************************************************************)
(* What the evidence index promises its callers, with no file, no lock and *)
(* no cache: append_if_absent answers at one instant, against the index of *)
(* that instant, and a rewrite replaces the whole index at one instant.    *)
(* IndexStore implements this module (see its Promise instance).           *)
(***************************************************************************)
CONSTANTS
    Requests,       \* append_if_absent calls, each carrying one IndexEntry
    Digests,        \* canonical sha256 values
    ShaOf           \* [Requests -> Digests], the digest of each entry

VARIABLES
    log,            \* the entries a reader of index.jsonl finds
    verdict         \* what each call has decided

avars == <<log, verdict>>

ShasIn(entries) == { ShaOf[e] : e \in entries }

\* No digest occurs in two of the entries.
DistinctShas(entries) ==
    \A d, e \in entries : ShaOf[d] = ShaOf[e] => d = e

AInit ==
    /\ log = {}
    /\ verdict = [r \in Requests |-> "pending"]

\* Ok(true): the digest was absent and the entry is now in the index.
Insert(r) ==
    /\ verdict[r] = "pending"
    /\ ShaOf[r] \notin ShasIn(log)
    /\ log' = log \cup {r}
    /\ verdict' = [verdict EXCEPT ![r] = "appended"]

\* Ok(false): the digest was present and nothing changes.
Skip(r) ==
    /\ verdict[r] = "pending"
    /\ ShaOf[r] \in ShasIn(log)
    /\ verdict' = [verdict EXCEPT ![r] = "duplicate"]
    /\ UNCHANGED log

\* rewrite(entries): any duplicate-free set of entries that were inserted.
Replace ==
    \E kept \in SUBSET { r \in Requests : verdict[r] = "appended" } :
        /\ DistinctShas(kept)
        /\ log' = kept
        /\ UNCHANGED verdict

ANext ==
    \/ \E r \in Requests : Insert(r) \/ Skip(r)
    \/ Replace

ASpec == AInit /\ [][ANext]_avars
=============================================================================
