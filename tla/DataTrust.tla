------------------------------- MODULE DataTrust -------------------------------
(***************************************************************************)
(* From candidate records to a manifest (data/audit.py and the functions   *)
(* of data/registry.py and data/contamination.py it calls): families are   *)
(* split, callers derive records of the assigned ones, both sides are      *)
(* validated and scanned against each other, contaminated families are     *)
(* quarantined, and what is left is validated and scanned again before it  *)
(* is frozen.  A caller may also hand records of its own to                *)
(* build_data_manifest, whose checks are then the only ones.               *)
(***************************************************************************)
EXTENDS DataRecords, Contamination

CONSTANTS
    Candidates,        \* sets of candidate records
    Evaluations,       \* sets of evaluation records
    Ledgers,           \* external-parent ledgers
    Policies,          \* contamination policies
    Allocated,         \* the splits of the split policy
    Derivable(_),      \* records callers may derive, given the training records
    MaxDerived         \* bounds how many they derive

\* DataRecord.__post_init__, as far as the model reads a record.
RecordHolds(r) ==
    /\ DOMAIN r = {"id", "split", "source", "revision", "families", "content",
                   "transform", "parents"}
    /\ r.id \in Nat
    /\ DOMAIN r.families = ToSet(DIMENSIONS)
    /\ ContentHolds(r.content)

ASSUME InputsAssumption ==
    \A records \in Candidates \cup Evaluations :
        IsFiniteSet(records) /\ \A r \in records : RecordHolds(r)

VARIABLES
    phase,        \* "candidates", "assigned", "validated", "quarantining", "kept",
                  \* "frozen" or "refused"
    evaluation, ledger, policy,  \* loaded once
    training,     \* the records on the training side
    components,   \* the family components that were assigned
    derived,      \* how many records callers derived
    matches,      \* the matches of the first scan
    queue,        \* quarantined_family_ids: records whose families are still to follow
    quarantined,  \* the records found so far
    manifest      \* the records of the frozen manifest

vars == <<phase, evaluation, ledger, policy, training, components, derived,
          matches, queue, quarantined, manifest>>
loaded == <<evaluation, ledger, policy>>
scanned == <<matches, queue, quarantined>>

Init ==
    /\ phase = "candidates"
    /\ training \in Candidates
    /\ evaluation \in Evaluations
    /\ ledger \in Ledgers
    /\ policy \in {p \in Policies : PolicyHolds(p)}
    /\ components = {}
    /\ derived = 0
    /\ matches = {}
    /\ queue = {}
    /\ quarantined = {}
    /\ manifest = {}

Refuse ==
    /\ phase' = "refused"
    /\ UNCHANGED <<loaded, training, components, derived, scanned, manifest>>

\* assign_family_disjoint_splits, whose own assertion comes last.
Assign ==
    /\ phase = "candidates"
    /\ CandidatesHold(training)
    /\ components' = Components(training)
    /\ \E bucket \in [components' -> Allocated] :
          training' = Assigned(components', bucket)
    /\ phase' = IF FamilyDisjoint(training') THEN "assigned" ELSE "refused"
    /\ UNCHANGED <<loaded, derived, scanned, manifest>>

RefuseCandidates ==
    /\ phase = "candidates"
    /\ ~ CandidatesHold(training)
    /\ Refuse

\* A caller derives a record; children are derived after the split.
Derive ==
    /\ phase = "assigned"
    /\ derived < MaxDerived
    /\ \E child \in Derivable(training) :
          /\ RecordHolds(child)
          /\ training' = training \cup {child}
    /\ derived' = derived + 1
    /\ UNCHANGED <<phase, loaded, components, scanned, manifest>>

InputsHold ==
    /\ RecordSetHolds(training, ledger)
    /\ RecordSetHolds(evaluation, ledger)
    /\ ScanHolds(training, evaluation, TRAINING_SPLITS)

\* The two sides are validated and scanned; the training records that match
\* are the first in quarantine.
ScanDirty ==
    /\ phase = "assigned"
    /\ InputsHold
    /\ matches' = Scan(training, evaluation, policy)
    /\ queue' = {r \in training : \E m \in matches' : m.train = r.id}
    /\ quarantined' = queue'
    /\ phase' = "quarantining"
    /\ UNCHANGED <<loaded, training, components, derived, manifest>>

RefuseInputs ==
    /\ phase = "assigned"
    /\ ~ InputsHold
    /\ Refuse

\* Slip: relatives are quarantined, not their own relatives.
FollowOnce ==
    /\ phase = "quarantining"
    /\ \E r \in queue :
          /\ queue' = queue \ {r}
          /\ quarantined' = quarantined \cup {s \in training : Linked(r, s)}
    /\ UNCHANGED <<phase, loaded, training, components, derived, matches, manifest>>

\* quarantined_family_ids: the relatives of a record join the quarantine and,
\* when they are new to it, the queue.
Follow ==
    /\ phase = "quarantining"
    /\ \E r \in queue :
          LET relatives == {s \in training : Linked(r, s)} \ quarantined IN
          /\ queue' = (queue \ {r}) \cup relatives
          /\ quarantined' = quarantined \cup relatives
    /\ UNCHANGED <<phase, loaded, training, components, derived, matches, manifest>>

Kept == training \ quarantined

\* quarantine_contaminated_families keeps the rest, and the rescan is clean.
Keep ==
    /\ phase = "quarantining"
    /\ queue = {}
    /\ Kept # {}
    /\ Scan(Kept, evaluation, policy) = {}
    /\ phase' = "kept"
    /\ UNCHANGED <<loaded, training, components, derived, scanned, manifest>>

RefuseKept ==
    /\ phase = "quarantining"
    /\ queue = {}
    /\ Kept = {} \/ Scan(Kept, evaluation, policy) # {}
    /\ Refuse

\* build_data_manifest of some records.
ManifestHolds(records) ==
    LET sideOf(splits) == {r \in records : r.split \in splits} IN
    /\ \A r \in records : r.split \in TRAINING_SPLITS \cup {"evaluation"}
    /\ ScanHolds(sideOf(TRAINING_SPLITS), sideOf({"evaluation"}), TRAINING_SPLITS)
    /\ Scan(sideOf(TRAINING_SPLITS), sideOf({"evaluation"}), policy) = {}
    /\ RecordSetHolds(records, ledger)

Freeze(records) ==
    /\ ManifestHolds(records)
    /\ manifest' = records
    /\ phase' = "frozen"
    /\ UNCHANGED <<loaded, training, components, derived, scanned>>

\* The audit freezes what it kept, beside the evaluation records.
FreezeKept == phase = "kept" /\ Freeze(Kept \cup evaluation)

RefuseManifest ==
    /\ phase = "kept"
    /\ ~ ManifestHolds(Kept \cup evaluation)
    /\ Refuse

\* A caller freezes records of its own.
FreezeDirectly == phase = "candidates" /\ Freeze(training \cup evaluation)

Next ==
    \/ Assign \/ RefuseCandidates
    \/ Derive
    \/ ScanDirty \/ RefuseInputs
    \/ Follow
    \/ Keep \/ RefuseKept
    \/ FreezeKept \/ RefuseManifest
    \/ FreezeDirectly

Spec == Init /\ [][Next]_vars

-----------------------------------------------------------------------------

\* The records connected to some of a set's, through any number of links.
Reach(seeds, records, Link(_, _)) ==
    {r \in records :
        \A C \in SUBSET records :
            /\ seeds \subseteq C
            /\ \A x \in C, y \in records : Link(x, y) => y \in C
            => r \in C}

\* The union-find forest finds the family components: each is what its members
\* reach through shared families, in any dimension and over any number of
\* records; and none of them is left without one split for all its members.
ComponentsAreWhole ==
    /\ \A c \in components : \A r \in c : c = Reach({r}, UNION components, Linked)
    /\ phase = "assigned" =>
          \A c \in components :
              \E split \in Allocated : \A r \in c : [r EXCEPT !.split = split] \in training

\* Retrieval through the indices misses no pair above a threshold: the report
\* has exactly the pairs of records some of whose fragments match
\* (docs/data/DATA_REGISTRY_AND_CONTAMINATION.md, Exact/fuzzy contamination).
ScanIsComplete ==
    phase = "quarantining" =>
        \A t \in training, e \in evaluation :
            (\E m \in matches : m.train = t.id /\ m.eval = e.id) =
                (\E f \in Fragments(t.content, policy), g \in Fragments(e.content, policy) :
                    Classify(f, g, policy) # "none")

\* Once the queue is empty the quarantine is exactly the families of the
\* matched records, followed through any number of links, and what is left
\* matches nothing.
QuarantineIsWhole ==
    phase = "quarantining" /\ queue = {} =>
        /\ quarantined = Reach({r \in training : \E m \in matches : m.train = r.id},
                               training, Linked)
        /\ Scan(Kept, evaluation, policy) = {}

\* Derived from, or of the same family as.
Kin(r, s) ==
    \/ Linked(r, s)
    \/ \E p \in r.parents : p.id = s.id
    \/ \E p \in s.parents : p.id = r.id

\* Whatever families and descent connect, through any number of records, is in
\* one split.
KinStayTogether ==
    \A r \in manifest : \A s \in Reach({r}, manifest, Kin) : s.split = r.split

\* No text of a training record matches one of an evaluation record.
TextsStayApart ==
    \A r, s \in manifest :
        r.split # "evaluation" /\ s.split = "evaluation" =>
            \A f \in Fragments(r.content, policy), g \in Fragments(s.content, policy) :
                Classify(f, g, policy) = "none"

\* In a manifest, whoever built it, nothing connects two splits: neither shared
\* families nor descent nor texts.
ManifestIsSeparated == KinStayTogether /\ TextsStayApart

\* No record of a manifest descends from one that was quarantined, even if it
\* is of another family and its text matches nothing: its parent is gone, and
\* the ledger that served the first validation cannot stand in for it.
NothingDerivedFromQuarantined ==
    phase = "frozen" =>
        \A r \in manifest : \A p \in r.parents, q \in quarantined : p.id # q.id

==============================================================================
