----------------------------- MODULE DataRecords -----------------------------
(***************************************************************************)
(* Record sets of data/registry.py: source and transform registries,       *)
(* lineage with its external-parent ledger, families, and the grouping of  *)
(* root records into family components that are split together.            *)
(*                                                                         *)
(* A record is [id, split, source, revision, families, content, transform, *)
(* parents]: parents are [id, digest], families a name by dimension.  A    *)
(* payload digest is represented by the record it hashes, the content      *)
(* digest by the content.  Identifiers are numbers, so that they sort.     *)
(***************************************************************************)
EXTENDS Naturals, Sequences, FiniteSets, SequencesExt

CONSTANTS
    Permits,     \* the uses a source permits: a subset of {"train", "evaluate"}
    Revision,    \* the revision of a source frozen in the registry
    Transforms   \* the transforms frozen in the transform registry

DIMENSIONS == <<"source", "problem", "template">>

TRAINING_SPLITS == {"anchor", "core", "select", "teacher_gate", "dev"}

\* The use a split makes of a source; none while there is no split.
Uses(split) ==
    IF split = "unassigned" THEN {} ELSE IF split = "evaluation" THEN {"evaluate"} ELSE {"train"}

\* SourceRegistry.assert_usage.
UsageHolds(record) ==
    /\ record.source \in DOMAIN Permits
    /\ Uses(record.split) \subseteq Permits[record.source]

\* TransformLineage.__post_init__ and TransformRegistry.assert_lineage.
TransformHolds(record) ==
    /\ record.transform \in Transforms
    /\ (record.transform = "ingest") = (record.parents = {})
    /\ \A p, q \in record.parents : p.id = q.id => p = q

UniqueIds(records) == \A r, s \in records : r.id = s.id => r = s

\* A ledger holds entries for records that are elsewhere.
Entry(record) == [id |-> record.id, split |-> record.split, digest |-> record]

\* _validate_lineage, its depth-first search: there is no cycle when every set
\* of records has one with no parent among them.
Acyclic(records) ==
    \A S \in SUBSET records \ {{}} :
        {r \in S : \A p \in r.parents, s \in S : p.id # s.id} # {}

\* Slip: a parent that was neither loaded nor listed is let through.
LineageHoldsForKnown(records, ledger) ==
    /\ \A r \in records, e \in ledger : r.id # e.id
    /\ Acyclic(records)
    /\ \A r \in records : \A p \in r.parents :
          \A e \in ledger \cup {Entry(s) : s \in records} :
             e.id = p.id => e.digest = p.digest /\ e.split = r.split

\* _validate_lineage: each parent is in the set, or else in the ledger, with
\* the payload its child was derived from and the split of its child.
LineageHolds(records, ledger) ==
    /\ \A r \in records, e \in ledger : r.id # e.id
    /\ Acyclic(records)
    /\ \A r \in records : \A p \in r.parents :
          [id |-> p.id, split |-> r.split, digest |-> p.digest]
              \in ledger \cup {Entry(s) : s \in records}

\* Records that share a family.
Linked(r, s) == \E d \in DOMAIN r.families : r.families[d] = s.families[d]

\* Slip: one dimension is compared.
FamilyDisjointByProblem(records) ==
    \A r, s \in records : r.families["problem"] = s.families["problem"] => r.split = s.split

\* assert_family_disjoint.
FamilyDisjoint(records) == \A r, s \in records : Linked(r, s) => r.split = s.split

\* validate_record_set.
RecordSetHolds(records, ledger) ==
    /\ records # {}
    /\ UniqueIds(records)
    /\ \A r \in records :
          /\ r.split # "unassigned"
          /\ TransformHolds(r)
          /\ UsageHolds(r)
          /\ r.revision = Revision[r.source]
    /\ \A r, s \in records : r.content = s.content => r = s
    /\ LineageHolds(records, ledger)
    /\ FamilyDisjoint(records)

-----------------------------------------------------------------------------
\* assign_family_disjoint_splits takes root records with no split.
CandidatesHold(records) ==
    /\ records # {}
    /\ UniqueIds(records)
    /\ \A r \in records : r.split = "unassigned" /\ r.parents = {}

\* _DisjointSet.find, without the shortening of paths, which changes no root.
Root(parent, id) ==
    LET up[x \in DOMAIN parent] == IF parent[x] = x THEN x ELSE up[parent[x]]
    IN  up[id]

\* _DisjointSet.union: the larger root is put below the smaller.
Union(parent, left, right) ==
    LET a == Root(parent, left)
        b == Root(parent, right)
    IN  [parent EXCEPT ![IF a < b THEN b ELSE a] = IF a < b THEN a ELSE b]

\* family_owner: the first to claim the family of a claim.
Owner(claims, k) ==
    LET sameFamily(j) == /\ claims[j].dimension = claims[k].dimension
                         /\ claims[j].family = claims[k].family
    IN  claims[CHOOSE j \in 1..k : sameFamily(j) /\ \A i \in 1..(j - 1) : ~ sameFamily(i)].id

\* The record at a place in the order of the ids.
Ranked(records, place) ==
    CHOOSE r \in records : Cardinality({s \in records : s.id <= r.id}) = place

\* The families of the records, record by record in the order of their ids.
Claims(records) ==
    LET claim(r, d) == [id |-> r.id, dimension |-> d, family |-> r.families[d]] IN
    FlattenSeq([i \in 1..Cardinality(records) |->
        [k \in DOMAIN DIMENSIONS |-> claim(Ranked(records, i), DIMENSIONS[k])]])

\* Slip: the record is hung below the owner, whatever it hung below before.
ForestHangingLast(records) ==
    LET claims == Claims(records)
        join(parent, k) ==
            [parent EXCEPT ![claims[k].id] = Root(parent, Owner(claims, k))]
    IN  FoldLeft(join, [id \in {r.id : r \in records} |-> id], [k \in DOMAIN claims |-> k])

\* The union-find forest: each claim of a family joins its first claimant.
Forest(records) ==
    LET claims == Claims(records)
        join(parent, k) == Union(parent, Owner(claims, k), claims[k].id)
    IN  FoldLeft(join, [id \in {r.id : r \in records} |-> id], [k \in DOMAIN claims |-> k])

\* The records by their root.
Components(records) ==
    LET parent == Forest(records) IN
    {{s \in records : Root(parent, s.id) = Root(parent, r.id)} : r \in records}

\* Each component in the bucket of its digest: any split of the policy.
Assigned(components, bucket) ==
    UNION {{[r EXCEPT !.split = bucket[c]] : r \in c} : c \in components}

==============================================================================
