---------------------------- MODULE MaskSelection ----------------------------
(***************************************************************************)
(* Loss masks of train/torch_loss_budget.py.  A batched Boolean mask is    *)
(* the set of its true positions <<row, token>>; the metadata of a batch   *)
(* is the sequence of row keys <<sample id, generation index>>, sample ids *)
(* being numbered in their string order.                                   *)
(***************************************************************************)
EXTENDS Integers, FiniteSets, Sequences

KeyBefore(k, l) == k[1] < l[1] \/ (k[1] = l[1] /\ k[2] < l[2])

\* _stable_row_order, then the token index: the canonical order of positions.
Precedes(keys, p, q) ==
    \/ KeyBefore(keys[p[1]], keys[q[1]])
    \/ p[1] = q[1] /\ p[2] < q[2]

\* The mask of completions whose rows have these lengths: token t of a row is its
\* t-th completion position, up to the first EOS or the cap.
CompletionMask(lengths) == UNION {{r} \X (1..lengths[r]) : r \in DOMAIN lengths}

\* Slip: rows in batch order.
BatchOrderPrefix(candidate, keys, n) ==
    {p \in candidate :
        Cardinality({q \in candidate : q[1] < p[1] \/ (q[1] = p[1] /\ q[2] < p[2])}) < n}

\* Slip: cumsum().lt instead of le.
CanonicalPrefixShort(candidate, keys, n) ==
    {p \in candidate : Cardinality({q \in candidate : Precedes(keys, q, p)}) < n - 1}

\* _select_canonical_prefix: the first n candidates in canonical order.
CanonicalPrefix(candidate, keys, n) ==
    {p \in candidate : Cardinality({q \in candidate : Precedes(keys, q, p)}) < n}

\* torch_exclude_zero_variance_grpo_groups: the rows of the groups whose
\* rewards are not all equal.
ActiveRows(groups, rewards) ==
    {r \in DOMAIN groups :
        \E s \in DOMAIN groups : groups[s] = groups[r] /\ rewards[s] # rewards[r]}

\* The rows of a microbatch: the k-th slice of width rows of the batch.
Slice(k, width, rows) == {r \in 1..rows : (k - 1) * width < r /\ r <= k * width}

OfRows(mask, rows) == {p \in mask : p[1] \in rows}

Keyed(mask, keys) == {<<keys[p[1]], p[2]>> : p \in mask}

\* _selection_content_digest: the SHA-256 of the rows' keys and of both masks in
\* canonical row order, modelled as what it hashes.
ContentDigest(candidate, mask, keys) ==
    [keys      |-> {keys[r] : r \in DOMAIN keys},
     candidate |-> Keyed(candidate, keys),
     mask      |-> Keyed(mask, keys)]

=============================================================================
