------------------------------- MODULE MCBundle -------------------------------
(***************************************************************************)
(* A small directory: three batches, two of which have the same records,   *)
(* as a greedy run that is repeated has.                                   *)
(***************************************************************************)
EXTENDS BundleStore

CONSTANTS first, again, other, same, different

SmallRecords == [b \in Batches |-> IF b = other THEN different ELSE same]

===============================================================================
