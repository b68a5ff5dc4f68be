------------------------------ MODULE MCBudget ------------------------------
(* BudgetTransactions on small sets: the mask digests are interchangeable. *)
EXTENDS BudgetTransactions, TLC

DigestSymmetry == Permutations(Digests)

=============================================================================
