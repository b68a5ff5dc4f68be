---------------------------- MODULE MCProvenance ----------------------------
(***************************************************************************)
(* Two inputs, one of which the data audit reads early, and a source file, *)
(* each in two versions; two commits that differ in all of them and one    *)
(* that differs in one.                                                    *)
(***************************************************************************)
EXTENDS AuditProvenance

MCRevisions ==
    {[f \in Files |-> 1], [f \in Files |-> 2], [f \in Files |-> IF f = "cases" THEN 2 ELSE 1]}

==============================================================================
