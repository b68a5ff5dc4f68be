------------------------------ MODULE MCTrainer ------------------------------
(* The Trainer on two examples whose dataset order is not their id order.  *)
EXTENDS Trainer

MCSampleIds == <<2, 1>>
MCRefLength == [id \in {1, 2} |-> id]

=============================================================================
