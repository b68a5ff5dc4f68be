---------------------------- MODULE BudgetRestore ----------------------------
(***************************************************************************)
(* BudgetTransactions observed across restores: a history variable keeps   *)
(* the selection ids that were ever charged, by whichever lineage of the   *)
(* counter.  It states what docs/algorithms/LOSS_TOKEN_BUDGET.md:60 says   *)
(* of old reservations and is checked to be refuted.                       *)
(***************************************************************************)
EXTENDS BudgetTransactions

VARIABLE everCharged

HistoryInit == Init /\ everCharged = {}

\* Every id the ledger now shows as executed has been charged.
HistoryNext ==
    /\ Next
    /\ everCharged' = everCharged \cup
           {ledger'[i].selectionId : i \in {j \in 1..Len(ledger') : ledger'[j].executed}}

HistorySpec == HistoryInit /\ [][HistoryNext]_<<vars, everCharged>>

\* docs/algorithms/LOSS_TOKEN_BUDGET.md:60: an old reservation "cannot be
\* committed again" after a successful update or a checkpoint restore.  Taken
\* over all lineages: no commit charges an id that was charged before.
OldReservationStaysDead ==
    [][ Len(ledger') = Len(ledger) + 1 /\ ledger'[Len(ledger')].executed
          => ledger'[Len(ledger')].selectionId \notin everCharged ]_<<vars, everCharged>>

=============================================================================
