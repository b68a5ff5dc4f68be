-------------------------- MODULE LossTokenBudget --------------------------
(***************************************************************************)
(* The values and the pure operations of train/loss_budget.py: a counter   *)
(* of Student loss tokens with a target, immutable reservations tied to    *)
(* one state of the counter, and the record a commit returns.  The state   *)
(* machines BudgetTransactions (callers of the counter in any order) and   *)
(* Trainer (the one caller of the repository) are built from them.         *)
(***************************************************************************)
EXTENDS Integers

Lesser(m, n) == IF m <= n THEN m ELSE n

\* LossTokenBudget(target_tokens): nothing consumed, version 0.
NewBudget(target) == [target |-> target, consumed |-> 0, version |-> 0]

Remaining(b) == b.target - b.consumed

Complete(b) == Remaining(b) = 0

\* SHA-256 of the canonical payload, modelled as the payload: equal ids are
\* equal payloads (collision freedom is the one assumption made of the hash).
ReservationDigest(b, candidate, selected, digest) ==
    [target |-> b.target, consumed |-> b.consumed, version |-> b.version,
     candidate |-> candidate, selected |-> selected, digest |-> digest]

Reserve(b, candidate, digest) ==
    LET selected == Lesser(candidate, Remaining(b)) IN
        [candidate      |-> candidate,
         selected       |-> selected,
         consumedBefore |-> b.consumed,
         target         |-> b.target,
         version        |-> b.version,
         digest         |-> digest,
         selectionId    |-> ReservationDigest(b, candidate, selected, digest)]

\* Slip: the staleness tests are dropped, from the id too.
ValidIgnoringState(b, r) ==
    /\ r.target = b.target
    /\ r.selected = Lesser(r.candidate, Remaining(b))
    /\ r.selectionId = [ReservationDigest(b, r.candidate, r.selected, r.digest)
                           EXCEPT !.version = r.version, !.consumed = r.consumedBefore]

\* Slip: the prefix and the id are not recomputed.
ValidBelievingCaller(b, r) ==
    /\ r.target = b.target
    /\ r.consumedBefore = b.consumed
    /\ r.version = b.version

\* Slip: neither the target nor that of the id is compared.
ValidOfAnyTarget(b, r) ==
    /\ r.consumedBefore = b.consumed
    /\ r.version = b.version
    /\ r.selected = Lesser(r.candidate, Remaining(b))
    /\ r.selectionId = [ReservationDigest(b, r.candidate, r.selected, r.digest)
                           EXCEPT !.target = r.target]

\* _validate_reservation: commit accepts r in state b.
Valid(b, r) ==
    /\ r.target = b.target
    /\ r.consumedBefore = b.consumed
    /\ r.version = b.version
    /\ r.selected = Lesser(r.candidate, Remaining(b))
    /\ r.selectionId = ReservationDigest(b, r.candidate, r.selected, r.digest)

\* Slip: the version advances only when the stage closes.
ChargeKeepingVersion(b, r) ==
    [b EXCEPT !.consumed = @ + r.selected,
              !.version  = IF b.consumed + r.selected = b.target THEN @ + 1 ELSE @]

\* The executed branch of commit.
Charge(b, r) ==
    [target   |-> b.target,
     consumed |-> b.consumed + r.selected,
     version  |-> b.version + 1]

\* The BudgetStepRecord commit returns; after is the counter it leaves.
StepRecord(r, executed, after) ==
    [selectionId    |-> r.selectionId,
     executed       |-> executed,
     counted        |-> IF executed THEN r.selected ELSE 0,
     consumedBefore |-> r.consumedBefore,
     consumedAfter  |-> after.consumed,
     versionAfter   |-> after.version]

Budgets ==
    {b \in [target : Nat, consumed : Nat, version : Nat] :
        b.target > 0 /\ b.consumed <= b.target}

=============================================================================
