------------------------- MODULE BudgetTransactions -------------------------
(***************************************************************************)
(* One LossTokenBudget counter and everybody who may call it, in any       *)
(* order: several reservations planned from the same or from different     *)
(* states, or by the new counter of another target, are held at once, some *)
(* altered by the caller with dataclasses.replace; each is committed as executed, as skipped, again   *)
(* and again, or never; and the counter's state_dict is saved and restored *)
(* in the middle of all this.                                              *)
(***************************************************************************)
EXTENDS LossTokenBudget, Sequences, FiniteSets

CONSTANTS
    Targets,      \* the stage budgets a counter is created with
    Candidates,   \* the candidate-token counts of the planned updates
    Digests,      \* the mask digests of the planned updates
    MaxHeld,      \* bound: reservations held by callers at once
    MaxRecords,   \* bound: commits logged per counter
    NoState       \* no state_dict has been saved

ASSUME TargetsAssumption == Targets \subseteq Nat \ {0}
ASSUME CandidatesAssumption == Candidates \subseteq Nat
ASSUME BoundsAssumption == MaxHeld \in Nat /\ MaxRecords \in Nat

VARIABLES
    budget,    \* the counter
    held,      \* the reservations the callers hold, altered ones included
    ledger,    \* the BudgetStepRecords of this counter, in order
    saved      \* the last state_dict, with the ledger written beside it

vars == <<budget, held, ledger, saved>>

Init ==
    /\ \E t \in Targets : budget = NewBudget(t)
    /\ held = {}
    /\ ledger = <<>>
    /\ saved = NoState

Plan(candidate, digest) ==
    /\ Cardinality(held) < MaxHeld
    /\ held' = held \cup {Reserve(budget, candidate, digest)}
    /\ UNCHANGED <<budget, ledger, saved>>

\* Another counter plans, new and with a target of its own.
PlanElsewhere(t, candidate, digest) ==
    /\ t # budget.target
    /\ Cardinality(held) < MaxHeld
    /\ held' = held \cup {Reserve(NewBudget(t), candidate, digest)}
    /\ UNCHANGED <<budget, ledger, saved>>

\* dataclasses.replace(reservation, ...): the id is the one of the original.
Alter(r, selected, digest) ==
    /\ Cardinality(held) < MaxHeld
    /\ held' = held \cup {[r EXCEPT !.selected = selected, !.digest = digest]}
    /\ UNCHANGED <<budget, ledger, saved>>

\* commit(..., optimizer_step_executed=True).
CommitExecuted(r) ==
    /\ Len(ledger) < MaxRecords
    /\ Valid(budget, r)
    /\ r.selected > 0
    /\ budget' = Charge(budget, r)
    /\ ledger' = Append(ledger, StepRecord(r, TRUE, budget'))
    /\ UNCHANGED <<held, saved>>

\* Slip: a skipped attempt advances the version too.
CommitSkippedAdvancing(r) ==
    /\ Len(ledger) < MaxRecords
    /\ Valid(budget, r)
    /\ budget' = [budget EXCEPT !.version = @ + 1]
    /\ ledger' = Append(ledger, StepRecord(r, FALSE, budget'))
    /\ UNCHANGED <<held, saved>>

\* commit(..., optimizer_step_executed=False).
CommitSkipped(r) ==
    /\ Len(ledger) < MaxRecords
    /\ Valid(budget, r)
    /\ ledger' = Append(ledger, StepRecord(r, FALSE, budget))
    /\ UNCHANGED <<budget, held, saved>>

\* commit raises BudgetStateError before it assigns anything.
CommitRefused(r) ==
    /\ ~ Valid(budget, r) \/ r.selected = 0
    /\ UNCHANGED vars

\* A caller gives a reservation up.
Drop(r) ==
    /\ held' = held \ {r}
    /\ UNCHANGED <<budget, ledger, saved>>

SaveState ==
    /\ saved' = [budget |-> budget, ledger |-> ledger]
    /\ UNCHANGED <<budget, held, ledger>>

\* from_state_dict: a new counter object; what callers hold is theirs.
RestoreState ==
    /\ saved # NoState
    /\ budget' = saved.budget
    /\ ledger' = saved.ledger
    /\ UNCHANGED <<held, saved>>

Next ==
    \/ \E c \in Candidates, d \in Digests : Plan(c, d)
    \/ \E t \in Targets, c \in Candidates, d \in Digests : PlanElsewhere(t, c, d)
    \/ \E r \in held, c \in Candidates, d \in Digests : Alter(r, c, d)
    \/ \E r \in held : CommitExecuted(r)
    \/ \E r \in held : CommitSkipped(r)
    \/ \E r \in held : CommitRefused(r)
    \/ \E r \in held : Drop(r)
    \/ SaveState
    \/ RestoreState

Spec == Init /\ [][Next]_vars

-----------------------------------------------------------------------------
(* The type invariant: the counter is within its target, and the ledger is *)
(* a sequence of step records.                                             *)
SelectionIds ==
    [target : Nat, consumed : Nat, version : Nat, candidate : Nat,
     selected : Nat, digest : Digests]

Reservations ==
    [candidate : Nat, selected : Nat, consumedBefore : Nat, target : Nat,
     version : Nat, digest : Digests, selectionId : SelectionIds]

StepRecords ==
    [selectionId : SelectionIds, executed : BOOLEAN, counted : Nat,
     consumedBefore : Nat, consumedAfter : Nat, versionAfter : Nat]

\* The counter, the reservations in flight, the ledger and the saved state are
\* well formed; in particular no sequence of calls consumes beyond the target.
TypeOK ==
    /\ budget \in Budgets
    /\ held \subseteq Reservations
    /\ ledger \in Seq(StepRecords)
    /\ \/ saved = NoState
       \/ saved \in [budget : Budgets, ledger : Seq(StepRecords)]

\* The books balance: a ledger starts at zero, each record continues where the
\* one before it ended and adds exactly what it counted, and the last one ends
\* where the counter stands, in tokens and in executed updates.
Balanced(b, l) ==
    /\ \A i \in 1..Len(l) :
          LET before == IF i = 1 THEN 0 ELSE l[i - 1].consumedAfter
              version == IF i = 1 THEN 0 ELSE l[i - 1].versionAfter
          IN  /\ l[i].consumedBefore = before
              /\ l[i].consumedAfter = before + l[i].counted
              /\ l[i].versionAfter = IF l[i].executed THEN version + 1 ELSE version
              /\ l[i].executed <=> l[i].counted > 0
    /\ b.consumed = IF l = <<>> THEN 0 ELSE l[Len(l)].consumedAfter
    /\ b.version = IF l = <<>> THEN 0 ELSE l[Len(l)].versionAfter

\* Exact accounting (LossTokenBudget.commit and its state_dict round trip):
\* whatever reservations are planned, altered, retried and restored, the ledger
\* of the counter balances with the counter.
BooksBalance == Balanced(budget, ledger)

\* One reservation is charged at most once (the version test of
\* _validate_reservation): no two executed records of a counter's ledger carry
\* the same selection id, however often the reservation is committed again.
ChargedOnce ==
    \A i, j \in 1..Len(ledger) :
        ledger[i].executed /\ ledger[j].executed /\ i # j
            => ledger[i].selectionId # ledger[j].selectionId

\* What was charged is what the counter itself reserved: the tokens of an
\* executed record are the canonical prefix of its plan at the state it names,
\* so no altered selected_tokens or digest is ever charged, nor a reservation of
\* another target.
ChargedAsReserved ==
    \A i \in 1..Len(ledger) :
        LET id == ledger[i].selectionId IN
            ledger[i].executed =>
                /\ ledger[i].counted = id.selected
                /\ id.selected = Lesser(id.candidate, id.target - id.consumed)
                /\ id.consumed = ledger[i].consumedBefore
                /\ id.target = budget.target

\* Only an executed update makes a reservation stale (commit), and it makes
\* every one planned before it stale: a skipped attempt can be retried with the
\* same reservation, and of two plans made from one state only one is charged.
OnlyUpdatesInvalidate ==
    [][/\ budget'.version > budget.version /\ budget'.target = budget.target
              => \A r \in held : Valid(budget, r) => ~ Valid(budget', r)
       /\ Len(ledger') = Len(ledger) + 1 /\ ~ ledger'[Len(ledger')].executed
              => \A r \in held : Valid(budget, r) => Valid(budget', r)]_vars

=============================================================================
