----------------------------- MODULE TrainingRun -----------------------------
(***************************************************************************)
(* What a resumable training run promises, with no phases, gradients or    *)
(* reservations: a stage is started only when the one before it has been   *)
(* trained on exactly its target of loss positions, an update never trains *)
(* beyond the target, and a run that dies continues, if at all, exactly    *)
(* from the state that was saved.                                          *)
(***************************************************************************)
EXTENDS Integers

CONSTANT NoRun

VARIABLES
    run,    \* the stage, its target, the positions trained in it, the updates
            \* made in all stages, and the cursor: everything else a resume needs
    saved   \* the run as it was saved

NewRun(cursor) ==
    [stage |-> 0, target |-> 0, done |-> 0, updates |-> 0, cursor |-> cursor]

Init == run = NewRun(run.cursor) /\ saved = NoRun

StartStage ==
    /\ run.done = run.target
    /\ run'.target > 0
    /\ run' = [stage |-> run.stage + 1, target |-> run'.target, done |-> 0,
               updates |-> run.updates, cursor |-> run'.cursor]
    /\ UNCHANGED saved

SameStage(done, updates, cursor) ==
    [stage |-> run.stage, target |-> run.target, done |-> done,
     updates |-> updates, cursor |-> cursor]

Train ==
    /\ run.done < run'.done /\ run'.done <= run.target
    /\ run' = SameStage(run'.done, run.updates + 1, run'.cursor)
    /\ UNCHANGED saved

\* An attempt that trains nothing moves the cursor alone.
Work ==
    /\ run' = SameStage(run.done, run.updates, run'.cursor)
    /\ UNCHANGED saved

Save == saved' = run /\ UNCHANGED run

Die == run' = NewRun(run'.cursor) /\ UNCHANGED saved

Recover ==
    /\ run.stage = 0
    /\ saved # NoRun
    /\ run' = saved
    /\ UNCHANGED saved

Next == StartStage \/ Train \/ Work \/ Save \/ Die \/ Recover

Spec == Init /\ [][Next]_<<run, saved>>

=============================================================================
