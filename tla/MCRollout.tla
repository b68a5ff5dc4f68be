------------------------------ MODULE MCRollout ------------------------------
(* Three rows with prompts of two lengths, one of which ends in EOS, and    *)
(* references that run to the end, hold an EOS inside, and hold a pad.      *)
EXTENDS Rollout

MCPrompts == <<<<"a">>, <<"pad", "eos">>, <<"a">>>>
MCReferences == <<<<"a", "a">>, <<"a", "eos", "a">>, <<"pad", "eos">>>>

=============================================================================
