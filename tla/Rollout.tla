------------------------------- MODULE Rollout -------------------------------
(***************************************************************************)
(* train/rollout.py: a supervised batch, or a batch sampled token by token *)
(* from the present policy, and the loss mask that                         *)
(* train/torch_loss_budget.py recomputes from its ids and attention.       *)
(*                                                                         *)
(* A tensor of the batch is a function on the positions <<row, index>>, a  *)
(* Boolean one the set of its true positions.  The log probability kept of *)
(* a sampled token is represented by what it is a probability of: the      *)
(* token, given the attended tokens of the row before it.                  *)
(***************************************************************************)
EXTENDS Integers, FiniteSets, Sequences

CONSTANTS
    Tokens,       \* the vocabulary
    Eos, Pad,     \* config.eos_token_id, config.pad_token_id
    Prompts,      \* the prompt of each row: example.prompt, once per generation
    References,   \* the reference completion of each row
    MaxNewTokens  \* config.max_new_tokens

Rows == 1..Len(Prompts)

ASSUME BatchAssumption ==
    /\ Prompts \in Seq(Seq(Tokens) \ {<<>>}) /\ Prompts # <<>>
    /\ References \in Seq(Seq(Tokens) \ {<<>>}) /\ Len(References) = Len(Prompts)
ASSUME ConfigAssumption ==
    /\ Eos \in Tokens /\ Pad \in Tokens /\ Eos # Pad
    /\ MaxNewTokens \in Nat \ {0}

VARIABLES
    pc,        \* "ready", "sampling", "masking", "done" or "raised"
    sampled,   \* sample_completions rather than supervised_batch
    step,      \* the token loop's step
    ids,       \* input_ids
    attended,  \* attention_mask
    logged,    \* old_log_probs, at the positions they are recorded for
    finished,  \* rows that have sampled EOS
    mask,      \* completion_mask
    truncated, \* the batch's truncated rows
    training   \* model.training; the caller's was TRUE

vars == <<pc, sampled, step, ids, attended, logged, finished, mask, truncated, training>>

Start(r) == Len(Prompts[r]) + 1

\* The last index the completion of a row can have.
Last(r) == Len(Prompts[r]) + (IF sampled THEN MaxNewTokens ELSE Len(References[r]))

\* A tensor as wide as the longest row.
Positions == Rows \X UNION {1..Last(r) : r \in Rows}

InPrompt(p) == p[2] < Start(p[1])

\* The ids of the prompts in a tensor of pads.
PromptIds(p) == IF InPrompt(p) THEN Prompts[p[1]][p[2]] ELSE Pad

Init ==
    /\ pc = "ready"
    /\ sampled \in BOOLEAN
    /\ step = 0
    /\ ids = [p \in Positions |-> PromptIds(p)]
    /\ attended = {p \in Positions : InPrompt(p)}
    /\ logged = <<>>
    /\ finished = {}
    /\ mask = {}
    /\ truncated = {}
    /\ training = TRUE

\* supervised_batch: the references, right-padded.
Supervise ==
    /\ pc = "ready"
    /\ ~ sampled
    /\ ids' = [p \in Positions |->
                  IF ~ InPrompt(p) /\ p[2] <= Last(p[1])
                  THEN References[p[1]][p[2] - Len(Prompts[p[1]])]
                  ELSE ids[p]]
    /\ attended' = {p \in Positions : p[2] <= Last(p[1])}
    /\ pc' = "masking"
    /\ UNCHANGED <<sampled, step, logged, finished, mask, truncated, training>>

\* sample_completions up to its loop.
BeginSampling ==
    /\ pc = "ready"
    /\ sampled
    /\ training' = FALSE
    /\ pc' = "sampling"
    /\ UNCHANGED <<sampled, step, ids, attended, logged, finished, mask, truncated>>

\* What the model sees of a row when it predicts position p.
Context(p) == [q \in {q \in attended : q[1] = p[1] /\ q[2] < p[2]} |-> ids[q]]

\* Slip: range(max_new_tokens + 1).
AfterStepOneMore(over) ==
    /\ step' = step + 1
    /\ pc' = IF over \/ step' > MaxNewTokens THEN "masking" ELSE "sampling"
    /\ training' = (pc' = "masking")
    /\ UNCHANGED <<sampled, mask, truncated>>

\* Every row is finished, or the cap is reached: the loop ends and the model's
\* mode is restored.
AfterStep(over) ==
    /\ step' = step + 1
    /\ pc' = IF over \/ step' = MaxNewTokens THEN "masking" ELSE "sampling"
    /\ training' = (pc' = "masking")
    /\ UNCHANGED <<sampled, mask, truncated>>

\* Slip: finished rows go on receiving what is sampled for them.
SampleStepAllRows(next) ==
    LET written == {<<r, Start(r) + step>> : r \in Rows} IN
    /\ pc = "sampling"
    /\ ids' = [p \in Positions |-> IF p \in written THEN next[p[1]] ELSE ids[p]]
    /\ attended' = attended \cup written
    /\ logged' = [p \in DOMAIN logged \cup written |->
                     IF p \in written
                     THEN [context |-> Context(p), token |-> next[p[1]]]
                     ELSE logged[p]]
    /\ finished' = finished \cup {r \in Rows : next[r] = Eos}
    /\ AfterStep(finished' = Rows)

\* Slip: rows that sample EOS are finished before the token is written.
SampleStepDroppingEos(next) ==
    LET ended == finished \cup {r \in Rows : next[r] = Eos}
        written == {<<r, Start(r) + step>> : r \in Rows \ ended}
    IN
    /\ pc = "sampling"
    /\ ids' = [p \in Positions |-> IF p \in written THEN next[p[1]] ELSE ids[p]]
    /\ attended' = attended \cup written
    /\ logged' = [p \in DOMAIN logged \cup written |->
                     IF p \in written
                     THEN [context |-> Context(p), token |-> next[p[1]]]
                     ELSE logged[p]]
    /\ finished' = ended
    /\ AfterStep(finished' = Rows)

\* Slip: hidden states are gathered one position early.
SampleStepMisaligned(next) ==
    LET written == {<<r, Start(r) + step>> : r \in Rows \ finished} IN
    /\ pc = "sampling"
    /\ ids' = [p \in Positions |-> IF p \in written THEN next[p[1]] ELSE ids[p]]
    /\ attended' = attended \cup written
    /\ logged' = [p \in DOMAIN logged \cup written |->
                     IF p \in written
                     THEN [context |-> Context(<<p[1], p[2] - 1>>), token |-> next[p[1]]]
                     ELSE logged[p]]
    /\ finished' = finished \cup {r \in Rows : next[r] = Eos}
    /\ AfterStep(finished' = Rows)

\* One step of the loop: a token is sampled for every row, and written, with
\* its log probability, in the rows that have not finished.
SampleStep(next) ==
    LET written == {<<r, Start(r) + step>> : r \in Rows \ finished} IN
    /\ pc = "sampling"
    /\ ids' = [p \in Positions |-> IF p \in written THEN next[p[1]] ELSE ids[p]]
    /\ attended' = attended \cup written
    /\ logged' = [p \in DOMAIN logged \cup written |->
                     IF p \in written
                     THEN [context |-> Context(p), token |-> next[p[1]]]
                     ELSE logged[p]]
    /\ finished' = finished \cup {r \in Rows : next[r] = Eos}
    /\ AfterStep(finished' = Rows)

\* Slip: the mode is restored after the loop, not in a finally clause.
ModelRaisesInEval ==
    /\ pc = "sampling"
    /\ pc' = "raised"
    /\ UNCHANGED <<sampled, step, ids, attended, logged, finished, mask, truncated, training>>

\* The model or torch.multinomial raises (out of memory, NaN probabilities).
ModelRaises ==
    /\ pc = "sampling"
    /\ pc' = "raised"
    /\ training' = TRUE
    /\ UNCHANGED <<sampled, step, ids, attended, logged, finished, mask, truncated>>

\* The attended completion positions of torch_completion_loss_mask.
Base == {p \in attended : ~ InPrompt(p)}

\* Its check that no attention follows padding in a completion.
RightPadded ==
    \A p \in Base, q \in Positions :
        p[1] = q[1] /\ ~ InPrompt(q) /\ q[2] < p[2] => q \in attended

\* _through_first_eos_mask with include_eos: no EOS before the position.
ThroughFirstEos ==
    {p \in Base : \A q \in Base : p[1] = q[1] /\ q[2] < p[2] => ids[q] # Eos}

BuildMask ==
    /\ pc = "masking"
    /\ IF RightPadded
       THEN /\ mask' = ThroughFirstEos
            /\ truncated' = IF sampled THEN Rows \ finished ELSE {}
            /\ pc' = "done"
       ELSE pc' = "raised" /\ UNCHANGED <<mask, truncated>>
    /\ UNCHANGED <<sampled, step, ids, attended, logged, finished, training>>

Next ==
    \/ Supervise \/ BeginSampling
    \/ \E next \in [Rows -> Tokens] : SampleStep(next)
    \/ ModelRaises \/ BuildMask

Spec == Init /\ [][Next]_vars

-----------------------------------------------------------------------------
\* The tensors of a batch are well formed.
TypeOK ==
    /\ pc \in {"ready", "sampling", "masking", "done", "raised"}
    /\ sampled \in BOOLEAN
    /\ step \in 0..MaxNewTokens
    /\ ids \in [Positions -> Tokens]
    /\ attended \subseteq Positions
    /\ DOMAIN logged \subseteq Positions
    /\ finished \subseteq Rows
    /\ mask \subseteq Positions
    /\ truncated \subseteq Rows
    /\ training \in BOOLEAN

\* The mask recomputed from ids and attention is accepted, and is exactly what
\* was sampled: pads sampled before EOS are in it, nothing drawn for a finished
\* row is (rollout.py:114-115, docs/architecture/CPU_TRAINING_LOOP.md:33).
MaskIsWhatWasSampled ==
    pc = "masking" => RightPadded /\ (sampled => ThroughFirstEos = DOMAIN logged)

\* The log probability kept of every loss position is the one the loop computes
\* of it from the finished batch (selected_token_statistics): the same token
\* after the same attended tokens, so the first importance ratio is 1.
LikelihoodsReproduce ==
    pc = "done" /\ sampled =>
        \A p \in mask : logged[p] = [context |-> Context(p), token |-> ids[p]]

\* Every row's loss positions are one run from the start of its completion to
\* its first EOS, or to its cap; a row is truncated when it has no EOS.
RowsEndOnce ==
    pc = "done" =>
        /\ \A r \in Rows : <<r, Start(r)>> \in mask
        /\ \A p \in mask :
              /\ ~ InPrompt(p)
              /\ \A q \in Positions :
                    p[1] = q[1] /\ ~ InPrompt(q) /\ q[2] < p[2] => q \in mask /\ ids[q] # Eos
              /\ ids[p] = Eos \/ p[2] = Last(p[1]) \/ <<p[1], p[2] + 1>> \in mask
        /\ truncated = {r \in Rows : sampled /\ \A p \in mask : p[1] = r => ids[p] # Eos}

\* Sampling leaves the model in the mode it found it in, exceptions included.
ModeRestored == pc \in {"masking", "done", "raised"} => training

=============================================================================
