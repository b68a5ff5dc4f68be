---------------------------- MODULE RolloutProofs ----------------------------
(***************************************************************************)
(* Proofs about Rollout for every vocabulary, batch of prompts and         *)
(* references, and cap.  The invariant says what the token loop has built  *)
(* after any number of steps; that the mask recomputed from it is what was *)
(* sampled follows when the loop ends.                                     *)
(***************************************************************************)
EXTENDS Rollout, MaskSelection, WellFoundedInduction, TLAPS

SameRow(p, q) == p[1] = q[1]

\* What the token loop has built after step steps.
SampledSoFar ==
    /\ attended = {p \in Positions : InPrompt(p)} \cup DOMAIN logged
    /\ DOMAIN logged \subseteq {p \in Positions : ~ InPrompt(p) /\ p[2] < Start(p[1]) + step}
    /\ \A p \in DOMAIN logged :
          /\ logged[p] = [context |-> Context(p), token |-> ids[p]]
          /\ \A q \in Positions :
                SameRow(p, q) /\ ~ InPrompt(q) /\ q[2] < p[2]
                    => q \in DOMAIN logged /\ ids[q] # Eos
    /\ \A p \in Positions :
          p[1] \notin finished /\ ~ InPrompt(p) /\ p[2] < Start(p[1]) + step
              => p \in DOMAIN logged /\ ids[p] # Eos
    /\ \A r \in finished : \E p \in DOMAIN logged : p[1] = r /\ ids[p] = Eos

\* The loop is over.
SampledAll == SampledSoFar /\ step > 0 /\ (finished = Rows \/ step = MaxNewTokens)

Phase ==
    /\ pc = "ready" =>
          /\ attended = {p \in Positions : InPrompt(p)}
          /\ DOMAIN logged = {} /\ finished = {} /\ step = 0 /\ training
    /\ pc = "sampling" => sampled /\ SampledSoFar /\ step < MaxNewTokens
    /\ pc = "masking" =>
          IF sampled THEN SampledAll ELSE attended = {p \in Positions : p[2] <= Last(p[1])}
    /\ pc = "done" =>
          /\ mask = ThroughFirstEos
          /\ truncated = IF sampled THEN Rows \ finished ELSE {}
          /\ IF sampled THEN SampledAll ELSE attended = {p \in Positions : p[2] <= Last(p[1])}

IInv == TypeOK /\ Phase /\ ModeRestored

-----------------------------------------------------------------------------
(* Rows and positions.                                                     *)

(* Every row has a prompt and a place for at least one completion token.   *)
LEMMA RowFacts ==
    ASSUME sampled \in BOOLEAN, NEW r \in Rows
    PROVE  /\ Start(r) \in Nat \ {0} /\ Last(r) \in Nat
           /\ Start(r) <= Last(r)
           /\ Len(Prompts[r]) \in Nat /\ Len(References[r]) \in Nat
           /\ sampled => Last(r) = Start(r) + MaxNewTokens - 1
           /\ \A i \in 1..Len(Prompts[r]) : Prompts[r][i] \in Tokens
           /\ \A i \in 1..Len(References[r]) : References[r][i] \in Tokens
  <1>1. Prompts[r] \in Seq(Tokens) \ {<<>>} /\ References[r] \in Seq(Tokens) \ {<<>>}
    BY BatchAssumption DEF Rows
  <1>2. Len(Prompts[r]) \in Nat \ {0} /\ Len(References[r]) \in Nat \ {0}
    BY <1>1
  <1>3. /\ \A i \in 1..Len(Prompts[r]) : Prompts[r][i] \in Tokens
        /\ \A i \in 1..Len(References[r]) : References[r][i] \in Tokens
    BY <1>1
  <1>4. Start(r) \in Nat \ {0} /\ Start(r) = Len(Prompts[r]) + 1
    BY <1>2 DEF Start
  <1>5. /\ Last(r) \in Nat /\ Start(r) <= Last(r)
        /\ sampled => Last(r) = Start(r) + MaxNewTokens - 1
    <2>1. CASE sampled
      <3>1. Last(r) = Len(Prompts[r]) + MaxNewTokens
        BY <2>1 DEF Last
      <3> QED
        BY <1>2, <1>4, <3>1, ConfigAssumption
    <2>2. CASE ~ sampled
      <3>1. Last(r) = Len(Prompts[r]) + Len(References[r])
        BY <2>2 DEF Last
      <3>2. Last(r) \in Nat /\ Start(r) <= Last(r)
        <4> DEFINE m == Len(Prompts[r])
                   n == Len(References[r])
        <4>1. m \in Nat /\ n \in Nat /\ n > 0 /\ Last(r) = m + n /\ Start(r) = m + 1
          BY <1>2, <1>4, <3>1
        <4> HIDE DEF m, n
        <4> QED
          BY <4>1
      <3> QED
        BY <2>2, <3>2
    <2> QED
      BY <2>1, <2>2
  <1> QED
    BY <1>2, <1>3, <1>4, <1>5

(* A position is a row and an index; every index up to Last is one.        *)
LEMMA PositionFacts ==
    ASSUME sampled \in BOOLEAN
    PROVE  /\ \A p \in Positions : p = <<p[1], p[2]>> /\ p[1] \in Rows /\ p[2] \in Nat \ {0}
           /\ \A r \in Rows : \A i \in 1..Last(r) : <<r, i>> \in Positions
  <1>1. \A r \in Rows : Last(r) \in Nat
    BY RowFacts
  <1>2. \A i \in UNION {1..Last(r) : r \in Rows} : i \in Nat \ {0}
    BY <1>1
  <1> QED
    BY <1>1, <1>2 DEF Positions

(* The positions stay the same when sampled does.                          *)
LEMMA SamePositions ==
    ASSUME UNCHANGED sampled
    PROVE  Positions' = Positions /\ \A r \in Rows : Last(r)' = Last(r)
  BY DEF Positions, Last

-----------------------------------------------------------------------------
(* The token loop.                                                         *)

(* A step writes one new position in each unfinished row, after everything *)
(* written before, so contexts recorded earlier do not change.             *)
LEMMA StepKeepsSampled ==
    ASSUME TypeOK, SampledSoFar, step < MaxNewTokens, sampled,
           NEW next \in [Rows -> Tokens], SampleStep(next)
    PROVE  SampledSoFar' /\ attended' \subseteq Positions /\ ids' \in [Positions -> Tokens]
           /\ finished' \subseteq Rows
  <1> DEFINE written == {<<r, Start(r) + step>> : r \in Rows \ finished}
  <1>1. /\ ids' = [p \in Positions |-> IF p \in written THEN next[p[1]] ELSE ids[p]]
        /\ attended' = attended \cup written
        /\ logged' = [p \in DOMAIN logged \cup written |->
                         IF p \in written
                         THEN [context |-> Context(p), token |-> next[p[1]]]
                         ELSE logged[p]]
        /\ finished' = finished \cup {r \in Rows : next[r] = Eos}
        /\ step' = step + 1 /\ sampled' = sampled
    BY DEF SampleStep, AfterStep
  <1>2. /\ sampled \in BOOLEAN /\ step \in Nat /\ finished \subseteq Rows
        /\ attended \subseteq Positions /\ ids \in [Positions -> Tokens]
    BY ConfigAssumption DEF TypeOK
  <1>3. \A p \in Positions : p = <<p[1], p[2]>> /\ p[1] \in Rows /\ p[2] \in Nat \ {0}
    BY <1>2, PositionFacts
  <1>4. \A r \in Rows : Start(r) \in Nat \ {0}
    BY <1>2, RowFacts
  <1>5. \A p \in written : /\ p \in Positions /\ p[1] \in Rows \ finished
                           /\ p[2] = Start(p[1]) + step /\ ~ InPrompt(p)
    <2> SUFFICES ASSUME NEW r \in Rows \ finished
                 PROVE  <<r, Start(r) + step>> \in Positions /\ ~ (Start(r) + step < Start(r))
      BY DEF InPrompt
    <2>1. Start(r) + step \in 1..Last(r)
      BY <1>2, <1>4, RowFacts, ConfigAssumption
    <2> QED
      BY <1>2, <1>4, <2>1, PositionFacts
  <1>6. Positions' = Positions
    BY <1>1, SamePositions
  <1>7. DOMAIN logged' = DOMAIN logged \cup written
    BY <1>1
  <1>8. \A p \in DOMAIN logged : /\ p \in Positions /\ ~ InPrompt(p)
                                 /\ p[2] < Start(p[1]) + step /\ p \notin written
    BY <1>2, <1>3, <1>4, <1>5 DEF SampledSoFar
  <1>9. \A p \in Positions \ written : ids'[p] = ids[p]
    BY <1>1
  <1>10. \A p \in DOMAIN logged \cup written : Context(p)' = Context(p)
    <2> SUFFICES ASSUME NEW p \in DOMAIN logged \cup written
                 PROVE  Context(p)' = Context(p)
      OBVIOUS
    <2>1. p \in Positions /\ p[2] <= Start(p[1]) + step
      BY <1>2, <1>3, <1>4, <1>5, <1>8
    <2>2. \A q \in written : ~ (q[1] = p[1] /\ q[2] < p[2])
      BY <1>2, <1>3, <1>4, <1>5, <2>1
    <2>3. {q \in attended' : q[1] = p[1] /\ q[2] < p[2]}
              = {q \in attended : q[1] = p[1] /\ q[2] < p[2]}
      BY <1>1, <2>2
    <2>4. \A q \in {q \in attended : q[1] = p[1] /\ q[2] < p[2]} : ids'[q] = ids[q]
      BY <1>2, <1>9, <2>2
    <2> QED
      BY <2>3, <2>4 DEF Context
  <1> HIDE DEF written
  <1>11. attended' = {p \in Positions' : InPrompt(p)} \cup DOMAIN logged'
    BY <1>1, <1>6, <1>7 DEF SampledSoFar
  <1>12. \A p \in DOMAIN logged' : p \in Positions' /\ ~ InPrompt(p) /\ p[2] < Start(p[1]) + step'
    BY <1>1, <1>2, <1>3, <1>4, <1>5, <1>6, <1>7, <1>8
  <1>13. \A p \in DOMAIN logged' : logged'[p] = [context |-> Context(p)', token |-> ids'[p]]
    <2>1. \A p \in written : logged'[p] = [context |-> Context(p), token |-> ids'[p]]
      BY <1>1, <1>5
    <2>2. \A p \in DOMAIN logged : logged'[p] = [context |-> Context(p), token |-> ids'[p]]
      BY <1>1, <1>8, <1>9 DEF SampledSoFar
    <2> QED
      BY <1>7, <1>10, <2>1, <2>2
  <1>14. ASSUME NEW p \in DOMAIN logged', NEW q \in Positions,
                p[1] = q[1], ~ InPrompt(q), q[2] < p[2]
         PROVE  q \in DOMAIN logged' /\ ids'[q] # Eos
    <2>1. q \notin written
      BY <1>2, <1>3, <1>4, <1>5, <1>7, <1>8, <1>14
    <2>2. q \in DOMAIN logged /\ ids[q] # Eos
      <3>1. CASE p \in DOMAIN logged
        BY <1>14, <3>1 DEF SampledSoFar, SameRow
      <3>2. CASE p \in written
        BY <1>5, <1>14, <3>2 DEF SampledSoFar
      <3> QED
        BY <1>7, <3>1, <3>2
    <2> QED
      BY <1>7, <1>9, <2>1, <2>2
  <1>15. ASSUME NEW p \in Positions,
                p[1] \notin finished', ~ InPrompt(p), p[2] < Start(p[1]) + step'
         PROVE  p \in DOMAIN logged' /\ ids'[p] # Eos
    <2>1. /\ p[1] \in Rows /\ p[1] \notin finished /\ next[p[1]] # Eos
          /\ p[2] \in Nat /\ Start(p[1]) \in Nat /\ p = <<p[1], p[2]>>
      BY <1>1, <1>3, <1>4, <1>15
    <2>2. CASE p[2] < Start(p[1]) + step
      <3>1. p \in DOMAIN logged /\ ids[p] # Eos
        BY <1>15, <2>1, <2>2 DEF SampledSoFar
      <3> QED
        BY <1>7, <1>8, <1>9, <3>1
    <2>3. CASE p[2] = Start(p[1]) + step
      <3>1. p \in written
        BY <2>1, <2>3 DEF written
      <3> QED
        BY <1>1, <1>7, <2>1, <3>1
    <2> QED
      BY <1>1, <1>2, <1>15, <2>1, <2>2, <2>3
  <1>16. ASSUME NEW r \in finished'
         PROVE  \E p \in DOMAIN logged' : p[1] = r /\ ids'[p] = Eos
    <2>1. CASE r \in finished
      <3>1. PICK p \in DOMAIN logged : p[1] = r /\ ids[p] = Eos
        BY <2>1 DEF SampledSoFar
      <3> QED
        BY <1>7, <1>8, <1>9, <3>1
    <2>2. CASE r \in Rows \ finished /\ next[r] = Eos
      <3> DEFINE p == <<r, Start(r) + step>>
      <3>1. p \in written
        BY <2>2 DEF written
      <3>2. p \in DOMAIN logged' /\ p[1] = r /\ ids'[p] = Eos
        BY <1>1, <1>5, <1>7, <2>2, <3>1
      <3> QED
        BY <3>2
    <2> QED
      BY <1>1, <2>1, <2>2
  <1>17. SampledSoFar'
    BY <1>6, <1>11, <1>12, <1>13, <1>14, <1>15, <1>16 DEF SampledSoFar, SameRow
  <1>18. attended' \subseteq Positions /\ finished' \subseteq Rows
    BY <1>1, <1>2, <1>5
  <1>19. ids' \in [Positions -> Tokens]
    BY <1>1, <1>2, <1>3, <1>5
  <1> QED
    BY <1>17, <1>18, <1>19

(* When the loop is over, the mask recomputed from ids and attention is    *)
(* what was sampled.                                                       *)
LEMMA MaskOfSampled ==
    ASSUME TypeOK, sampled, SampledAll
    PROVE  RightPadded /\ ThroughFirstEos = DOMAIN logged
  <1>1. Base = DOMAIN logged
    BY DEF Base, SampledAll, SampledSoFar
  <1>2. \A p \in DOMAIN logged, q \in Positions :
            p[1] = q[1] /\ ~ InPrompt(q) /\ q[2] < p[2] => q \in DOMAIN logged /\ ids[q] # Eos
    BY DEF SampledAll, SampledSoFar, SameRow
  <1>3. DOMAIN logged \subseteq {p \in Positions : ~ InPrompt(p)} /\ DOMAIN logged \subseteq attended
    BY DEF SampledAll, SampledSoFar
  <1> QED
    BY <1>1, <1>2, <1>3 DEF RightPadded, ThroughFirstEos

(* Rows end at their first EOS or at the cap.                              *)
LEMMA SampledRowsEnd ==
    ASSUME TypeOK, sampled, SampledAll
    PROVE  /\ \A r \in Rows : <<r, Start(r)>> \in DOMAIN logged
           /\ \A p \in DOMAIN logged : ids[p] = Eos \/ p[2] = Last(p[1])
                                        \/ <<p[1], p[2] + 1>> \in DOMAIN logged
           /\ \A r \in Rows : r \in finished <=> \E p \in DOMAIN logged : p[1] = r /\ ids[p] = Eos
  <1>1. /\ \A p \in Positions : p = <<p[1], p[2]>> /\ p[1] \in Rows /\ p[2] \in Nat \ {0}
        /\ \A r \in Rows : \A i \in 1..Last(r) : <<r, i>> \in Positions
    BY PositionFacts
  <1>2. \A r \in Rows : /\ Start(r) \in Nat \ {0} /\ Last(r) \in Nat /\ Start(r) <= Last(r)
                        /\ Last(r) = Start(r) + MaxNewTokens - 1
    BY RowFacts
  <1>3. step \in Nat /\ step > 0 /\ MaxNewTokens \in Nat /\ (finished = Rows \/ step = MaxNewTokens)
    BY ConfigAssumption DEF TypeOK, SampledAll
  <1>4. /\ \A p \in DOMAIN logged : p \in Positions /\ ~ InPrompt(p)
        /\ \A p \in DOMAIN logged, q \in Positions :
              p[1] = q[1] /\ ~ InPrompt(q) /\ q[2] < p[2] => q \in DOMAIN logged /\ ids[q] # Eos
        /\ \A p \in Positions :
              p[1] \notin finished /\ ~ InPrompt(p) /\ p[2] < Start(p[1]) + step
                  => p \in DOMAIN logged /\ ids[p] # Eos
        /\ \A r \in finished : \E p \in DOMAIN logged : p[1] = r /\ ids[p] = Eos
        /\ \A p \in DOMAIN logged : p[2] < Start(p[1]) + step
    BY DEF SampledAll, SampledSoFar, SameRow
  <1>5. ASSUME NEW r \in Rows, NEW i \in Nat, Start(r) <= i
        PROVE  ~ InPrompt(<<r, i>>)
    BY <1>2, <1>5 DEF InPrompt
  <1>6. ASSUME NEW r \in Rows PROVE <<r, Start(r)>> \in DOMAIN logged
    <2>1. <<r, Start(r)>> \in Positions /\ ~ InPrompt(<<r, Start(r)>>)
      BY <1>1, <1>2, <1>5
    <2>2. CASE r \in finished
      <3>1. PICK p \in DOMAIN logged : p[1] = r /\ ids[p] = Eos
        BY <1>4, <2>2
      <3>2. p = <<r, p[2]>> /\ p[2] \in Nat /\ p[2] >= Start(r)
        BY <1>1, <1>2, <1>4, <3>1 DEF InPrompt
      <3>3. CASE p[2] = Start(r)
        BY <3>2, <3>3
      <3>4. CASE Start(r) < p[2]
        BY <1>4, <2>1, <3>1, <3>4
      <3> QED
        BY <1>2, <3>2, <3>3, <3>4
    <2>3. CASE r \notin finished
      BY <1>2, <1>3, <1>4, <2>1, <2>3
    <2> QED
      BY <2>2, <2>3
  <1>7. ASSUME NEW p \in DOMAIN logged, ids[p] # Eos, p[2] # Last(p[1])
        PROVE  <<p[1], p[2] + 1>> \in DOMAIN logged
    <2> DEFINE r == p[1]
               q == <<r, p[2] + 1>>
    <2>1. r \in Rows /\ p = <<r, p[2]>> /\ p[2] \in Nat \ {0} /\ Start(r) <= p[2]
      BY <1>1, <1>2, <1>4 DEF InPrompt
    <2>2. p[2] < Start(r) + step /\ step <= MaxNewTokens
      BY <1>4 DEF TypeOK
    <2>3. p[2] < Last(r)
      BY <1>2, <1>3, <1>7, <2>1, <2>2
    <2>4. q \in Positions /\ ~ InPrompt(q)
      BY <1>1, <1>2, <1>5, <2>1, <2>3
    <2>5. CASE r \in finished
      <3>1. PICK e \in DOMAIN logged : e[1] = r /\ ids[e] = Eos
        BY <1>4, <2>5
      <3>2. e = <<r, e[2]>> /\ e[2] \in Nat /\ e # p
        BY <1>1, <1>4, <1>7, <3>1
      <3>3. ~ (e[2] < p[2])
        BY <1>4, <3>1
      <3>4. e[2] # p[2]
        BY <2>1, <3>2
      <3>5. CASE e[2] = p[2] + 1
        BY <3>2, <3>5
      <3>6. CASE p[2] + 1 < e[2]
        BY <1>4, <2>4, <3>1, <3>6
      <3> QED
        BY <2>1, <3>2, <3>3, <3>4, <3>5, <3>6
    <2>6. CASE r \notin finished
      <3>1. step = MaxNewTokens
        BY <1>3, <2>1, <2>6
      <3>2. p[2] + 1 < Start(r) + step
        BY <1>2, <1>3, <2>1, <2>3, <3>1
      <3> QED
        BY <1>4, <2>4, <2>6, <3>2
    <2> QED
      BY <2>5, <2>6
  <1>8. ASSUME NEW p \in DOMAIN logged, p[1] \notin finished
        PROVE  ids[p] # Eos
    BY <1>4, <1>8
  <1> QED
    BY <1>4, <1>6, <1>7, <1>8

(* A supervised batch is accepted, and its rows end at their first EOS or  *)
(* at the end of the reference.                                            *)
LEMMA MaskOfSupervised ==
    ASSUME TypeOK, ~ sampled, attended = {p \in Positions : p[2] <= Last(p[1])}
    PROVE  /\ RightPadded
           /\ ThroughFirstEos \subseteq Base
           /\ \A r \in Rows : <<r, Start(r)>> \in ThroughFirstEos
           /\ \A p \in ThroughFirstEos :
                 /\ \A q \in Positions :
                       p[1] = q[1] /\ ~ InPrompt(q) /\ q[2] < p[2]
                           => q \in ThroughFirstEos /\ ids[q] # Eos
                 /\ ids[p] = Eos \/ p[2] = Last(p[1]) \/ <<p[1], p[2] + 1>> \in ThroughFirstEos
  <1>1. /\ \A p \in Positions : p = <<p[1], p[2]>> /\ p[1] \in Rows /\ p[2] \in Nat \ {0}
        /\ \A r \in Rows : \A i \in 1..Last(r) : <<r, i>> \in Positions
    BY PositionFacts DEF TypeOK
  <1>2. \A r \in Rows : Start(r) \in Nat \ {0} /\ Last(r) \in Nat /\ Start(r) <= Last(r)
    BY RowFacts DEF TypeOK
  <1>3. Base = {p \in Positions : ~ InPrompt(p) /\ p[2] <= Last(p[1])}
    BY DEF Base
  <1>4. ASSUME NEW p \in Base, NEW q \in Positions, p[1] = q[1], ~ InPrompt(q), q[2] < p[2]
        PROVE  q \in Base
    BY <1>1, <1>2, <1>3, <1>4
  <1>5. RightPadded
    BY <1>4 DEF RightPadded, Base
  <1>6. ASSUME NEW r \in Rows PROVE <<r, Start(r)>> \in ThroughFirstEos
    <2>1. <<r, Start(r)>> \in Base
      BY <1>1, <1>2, <1>3 DEF InPrompt
    <2>2. \A q \in Base : ~ (r = q[1] /\ q[2] < Start(r))
      BY <1>3 DEF InPrompt
    <2> QED
      BY <2>1, <2>2 DEF ThroughFirstEos
  <1>7. ASSUME NEW p \in ThroughFirstEos, NEW q \in Positions,
               p[1] = q[1], ~ InPrompt(q), q[2] < p[2]
        PROVE  q \in ThroughFirstEos /\ ids[q] # Eos
    <2>1. p \in Base /\ q \in Base
      BY <1>4, <1>7 DEF ThroughFirstEos
    <2>2. \A e \in Base : p[1] = e[1] /\ e[2] < p[2] => ids[e] # Eos
      BY DEF ThroughFirstEos
    <2>3. \A e \in Base : q[1] = e[1] /\ e[2] < q[2] => p[1] = e[1] /\ e[2] < p[2]
      BY <1>1, <1>3, <1>7, <2>1
    <2> QED
      BY <1>7, <2>1, <2>2, <2>3 DEF ThroughFirstEos
  <1>8. ASSUME NEW p \in ThroughFirstEos, ids[p] # Eos, p[2] # Last(p[1])
        PROVE  <<p[1], p[2] + 1>> \in ThroughFirstEos
    <2> DEFINE q == <<p[1], p[2] + 1>>
    <2>1. p \in Base /\ p \in Positions /\ p[2] <= Last(p[1]) /\ ~ InPrompt(p)
      BY <1>3 DEF ThroughFirstEos
    <2>2. p[1] \in Rows /\ p[2] \in Nat \ {0} /\ p = <<p[1], p[2]>> /\ Start(p[1]) <= p[2]
      BY <1>1, <1>2, <2>1 DEF InPrompt
    <2>3. q \in Base
      BY <1>1, <1>2, <1>3, <1>8, <2>1, <2>2 DEF InPrompt
    <2>4. ASSUME NEW e \in Base, e[1] = p[1], e[2] < p[2] + 1
          PROVE  ids[e] # Eos
      <3>1. e = <<p[1], e[2]>> /\ e[2] \in Nat
        BY <1>1, <1>3, <2>4
      <3>2. CASE e[2] = p[2]
        BY <1>8, <2>2, <3>1, <3>2
      <3>3. CASE e[2] < p[2]
        BY <2>4, <3>3 DEF ThroughFirstEos
      <3> QED
        BY <2>2, <2>4, <3>1, <3>2, <3>3
    <2> QED
      BY <2>3, <2>4 DEF ThroughFirstEos
  <1> QED
    BY <1>5, <1>6, <1>7, <1>8 DEF ThroughFirstEos

-----------------------------------------------------------------------------
(* The invariant.                                                          *)

(* A tensor of prompts and pads.                                           *)
LEMMA InitInv == Init => IInv
  <1> SUFFICES ASSUME Init PROVE IInv
    OBVIOUS
  <1>1. ids \in [Positions -> Tokens]
    <2> SUFFICES ASSUME NEW p \in Positions PROVE PromptIds(p) \in Tokens
      BY DEF Init
    <2>1. p[1] \in Rows /\ p[2] \in Nat \ {0}
      BY PositionFacts DEF Init
    <2>2. InPrompt(p) => p[2] \in 1..Len(Prompts[p[1]])
      BY <2>1, RowFacts DEF InPrompt, Start, Init
    <2> QED
      BY <2>1, <2>2, RowFacts, ConfigAssumption DEF PromptIds, Init
  <1>2. TypeOK
    BY <1>1, ConfigAssumption DEF Init, TypeOK
  <1> QED
    BY <1>2 DEF Init, IInv, Phase, ModeRestored

(* Every step preserves the invariant; what is not one step of the token   *)
(* loop is short.                                                          *)
LEMMA NextInv == IInv /\ [Next]_vars => IInv'
  <1> SUFFICES ASSUME IInv, [Next]_vars PROVE IInv'
    OBVIOUS
  <1>1. CASE Supervise
    <2>1. Positions' = Positions /\ \A r \in Rows : Last(r)' = Last(r)
      BY <1>1, SamePositions DEF Supervise
    <2>2. ids' \in [Positions -> Tokens]
      <3> SUFFICES ASSUME NEW p \in Positions, ~ InPrompt(p), p[2] <= Last(p[1])
                   PROVE  References[p[1]][p[2] - Len(Prompts[p[1]])] \in Tokens
        BY <1>1 DEF Supervise, IInv, TypeOK
      <3>1. p[1] \in Rows /\ p[2] \in Nat \ {0}
        BY PositionFacts DEF IInv, TypeOK
      <3>2. p[2] >= Len(Prompts[p[1]]) + 1
        BY <3>1, RowFacts DEF IInv, TypeOK, InPrompt, Start
      <3>3. p[2] <= Len(Prompts[p[1]]) + Len(References[p[1]])
        BY <1>1 DEF Supervise, Last
      <3>4. p[2] - Len(Prompts[p[1]]) \in 1..Len(References[p[1]])
        <4> DEFINE m == Len(Prompts[p[1]])
                   n == Len(References[p[1]])
        <4>1. m \in Nat /\ n \in Nat /\ p[2] \in Nat /\ p[2] >= m + 1 /\ p[2] <= m + n
          BY <3>1, <3>2, <3>3, RowFacts DEF IInv, TypeOK
        <4> HIDE DEF m, n
        <4>2. p[2] - m \in 1..n
          BY <4>1
        <4> QED
          BY <4>2 DEF m, n
      <3> QED
        BY <3>1, <3>4, RowFacts DEF IInv, TypeOK
    <2>3. TypeOK'
      BY <1>1, <2>1, <2>2 DEF IInv, TypeOK, Supervise
    <2>4. attended' = {p \in Positions' : p[2] <= Last(p[1])'}
      BY <1>1, <2>1, PositionFacts DEF Supervise, IInv, TypeOK
    <2>5. pc' = "masking" /\ ~ sampled' /\ training'
      BY <1>1 DEF Supervise, IInv, Phase
    <2> QED
      BY <2>3, <2>4, <2>5 DEF IInv, Phase, ModeRestored
  <1>2. CASE BeginSampling
    <2>1. Positions' = Positions
      BY <1>2, SamePositions DEF BeginSampling
    <2>2. SampledSoFar'
      <3>1. /\ attended' = {p \in Positions : InPrompt(p)} /\ DOMAIN logged' = {}
            /\ finished' = {} /\ step' = 0
        BY <1>2 DEF BeginSampling, IInv, Phase
      <3>2. \A p \in Positions : p[1] \in Rows /\ p[2] \in Nat
        BY PositionFacts DEF IInv, TypeOK
      <3>3. \A p \in Positions : ~ InPrompt(p) => ~ (p[2] < Start(p[1]) + 0)
        BY <3>2, RowFacts DEF InPrompt, IInv, TypeOK
      <3> QED
        BY <2>1, <3>1, <3>3 DEF SampledSoFar
    <2>3. TypeOK'
      BY <1>2, <2>1 DEF IInv, TypeOK, BeginSampling
    <2>4. pc' = "sampling" /\ sampled' /\ step' < MaxNewTokens
      BY <1>2, ConfigAssumption DEF BeginSampling, IInv, Phase
    <2> QED
      BY <2>2, <2>3, <2>4 DEF IInv, Phase, ModeRestored
  <1>3. ASSUME NEW next \in [Rows -> Tokens], SampleStep(next) PROVE IInv'
    <2>1. /\ pc = "sampling" /\ sampled /\ sampled' /\ sampled' = sampled
          /\ step \in Nat /\ step < MaxNewTokens
          /\ step' = step + 1 /\ mask' = mask /\ truncated' = truncated
      BY <1>3, ConfigAssumption DEF SampleStep, AfterStep, IInv, Phase, TypeOK
    <2>2. /\ SampledSoFar' /\ attended' \subseteq Positions
          /\ ids' \in [Positions -> Tokens] /\ finished' \subseteq Rows
      BY <1>3, <2>1, StepKeepsSampled DEF IInv, Phase
    <2>3. Positions' = Positions
      BY <2>1, SamePositions
    <2>4. DOMAIN logged' \subseteq Positions
      BY <2>2, <2>3 DEF SampledSoFar
    <2>5. step' \in 0..MaxNewTokens /\ step' > 0
      BY <2>1, ConfigAssumption
    <2>6. CASE finished' = Rows \/ step' = MaxNewTokens
      <3>1. pc' = "masking" /\ training'
        BY <1>3, <2>6 DEF SampleStep, AfterStep
      <3>2. TypeOK'
        BY <2>1, <2>2, <2>3, <2>4, <2>5, <3>1 DEF IInv, TypeOK
      <3> QED
        BY <2>1, <2>2, <2>5, <2>6, <3>1, <3>2 DEF IInv, Phase, SampledAll, ModeRestored
    <2>7. CASE ~ (finished' = Rows \/ step' = MaxNewTokens)
      <3>1. pc' = "sampling" /\ training' = FALSE
        BY <1>3, <2>7 DEF SampleStep, AfterStep
      <3>2. step' < MaxNewTokens
        BY <2>1, <2>7, ConfigAssumption
      <3>3. TypeOK'
        BY <2>1, <2>2, <2>3, <2>4, <2>5, <3>1 DEF IInv, TypeOK
      <3> QED
        BY <2>1, <2>2, <3>1, <3>2, <3>3 DEF IInv, Phase, ModeRestored
    <2> QED
      BY <2>6, <2>7
  <1>4. CASE ModelRaises
    BY <1>4, SamePositions DEF ModelRaises, IInv, TypeOK, Phase, ModeRestored
  <1>5. CASE BuildMask
    <2>1. /\ pc = "masking"
          /\ UNCHANGED <<sampled, step, ids, attended, logged, finished, training>>
      BY <1>5 DEF BuildMask
    <2>2. /\ Positions' = Positions /\ (\A r \in Rows : Last(r)' = Last(r))
          /\ ThroughFirstEos' = ThroughFirstEos
      BY <2>1, SamePositions DEF ThroughFirstEos, Base
    <2>3. RightPadded
      BY <2>1, MaskOfSampled, MaskOfSupervised DEF IInv, TypeOK, Phase
    <2>4. /\ mask' = ThroughFirstEos /\ pc' = "done"
          /\ truncated' = IF sampled THEN Rows \ finished ELSE {}
      BY <1>5, <2>3 DEF BuildMask
    <2>5. TypeOK'
      BY <2>1, <2>2, <2>4 DEF IInv, TypeOK, ThroughFirstEos, Base
    <2>6. SampledAll => SampledAll'
      BY <2>1, <2>2 DEF SampledAll, SampledSoFar, Context
    <2>7. attended = {p \in Positions : p[2] <= Last(p[1])}
             => attended' = {p \in Positions' : p[2] <= Last(p[1])'}
      BY <2>1, <2>2, PositionFacts DEF IInv, TypeOK
    <2> QED
      BY <2>1, <2>2, <2>4, <2>5, <2>6, <2>7 DEF IInv, Phase, ModeRestored
  <1>6. CASE UNCHANGED vars
    <2>1. Positions' = Positions /\ \A r \in Rows : Last(r)' = Last(r)
      BY <1>6, SamePositions DEF vars
    <2>2. TypeOK' /\ ModeRestored'
      BY <1>6, <2>1 DEF vars, IInv, TypeOK, ModeRestored
    <2>3. SampledSoFar => SampledSoFar'
      BY <1>6, <2>1 DEF vars, SampledSoFar, Context
    <2>4. attended = {p \in Positions : p[2] <= Last(p[1])}
             => attended' = {p \in Positions' : p[2] <= Last(p[1])'}
      BY <1>6, <2>1, PositionFacts DEF vars, IInv, TypeOK
    <2>5. ThroughFirstEos' = ThroughFirstEos
      BY <1>6 DEF vars, ThroughFirstEos, Base
    <2> QED
      BY <1>6, <2>1, <2>2, <2>3, <2>4, <2>5 DEF vars, IInv, Phase, SampledAll
  <1> QED
    BY <1>1, <1>2, <1>3, <1>4, <1>5, <1>6 DEF Next

(* What the token loop has built, and what the mask is recomputed from, at *)
(* every point of sample_completions and supervised_batch.                 *)
THEOREM Invariance == Spec => []IInv
  BY InitInv, NextInv, PTL DEF Spec

(* The tensors of a batch are well formed.                                 *)
THEOREM TypeCorrect == Spec => []TypeOK
  <1>1. IInv => TypeOK
    BY DEF IInv
  <1> QED
    BY <1>1, Invariance, PTL

(* torch_completion_loss_mask accepts every batch, and of a sampled one it *)
(* selects exactly the sampled tokens.                                     *)
THEOREM MasksAreExact == Spec => []MaskIsWhatWasSampled
  <1>1. IInv => MaskIsWhatWasSampled
    BY MaskOfSampled, MaskOfSupervised DEF IInv, TypeOK, Phase, MaskIsWhatWasSampled
  <1> QED
    BY <1>1, Invariance, PTL

(* The log probabilities sample_completions keeps are those a forward pass *)
(* over the finished batch gives with the same parameters.                 *)
THEOREM RatiosStartAtOne == Spec => []LikelihoodsReproduce
  <1>1. IInv => LikelihoodsReproduce
    BY MaskOfSampled DEF IInv, Phase, SampledAll, SampledSoFar, LikelihoodsReproduce
  <1> QED
    BY <1>1, Invariance, PTL

(* A completion is one run of tokens up to its first EOS or the cap.       *)
THEOREM RowsAreWhole == Spec => []RowsEndOnce
  <1>1. IInv => RowsEndOnce
    <2> SUFFICES ASSUME IInv, pc = "done" PROVE RowsEndOnce
      BY DEF RowsEndOnce
    <2>1. CASE sampled
      <3>1. mask = DOMAIN logged /\ SampledAll /\ truncated = Rows \ finished
        BY <2>1, MaskOfSampled DEF IInv, Phase
      <3>2. /\ \A p \in DOMAIN logged : ~ InPrompt(p)
            /\ \A p \in DOMAIN logged, q \in Positions :
                  p[1] = q[1] /\ ~ InPrompt(q) /\ q[2] < p[2]
                      => q \in DOMAIN logged /\ ids[q] # Eos
        BY <3>1 DEF SampledAll, SampledSoFar, SameRow
      <3> QED
        BY <2>1, <3>1, <3>2, SampledRowsEnd DEF IInv, RowsEndOnce
    <2>2. CASE ~ sampled
      <3>1. /\ mask = ThroughFirstEos /\ truncated = {}
            /\ attended = {p \in Positions : p[2] <= Last(p[1])}
        BY <2>2 DEF IInv, Phase
      <3> QED
        BY <2>2, <3>1, MaskOfSupervised DEF IInv, RowsEndOnce, Base
    <2> QED
      BY <2>1, <2>2 DEF IInv, TypeOK
  <1> QED
    BY <1>1, Invariance, PTL

(* The model is back in its caller's mode after sampling, and after any    *)
(* exception in it.                                                        *)
THEOREM ModeIsRestored == Spec => []ModeRestored
  <1>1. IInv => ModeRestored
    BY DEF IInv
  <1> QED
    BY <1>1, Invariance, PTL

-----------------------------------------------------------------------------
\* What Trainer takes of a batch is the length of each row's completion.

LEMMA LeastNumber ==
    ASSUME NEW T \in SUBSET Nat, NEW x \in T
    PROVE  \E n \in T : \A m \in T : n <= m
  <1> DEFINE R == OpToRel(<, Nat)
  <1>1. IsWellFoundedOn(R, Nat)
    BY NatLessThanWellFounded
  <1>2. \A m, n \in Nat : m < n => <<m, n>> \in R
    BY DEF OpToRel
  <1> HIDE DEF R
  <1>3. PICK n \in T : \A m \in T : ~ (<<m, n>> \in R)
    BY <1>1, WFMin
  <1>4. \A m \in T : ~ (m < n)
    BY <1>2, <1>3
  <1>5. n \in Nat /\ T \subseteq Nat
    OBVIOUS
  <1> QED BY <1>4, <1>5

\* The completion mask of Trainer, each row's tokens behind its prompt.
BehindPrompts(positions) == {<<p[1], p[2] + Len(Prompts[p[1]])>> : p \in positions}

\* The lengths of the completions describe the mask.
MaskIsCompletions ==
    pc = "done" =>
        \E lengths \in [Rows -> Nat \ {0}] :
            /\ \A r \in Rows : lengths[r] <= Last(r) - Len(Prompts[r])
            /\ mask = BehindPrompts(CompletionMask(lengths))

\* No completion goes beyond its cap.
LEMMA MaskEnds ==
    ASSUME IInv, pc = "done", NEW p \in mask
    PROVE  p \in Positions /\ p[2] <= Last(p[1])
  <1>1. p \in Positions /\ sampled \in BOOLEAN
    BY DEF IInv, TypeOK
  <1>2. CASE sampled
    <2>1. p \in DOMAIN logged /\ step \in 0..MaxNewTokens
      BY <1>2, MaskOfSampled DEF IInv, Phase, TypeOK
    <2>2. p[2] < Start(p[1]) + step
      BY <1>2, <2>1 DEF IInv, Phase, SampledAll, SampledSoFar
    <2>3. p[1] \in Rows /\ p[2] \in Nat
      BY <1>1, PositionFacts
    <2>4. Len(Prompts[p[1]]) \in Nat
      BY <1>1, <2>3, RowFacts
    <2> QED BY <1>1, <1>2, <2>1, <2>2, <2>3, <2>4, ConfigAssumption DEF Start, Last
  <1>3. CASE ~ sampled
    BY <1>1, <1>3 DEF IInv, Phase, ThroughFirstEos, Base
  <1> QED BY <1>2, <1>3

(* Whatever is sampled or supervised, the mask is the CompletionMask of    *)
(* some lengths from one to the cap, which is all that Trainer assumes of  *)
(* a batch.                                                                *)
THEOREM MasksAreCompletions == Spec => []MaskIsCompletions
  <1>1. ASSUME IInv, RowsEndOnce, pc = "done" PROVE MaskIsCompletions
    <2> DEFINE prompt(r) == Len(Prompts[r])
               gaps(r) == {k \in Nat \ {0} : <<r, k + prompt(r)>> \notin mask}
    <2>0. /\ \A r \in Rows : prompt(r) \in Nat /\ Last(r) \in Nat /\ Last(r) > prompt(r)
          /\ \A p \in Positions : p = <<p[1], p[2]>> /\ p[1] \in Rows /\ p[2] \in Nat \ {0}
      <3>1. sampled \in BOOLEAN
        BY <1>1 DEF IInv, TypeOK
      <3>2. ASSUME NEW r \in Rows
            PROVE  prompt(r) \in Nat /\ Last(r) \in Nat /\ Last(r) > prompt(r)
        <4>1. Len(Prompts[r]) \in Nat /\ Last(r) \in Nat /\ Start(r) <= Last(r)
          BY <3>1, RowFacts
        <4> QED BY <4>1 DEF Start
      <3> QED BY <3>1, <3>2, PositionFacts
    <2>1. ASSUME NEW r \in Rows
          PROVE  \E k \in gaps(r) : /\ \A j \in gaps(r) : k <= j
                                    /\ k > 1 /\ k - 1 <= Last(r) - prompt(r)
      <3>1. prompt(r) \in Nat /\ Last(r) \in Nat /\ Last(r) > prompt(r)
        BY <2>0
      <3>2. <<r, prompt(r) + 1>> \in mask
        BY <1>1 DEF RowsEndOnce, Start
      <3> DEFINE c == Last(r) - prompt(r) + 1
      <3>3. c \in Nat \ {0} /\ c + prompt(r) = Last(r) + 1
        BY <3>1
      <3>4. c \in gaps(r)
        <4>1. <<r, c + prompt(r)>> \notin mask
          <5>1. ASSUME <<r, c + prompt(r)>> \in mask PROVE FALSE
            <6>1. c + prompt(r) <= Last(r)
              BY <1>1, <5>1, MaskEnds
            <6> QED BY <3>1, <3>3, <6>1
          <5> QED BY <5>1
        <4> QED BY <3>3, <4>1
      <3>5. PICK k \in gaps(r) : \A j \in gaps(r) : k <= j
        <4>1. gaps(r) \in SUBSET Nat
          OBVIOUS
        <4> HIDE DEF gaps
        <4> QED BY <3>4, <4>1, LeastNumber
      <3>6. k \in Nat \ {0} /\ k # 1
        BY <3>1, <3>2
      <3>7. k <= c
        BY <3>4, <3>5
      <3> HIDE DEF gaps
      <3> QED BY <3>1, <3>5, <3>6, <3>7
    <2> DEFINE first(r) == CHOOSE k \in gaps(r) : /\ \A j \in gaps(r) : k <= j
                                                  /\ k > 1 /\ k - 1 <= Last(r) - prompt(r)
               lengths == [r \in Rows |-> first(r) - 1]
    <2>2. \A r \in Rows : /\ first(r) \in gaps(r) /\ first(r) > 1
                          /\ \A j \in gaps(r) : first(r) <= j
                          /\ first(r) - 1 <= Last(r) - prompt(r)
      <3> HIDE DEF gaps
      <3> QED BY <2>1
    <2>3. \A r \in Rows : /\ first(r) \in Nat /\ first(r) > 1
                          /\ first(r) - 1 <= Last(r) - prompt(r)
                          /\ <<r, first(r) + prompt(r)>> \notin mask
                          /\ \A k \in Nat \ {0} : k < first(r) => <<r, k + prompt(r)>> \in mask
      <3> TAKE r \in Rows
      <3>1. /\ first(r) \in gaps(r) /\ first(r) > 1
            /\ first(r) - 1 <= Last(r) - prompt(r)
        BY <2>2
      <3>2. \A j \in gaps(r) : first(r) <= j
        BY <2>2
      <3> HIDE DEF first
      <3>3. first(r) \in Nat /\ <<r, first(r) + prompt(r)>> \notin mask
        BY <3>1
      <3>4. ASSUME NEW k \in Nat \ {0}, k < first(r) PROVE <<r, k + prompt(r)>> \in mask
        <4>1. k \notin gaps(r)
          <5> HIDE DEF gaps
          <5> QED BY <3>2, <3>3, <3>4
        <4> QED BY <4>1
      <3> QED BY <3>1, <3>3, <3>4
    <2> HIDE DEF first
    <2>4. lengths \in [Rows -> Nat \ {0}] /\ \A r \in Rows : lengths[r] = first(r) - 1
      <3>1. ASSUME NEW r \in Rows PROVE first(r) - 1 \in Nat \ {0}
        <4>1. first(r) \in Nat /\ first(r) > 1
          BY <2>3
        <4> QED BY <4>1
      <3> QED BY <3>1
    <2>5. \A q : q \in CompletionMask(lengths) <=>
                    \E r \in Rows, k \in Nat \ {0} : k < first(r) /\ q = <<r, k>>
      <3>1. DOMAIN lengths = Rows
        BY <2>4
      <3>2. ASSUME NEW r \in Rows PROVE 1..lengths[r] = {k \in Nat \ {0} : k < first(r)}
        <4>1. first(r) \in Nat /\ first(r) > 1 /\ lengths[r] = first(r) - 1
          BY <2>3, <2>4
        <4> HIDE DEF lengths
        <4> QED BY <4>1
      <3> HIDE DEF lengths
      <3> QED BY <3>1, <3>2 DEF CompletionMask
    <2> HIDE DEF lengths
    <2>6. ASSUME NEW p \in mask PROVE p \in BehindPrompts(CompletionMask(lengths))
      <3> DEFINE r == p[1]
                 k == p[2] - prompt(p[1])
      <3>1. p \in Positions /\ p = <<p[1], p[2]>> /\ r \in Rows /\ p[2] \in Nat
        BY <1>1, <2>0, MaskEnds
      <3>2. prompt(r) \in Nat
        BY <2>0, <3>1
      <3>3. ~ InPrompt(p)
        BY <1>1 DEF RowsEndOnce
      <3>4. k \in Nat \ {0} /\ k + prompt(r) = p[2]
        BY <3>1, <3>2, <3>3 DEF InPrompt, Start
      <3>5. k < first(r)
        <4>1. ASSUME first(r) <= k PROVE FALSE
          <5> DEFINE q == <<r, first(r) + prompt(r)>>
          <5>1. q \notin mask /\ first(r) \in Nat /\ first(r) > 1
            BY <2>3, <3>1
          <5>2. CASE first(r) = k
            BY <3>1, <3>4, <5>1, <5>2
          <5>3. CASE first(r) # k
            <6>1. q[2] < p[2] /\ q[2] \in Nat /\ q[2] > prompt(r)
              BY <3>1, <3>2, <3>4, <4>1, <5>1, <5>3
            <6>2. q \in Positions /\ ~ InPrompt(q) /\ q[1] = p[1]
              <7>1. PICK s \in Rows : p[2] \in 1..Last(s)
                BY <3>1 DEF Positions
              <7>2. Last(s) \in Nat
                BY <2>0
              <7>3. q[2] \in 1..Last(s)
                BY <3>1, <3>2, <6>1, <7>1, <7>2
              <7>4. q \in Positions
                BY <3>1, <7>3 DEF Positions
              <7>5. ~ (q[2] < Start(q[1]))
                BY <3>2, <6>1 DEF Start
              <7> QED BY <7>4, <7>5 DEF InPrompt
            <6> QED BY <1>1, <5>1, <6>1, <6>2 DEF RowsEndOnce
          <5> QED BY <5>2, <5>3
        <4>2. first(r) \in Nat
          BY <2>3, <3>1
        <4> QED BY <3>4, <4>1, <4>2
      <3>6. <<r, k>> \in CompletionMask(lengths)
        BY <2>5, <3>1, <3>4, <3>5
      <3>7. p = <<<<r, k>>[1], <<r, k>>[2] + Len(Prompts[<<r, k>>[1]])>>
        BY <3>1, <3>4
      <3> HIDE DEF k
      <3> QED BY <3>6, <3>7 DEF BehindPrompts
    <2>7. ASSUME NEW q \in CompletionMask(lengths)
          PROVE  <<q[1], q[2] + Len(Prompts[q[1]])>> \in mask
      <3>1. PICK r \in Rows, k \in Nat \ {0} : k < first(r) /\ q = <<r, k>>
        BY <2>5
      <3> QED BY <2>3, <3>1
    <2>8. mask = BehindPrompts(CompletionMask(lengths))
      BY <2>6, <2>7 DEF BehindPrompts
    <2>9. \A r \in Rows : lengths[r] <= Last(r) - Len(Prompts[r])
      BY <2>3, <2>4
    <2> QED BY <2>4, <2>8, <2>9 DEF MaskIsCompletions
  <1>2. IInv /\ RowsEndOnce => MaskIsCompletions
    BY <1>1 DEF MaskIsCompletions
  <1> QED
    BY <1>2, Invariance, RowsAreWhole, PTL

=============================================================================
