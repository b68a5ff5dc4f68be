---------------------------- MODULE Contamination ----------------------------
(***************************************************************************)
(* data/contamination.py: the normalized fragments of a record, the        *)
(* retrieval of candidate pairs through inverted n-gram indices, their     *)
(* exact, fuzzy or review classification, and the report.                  *)
(*                                                                         *)
(* A content is a sequence of [field, text], a text a sequence of symbols. *)
(* Normalization turns a symbol into a lexeme of one character, or nothing *)
(* (spacing); so n-grams of characters and of tokens are windows, of two   *)
(* sizes, over the lexemes.  A policy is [character, token, exact, fuzzy,  *)
(* jaccard, containment, margin, exempt].                                  *)
(***************************************************************************)
EXTENDS Integers, Sequences, FiniteSets, SequencesExt

CONSTANTS
    LexemeOf,   \* the lexeme of a symbol, or NoLexeme
    NoLexeme

\* Scores and thresholds are in parts per million.
PPM == 1000000

\* ContaminationPolicy.__post_init__.
PolicyHolds(policy) ==
    /\ policy.character \in 2..16 /\ policy.token \in 1..8
    /\ policy.exact \in Nat \ {0} /\ policy.fuzzy \in Nat /\ policy.fuzzy >= policy.exact
    /\ policy.jaccard \in 1..PPM /\ policy.containment \in 1..PPM
    /\ policy.margin \in Nat
    /\ policy.margin < policy.jaccard /\ policy.margin < policy.containment

MESSAGES == {"user", "system", "assistant", "tool"}
CONTEXT == {"system", "tool"}
SOLUTION == {"reference_answer", "response", "assistant", "tool"}

\* What DataRecord.contamination_fields gives of a record.
ContentHolds(content) ==
    content \in Seq([field : {"problem"} \cup MESSAGES \cup SOLUTION, text : Seq(DOMAIN LexemeOf)])

\* The members that pass a test, in their order.
Those(s, Test(_)) ==
    FlattenSeq([i \in DOMAIN s |-> IF Test(s[i]) THEN <<s[i]>> ELSE <<>>])

\* normalize_for_contamination.
Normalized(text) ==
    Those([i \in DOMAIN text |-> LexemeOf[text[i]]], LAMBDA l : l # NoLexeme)

\* Lexemes are joined by single spaces.
Chars(fragment) == 2 * Len(fragment) - 1

\* The normalized fields a scan reads: an exempt context is left out.
Fields(content, policy) ==
    Those([i \in DOMAIN content |->
              [field |-> content[i].field, text |-> Normalized(content[i].text)]],
          LAMBDA f : /\ f.text # <<>>
                     /\ ~ (f.field \in CONTEXT /\ f.text \in policy.exempt))

\* The fields of some kinds joined, when there are two or more.
Aggregate(fields, kinds) ==
    LET parts == Those(fields, LAMBDA f : f.field \in kinds) IN
    IF Len(parts) < 2 THEN {} ELSE {FlattenSeq([i \in DOMAIN parts |-> parts[i].text])}

\* _fingerprints of one record.
Fragments(content, policy) ==
    LET fields == Fields(content, policy) IN
    {fields[i].text : i \in DOMAIN fields}
        \cup Aggregate(fields, {"problem"} \cup MESSAGES)
        \cup Aggregate(fields, SOLUTION)
        \cup Aggregate(fields, {"problem"} \cup MESSAGES \cup SOLUTION)

\* _ngrams.
Ngrams(fragment, size) ==
    IF Len(fragment) < size
    THEN {fragment}
    ELSE {SubSeq(fragment, i, i + size - 1) : i \in 1..(Len(fragment) - size + 1)}

\* round, to the nearest, ties to the even.
Round(a, b) ==
    LET q == a \div b
        r == a % b
    IN  IF 2 * r > b \/ (2 * r = b /\ q % 2 = 1) THEN q + 1 ELSE q

Smaller(a, b) == IF a < b THEN a ELSE b

\* _scores, in ppm.
Jaccard(left, right) ==
    LET both == Cardinality(left \cap right) IN
    Round(both * PPM, (Cardinality(left) + Cardinality(right)) - both)

Containment(left, right) ==
    Round(Cardinality(left \cap right) * PPM,
          Smaller(Cardinality(left), Cardinality(right)))

\* A score of either n-gram size reaches its threshold, up to a margin.
Reaches(left, right, policy, margin) ==
    \E size \in {policy.character, policy.token} :
        LET l == Ngrams(left, size)
            r == Ngrams(right, size)
        IN  \/ Jaccard(l, r) >= policy.jaccard - margin
            \/ Containment(l, r) >= policy.containment - margin

\* _classify_pair.
Classify(left, right, policy) ==
    LET shorter == Smaller(Chars(left), Chars(right)) IN
    CASE left = right /\ shorter >= policy.exact -> "exact"
      [] ~ (left = right /\ shorter >= policy.exact) ->
            IF shorter < policy.fuzzy THEN "none"
            ELSE IF Reaches(left, right, policy, 0) THEN "fuzzy"
            ELSE IF Reaches(left, right, policy, policy.margin) THEN "review"
            ELSE "none"

Share(left, right, size) == Ngrams(left, size) \cap Ngrams(right, size) # {}

\* Slip: only the token index is kept.
RetrievedByToken(fragment, other, policy) ==
    \/ fragment = other
    \/ /\ Chars(fragment) >= policy.fuzzy /\ Chars(other) >= policy.fuzzy
       /\ Share(fragment, other, policy.token)

\* The training fragments an evaluation fragment is compared with: those with
\* its hash or, of those long enough for a fuzzy match, with one of its n-grams.
Retrieved(fragment, other, policy) ==
    \/ fragment = other
    \/ /\ Chars(fragment) >= policy.fuzzy /\ Chars(other) >= policy.fuzzy
       /\ \/ Share(fragment, other, policy.character)
          \/ Share(fragment, other, policy.token)

\* The kinds of match between two records.
Kinds(train, eval, policy) ==
    {Classify(p[1], p[2], policy) : p \in
        {q \in Fragments(train.content, policy) \X Fragments(eval.content, policy) :
            Retrieved(q[1], q[2], policy)}} \ {"none"}

\* _preferred_match, as far as the kind.
Best(kinds) ==
    IF "exact" \in kinds THEN "exact" ELSE IF "fuzzy" \in kinds THEN "fuzzy" ELSE "review"

\* scan_contamination accepts the two sides.
ScanHolds(training, evaluation, splits) ==
    /\ training # {} /\ evaluation # {}
    /\ \A t \in training : t.split \in splits
    /\ \A e \in evaluation : e.split = "evaluation"
    /\ \A r, s \in training \cup evaluation : r.id = s.id => r = s

\* The matches of the report, the best of each pair of records.
Scan(training, evaluation, policy) ==
    {[train |-> p[1].id, eval |-> p[2].id, kind |-> Best(Kinds(p[1], p[2], policy))] :
        p \in {q \in training \X evaluation : Kinds(q[1], q[2], policy) # {}}}

==============================================================================
