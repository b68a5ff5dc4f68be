------------------------------- MODULE ExactMath -------------------------------
(***************************************************************************)
(* The exact math verifier (rewards/verifier.py): which part of a response *)
(* is its answer, whether that answer is one mathematical object, and      *)
(* whether it is the reference's.  A text is a sequence of tokens: "box"   *)
(* is a \boxed command, "answer:" a text marker, "not" a word that negates *)
(* one on its line, "code" a delimiter of inline code and "fence" a line   *)
(* of backticks that fences code, with the breaks around it.  The parser   *)
(* and the comparison are a library's.                                     *)
(***************************************************************************)
EXTENDS Integers, SequencesExt

CONSTANTS
    Numbers, Symbols,
    Groups,         \* parenthesised primaries, as in 1(41)
    Prose,          \* words of several letters
    Connectives,    \* the words among them that no answer holds
    Units,          \* text-like commands with a unit, \text{cm}
    Payloads,       \* the other text-like commands
    Limits,         \* the policy: [input, candidate, direct, strict, setRelations]
    Reads(_, _),    \* what the parser makes of a role's candidate: [status, values]
    Equates(_, _),  \* the comparison: "equal", "different", "timeout" or "error"
    Openings,       \* ways a response begins: [text, closed]
    Claims,         \* ways it claims an answer: [text, values], Breakdown among
                    \* them if the parser raises
    Breakdown,
    Remarks         \* ways it goes on

\* VerifierPolicy.__post_init__.
PolicyHolds(limits) ==
    /\ {limits.input, limits.candidate, limits.direct} \subseteq Nat \ {0}
    /\ limits.direct <= limits.candidate
    /\ limits.candidate <= limits.input
    /\ {limits.strict, limits.setRelations} \subseteq BOOLEAN

ASSUME LimitsAssumption == PolicyHolds(Limits) /\ Connectives \subseteq Prose

Code == {"code", "fence"}
Claiming == {"answer:", "<answer>", "</answer>"}
Breaks == {"\n", "fence"}

Strip(text) ==
    LET kept == {k \in DOMAIN text : text[k] # "\n"} IN
    IF kept = {} THEN <<>> ELSE SubSeq(text, Min(kept), Max(kept))

\* _clean_text_marker_candidate: without the full stop of the sentence.
Clean(text) ==
    LET kept == Strip(text) IN
    IF IsSuffix(<<".">>, kept) /\ ~ IsSuffix(<<".", ".">>, kept) THEN Strip(Front(kept)) ELSE kept

Times(text, from, upto, token) == Cardinality({k \in from..upto : text[k] = token})

Fenced(text, i) == Times(text, 1, i - 1, "fence") % 2 = 1

InCode(text, i) ==
    \/ Fenced(text, i)
    \/ Cardinality({k \in 1..(i - 1) : text[k] = "code" /\ ~ Fenced(text, k)}) % 2 = 1

\* The first place from i on where text has a token of the set, or its end.
NextOf(text, i, tokens) ==
    Min({k \in i..(Len(text) + 1) : k = Len(text) + 1 \/ text[k] \in tokens})

\* The first place from i on that is no break, or the end of text.
PastBreaks(text, i) ==
    Min({k \in i..(Len(text) + 1) : k = Len(text) + 1 \/ text[k] # "\n"})

\* Where the line ends that i is on; a fence is a line of its own.
LineEnd(text, i) ==
    IF i <= Len(text) /\ text[i] = "fence" THEN i + 1 ELSE NextOf(text, i, Breaks)

\* A place that claims to be the answer, up to but not including end; one
\* without a candidate is malformed.
Surface(start, end, candidate) == [start |-> start, end |-> end, candidate |-> candidate]

BoxSurface(text, i) ==
    LET rest == Len(text) + 1
        brace == PastBreaks(text, i + 1)
        closings == {k \in brace..Len(text) :
                        Times(text, brace, k, "{") = Times(text, brace, k, "}")}
    IN  IF InCode(text, i) \/ brace = rest \/ text[brace] # "{" THEN Surface(i, i + 1, <<>>)
        ELSE IF closings = {} THEN Surface(i, rest, <<>>)
        ELSE Surface(i, Min(closings) + 1, Strip(SubSeq(text, brace + 1, Min(closings) - 1)))

\* One more token: the opening tags that are open, and those with another open
\* around them or within them.
TagsAfter(tags, text, i) ==
    CASE text[i] = "<answer>" ->
            [open |-> Append(tags.open, i),
             nested |-> IF tags.open = <<>> THEN tags.nested
                        ELSE tags.nested \cup ToSet(tags.open) \cup {i}]
      [] text[i] = "</answer>" /\ tags.open # <<>> -> [tags EXCEPT !.open = Front(@)]
      [] OTHER -> tags

\* Those after the first i tokens.
Tags(text, i) ==
    LET after[k \in 0..Len(text)] ==
            IF k = 0 THEN [open |-> <<>>, nested |-> {}] ELSE TagsAfter(after[k - 1], text, k)
    IN  after[i]

NestedTags(text) == Tags(text, Len(text)).nested

TagSurface(text, i) ==
    LET rest == Len(text) + 1
        closing == NextOf(text, i + 1, {"</answer>"})
    IN  IF InCode(text, i) THEN Surface(i, i + 1, <<>>)
        ELSE IF i \in NestedTags(text) \/ closing = rest
                \/ NextOf(text, i + 1, {"<answer>"}) < closing THEN Surface(i, rest, <<>>)
        ELSE Surface(i, closing + 1, Strip(SubSeq(text, i + 1, closing - 1)))

Container(text, i) ==
    IF text[i] = "box" THEN BoxSurface(text, i) ELSE TagSurface(text, i)

\* Slip: a container holds what it encloses only once it is closed.
ContainersThatClose(text) ==
    LET from[i \in 1..(Len(text) + 1)] ==
            CASE i > Len(text) -> {}
              [] i <= Len(text) /\ text[i] \in {"box", "<answer>"} ->
                    LET c == Container(text, i) IN
                    {c} \cup from[IF c.candidate = <<>> THEN i + 1 ELSE c.end]
              [] OTHER -> from[i + 1]
    IN  from[1]

\* The boxes and the tags, without those that begin inside another.
Containers(text) ==
    LET from[i \in 1..(Len(text) + 1)] ==
            CASE i > Len(text) -> {}
              [] i <= Len(text) /\ text[i] \in {"box", "<answer>"} ->
                    LET c == Container(text, i) IN {c} \cup from[c.end]
              [] OTHER -> from[i + 1]
    IN  from[1]

\* A marker takes the breaks behind it along: its value is on the next line that
\* is not empty, whatever that says.
MarkerSurface(text, i) ==
    LET value == PastBreaks(text, i + 1)
        line == LineEnd(text, value)
    IN  IF InCode(text, i) THEN Surface(i, value, <<>>)
        ELSE Surface(i, line, Clean(SubSeq(text, value, line - 1)))

\* In the same clause.
Negated(text, i) ==
    \E k \in 1..(i - 1) : text[k] = "not" /\ NextOf(text, k, Breaks \cup {"."}) > i

Markers(text) ==
    {MarkerSurface(text, i) : i \in
        {k \in DOMAIN text : text[k] = "answer:" /\ (InCode(text, k) \/ ~ Negated(text, k))}}

LooksDirect(text) ==
    /\ Len(text) \in 1..Limits.direct
    /\ ToSet(text) \cap (Code \cup Claiming \cup Prose \cup Payloads \cup {"not", "\n"}) = {}

\* _bounded_input; control characters are not among the tokens.
Bounded(text) ==
    IF Strip(text) = <<>> THEN "empty_input"
    ELSE IF Len(text) > Limits.input THEN "input_too_long"
    ELSE "extracted"

Extraction(status, candidate) == [status |-> status, candidate |-> candidate]

ExtractReference(text) ==
    LET candidate == Strip(text) IN
    IF Bounded(text) # "extracted" THEN Extraction(Bounded(text), <<>>)
    ELSE IF Len(candidate) > Limits.candidate THEN Extraction("candidate_too_long", <<>>)
    ELSE Extraction("extracted", candidate)

\* Of the containers, and the markers outside of them, the one that starts last.
Terminal(containers, markers) ==
    LET outside == {s \in markers :
                       \A c \in containers : s.start \notin c.start..(c.end - 1)}
    IN  {s \in containers \cup outside : \A r \in containers \cup outside : r.start <= s.start}

\* A response without a surface may be nothing but the answer.
Direct(text) ==
    IF LooksDirect(text) THEN Extraction("extracted", text) ELSE Extraction("no_final_answer", <<>>)

\* What a surface, the terminal one, encloses.
Enclosed(candidate) ==
    CASE candidate = <<>> -> Extraction("malformed_final_answer", <<>>)
      [] Len(candidate) > Limits.candidate -> Extraction("candidate_too_long", <<>>)
      [] OTHER -> Extraction("extracted", candidate)

Selected(text, terminal) ==
    IF terminal = {} THEN Direct(Strip(text)) ELSE Enclosed((CHOOSE s \in terminal : TRUE).candidate)

ExtractPrediction(text) ==
    IF Bounded(text) # "extracted" THEN Extraction(Bounded(text), <<>>)
    ELSE Selected(text, Terminal(Containers(text), Markers(text)))

-----------------------------------------------------------------------------

\* A text that is one container is what that encloses; one with any other is no
\* answer.
Unwrap(text, containers) ==
    CASE containers = {} -> text
      [] \E c \in containers : containers = {c} /\ c.start = 1 /\ c.end = Len(text) + 1 ->
            (CHOOSE c \in containers : TRUE).candidate
      [] OTHER -> <<>>

\* Up to four containers are unwrapped.
Canonical(candidate) ==
    LET unwrapped(text) == Unwrap(text, Containers(text))
        twice(text) == unwrapped(unwrapped(text))
        bare(text) == IF Containers(text) = {} THEN text ELSE <<>>
    IN  bare(twice(twice(candidate)))

TextIsUnit(candidate) ==
    LET commands == {k \in DOMAIN candidate : candidate[k] \in Units \cup Payloads} IN
    \/ commands = {}
    \/ Len(candidate) > 1 /\ commands = {Len(candidate)} /\ Last(candidate) \in Units

LooksSingle(candidate) ==
    /\ Len(candidate) \in 1..Limits.candidate
    /\ TextIsUnit(candidate)
    /\ ToSet(candidate) \cap (Code \cup Claiming \cup Connectives \cup {"not", "\n"}) = {}
    /\ Times(candidate, 1, Len(candidate), "=") <= 1
    /\ \A i \in 1..(Len(candidate) - 1) : ~ {candidate[i], candidate[i + 1]} \subseteq Numbers

\* A product that is written by putting two factors side by side, with its sign.
ExplicitProducts(candidate) ==
    FlattenSeq([i \in DOMAIN candidate |->
        IF /\ i > 1
           /\ candidate[i - 1] \in Numbers \cup Groups \cup {"}"}
           /\ candidate[i] \in Numbers \cup Groups \cup {"{"}
        THEN <<"cdot", candidate[i]>>
        ELSE <<candidate[i]>>])

NoValue(status) == [status |-> status, values |-> <<>>]

\* What was read stands if the candidate reads the same with its products made
\* explicit.
Confirmed(read, again) ==
    IF read.status # "parsed" \/ again = read THEN read
    ELSE NoValue(IF again.status \in {"timeout", "backend_error"} THEN again.status
                 ELSE "unparseable")

ParseCandidate(candidate, role) ==
    IF ~ TextIsUnit(candidate) \/ (role = "prediction" /\ ~ LooksSingle(candidate))
    THEN NoValue("unparseable")
    ELSE Confirmed(Reads(role, candidate), Reads(role, ExplicitProducts(candidate)))

\* _parse_extraction, in the main thread of a process.
ParseExtraction(extraction, role) ==
    IF extraction.status # "extracted" THEN NoValue("not_extracted")
    ELSE ParseCandidate(IF role = "reference" THEN extraction.candidate
                        ELSE Canonical(extraction.candidate), role)

\* The cache of parse_reference keeps successes only; the parser is a function
\* here, so that it makes no difference.
ParseReference(text) == ParseExtraction(ExtractReference(text), "reference")
ParsePrediction(text) == ParseExtraction(ExtractPrediction(text), "prediction")

-----------------------------------------------------------------------------

\* A value is a relation of two operands, or something of another family.
Scalar(n) == [family |-> "scalar", of |-> n]
Relation(op, lhs, rhs) == [family |-> "relation", op |-> op, lhs |-> lhs, rhs |-> rhs]

\* A set, empty or with the symbol and the value it is assigned.
SimpleAssignment(value) ==
    IF value.family = "relation" /\ value.op = "=" /\ value.lhs \in Symbols \ {value.rhs}
    THEN {[symbol |-> value.lhs, value |-> Scalar(value.rhs)]}
    ELSE {}

ReversibleAssignment(value) ==
    IF SimpleAssignment(value) # {} \/ value.family # "relation" THEN SimpleAssignment(value)
    ELSE SimpleAssignment(Relation(value.op, value.rhs, value.lhs))

\* What the library calls canonical: a lone number stands on the right.
CanonicalRelation(value) ==
    IF value.lhs \in Numbers /\ value.rhs \in Symbols
    THEN Relation(IF value.op = "<" THEN ">" ELSE "<", value.rhs, value.lhs)
    ELSE value

\* The pair to compare for two relations, or no pair.
RelationPairs(reference, prediction) ==
    LET golds == ReversibleAssignment(reference)
        answers == ReversibleAssignment(prediction)
        gold == CanonicalRelation(reference)
        answer == CanonicalRelation(prediction)
        free(value) == {value.lhs, value.rhs} \cap Symbols
    IN  CASE golds \cup answers # {} ->
                {<<c[1].value, c[2].value>> : c \in {d \in golds \X answers :
                    Limits.strict => d[1].symbol = d[2].symbol}}
          [] golds \cup answers = {} /\ "=" \in {reference.op, prediction.op} ->
                IF reference = prediction THEN {<<reference, prediction>>} ELSE {}
          [] OTHER ->
                IF /\ gold.op = answer.op
                   /\ Limits.strict => free(gold) = free(answer)
                   /\ free(gold) = {} => gold = answer
                THEN {<<gold, answer>>} ELSE {}

\* _compatible_comparison_pair.
Pairs(reference, prediction) ==
    LET families == {reference.family, prediction.family}
        both == {<<reference, prediction>>}
    IN  CASE families = {"relation"} -> RelationPairs(reference, prediction)
          [] families = {"logical_relation"} -> IF reference = prediction THEN both ELSE {}
          [] families = {"relation", "scalar"} /\ reference.family = "relation" ->
                {<<a.value, prediction>> : a \in SimpleAssignment(reference)}
          [] families = {"relation", "scalar"} /\ reference.family = "scalar" ->
                {<<reference, a.value>> : a \in SimpleAssignment(prediction)}
          [] OTHER ->
                IF \/ Cardinality(families) = 1
                   \/ families \subseteq {"finite_set", "set"}
                   \/ /\ Limits.setRelations
                      /\ "relation" \in families
                      /\ families \cap {"finite_set", "interval", "set"} # {}
                THEN both ELSE {}

ComparisonPairs(references, predictions) ==
    FlattenSeq([i \in DOMAIN references |->
        FlattenSeq([j \in DOMAIN predictions |->
            SetToSeq(Pairs(references[i], predictions[j]))])])

\* Pairs are compared until one is equal or its comparison fails.
Outcome(outcome) ==
    CASE outcome = "timeout" -> "verification_timeout"
      [] outcome = "error" -> "backend_error"
      [] OTHER -> "match"

Compared(pairs) ==
    LET decided == {k \in DOMAIN pairs : Equates(pairs[k][1], pairs[k][2]) # "different"} IN
    IF decided = {} THEN "mismatch"
    ELSE Outcome(Equates(pairs[Min(decided)][1], pairs[Min(decided)][2]))

Decided(gold, answer) ==
    CASE answer.status = "not_extracted" -> "prediction_not_extracted"
      [] answer.status = "unparseable" -> "prediction_unparseable"
      [] answer.status = "timeout" -> "prediction_timeout"
      [] answer.status = "backend_error" -> "backend_error"
      [] OTHER -> Compared(ComparisonPairs(gold.values, answer.values))

VerifyParsed(gold, prediction) ==
    CASE gold.status = "parsed" -> Decided(gold, ParsePrediction(prediction))
      [] gold.status \in {"timeout", "backend_error"} -> "backend_error"
      [] OTHER -> "reference_invalid"

Verify(reference, prediction) == VerifyParsed(ParseReference(reference), prediction)

\* The decisions that are no reward, not even 0.
Unassignable == {"reference_invalid", "backend_error"}
Reward(status) == IF status = "match" THEN 1 ELSE 0

\* A batch has all of its rewards or none.
Rewards(results) ==
    IF \E k \in DOMAIN results : results[k] \in Unassignable THEN <<>>
    ELSE [k \in DOMAIN results |-> Reward(results[k])]

\* The references come first.
ScoreBatch(references, predictions) ==
    LET golds == [k \in DOMAIN references |-> ParseReference(references[k])] IN
    IF \/ Len(references) # Len(predictions) \/ references = <<>>
       \/ \E k \in DOMAIN golds : golds[k].status # "parsed"
    THEN <<>>
    ELSE Rewards([k \in DOMAIN golds |-> VerifyParsed(golds[k], predictions[k])])

\* What an evaluation records of a decision: _math_decision.
Recorded(status) ==
    CASE status \in Unassignable -> "gold"
      [] status = "match" -> "match"
      [] status = "prediction_not_extracted" -> "not_extracted"
      [] status \in {"prediction_unparseable", "prediction_timeout"} -> "unparseable"
      [] OTHER -> "mismatch"

Judgement(reference, prediction) == Recorded(Verify(reference, prediction))

-----------------------------------------------------------------------------

\* Two values are one answer: the same, a number and what a symbol is said to
\* equal, or a relation read from its other side.
SameAnswer(v, w) ==
    \/ v = w
    \/ \E x \in Symbols, n \in Numbers :
          \/ {v, w} = {Scalar(n), Relation("=", x, n)}
          \/ {v, w} = {Relation("=", n, x), Relation("=", x, n)}
          \/ {v, w} = {Relation("<", n, x), Relation(">", x, n)}
          \/ {v, w} = {Relation(">", n, x), Relation("<", x, n)}

\* The rewards of a response are those its claim, alone, deserves.
JudgedByClaim(references, before, claim, after) ==
    LET text == before.text \o claim.text \o after
        golds == [k \in DOMAIN references |-> ToSet(Reads("reference", references[k]).values)]
        answers == IF before.closed THEN claim.values ELSE {}
        deserved(values) ==
            IF \E v \in values, w \in answers : SameAnswer(v, w) THEN 1 ELSE 0
    IN  ScoreBatch(references, [k \in DOMAIN references |-> text]) =
            IF (\E k \in DOMAIN golds : golds[k] = {}) \/ answers = {Breakdown}
            THEN <<>>
            ELSE [k \in DOMAIN golds |-> deserved(golds[k])]

===============================================================================
