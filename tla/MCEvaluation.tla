----------------------------- MODULE MCEvaluation -----------------------------
(***************************************************************************)
(* A benchmark of two items, sound and in every way ill formed; a greedy   *)
(* protocol with every kind of outcome, and three samples of each item     *)
(* with right and wrong ones; backends that reverse, drop, repeat and      *)
(* invent responses; and for the verifier 1300 texts, each against every   *)
(* benchmark's references.                                                 *)
(***************************************************************************)
EXTENDS Evaluation, ExactMath

CONSTANTS a, b, p, q, v1, v2, eos, word, sampler, exact, label, elsewhere

Item(id, i, prompt) == [revision |-> v1, id |-> id, index |-> i, prompt |-> prompt]
Answer(id, reference) == [revision |-> v1, id |-> id, reference |-> reference]

Items == <<Item(a, 1, p), Item(b, 2, q)>>

Benchmark(items, answers) ==
    [revision |-> v1, task |-> exact, count |-> 2, public |-> items, sealed |-> answers]

four == <<"4">>
five == <<"5">>
junk == <<"so">>
good == <<"so", "box", "{", "4", "}">>
bad == <<"box", "{", "4", "}", "so", "answer:", "5">>
mute == <<"so", "so">>
cut == <<"answer:", "4">>

SmallDescriptors ==
    {Benchmark(Items, answers) : answers \in
        {<<Answer(a, four), Answer(b, five)>>, <<Answer(b, five), Answer(a, four)>>,
         <<Answer(a, four), Answer(a, five)>>, <<Answer(a, four)>>,
         <<Answer(a, junk), Answer(b, five)>>,
         <<Answer(a, <<"x", "=", "4">>), Answer(b, <<"4", "=", "x">>)>>,
         <<Answer(a, <<"x", "<", "4">>), Answer(b, <<"set">>)>>,
         <<Answer(a, <<"4", ",", "5">>), Answer(b, <<"4", "=", "5">>)>>,
         <<Answer(a, <<"crash">>), Answer(b, four)>>}}
    \cup {Benchmark(items, <<Answer(a, four), Answer(b, five)>>) : items \in
        {<<Item(b, 2, q), Item(a, 1, p)>>, <<Item(a, 1, p), Item(a, 2, q)>>,
         <<Item(a, 1, p), [Item(b, 2, q) EXCEPT !.revision = v2]>>}}

Protocol(mode, samples, how) ==
    [mode |-> mode, samples |-> samples, cap |-> 2, eos |-> eos, stops |-> {eos},
     sampler |-> how]

SmallProtocols ==
    {Protocol("greedy", 1, NoSeed), Protocol("sampling", 3, sampler),
     Protocol("greedy", 3, NoSeed)}

SmallContracts ==
    {[task |-> exact, ks |-> {1}, policy |-> Policy],
     [task |-> exact, ks |-> {1, 2}, policy |-> Policy],
     [task |-> exact, ks |-> {1}, policy |-> elsewhere],
     [task |-> label, ks |-> {1}, policy |-> Policy]}

Says(text, tokens, reason) ==
    [status |-> "completed", text |-> text, tokens |-> tokens, reason |-> reason]

Ordinary == {Says(good, <<word, eos>>, "eos"), Says(bad, <<word, word>>, "length"),
             [status |-> "failed"]}

SmallOutcomes ==
    [greedy |-> Ordinary \cup
        {Says(mute, <<eos>>, "stop_token"), Says(cut, <<word>>, "stop_sequence"),
         Says(good, <<word>>, "length"), Says(good, <<word, word, eos>>, "eos"),
         Says(good, <<word>>, "stop_token"), Says(good, <<word>>, "stop_sequence")},
     sampling |-> Ordinary]

\* In order, reversed, the first left out, repeated or for nobody's request.
SmallArrivals(n) ==
    LET all == [i \in 1..n |-> i] IN
    {all, Reverse(all), Tail(all), Append(all, 1), Append(Tail(all), 0)}

SmallStops == {cut}

SmallVerdict ==
    LET references(d) == {d.sealed[i].reference : i \in DOMAIN d.sealed} IN
    [c \in (UNION {references(d) : d \in SmallDescriptors}) \X {good, bad, mute, cut} |->
        Judgement(c[1], c[2])]

-----------------------------------------------------------------------------

SmallLimits ==
    [input |-> 36, candidate |-> 16, direct |-> 3, strict |-> TRUE, setRelations |-> FALSE]

Is(value) == [status |-> "parsed", values |-> <<value>>]

\* The parser reads "4(1)" as a mixed number, and drops what it cannot read
\* after a number.
SmallReads(role, c) ==
    CASE Len(c) = 1 /\ c[1] \in Numbers -> Is(Scalar(c[1]))
      [] Len(c) = 3 /\ c[2] \in {"=", "<", ">"} -> Is(Relation(c[2], c[1], c[3]))
      [] c = <<"4", "(1)">> -> Is(Scalar("5"))
      [] c = <<"4", "cdot", "(1)">> -> Is(Scalar("4"))
      [] c \in {<<"4", "(x)">>, <<"4", "cdot", "(x)">>} -> Is(Scalar("4x"))
      [] c = <<"tuple">> -> Is([family |-> "tuple", of |-> "4,5"])
      [] c = <<"set">> -> Is([family |-> "finite_set", of |-> "4,5"])
      [] c = <<"slow">> -> Is(Scalar("slow"))
      [] c = <<"4", ",", "5">> /\ role = "reference" ->
            [status |-> "parsed", values |-> <<Scalar("4"), Scalar("5")>>]
      [] c = <<"tower">> -> [status |-> "timeout", values |-> <<>>]
      [] c = <<"crash">> -> [status |-> "backend_error", values |-> <<>>]
      [] OTHER -> IF c # <<>> /\ c[1] \in Numbers THEN Is(Scalar(c[1]))
                  ELSE [status |-> "unparseable", values |-> <<>>]

\* The comparison does not tell a tuple from a set.
SmallEquates(v, w) ==
    CASE Scalar("slow") \in {v, w} -> "timeout"
      [] IF "relation" \in {v.family, w.family} THEN v = w ELSE v.of = w.of -> "equal"
      [] OTHER -> "different"

Box(text) == <<"box", "{">> \o text \o <<"}">>
Tag(text) == <<"<answer>">> \o text \o <<"</answer>">>
Marker(text) == <<"answer:">> \o text

Opening(text, closed) == [text |-> text, closed |-> closed]

SmallOpenings ==
    {Opening(text, TRUE) : text \in
        {<<>>, Box(<<"4">>), Tag(<<"5">>), Marker(<<"4">>), Marker(<<>>), <<"box">>,
         <<"code">> \o Box(<<"4">>) \o <<"code">>,
         <<"fence">> \o Marker(<<"5">>) \o <<"code", "fence">>}}
    \cup {Opening(text, FALSE) : text \in
        {<<"box", "{", "4">>, <<"<answer>", "5">>, <<"fence", "so">>}}

SmallRemarks == {<<>>, <<"\n", "5", ".", "\n", "so", "not", "answer:", "5">>}

Claim(text, values) == [text |-> text, values |-> values]

\* What reads well, in each of its surfaces, and one within the other.
SmallClaims ==
    {Claim(<<"\n">> \o text, {Scalar("4")}) : text \in
        {Box(<<"4">>), Tag(<<"\n", "4">>), Marker(<<"4">>), Tag(Box(<<"4">>)),
         Box(Box(<<"4">>)), Marker(Box(<<"4">>)), Marker(<<"4", "cm">>), Marker(<<"4", ".">>),
         <<"not", ".">> \o Marker(<<"4">>), Marker(<<"\n", "\n", "4">>),
         Box(Box(Box(Box(Box(<<"4">>)))))}}
    \cup {Claim(<<"\n">> \o text, {}) : text \in
        {<<"box">>, <<"box", "4">>, <<"box", "{", "4">>, Box(<<>>), <<"<answer>", "4">>,
         Tag(Tag(<<"4">>)), Tag(<<"5">> \o Box(<<"4">>)), Box(Marker(<<"4">>)),
         <<"box", "{">> \o Tag(<<"4">>), Marker(<<>>), Marker(<<"fence", "4", "fence">>),
         Marker(<<"\n", "so", "not", "answer:", "4">>), Marker(<<"4", "5">>),
         Marker(<<"4", "but", "5">>), Marker(<<"4", "cm", "5">>), Marker(<<"4", "no">>),
         Marker(<<"4", "(1)">>), Marker(<<"code", "4", "code">>), Marker(<<"5", "=", "x", "=", "4">>),
         Marker(<<"tower">>), Marker(<<"slow">>), Box(Box(Box(Box(Box(Box(<<"4">>))))))}}
    \cup {Claim(<<"\n">> \o Marker(text), ToSet(SmallReads("prediction", text).values)) : text \in
        {<<"5">>, <<"4", "(x)">>, <<"tuple">>, <<"set">>} \cup
        {<<l, op, r>> : l \in {"4", "x"}, r \in {"4", "5", "x", "y"}, op \in {"=", "<", ">"}}}
    \cup {Claim(<<"\n">> \o Marker(<<"crash">>), {Breakdown})}

-----------------------------------------------------------------------------

\* Whatever is answered, the last thing a response claims, alone, decides its
\* reward: not an earlier claim, not what an unclosed box, tag or fence before
\* it encloses, not what is said on the lines after it; a malformed or ambiguous
\* one is wrong.  The value of a marker may be on a later line: what is said
\* after one that ends its line belongs to the claim.  Two answers are the same
\* only if they are of one kind.  A batch has no rewards at all if one of the
\* benchmark's references cannot be parsed or the parser breaks down
\* (docs/algorithms/EXACT_MATH_VERIFIER.md, Prediction extraction; Reward
\* failure semantics).
LastClaimDecides ==
    phase = "start" /\ Compatible =>
        LET references == [i \in DOMAIN descriptor.sealed |-> descriptor.sealed[i].reference] IN
        \A before \in Openings, claim \in Claims, after \in Remarks :
            (Last(claim.text) = "answer:" => after = <<>>) =>
                JudgedByClaim(references, before, claim, after)

===============================================================================
