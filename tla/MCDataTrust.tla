----------------------------- MODULE MCDataTrust -----------------------------
(***************************************************************************)
(* Three candidates in every way three records can share families, a       *)
(* benchmark with one item whose text is theirs exactly, nearly, across    *)
(* two messages, or not at all, and children derived of any of them.       *)
(***************************************************************************)
EXTENDS DataTrust

MCPermits == [web |-> {"train"}, bench |-> {"evaluate"}, both |-> {"train", "evaluate"}]
MCRevision == [web |-> 1, bench |-> 1, both |-> 1]
MCLexemeOf == [a |-> "a", A |-> "a", b |-> "b", c |-> "c", space |-> "none"]

Say(field, text) == [field |-> field, text |-> text]

\* What the candidates, their children and the benchmark's item may say.
Content1 == <<Say("problem", <<"a", "b", "a">>)>>
Content2 == <<Say("problem", <<"b", "b", "b">>), Say("response", <<"a">>)>>
Content3 == <<Say("problem", <<"c", "b", "b", "c">>), Say("system", <<"c", "c", "c">>)>>
Derived1 == <<Say("problem", <<"a", "c", "c", "a">>)>>
Derived2 == <<Say("problem", <<"b", "a", "a", "c">>)>>

Texts == {
    <<Say("problem", <<"A", "space", "b", "a">>)>>,            \* exactly Content1
    <<Say("problem", <<"b", "a", "b">>)>>,                     \* no token n-gram of it
    <<Say("problem", <<"a">>), Say("user", <<"b", "b">>)>>,    \* only across messages
    <<Say("problem", <<"b", "b", "c", "a">>)>>,                \* to be reviewed
    <<Say("problem", <<"a", "a", "a">>), Say("system", <<"c", "c", "c">>)>> }

InFamilies(s, p, t) == [source |-> s, problem |-> p, template |-> t]

Root3(id, families, content) ==
    [id |-> id, split |-> "unassigned", source |-> "web", revision |-> 1,
     families |-> families, content |-> content, transform |-> "ingest", parents |-> {}]

\* How three records can share the families of a dimension.
Sharings == {<<1, 2, 3>>, <<1, 1, 3>>, <<1, 2, 1>>, <<1, 2, 2>>, <<1, 1, 1>>}

Three(s, p, t) ==
    {Root3(1, InFamilies(s[1], p[1], t[1]), Content1),
     Root3(2, InFamilies(s[2], p[2], t[2]), Content2),
     Root3(3, InFamilies(s[3], p[3], t[3]), Content3)}

Plain == Three(<<1, 2, 3>>, <<1, 2, 3>>, <<1, 2, 3>>)

\* Records that somebody split by hand, some with a child.
ByHand ==
    LET split(r, s) == [r EXCEPT !.split = s]
        records(s, p) == Three(s, p, <<1, 2, 3>>)
        childOf(r, f) == [Root3(4, f, Derived1) EXCEPT
            !.split = "dev", !.transform = "rewrite",
            !.parents = {[id |-> r.id, digest |-> r]}]
    IN  {{split(r, of[r.id]) : r \in records(s, p)} :
            s \in Sharings, p \in Sharings, of \in [1..3 -> {"anchor", "dev"}]}
        \cup {{split(r, of[r.id]) : r \in Plain}
                 \cup {childOf(split(CHOOSE r \in Plain : r.id = 2, of[2]), InFamilies(7, 7, 7))} :
                 of \in [1..3 -> {"anchor", "dev"}]}

\* Records no gate lets through.
IllFormed ==
    {Plain \cup {Root3(1, InFamilies(4, 4, 4), Derived1)},
     {[r EXCEPT !.source = "bench"] : r \in Plain},
     {[r EXCEPT !.revision = 2] : r \in Plain},
     {[r EXCEPT !.content = Content1] : r \in Plain},
     {[r EXCEPT !.transform = "unknown"] : r \in Plain}}

MCCandidates ==
    {Three(s, p, <<1, 2, 3>>) : s \in Sharings, p \in {<<1, 2, 3>>, <<1, 2, 2>>, <<1, 1, 1>>}}
        \cup {Three(<<1, 2, 3>>, <<1, 2, 2>>, t) : t \in Sharings}
        \cup ByHand \cup IllFormed

Item(content, families) ==
    [id |-> 9, split |-> "evaluation", source |-> "bench", revision |-> 1,
     families |-> families, content |-> content, transform |-> "ingest", parents |-> {}]

MCEvaluations ==
    {{Item(t, InFamilies(9, 9, 9))} : t \in Texts}
        \cup {{Item(Content3, InFamilies(9, 3, 9))}}

\* A record kept elsewhere, and ledgers with it, or with a candidate.
Elsewhere == [Root3(8, InFamilies(8, 8, 8), Content1) EXCEPT !.split = "dev"]
MCLedgers == {{}, {Entry(Elsewhere)}, {Entry([Elsewhere EXCEPT !.id = 1])}}

\* The first child is derived of a record in training, of its state before the
\* split, or of the record elsewhere; the second of the first, or of a root.
MCDerivable(records) ==
    LET child(id, parent, digest, families, content) ==
            [Root3(id, families, content) EXCEPT !.split = parent.split,
             !.transform = "rewrite", !.parents = {[id |-> parent.id, digest |-> digest]}]
        fresh(id) == InFamilies(id, id, id)
    IN  IF \E r \in records : r.id = 4
        THEN {child(5, r, r, fresh(5), Derived2) : r \in {x \in records : x.id \in {1, 4}}}
        ELSE {child(4, r, r, f, Derived1) :
                 r \in records \cup {Elsewhere}, f \in {fresh(4), InFamilies(1, 4, 4)}}
             \cup {child(4, r, [r EXCEPT !.split = "unassigned"], fresh(4), Derived1) :
                 r \in records}

Strict == [character |-> 2, token |-> 3, exact |-> 1, fuzzy |-> 5, jaccard |-> 600000,
           containment |-> 900000, margin |-> 150000, exempt |-> {<<"c", "c", "c">>}]
MCPolicies == {Strict, [Strict EXCEPT !.margin = 600000]}

==============================================================================
