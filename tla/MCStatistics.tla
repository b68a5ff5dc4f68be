----------------------------- MODULE MCStatistics -----------------------------
(***************************************************************************)
(* Two items in one level or in two, two training seeds, arms that answer  *)
(* all, none, one item, one seed or crosswise; and campaigns with a report *)
(* that does not belong, or without items.  A hundred ppm stand for a      *)
(* million.                                                                *)
(***************************************************************************)
EXTENDS PairedStatistics

MCSeeds == <<101, 202>>

Nobody == <<<<FALSE, FALSE>>, <<FALSE, FALSE>>>>
All == <<<<TRUE, TRUE>>, <<TRUE, TRUE>>>>
Once == <<<<TRUE, FALSE>>, <<FALSE, FALSE>>>>
Most == <<<<TRUE, TRUE>>, <<TRUE, FALSE>>>>
FirstItem == <<<<TRUE, TRUE>>, <<FALSE, FALSE>>>>
FirstSeed == <<<<TRUE, FALSE>>, <<TRUE, FALSE>>>>
SecondSeed == <<<<FALSE, TRUE>>, <<FALSE, TRUE>>>>

Public(levels) ==
    [descriptor |-> "d", items |-> "p", ids |-> <<1, 2>>,
     strata |-> [i \in 1..2 |-> [level |-> levels[i]]]]

Greedy == [mode |-> "greedy"]

ReportOf(correct, run) ==
    [descriptor |-> "d", items |-> "p", protocol |-> Greedy, passAtK |-> {1},
     ids |-> <<1, 2>>, correct |-> correct, contract |-> "c", version |-> "v", run |-> run]

\* The reports of five arms, answer[arm][item][seed].
Evaluations(answer) ==
    [k \in 1..10 |-> LET arm == 1 + ((k - 1) \div 2)
                         s == 1 + ((k - 1) % 2)
                     IN  [arm |-> ARMS[arm], seed |-> MCSeeds[s],
                          report |-> ReportOf([i \in 1..2 |-> answer[arm][i][s]], k)]]

CampaignOf(levels, answer) ==
    [public |-> Public(levels), protocol |-> Greedy, stratum |-> "level",
     evaluations |-> Evaluations(answer)]

\* Differences in the first two contrasts, or in the third.
Good ==
    {CampaignOf(<<"1", "1">>, <<Nobody, Most, FirstItem, Nobody, Nobody>>),
     CampaignOf(<<"1", "2">>, <<Once, FirstSeed, All, All, All>>)}
    \cup {CampaignOf(levels, <<Nobody, Nobody, Nobody, b[1], b[2]>>) :
             levels \in {<<"1", "1">>, <<"1", "2">>},
             b \in {<<All, Nobody>>, <<Nobody, FirstItem>>, <<FirstItem, Nobody>>,
                    <<Once, Nobody>>, <<Nobody, Once>>, <<FirstSeed, SecondSeed>>}}

Base == CampaignOf(<<"1", "1">>, <<Nobody, All, All, All, All>>)
Empty ==
    [Base EXCEPT !.public.ids = <<>>, !.public.strata = <<>>,
                 !.evaluations = [k \in 1..10 |->
                     [@[k] EXCEPT !.report.ids = <<>>, !.report.correct = <<>>]]]
Bad ==
    {[Base EXCEPT !.evaluations = Reverse(@)],
     [Base EXCEPT !.evaluations[2].report.items = "q"],
     [Base EXCEPT !.evaluations[2].report.version = "w"],
     [Base EXCEPT !.evaluations[2].report.ids = <<2, 1>>],
     [Base EXCEPT !.evaluations[2].report.run = 1],
     [Base EXCEPT !.evaluations[2].report.passAtK = {1, 2}],
     [Base EXCEPT !.stratum = "subject"],
     Empty}

MCCampaigns == Good \cup Bad

MCPreregistered ==
    [seeds |-> MCSeeds, stratum |-> "level", bootstraps |-> 3, randomizations |-> 3,
     confidence |-> 80, equivalence |-> 60, alpha |-> 60, practical |-> 30, margin |-> 30]

MCProtocols ==
    {MCPreregistered, [MCPreregistered EXCEPT !.alpha = 35],
     [MCPreregistered EXCEPT !.stratum = "subject"]}

==============================================================================
