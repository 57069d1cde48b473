------------------------------ MODULE MCComponents ------------------------------
(* Small instances of Components. *)
EXTENDS Components

\* A transaction pays the minimum for every wallet, or for one of them.
Moves == {[w \in Wallets |-> 2]} \cup {[v \in Wallets |-> IF v = w THEN 2 ELSE 1] : w \in Wallets}

\* Two jobs for one target, and one for another.
Targets == [j \in AcpJobs |-> IF j = "j3" THEN "g2" ELSE "g1"]

\* f and h agree only through g: f and g by their lines, g and h by nearby
\* lines and their words.
Found(severity, lines, words) ==
    [category |-> "bug", severity |-> severity, confidence |-> severity % 2, words |-> words,
     evidence |-> {[path |-> "a", lines |-> lines, anchors |-> {}]}]
ThreeFindings ==
    {Found(0, <<1, 9>>, {"x"}), Found(1, <<5, 20>>, {"x", "y"}), Found(2, <<24, 40>>, {"x", "y", "z"})}
\* A provider reports nothing, one of them, or f and h.
FewReports ==
    {R \in SUBSET ThreeFindings : Cardinality(R) <= 1 \/ R = {x \in ThreeFindings : x.severity # 1}}
TwoProviders == {"anthropic", "openai"}
Three == {TwoProviders \cup {"zhipu"}}
NoFindings == {}
NoReports == {{}}

\* Gates and what is known of the repository: everything on, for a live
\* protocol and for another; without what reads the repository; without
\* disclosure; without its table as well; nothing on.
AllFlags ==
    {"threatModel", "reachability", "adjudication", "shadow", "disclosure", "sideTable",
     "patchAgent", "patchVerify", "feedback", "shadowRender", "clickApply"}
Setting(flags, live, access) == [flags |-> flags, live |-> live, access |-> access]
Plain == Setting({}, FALSE, "public")
Guarded == Setting(AllFlags, TRUE, "live_protocol_review_required")
Open == Setting(AllFlags, FALSE, "public")
NoSecondGates ==
    Setting(AllFlags \ {"threatModel", "reachability"}, TRUE, "live_protocol_review_required")
Undisclosed == Setting(AllFlags \ {"disclosure"}, TRUE, "public")
NoSideTable == Setting(AllFlags \ {"disclosure", "sideTable"}, FALSE, "public")
Settings == {Guarded, Open, NoSecondGates, Undisclosed, NoSideTable, Plain}

\* Two features with one finding each, and one with two.
Homes == [x \in FleetFindings |-> CASE x = "x" -> "a" [] x = "w" -> "c" [] OTHER -> "b"]

\* Where a call of publishDisclosure may fail.
CallPlaces == Holding \cup {"claim", "reload", "transition", "publish", "confirm"}

Cast(part, who) ==
    [part |-> part, who |-> who, tries |-> 1, faultsAt |-> Places \cup CallPlaces,
     setups |-> {Plain}, alone |-> TRUE]

FaultsAt(places, scene) == [scene EXCEPT !.faultsAt = places]
With(setups, scene) == [scene EXCEPT !.setups = setups]

\* Each component in several scales.  A single participant meets faults
\* anywhere; where two race, the faults are those that leave an answer in doubt.
Scenes ==
    {Cast("deposits", {"i1", "i2", "w1", "x1", "p1", "s1"}),
     Cast("deposits", {"i1", "i2", "w1", "x1", "p1", "p2"}),
     Cast("deposits", {"i1", "w1", "w2", "x1", "x2", "s1"}),
     Cast("deposits", {"i1", "w1", "w2", "x1", "p1", "s1"}),
     Cast("deposits", {"i1", "i2", "w1", "w2", "x1", "s1"}),
     Cast("deposits", {"i1", "w1", "x1", "s1", "s2"}),
     FaultsAt({"kernel", "submit", "markSubmitted"}, Cast("acp", {"j1", "j2", "a1"})),
     Cast("acp", {"j1", "a1", "g1"}),
     FaultsAt({}, Cast("acp", {"j1", "a1", "a2"})),
     Cast("acp", {"j3", "a1"}),
     FaultsAt({"setBudget", "markSet"}, Cast("acp", {"j3", "a1", "a2"})),
     Cast("scan", {}),
     Cast("gate", {}),
     [Cast("disclosure", {"t1", "comment"}) EXCEPT !.tries = 3],
     FaultsAt({}, [Cast("disclosure", {"q1"}) EXCEPT !.tries = 3]),
     Cast("disclosure", {"t1", "q1"}),
     Cast("disclosure", {"comment", "q1"}),
     FaultsAt({}, Cast("disclosure", {"t1", "comment", "q1"})),
     FaultsAt({"draft"}, Cast("disclosure", {"q1", "q2"})),
     With({Guarded, Plain}, Cast("kernel", {"operator", "k1", "f1", "s1"})),
     With({Undisclosed}, Cast("kernel", {"k1", "f1", "s1"})),
     With({Open, NoSideTable}, Cast("kernel", {"operator", "k1", "f1"})),
     With({Open}, Cast("kernel", {"k1", "k2"})),
     With({NoSecondGates}, Cast("kernel", {"k1", "f1", "f2"})),
     Cast("scorecard", {"r1", "o1", "o2", "n1", "b1"}),
     Cast("scorecard", {"r1", "r2", "o1", "n1", "b1"}),
     Cast("scorecard", {"r1", "o1", "n1", "n2", "b1"}),
     Cast("sarif", {"u1", "u2", "v1"}),
     Cast("fleet", {"a", "m1", "m2", "m3", "j1"}),
     Cast("fleet", {"b", "m1", "m2", "j1"}),
     Cast("fleet", {"a", "c", "m1", "j1", "j2"}),
     [Cast("fleet", {"a", "m1", "m2", "j1"}) EXCEPT !.alone = FALSE]}

\* One job or one finding from its beginning to its end, the finding also
\* with a retry that may delete its row.
OneOfEach ==
    {Cast("acp", {"j1", "a1"}), Cast("disclosure", {"q1"}),
     FaultsAt({"draft"}, [Cast("disclosure", {"q1"}) EXCEPT !.tries = 2])}
=============================================================================
