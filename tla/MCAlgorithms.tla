----------------------------- MODULE MCAlgorithms ---------------------------
(***************************************************************************)
(* Instances for TLC: bus descriptions, scripts, dialogs, and below them   *)
(* the Kconfig files, answers and edits for the configuration tool.        *)
(***************************************************************************)
EXTENDS Algorithms, TLC

\* Bus descriptions: a table at 0 with a bridge to a table at 16, which may
\* itself have a bridge to a table at 24; devices at small offsets.
Interconnect == [type |-> "interconnect", id |-> "none", first |-> 0, child |-> 0]
Device(id, first) == [type |-> "device", id |-> id, first |-> first, child |-> 0]
Bridge(first, child) == [type |-> "bridge", id |-> "none", first |-> first, child |-> child]
Devices == {Device(id, first) : id \in {"uart", "pps"}, first \in {0, 4}}

\* The bridge sits at 8, the inner one at 8 + 4; a child table is found at an
\* address relative to the table that names it.
MCSdbTrees ==
    {(0 :> <<Interconnect, d1, Bridge(8, 16), d2>>) @@
     (16 :> <<Interconnect, Bridge(4, 16), d3>>) @@
     (24 :> <<Interconnect, d4>>) : d1, d2, d3, d4 \in Devices}

\* Scripts of words "x" and "xy".
MCScriptLines == {<<<<"x">>>>, <<<<"x">>, <<"x", "y">>>>}

\* Six items; "s" is also the command to select.
MCHotKeys == <<"a", "b", "a", "s", "b", "a">>

MCNumbers == {0, 1, 9, 10, 255, 99999, 100000, 524287, 524288, 1048575}

-----------------------------------------------------------------------------
MCSymType == [A |-> "boolean", B |-> "boolean", T |-> "tristate",
              SWITCH |-> "boolean", NODE |-> "boolean", UART |-> "boolean", DEV |-> "boolean",
              RAM |-> "int", PRINTF |-> "boolean", XINT |-> "boolean", FULL |-> "boolean",
              MODULES |-> "boolean", Q |-> "tristate", R |-> "tristate",
              CH |-> "tristate", V |-> "tristate", W |-> "tristate"]
SymbolsOf(S) == {<<"symbol", s>> : s \in S}
Negated(S) == {<<"not", e>> : e \in S}
MCLiterals == SymbolsOf({"A", "T"}) \cup Negated(SymbolsOf({"A"})) \cup {<<"unequal", "T", "n">>}
MCAtoms == SymbolsOf({"A", "B", "T", "y", "m", "n"}) \cup Negated(SymbolsOf({"A", "B", "T", "m"}))
           \cup {<<c, s, v>> : c \in {"equal", "unequal"}, s \in {"A", "T"}, v \in {"y", "m", "n"}}

Is(s) == <<"symbol", s>>
Menu(s, dep, ptype, list, parent) ==
    [sym |-> s, dep |-> dep, ptype |-> ptype, prompt |-> Null, list |-> list, parent |-> parent]
PlainSym(menus, props) ==
    [menus |-> menus, props |-> props, rev |-> Null, choice |-> "none", values |-> <<>>,
     ischoice |-> FALSE, optional |-> TRUE]
ChoiceOf(menus) == [PlainSym(menus, <<>>) EXCEPT !.ischoice = TRUE, !.optional = FALSE]
Default(m, vis, e) == [kind |-> "default", menu |-> m, vis |-> vis, expr |-> e]
Select(m, vis, e) == [kind |-> "select", menu |-> m, vis |-> vis, expr |-> e]
Literal(n) == <<"number", n>>
InRange(m, lo, hi) == [kind |-> "range", menu |-> m, vis |-> Null, expr |-> lo, upper |-> hi]

\* The symbols of the repository's Kconfig that depend on each other.
Wrpc ==
    [menu |-> [root |-> Menu("none", Null, "menu", <<"switch", "node", "ram0", "xint0", "ifnode">>, "root"),
               switch |-> Menu("SWITCH", Null, "prompt", <<>>, "root"),
               node |-> Menu("NODE", Null, "none", <<>>, "root"),
               ram0 |-> Menu("RAM", Null, "none", <<>>, "root"),
               xint0 |-> Menu("XINT", Null, "none", <<>>, "root"),
               ifnode |-> Menu("none", Is("NODE"), "none", <<"uart", "dev", "ram", "printf">>, "root"),
               uart |-> Menu("UART", Null, "none", <<>>, "ifnode"),
               dev |-> Menu("DEV", Null, "prompt", <<>>, "ifnode"),
               ram |-> Menu("RAM", Is("DEV"), "prompt", <<>>, "ifnode"),
               printf |-> Menu("PRINTF", Is("DEV"), "prompt", <<"xint", "full">>, "ifnode"),
               xint |-> Menu("XINT", Null, "prompt", <<>>, "printf"),
               full |-> Menu("FULL", Null, "prompt", <<>>, "printf")],
     sym |-> [SWITCH |-> PlainSym(<<"switch">>, <<Default("switch", Null, Is("n")),
                                               Select("switch", Null, Is("UART"))>>),
              NODE |-> PlainSym(<<"node">>, <<Default("node", Null, <<"not", Is("SWITCH")>>)>>),
              UART |-> PlainSym(<<"uart">>, <<Default("uart", Null, Is("y"))>>),
              DEV |-> PlainSym(<<"dev">>, <<>>),
              RAM |-> PlainSym(<<"ram0", "ram">>, <<Default("ram0", Is("SWITCH"), Literal(1)),
                                                 Default("ram0", Null, Literal(3)), Default("ram", Null, Literal(3)),
                                                 InRange("ram", Literal(1), Literal(3))>>),
              PRINTF |-> ChoiceOf(<<"printf">>),
              XINT |-> PlainSym(<<"xint0", "xint">>, <<Default("xint0", Null, Is("y"))>>),
              FULL |-> PlainSym(<<"full">>, <<>>)],
     order |-> <<"DEV", "FULL", "NODE", "PRINTF", "RAM", "SWITCH", "UART", "XINT">>]

\* Tristates, a select between them and a choice that may be m.
Tristates ==
    [menu |-> [root |-> Menu("none", Null, "menu", <<"ch", "q", "r", "modules">>, "root"),
               modules |-> Menu("MODULES", Null, "prompt", <<>>, "root"),
               q |-> Menu("Q", Null, "prompt", <<>>, "root"),
               r |-> Menu("R", Null, "prompt", <<>>, "root"),
               ch |-> Menu("CH", Null, "prompt", <<"v", "w">>, "root"),
               v |-> Menu("V", Null, "prompt", <<>>, "ch"),
               w |-> Menu("W", <<"unequal", "R", "n">>, "prompt", <<>>, "ch")],
     sym |-> [MODULES |-> PlainSym(<<"modules">>, <<>>),
              Q |-> PlainSym(<<"q">>, <<Select("q", Null, Is("R")), Default("q", Null, Is("m"))>>),
              R |-> PlainSym(<<"r">>, <<>>),
              CH |-> ChoiceOf(<<"ch">>), V |-> PlainSym(<<"v">>, <<>>), W |-> PlainSym(<<"w">>, <<>>)],
     order |-> <<"W", "CH", "Q", "MODULES", "R", "V">>]

MCFiles == [wrpc |-> Wrpc, tristates |-> Tristates]
MCEntered == {1, 2, 3, 4}

\* Nothing saved; a switch; a developer's node with numbers in and out of range,
\* symbols that are gone and values that do not fit.
MCSaved ==
    [wrpc |-> {<<>>, <<<<"SWITCH", 2>>, <<"RAM", 1>>>>, <<<<"SWITCH", 0>>, <<"GONE", 2>>, <<"DEV", 2>>>>,
               <<<<"DEV", 2>>, <<"RAM", 4>>, <<"FULL", 2>>>>,
               <<<<"DEV", 2>>, <<"RAM", 2>>, <<"XINT", 2>>, <<"FULL", 2>>>>, <<<<"DEV", 1>>>>},
     tristates |-> {<<>>, <<<<"MODULES", 2>>, <<"Q", 1>>, <<"V", 1>>, <<"W", 1>>>>,
                    <<<<"Q", 2>>, <<"R", 2>>, <<"W", 2>>>>, <<<<"MODULES", 2>>, <<"V", 2>>, <<"W", 1>>>>,
                    <<<<"V", 2>>, <<"Q", 0>>, <<"MODULES", 2>>>>}]
MCAnswers ==
    {[s \in DOMAIN MCSymType |-> IF s \in S THEN 2 ELSE x] :
        S \in SUBSET {"MODULES", "DEV", "SWITCH", "Q"}, x \in 0..1}

\* Three entries: one after the other, two in an if block or a menu.
RawMenu(first, a, b, c, block, inner) ==
    LET inside == inner # "none"
    IN  [menu |-> [root |-> Menu("none", Null, "menu",
                                 IF inside THEN <<"a", "block", "c">> ELSE <<"a", "b", "c">>, "root"),
                   a |-> Menu("A", a, first, <<>>, "root"),
                   block |-> Menu("none", block, IF inside THEN inner ELSE "none",
                                  IF inside THEN <<"b">> ELSE <<>>, "root"),
                   b |-> Menu("B", b, "prompt", <<>>, IF inside THEN "block" ELSE "root"),
                   c |-> Menu("T", c, "prompt", <<>>, "root")],
         sym |-> [A |-> PlainSym(<<"a">>, <<>>), B |-> PlainSym(<<"b">>, <<>>), T |-> PlainSym(<<"c">>, <<>>)],
         order |-> <<"A", "B", "T">>]
MenuDeps == {Null, Is("A"), <<"not", Is("A")>>, Is("T"), <<"equal", "A", "y">>, <<"unequal", "T", "n">>,
             <<"or", Is("A"), Is("T")>>, <<"and", Is("B"), Is("A")>>}
MCRawMenus ==
    {RawMenu(first, a, b, c, Null, "none") :
        first \in {"prompt", "none"}, a \in {Null, Is("T")}, b, c \in MenuDeps}
    \cup {RawMenu("prompt", Null, b, c, block, inner) :
             b, c \in {Null, Is("A"), <<"not", Is("T")>>}, block \in MenuDeps, inner \in {"if", "menu"}}

\* Two symbols and a choice of two values, each with one dependency or none.
DepNames == {"A", "B", "CH", "V", "W"}
DepFile(d) ==
    LET Own(s) == IF d[s] = "none" THEN Null ELSE Is(d[s])
        Entry(s, cond) == [Menu(s, Null, "prompt", <<>>, "root") EXCEPT !.prompt = cond]
    IN  [menu |-> [A |-> Entry("A", Own("A")), B |-> Entry("B", Null), CH |-> Entry("CH", Own("CH")),
                   V |-> Entry("V", And(Is("CH"), Own("V"))), W |-> Entry("W", And(Is("CH"), Own("W")))],
         sym |-> [A |-> PlainSym(<<"A">>, <<>>), B |-> PlainSym(<<"B">>, <<Default("B", Null, Own("B"))>>),
                  CH |-> [ChoiceOf(<<"CH">>) EXCEPT !.values = <<"V", "W">>],
                  V |-> [PlainSym(<<"V">>, <<>>) EXCEPT !.choice = "CH"],
                  W |-> [PlainSym(<<"W">>, <<>>) EXCEPT !.choice = "CH"]],
         order |-> <<"W", "A", "CH", "B", "V">>]
MCDepFiles == {DepFile(d) : d \in [DepNames -> DepNames \cup {"none"}]}
=============================================================================
