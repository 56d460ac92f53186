----------------------------- MODULE KconfMenu -----------------------------
(***************************************************************************)
(* The tree of menu entries of a configuration file                        *)
(* (scripts/kconfig/menu.c).  A file K is                                  *)
(*   K.menu[m]  an entry: its symbol or None, what it depends on, the kind *)
(*              of its prompt ("none", "prompt", "menu", "comment") and    *)
(*              when the prompt is visible, its children and its parent;   *)
(*   K.sym[s]   a symbol: its entries, its other properties (kind, entry,  *)
(*              condition, expression), what selects it, the choice it is  *)
(*              a value of, and the values if it is a choice;              *)
(*   K.order    all symbols.                                               *)
(* The parser leaves a file with conditions as they are written;           *)
(* menu_finalize moves the conditions of the parents to the children.      *)
(* Types are given by SymType (a choice does not take over the type of its *)
(* first value).                                                           *)
(***************************************************************************)
EXTENDS KconfExpr

None == "none"
Root == "root"
IsChoice(K, s) == s # None /\ K.sym[s].ischoice
HasPrompt(K, m) == K.menu[m].ptype # "none"

-----------------------------------------------------------------------------
Insert(list, i, more) == SubSeq(list, 1, i) \o more \o SubSeq(list, i + 1, Len(list))
Reparent(K, ms, p) ==
    [K EXCEPT !.menu = [m \in DOMAIN @ |-> IF m \in Range(ms) THEN [@[m] EXCEPT !.parent = p] ELSE @[m]]]

ParentDep(K, p) ==
    IF IsChoice(K, K.menu[p].sym) THEN <<"symbol", K.menu[p].sym>>
    ELSE IF HasPrompt(K, p) THEN K.menu[p].prompt ELSE K.menu[p].dep

\* menu_finalize, first loop: the condition of p joins those of its child m and
\* of the properties of its symbol; a select adds to what it selects.
NeverMod(e, s) == IF s # None /\ SymType[s] # "tristate" THEN expr_trans_bool(e) ELSE e
JoinDep(base, e, s) == NeverMod(expr_eliminate_dups(And(base, expr_transform(e))), s)
SetProp(K, s, i, vis) == [K EXCEPT !.sym[s].props[i].vis = vis]
SetSelected(K, s, q) ==
    IF q.kind # "select" THEN K
    ELSE [K EXCEPT !.sym[q.expr[2]].rev = Or(@, And(<<"symbol", s>>, q.vis))]
SelectedBy(K, s, i) == SetSelected(K, s, K.sym[s].props[i])
PropagateProp(K, m, s, i) ==
    IF K.sym[s].props[i].menu # m THEN K
    ELSE SelectedBy(SetProp(K, s, i, JoinDep(K.menu[m].dep, K.sym[s].props[i].vis, s)), s, i)
PropagateProps(K, m, s) ==
    IF s = None THEN K
    ELSE FoldLeft(LAMBDA L, i : PropagateProp(L, m, s, i), K, [i \in DOMAIN K.sym[s].props |-> i])
SetDep(K, m, base) ==
    [K EXCEPT !.menu[m].dep = base, !.menu[m].prompt = JoinDep(base, @, K.menu[m].sym)]
Propagate(K, p, m) ==
    PropagateProps(SetDep(K, m, JoinDep(ParentDep(K, p), K.menu[m].dep, None)), m, K.menu[m].sym)

\* A choice takes its children as its values.
MakeValue(K, ch, m) ==
    LET s == K.menu[m].sym
        only == IF SymType[ch] = "tristate" /\ SymType[s] # "tristate"
                THEN <<"equal", ch, "y">> ELSE Null
        K1 == [K EXCEPT !.sym[s].choice = ch, !.sym[ch].values = Append(@, s),
                        !.menu[m].dep = And(only, @), !.menu[m].prompt = And(only, @),
                        !.sym[s].props = [i \in DOMAIN @ |->
                            IF @[i].menu = m THEN [@[i] EXCEPT !.vis = And(only, @)] ELSE @[i]]]
    IN  IF IsChoice(K, ch) /\ s # None /\ K.sym[s].choice = None THEN K1 ELSE K

\* An entry without a prompt gives its children to its parent.
Flatten(K, p, i) ==
    LET m == K.menu[p].list[i]
        K1 == Reparent(K, K.menu[m].list, p)
    IN  IF K.menu[m].list = <<>> \/ HasPrompt(K, m) THEN K
        ELSE [K1 EXCEPT !.menu[p].list = Insert(@, i, K.menu[m].list), !.menu[m].list = <<>>]

RECURSIVE Settle(_, _, _)
Settle(K, p, i) ==
    IF i > Len(K.menu[p].list) THEN K
    ELSE Settle(Flatten(MakeValue(K, K.menu[p].sym, K.menu[p].list[i]), p, i), p, i + 1)

\* A following entry depends on the symbol of p, or implies that p is visible.
NotNo(e) == expr_eliminate_dups(expr_transform(expr_trans_compare(e, "unequal", "n")))
MayNest(K, p, m) ==
    LET s == K.menu[p].sym
        dep == IF HasPrompt(K, m) THEN K.menu[m].prompt ELSE K.menu[m].dep
        base == IF HasPrompt(K, p) THEN K.menu[p].prompt ELSE Null
    IN  /\ expr_contains_symbol(dep, s)
        /\ expr_depends_symbol(dep, s) \/ expr_eliminate_eq(NotNo(dep), NotNo(base))[2] = Yes

RECURSIVE menu_finalize(_, _)
RECURSIVE FinalizeList(_, _, _)
FinalizeList(K, p, i) ==
    IF i > Len(K.menu[p].list) THEN K
    ELSE FinalizeList(menu_finalize(K, K.menu[p].list[i]), p, i + 1)

\* The entries behind p (at place i of its parent's list) from place j on.
RECURSIVE Nest(_, _, _, _)
Nest(K, p, i, j) ==
    LET q == K.menu[p].parent
        list == K.menu[q].list
        taken == SubSeq(list, i + 1, j - 1)
    IN  IF j <= Len(list) /\ MayNest(K, p, list[j])
        THEN Nest(menu_finalize(K, list[j]), p, i, j + 1)
        ELSE [Reparent(K, taken, p) EXCEPT !.menu[p].list = taken,
                  !.menu[q].list = SubSeq(list, 1, i) \o SubSeq(list, j, Len(list))]

FinalizeBelow(K, p) ==
    LET place == SelectInSeq(K.menu[K.menu[p].parent].list, LAMBDA m : m = p)
    IN  IF K.menu[p].list # <<>>
        THEN FinalizeList(FoldLeft(LAMBDA L, m : Propagate(L, p, m), K, K.menu[p].list), p, 1)
        ELSE IF K.menu[p].sym # None THEN Nest(K, p, place, place + 1) ELSE K

\* A choice that is not optional is at least m where it is visible.
RequireChoice(K, p, s) ==
    IF IsChoice(K, s) /\ ~K.sym[s].optional /\ HasPrompt(K, p)
    THEN [K EXCEPT !.sym[s].rev = Or(@, And(K.menu[p].prompt, Mod))] ELSE K
menu_finalize(K, p) == RequireChoice(Settle(FinalizeBelow(K, p), p, 1), p, K.menu[p].sym)

\* The entries of the finished tree in the order in which they are walked.
RECURSIVE Walk(_, _)
Walk(K, p) == <<p>> \o FlattenSeq([i \in DOMAIN K.menu[p].list |-> Walk(K, K.menu[p].list[i])])
=============================================================================
