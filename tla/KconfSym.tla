------------------------------ MODULE KconfSym ------------------------------
(***************************************************************************)
(* Symbol values of the configuration tool (scripts/kconfig/symbol.c).     *)
(* The state c of a configuration keeps, for the symbols of the file K,    *)
(* the value the user gave (def, and upick for a choice; user: the symbols *)
(* that have one), the calculated value (curr, pick), visibility (vis) and *)
(* what selects force (rev), which of these are up to date (valid), which  *)
(* symbols are to be written (write), the cached value of MODULES and      *)
(* whether anything changed since the last save.  n, m, y are 0, 1, 2; a   *)
(* number is itself, and Empty without a value.                            *)
(***************************************************************************)
EXTENDS KconfMenu

Empty == -1
Constants == {"y", "m", "n"}
IsNumber(s) == SymType[s] = "int"
IsValue(K, s) == K.sym[s].choice # None
Zero(s) == IF IsNumber(s) THEN Empty ELSE 0

Unset(K) ==
    LET S == DOMAIN K.sym
    IN  [user |-> {}, def |-> [s \in S |-> Zero(s)], upick |-> [s \in S |-> None],
         curr |-> [s \in S |-> 0], pick |-> [s \in S |-> None],
         vis |-> [s \in S |-> 0], rev |-> [s \in S |-> 0],
         valid |-> {}, write |-> {}, modules |-> 0, changed |-> TRUE]

RECURSIVE SymsOf(_)
SymsOf(e) ==
    CASE e = Null -> <<>>
      [] e[1] = "symbol" -> <<e[2]>>
      [] e[1] = "not" -> SymsOf(e[2])
      [] IsComp(e) -> <<e[2], e[3]>>
      [] IsChain(e) -> SymsOf(e[2]) \o SymsOf(e[3])

\* The properties of a kind, and the prompts of all entries of a symbol.
PropsOf(K, s, kind) == SelectSeq(K.sym[s].props, LAMBDA q : q.kind = kind)
PromptsOf(K, s) == SelectSeq(K.sym[s].menus, LAMBDA m : HasPrompt(K, m))

-----------------------------------------------------------------------------
\* Evaluating an expression calculates the symbols in it first.
RECURSIVE sym_calc_value(_, _, _), CalcAll(_, _, _)
CalcOne(K, c, s) == IF s \in Constants THEN c ELSE sym_calc_value(K, c, s)
CalcAll(K, c, ss) == IF ss = <<>> THEN c ELSE CalcAll(K, CalcOne(K, c, Head(ss)), Tail(ss))
ValueIn(c, e) == [c |-> c, v |-> expr_calc_value(e, c.curr)]
Eval(K, c, e) == ValueIn(CalcAll(K, c, SymsOf(e)), e)

\* The first property of a list with a condition that is not n; i = 0: none.
\* sym_get_default_prop, sym_get_range_prop.
RECURSIVE FirstVisible(_, _, _, _)
FirstUnless(K, r, ps, i) ==
    IF r.v # 0 THEN [c |-> r.c, i |-> i, v |-> r.v] ELSE FirstVisible(K, r.c, ps, i + 1)
FirstVisible(K, c, ps, i) ==
    IF i > Len(ps) THEN [c |-> c, i |-> 0, v |-> 0]
    ELSE FirstUnless(K, Eval(K, c, ps[i].vis), ps, i)

sym_get_type(K, c, s) ==
    IF SymType[s] = "tristate" /\ (c.modules = 0 \/ (IsValue(K, s) /\ c.vis[s] = 2))
    THEN "boolean" ELSE SymType[s]

\* Visibility: the prompts in turn, then what the symbol is selected to.
JoinVisible(x, r) == [c |-> r.c, v |-> Max({x.v, r.v})]
PromptsVisible(K, c, s) ==
    FoldLeft(LAMBDA x, m : JoinVisible(x, Eval(K, x.c, K.menu[m].prompt)), [c |-> c, v |-> 0], PromptsOf(K, s))
SetVisible(x, s) ==
    [x.c EXCEPT !.vis[s] = IF x.v = 1 /\ (SymType[s] # "tristate" \/ x.c.modules = 0) THEN 2 ELSE x.v]
SetForced(K, x, s) ==
    [x.c EXCEPT !.rev[s] = IF x.v = 1 /\ sym_get_type(K, x.c, s) = "boolean" THEN 2 ELSE x.v]
CalcForced(K, c, s) ==
    IF IsValue(K, s) THEN c
    ELSE SetForced(K, IF K.sym[s].rev = Null THEN [c |-> c, v |-> 0] ELSE Eval(K, c, K.sym[s].rev), s)
sym_calc_visibility(K, c, s) == CalcForced(K, SetVisible(PromptsVisible(K, c, s), s), s)

\* sym_calc_choice: the first visible of the user's choice, the defaults whose
\* condition holds, and the values.
RECURSIVE FirstChoice(_, _, _)
TakeVisible(K, c, cs) ==
    IF c.vis[Head(cs).s] # 0 THEN [c |-> c, s |-> Head(cs).s] ELSE FirstChoice(K, c, Tail(cs))
TakeChoice(K, r, cs) ==
    IF r.v = 0 THEN FirstChoice(K, r.c, Tail(cs))
    ELSE TakeVisible(K, sym_calc_visibility(K, r.c, Head(cs).s), cs)
FirstChoice(K, c, cs) ==
    IF cs = <<>> THEN [c |-> c, s |-> None] ELSE TakeChoice(K, Eval(K, c, Head(cs).cond), cs)

Candidates(K, c, ch) ==
    LET Always(ss) == [i \in DOMAIN ss |-> [s |-> ss[i], cond |-> Null]]
        defaults == PropsOf(K, ch, "default")
    IN  Always(IF c.upick[ch] = None THEN <<>> ELSE <<c.upick[ch]>>)
        \o [i \in DOMAIN defaults |-> [s |-> defaults[i].expr[2], cond |-> defaults[i].vis]]
        \o Always(K.sym[ch].values)
SetPick(f, ch) == [f.c EXCEPT !.pick[ch] = f.s, !.curr[ch] = IF f.s = None THEN 0 ELSE @]
sym_calc_choice(K, c, ch) == SetPick(FirstChoice(K, c, Candidates(K, c, ch)), ch)

\* The new value of a boolean or tristate.
SetTristate(K, c, s, v) ==
    [c EXCEPT !.curr[s] = IF Max({v, c.rev[s]}) = 1 /\ sym_get_type(K, c, s) = "boolean" THEN 2
                          ELSE Max({v, c.rev[s]})]
WeakTristate(K, e, s, v) == SetTristate(K, [e.c EXCEPT !.write = @ \cup {s}], s, Min({e.v, v}))
DefaultTristate(K, f, s) ==
    IF f.i = 0 THEN SetTristate(K, f.c, s, 0)
    ELSE WeakTristate(K, Eval(K, f.c, PropsOf(K, s, "default")[f.i].expr), s, f.v)

NewTristate(K, c, s) ==
    LET d == IF c.vis[s] # 0 \/ c.rev[s] # 0 THEN [c EXCEPT !.write = @ \cup {s}] ELSE c
        picked == IsValue(K, s) /\ c.vis[s] = 2
        given == c.vis[s] # 0 /\ s \in c.user
    IN  CASE picked -> [c EXCEPT !.curr[s] = IF c.pick[K.sym[s].choice] = s THEN 2 ELSE 0]
          [] ~picked /\ given -> SetTristate(K, d, s, Min({c.def[s], c.vis[s]}))
          [] ~picked /\ ~given ->
               IF IsChoice(K, s) THEN SetTristate(K, d, s, 0)
               ELSE DefaultTristate(K, FirstVisible(K, d, PropsOf(K, s, "default"), 1), s)

\* The bounds of a range: a number, or a symbol with a number for its value.
Number(c, e) == IF e[1] = "number" THEN e[2] ELSE Max({c.curr[e[2]], 0})
CalcNumber(K, c, e) == IF e[1] = "number" THEN c ELSE sym_calc_value(K, c, e[2])

\* sym_validate_range: a number out of its range becomes the nearest in it.
NotAbove(c, s, e) == [c EXCEPT !.curr[s] = IF Max({@, 0}) <= Number(c, e) THEN @ ELSE Number(c, e)]
NotBelow(K, c, s, q) ==
    IF Max({c.curr[s], 0}) < Number(c, q.expr) THEN [c EXCEPT !.curr[s] = Number(c, q.expr)]
    ELSE NotAbove(CalcNumber(K, c, q.upper), s, q.upper)
ClampNumber(K, f, s) ==
    LET q == PropsOf(K, s, "range")[f.i]
    IN  IF f.i = 0 THEN f.c ELSE NotBelow(K, CalcNumber(K, f.c, q.expr), s, q)
sym_validate_range(K, c, s) == ClampNumber(K, FirstVisible(K, c, PropsOf(K, s, "range"), 1), s)

SetNumber(c, s, e) ==
    [c EXCEPT !.write = @ \cup {s}, !.curr[s] = IF e[1] = "number" THEN e[2] ELSE c.curr[e[2]]]
DefaultNumber(K, f, s) ==
    LET e == PropsOf(K, s, "default")[f.i].expr
    IN  IF f.i = 0 THEN f.c ELSE SetNumber(CalcNumber(K, f.c, e), s, e)
NewNumber(K, c, s) ==
    LET d == IF c.vis[s] # 0 THEN [c EXCEPT !.write = @ \cup {s}] ELSE c
    IN  IF c.vis[s] # 0 /\ s \in c.user THEN [d EXCEPT !.curr[s] = c.def[s]]
        ELSE DefaultNumber(K, FirstVisible(K, d, PropsOf(K, s, "default"), 1), s)

\* sym_calc_value in its steps: visibility, value, choice and range, and what is
\* written.
Marked(K, c, s) == [c EXCEPT !.valid = @ \cup {s}, !.write = IF IsValue(K, s) THEN @ ELSE @ \ {s}]
ResetValue(c, s) == [c EXCEPT !.curr[s] = Zero(s), !.pick[s] = None]
NewValue(K, c, s) == IF IsNumber(s) THEN NewNumber(K, c, s) ELSE NewTristate(K, c, s)
ChoiceOrRange(K, c, s) ==
    IF IsNumber(s) THEN sym_validate_range(K, c, s)
    ELSE IF IsChoice(K, s) /\ c.curr[s] = 2 THEN sym_calc_choice(K, c, s) ELSE c
WriteValues(K, c, s) ==
    IF ~IsChoice(K, s) THEN c
    ELSE [c EXCEPT !.write = (IF s \in @ THEN @ \cup Range(K.sym[s].values) ELSE @) \ {s}]
sym_calc_value(K, c, s) ==
    IF s \in c.valid THEN c
    ELSE WriteValues(K, ChoiceOrRange(K, NewValue(K, ResetValue(
             sym_calc_visibility(K, Marked(K, c, s), s), s), s), s), s)

\* modules_sym has MODULES as its default.
KeepModules(c) == [c EXCEPT !.modules = c.curr["MODULES"]]
CalcModules(K, c) ==
    IF "MODULES" \notin DOMAIN K.sym THEN c ELSE KeepModules(sym_calc_value(K, c, "MODULES"))

sym_clear_all_valid(K, c) == CalcModules(K, [c EXCEPT !.valid = {}, !.changed = TRUE])

-----------------------------------------------------------------------------
\* Setting a value; the answer is the new state and whether it was accepted.
sym_is_changable(c, s) == c.vis[s] > c.rev[s]

sym_tristate_within_range(K, c, s, val) ==
    LET type == sym_get_type(K, c, s)
    IN  /\ c.vis[s] # 0 /\ type \in {"boolean", "tristate"}
        /\ ~(type = "boolean" /\ val = 1)
        /\ c.vis[s] > c.rev[s]
        /\ IF IsValue(K, s) /\ c.vis[s] = 2 THEN val = 2 ELSE val \in c.rev[s]..c.vis[s]

sym_set_tristate_value(K, c, s, val) ==
    LET old == c.curr[s]
        ch == K.sym[s].choice
        group == {v \in Range(K.sym[ch].values) : c.vis[v] # 0} \cup {ch}
        picks == IsValue(K, s) /\ val = 2
        d == [c EXCEPT !.user = @ \cup {s} \cup IF picks THEN group ELSE {}, !.def[s] = val]
        e == IF picks THEN [d EXCEPT !.upick[ch] = s] ELSE d
    IN  IF old # val /\ ~sym_tristate_within_range(K, c, s, val) THEN [c |-> c, ok |-> FALSE]
        ELSE [c |-> IF old # val THEN sym_clear_all_valid(K, e) ELSE e, ok |-> TRUE]

\* sym_toggle_tristate_value: no, mod, yes in turn until one is accepted.
RECURSIVE Toggle(_, _, _, _)
ToggleUnless(K, r, c, s, val) == IF r.ok \/ val = c.curr[s] THEN r.c ELSE Toggle(K, c, s, val)
Toggle(K, c, s, val) ==
    LET next == (val + 1) % 3
    IN  ToggleUnless(K, sym_set_tristate_value(K, c, s, next), c, s, next)
sym_toggle_tristate_value(K, c, s) == Toggle(K, c, s, c.curr[s])

\* A number as text is valid unless it is empty; what is left is the range.
sym_string_valid(n) == n # Empty
AtMost(c, e, n) == [c |-> c, ok |-> n <= Number(c, e)]
AtLeastLower(K, c, q, n) ==
    IF n < Number(c, q.expr) THEN [c |-> c, ok |-> FALSE] ELSE AtMost(CalcNumber(K, c, q.upper), q.upper, n)
WithinRange(K, f, s, n) ==
    LET q == PropsOf(K, s, "range")[f.i]
    IN  IF f.i = 0 THEN [c |-> f.c, ok |-> TRUE] ELSE AtLeastLower(K, CalcNumber(K, f.c, q.expr), q, n)
sym_string_within_range(K, c, s, n) ==
    IF sym_string_valid(n) THEN WithinRange(K, FirstVisible(K, c, PropsOf(K, s, "range"), 1), s, n)
    ELSE [c |-> c, ok |-> FALSE]

Given(c, s, n) == [c EXCEPT !.user = @ \cup {s}, !.def[s] = n]
SetString(K, r, s, n, old) ==
    [c |-> IF ~r.ok THEN r.c ELSE IF old = n THEN Given(r.c, s, n)
           ELSE sym_clear_all_valid(K, Given(r.c, s, n)),
     ok |-> r.ok]

\* Mutated: the values calculated before are kept.
SetStringCached(r, s, n) == [c |-> IF r.ok THEN Given(r.c, s, n) ELSE r.c, ok |-> r.ok]
sym_set_string_valueCached(K, c, s, n) == SetStringCached(sym_string_within_range(K, c, s, n), s, n)

sym_set_string_value(K, c, s, n) == SetString(K, sym_string_within_range(K, c, s, n), s, n, c.def[s])

-----------------------------------------------------------------------------
\* sym_check_deps: x keeps the symbols being checked, those checked and the
\* number of errors; found is the symbol a cycle leads back to.
RECURSIVE sym_check_deps(_, _, _)
RECURSIVE CheckSyms(_, _, _)
CheckMore(K, x, ss) == IF x.found # None THEN x ELSE CheckSyms(K, x, ss)
CheckSyms(K, x, ss) ==
    IF ss = <<>> THEN [x EXCEPT !.found = None] ELSE CheckMore(K, sym_check_deps(K, x, Head(ss)), Tail(ss))

\* What a symbol depends on: the conditions and defaults, not what it selects.
DepsOf(K, s) ==
    LET Deps(q) == SymsOf(q.vis) \o IF q.kind = "default" /\ ~IsChoice(K, s) THEN SymsOf(q.expr) ELSE <<>>
        ps == SelectSeq(K.sym[s].props, LAMBDA q : q.kind # "select")
        prompts == PromptsOf(K, s)
    IN  SelectSeq(SymsOf(K.sym[s].rev)
                  \o FlattenSeq([i \in DOMAIN prompts |-> SymsOf(K.menu[prompts[i]].prompt)])
                  \o FlattenSeq([i \in DOMAIN ps |-> Deps(ps[i])]),
                  LAMBDA t : t \notin Constants)

\* A symbol, or a choice together with its values, is left checked.
Opened(x, group) == [x EXCEPT !.check = @ \cup group, !.checked = @ \cup group]
Closed(x, group) == [x EXCEPT !.check = @ \ group]
sym_check_sym_deps(K, x, s) == Closed(CheckSyms(K, Opened(x, {s}), DepsOf(K, s)), {s})

CheckValues(K, x, ch) ==
    LET values == K.sym[ch].values
    IN  IF x.found # None THEN x
        ELSE CheckSyms(K, Closed(x, {ch}), FlattenSeq([i \in DOMAIN values |-> DepsOf(K, values[i])]))
BackToChoice(x, values, ch) == [Closed(x, values \cup {ch}) EXCEPT !.found = IF @ \in values THEN ch ELSE @]
sym_check_choice_deps(K, x, ch) ==
    LET values == Range(K.sym[ch].values)
    IN  BackToChoice(CheckValues(K, CheckSyms(K, Opened(x, values \cup {ch}), DepsOf(K, ch)), ch), values, ch)

CountError(x, s) == IF x.found = s THEN [x EXCEPT !.errors = @ + 1, !.found = None] ELSE x
sym_check_deps(K, x, s) ==
    CASE s \in x.check -> [x EXCEPT !.found = s]
      [] s \notin x.check /\ s \in x.checked -> [x EXCEPT !.found = None]
      [] s \notin x.check /\ s \notin x.checked /\ IsValue(K, s) -> sym_check_deps(K, x, K.sym[s].choice)
      [] OTHER -> CountError(IF IsChoice(K, s) THEN sym_check_choice_deps(K, x, s)
                             ELSE sym_check_sym_deps(K, x, s), s)

\* conf_parse, at its end: every symbol is checked; an error ends the program.
CheckFile(K) ==
    FoldLeft(LAMBDA x, s : LET y == sym_check_deps(K, x, s)
                           IN  IF y.found = None THEN y ELSE [y EXCEPT !.errors = @ + 1],
             [check |-> {}, checked |-> {}, errors |-> 0, found |-> None], K.order)
=============================================================================
