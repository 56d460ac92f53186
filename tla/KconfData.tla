----------------------------- MODULE KconfData -----------------------------
(***************************************************************************)
(* Reading and writing configurations (scripts/kconfig/confdata.c) and the *)
(* dialogue of conf (scripts/kconfig/conf.c).  A configuration file is a   *)
(* sequence of pairs of a symbol and its value; "is not set" is value 0.   *)
(***************************************************************************)
EXTENDS KconfSym

ChoiceSyms(K) == {s \in DOMAIN K.sym : IsChoice(K, s)}

-----------------------------------------------------------------------------
\* conf_read_simple, one line, for the user's values; x.warned: conf_warnings.
\* conf_set_sym_val does not take m for a boolean.
ReadLine(K, x, line) ==
    LET s == line[1]
        v == line[2]
        c == x.c
        taken == ~(SymType[s] = "boolean" /\ v = 1)
        d == IF taken THEN [c EXCEPT !.def[s] = v, !.user = @ \cup {s}] ELSE c
        ch == K.sym[s].choice
        lost == d.def[s] = 1 /\ c.def[ch] = 2
        e == [d EXCEPT !.user = IF lost THEN @ \ {ch} ELSE @,
                       !.upick[ch] = IF d.def[s] = 2 THEN s ELSE @,
                       !.def[ch] = Max({@, d.def[s]})]
    IN  IF s \notin DOMAIN K.sym THEN [x EXCEPT !.c.changed = TRUE]
        ELSE [c |-> IF IsValue(K, s) THEN e ELSE d,
              warned |-> x.warned \/ s \in c.user \/ ~taken
                         \/ (IsValue(K, s) /\ (lost \/ (d.def[s] = 2 /\ c.def[ch] # 0)))]

conf_read_simple(K, c, file) ==
    LET S == DOMAIN K.sym
        blank == [c EXCEPT !.user = ChoiceSyms(K), !.def = [s \in S |-> Zero(s)],
                           !.upick = [s \in S |-> None], !.valid = {}]
    IN  [FoldLeft(LAMBDA y, line : ReadLine(K, y, line), [c |-> blank, warned |-> FALSE], file)
            EXCEPT !.c = CalcModules(K, @)]

\* conf_read, first loop: does the value agree with the file; has a choice one?
Agrees(K, c, s) ==
    \/ IsChoice(K, s)
    \/ s \in c.user /\ s \in c.write /\ c.def[s] = c.curr[s]
    \/ s \notin c.user /\ s \notin c.write

CheckValue(K, x, c, s) ==
    LET shown == {v \in Range(K.sym[s].values) : c.vis[v] # 0}
    IN  [x EXCEPT !.unsaved = @ \/ ~Agrees(K, c, s),
                  !.c = IF IsChoice(K, s) /\ ~(shown \subseteq c.user)
                        THEN [c EXCEPT !.user = @ \ {s}] ELSE c]
CheckRead(K, x, s) == CheckValue(K, x, sym_calc_value(K, x.c, s), s)

\* conf_read, second loop: generated values are forgotten, and numbers out of
\* their range.
KeepNumber(x, r, s) ==
    IF r.ok THEN [x EXCEPT !.c = r.c]
    ELSE [x EXCEPT !.c = [r.c EXCEPT !.valid = @ \ {s}, !.user = @ \ {s}], !.unsaved = TRUE]
ForgetGenerated(K, x, s) ==
    LET c == IF x.c.vis[s] = 0 /\ ~x.unsaved THEN [x.c EXCEPT !.user = @ \ {s}] ELSE x.c
    IN  IF s \notin x.c.user \/ IsValue(K, s) THEN x
        ELSE IF IsNumber(s) THEN KeepNumber(x, sym_string_within_range(K, c, s, c.def[s]), s)
        ELSE [x EXCEPT !.c = c]

ReadChanged(x, warned) == [x.c EXCEPT !.changed = @ \/ warned \/ x.unsaved]
CheckAllRead(K, r) ==
    ReadChanged(FoldLeft(LAMBDA y, s : ForgetGenerated(K, y, s),
                         FoldLeft(LAMBDA y, s : CheckRead(K, y, s), [c |-> r.c, unsaved |-> FALSE], K.order),
                         K.order), r.warned)
conf_read(K, c, file) == CheckAllRead(K, conf_read_simple(K, [c EXCEPT !.changed = FALSE], file))

\* conf_write: the symbols in the order of the menus, each once.
WriteLine(x, c, s) ==
    IF s \notin c.write THEN [x EXCEPT !.c = c]
    ELSE [c |-> [c EXCEPT !.write = @ \ {s}], file |-> Append(x.file, <<s, c.curr[s]>>)]
WriteEntry(K, x, s) ==
    IF s = None \/ IsChoice(K, s) THEN x ELSE WriteLine(x, sym_calc_value(K, x.c, s), s)

conf_write(K, c) ==
    [FoldLeft(LAMBDA y, m : WriteEntry(K, y, K.menu[m].sym),
              [c |-> IF c.changed THEN c ELSE sym_clear_all_valid(K, c), file |-> <<>>],
              Tail(Walk(K, Root))) EXCEPT !.c.changed = FALSE]

\* conf_set_all_new_symbols for allno, allmod and allyes: mode is 0, 1 or 2.
conf_set_all_new_symbols(K, c, mode) ==
    LET new == {s \in DOMAIN K.sym \ c.user : ~IsNumber(s)}
    IN  sym_clear_all_valid(K, [c EXCEPT !.def = [s \in DOMAIN @ |-> IF s \in new THEN mode ELSE @[s]],
                                         !.user = @ \cup new])

\* ... and for random: dice gives a tristate for every symbol, of is the value
\* drawn for every choice.
DrawValue(K, c, ch, s) ==
    LET values == Range(K.sym[ch].values)
    IN  IF c.curr[ch] # 2 THEN c
        ELSE [c EXCEPT !.def = [v \in DOMAIN @ |-> IF v = s THEN 2 ELSE IF v \in values THEN 0 ELSE @[v]],
                       !.upick[ch] = s, !.user = @ \cup {ch}, !.valid = @ \ {ch}]
RandomChoice(K, c, ch, of) ==
    IF ch \in c.user THEN c ELSE DrawValue(K, sym_calc_value(K, c, ch), ch, of[ch])

SetRandom(K, c, dice, of) ==
    LET new == {s \in DOMAIN K.sym \ c.user : ~IsNumber(s)}
        set == [c EXCEPT !.def = [s \in DOMAIN @ |-> IF s \in new THEN dice[s] ELSE @[s]],
                         !.user = @ \cup (new \ ChoiceSyms(K))]
    IN  FoldLeft(LAMBDA x, ch : RandomChoice(K, x, ch, of), sym_clear_all_valid(K, set),
                 SelectSeq(K.order, LAMBDA s : IsChoice(K, s)))

-----------------------------------------------------------------------------
\* menu_is_visible: the prompt, or for a symbol that is set an entry below.
RECURSIVE menu_is_visible(_, _, _)
VisibleBelow(K, r, m) ==
    LET s == K.menu[m].sym
    IN  IF r.v # 0 \/ s = None \/ r.c.curr[s] = 0 THEN [c |-> r.c, v |-> r.v # 0]
        ELSE FoldLeft(LAMBDA x, k : IF x.v THEN x ELSE menu_is_visible(K, x.c, k),
                      [c |-> r.c, v |-> FALSE], K.menu[m].list)
menu_is_visible(K, c, m) ==
    IF ~HasPrompt(K, m) THEN [c |-> c, v |-> FALSE]
    ELSE VisibleBelow(K, IF K.menu[m].sym = None THEN Eval(K, c, K.menu[m].prompt)
                         ELSE ValueIn(sym_calc_value(K, c, K.menu[m].sym), K.menu[m].prompt), m)

\* conf_askvalue: is a question put?  all: also for symbols that have a value.
Asked(c, s, all) == sym_is_changable(c, s) /\ (all \/ s \notin c.user)

\* conf_sym, conf_string: the answer ans[s] is tried once, then the value kept.
OrKeepTristate(K, r, c, s) == IF r.ok THEN r.c ELSE sym_set_tristate_value(K, c, s, c.curr[s]).c
conf_sym(K, c, s, all, ans) ==
    IF Asked(c, s, all) THEN OrKeepTristate(K, sym_set_tristate_value(K, c, s, ans[s]), c, s) ELSE c

OrKeepNumber(K, r, c, s) == IF r.ok THEN r.c ELSE sym_set_string_value(K, c, s, c.curr[s]).c
conf_string(K, c, s, all, ans) ==
    IF Asked(c, s, all) THEN OrKeepNumber(K, sym_set_string_value(K, c, s, ans[s]), c, s) ELSE c

\* menu_get_parent_menu
RECURSIVE ParentMenu(_, _)
ParentMenu(K, m) == IF m = Root \/ K.menu[m].ptype = "menu" THEN m ELSE ParentMenu(K, K.menu[m].parent)

\* conf walks the entries below m and asks; x is the state, how often a walk was
\* started again (conf_cnt), where it started (rootEntry) and the mode.
RECURSIVE conf(_, _, _, _)
RECURSIVE check_conf(_, _, _, _)
ConfAll(K, x, ms, ans) == FoldLeft(LAMBDA y, m : conf(K, y, m, ans), x, ms)

\* conf_choice: with an answer that is a visible value that one, else the
\* present one; the entries below the value follow.
KeepShown(K, y, r, k) == [c |-> r.c, ms |-> IF r.v /\ K.menu[k].sym # None THEN Append(y.ms, k) ELSE y.ms]
ShownValues(K, c, m) ==
    FoldLeft(LAMBDA y, k : KeepShown(K, y, menu_is_visible(K, y.c, k), k), [c |-> c, ms |-> <<>>], K.menu[m].list)
ChosenEntry(K, y, ch, answer) ==
    IF Len(y.ms) = 1 THEN y.ms[1]
    ELSE IF answer \in DOMAIN y.ms THEN y.ms[answer]
    ELSE y.ms[SelectInSeq(y.ms, LAMBDA k : K.menu[k].sym = y.c.pick[ch])]
ConfChosen(K, x, c, k, ans) ==
    ConfAll(K, [x EXCEPT !.c = sym_set_tristate_value(K, c, K.menu[k].sym, 2).c], K.menu[k].list, ans)
AskChoice(K, x, y, ch, ans) ==
    ConfChosen(K, x, y.c, ChosenEntry(K, y, ch, IF ch \notin x.c.user \/ x.all THEN ans[ch] ELSE 0), ans)
ConfValues(K, x, c, m, ans) ==
    LET ch == K.menu[m].sym
    IN  IF c.curr[ch] # 2 THEN [x EXCEPT !.c = c] ELSE AskChoice(K, x, ShownValues(K, c, m), ch, ans)
ConfChoiceItself(K, x, ch, ans) == IF sym_is_changable(x.c, ch) THEN conf_sym(K, x.c, ch, x.all, ans) ELSE x.c
conf_choice(K, x, m, ans) ==
    LET ch == K.menu[m].sym
    IN  ConfValues(K, x, sym_calc_value(K, ConfChoiceItself(K, x, ch, ans), ch), m, ans)

AskEntry(K, x, m, ans) ==
    LET s == K.menu[m].sym
    IN  IF s = None THEN x
        ELSE IF IsChoice(K, s) THEN conf_choice(K, x, m, ans)
        ELSE IF IsNumber(s) THEN [x EXCEPT !.c = conf_string(K, @, s, x.all, ans)]
        ELSE [x EXCEPT !.c = conf_sym(K, @, s, x.all, ans)]
ConfBelow(K, x, m, ans) ==
    LET s == K.menu[m].sym
    IN  IF IsChoice(K, s) /\ x.c.curr[s] # 1 THEN x ELSE ConfAll(K, x, K.menu[m].list, ans)
ConfEntry(K, x, m, ans) ==
    IF K.menu[m].ptype = "menu" /\ ~x.all /\ x.root # m THEN check_conf(K, x, m, ans)
    ELSE ConfBelow(K, AskEntry(K, x, m, ans), m, ans)
ConfVisible(K, x, v, m, ans) ==
    IF v.v THEN ConfEntry(K, [x EXCEPT !.c = v.c], m, ans) ELSE [x EXCEPT !.c = v.c]
conf(K, x, m, ans) == ConfVisible(K, x, menu_is_visible(K, x.c, m), m, ans)

NewSymbol(K, c, s) ==
    s # None /\ s \notin c.user /\ (sym_is_changable(c, s) \/ (IsChoice(K, s) /\ c.curr[s] = 2))
AskNew(K, x, m, ans) ==
    LET root == ParentMenu(K, m)
    IN  IF NewSymbol(K, x.c, K.menu[m].sym)
        THEN conf(K, [x EXCEPT !.cnt = @ + 1, !.root = root], root, ans) ELSE x
CheckVisible(K, x, v, m, ans) ==
    IF v.v THEN FoldLeft(LAMBDA z, k : check_conf(K, z, k, ans),
                         AskNew(K, [x EXCEPT !.c = v.c], m, ans), K.menu[m].list)
    ELSE [x EXCEPT !.c = v.c]
check_conf(K, x, m, ans) == CheckVisible(K, x, menu_is_visible(K, x.c, m), m, ans)

\* main, oldconfig: check until a walk asks nothing more.
RECURSIVE UntilQuiet(_, _, _)
AskAgain(K, x, ans) == IF x.cnt = 0 THEN x.c ELSE UntilQuiet(K, x, ans)
UntilQuiet(K, x, ans) ==
    AskAgain(K, check_conf(K, [x EXCEPT !.cnt = 0], Root, ans), ans)

\* config (all) asks for everything first, oldconfig only for what is new.
Oldconfig(K, x, ans) == UntilQuiet(K, [x EXCEPT !.all = FALSE], ans)
Config(K, x, ans) == IF x.all THEN conf(K, x, Root, ans) ELSE x
Dialogue(K, c, all, ans) ==
    Oldconfig(K, Config(K, [c |-> c, cnt |-> 0, root |-> Root, all |-> all], ans), ans)

-----------------------------------------------------------------------------
\* A string in a configuration file: quotes and backslashes get a backslash.
WriteString(str) ==
    FlattenSeq([i \in DOMAIN str |-> IF str[i] \in {"quote", "backslash"} THEN <<"backslash", str[i]>>
                                     ELSE <<str[i]>>]) \o <<"quote">>

\* conf_set_sym_val, for a string: what is in front of the closing quote.
RECURSIVE ReadString(_)
ReadString(text) ==
    IF text = <<>> \/ Head(text) = "quote" THEN <<>>
    ELSE IF Head(text) = "backslash" THEN <<text[2]>> \o ReadString(SubSeq(text, 3, Len(text)))
    ELSE <<Head(text)>> \o ReadString(Tail(text))

\* conf_split_config: is the file of a symbol touched?  new is its value, or
\* Absent if it is not written; old the value in auto.conf, or Absent.
Absent == -2
conf_split_config(number, new, old) ==
    IF new = Absent THEN old # Absent
    ELSE IF old # Absent THEN new # old
    ELSE number \/ new # 0

\* conf_write_autoconf: what auto.conf and autoconf.h say of a symbol.
AutoValue(number, new) == IF ~number /\ new = 0 THEN Absent ELSE new
=============================================================================
