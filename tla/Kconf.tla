------------------------------- MODULE Kconf -------------------------------
(***************************************************************************)
(* The configuration tool (scripts/kconfig) as jobs.                       *)
(***************************************************************************)
EXTENDS Jobs, KconfData

CONSTANTS
    Literals,   \* operands of the expressions that are simplified
    Atoms,      \* all operands, for single comparisons
    Files,      \* configuration files, as parsed: name -> file
    Entered,    \* what the user enters for a number
    Saved,      \* configurations that were saved: name -> set of files
    Answers,    \* what the user answers: functions from symbols
    RawMenus,   \* files as parsed, to be finalized only
    DepFiles,   \* files with dependencies between symbols, cyclic or not
    MaxText,    \* length of a string
    MaxEdits    \* changes, saves and loads of a session

\* A file after parsing.
Parsed == [k \in DOMAIN Files |-> menu_finalize(Files[k], Root)]

-----------------------------------------------------------------------------
\* Inputs.
Chains == {"and", "or"}
TwoOf(S) == {<<op, a, b>> : op \in Chains, a, b \in S}

SimplifyExpr ==
    \/ \E e \in TwoOf(Atoms) \cup {<<"not", a>> : a \in TwoOf(Atoms)} :
         Start([alg |-> "expr", e |-> e])
    \/ \E op \in Chains, a, b \in TwoOf(Literals) : Start([alg |-> "expr", e |-> <<op, a, b>>])

CompareExprs ==
    \E op \in Chains, a, b, c \in Literals, g \in TwoOf(Literals) :
        \E f \in {g, <<op, a, g>>} : Start([alg |-> "expr_eq", e |-> f, f |-> <<op, <<op, a, b>>, c>>])

FinalizeMenu == \E r \in RawMenus : Start([alg |-> "menu", raw |-> r])
CheckDeps == \E K \in DepFiles : Start([alg |-> "deps", K |-> K])
QuoteString == \E str \in BoundedSeq({"a", "quote", "backslash"}, MaxText) : Start([alg |-> "quote", str |-> str])

\* conf is run on a configuration that was saved.
AskUser ==
    \E k \in DOMAIN Files, all \in BOOLEAN :
        \E f \in Saved[k], ans \in Answers :
            Start([alg |-> "ask", k |-> k, f |-> f, all |-> all, ans |-> ans])
SetAll ==
    \E k \in DOMAIN Files, mode \in 0..2 :
        \E f \in Saved[k] : Start([alg |-> "all", k |-> k, f |-> f, mode |-> mode])
SetByDice ==
    \E k \in DOMAIN Files, dice \in Answers :
        \E K \in {Parsed[k]} :
            \E of \in [ChoiceSyms(K) -> DOMAIN K.sym] :
                /\ \A ch \in ChoiceSyms(K) : of[ch] \in Range(K.sym[ch].values)
                /\ Start([alg |-> "random", k |-> k, dice |-> dice, of |-> of])

\* A configuration is edited: the tool starts with one that was saved, or none.
Load(K, f) == IF f = <<>> THEN Unset(K) ELSE conf_read(K, Unset(K), f)
StartConfig ==
    \E k \in DOMAIN Files :
        \E f \in Saved[k] : Start([alg |-> "conf", k |-> k, c |-> Load(Parsed[k], f), set |-> <<>>, edits |-> 0])

\* The build: nothing is configured yet.  config: what .config says; auto and
\* header: auto.conf and autoconf.h; touched: files newer than the objects, which
\* were built with built; done: auto.conf is newer than .config.
BuildSyms == {"bool", "number"}
BuildValues(s) == IF s = "bool" THEN {Absent, 0, 2} ELSE {Absent, 1, 2}
Nothing == [s \in BuildSyms |-> Absent]
StartBuild ==
    Start([alg |-> "build", config |-> Nothing, auto |-> Nothing, header |-> Nothing,
           touched |-> {}, built |-> Nothing, done |-> FALSE, step |-> "idle", todo |-> {}])

KconfJobs == \/ CompareExprs \/ SimplifyExpr \/ FinalizeMenu \/ CheckDeps \/ QuoteString
             \/ AskUser \/ SetAll \/ SetByDice \/ StartConfig \/ StartBuild

\* The user is shown all symbols, and changes one; or saves, or loads a file.
ConfigEdits(K, c) ==
    LET To(d, set) == job' = [job EXCEPT !.c = d, !.set = set, !.edits = @ + 1]
        Accepted(r, s, v) == r.ok /\ To(r.c, <<s, v>>)
    IN  \/ \E s \in DOMAIN K.sym, v \in 0..2 :
             /\ ~IsNumber(s)
             /\ Accepted(sym_set_tristate_value(K, c, s, v), s, v)
        \/ \E s \in DOMAIN K.sym : ~IsNumber(s) /\ To(sym_toggle_tristate_value(K, c, s), <<>>)
        \/ \E s \in DOMAIN K.sym, n \in Entered :
             /\ IsNumber(s) /\ c.vis[s] # 0
             /\ s \in c.user \/ c.def[s] # n    \* see the README: a forgotten value
             /\ Accepted(sym_set_string_value(K, c, s, n), s, n)
        \/ To(conf_write(K, c).c, <<>>)
        \/ To(conf_read(K, c, conf_write(K, c).file), <<>>)

EditConfig ==
    /\ job.alg = "conf" /\ job.edits < MaxEdits
    /\ \E K \in {Parsed[job.k]} : ConfigEdits(K, CalcAll(K, job.c, K.order))

Auto(values) == [s \in BuildSyms |-> AutoValue(s = "number", values[s])]

\* conf_write_autoconf, one step after the other, and what happens around it.
BuildStep ==
    \/ /\ job.step = "idle"
       /\ \E v \in {f \in [BuildSyms -> {Absent, 0, 1, 2}] : \A s \in BuildSyms : f[s] \in BuildValues(s)} :
            job' = [job EXCEPT !.config = v, !.done = FALSE]
    \/ job.step = "idle" /\ job' = [job EXCEPT !.step = "split", !.todo = BuildSyms]
    \/ /\ job.step = "split"
       /\ \E s \in job.todo :
            job' = [job EXCEPT !.todo = @ \ {s},
                               !.touched = IF conf_split_config(s = "number", job.config[s], job.auto[s])
                                           THEN @ \cup {s} ELSE @]
    \/ job.step = "split" /\ job.todo = {} /\ job' = [job EXCEPT !.step = "header", !.header = Auto(job.config)]
    \/ job.step = "header" /\ job' = [job EXCEPT !.step = "idle", !.auto = Auto(job.config), !.done = TRUE]
    \/ job.step # "idle" /\ job' = [job EXCEPT !.step = "idle"]
    \/ /\ job.step = "idle" /\ job.done
       /\ job' = [job EXCEPT !.built = [s \in BuildSyms |-> IF s \in job.touched THEN job.header[s] ELSE @[s]],
                             !.touched = {}]

RunBuild == job.alg = "build" /\ BuildStep

-----------------------------------------------------------------------------
Operands == UNION {Range(SymsOf(e)) : e \in Atoms} \ Constants
Valuations == {v \in [Operands -> 0..2] : \A s \in Operands : SymType[s] = "boolean" => v[s] # 1}

\* Values of the symbols for which nothing that is negated is m.
RECURSIVE NegatesMod(_, _)
NegatesMod(e, v) ==
    CASE e[1] = "not" -> expr_calc_value(e[2], v) = 1 \/ NegatesMod(e[2], v)
      [] IsChain(e) -> NegatesMod(e[2], v) \/ NegatesMod(e[3], v)
      [] OTHER -> FALSE
Clear(e) == {v \in Valuations : ~NegatesMod(e, v)}

Same(e, f, vals) == \A v \in vals : expr_calc_value(e, v) = expr_calc_value(f, v)

(***************************************************************************)
(* Simplifying an expression - negations moved inside, duplicates and      *)
(* contradictions eliminated until nothing changes - ends, and does not    *)
(* change its value for any values of the symbols; where a negated         *)
(* tristate may be m, only transform keeps the value (a && !a counts as n).*)
(***************************************************************************)
SimplifyKeepsValue ==
    job.alg = "expr" =>
        \A t \in {expr_transform(job.e)} :
            /\ Same(job.e, t, Valuations)
            /\ Same(t, expr_eliminate_dups(t), Clear(t))

(***************************************************************************)
(* Expressions that expr_eq takes for equal, by striking out common        *)
(* operands in any order, have the same value; and what is extracted from  *)
(* two chains as common, put back, gives the two again.                    *)
(***************************************************************************)
EqualMeansSame ==
    job.alg = "expr_eq" =>
        LET op == job.f[1]
            x == expr_extract_eq(op, job.e, job.f)
            Back(e) == IF x[1] = Null THEN e ELSE <<op, x[1], e>>
        IN  /\ expr_eq(job.e, job.f) => Same(job.e, job.f, Valuations)
            /\ Same(Back(x[2]), job.e, Valuations) /\ Same(Back(x[3]), job.f, Valuations)

(***************************************************************************)
(* Comparing with n, which menu_finalize uses to find out under which menu *)
(* an entry belongs, gives y exactly where the value is not n; an          *)
(* expression whose value a symbol can change contains it, and one that    *)
(* depends on it is n whenever the symbol is.                              *)
(***************************************************************************)
DependencyRight ==
    job.alg = "expr" =>
        LET c == expr_trans_compare(job.e, "unequal", "n")
        IN  /\ \A v \in Clear(job.e) : expr_calc_value(c, v) = IF expr_calc_value(job.e, v) = 0 THEN 0 ELSE 2
            /\ \A s \in Operands, v \in Valuations :
                 /\ expr_depends_symbol(job.e, s) /\ v[s] = 0 => expr_calc_value(job.e, v) = 0
                 /\ ~expr_contains_symbol(job.e, s) =>
                      expr_calc_value(job.e, v) = expr_calc_value(job.e, [v EXCEPT ![s] = 0])

\* The grammar of expressions (zconf.y): or, and, negation, comparison.
RECURSIVE ParseOr(_)
RECURSIVE ParseAnd(_)
RECURSIVE ParseUnit(_)
ParseUnit(t) ==
    CASE Head(t) = "!" -> LET u == ParseUnit(Tail(t)) IN [e |-> <<"not", u.e>>, rest |-> u.rest]
      [] Head(t) = "(" -> LET u == ParseOr(Tail(t)) IN [e |-> u.e, rest |-> Tail(u.rest)]
      [] OTHER -> IF Len(t) >= 3 /\ t[2] \in {"=", "!="}
                  THEN [e |-> <<IF t[2] = "=" THEN "equal" ELSE "unequal", t[1], t[3]>>,
                        rest |-> SubSeq(t, 4, Len(t))]
                  ELSE [e |-> <<"symbol", Head(t)>>, rest |-> Tail(t)]
ParseAnd(t) ==
    LET u == ParseUnit(t)
        more == u.rest # <<>> /\ Head(u.rest) = "&&"
        v == ParseAnd(Tail(u.rest))
    IN  IF more THEN [e |-> <<"and", u.e, v.e>>, rest |-> v.rest] ELSE u
ParseOr(t) ==
    LET u == ParseAnd(t)
        more == u.rest # <<>> /\ Head(u.rest) = "||"
        v == ParseOr(Tail(u.rest))
    IN  IF more THEN [e |-> <<"or", u.e, v.e>>, rest |-> v.rest] ELSE u

(***************************************************************************)
(* The text of an expression has the parentheses it needs: read with the   *)
(* grammar of the configuration files, it has the same value.              *)
(***************************************************************************)
PrintReadsBack ==
    job.alg = "expr" =>
        LET p == ParseOr(expr_print(job.e, "none"))
        IN  p.rest = <<>> /\ Same(p.e, job.e, Valuations)

-----------------------------------------------------------------------------
\* The entries around m in the file as it was written, and m.
RECURSIVE Around(_, _)
Around(K, m) == IF m = Root THEN {Root} ELSE {m} \cup Around(K, K.menu[m].parent)

(***************************************************************************)
(* Finalizing the tree of menus moves entries below others and conditions  *)
(* to the entries: the entries keep their order, each is visible exactly   *)
(* where all conditions written around it hold, and then the entry it was  *)
(* moved to is visible as well, so that it can be reached.                 *)
(***************************************************************************)
MenuRight ==
    job.alg = "menu" =>
        LET raw == job.raw
            deps == {raw.menu[m].dep : m \in DOMAIN raw.menu}
            Valued(K, v) == [Unset(K) EXCEPT !.valid = DOMAIN K.sym, !.curr = v]
            Written(m, v) == \A a \in Around(raw, m) : expr_calc_value(raw.menu[a].dep, v) # 0
        IN  \A K \in {menu_finalize(raw, Root)} :
              /\ Walk(K, Root) = Walk(raw, Root)
              /\ \A v \in {w \in Valuations : \A e \in deps : ~NegatesMod(e, w)},
                    m \in {n \in DOMAIN K.menu : HasPrompt(K, n)} :
                   LET shown == expr_calc_value(K.menu[m].prompt, v) # 0
                   IN  /\ shown = Written(m, v)
                       /\ shown => menu_is_visible(K, Valued(K, v), K.menu[m].parent).v

\* The values of a choice are one node of the graph of dependencies, which needs
\* that of the choice; in the coarse graph they are the same.
NodeOf(K, s, coarse) ==
    IF IsValue(K, s) THEN <<K.sym[s].choice, ~coarse>> ELSE <<s, FALSE>>
Needs(K, n, coarse) ==
    LET of == {s \in DOMAIN K.sym : NodeOf(K, s, coarse) = n}
        needed == UNION {{u \in Range(DepsOf(K, s)) : ~(coarse /\ u = K.sym[s].choice)} : s \in of}
    IN  {NodeOf(K, u, coarse) : u \in needed}
RECURSIVE Reaches(_, _, _, _)
Reaches(K, N, seen, coarse) ==
    LET more == UNION {Needs(K, n, coarse) : n \in N}
    IN  IF more \subseteq seen THEN seen ELSE Reaches(K, more, seen \cup more, coarse)
Cyclic(K, coarse) ==
    \E s \in DOMAIN K.sym : LET n == NodeOf(K, s, coarse) IN n \in Reaches(K, {n}, {}, coarse)

(***************************************************************************)
(* The check of a file for recursive dependencies, which goes through the  *)
(* symbols once and never checks one again, misses no cycle through the    *)
(* symbols or the values of a choice, and reports only where a symbol, or  *)
(* a choice taken together with its values, depends on itself.             *)
(***************************************************************************)
CyclesFound ==
    job.alg = "deps" =>
        LET found == CheckFile(job.K).errors > 0
        IN  /\ Cyclic(job.K, FALSE) => found
            /\ found => Cyclic(job.K, TRUE)

(***************************************************************************)
(* A string that is written with its quotes and backslashes escaped is     *)
(* read back as it was.                                                    *)
(***************************************************************************)
StringReadsBack == job.alg = "quote" => ReadString(WriteString(job.str)) = job.str

(***************************************************************************)
(* Whatever was touched, renamed or interrupted before: once make has run  *)
(* with an auto.conf that is newer than .config, every object is built     *)
(* with the values of autoconf.h, and these are those of .config.          *)
(***************************************************************************)
RebuiltRight ==
    job.alg = "build" /\ job.step = "idle" /\ job.done /\ job.touched = {} =>
        job.header = Auto(job.config) /\ job.built = job.header

-----------------------------------------------------------------------------
Fresh(K, c) == CalcAll(K, sym_clear_all_valid(K, c), K.order)
ChoicesSound(K, c) ==
    \A ch \in ChoiceSyms(K) :
        c.curr[ch] = 2 => {s \in Range(K.sym[ch].values) : c.curr[s] = 2} = {c.pick[ch]}

(***************************************************************************)
(* Calculated values are kept until something changes: whichever symbol is *)
(* asked for first, in any state of a session, its value and visibility    *)
(* are those of a calculation from nothing.                                *)
(***************************************************************************)
CacheCurrent ==
    job.alg = "conf" =>
        LET Known(c, s) == <<c.curr[s], c.pick[s], c.vis[s]>>
        IN  \A K \in {Parsed[job.k]} :
              \A fresh \in {Fresh(K, job.c)}, s \in DOMAIN K.sym :
                  Known(sym_calc_value(K, job.c, s), s) = Known(fresh, s)

(***************************************************************************)
(* A value that was accepted is the value the symbol then has, whatever    *)
(* other symbols select or depend on; and of a choice that is y exactly    *)
(* one value is y, the one the choice names.                               *)
(***************************************************************************)
AcceptedHolds ==
    job.alg = "conf" =>
        \A K \in {Parsed[job.k]} :
            \A c \in {Fresh(K, job.c)} :
                /\ job.set # <<>> => c.curr[job.set[1]] = job.set[2]
                /\ ChoicesSound(K, c)

(***************************************************************************)
(* A saved configuration, loaded into a tool that was just started, gives  *)
(* every symbol the value it had.                                          *)
(***************************************************************************)
SavedReadsBack ==
    job.alg = "conf" =>
        \A K \in {Parsed[job.k]} :
            \A file \in {conf_write(K, job.c).file} :
                \A c \in {conf_read(K, Unset(K), file)} : Fresh(K, c).curr = Fresh(K, job.c).curr

(***************************************************************************)
(* oldconfig and config, which ask again as long as an answer brings up    *)
(* new symbols, end with an answer for every symbol that can be changed;   *)
(* oldconfig leaves every answer there was, and neither leaves a choice    *)
(* without its one value.                                                  *)
(***************************************************************************)
AllAnswered ==
    job.alg = "ask" =>
        LET Open(K, c) == {s \in DOMAIN K.sym : sym_is_changable(c, s) /\ s \notin c.user}
            Kept(K, c, d) == \A s \in c.user : IsValue(K, s) \/ IsChoice(K, s) \/ d.def[s] = c.def[s]
        IN  \A K \in {Parsed[job.k]} :
              \A c \in {Load(K, job.f)} :
                \A answered \in {Dialogue(K, c, job.all, job.ans)} :
                  \A d \in {Fresh(K, answered)} :
                    /\ Open(K, d) = {} /\ ChoicesSound(K, d)
                    /\ ~job.all => Kept(K, c, d)

(***************************************************************************)
(* allnoconfig, allmodconfig and allyesconfig give every new symbol that   *)
(* can be changed the value nearest to the one asked for, whatever the     *)
(* others select; and a random configuration has one value of each choice. *)
(***************************************************************************)
AllSet ==
    /\ job.alg = "all" =>
         LET Wanted(K, c, s) == IF job.mode = 1 /\ sym_get_type(K, c, s) = "boolean" THEN 2 ELSE job.mode
         IN  \A K \in {Parsed[job.k]} :
               \A before \in {conf_read_simple(K, Unset(K), job.f).c} :
                 \A c \in {Fresh(K, conf_set_all_new_symbols(K, before, job.mode))},
                    s \in DOMAIN K.sym \ before.user :
                     sym_is_changable(c, s) /\ ~IsNumber(s) /\ ~IsValue(K, s) =>
                        c.curr[s] = Max({c.rev[s], Min({Wanted(K, c, s), c.vis[s]})})
    /\ job.alg = "random" =>
         \A K \in {Parsed[job.k]} : ChoicesSound(K, Fresh(K, SetRandom(K, Unset(K), job.dice, job.of)))
=============================================================================
