----------------------------- MODULE KconfExpr -----------------------------
(***************************************************************************)
(* Dependency expressions of the configuration tool                        *)
(* (scripts/kconfig/expr.c) and how they are simplified.  An expression is *)
(* <<"symbol", s>>, <<"equal", s, t>>, <<"unequal", s, t>>, <<"not", e>>,  *)
(* <<"and", e, f>> or <<"or", e, f>>; the symbols "y", "m" and "n" are     *)
(* constant, the others have a type.  The C code works in place, on two    *)
(* pointers that may point into one tree: here on the sequence of the      *)
(* operands of a chain of one operator, which keep their places in it.     *)
(***************************************************************************)
EXTENDS Integers, Sequences, FiniteSets, SequencesExt

CONSTANT SymType   \* name -> "boolean", "tristate" or "int"

Yes == <<"symbol", "y">>
No == <<"symbol", "n">>
Mod == <<"symbol", "m">>
Null == <<"null">>
TypeOf(s) == IF s \in DOMAIN SymType THEN SymType[s] ELSE "unknown"
Neutral(type) == IF type = "or" THEN No ELSE Yes
IsChain(e) == e[1] \in {"or", "and"}
IsComp(e) == e[1] \in {"equal", "unequal"}

-----------------------------------------------------------------------------
\* expr_calc_value: 0, 1, 2 for n, m, y; val gives the values of the symbols.
Tri(val, s) == CASE s = "y" -> 2 [] s = "m" -> 1 [] s = "n" -> 0 [] OTHER -> val[s]

RECURSIVE expr_calc_value(_, _)
expr_calc_value(e, val) ==
    CASE e[1] = "null" -> 2
      [] e[1] = "symbol" -> Tri(val, e[2])
      [] e[1] = "not" -> 2 - expr_calc_value(e[2], val)
      [] e[1] = "equal" -> IF Tri(val, e[2]) = Tri(val, e[3]) THEN 2 ELSE 0
      [] e[1] = "unequal" -> IF Tri(val, e[2]) = Tri(val, e[3]) THEN 0 ELSE 2
      [] IsChain(e) ->
           LET a == expr_calc_value(e[2], val)
               b == expr_calc_value(e[3], val)
           IN  IF (e[1] = "and") = (a < b) THEN a ELSE b

-----------------------------------------------------------------------------
\* The operands of a chain, and the chain with others in their places.
RECURSIVE Leaves(_, _)
Leaves(type, e) == IF e[1] = type THEN Leaves(type, e[2]) \o Leaves(type, e[3]) ELSE <<e>>

RECURSIVE Rebuild(_, _, _)
Rebuild(type, e, ls) ==
    IF e[1] # type THEN ls[1]
    ELSE LET k == Len(Leaves(type, e[2]))
         IN  <<type, Rebuild(type, e[2], SubSeq(ls, 1, k)),
                     Rebuild(type, e[3], SubSeq(ls, k + 1, Len(ls)))>>

IndexPairs(n, k) == [x \in 1..(n * k) |-> <<((x - 1) \div k) + 1, ((x - 1) % k) + 1>>]

RECURSIVE expr_eliminate_yn(_)
expr_eliminate_yn(e) ==
    IF ~IsChain(e) THEN e
    ELSE LET l == expr_eliminate_yn(e[2])
             r == expr_eliminate_yn(e[3])
             zero == IF e[1] = "and" THEN No ELSE Yes
         IN  CASE l = zero \/ (r = zero /\ l # Neutral(e[1])) -> zero
               [] l = Neutral(e[1]) -> r
               [] r = Neutral(e[1]) /\ l # zero /\ l # Neutral(e[1]) -> l
               [] OTHER -> <<e[1], l, r>>

\* expr_eq and expr_eliminate_eq: operands of both are struck out in pairs, and
\* two chains are equal if the same constant is left of both.
RECURSIVE expr_eq(_, _)
RECURSIVE expr_eliminate_eq(_, _)

\* Operand i of the one chain and j of the other.
EliminatePair(type, ls, i, j) ==
    IF (ls[1][i] = ls[2][j] /\ ls[1][i] \in {Yes, No}) \/ ~expr_eq(ls[1][i], ls[2][j]) THEN ls
    ELSE <<[ls[1] EXCEPT ![i] = Neutral(type)], [ls[2] EXCEPT ![j] = Neutral(type)]>>
RebuildBoth(type, p, ls) == <<Rebuild(type, p[1], ls[1]), Rebuild(type, p[2], ls[2])>>
EliminatePairs(type, p) ==
    LET l1 == Leaves(type, p[1])
        l2 == Leaves(type, p[2])
    IN  RebuildBoth(type, p, FoldLeft(LAMBDA ls, ij : EliminatePair(type, ls, ij[1], ij[2]),
                                      <<l1, l2>>, IndexPairs(Len(l1), Len(l2))))

EliminateFirst(p) == IF IsChain(p[1]) THEN EliminatePairs(p[1][1], p) ELSE p
EliminateSecond(p) == IF p[1][1] # p[2][1] /\ IsChain(p[2]) THEN EliminatePairs(p[2][1], p) ELSE p
CleanBoth(p) == <<expr_eliminate_yn(p[1]), expr_eliminate_yn(p[2])>>
expr_eliminate_eq(e1, e2) == CleanBoth(EliminateSecond(EliminateFirst(<<e1, e2>>)))

SameConstant(p) == p[1][1] = "symbol" /\ p[2][1] = "symbol" /\ p[1] = p[2]
expr_eq(e1, e2) ==
    CASE e1[1] # e2[1] -> FALSE
      [] e1[1] = e2[1] /\ e1[1] = "not" -> expr_eq(e1[2], e2[2])
      [] e1[1] = e2[1] /\ IsChain(e1) -> SameConstant(expr_eliminate_eq(e1, e2))
      [] OTHER -> e1 = e2

\* expr_extract_eq_and, expr_extract_eq_or: common, then the two without it.
ExtractPair(type, x, i, j) ==
    IF ~expr_eq(x.l1[i], x.l2[j]) THEN x
    ELSE [common |-> IF x.common = Null THEN x.l1[i] ELSE <<type, x.common, x.l1[i]>>,
          l1 |-> [x.l1 EXCEPT ![i] = Neutral(type)],
          l2 |-> [x.l2 EXCEPT ![j] = Neutral(type)]]
CleanIf(x, e) == IF x.common = Null THEN e ELSE expr_eliminate_yn(e)
CommonAndRest(type, x, e1, e2) ==
    <<x.common, CleanIf(x, Rebuild(type, e1, x.l1)), CleanIf(x, Rebuild(type, e2, x.l2))>>
expr_extract_eq(type, e1, e2) ==
    LET l1 == Leaves(type, e1)
        l2 == Leaves(type, e2)
    IN  CommonAndRest(type,
            FoldLeft(LAMBDA x, ij : ExtractPair(type, x, ij[1], ij[2]),
                     [common |-> Null, l1 |-> l1, l2 |-> l2], IndexPairs(Len(l1), Len(l2))),
            e1, e2)

-----------------------------------------------------------------------------
\* expr_transform: comparisons of booleans, and negations down to the symbols.
TransformComp(e) ==
    IF TypeOf(e[2]) # "boolean" \/ e[3] \notin {"y", "m", "n"} THEN e
    ELSE LET holds == IF e[1] = "equal" THEN e[3] ELSE IF e[3] = "y" THEN "n" ELSE "y"
         IN  CASE e[3] = "m" -> IF e[1] = "equal" THEN No ELSE Yes
               [] e[3] # "m" /\ holds = "y" -> <<"symbol", e[2]>>
               [] e[3] # "m" /\ holds = "n" -> <<"not", <<"symbol", e[2]>>>>

RECURSIVE expr_transform(_)
\* Mutated: De Morgan's rule keeps the operator.
expr_transformKeepsOp(e) ==
    CASE e[1] \in {"symbol", "null"} -> e
      [] IsComp(e) -> TransformComp(e)
      [] IsChain(e) -> <<e[1], expr_transform(e[2]), expr_transform(e[3])>>
      [] e[1] = "not" ->
           LET a == expr_transform(e[2])
           IN  CASE a[1] = "not" -> expr_transform(a[2])
                 [] a[1] = "equal" -> <<"unequal", a[2], a[3]>>
                 [] a[1] = "unequal" -> <<"equal", a[2], a[3]>>
                 [] IsChain(a) ->
                      expr_transform(<<a[1],
                                       <<"not", a[2]>>, <<"not", a[3]>>>>)
                 [] a = Yes -> No
                 [] a = Mod -> Mod
                 [] a = No -> Yes
                 [] OTHER -> <<"not", a>>

expr_transform(e) ==
    CASE e[1] \in {"symbol", "null"} -> e
      [] IsComp(e) -> TransformComp(e)
      [] IsChain(e) -> <<e[1], expr_transform(e[2]), expr_transform(e[3])>>
      [] e[1] = "not" ->
           LET a == expr_transform(e[2])
           IN  CASE a[1] = "not" -> expr_transform(a[2])
                 [] a[1] = "equal" -> <<"unequal", a[2], a[3]>>
                 [] a[1] = "unequal" -> <<"equal", a[2], a[3]>>
                 [] IsChain(a) ->
                      expr_transform(<<IF a[1] = "or" THEN "and" ELSE "or",
                                       <<"not", a[2]>>, <<"not", a[3]>>>>)
                 [] a = Yes -> No
                 [] a = Mod -> Mod
                 [] a = No -> Yes
                 [] OTHER -> <<"not", a>>

\* expr_trans_bool: for a symbol that cannot be m, FOO!=n is FOO.
RECURSIVE expr_trans_bool(_)
expr_trans_bool(e) ==
    CASE IsChain(e) -> <<e[1], expr_trans_bool(e[2]), expr_trans_bool(e[3])>>
      [] e[1] = "not" -> <<"not", expr_trans_bool(e[2])>>
      [] e[1] = "unequal" /\ TypeOf(e[2]) = "tristate" /\ e[3] = "n" -> <<"symbol", e[2]>>
      [] OTHER -> e

\* expr_alloc_and, expr_alloc_or: nothing there is left out.
And(a, b) == IF a = Null THEN b ELSE IF b = Null THEN a ELSE <<"and", a, b>>
Or(a, b) == IF a = Null THEN b ELSE IF b = Null THEN a ELSE <<"or", a, b>>

-----------------------------------------------------------------------------
\* expr_join_or, expr_join_and: two operands of a chain as one, or Null.
Joinable(e) == IsComp(e) \/ e[1] \in {"symbol", "not"}
SymOf(e) == IF e[1] = "not" THEN IF IsChain(e[2]) \/ e[2][1] = "not" THEN "?" ELSE e[2][2] ELSE e[2]
SameSymbol(e1, e2) ==
    /\ Joinable(e1) /\ Joinable(e2)
    /\ SymOf(e1) = SymOf(e2) /\ (e2[1] = "not" => e2[2][1] = "symbol")
    /\ TypeOf(SymOf(e1)) \in {"boolean", "tristate"}
Other(x, y) == CHOOSE z \in {"y", "m", "n"} : z # x /\ z # y
Constant(s) == s \in {"y", "m", "n"}

expr_join_or(e1, e2) ==
    LET s == SymOf(e1)
        plain == <<"symbol", s>>
    IN  CASE expr_eq(e1, e2) -> e1
          [] ~expr_eq(e1, e2) /\ ~SameSymbol(e1, e2) -> Null
          [] OTHER ->
               IF TypeOf(s) = "tristate" /\ e1[1] = "equal" /\ e2[1] = "equal"
                  /\ Constant(e1[3]) /\ Constant(e2[3]) /\ e1[3] # e2[3]
               THEN <<"unequal", s, Other(e1[3], e2[3])>>
               ELSE IF TypeOf(s) = "boolean" /\ {e1, e2} = {plain, <<"not", plain>>}
               THEN Yes ELSE Null

\* One operand is the symbol itself, the other compares it with c.
With(e1, e2, type, c) ==
    \/ e1[1] = "symbol" /\ e2[1] = type /\ e2[3] = c
    \/ e2[1] = "symbol" /\ e1[1] = type /\ e1[3] = c

expr_join_and(e1, e2) ==
    LET s == SymOf(e1)
        tristate == TypeOf(s) = "tristate"
        eq == IF e1[1] = "equal" THEN e1 ELSE e2
        ne == IF e1[1] = "equal" THEN e2 ELSE e1
    IN  CASE expr_eq(e1, e2) -> e1
          [] ~expr_eq(e1, e2) /\ ~SameSymbol(e1, e2) -> Null
          [] OTHER ->
               IF With(e1, e2, "equal", "y") THEN <<"equal", s, "y">>
               ELSE IF With(e1, e2, "unequal", "n") THEN <<"symbol", s>>
               ELSE IF With(e1, e2, "unequal", "m") THEN <<"equal", s, "y">>
               ELSE IF tristate /\ {e1[1], e2[1]} = {"equal", "unequal"}
                       /\ Constant(e1[3]) /\ Constant(e2[3])
               THEN IF eq[3] # ne[3] THEN <<"equal", s, eq[3]>> ELSE No
               ELSE IF tristate /\ e1[1] = "unequal" /\ e2[1] = "unequal"
                       /\ Constant(e1[3]) /\ Constant(e2[3])
               THEN <<"equal", s, Other(e1[3], e2[3])>> ELSE Null

\* Operands of a chain that are being simplified; n counts changes.
ReplaceOperand(x, i, a) == [ls |-> [x.ls EXCEPT ![i] = a.e], n |-> x.n + a.n]
WholeChain(type, e, x) == [e |-> Rebuild(type, e, x.ls), n |-> x.n]

\* expr_eliminate_dups1: every operand against every other.
RECURSIVE expr_eliminate_dups1(_, _)
InnerDups1(a) == IF IsChain(a) THEN expr_eliminate_dups1(a[1], a) ELSE [e |-> a, n |-> 0]
PutJoined(type, x, i, j, t) ==
    IF t = Null THEN x
    ELSE [ls |-> [x.ls EXCEPT ![i] = Neutral(type), ![j] = t], n |-> x.n + 1]
JoinOperands(type, x, i, j) ==
    PutJoined(type, x, i, j, IF type = "or" THEN expr_join_or(x.ls[i], x.ls[j])
                             ELSE expr_join_and(x.ls[i], x.ls[j]))
JoinStep(type, x, i, j) ==
    IF i = j THEN x ELSE JoinOperands(type, ReplaceOperand(x, i, InnerDups1(x.ls[i])), i, j)
expr_eliminate_dups1(type, e) ==
    LET l == Leaves(type, e)
    IN  WholeChain(type, e, FoldLeft(LAMBDA x, ij : JoinStep(type, x, ij[1], ij[2]),
                                     [ls |-> l, n |-> 0], IndexPairs(Len(l), Len(l))))

\* The nodes of a chain as ranges of operands, the operands of a node first.
RECURSIVE ChainNodes(_, _, _)
ChainNodes(type, e, lo) ==
    IF e[1] # type THEN <<[lo |-> lo, hi |-> lo, shape |-> e]>>
    ELSE LET l == ChainNodes(type, e[2], lo)
             r == ChainNodes(type, e[3], Last(l).hi + 1)
         IN  l \o r \o <<[lo |-> lo, hi |-> Last(r).hi, shape |-> e]>>

\* expr_eliminate_dups2: an operand whose negation is contained in the rest.
RECURSIVE expr_eliminate_dups2(_, _)
ContradictsRest(type, x, i, node) ==
    expr_extract_eq(type, expr_transform(<<"not", x.ls[i]>>),
                    Rebuild(type, node.shape, SubSeq(x.ls, node.lo, node.hi)))[2] = Neutral(type)
DropContradicted(type, x, i, node) ==
    IF ~ContradictsRest(type, x, i, node) THEN x
    ELSE [ls |-> [x.ls EXCEPT ![i] = IF type = "and" THEN No ELSE Yes], n |-> x.n + 1]
DropStep(type, x, i, node) ==
    IF ~IsChain(x.ls[i]) \/ (node.lo = i /\ node.hi = i) THEN x
    ELSE DropContradicted(type, ReplaceOperand(x, i, expr_eliminate_dups2(x.ls[i][1], x.ls[i])), i, node)
expr_eliminate_dups2(type, e) ==
    LET nodes == ChainNodes(type, e, 1)
        l == Leaves(type, e)
    IN  WholeChain(type, e, FoldLeft(LAMBDA x, iv : DropStep(type, x, iv[1], nodes[iv[2]]),
                                     [ls |-> l, n |-> 0], IndexPairs(Len(l), Len(nodes))))

RECURSIVE expr_eliminate_dups(_)
UntilUnchanged(n, d) == IF n + d.n = 0 THEN d.e ELSE expr_eliminate_dups(expr_eliminate_yn(d.e))
ThenDups2(type, d) == UntilUnchanged(d.n, expr_eliminate_dups2(type, d.e))
expr_eliminate_dups(e) == IF IsChain(e) THEN ThenDups2(e[1], expr_eliminate_dups1(e[1], e)) ELSE e

-----------------------------------------------------------------------------
\* expr_trans_compare: "e = c" or "e # c" as an expression, for c "y" or "n".
RECURSIVE expr_trans_compare(_, _, _)
expr_trans_compare(e, type, c) ==
    CASE IsChain(e) ->
           LET l == expr_trans_compare(e[2], "equal", c)
               r == expr_trans_compare(e[3], "equal", c)
               both == <<IF c = "y" THEN e[1] ELSE IF e[1] = "and" THEN "or" ELSE "and", l, r>>
           IN  IF type = "unequal" THEN <<"not", both>> ELSE both
      [] e[1] = "not" ->
           expr_trans_compare(e[2], IF type = "equal" THEN "unequal" ELSE "equal", c)
      [] IsComp(e) -> IF (type = "equal") = (c = "y") THEN e ELSE <<"not", e>>
      [] e[1] = "symbol" -> <<type, e[2], c>>
      [] e = Null -> IF type = "unequal" THEN <<"not", <<"symbol", c>>>> ELSE <<"symbol", c>>

RECURSIVE expr_contains_symbol(_, _)
expr_contains_symbol(e, s) ==
    CASE IsChain(e) -> expr_contains_symbol(e[2], s) \/ expr_contains_symbol(e[3], s)
      [] IsComp(e) -> e[2] = s \/ e[3] = s
      [] e[1] = "symbol" -> e[2] = s
      [] e[1] = "not" -> expr_contains_symbol(e[2], s)
      [] e = Null -> FALSE

RECURSIVE expr_depends_symbol(_, _)
expr_depends_symbol(e, s) ==
    CASE e[1] = "and" -> expr_depends_symbol(e[2], s) \/ expr_depends_symbol(e[3], s)
      [] e[1] = "symbol" -> e[2] = s
      [] e[1] = "equal" -> e[2] = s /\ e[3] \in {"y", "m"}
      [] e[1] = "unequal" -> e[2] = s /\ e[3] = "n"
      [] OTHER -> FALSE

-----------------------------------------------------------------------------
\* expr_compare_type: where parentheses are needed.
Tighter(t1, t2) ==
    \/ t1 \in {"equal", "unequal"} /\ t2 \in {"not", "and", "or"}
    \/ t1 = "not" /\ t2 \in {"and", "or"}
    \/ t1 = "and" /\ t2 = "or"

RECURSIVE expr_print(_, _)
expr_print(e, prev) ==
    LET text == CASE e[1] = "symbol" -> <<e[2]>>
                  [] e[1] = "equal" -> <<e[2], "=", e[3]>>
                  [] e[1] = "unequal" -> <<e[2], "!=", e[3]>>
                  [] e[1] = "not" -> <<"!">> \o expr_print(e[2], "not")
                  [] e[1] = "or" -> expr_print(e[2], "or") \o <<"||">> \o expr_print(e[3], "or")
                  [] e[1] = "and" -> expr_print(e[2], "and") \o <<"&&">> \o expr_print(e[3], "and")
    IN  IF Tighter(prev, e[1]) THEN <<"(">> \o text \o <<")">> ELSE text
=============================================================================
