---------------------------- MODULE SpecifierOperands ----------------------------
(***************************************************************************)
(* What module-specifiers.ts makes of the operands of a call: every        *)
(* resolver collects the alternatives of its receiver and of each argument, *)
(* gives up (no alternatives) when one of them has none, and applies the   *)
(* host's own operation to each combination.  Alternatives are sets of     *)
(* values; a text alternative of an expression is the text its value       *)
(* converts to.                                                            *)
(***************************************************************************)
EXTENDS JsSyntax

CONSTANTS Texts(_),            \* resolve of staticStringExpressionTexts
          BuffersOf(_),        \* resolveStaticBufferExpression
          CollectionOf(_)      \* resolveCollectionExpression: a literal, or No

RECURSIVE Bare(_)
Bare(x) == IF x.k = "paren" THEN Bare(x.x) ELSE x
IsTextLiteral(x) == x.k = "str"
IsUndefinedName(x) == x.k \in {"undefined", "void"}
RECURSIVE StaticUndefined(_)
StaticUndefined(x) ==
  LET u == Bare(x) IN IsUndefinedName(u) \/ (u.k = "const" /\ StaticUndefined(u.x))
NegativeLiteral(u, kinds) == u.k = "un" /\ u.op = "-" /\ u.x.k \in kinds

(* --------------------------- numbers from texts ------------------------- *)

Decimal(n) == 0 .. n
IndexText(s) == \E n \in Decimal(40) : ToString(n) = s
IntegerText(s) == IndexText(s) \/ s = "-0" \/ \E n \in Decimal(9) : s = "-" \o ToString(n)
IntegerOf(s) == IF s = "-0" THEN NegZero ELSE Num(CHOOSE n \in -9 .. 40 : ToString(n) = s)
NumericKeys(x) ==              \* resolveStaticNumericKeys
  LET ts == Texts(x)
  IN  IF x.k = "num" THEN {x} ELSE IF \A t \in ts : IndexText(t.s) THEN {IntegerOf(t.s) : t \in ts} ELSE {}
IntegerKeys(x) ==              \* resolveStaticIntegerKeys
  LET ts == Texts(x)
  IN CASE x.k = "num" -> {x}
       [] NegativeLiteral(x, {"num"}) -> {Negate(x.x)}
       [] OTHER -> IF \A t \in ts : IntegerText(t.s) THEN {IntegerOf(t.s) : t \in ts} ELSE {}
NumberValues(x) ==             \* resolveStaticNumberValues
  LET ns == {TextNum(t.s) : t \in Texts(x)} IN IF \A n \in ns : IsFinite(n) THEN ns ELSE {}

(* ------------------------------ combinations ---------------------------- *)

NoSpread(as) == \A i \in DOMAIN as : as[i].k # "spread"
Operand(kind, as, i) ==        \* a trailing ? marks an argument that may be left out or undefined
  CASE kind \in {"text?", "int?"} /\ (i > Len(as) \/ StaticUndefined(Arg(as, i))) -> {Undef}
    [] kind \in {"text", "text?"} -> Texts(as[i])
    [] kind \in {"int", "int?"} -> IntegerKeys(as[i])
    [] kind = "number" -> NumberValues(as[i])
    [] kind = "buffer" -> BuffersOf(as[i])
Operands(as, kinds) == [i \in DOMAIN kinds |-> Operand(kinds[i], as, i)]
Combinations(ss) == FoldLeft(LAMBDA ts, S : {Append(t, v) : t \in ts, v \in S}, {<<>>}, ss)
AllOrNone(rs) == IF No \in rs THEN {} ELSE rs
AsText(v) ==
  Str(CASE v.k = "str" -> v.s [] IsNumber(v) -> NumText(v) [] v.k = "big" -> ToString(v.n)
        [] v.k = "bool" -> (IF v.b THEN "true" ELSE "false") [] OTHER -> v.k)
AsTexts(rs) == IF No \in rs THEN {} ELSE {AsText(r) : r \in rs}

(* Call forms: a method of some receiver, of a named owner, or a global.    *)
Callee(u) == Bare(u.f)
Receiver(u) == Callee(u).x
CallsMethod(u, names, lo, hi) ==
  /\ u.k = "call" /\ Callee(u).k = "get" /\ Callee(u).name \in names
  /\ Len(u.as) \in lo .. hi /\ NoSpread(u.as)
IsNamed(x, names) == Bare(x).k = "global" /\ Bare(x).name \in names
(* A constructor by its global name, or imported from its module.          *)
IsConstructor(x, mod, name) ==
  LET u == Bare(x)
  IN  \/ u.k = "global" /\ u.name = name
      \/ u.k = "import" /\ u.mod = mod /\ u.name = name
      \/ u.k = "get" /\ u.name = name /\ Bare(u.x).k = "import" /\ Bare(u.x).mod = mod /\ Bare(u.x).name \in {"default", "*"}
CallsOwner(u, owners, names, lo, hi) == CallsMethod(u, names, lo, hi) /\ IsNamed(Receiver(u), owners)
CallsGlobal(u, names, lo, hi) ==
  u.k = "call" /\ IsNamed(u.f, names) /\ Len(u.as) \in lo .. hi /\ NoSpread(u.as)
Many == 99                     \* no upper bound on the number of arguments

===============================================================================
