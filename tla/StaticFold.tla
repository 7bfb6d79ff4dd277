------------------------------ MODULE StaticFold ------------------------------
(***************************************************************************)
(* The values the code generator knows at compile time.  emit/index.ts     *)
(* reads the truth value of a condition (staticBooleanValue), the number,  *)
(* the text, the bigint or the typeof of an expression and whether it is   *)
(* nullish, and emits only the branch that is taken; a known value is also *)
(* a promise that evaluating the expression runs no user code.             *)
(*                                                                         *)
(* An operator is a value or No.  The purity of the parts whose value is   *)
(* dropped (IsPure), the length of an array the expression builds and the  *)
(* other recognisers of Purity and StaticCollections call these operators   *)
(* back, so they are constants here.                                       *)
(***************************************************************************)
EXTENDS JsSyntax

CONSTANTS IsPure(_),           \* isSideEffectFreeTopLevelConstInitializer
          PureNew(_),          \* isSideEffectFreeNewExpression
          BuiltLength(_),      \* sideEffectFreeFreshOrReturnedArrayLength: Num or No
          AbsentDescriptor(_)  \* isSideEffectFreeAbsentOwnPropertyDescriptorCall

RECURSIVE Unwrap(_), UndefinedValue(_), BooleanTyped(_)

Unwrap(x) == IF x.k = "paren" THEN Unwrap(x.x) ELSE x

(* The initializer of an earlier const, when evaluating it ran no user code: *)
(* No otherwise, and for every other expression.                           *)
EarlierConst(x) ==
  LET u == Unwrap(x) IN IF u.k = "const" /\ IsPure(u.x) THEN u.x ELSE No

UndefinedExpression(x) == x.k = "undefined" \/ (x.k = "void" /\ IsPure(x.x))

UndefinedValue(x) ==
  LET u == Unwrap(x)
  IN  \/ UndefinedExpression(u)
      \/ u.k = "call" /\ AbsentDescriptor(u)
      \/ Known(EarlierConst(u)) /\ UndefinedValue(EarlierConst(u))

(* The arguments a builtin ignores are still evaluated.                    *)
IgnoredPastOne(as, start) == \A i \in start + 2 .. Len(as) : IsPure(as[i])   \* mutant: off by one
IgnoredPure(as, start) == \A i \in start + 1 .. Len(as) : IsPure(as[i])

(* The type checker's answer for an expression of a TypeScript file.       *)
BooleanTyped(x) ==
  CASE x.k = "bool" -> TRUE
    [] x.k \in {"paren", "const"} -> BooleanTyped(x.x)
    [] x.k = "un" -> x.op = "!"
    [] x.k = "bin" -> \/ x.op \in Comparisons \union {"===", "!==", "==", "!="}
                      \/ x.op \in {"&&", "||", "??"} /\ BooleanTyped(x.x) /\ BooleanTyped(x.y)
                      \/ x.op = "," /\ BooleanTyped(x.y)
    [] x.k = "cond" -> BooleanTyped(x.x) /\ BooleanTyped(x.y)
    [] OTHER -> FALSE

RECURSIVE StaticBoolean(_), PrimitiveBoolean(_), NumericValue(_), BigIntValue(_), StringText(_), NullishState(_),
          TypeofString(_), PrimitiveNumber(_), SubstitutionText(_), StringInstanceCall(_), StringCopyCall(_, _, _),
          StringNumericCall(_), StringBooleanCall(_), StringRepeatPad(_), StringElement(_), UriText(_),
          EqualityKey(_), Equality(_, _, _), Relational(_, _, _), NumberPredicate(_), ParseCall(_), UriCoercion(_),
          TypeofLeaf(_), TypeofChoice(_)

FirstKnown(a, b) == IF Known(a) THEN a ELSE b

(* ?? , conditional and const, which every reader but the typeof treats in  *)
(* the same way: Value is the reader, Same its notion of equal branches.   *)
Choice(u, Value(_), Same(_, _)) ==
  CASE u.k = "bin" /\ u.op = "??" ->
         LET s == NullishState(u.x)
         IN  IF s = "nullish" THEN Value(u.y) ELSE IF s = "nonNullish" THEN Value(u.x) ELSE No
    [] u.k = "bin" /\ u.op = "," -> IF IsPure(u.x) THEN Value(u.y) ELSE No
    [] u.k = "cond" ->
         LET c == StaticBoolean(u.c)
         IN  IF Known(c) THEN Value(IF c.b THEN u.x ELSE u.y)
             ELSE IF /\ IsPure(u.c) /\ Known(Value(u.x)) /\ Known(Value(u.y))
                     /\ Same(Value(u.x), Value(u.y))
             THEN Value(u.x) ELSE No
    [] u.k = "const" -> IF IsPure(u.x) THEN Value(u.x) ELSE No
    [] OTHER -> No
Equal(a, b) == a = b

Not(v) == IF Known(v) THEN Bool(~v.b) ELSE No

(* staticBooleanValue: the truth value of a condition.                     *)
StaticBoolean(x) ==
  LET u == Unwrap(x)
      call == IF u.k = "call" THEN PrimitiveBoolean(u) ELSE No
      n == NumericValue(u)
      g == BigIntValue(u)
      t == StringText(u)
  IN CASE u.k = "bool" -> u
       [] u.k = "null" \/ UndefinedValue(u) -> Bool(FALSE)
       [] Known(call) -> call
       [] Known(n) -> Bool(n.k # "nan" /\ n.k # "-0" /\ n # Num(0))
       [] Known(g) -> Bool(g.n # 0)
       [] Known(t) -> Bool(t.s # "")
       [] u.k \in {"regexp", "fn"} -> Bool(TRUE)
       [] u.k = "class" /\ u.b -> Bool(TRUE)
       [] u.k \in {"arr", "obj"} -> IF IsPure(u) THEN Bool(TRUE) ELSE No
       [] u.k = "un" /\ u.op = "!" -> Not(StaticBoolean(u.x))
       [] u.k = "bin" /\ u.op \in {"===", "=="} -> Equality(u.x, u.y, u.op = "==")
       [] u.k = "bin" /\ u.op \in {"!==", "!="} -> Not(Equality(u.x, u.y, u.op = "!="))
       [] u.k = "bin" /\ u.op \in Comparisons -> Relational(u.x, u.y, u.op)
       [] u.k = "bin" /\ u.op \in {"&&", "||"} ->
            LET l == StaticBoolean(u.x)
            IN  IF ~Known(l) \/ l.b = (u.op = "||") THEN l ELSE StaticBoolean(u.y)
       [] OTHER -> Choice(u, StaticBoolean, Equal)

(* staticPrimitiveEqualityKey: a primitive, -0 and 0 being one.            *)
EqualityKey(x) ==
  LET u == Unwrap(x)
      b == PrimitiveBoolean(u)
      t == StringText(u)
      n == NumericValue(u)
      g == BigIntValue(u)
  IN CASE u.k = "null" -> Null
       [] UndefinedValue(u) -> Undef
       [] Known(b) -> b
       [] Known(t) -> t
       [] Known(n) -> IF n = NegZero THEN Num(0) ELSE n
       [] Known(g) -> g
       [] Known(EarlierConst(u)) -> EqualityKey(EarlierConst(u))
       [] OTHER -> No

(* staticLoosePrimitiveEqualityValue.                                      *)
LooseEqual(a, b) ==
  LET num(v) == IF v.k = "bool" THEN Num(IF v.b THEN 1 ELSE 0) ELSE v
      l == num(a)
      r == num(b)
      kinds == {l.k, r.k}
      bigintIs(g, v) ==        \* a bigint against a number or a text
        IF IsNumber(v) THEN v.k = "num" /\ v.n = g.n ELSE LET w == TextNum(v.s) IN w.k = "num" /\ w.n = g.n
  IN CASE l = r -> TRUE
       [] kinds \intersect {"null", "undefined"} # {} -> FALSE
       [] l.k = "big" -> r.k # "big" /\ bigintIs(l, r)
       [] r.k = "big" -> bigintIs(r, l)
       [] l.k = "str" /\ IsNumber(r) -> TextNum(l.s) = r
       [] IsNumber(l) /\ r.k = "str" -> TextNum(r.s) = l
       [] OTHER -> FALSE

Equality(x, y, loose) ==
  LET a == EqualityKey(x)
      b == EqualityKey(y)
  IN CASE ~Known(a) \/ ~Known(b) -> No
       [] a = NaN \/ b = NaN -> Bool(FALSE)
       [] a = b -> Bool(TRUE)
       [] ~loose -> Bool(FALSE)
       [] {a.k, b.k} = {"null", "undefined"} -> Bool(TRUE)
       [] a.k = "big" /\ b.k = "big" -> No        \* neither case of the loose comparison
       [] OTHER -> Bool(LooseEqual(a, b))

(* staticPrimitiveRelationalValue.                                         *)
Relational(x, y, op) ==
  LET n == NumericValue(x)
      m == NumericValue(y)
      s == StringText(x)
      t == StringText(y)
      g == BigIntValue(x)
      h == BigIntValue(y)
  IN CASE Known(n) /\ Known(m) ->
            Bool(n # NaN /\ m # NaN /\ Compare(op, Less(n, m), ~Less(n, m) /\ ~Less(m, n)))
       [] Known(s) /\ Known(t) -> Bool(Compare(op, TextLess(s.s, t.s), s = t))
       [] Known(g) /\ Known(h) -> Bool(Compare(op, g.n < h.n, g = h))
       [] OTHER -> No

(* sideEffectFreePrimitiveBooleanValue: the operand is a boolean, not only  *)
(* of known truth value.                                                   *)
PrimitiveBoolean(x) ==
  LET u == Unwrap(x)
      s == StringBooleanCall(u)
      p == NumberPredicate(u)
  IN CASE Known(s) -> s
       [] Known(p) -> p
       [] u.k = "bool" -> u
       [] u.k = "un" /\ u.op = "!" -> Not(StaticBoolean(u.x))
       [] u.k = "bin" /\ u.op \in Comparisons \union {"===", "!==", "==", "!="} -> StaticBoolean(u)
       [] BooleanTyped(u) -> StaticBoolean(u)
       [] Known(EarlierConst(u)) -> PrimitiveBoolean(EarlierConst(u))
       [] OTHER -> No

BigIntOperation(op, a, b) ==
  CASE op = "+" -> Big(a + b)
    [] op = "-" -> Big(a - b)
    [] op = "*" -> Big(a * b)
    [] op = "/" -> IF b = 0 THEN No ELSE Big(a \div b)
    [] op = "%" -> IF b = 0 THEN No ELSE Big(a % b)
    [] op = "**" -> IF b < 0 THEN No ELSE Big(a ^ b)

(* sideEffectFreeBigIntLiteralText.                                        *)
BigIntValue(x) ==
  LET u == Unwrap(x)
      l == BigIntValue(u.x)
      r == BigIntValue(u.y)
  IN CASE u.k = "big" -> u
       [] u.k = "bin" /\ u.op \in {"+", "-", "*", "/", "%", "**"} ->
            IF Known(l) /\ Known(r) THEN BigIntOperation(u.op, l.n, r.n) ELSE No
       [] u.k = "un" /\ u.op = "-" /\ u.x.k = "big" -> Big(-u.x.n)
       [] OTHER -> Choice(u, BigIntValue, Equal)

(* staticNullishState: "nullish", "nonNullish", or "unknown" for null.     *)
NullishState(x) ==
  LET u == Unwrap(x)
      c == StaticBoolean(u.c)
      through(y) == NullishState(y)
  IN CASE u.k = "null" \/ UndefinedValue(u) -> "nullish"
       [] u.k \in {"bool", "regexp", "fn"} -> "nonNullish"
       [] Known(BigIntValue(u)) \/ Known(NumericValue(u)) \/ Known(StringText(u)) -> "nonNullish"
       [] u.k = "class" /\ u.b -> "nonNullish"
       [] u.k \in {"arr", "obj"} -> IF IsPure(u) THEN "nonNullish" ELSE "unknown"
       [] u.k = "bin" /\ u.op = "??" ->
            IF NullishState(u.x) = "nullish" THEN through(u.y) ELSE NullishState(u.x)
       [] u.k = "bin" /\ u.op = "," -> IF IsPure(u.x) THEN through(u.y) ELSE "unknown"
       [] u.k = "cond" -> IF Known(c) THEN through(IF c.b THEN u.x ELSE u.y)
                          ELSE IF IsPure(u.c) /\ through(u.x) = through(u.y) THEN through(u.x) ELSE "unknown"
       [] Known(EarlierConst(u)) -> through(EarlierConst(u))
       [] OTHER -> "unknown"

(* sideEffectFreeNumericLiteralSameValueZeroValue.                         *)
NumericValue(x) ==
  LET u == Unwrap(x)
      text == StringText(u.x)
      length == BuiltLength(u.x)
      call == StringNumericCall(u)
      l == NumericValue(u.x)
      r == NumericValue(u.y)
  IN CASE u.k = "get" -> IF u.name # "length" THEN No ELSE IF Known(text) THEN Num(Len(text.s)) ELSE length
       [] Known(call) -> call
       [] u.k = "bin" /\ u.op \in NumberOperators -> IF Known(l) /\ Known(r) THEN Arith(u.op, l, r) ELSE No
       [] u.k = "global" -> IF u.name = "NaN" THEN NaN ELSE IF u.name = "Infinity" THEN Inf ELSE No
       [] u.k = "num" -> u
       [] u.k = "call" -> ParseCall(u)
       [] u.k = "un" /\ u.op # "!" ->
            IF ~Known(l) THEN No
            ELSE IF u.op = "+" THEN l ELSE IF u.op = "-" THEN Negate(l) ELSE Num(-1 - Whole(l))
       [] OTHER -> Choice(u, NumericValue, Equal)

(* parseInt and parseFloat: of a text, or of the text of a number; a radix  *)
(* that is present must be known.                                          *)
ParseCall(u) ==
  IF u.f.k # "global" THEN No
  ELSE IF u.f.name \notin {"parseInt", "parseFloat"} \/ u.as = <<>> THEN No
  ELSE LET n == NumericValue(u.as[1])
           text == FirstKnown(StringText(u.as[1]), IF Known(n) THEN Str(NumText(n)) ELSE No)
           radix == IF Len(u.as) < 2 THEN Undef ELSE NumericValue(u.as[2])
       IN  IF ~Known(text) THEN No
           ELSE IF u.f.name = "parseInt"
           THEN IF Known(radix) /\ IgnoredPure(u.as, 2) THEN HostParse("parseInt", text.s, radix) ELSE No
           ELSE IF IgnoredPure(u.as, 1) THEN HostParse("parseFloat", text.s, Undef) ELSE No

(* sideEffectFreePrimitiveNumberValue: ToNumber of a literal.              *)
PrimitiveNumber(x) ==
  LET u == Unwrap(x)
      text == StringText(u.x)
      length == BuiltLength(u.x)
      v == PrimitiveNumber(u.x)
  IN CASE u.k = "get" -> IF u.name # "length" THEN No ELSE IF Known(text) THEN Num(Len(text.s)) ELSE length
       [] u.k = "bool" -> Num(IF u.b THEN 1 ELSE 0)
       [] u.k = "null" -> Num(0)
       [] u.k = "num" -> u
       [] u.k = "str" -> TextNum(u.s)
       [] u.k = "un" /\ u.op \in {"+", "-"} -> IF Known(v) /\ u.op = "-" THEN Negate(v) ELSE v
       [] Known(EarlierConst(u)) -> PrimitiveNumber(EarlierConst(u))
       [] OTHER -> No

(* The global isFinite and isNaN.                                          *)
NumberPredicate(u) ==
  IF u.k # "call" THEN No
  ELSE IF u.f.k # "global" THEN No
  ELSE IF u.f.name \notin {"isFinite", "isNaN"} \/ u.as = <<>> THEN No
  ELSE LET v == FirstKnown(NumericValue(u.as[1]), PrimitiveNumber(u.as[1]))
       IN  IF ~IgnoredPure(u.as, 1) \/ ~Known(v) THEN No
           ELSE Bool(IF u.f.name = "isFinite" THEN IsFinite(v) ELSE v = NaN)

(* ------------------------------- strings ------------------------------- *)

MaxText == 4096                \* the longest text the code folds

(* sideEffectFreeStringLiteralText.                                        *)
StringText(x) ==
  LET u == Unwrap(x)
      uri == UriText(u)
      call == StringInstanceCall(u)
      element == StringElement(u)
      padded == StringRepeatPad(u)
      subs == [i \in 1 .. Len(u.spans) |-> SubstitutionText(u.spans[i].x)]
      l == StringText(u.x)
      r == StringText(u.y)
  IN CASE u.k = "str" -> u
       [] Known(uri) -> uri
       [] Known(call) -> call
       [] Known(element) -> element
       [] Known(padded) -> padded
       [] u.k = "typeof" -> TypeofString(u.x)
       [] u.k = "template" ->
            IF \E i \in 1 .. Len(subs) : ~Known(subs[i]) THEN No
            ELSE Str(u.s \o Concat([i \in 1 .. Len(subs) |-> subs[i].s \o u.spans[i].s]))
       [] u.k = "bin" /\ u.op = "+" -> IF Known(l) /\ Known(r) THEN Str(l.s \o r.s) ELSE No
       [] OTHER -> Choice(u, StringText, Equal)

(* isSideEffectFreeUriStringCoercion: printable ASCII, without an escape.  *)
UriCoercion(x) ==
  LET u == Unwrap(x)
  IN  \/ u.k = "str" /\ Ascii(u.s) /\ Occurs(u.s, "%") = {}
      \/ Known(EarlierConst(u)) /\ UriCoercion(EarlierConst(u))

UriText(u) ==
  IF u.k # "call" THEN No
  ELSE IF u.f.k # "global" THEN No
  ELSE IF u.f.name \notin UriNames \/ u.as = <<>> THEN No
  ELSE IF ~UriCoercion(u.as[1]) \/ ~IgnoredPure(u.as, 1) \/ ~Known(StringText(u.as[1])) THEN No
  ELSE HostUri(u.f.name, StringText(u.as[1]).s)

OnText(u, methods) == IF u.k # "call" THEN FALSE ELSE IF u.f.k # "get" THEN FALSE ELSE u.f.name \in methods

CaseFolding == {"toUpperCase", "toLowerCase", "toLocaleUpperCase", "toLocaleLowerCase"}
Trims == {"trim", "trimStart", "trimEnd", "trimLeft", "trimRight"}
Copies == {"charAt", "at", "slice", "substring", "substr", "concat"}

(* sideEffectFreeStringInstanceCallText: case folding and trimming of ASCII *)
(* only, and the copying methods.                                          *)
StringInstanceCall(u) ==
  IF ~OnText(u, CaseFolding \union Trims \union Copies) THEN No
  ELSE LET m == u.f.name
           recv == StringText(u.f.x)
       IN  CASE ~Known(recv) -> No
             [] m \in Copies -> StringCopyCall(m, recv.s, u.as)
             [] ~Ascii(recv.s) -> No
             [] m \in {"toLocaleUpperCase", "toLocaleLowerCase"} ->
                  IF IgnoredPure(u.as, 0) THEN HostString(m, recv.s, Undef, Undef) ELSE No
             [] OTHER -> IF u.as = <<>> THEN HostString(m, recv.s, Undef, Undef) ELSE No

StringElement(u) ==
  IF u.k # "at" THEN No
  ELSE LET recv == StringText(u.x)
           i == NumericValue(u.y)
       IN  IF ~Known(recv) \/ ~Known(i) THEN No
           ELSE IF ~IsFinite(i) THEN No
           ELSE IF 0 <= Whole(i) /\ Whole(i) < Len(recv.s) THEN Str(Unit(recv.s, Whole(i))) ELSE No

IntegerArgument(x) ==
  LET v == PrimitiveNumber(x) IN IF Known(v) /\ IsFinite(v) THEN Num(Whole(v)) ELSE No

(* The start position, by default 0, and an optional second position.      *)
First(as) == IF as = <<>> THEN Num(0) ELSE IntegerArgument(as[1])
Second(as) == IF Len(as) < 2 THEN Undef ELSE IF UndefinedExpression(as[2]) THEN Undef ELSE IntegerArgument(as[2])

StringCopyCall(m, s, as) ==
  LET a == First(as)
      b == Second(as)
      pieces == [i \in 1 .. Len(as) |-> SubstitutionText(as[i])]
      out == s \o Concat([i \in 1 .. Len(as) |-> pieces[i].s])
      at == HostString("at", s, a, Undef)
  IN CASE m = "charAt" -> IF IgnoredPure(as, 1) /\ Known(a) THEN HostString(m, s, a, Undef) ELSE No
       [] m = "at" -> IF as # <<>> /\ IgnoredPure(as, 1) /\ Known(a) /\ at.k = "str" THEN at ELSE No
       [] m = "concat" -> IF (\A i \in 1 .. Len(as) : Known(pieces[i])) /\ Len(out) <= MaxText THEN Str(out) ELSE No
       [] OTHER -> IF IgnoredPure(as, 2) /\ Known(a) /\ Known(b) THEN HostString(m, s, a, b) ELSE No

(* charCodeAt, codePointAt, indexOf, lastIndexOf.                          *)
StringNumericCall(u) ==
  IF ~OnText(u, {"charCodeAt", "codePointAt", "indexOf", "lastIndexOf"}) THEN No
  ELSE LET m == u.f.name
           recv == StringText(u.f.x)
           a == First(u.as)
           b == Second(u.as)
           needle == SubstitutionText(u.as[1])
       IN  CASE ~Known(recv) -> No
             [] m = "charCodeAt" -> IF IgnoredPure(u.as, 1) /\ Known(a) THEN HostString(m, recv.s, a, Undef) ELSE No
             [] m = "codePointAt" -> IF /\ u.as # <<>> /\ IgnoredPure(u.as, 1) /\ Known(a)
                                        /\ HostString(m, recv.s, a, Undef).k = "num"
                                     THEN HostString(m, recv.s, a, Undef) ELSE No
             [] OTHER -> IF u.as # <<>> /\ IgnoredPure(u.as, 2) /\ Known(needle) /\ Known(b)
                         THEN HostString(m, recv.s, needle, b) ELSE No

(* includes, startsWith, endsWith.                                         *)
StringBooleanCall(u) ==
  IF ~OnText(u, {"includes", "startsWith", "endsWith"}) THEN No
  ELSE IF u.as = <<>> \/ ~IgnoredPure(u.as, 2) THEN No
  ELSE LET recv == StringText(u.f.x)
           needle == SubstitutionText(u.as[1])
           b == Second(u.as)
       IN  IF Known(recv) /\ Known(needle) /\ Known(b) THEN HostString(u.f.name, recv.s, needle, b) ELSE No

(* repeat, padStart, padEnd of ASCII, within MaxText.                      *)
StringRepeatPad(u) ==
  IF ~OnText(u, {"repeat", "padStart", "padEnd"}) THEN No
  ELSE LET recv == StringText(u.f.x)
           n == PrimitiveNumber(u.as[1])
           pad == IF Len(u.as) < 2 THEN Str(" ") ELSE IF UndefinedExpression(u.as[2]) THEN Str(" ") ELSE StringText(u.as[2])
       IN  CASE ~Known(recv) \/ u.as = <<>> -> No
             [] ~Ascii(recv.s) \/ ~Known(n) -> No
             [] ~IsFinite(n) \/ Whole(n) < 0 -> No
             [] u.f.name = "repeat" ->
                  IF /\ IgnoredPure(u.as, 1)
                     /\ Whole(n) * (IF recv.s = "" THEN 1 ELSE 4 * Len(recv.s)) <= MaxText
                  THEN HostString("repeat", recv.s, Num(Whole(n)), Undef) ELSE No
             [] ~IgnoredPure(u.as, 2) \/ Whole(n) > MaxText \/ ~Known(pad) -> No
             [] OTHER -> IF Ascii(pad.s) THEN HostString(u.f.name, recv.s, Num(Whole(n)), pad) ELSE No

(* sideEffectFreeTemplateSubstitutionText: ToString of a known primitive.  *)
SubstitutionText(x) ==
  LET t == StringText(x)
      n == NumericValue(x)
      g == BigIntValue(x)
      b == PrimitiveBoolean(x)
      u == Unwrap(x)
  IN CASE Known(t) -> t
       [] Known(n) -> Str(NumText(n))
       [] Known(g) -> Str(ToString(g.n))
       [] Known(b) -> Str(IF b.b THEN "true" ELSE "false")
       [] u.k = "null" -> Str("null")
       [] UndefinedValue(u) -> Str("undefined")
       [] Known(EarlierConst(u)) -> SubstitutionText(EarlierConst(u))
       [] OTHER -> No

(* ------------------------------- typeof -------------------------------- *)

FunctionGlobals == {"Error", "Function", "Object", "Promise", "Proxy", "RegExp", "TypeError"}
ObjectGlobals == {"Atomics", "Intl", "JSON", "Reflect"}

(* sideEffectFreeTypeofString.                                             *)
TypeofString(x) ==
  LET u == Unwrap(x)
      leaf == TypeofLeaf(u)
  IN IF Known(leaf) THEN leaf ELSE TypeofChoice(u)

TypeofLeaf(u) ==
  CASE u.k = "global" /\ u.name \in FunctionGlobals -> Str("function")
    [] u.k = "global" /\ u.name \in ObjectGlobals -> Str("object")
    [] UndefinedValue(u) -> Str("undefined")
    [] u.k = "null" -> Str("object")
    [] Known(PrimitiveBoolean(u)) -> Str("boolean")
    [] Known(NumericValue(u)) -> Str("number")
    [] Known(BigIntValue(u)) -> Str("bigint")
    [] Known(StringText(u)) -> Str("string")
    [] u.k = "fn" \/ (u.k = "class" /\ u.b) -> Str("function")
    [] u.k \in {"arr", "obj", "regexp"} /\ IsPure(u) -> Str("object")
    [] u.k = "new" /\ PureNew(u) -> Str("object")
    [] OTHER -> No

(* Either side may be the value: its type is known when both have it.      *)
TypeofChoice(u) ==
  LET c == IF u.k = "cond" THEN StaticBoolean(u.c) ELSE IF u.k = "bin" THEN StaticBoolean(u.x) ELSE No
      nullish == NullishState(u.x)
      l == TypeofString(u.x)
      r == TypeofString(u.y)
      either == IF Known(l) /\ l = r THEN l ELSE No
  IN CASE u.k = "cond" -> IF Known(c) THEN (IF c.b THEN l ELSE r) ELSE IF IsPure(u.c) THEN either ELSE No
       [] u.k = "bin" /\ u.op \in {"&&", "||"} ->
            IF Known(c) THEN (IF c.b = (u.op = "||") THEN l ELSE r) ELSE either
       [] u.k = "bin" /\ u.op = "??" ->
            IF nullish = "nonNullish" THEN l ELSE IF nullish = "nullish" THEN r ELSE either
       [] Known(EarlierConst(u)) -> TypeofString(EarlierConst(u))
       [] OTHER -> No

===============================================================================
