------------------------------- MODULE JsSyntax -------------------------------
(***************************************************************************)
(* The expressions the code generator's static analyses read, the values   *)
(* they stand for, and the host operations on those values.  The analyses  *)
(* call the host's own String and Number operations, so a model of an      *)
(* analysis and the reference evaluation share them; what they do not      *)
(* share is which operands reach them, after which conversions.            *)
(*                                                                         *)
(* Numbers are integers, NaN, the infinities and -0.  A name bound by an   *)
(* earlier const of the same file is Const(its name, its initializer): the *)
(* set of the constants already being followed, which the code threads     *)
(* through to cut cycles, cannot matter for them.                          *)
(***************************************************************************)
EXTENDS Integers, Sequences, SequencesExt, FiniteSets, TLC

(* ------------------------------- syntax -------------------------------- *)

Str(s) == [k |-> "str", s |-> s]
Num(n) == [k |-> "num", n |-> n]
Big(n) == [k |-> "big", n |-> n]
Bool(b) == [k |-> "bool", b |-> b]
Null == [k |-> "null"]
Undef == [k |-> "undefined"]
Regexp == [k |-> "regexp"]
Lambda(params, body) == [k |-> "fn", params |-> params, body |-> body]
Body(how, x) == [how |-> how, x |-> x]               \* how: expr, return, stmt, empty or many
Pattern == ""                                        \* a parameter that is no name
Param(name) == [k |-> "param", name |-> name]        \* a use of a parameter
Fn == Lambda(<<>>, Body("many", Null))               \* a function of which only the existence matters
Class(pure) == [k |-> "class", b |-> pure]           \* pure: its definition runs no user code
Global(name) == [k |-> "global", name |-> name]      \* an unshadowed global
Import(mod, name) == [k |-> "import", mod |-> mod, name |-> name]
Const(name, x) == [k |-> "const", name |-> name, x |-> x]
Let == [k |-> "let"]                                 \* a variable of unknown value
Effect == [k |-> "effect"]                           \* a call of user code
User == [k |-> "user"]                               \* an object whose conversions are user code
Paren(x) == [k |-> "paren", x |-> x]                 \* parentheses, as, !, satisfies
Void(x) == [k |-> "void", x |-> x]
Typeof(x) == [k |-> "typeof", x |-> x]
Delete(x) == [k |-> "delete", x |-> x]
Un(op, x) == [k |-> "un", op |-> op, x |-> x]        \* ! + - ~
Bin(op, x, y) == [k |-> "bin", op |-> op, x |-> x, y |-> y]
Cond(c, x, y) == [k |-> "cond", c |-> c, x |-> x, y |-> y]
Rex(source, flags) == [k |-> "pattern", s |-> source, flags |-> flags]
Enum(members) == [k |-> "enum", members |-> members] \* the name of an enum; members: member name to initializer
Typed(t) == [k |-> "typed", t |-> t]                 \* a variable or parameter known by its declared type only
TLit(x) == [k |-> "lit", x |-> x]
TUnion(ts) == [k |-> "union", ts |-> ts]
TTemplate(head, spans) == [k |-> "template", s |-> head, spans |-> spans]
TSpan(t, text) == [t |-> t, s |-> text]
TKeyof(x) == [k |-> "keyof", x |-> x]                \* keyof typeof a const
TEnum(members) == [k |-> "enum", members |-> members]
TOpen == [k |-> "open"]                              \* string, or any type without a finite set of texts
Raw(head, spans) == [k |-> "raw", s |-> head, spans |-> spans]   \* String.raw`...`, no escapes
Template(head, spans) == [k |-> "template", s |-> head, spans |-> spans]
Span(x, text) == [x |-> x, s |-> text]
Arr(id, es) == [k |-> "arr", id |-> id, es |-> es]   \* id: one per occurrence in a program
Hole == [k |-> "hole"]
Spread(x) == [k |-> "spread", x |-> x]
Obj(id, ps) == [k |-> "obj", id |-> id, ps |-> ps]
Prop(name, x) == [p |-> "prop", name |-> name, x |-> x]
Getter(name) == [p |-> "getter", name |-> name]
Method(name) == [p |-> "method", name |-> name]
SpreadProp(x) == [p |-> "spread", name |-> "", x |-> x]
Get(x, name) == [k |-> "get", x |-> x, name |-> name]
At(x, y) == [k |-> "at", x |-> x, y |-> y]
Call(f, as) == [k |-> "call", f |-> f, as |-> as]
New(f, as) == [k |-> "new", f |-> f, as |-> as]
MCall(x, name, as) == Call(Get(x, name), as)         \* x.name(as)
SCall(owner, name, as) == MCall(Global(owner), name, as)
GCall(name, as) == Call(Global(name), as)

No == [k |-> "no"]             \* null in the code: nothing known
Known(v) == v.k # "no"
Arg(as, i) == IF i <= Len(as) THEN as[i] ELSE Undef

(* ---------------------- values the analyses compute -------------------- *)

NaN == [k |-> "nan"]
Inf == [k |-> "inf"]
NegInf == [k |-> "-inf"]
NegZero == [k |-> "-0"]
IsNumber(v) == v.k \in {"num", "nan", "inf", "-inf", "-0"}
IsFinite(v) == v.k \in {"num", "-0"}
Whole(v) == IF v.k = "num" THEN v.n ELSE 0           \* of a finite number
NumText(v) ==
  CASE v.k = "num" -> ToString(v.n) [] v.k = "-0" -> "0" [] v.k = "nan" -> "NaN"
    [] v.k = "inf" -> "Infinity" [] v.k = "-inf" -> "-Infinity"
TextNumbers == -9 .. 32
TextNum(s) ==
  IF s \in {"", " "} THEN Num(0)
  ELSE IF \E n \in TextNumbers : ToString(n) = s THEN Num(CHOOSE n \in TextNumbers : ToString(n) = s)
  ELSE IF s = "Infinity" THEN Inf ELSE NaN
Negate(v) ==
  CASE v.k = "num" -> IF v.n = 0 THEN NegZero ELSE Num(-v.n)
    [] v.k = "-0" -> Num(0) [] v.k = "inf" -> NegInf [] v.k = "-inf" -> Inf [] OTHER -> v
Less(a, b) ==                                        \* neither is NaN
  CASE a.k = "-inf" -> b.k # "-inf" [] a.k = "inf" -> FALSE
    [] b.k = "inf" -> TRUE [] b.k = "-inf" -> FALSE [] OTHER -> Whole(a) < Whole(b)
(* The operators on finite operands whose result is an integer; what they  *)
(* do outside of that is the host's in the code and in the reference.      *)
Arith(op, a, b) ==
  CASE ~IsFinite(a) \/ ~IsFinite(b) -> NaN
    [] op = "+" -> Num(Whole(a) + Whole(b))
    [] op = "-" -> Num(Whole(a) - Whole(b))
    [] op = "*" -> Num(Whole(a) * Whole(b))
    [] op = "/" -> IF Whole(b) = 0 THEN (IF Whole(a) = 0 THEN NaN ELSE Inf) ELSE Num(Whole(a) \div Whole(b))
    [] op = "%" -> IF Whole(b) = 0 THEN NaN ELSE Num(Whole(a) % Whole(b))
    [] op = "**" -> Num(Whole(a) ^ Whole(b))
    [] op = "<<" -> Num(Whole(a) * 2 ^ Whole(b))
    [] OTHER -> NaN
NumberOperators == {"+", "-", "*", "/", "%", "**", "<<"}
Comparisons == {"<", "<=", ">", ">="}
Compare(op, less, equal) ==                          \* of ordered operands
  CASE op = "<" -> less [] op = "<=" -> less \/ equal
    [] op = ">" -> ~less /\ ~equal [] op = ">=" -> ~less

(* -------------------------------- text --------------------------------- *)

Alphabet == <<" ", "%", "-", ".", "/", "0", "1", "2", "3", "4", "5", "6", "7", "8", "9", "A", "B", "E", "I", "N",
              "[", "]", "a", "b", "c", "d", "e", "f", "g", "h", "i", "j", "k", "l", "m", "n", "o", "p", "q", "r", "s", "t", "u", "v", "w", "x", "y", "z", "#">>
NonAscii == "#"                                      \* stands for a unit outside ASCII
Ascii(s) == \A i \in 1 .. Len(s) : SubSeq(s, i, i) # NonAscii
Chars(s) == [i \in 1 .. Len(s) |-> SubSeq(s, i, i)]
Code(c) == CHOOSE i \in 1 .. Len(Alphabet) : Alphabet[i] = c
Concat(ss) == FoldLeft(LAMBDA a, b : a \o b, "", ss)
TextLess(s, t) ==
  \E i \in 0 .. Len(s) :
    /\ i < Len(t) /\ SubSeq(s, 1, i) = SubSeq(t, 1, i)
    /\ i = Len(s) \/ Code(SubSeq(s, i + 1, i + 1)) < Code(SubSeq(t, i + 1, i + 1))

Upper(s) == Concat([i \in 1 .. Len(s) |-> LET c == SubSeq(s, i, i) IN IF c = "a" THEN "A" ELSE IF c = "b" THEN "B" ELSE c])
Lower(s) == Concat([i \in 1 .. Len(s) |-> LET c == SubSeq(s, i, i) IN IF c = "A" THEN "a" ELSE IF c = "B" THEN "b" ELSE c])
Firsts(s) == {i \in 1 .. Len(s) : SubSeq(s, i, i) # " "}
TrimStart(s) == IF Firsts(s) = {} THEN "" ELSE SubSeq(s, CHOOSE i \in Firsts(s) : \A j \in Firsts(s) : i <= j, Len(s))
TrimEnd(s) == IF Firsts(s) = {} THEN "" ELSE SubSeq(s, 1, CHOOSE i \in Firsts(s) : \A j \in Firsts(s) : i >= j)

Clamp(n, lo, hi) == IF n < lo THEN lo ELSE IF n > hi THEN hi ELSE n
From(n, len) == IF n < 0 THEN Clamp(len + n, 0, len) ELSE Clamp(n, 0, len)
Integer(v, len) ==             \* an optional, already numeric position, inside -len-1 .. len+1
  CASE v.k = "inf" -> len + 1 [] v.k = "-inf" -> -(len + 1) [] v.k = "num" -> v.n [] OTHER -> 0
Least(S, d) == IF S = {} THEN d ELSE CHOOSE i \in S : \A j \in S : i <= j
Most(S, d) == IF S = {} THEN d ELSE CHOOSE i \in S : \A j \in S : i >= j
Occurs(s, t) == {i \in 0 .. Len(s) : i + Len(t) <= Len(s) /\ SubSeq(s, i + 1, i + Len(t)) = t}
Pad(s, n, p) ==
  IF p = "" \/ n <= Len(s) THEN "" ELSE SubSeq(Concat([i \in 1 .. n |-> p]), 1, n - Len(s))
Unit(s, i) == IF 0 <= i /\ i < Len(s) THEN SubSeq(s, i + 1, i + 1) ELSE ""

(* String.prototype[m] on a text: a and b are its converted arguments, Undef *)
(* when absent.                                                            *)
HostString(m, s, a, b) ==
  LET len == Len(s)
      i == Integer(a, len)
      n == IF b.k = "undefined" THEN len ELSE Integer(b, len)
      end == From(n, len)
      up == From(i, len)
      cut(lo, hi) == IF lo >= hi THEN "" ELSE SubSeq(s, lo + 1, hi)
  IN CASE m \in {"toUpperCase", "toLocaleUpperCase"} -> Str(Upper(s))
       [] m \in {"toLowerCase", "toLocaleLowerCase"} -> Str(Lower(s))
       [] m = "trim" -> Str(TrimEnd(TrimStart(s)))
       [] m \in {"trimStart", "trimLeft"} -> Str(TrimStart(s))
       [] m \in {"trimEnd", "trimRight"} -> Str(TrimEnd(s))
       [] m = "charAt" -> Str(Unit(s, i))
       [] m = "at" -> LET j == IF i < 0 THEN len + i ELSE i IN IF 0 <= j /\ j < len THEN Str(Unit(s, j)) ELSE Undef
       [] m = "slice" -> Str(cut(up, end))
       [] m = "substring" -> LET lo == Clamp(i, 0, len)
                                 hi == Clamp(n, 0, len)
                             IN  Str(IF lo < hi THEN cut(lo, hi) ELSE cut(hi, lo))
       [] m = "substr" -> Str(cut(up, Clamp(up + Clamp(n, 0, len), 0, len)))
       [] m = "charCodeAt" -> IF Unit(s, i) = "" THEN NaN ELSE Num(Code(Unit(s, i)))
       [] m = "codePointAt" -> IF Unit(s, i) = "" THEN Undef ELSE Num(Code(Unit(s, i)))
       [] m = "indexOf" -> LET at == IF b.k = "undefined" THEN 0 ELSE Clamp(n, 0, len)
                           IN  Num(Least({j \in Occurs(s, a.s) : j >= at}, -1))
       [] m = "lastIndexOf" -> LET at == IF b.k \in {"undefined", "nan"} THEN len ELSE Clamp(n, 0, len)
                               IN  Num(Most({j \in Occurs(s, a.s) : j <= at}, -1))
       [] m = "includes" -> LET at == IF b.k = "undefined" THEN 0 ELSE Clamp(n, 0, len)
                            IN  Bool(\E j \in Occurs(s, a.s) : j >= at)
       [] m = "startsWith" -> LET at == IF b.k = "undefined" THEN 0 ELSE Clamp(n, 0, len) IN Bool(at \in Occurs(s, a.s))
       [] m = "endsWith" -> Bool(Clamp(n, 0, len) - Len(a.s) \in Occurs(s, a.s))
       [] m = "repeat" -> Str(Concat([j \in 1 .. i |-> s]))
       [] m = "padStart" -> Str(Pad(s, i, b.s) \o s)
       [] m = "padEnd" -> Str(s \o Pad(s, i, b.s))

(* encodeURI and its siblings: a space is the one unit that is escaped, a   *)
(* lone % the one malformed escape.                                        *)
UriNames == {"encodeURI", "encodeURIComponent", "decodeURI", "decodeURIComponent"}
HostUri(name, s) ==
  IF name \in {"encodeURI", "encodeURIComponent"}
  THEN Str(Concat([i \in 1 .. Len(s) |-> LET c == SubSeq(s, i, i) IN IF c = " " THEN "%20" ELSE c]))
  ELSE IF s = "%20" THEN Str(" ") ELSE IF s = "%" THEN No ELSE Str(s)

(* parseInt and parseFloat of a text that starts with digits or not at all; *)
(* radix NaN or 0 is decimal, 16 reads a as ten.                           *)
HostParse(name, s, radix) ==
  LET lead == {i \in 1 .. Len(s) : TextNum(SubSeq(s, 1, i)).k = "num" /\ SubSeq(s, 1, i) # " "}
      n == Most(lead, 0)
  IN CASE name = "parseInt" /\ radix.k = "num" /\ radix.n = 16 /\ s = "a" -> Num(10)
       [] name = "parseFloat" /\ s = "Infinity" -> Inf
       [] n = 0 -> NaN
       [] OTHER -> TextNum(SubSeq(s, 1, n))

===============================================================================
