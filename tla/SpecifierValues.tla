----------------------------- MODULE SpecifierValues -----------------------------
(***************************************************************************)
(* The resolvers of module-specifiers.ts for calls and properties of the   *)
(* global objects: conversions, numeric predicates, Object and Reflect     *)
(* questions, regular expressions, URLs, dates, Math and paths.            *)
(***************************************************************************)
EXTENDS SpecifierBuffers, HostValues

Answers(b) == {AsText(Bool(b))}
IsBare(u, kinds) == u.k \in kinds \/ NegativeLiteral(u, {"num"} \intersect kinds) \/ NegativeLiteral(u, {"big"} \intersect kinds)
LiteralKinds == {"str", "num", "big", "bool", "null", "undefined", "void"}
(* The value a direct literal stands for.                                  *)
LiteralValue(u) ==
  CASE u.k = "void" -> Undef [] u.k = "un" /\ u.x.k = "big" -> Big(-u.x.n) [] u.k = "un" -> Negate(u.x) [] OTHER -> u

(* ------------------------------ conversions ----------------------------- *)

LiteralTruth(v) ==
  CASE v.k = "bool" -> v.b [] v.k = "str" -> v.s # "" [] v.k \in {"num", "big"} -> v.n # 0 [] OTHER -> FALSE
BooleanValues(x) ==            \* resolveStaticBooleanValues
  LET u == CollectionOf(x)
  IN CASE IsBare(u, LiteralKinds \ {"big"}) \/ u.k = "big" -> {LiteralTruth(LiteralValue(u))}
       [] u.k \in {"arr", "obj"} -> {TRUE}
       [] u.k = "template" -> {t.s # "" : t \in Texts(u)}
       [] OTHER -> {}
BooleanCall(u) ==
  CASE ~CallsGlobal(u, {"Boolean"}, 0, 1) -> {} [] u.as = <<>> -> Answers(FALSE)
    [] OTHER -> {AsText(Bool(b)) : b \in BooleanValues(u.as[1])}
StringCoercion(x) ==           \* resolveStaticStringCoercionValues
  LET u == Bare(x)
  IN  IF ~IsBare(u, LiteralKinds) THEN {}
      ELSE IF NegativeLiteral(u, {"num", "big"}) THEN {Str("-" \o AsText(u.x).s)} ELSE {AsText(LiteralValue(u))}
CoercedNumber(x) ==            \* resolveStaticCoercedNumberValues
  LET u == Bare(x)
  IN CASE u.k = "str" -> {TextNum(u.s)} [] u.k = "bool" -> {Num(IF u.b THEN 1 ELSE 0)} [] u.k = "null" -> {Num(0)}
       [] IsUndefinedName(u) -> {NaN} [] u.k = "num" -> {u}
       [] u.k = "un" /\ u.op \in {"+", "-"} /\ u.x.k = "num" -> {IF u.op = "-" THEN Negate(u.x) ELSE u.x}
       [] OTHER -> {}
BigIntCoercion(x) ==           \* resolveStaticBigIntCoercionValues
  LET u == Bare(x)
      n == TextNum(u.s)
  IN CASE u.k \in {"big", "num"} \/ NegativeLiteral(u, {"num", "big"}) -> StringCoercion(u)
       [] u.k = "str" -> IF n.k = "num" THEN {AsText(n)} ELSE {}
       [] u.k = "bool" -> {AsText(Num(IF u.b THEN 1 ELSE 0))}
       [] OTHER -> {}
PrimitiveConstructor(u) ==     \* String(x), Number(x) and BigInt(x)
  LET none == u.as = <<>>
  IN CASE CallsGlobal(u, {"String"}, 0, 1) -> IF none THEN {Str("")} ELSE StringCoercion(u.as[1])
       [] CallsGlobal(u, {"BigInt"}, 0, 1) -> IF none THEN {} ELSE BigIntCoercion(u.as[1])
       [] CallsGlobal(u, {"Number"}, 0, 1) -> IF none THEN {Str("0")} ELSE {AsText(n) : n \in CoercedNumber(u.as[1])}
       [] OTHER -> {}
CharacterOf(n) == IF Whole(n) \in DOMAIN Alphabet THEN Alphabet[Whole(n)] ELSE NonAscii
StringConstructor(u) ==        \* String.fromCharCode, String.fromCodePoint
  IF ~CallsOwner(u, {"String"}, {"fromCharCode", "fromCodePoint"}, 0, Many) THEN {}
  ELSE LET ts == Combinations([i \in DOMAIN u.as |-> IntegerKeys(u.as[i])])
       IN  IF Callee(u).name = "fromCodePoint" /\ \E t \in ts : \E i \in DOMAIN t : Whole(t[i]) < 0 THEN {}
           ELSE {Str(Concat([i \in DOMAIN t |-> CharacterOf(t[i])])) : t \in ts}
NumericParser(u) ==
  CASE ~CallsGlobal(u, {"parseInt", "parseFloat"}, 1, 2) /\ ~CallsOwner(u, {"Number"}, {"parseInt", "parseFloat"}, 1, 2) -> {}
    [] Callee(u).name = "parseFloat" -> IF Len(u.as) > 1 THEN {} ELSE {AsText(HostParse("parseFloat", t.s, Undef)) : t \in Texts(u.as[1])}
    [] OTHER -> {AsText(HostParse("parseInt", t[1].s, t[2])) : t \in Combinations(Operands(u.as, <<"text", "int?">>))}
NumberPredicate(name, n) == IF name = "isNaN" THEN n = NaN ELSE IsFinite(n)
NumericPredicate(u) ==         \* Number.isInteger and its siblings
  IF CallsOwner(u, {"Number"}, {"isFinite", "isInteger", "isNaN", "isSafeInteger"}, 1, 1)
  THEN {AsText(Bool(NumberPredicate(Callee(u).name, n))) : n \in NumberValues(u.as[1])} ELSE {}
GlobalPredicate(u) ==          \* isNaN, isFinite
  IF CallsGlobal(u, {"isNaN", "isFinite"}, 1, 1)
  THEN {AsText(Bool(NumberPredicate(Callee(u).name, n))) : n \in CoercedNumber(u.as[1])} ELSE {}
UriCall(u) == IF CallsGlobal(u, UriNames, 1, 1) THEN AsTexts({HostUri(Callee(u).name, t.s) : t \in Texts(u.as[1])}) ELSE {}
IsBase64(s) == \A i \in 1 .. Len(s) : SubSeq(s, i, i) \notin {"%", "-", ".", NonAscii}
Base64Call(u) ==               \* btoa is the identity on the instances' bytes but for its mark, atob removes it
  IF ~CallsGlobal(u, {"btoa", "atob"}, 1, 1) THEN {}
  ELSE IF Callee(u).name = "atob" /\ \E t \in Texts(u.as[1]) : ~IsBase64(t.s) THEN {}
  ELSE {IF Callee(u).name = "btoa" THEN Str(t.s \o "=") ELSE Str(Before(t.s, "=")) : t \in Texts(u.as[1])}

(* -------------------------- Object and Reflect -------------------------- *)

ArrayPredicate(u) ==           \* Array.isArray
  LET v == CollectionOf(u.as[1])
  IN  IF ~CallsOwner(u, {"Array"}, {"isArray"}, 1, 1) THEN {}
      ELSE IF v.k = "arr" THEN Answers(TRUE) ELSE IF v.k \in {"obj"} \union LiteralKinds THEN Answers(FALSE) ELSE {}
SameValueKey(x) ==             \* a literal's value, or No
  LET v == CollectionOf(x)
  IN  IF IsNamed(x, {"NaN"}) THEN NaN ELSE IF Known(v) /\ IsBare(v, LiteralKinds) THEN LiteralValue(v) ELSE No
ObjectIs(u) ==
  LET a == SameValueKey(u.as[1])
      b == SameValueKey(u.as[2])
  IN  IF CallsOwner(u, {"Object"}, {"is"}, 2, Many) THEN (IF Known(a) /\ Known(b) THEN Answers(a = b) ELSE {}) ELSE {}

Plain(p) == p.p = "prop"
ElementAt(v, key) ==           \* of an array literal: No for a hole, a spread or nothing
  LET i == IntegerOf(key).n + 1
  IN  IF ~IndexText(key) THEN No ELSE IF i > Len(v.es) THEN No ELSE IF v.es[i].k \in {"spread", "hole"} THEN No ELSE v.es[i]
(* The first property of that name; scanning stops at one it cannot read.  *)
FirstProperty(v, key, readable) ==
  LET at == {i \in DOMAIN v.ps : v.ps[i].p \notin readable \/ v.ps[i].name = key}
      p == v.ps[Least(at, 0)]
  IN  IF at = {} THEN Undef ELSE IF p.p \notin readable THEN No ELSE p
IsSpreadProp(p) == p.p = "spread"
InText(s, key) == IndexText(key) /\ IntegerOf(key).n < Len(s)
HasOwnKey(v, key) ==           \* staticObjectHasOwn: TRUE, FALSE or No
  CASE v.k = "obj" -> LET p == FirstProperty(v, key, {"prop", "getter", "method"}) IN IF p = No THEN No ELSE Bool(p # Undef)
    [] v.k = "arr" -> Bool(key = "length" \/ Known(ElementAt(v, key)))
    [] v.k = "str" -> Bool(key = "length" \/ InText(v.s, key))
    [] OTHER -> No
BufferHasOwn(b, key) == InText(b.bs, key)
BufferOwn(x, k) == {AsText(Bool(BufferHasOwn(b, t.s))) : b \in BuffersOf(x), t \in Texts(k)}
Asked(x, k, ask(_, _)) ==      \* a question about one object and each alternative key
  LET v == CollectionOf(x) IN IF Known(v) THEN AsTexts({ask(v, t.s) : t \in Texts(k)}) ELSE {}
ObjectHasOwn(u) ==
  IF CallsOwner(u, {"Object"}, {"hasOwn"}, 2, 2)
  THEN FirstSome(<<BufferOwn(u.as[1], u.as[2]), Asked(u.as[1], u.as[2], HasOwnKey)>>) ELSE {}

(* staticDescriptorFor: the values and flags of an own data property.      *)
Described(values, writable, enumerable, configurable) ==
  IF values = {} THEN No
  ELSE [k |-> "descriptor", value |-> values, writable |-> writable, enumerable |-> enumerable, configurable |-> configurable]
DescriptorFor(v, key) ==
  CASE v.k = "obj" -> LET p == FirstProperty(v, key, {"prop"}) IN IF p \in {No, Undef} THEN No ELSE Described(Texts(p.x), TRUE, TRUE, TRUE)
    [] v.k = "arr" -> IF key = "length" THEN Described({AsText(Num(Len(v.es)))}, TRUE, FALSE, FALSE)
                      ELSE LET e == ElementAt(v, key) IN IF Known(e) THEN Described(Texts(e), TRUE, TRUE, TRUE) ELSE No
    [] v.k = "str" -> IF key = "length" THEN Described({AsText(Num(Len(v.s)))}, FALSE, FALSE, FALSE)
                      ELSE IF InText(v.s, key) THEN Described({Str(Unit(v.s, IntegerOf(key).n))}, FALSE, TRUE, FALSE) ELSE No
    [] OTHER -> No
BufferDescriptor(x, key) ==
  LET bs == BuffersOf(x)
  IN  IF \E b \in bs : ~BufferHasOwn(b, key) THEN No ELSE Described({AsText(Num(b.bs[IntegerOf(key).n + 1])) : b \in bs}, TRUE, TRUE, TRUE)
DescriptorOf(x, keys) ==
  LET key == (CHOOSE t \in keys : TRUE).s
      v == CollectionOf(x)
  IN  IF Cardinality(keys) # 1 THEN No
      ELSE IF Known(BufferDescriptor(x, key)) THEN BufferDescriptor(x, key) ELSE IF Known(v) THEN DescriptorFor(v, key) ELSE No
StaticDescriptor(x) ==         \* resolveStaticDescriptor, resolveStaticDescriptorMapEntry
  LET u == Bare(x)
      map == Bare(u.x)
      keys == IF u.k = "get" THEN {Str(u.name)} ELSE Texts(u.y)
  IN CASE u.k \in {"get", "at"} -> IF CallsOwner(map, {"Object"}, {"getOwnPropertyDescriptors"}, 1, Many) THEN DescriptorOf(map.as[1], keys) ELSE No
       [] CallsOwner(u, {"Object", "Reflect"}, {"getOwnPropertyDescriptor"}, 2, Many) -> DescriptorOf(u.as[1], Texts(u.as[2]))
       [] OTHER -> No
DescriptorProperty(x) ==
  LET d == StaticDescriptor(x.x)
  IN  IF x.name \notin {"value", "writable", "enumerable", "configurable"} \/ ~Known(d) THEN {}
      ELSE IF x.name = "value" THEN d.value ELSE Answers(d[x.name])

ReflectGetOf(v, key) ==        \* staticReflectGet: the texts, {} for none
  IF v.k = "str" \/ v.k = "arr" \/ v.k = "obj" THEN LET d == DescriptorFor(v, key) IN IF Known(d) THEN d.value ELSE {} ELSE {}
AllTexts(ss) == IF {} \in ss THEN {} ELSE UNION ss
BufferReflectGet(b, key) ==
  IF key = "length" THEN {AsText(Num(Len(b.bs)))} ELSE IF BufferHasOwn(b, key) THEN {AsText(Num(b.bs[IntegerOf(key).n + 1]))} ELSE {}
ReflectGet(u) ==
  LET x == u.as[1]
      v == CollectionOf(x)
      ks == Texts(u.as[2])
  IN  IF ~CallsOwner(u, {"Reflect"}, {"get"}, 2, 2) THEN {}
      ELSE FirstSome(<<AllTexts({BufferReflectGet(b, t.s) : b \in BuffersOf(x), t \in ks}),
                       IF Known(v) THEN AllTexts({ReflectGetOf(v, t.s) : t \in ks}) ELSE {}>>)
ReflectHasKey(v, key) ==       \* staticReflectHas: what an object lacks, its prototype may have
  LET own == HasOwnKey(v, key)
  IN  IF v.k = "obj" THEN (IF own = Bool(TRUE) THEN own ELSE No) ELSE IF own = Bool(FALSE) /\ ~IndexText(key) THEN No ELSE own
BufferReflectHas(b, key) == key = "length" \/ BufferHasOwn(b, key)
ReflectHas(u) ==
  IF ~CallsOwner(u, {"Reflect"}, {"has"}, 2, Many) THEN {}
  ELSE FirstSome(<<{AsText(Bool(BufferReflectHas(b, t.s))) : b \in BuffersOf(u.as[1]), t \in Texts(u.as[2])},
                   Asked(u.as[1], u.as[2], ReflectHasKey)>>)

CallsPrototype(u, names, lo) ==              \* Object.prototype.name.call(...)
  LET m == Bare(Receiver(u))
      p == Bare(m.x)
  IN  /\ CallsMethod(u, {"call"}, lo, Many) /\ m.k = "get" /\ m.name \in names
      /\ p.k = "get" /\ p.name = "prototype" /\ IsNamed(p.x, {"Object"})
EnumerableKey(v, key) ==
  LET own == HasOwnKey(v, key)
      d == DescriptorFor(v, key)
  IN  IF own = Bool(TRUE) THEN (IF Known(d) THEN Bool(d.enumerable) ELSE No) ELSE own
OwnPrototypePredicate(u) ==
  LET m == Bare(Receiver(u)).name
  IN  IF ~CallsPrototype(u, {"hasOwnProperty", "propertyIsEnumerable"}, 2) THEN {}
      ELSE FirstSome(<<BufferOwn(u.as[1], u.as[2]),
                       IF m = "hasOwnProperty" THEN Asked(u.as[1], u.as[2], HasOwnKey) ELSE Asked(u.as[1], u.as[2], EnumerableKey)>>)
BufferOwnPredicate(u) ==
  IF CallsMethod(u, {"hasOwnProperty", "propertyIsEnumerable"}, 1, 1) THEN BufferOwn(Receiver(u), u.as[1]) ELSE {}
Tags == [str |-> "String", num |-> "Number", big |-> "BigInt", bool |-> "Boolean", null |-> "Null", undefined |-> "Undefined",
         void |-> "Undefined", arr |-> "Array", obj |-> "Object"]
ObjectTag(v) ==                \* staticObjectPrototypeToStringTag
  CASE v.k \in DOMAIN Tags -> {Str("[object " \o Tags[v.k] \o "]")}
    [] v.k = "un" /\ v.op \in {"+", "-"} /\ (v.x.k = "num" \/ (v.op = "-" /\ v.x.k = "big")) -> {Str("[object " \o Tags[v.x.k] \o "]")}
    [] OTHER -> {}
PrototypeToString(u) == IF CallsPrototype(u, {"toString"}, 1) THEN ObjectTag(Bare(u.as[1])) ELSE {}
IntegrityKind(v) ==            \* staticIntegrityObjectKind
  IF v.k \in {"arr", "obj"} THEN "object" ELSE IF IsBare(v, LiteralKinds) \/ IsNamed(v, {"NaN"}) THEN "primitive" ELSE ""
IntegrityPredicate(u) ==
  LET raw == IntegrityKind(Bare(u.as[1]))
      kind == IF raw = "" THEN IntegrityKind(CollectionOf(u.as[1])) ELSE raw
  IN  IF ~CallsOwner(u, {"Object"}, {"isExtensible", "isSealed", "isFrozen"}, 1, Many) THEN {}
      ELSE IF kind = "" THEN {} ELSE Answers(kind = (IF Callee(u).name = "isExtensible" THEN "object" ELSE "primitive"))

===============================================================================
