--------------------------- MODULE SpecifierReference ---------------------------
(***************************************************************************)
(* What the argument of require() evaluates to when the program runs, for  *)
(* the expressions module-specifiers.ts reads.  This is the language, not  *)
(* the compiler: an evaluation over values and environments that shares    *)
(* with the analysis only the syntax and the library of the host.          *)
(*                                                                         *)
(* Run(x, env) is the set of the values x may have; what throws adds none. *)
(* A variable the compiler knows nothing of is the empty text or a text    *)
(* that occurs nowhere else.                                               *)
(***************************************************************************)
EXTENDS HostValues

Fresh == "yx"
Array(es) == [k |-> "array", es |-> es]
Record(ps) == [k |-> "object", ps |-> ps]            \* ps: pairs of a name and a value, in order
Closure(f, env) == [k |-> "closure", f |-> f, env |-> env]
Items(kind, es) == [k |-> kind, es |-> es]           \* set, map, params (pairs) or iterator
View(buffer, offset, size) == [k |-> "view", buffer |-> buffer, offset |-> offset, size |-> size]
RawBuffer(n) == [k |-> "arraybuffer", n |-> n]
Absent == Hole                                       \* no element at this index

Is(v, kinds) == v.k \in kinds
IsObject(v) == ~IsNumber(v) /\ ~Is(v, {"str", "big", "bool", "null", "undefined"})
Truth(v) ==
  CASE v.k = "str" -> v.s # "" [] v.k \in {"num", "big"} -> v.n # 0 [] v.k = "bool" -> v.b [] v.k \in {"null", "undefined", "nan", "-0"} -> FALSE
    [] OTHER -> TRUE
RECURSIVE Text(_), Json(_), Flat(_, _), Run(_, _), RunAll(_, _)
Text(v) ==                     \* ToString
  CASE v.k = "str" -> v.s [] IsNumber(v) -> NumText(v) [] v.k = "big" -> ToString(v.n) [] v.k = "bool" -> (IF v.b THEN "true" ELSE "false")
    [] v.k = "array" -> Glue([i \in DOMAIN v.es |-> IF Is(v.es[i], {"null", "undefined", "hole"}) THEN "" ELSE Text(v.es[i])], ",")
    [] v.k = "object" -> "[object Object]" [] v.k = "buffer" -> Encoded(v, "utf8").s [] v.k = "regexpvalue" -> RegExpText(v)
    [] v.k = "url" -> v.s [] v.k = "params" -> QueryText([i \in DOMAIN v.es |-> <<v.es[i].es[1].s, v.es[i].es[2].s>>])
    [] OTHER -> v.k
Number(v) ==                   \* ToNumber
  CASE IsNumber(v) -> v [] v.k = "str" -> TextNum(v.s) [] v.k = "bool" -> Num(IF v.b THEN 1 ELSE 0) [] v.k = "null" -> Num(0)
    [] v.k = "date" -> Num(v.t) [] OTHER -> NaN
Place(v) == IF v.k = "undefined" THEN v ELSE Number(v)
Key(v) == Text(v)
IndexIn(key, n) == \E i \in 0 .. n - 1 : ToString(i) = key
IndexNo(key) == CHOOSE i \in 0 .. 40 : ToString(i) = key
EntryOf(a, b) == Array(<<a, b>>)

(* ------------------------------- properties ------------------------------ *)

Own(v, key) ==                 \* the own property, or Absent
  CASE v.k = "object" -> LET i == Most({j \in DOMAIN v.ps : v.ps[j][1] = key}, 0) IN IF i = 0 THEN Absent ELSE v.ps[i][2]
    [] v.k = "array" -> IF key = "length" THEN Num(Len(v.es)) ELSE IF IndexIn(key, Len(v.es)) THEN v.es[IndexNo(key) + 1] ELSE Absent
    [] v.k = "str" -> IF key = "length" THEN Num(Len(v.s)) ELSE IF IndexIn(key, Len(v.s)) THEN Str(Unit(v.s, IndexNo(key))) ELSE Absent
    [] v.k = "buffer" -> IF IndexIn(key, Len(v.bs)) THEN Num(v.bs[IndexNo(key) + 1]) ELSE Absent
    [] OTHER -> Absent
OwnNames(v) ==                 \* in order, without length
  CASE v.k = "object" -> [i \in DOMAIN v.ps |-> v.ps[i][1]]
    [] v.k = "array" -> LET at == SelectSeq([i \in DOMAIN v.es |-> i], LAMBDA i : v.es[i] # Absent) IN [i \in DOMAIN at |-> ToString(at[i] - 1)]
    [] v.k = "buffer" -> [i \in DOMAIN v.bs |-> ToString(i - 1)]
    [] v.k = "str" -> [i \in 1 .. Len(v.s) |-> ToString(i - 1)]
    [] OTHER -> <<>>
Params(s) == LET q == Query(s) IN Items("params", [i \in DOMAIN q |-> EntryOf(Str(q[i][1]), Str(q[i][2]))])
Read(v, key) ==                \* v[key]; No throws
  LET own == Own(v, key)
  IN CASE v.k \in {"null", "undefined"} -> No
       [] own # Absent -> own
       [] v.k = "buffer" /\ key = "length" -> Num(Len(v.bs))
       [] v.k = "arraybuffer" /\ key = "byteLength" -> Num(v.n)
       [] v.k = "view" /\ key \in {"byteLength", "byteOffset", "buffer"} ->
            (CASE key = "byteLength" -> Num(v.size) [] key = "byteOffset" -> Num(v.offset) [] OTHER -> RawBuffer(v.buffer))
       [] v.k = "url" -> IF key = "searchParams" THEN Params(UrlRead(v, "search").s) ELSE UrlRead(v, key)
       [] v.k = "regexpvalue" -> RegExpRead(v, key)
       [] v.k \in {"set", "map", "params"} /\ key = "size" -> Num(Len(v.es))
       [] v.k = "global" /\ v.name \in {"Math", "Number"} -> Str(key)        \* the constant's decimal text, by its name
       [] OTHER -> Undef
Without(ps, key) == SelectSeq(ps, LAMBDA p : p[1] # key)
Defined(ps, key, v) ==         \* the property keeps its place when it was there
  IF \E i \in DOMAIN ps : ps[i][1] = key THEN [i \in DOMAIN ps |-> IF ps[i][1] = key THEN <<key, v>> ELSE ps[i]] ELSE Append(ps, <<key, v>>)
Merged(ps, qs) == FoldLeft(LAMBDA acc, p : Defined(acc, p[1], p[2]), ps, qs)
OwnPairs(v) == LET ns == OwnNames(v) IN [i \in DOMAIN ns |-> <<ns[i], Own(v, ns[i])>>]
Descriptor(v, key) ==
  LET own == Own(v, key)
      fixed == v.k = "str"
      flag(b) == Bool(b)
  IN  IF own = Absent THEN Undef
      ELSE Record(<< <<"value", own>>, <<"writable", flag(~fixed)>>, <<"enumerable", flag(key # "length")>>,
                     <<"configurable", flag(~fixed /\ key # "length")>> >>)

(* ------------------------------- collections ----------------------------- *)

Iterated(v) ==                 \* what iterating v gives; No throws
  CASE v.k \in {"array", "set", "map", "params", "iterator"} -> Array([i \in DOMAIN v.es |-> IF v.es[i] = Absent THEN Undef ELSE v.es[i]])
    [] v.k = "str" -> Array([i \in 1 .. Len(v.s) |-> Str(Unit(v.s, i - 1))])
    [] v.k = "buffer" -> Array([i \in DOMAIN v.bs |-> Num(v.bs[i])])
    [] OTHER -> No
Has(es, v) == \E i \in DOMAIN es : es[i] = v
Unique(es) == FoldLeft(LAMBDA acc, v : IF Has(acc, v) THEN acc ELSE Append(acc, v), <<>>, es)
MapEntries(es) ==              \* the place of a key's first entry, the value of its last
  LET add(acc, e) == IF \E i \in DOMAIN acc : acc[i].es[1] = e.es[1]
                     THEN [i \in DOMAIN acc |-> IF acc[i].es[1] = e.es[1] THEN EntryOf(e.es[1], e.es[2]) ELSE acc[i]]
                     ELSE Append(acc, EntryOf(e.es[1], Read(e, "1")))
  IN  FoldLeft(add, <<>>, es)
Flat(es, depth) ==
  FlattenSeq([i \in DOMAIN es |-> IF es[i].k = "array" /\ depth > 0 THEN Flat(es[i].es, depth - 1) ELSE <<es[i]>>])
Kept(es, at) == [i \in DOMAIN at |-> es[at[i]]]
Rank(v, w) == IF v.k = "undefined" THEN FALSE ELSE w.k = "undefined" \/ TextLess(Text(v), Text(w))
Sorted(es) ==
  LET before(i, j) == Rank(es[i], es[j]) \/ (~Rank(es[j], es[i]) /\ i < j)
  IN  Kept(es, SortSeq([i \in DOMAIN es |-> i], before))
Apply(f, args) ==              \* the one value of a call of a closure; No throws
  LET bind == {i \in DOMAIN f.f.params : f.f.params[i] # Pattern}
      given == [n \in {f.f.params[i] : i \in bind} |-> Arg(args, CHOOSE i \in bind : f.f.params[i] = n)]
      vs == Run(f.f.body.x, given @@ f.env)
  IN CASE f.k # "closure" -> No
       [] f.f.body.how \in {"expr", "return"} -> IF vs = {} THEN No ELSE CHOOSE v \in vs : TRUE
       [] OTHER -> Undef
Each(f, es) == [i \in DOMAIN es |-> Apply(f, <<es[i], Num(i - 1), Array(es)>>)]
Throws(vs) == \E i \in DOMAIN vs : vs[i] = No

(* The result of es[m](as) on an array.                                    *)
ArrayMethod(m, es, as) ==
  LET n == Len(es)
      a(i) == Arg(as, i)
      int(i, d) == IF a(i).k = "undefined" THEN d ELSE Integer(Number(a(i)), n)
      lo(i) == From(int(i, 0), n)
      hi(i) == From(int(i, n), n)
      rs == Each(a(1), es)
      hits == {i \in DOMAIN es : Truth(rs[i])}
      found == IF m \in {"findLast", "findLastIndex"} THEN Most(hits, 0) ELSE Least(hits, 0)
      removed == IF Len(as) = 0 THEN 0 ELSE IF Len(as) = 1 THEN n - lo(1) ELSE Clamp(int(2, 0), 0, n - lo(1))
      spliced == SubSeq(es, 1, lo(1)) \o SubSeq(as, 3, Len(as)) \o SubSeq(es, lo(1) + removed + 1, n)
      to == lo(1)
      moved == Clamp(hi(3) - lo(2), 0, n - to)
      index == IF int(1, 0) < 0 THEN n + int(1, 0) ELSE int(1, 0)
      order == IF m = "reduceRight" THEN Reverse([i \in DOMAIN es |-> i]) ELSE [i \in DOMAIN es |-> i]
      folded(acc, i) == IF acc = No THEN No ELSE Apply(a(1), <<acc, es[i], Num(i - 1), Array(es)>>)
      sep == IF a(1).k = "undefined" THEN "," ELSE Text(a(1))
  IN CASE m \in {"map", "filter", "flatMap", "some", "every", "find", "findIndex", "findLast", "findLastIndex"} /\ Throws(rs) -> No
       [] m \in {"reverse", "toReversed"} -> Array(Reverse(es))
       [] m \in {"sort", "toSorted"} -> Array(Sorted(es))
       [] m = "flat" -> Array(Flat(es, int(1, 1)))
       [] m = "map" -> Array(rs)
       [] m = "flatMap" -> Array(Flat(rs, 1))
       [] m = "filter" -> Array(Kept(es, SelectSeq([i \in DOMAIN es |-> i], LAMBDA i : Truth(rs[i]))))
       [] m = "fill" -> Array([i \in DOMAIN es |-> IF lo(2) < i /\ i <= hi(3) THEN a(1) ELSE es[i]])
       [] m = "copyWithin" -> Array([i \in DOMAIN es |-> IF to < i /\ i <= to + moved THEN es[lo(2) + i - to] ELSE es[i]])
       [] m = "splice" -> Array(SubSeq(es, lo(1) + 1, lo(1) + removed))
       [] m = "toSpliced" -> Array(spliced)
       [] m = "with" -> IF index \in 0 .. n - 1 THEN Array([es EXCEPT ![index + 1] = a(2)]) ELSE No
       [] m = "slice" -> Array(SubSeq(es, lo(1) + 1, hi(2)))
       [] m = "concat" -> Array(es \o Flat(as, 1))
       [] m \in {"push", "unshift"} -> Num(n + Len(as))
       [] m = "pop" -> IF n = 0 THEN Undef ELSE es[n]
       [] m = "shift" -> IF n = 0 THEN Undef ELSE es[1]
       [] m = "some" -> Bool(hits # {})
       [] m = "every" -> Bool(hits = DOMAIN es)
       [] m \in {"findIndex", "findLastIndex"} -> Num(found - 1)
       [] m \in {"find", "findLast"} -> IF found = 0 THEN Undef ELSE es[found]
       [] m \in {"reduce", "reduceRight"} -> FoldLeft(folded, a(2), order)
       [] m = "at" -> IF index \in 0 .. n - 1 THEN Read(Array(es), ToString(index)) ELSE Undef
       [] m = "join" -> Str(Glue([i \in DOMAIN es |-> IF Is(es[i], {"null", "undefined", "hole"}) THEN "" ELSE Text(es[i])], sep))
       [] OTHER -> No

(* Sets, maps and query parameters.                                        *)
ItemsMethod(m, v, as) ==
  LET a == Arg(as, 1)
      other == Iterated(a).es
      pairs == v.k \in {"map", "params"}
      key(e) == IF pairs THEN e.es[1] ELSE e
      at == {i \in DOMAIN v.es : key(v.es[i]) = (IF v.k = "params" THEN Str(Text(a)) ELSE a)}
      among(S) == {S[i] : i \in DOMAIN S}
      set(es) == Items("set", es)
  IN CASE m = "has" -> Bool(\E i \in at : v.k = "params" /\ Len(as) = 2 => v.es[i].es[2] = Str(Text(as[2])))
       [] m = "get" -> IF at = {} THEN (IF v.k = "params" THEN Null ELSE Undef) ELSE v.es[Least(at, 0)].es[2]
       [] m = "getAll" -> Array([i \in 1 .. Cardinality(at) |-> v.es[SetToSortSeq(at, <)[i]].es[2]])
       [] m = "toString" -> Str(Text(v))
       [] m = "keys" -> Items("iterator", [i \in DOMAIN v.es |-> key(v.es[i])])
       [] m = "values" -> Items("iterator", [i \in DOMAIN v.es |-> IF pairs THEN v.es[i].es[2] ELSE v.es[i]])
       [] m = "entries" -> Items("iterator", [i \in DOMAIN v.es |-> IF pairs THEN v.es[i] ELSE EntryOf(v.es[i], v.es[i])])
       [] v.k = "set" /\ a.k = "set" ->
            (CASE m = "union" -> set(Unique(v.es \o other))
               [] m = "intersection" -> set(SelectSeq(v.es, LAMBDA e : Has(other, e)))
               [] m = "difference" -> set(SelectSeq(v.es, LAMBDA e : ~Has(other, e)))
               [] m = "symmetricDifference" -> set(SelectSeq(v.es, LAMBDA e : ~Has(other, e)) \o SelectSeq(other, LAMBDA e : ~Has(v.es, e)))
               [] m = "isSubsetOf" -> Bool(among(v.es) \subseteq among(other))
               [] m = "isSupersetOf" -> Bool(among(other) \subseteq among(v.es))
               [] m = "isDisjointFrom" -> Bool(among(v.es) \intersect among(other) = {})
               [] OTHER -> No)
       [] OTHER -> No

(* --------------------------- texts and their objects --------------------- *)

PatternFrom(v, flags) == IF v.k = "regexpvalue" THEN v ELSE RegExpOf(Text(v), flags)
Matched(r, s) == LET at == SetToSortSeq(Matches(r, s), <) IN [i \in DOMAIN at |-> Str(SubSeq(s, at[i] + 1, at[i] + Len(r.s)))]
First(vs) == IF vs = <<>> THEN Null ELSE Array(<<vs[1]>>)
TextMethod(m, s, as) ==
  LET a(i) == Arg(as, i)
      r == PatternFrom(a(1), IF m = "matchAll" THEN "g" ELSE "")
      found == Matched(r, s)
      with == IF a(2).k = "closure" THEN Text(Apply(a(2), <<>>)) ELSE Text(a(2))
      regexp == a(1).k = "regexpvalue"
      pieces == IF regexp /\ HasFlag(a(1), "i") THEN Split(Lower(s), Lower(a(1).s)) ELSE Split(s, IF regexp THEN a(1).s ELSE Text(a(1)))
      limit == IF a(2).k = "undefined" THEN Len(pieces) ELSE Clamp(Integer(Number(a(2)), Len(pieces)), 0, Len(pieces))
  IN CASE m \in {"toString", "valueOf", "toWellFormed"} -> Str(s)
       [] m = "isWellFormed" -> Bool(TRUE)
       [] m = "normalize" -> IF a(1).k = "undefined" \/ Text(a(1)) \in {"NFC", "NFD", "NFKC", "NFKD"} THEN Str(s) ELSE No
       [] m = "concat" -> Str(s \o Concat([i \in DOMAIN as |-> Text(as[i])]))
       [] m = "localeCompare" -> Num(Order(Decoded(s, "utf8"), Decoded(Text(a(1)), "utf8")))
       [] m = "search" -> IF r = No THEN No ELSE Num(Least(Matches(r, s), -1))
       [] m = "match" -> IF r = No THEN No ELSE IF HasFlag(r, "g") THEN (IF found = <<>> THEN Null ELSE Array(found)) ELSE First(found)
       [] m = "matchAll" -> IF r = No THEN No ELSE IF HasFlag(r, "g") THEN Items("iterator", [i \in DOMAIN found |-> Array(<<found[i]>>)]) ELSE No
       [] m \in {"replace", "replaceAll"} ->
            IF m = "replaceAll" /\ regexp /\ ~HasFlag(a(1), "g") THEN No
            ELSE Str(Replaced(s, IF regexp THEN a(1) ELSE Str(Text(a(1))), with, m = "replaceAll" \/ (regexp /\ HasFlag(a(1), "g"))))
       [] m = "split" -> IF a(1).k = "undefined" THEN Array(<<Str(s)>>) ELSE Array([i \in 1 .. limit |-> Str(pieces[i])])
       [] m \in {"repeat"} -> IF Integer(Number(a(1)), 0) < 0 THEN No ELSE HostString(m, s, Number(a(1)), Undef)
       [] m \in {"padStart", "padEnd"} -> HostString(m, s, Number(a(1)), IF a(2).k = "undefined" THEN Str(" ") ELSE Str(Text(a(2))))
       [] m \in {"indexOf", "lastIndexOf", "includes", "startsWith", "endsWith"} ->
            IF regexp THEN No ELSE HostString(m, s, Str(Text(a(1))), Place(a(2)))
       [] m \in {"slice", "substring", "substr", "charAt", "at", "charCodeAt", "codePointAt"} -> HostString(m, s, Number(a(1)), Place(a(2)))
       [] m \in {"toLowerCase", "toUpperCase", "trim", "trimStart", "trimEnd", "trimLeft", "trimRight"} -> HostString(m, s, Undef, Undef)
       [] OTHER -> No
Encodings == {"utf8", "utf-8", "hex", "base64", "latin1", "binary", "ascii"}
EncodingOf(v) == IF v.k = "undefined" THEN "utf8" ELSE IF Lower(Text(v)) \in Encodings THEN Lower(Text(v)) ELSE ""
BufferArity == [slice |-> 2, subarray |-> 2, fill |-> 3, swap16 |-> 0, swap32 |-> 0, compare |-> 5, copy |-> 4, write |-> 4, equals |-> 1,
                indexOf |-> 3, lastIndexOf |-> 3, includes |-> 3]
BufferMethod(m, b, as) ==
  LET fixed == IF SubSeq(m, 1, 4) = "read" THEN 1 ELSE 2
      arity == IF m \in DOMAIN Fixed THEN fixed ELSE BufferArity[m]
      args == [i \in 1 .. arity |-> Arg(as, i)]
  IN CASE m = "toString" -> IF EncodingOf(Arg(as, 1)) = "" THEN No ELSE Encoded(b, EncodingOf(Arg(as, 1)))
       [] m = "toLocaleString" -> Encoded(b, "utf8")
       [] m = "valueOf" -> b
       [] m = "toJSON" -> Record(<< <<"type", Str("Buffer")>>, <<"data", Array([i \in DOMAIN b.bs |-> Num(b.bs[i])])>> >>)
       [] m \in DOMAIN Fixed \union DOMAIN BufferArity -> HostBuffer(m, b, args)
       [] OTHER -> No
Json(v) ==                     \* JSON.stringify
  LET ps == SelectSeq(v.ps, LAMBDA p : p[2].k # "undefined")
  IN CASE v.k = "array" -> "[" \o Glue([i \in DOMAIN v.es |-> IF Is(v.es[i], {"undefined", "hole"}) THEN "null" ELSE Json(v.es[i])], ",") \o "]"
       [] v.k = "object" -> "{" \o Glue([i \in DOMAIN ps |-> Quote \o ps[i][1] \o Quote \o ":" \o Json(ps[i][2])], ",") \o "}"
       [] OTHER -> JsonText(v)

OwnMethod(m, v, key) ==        \* hasOwnProperty, propertyIsEnumerable
  Bool(Own(v, key) # Absent /\ (m = "hasOwnProperty" \/ key # "length"))
TagOf(v) ==
  CASE IsNumber(v) -> "Number" [] v.k = "str" -> "String" [] v.k = "big" -> "BigInt" [] v.k = "bool" -> "Boolean" [] v.k = "null" -> "Null"
    [] v.k = "undefined" -> "Undefined" [] v.k = "array" -> "Array" [] OTHER -> "Object"
Invoke(v, m, as) ==            \* v[m](as); No throws
  CASE v.k = "object" /\ Own(v, m) # Absent -> Apply(Own(v, m), as)
    [] v.k = "str" -> TextMethod(m, v.s, as)
    [] v.k = "array" -> ArrayMethod(m, v.es, as)
    [] v.k \in {"set", "map", "params"} -> ItemsMethod(m, v, as)
    [] v.k = "buffer" /\ m \notin {"hasOwnProperty", "propertyIsEnumerable"} -> BufferMethod(m, v, as)
    [] v.k = "regexpvalue" -> (CASE m = "test" -> Bool(Matches(v, Text(Arg(as, 1))) # {}) [] m = "exec" -> First(Matched(v, Text(Arg(as, 1))))
                                 [] OTHER -> Str(RegExpText(v)))
    [] v.k = "url" -> Str(v.s)
    [] v.k = "date" /\ as = <<>> -> DateRead(v.t, m)
    [] v.k = "date" -> DateSet(v.t, m, [i \in DOMAIN as |-> Whole(Number(as[i]))])
    [] v.k = "encoder" -> IF as = <<>> \/ as[1].k = "undefined" THEN Bytes(<<>>) ELSE Decoded(Text(as[1]), "utf8")
    [] v.k = "decoder" -> IF as = <<>> THEN Str("") ELSE IF as[1].k = "undefined" THEN Str("") ELSE Encoded(as[1], "utf8")
    [] v.k \in {"object", "buffer"} /\ m \in {"hasOwnProperty", "propertyIsEnumerable"} -> OwnMethod(m, v, Key(Arg(as, 1)))
    [] v.k = "object" /\ m = "toString" -> Str(Text(v))
    [] OTHER -> IF m \in {"toString", "toLocaleString", "valueOf"} /\ (IsNumber(v) \/ v.k \in {"bool", "big"}) THEN Str(Text(v)) ELSE No

(* ---------------------------- the global objects ------------------------- *)

Grouped(es, f) ==              \* the keys in the order of their first element, and the elements of each
  LET ks == Each(f, es)
      keys == Unique(ks)
      of(k) == Array(Kept(es, SelectSeq([i \in DOMAIN es |-> i], LAMBDA i : ks[i] = k)))
  IN  IF Throws(ks) THEN No ELSE Array([i \in DOMAIN keys |-> EntryOf(keys[i], of(keys[i]))])
FromPairs(es) == Merged(<<>>, [i \in DOMAIN es |-> <<Key(Read(es[i], "0")), Read(es[i], "1")>>])
Values(v) == LET ps == OwnPairs(v) IN [i \in DOMAIN ps |-> ps[i][2]]
DescribedValues(v) == [i \in DOMAIN v.ps |-> <<v.ps[i][1], Read(v.ps[i][2], "value")>>]
ObjectCall(m, as) ==
  LET v == Arg(as, 1)
      b == Arg(as, 2)
      ns == OwnNames(v)
      grouped == Grouped(Iterated(v).es, b)
  IN CASE m = "is" -> Bool(v = b)
       [] m = "hasOwn" -> Bool(Own(v, Key(b)) # Absent)
       [] m \in {"freeze", "seal", "preventExtensions", "setPrototypeOf"} -> v
       [] m = "isExtensible" -> Bool(IsObject(v)) [] m \in {"isFrozen", "isSealed"} -> Bool(~IsObject(v))
       [] m \in {"keys", "getOwnPropertyNames"} -> Array([i \in DOMAIN ns |-> Str(ns[i])])
       [] m = "values" -> Array(Values(v))
       [] m = "entries" -> Array([i \in DOMAIN ns |-> EntryOf(Str(ns[i]), Own(v, ns[i]))])
       [] m = "fromEntries" -> IF Iterated(v) = No THEN No ELSE Record(FromPairs(Iterated(v).es))
       [] m = "assign" -> IF v.k # "object" THEN No ELSE Record(FoldLeft(LAMBDA acc, w : Merged(acc, OwnPairs(w)), v.ps, Tail(as)))
       [] m = "create" -> Record(DescribedValues(b))
       [] m = "defineProperty" -> Record(Defined(v.ps, Key(b), Read(as[3], "value")))
       [] m = "defineProperties" -> Record(Merged(v.ps, DescribedValues(b)))
       [] m = "groupBy" -> IF grouped = No THEN No ELSE Record(FromPairs(grouped.es))
       [] m = "getOwnPropertyDescriptor" -> Descriptor(v, Key(b))
       [] m = "getOwnPropertyDescriptors" -> Record([i \in DOMAIN ns |-> <<ns[i], Descriptor(v, ns[i])>>])
       [] OTHER -> No
NumberTest(m, n) == IF m = "isNaN" THEN n = NaN ELSE IsFinite(n)
Joined2(bs) == FlattenSeq([i \in DOMAIN bs |-> bs[i].bs])
BufferCall(m, as) ==
  LET v == Arg(as, 1)
      b == Arg(as, 2)
      bytes == Joined2(v.es)
      size == IF b.k = "undefined" THEN Len(bytes) ELSE Whole(Number(b))
  IN CASE m = "from" -> IF v.k = "array" THEN Bytes([i \in DOMAIN v.es |-> Byte(Whole(Number(v.es[i])))])
                        ELSE IF EncodingOf(b) = "" THEN No ELSE Decoded(v.s, EncodingOf(b))
       [] m = "alloc" -> IF Whole(v) < 0 THEN No ELSE Bytes([i \in 1 .. Whole(v) |-> IF b.k = "undefined" THEN 0 ELSE Byte(Whole(Number(b)))])
       [] m = "concat" -> IF size < 0 THEN No ELSE Bytes([i \in 1 .. size |-> IF i <= Len(bytes) THEN bytes[i] ELSE 0])
       [] m = "compare" -> Num(Order(v, b))
       [] m = "isBuffer" -> Bool(v.k = "buffer")
       [] m = "isEncoding" -> Bool(Lower(Text(v)) \in Encodings)
       [] m = "byteLength" -> IF v.k = "buffer" THEN Num(Len(v.bs)) ELSE Num(Len(Decoded(v.s, EncodingOf(b)).bs))
       [] m = "transcode" -> LET text == Encoded(v, "utf8").s
                                 raw == IF EncodingOf(b) = "hex" THEN Decoded(text, "hex") ELSE v
                             IN  IF EncodingOf(as[3]) = "hex" THEN Decoded(Encoded(raw, "hex").s, "utf8") ELSE raw
       [] OTHER -> No
StaticCall(owner, m, as) ==    \* owner.m(as); No throws
  LET v == Arg(as, 1)
      b == Arg(as, 2)
      n == Number(v)
      numbers == [i \in DOMAIN as |-> Number(as[i])]
      raws == Read(v, "raw")
      substituted(i) == IF i + 1 <= Len(as) THEN Text(as[i + 1]) ELSE ""
  IN CASE owner = "Object" -> ObjectCall(m, as)
       [] owner = "Reflect" -> (CASE m = "get" -> Read(v, Key(b)) [] m = "has" -> Bool(Own(v, Key(b)) # Absent \/ (Key(b) = "length" /\ v.k = "buffer"))
                                  [] m = "ownKeys" -> ObjectCall("keys", as) [] OTHER -> ObjectCall(m, as))
       [] owner = "Array" -> (CASE m = "of" -> Array(as) [] m = "isArray" -> Bool(v.k = "array") [] OTHER -> Iterated(v))
       [] owner = "Map" -> LET g == Grouped(Iterated(v).es, b) IN IF g = No THEN No ELSE Items("map", g.es)
       [] owner = "JSON" -> IF m = "stringify" THEN (IF v.k \in {"undefined", "closure"} THEN Undef ELSE Str(Json(v)))
                             ELSE IF HostJson(Text(v)) = No THEN No ELSE CHOOSE w \in Run(HostJson(Text(v)), <<>>) : TRUE
       [] owner = "Math" -> IF \A i \in DOMAIN as : IsFinite(numbers[i]) THEN HostMath(m, [i \in DOMAIN as |-> Whole(numbers[i])]) ELSE NaN
       [] owner = "Number" /\ m \in {"parseInt", "parseFloat"} -> HostParse(m, Text(v), Place(b))
       [] owner = "Number" -> Bool(IsNumber(v) /\ NumberTest(m, v))
       [] owner = "String" /\ m = "raw" ->
            IF raws.k # "array" THEN No
            ELSE Str(Concat([i \in DOMAIN raws.es |-> (IF i = 1 THEN "" ELSE substituted(i - 1)) \o Text(raws.es[i])]))
       [] owner = "String" -> Str(Concat([i \in DOMAIN as |-> IF Whole(numbers[i]) \in DOMAIN Alphabet THEN Alphabet[Whole(numbers[i])] ELSE NonAscii]))
       [] owner = "Date" -> IF m = "parse" THEN HostTime(Text(v)) ELSE UtcTime([i \in DOMAIN as |-> Whole(numbers[i])])
       [] owner = "RegExp" -> Str(EscapedPattern(Text(v)))
       [] owner = "URL" -> Bool(HostUrl(Text(v), b) # No)
       [] owner = "Buffer" -> BufferCall(m, as)
       [] owner \in {"path", "node:path"} -> Str(HostPath(m, [i \in DOMAIN as |-> as[i].s]))
       [] owner \in {"querystring", "node:querystring"} -> HostUri(IF m = "escape" THEN "encodeURIComponent" ELSE "decodeURIComponent", Text(v))
       [] owner = "buffer" -> BufferCall(m, as)
       [] OTHER -> No
GlobalCall(name, as) ==
  LET v == Arg(as, 1)
  IN CASE name = "Boolean" -> Bool(Truth(v))
       [] name = "String" -> IF as = <<>> THEN Str("") ELSE Str(Text(v))
       [] name = "Number" -> IF as = <<>> THEN Num(0) ELSE IF v.k = "big" THEN Num(v.n) ELSE Number(v)
       [] name = "BigInt" -> IF v.k = "big" THEN v ELSE LET n == Number(v) IN IF n.k = "num" THEN Big(n.n) ELSE No
       [] name \in {"parseInt", "parseFloat"} -> HostParse(name, Text(v), Place(Arg(as, 2)))
       [] name \in {"isNaN", "isFinite"} -> Bool(NumberTest(name, Number(v)))
       [] name \in UriNames -> HostUri(name, Text(v))
       [] name = "btoa" -> Str(Text(v) \o "=") [] name = "atob" -> Str(Before(Text(v), "="))
       [] name = "RegExp" -> IF v.k = "regexpvalue" THEN v ELSE RegExpOf(IF as = <<>> THEN "" ELSE Text(v), IF Len(as) < 2 THEN "" ELSE Text(as[2]))
       [] OTHER -> No
Construct(name, as) ==
  LET v == Arg(as, 1)
      from == IF v.k \in {"null", "undefined"} THEN Array(<<>>) ELSE Iterated(v)
      size == IF Arg(as, 3).k = "undefined" THEN v.n - Integer(Place(Arg(as, 2)), 0) ELSE Whole(as[3])
  IN CASE name = "Set" -> IF from = No THEN No ELSE Items("set", Unique(from.es))
       [] name = "Map" -> IF from = No THEN No ELSE IF \E i \in DOMAIN from.es : from.es[i].k # "array" THEN No ELSE Items("map", MapEntries(from.es))
       [] name = "URLSearchParams" -> Params(IF v.k = "undefined" THEN "" ELSE Text(v))
       [] name = "URL" -> HostUrl(Text(v), Arg(as, 2))
       [] name = "RegExp" -> GlobalCall(name, as)
       [] name = "Date" -> LET t == IF v.k = "str" THEN HostTime(v.s) ELSE Number(v) IN IF IsFinite(t) THEN DateValue(Whole(t)) ELSE No
       [] name = "ArrayBuffer" -> IF Integer(Place(v), 0) < 0 THEN No ELSE RawBuffer(Integer(Place(v), 0))
       [] name = "DataView" -> IF Integer(Place(Arg(as, 2)), 0) < 0 \/ size < 0 \/ Integer(Place(Arg(as, 2)), 0) + size > v.n THEN No
                               ELSE View(v.n, Integer(Place(Arg(as, 2)), 0), size)
       [] name = "TextEncoder" -> [k |-> "encoder"]
       [] name = "TextDecoder" -> IF v.k = "undefined" \/ Lower(Text(v)) \in {"utf8", "utf-8"} THEN [k |-> "decoder"] ELSE No
       [] OTHER -> No

(* ------------------------------- expressions ----------------------------- *)

Tuples(ss) == FoldLeft(LAMBDA ts, S : {Append(t, v) : t \in ts, v \in S}, {<<>>}, ss)
Some(vs) == vs \ {No}
TypeValues(t) ==               \* the values of a declared type; TOpen has any text
  LET RECURSIVE of(_)
      of(u) == CASE u.k = "lit" -> {Str(Text(v)) : v \in Run(u.x, <<>>)}
                 [] u.k = "union" -> UNION {of(u.ts[i]) : i \in DOMAIN u.ts}
                 [] u.k = "template" -> FoldLeft(LAMBDA ts, s : {Str(a.s \o b.s \o s.s) : a \in ts, b \in of(s.t)}, {Str(u.s)}, u.spans)
                 [] u.k = "keyof" -> UNION {{Str(OwnNames(v)[i]) : i \in DOMAIN OwnNames(v)} : v \in Run(u.x, <<>>)}
                 [] u.k = "enum" -> UNION {Run(u.members[n], <<>>) : n \in DOMAIN u.members}
                 [] OTHER -> {Str(Fresh), Str("")}
  IN  of(t)
Sum(a, b) ==
  IF IsObject(a) \/ IsObject(b) \/ a.k = "str" \/ b.k = "str" THEN Str(Text(a) \o Text(b)) ELSE Arith("+", Number(a), Number(b))
Operate(op, a, b) ==
  CASE op = "+" -> Sum(a, b) [] op \in {"===", "=="} -> Bool(a = b) [] op \in {"!==", "!="} -> Bool(a # b) [] OTHER -> Arith(op, Number(a), Number(b))
Unary(op, v) ==
  CASE op = "!" -> Bool(~Truth(v)) [] op = "-" /\ v.k = "big" -> Big(-v.n) [] op = "-" -> Negate(Number(v)) [] op = "+" -> Number(v) [] OTHER -> No
Prototype == Get(Global("Object"), "prototype")
PrototypeMethod(m, as) ==      \* Object.prototype.m.call(as)
  CASE m = "toString" -> Str("[object " \o TagOf(Arg(as, 1)) \o "]") [] m = "valueOf" -> Arg(as, 1)
    [] OTHER -> OwnMethod(m, as[1], Key(Arg(as, 2)))
Functions(mod) == mod \in {"path", "node:path", "querystring", "node:querystring"}
Function(f, as) ==             \* a call of a function value
  CASE f.k = "closure" -> Apply(f, as) [] f = Global("require") -> Import(as[1].s, "*") [] f.k = "global" -> GlobalCall(f.name, as)
    [] f.k = "import" -> StaticCall(f.mod, f.name, as) [] OTHER -> No
MethodCall(v, m, as) ==
  CASE v.k = "global" -> StaticCall(v.name, m, as) [] v.k = "import" -> StaticCall(v.mod, m, as) [] OTHER -> Invoke(v, m, as)
ObjectLiteral(ps, vs) ==       \* vs: the value of each property
  Record(Merged(<<>>, FlattenSeq([i \in DOMAIN ps |-> IF ps[i].p = "spread" THEN OwnPairs(vs[i]) ELSE << <<ps[i].name, vs[i]>> >>])))
RunAll(xs, env) ==             \* the values of arguments or elements, spreads and holes included
  LET one(x) == CASE x.k = "hole" -> {<<Absent>>} [] x.k = "spread" -> {Iterated(v).es : v \in {w \in Run(x.x, env) : Iterated(w) # No}}
                  [] OTHER -> {<<v>> : v \in Run(x, env)}
  IN  {FlattenSeq(t) : t \in Tuples([i \in DOMAIN xs |-> one(xs[i])])}
RunCall(x, env) ==
  LET f == IF x.f.k = "paren" THEN x.f.x ELSE x.f
      args == RunAll(x.as, env)
  IN  IF f.k # "get" THEN Some({Function(g, as) : g \in Run(f, env), as \in args})
      ELSE IF f.name = "call" /\ f.x.k = "get" THEN Some({PrototypeMethod(f.x.name, as) : as \in args})
      ELSE Some({MethodCall(v, f.name, as) : v \in Run(f.x, env), as \in args})
RunOperator(x, env) ==
  LET left == Run(x.x, env)
      stays(v) == CASE x.op = "||" -> Truth(v) [] x.op = "&&" -> ~Truth(v) [] OTHER -> v.k \notin {"null", "undefined"}
  IN  IF x.op \in {"||", "&&", "??"} THEN {v \in left : stays(v)} \union (IF \E v \in left : ~stays(v) THEN Run(x.y, env) ELSE {})
      ELSE {Operate(x.op, a, b) : a \in left, b \in Run(x.y, env)}
Run(x, env) ==
  CASE x.k \in {"str", "num", "big", "bool", "null", "undefined"} -> {x}
    [] x.k = "global" -> {IF x.name = "__filename" THEN Str(FileName) ELSE IF x.name = "__dirname" THEN Str(Directory(FileName))
                          ELSE IF x.name = "NaN" THEN NaN ELSE x}
    [] x.k = "import" -> {IF x.name \in {"default", "*"} \/ Functions(x.mod) \/ x.name = "transcode" THEN x ELSE Global(x.name)}
    [] x.k = "pattern" -> Some({RegExpOf(x.s, x.flags)})
    [] x.k = "fn" -> {Closure(x, env)}
    [] x.k = "param" -> {env[x.name]}
    [] x.k \in {"let", "effect"} -> {Str(Fresh), Str("")}
    [] x.k \in {"const", "paren"} -> Run(x.x, env)
    [] x.k = "void" -> {Undef : v \in Run(x.x, env)}
    [] x.k = "un" -> Some({Unary(x.op, v) : v \in Run(x.x, env)})
    [] x.k = "bin" -> RunOperator(x, env)
    [] x.k = "cond" -> UNION {Run(IF Truth(c) THEN x.x ELSE x.y, env) : c \in Run(x.c, env)}
    [] x.k \in {"template", "raw"} ->
         {Str(x.s \o Concat([i \in DOMAIN t |-> Text(t[i]) \o x.spans[i].s])) : t \in Tuples([i \in DOMAIN x.spans |-> Run(x.spans[i].x, env)])}
    [] x.k = "arr" -> {Array(es) : es \in RunAll(x.es, env)}
    [] x.k = "obj" -> {ObjectLiteral(x.ps, vs) : vs \in Tuples([i \in DOMAIN x.ps |-> IF x.ps[i].p \in {"prop", "spread"} THEN Run(x.ps[i].x, env)
                                                                                      ELSE {Closure(Fn, env)}])}
    [] x.k = "enum" -> {Record(SetToSeq({<<n, CHOOSE v \in Run(x.members[n], env) : TRUE>> : n \in DOMAIN x.members}))}
    [] x.k = "typed" -> TypeValues(x.t)
    [] x.k = "get" -> Some({IF v.k = "import" THEN Global(x.name) ELSE Read(v, x.name) : v \in Run(x.x, env)})
    [] x.k = "at" -> Some({Read(v, Key(i)) : v \in Run(x.x, env), i \in Run(x.y, env)})
    [] x.k = "call" -> RunCall(x, env)
    [] x.k = "new" -> Some({Construct(f.name, as) : f \in Run(x.f, env), as \in RunAll(x.as, env)})

(* The texts require() can be called with.                                 *)
Requested(x) == {v.s : v \in {w \in Run(x, <<>>) : w.k = "str"}}

===============================================================================
