-------------------------- MODULE SpecifierCollections --------------------------
(***************************************************************************)
(* The collections of module-specifiers.ts: which array or object literal  *)
(* an expression stands for, and the texts of what is asked of it.  A      *)
(* collection is rewritten as a literal whose elements are still           *)
(* expressions, so an element is resolved only when it is read.            *)
(***************************************************************************)
EXTENDS SpecifierHost

One(S) == IF Cardinality(S) = 1 THEN CHOOSE v \in S : TRUE ELSE No
ArrOf(es) == Arr(0, es)
ObjOf(ps) == Obj(0, ps)
IsArr(v) == v.k = "arr"
Dense(v) == IsArr(v) /\ \A i \in DOMAIN v.es : v.es[i].k \notin {"spread", "hole"}
DenseOf(x) == LET v == CollectionOf(x) IN IF Dense(v) THEN v ELSE No
Position(as, i, default) ==    \* an optional integer of one alternative
  LET v == One(Operand("int?", as, i)) IN IF ~Known(v) THEN No ELSE Num(IF v.k = "undefined" THEN default ELSE Whole(v))
Positions(ps) == \A i \in DOMAIN ps : Known(ps[i])
NullishSource(x) == Bare(x).k = "null" \/ StaticUndefined(x)

(* ---------------------- callbacks, by substitution ---------------------- *)

Bound(params, xs) ==           \* the named parameters among the first
  LET at == {i \in DOMAIN params : i <= Len(xs) /\ params[i] # Pattern}
  IN  [n \in {params[i] : i \in at} |-> xs[CHOOSE i \in at : params[i] = n]]
RECURSIVE Substituted(_, _), BooleanResult(_), FlattenDepth(_, _), JsonTexts(_)
Substituted(x, env) ==         \* substituteStaticCallbackExpression; No where it gives up
  LET a == Substituted(x.x, env)
      b == Substituted(x.y, env)
      es == [i \in DOMAIN x.es |-> Substituted(x.es[i], env)]
  IN CASE x.k = "param" -> IF x.name \in DOMAIN env THEN env[x.name] ELSE x
       [] x.k \in {"paren", "un"} -> IF Known(a) THEN [x EXCEPT !.x = a] ELSE No
       [] x.k = "bin" -> IF Known(a) /\ Known(b) THEN [x EXCEPT !.x = a, !.y = b] ELSE No
       [] x.k = "arr" -> IF Dense(x) /\ \A i \in DOMAIN es : Known(es[i]) THEN ArrOf(es) ELSE No
       [] OTHER -> x
CallbackResult(x, xs) ==       \* the callback's value for the arguments xs
  LET u == Bare(x)
  IN  IF u.k # "fn" THEN No ELSE IF u.body.how \notin {"expr", "return"} THEN No ELSE Substituted(u.body.x, Bound(u.params, xs))
ArrayCallback(x, es, i) == CallbackResult(x, <<es[i], Num(i - 1)>>)
BooleanResult(x) ==            \* staticBooleanResult: equality is that of the only texts
  LET u == Bare(x)
      inner == BooleanResult(u.x)
      l == One(Texts(u.x))
      r == One(Texts(u.y))
  IN CASE u.k = "bool" -> u
       [] u.k = "un" /\ u.op = "!" -> IF Known(inner) THEN Bool(~inner.b) ELSE No
       [] u.k = "bin" /\ u.op \in {"===", "!==", "==", "!="} ->
            IF Known(l) /\ Known(r) THEN Bool((l = r) <=> u.op \in {"===", "=="}) ELSE No
       [] OTHER -> No
Keeps(x, es, i) == LET r == ArrayCallback(x, es, i) IN IF Known(r) THEN BooleanResult(r) ELSE No

(* ------------------------ arrays made from an array --------------------- *)

AllKnown(es) == IF \A i \in DOMAIN es : Known(es[i]) THEN ArrOf(es) ELSE No
FlattenDepth(es, depth) ==     \* flattenStaticArrayDepth: a literal, or No
  LET value(x) == CollectionOf(x)
      part(x) == IF ~IsArr(value(x)) THEN ArrOf(<<x>>) ELSE IF Dense(value(x)) THEN FlattenDepth(value(x).es, depth - 1) ELSE No
      parts == [i \in DOMAIN es |-> part(es[i])]
  IN  IF depth <= 0 THEN ArrOf(es)
      ELSE IF \A i \in DOMAIN es : Known(parts[i]) THEN ArrOf(FlattenSeq([i \in DOMAIN es |-> parts[i].es])) ELSE No
SortTexts(x) ==                \* resolveStaticDefaultSortText
  LET v == DenseOf(x)
      part(y) == IF StaticUndefined(y) \/ y.k = "null" THEN {Str("")} ELSE Texts(y)
  IN  IF Texts(x) # {} THEN Texts(x) ELSE IF ~Known(v) THEN {}
      ELSE {Str(Glue([i \in DOMAIN t |-> t[i].s], ",")) : t \in Combinations([i \in DOMAIN v.es |-> part(v.es[i])])}
SortedCopy(es) ==              \* stable, by the text of each element
  LET key == [i \in DOMAIN es |-> One(SortTexts(es[i]))]
      before(i, j) == TextLess(key[i].s, key[j].s) \/ (key[i] = key[j] /\ i < j)
      order == SortSeq([i \in DOMAIN es |-> i], before)
  IN  IF \A i \in DOMAIN es : Known(key[i]) THEN ArrOf([i \in DOMAIN es |-> es[order[i]]]) ELSE No
FlatCopy(es, as) == LET d == Position(as, 1, 1) IN IF Len(as) <= 1 /\ Known(d) THEN FlattenDepth(es, d.n) ELSE No
MapCopy(es, x) == AllKnown([i \in DOMAIN es |-> ArrayCallback(x, es, i)])
FilterCopy(es, x) ==
  LET keeps == [i \in DOMAIN es |-> Keeps(x, es, i)]
      at == SelectSeq([i \in DOMAIN es |-> i], LAMBDA i : keeps[i].b)
  IN  IF \A i \in DOMAIN es : Known(keeps[i]) THEN ArrOf([i \in DOMAIN at |-> es[at[i]]]) ELSE No
FillCopy(es, as) ==
  LET s == Position(as, 2, 0)
      e == Position(as, 3, Len(es))
      lo == From(s.n, Len(es))
      hi == From(e.n, Len(es))
  IN  IF Len(as) \in 1 .. 3 /\ Positions(<<s, e>>) THEN ArrOf([i \in DOMAIN es |-> IF lo < i /\ i <= hi THEN as[1] ELSE es[i]]) ELSE No
CopyWithinCopy(es, as) ==
  LET len == Len(es)
      t == One(IntegerKeys(as[1]))
      s == One(IntegerKeys(as[2]))
      e == Position(as, 3, len)
      to == From(Whole(t), len)
      lo == From(Whole(s), len)
      n == Clamp(From(e.n, len) - lo, 0, len - to)
  IN  IF Len(as) \in 2 .. 3 /\ Positions(<<t, s, e>>)
      THEN ArrOf([i \in DOMAIN es |-> IF to < i /\ i <= to + n THEN es[lo + i - to] ELSE es[i]]) ELSE No
SpliceRange(es, as) ==         \* where the removed elements start and end; No when not known
  LET s == Position(as, 1, 0)
      lo == From(Whole(s), Len(es))
      n == IF Len(as) = 1 THEN Num(Len(es) - lo) ELSE Position(as, 2, 0)
  IN  IF Positions(<<s, n>>) THEN [k |-> "range", lo |-> lo, hi |-> lo + Clamp(Whole(n), 0, Len(es) - lo)] ELSE No
SpliceCopy(es, as) ==
  LET r == SpliceRange(es, as)
  IN CASE \E i \in 3 .. Len(as) : Texts(as[i]) = {} -> No
       [] as = <<>> -> ArrOf(<<>>)
       [] OTHER -> IF Known(r) THEN ArrOf(SubSeq(es, r.lo + 1, r.hi)) ELSE No
ToSplicedCopy(es, as) ==
  LET r == SpliceRange(es, as)
  IN  IF as = <<>> THEN ArrOf(es) ELSE IF ~Known(r) THEN No
      ELSE ArrOf(SubSeq(es, 1, r.lo) \o SubSeq(as, 3, Len(as)) \o SubSeq(es, r.hi + 1, Len(es)))
WithCopy(es, as) ==
  LET v == One(IntegerKeys(as[1]))
      at == IF Whole(v) < 0 THEN Len(es) + Whole(v) ELSE Whole(v)
  IN  IF Len(as) # 2 THEN No ELSE IF Known(v) /\ at \in 0 .. Len(es) - 1 THEN ArrOf([es EXCEPT ![at + 1] = as[2]]) ELSE No
SliceCopy(es, as) ==
  LET s == Position(as, 1, 0)
      e == Position(as, 2, Len(es))
  IN  IF Len(as) <= 2 /\ Positions(<<s, e>>) THEN ArrOf(SubSeq(es, From(s.n, Len(es)) + 1, From(e.n, Len(es)))) ELSE No
ConcatCopy(es, as) ==
  LET value(x) == CollectionOf(x)
      part(x) == IF ~IsArr(value(x)) THEN <<x>> ELSE value(x).es
  IN  IF \E i \in DOMAIN as : IsArr(value(as[i])) /\ ~Dense(value(as[i])) THEN No
      ELSE ArrOf(es \o FlattenSeq([i \in DOMAIN as |-> part(as[i])]))
CopyMethods == {"slice", "concat", "copyWithin", "fill", "filter", "flat", "flatMap", "map", "reverse", "sort", "splice",
                "toReversed", "toSorted", "with", "toSpliced"}
ArrayCopy(u) ==                \* resolveStaticArrayCopyCollectionExpression
  LET m == Callee(u).name
      v == DenseOf(Receiver(u))
      n == Len(u.as)
      mapped == MapCopy(v.es, u.as[1])
  IN  IF ~CallsMethod(u, CopyMethods, 0, Many) THEN No ELSE IF ~Known(v) THEN No
      ELSE CASE m \in {"toReversed", "reverse"} -> IF n = 0 THEN ArrOf(Reverse(v.es)) ELSE No
             [] m \in {"toSorted", "sort"} -> IF n = 0 THEN SortedCopy(v.es) ELSE No
             [] m = "flat" -> FlatCopy(v.es, u.as)
             [] m = "map" -> IF n = 1 THEN mapped ELSE No
             [] m = "flatMap" -> IF n # 1 THEN No ELSE IF Known(mapped) THEN FlattenDepth(mapped.es, 1) ELSE No
             [] m = "filter" -> IF n = 1 THEN FilterCopy(v.es, u.as[1]) ELSE No
             [] m = "fill" -> FillCopy(v.es, u.as)
             [] m = "copyWithin" -> CopyWithinCopy(v.es, u.as)
             [] m = "splice" -> SpliceCopy(v.es, u.as)
             [] m = "with" -> WithCopy(v.es, u.as)
             [] m = "toSpliced" -> ToSplicedCopy(v.es, u.as)
             [] m = "slice" -> SliceCopy(v.es, u.as)
             [] OTHER -> ConcatCopy(v.es, u.as)

(* --------------------- texts of what an array method gives -------------- *)

ArrayMutation(u) ==            \* push, unshift: the new length; pop, shift: the element
  LET m == Callee(u).name
      v == DenseOf(Receiver(u))
      i == IF m = "pop" THEN Len(v.es) ELSE 1
  IN CASE ~CallsMethod(u, {"pop", "shift", "push", "unshift"}, 0, Many) -> {}
       [] ~Known(v) -> {}
       [] m \in {"push", "unshift"} -> IF \E j \in DOMAIN u.as : Texts(u.as[j]) = {} THEN {} ELSE {AsText(Num(Len(v.es) + Len(u.as)))}
       [] u.as # <<>> -> {}
       [] OTHER -> IF v.es = <<>> THEN {Str("undefined")} ELSE Texts(v.es[i])
SearchMethods == {"some", "every", "find", "findIndex", "findLast", "findLastIndex"}
ArraySearch(u) ==              \* a callback that is not decided before the first match gives up
  LET m == Callee(u).name
      v == DenseOf(Receiver(u))
      keeps == [i \in DOMAIN v.es |-> Keeps(u.as[1], v.es, i)]
      asked == {i \in DOMAIN v.es : ~Known(keeps[i]) \/ keeps[i].b}
      at == IF m \in {"findLast", "findLastIndex"} THEN Most(asked, 0) ELSE Least(asked, 0)
      (* every() asks again, up to the first element that fails.           *)
      failed == Least({i \in DOMAIN v.es : ~Known(keeps[i]) \/ ~keeps[i].b}, 0)
  IN CASE ~CallsMethod(u, SearchMethods, 1, 1) -> {}
       [] ~Known(v) -> {}
       [] at # 0 /\ ~Known(keeps[at]) -> {}
       [] m = "some" -> Answers(at # 0)
       [] m = "every" -> IF failed # 0 /\ ~Known(keeps[failed]) THEN {} ELSE Answers(failed = 0)
       [] m \in {"findIndex", "findLastIndex"} -> {AsText(Num(at - 1))}
       [] OTHER -> IF at = 0 THEN {Str("undefined")} ELSE Texts(v.es[at])
ArrayReduce(u) ==              \* each step must have one text
  LET v == DenseOf(Receiver(u))
      order == IF Callee(u).name = "reduceRight" THEN Reverse([i \in DOMAIN v.es |-> i]) ELSE [i \in DOMAIN v.es |-> i]
      next(acc, i) == CallbackResult(u.as[1], <<acc, v.es[i], Num(i - 1)>>)
      step(acc, i) == IF ~Known(acc) THEN No ELSE IF ~Known(next(acc, i)) THEN No
                      ELSE IF Known(One(Texts(next(acc, i)))) THEN next(acc, i) ELSE No
      last == FoldLeft(step, u.as[2], order)
  IN  IF ~CallsMethod(u, {"reduce", "reduceRight"}, 2, 2) THEN {} ELSE IF ~Known(v) THEN {}
      ELSE IF Known(last) THEN Texts(last) ELSE {}

(* -------------------------- query parameters ---------------------------- *)

IsParamsConstructor(x) == IsConstructor(x, "url", "URLSearchParams")
Constructs(u, names) ==        \* new Set(x) and its like, with at most one argument
  u.k = "new" /\ IsNamed(u.f, names) /\ Len(u.as) <= 1 /\ NoSpread(u.as)
ParamsSources(x) ==            \* resolveStaticUrlSearchParamsSourceTexts
  LET u == Bare(x)
  IN CASE StaticUndefined(x) -> {Str("")}
       [] u.k = "new" -> IF ~IsParamsConstructor(u.f) \/ Len(u.as) > 1 \/ ~NoSpread(u.as) THEN {}
                         ELSE IF StaticUndefined(Arg(u.as, 1)) THEN {Str("")} ELSE Texts(u.as[1])
       [] u.k = "get" /\ u.name = "searchParams" -> {Str(QueryText(Query(UrlRead(r, "search").s))) : r \in Urls(u.x)}
       [] OTHER -> {}
Pair(x, y) == ArrOf(<<x, y>>)
ParamsEntries(s) == LET q == Query(s) IN ArrOf([i \in DOMAIN q |-> Pair(Str(q[i][1]), Str(q[i][2]))])
FromParams(x) == LET s == One(ParamsSources(x)) IN IF Known(s) THEN ParamsEntries(s.s) ELSE No
ParamsCollection(u) ==         \* getAll, keys, values, entries
  LET m == Callee(u).name
      s == One(ParamsSources(Receiver(u)))
      name == One(Texts(u.as[1]))
      q == Query(s.s)
      all == Named(q, name.s)
  IN CASE ~CallsMethod(u, {"getAll"}, 1, 1) /\ ~CallsMethod(u, {"keys", "values", "entries"}, 0, 0) -> No
       [] ~Known(s) -> No
       [] m = "getAll" -> IF Known(name) THEN ArrOf([i \in DOMAIN all |-> Str(all[i][2])]) ELSE No
       [] m = "entries" -> ParamsEntries(s.s)
       [] OTHER -> ArrOf([i \in DOMAIN q |-> Str(q[i][IF m = "keys" THEN 1 ELSE 2])])
ParamsCall(u) ==               \* toString, get, has
  LET m == Callee(u).name
      ss == ParamsSources(Receiver(u))
      values == IF Len(u.as) = 2 THEN Texts(u.as[2]) ELSE {Undef}
      get(q, n) == IF Named(q, n) = <<>> THEN Str("null") ELSE Str(Named(q, n)[1][2])
      has(q, n, v) == \E i \in DOMAIN q : q[i][1] = n /\ (v.k = "str" => q[i][2] = v.s)
  IN CASE CallsMethod(u, {"toString"}, 0, 0) -> {Str(QueryText(Query(s.s))) : s \in ss}
       [] CallsMethod(u, {"get"}, 1, 1) -> {get(Query(s.s), n.s) : s \in ss, n \in Texts(u.as[1])}
       [] CallsMethod(u, {"has"}, 1, 2) -> {AsText(Bool(has(Query(s.s), n.s, v))) : s \in ss, n \in Texts(u.as[1]), v \in values}
       [] OTHER -> {}
ParamsSize(x) == IF x.name = "size" THEN {AsText(Num(Len(Query(s.s)))) : s \in ParamsSources(x.x)} ELSE {}

(* -------------------------- sets, maps, sources ------------------------- *)

TextElements(s) == ArrOf([i \in 1 .. Len(s) |-> Str(Unit(s, i - 1))])
OnlyTexts(es) == [i \in DOMAIN es |-> One(Texts(es[i]))]
FirstPlaces(ks) == SelectSeq([i \in DOMAIN ks |-> i], LAMBDA i : \A j \in 1 .. i - 1 : ks[j] # ks[i])
Distinct(es) ==                \* by the only text of each element; No when one has several or none
  LET ks == OnlyTexts(es)
      at == FirstPlaces(ks)
  IN  IF Positions(ks) THEN ArrOf([i \in DOMAIN at |-> es[at[i]]]) ELSE No
Keyed(es, ks) ==               \* one element for each key: the place of its first, the value of its last
  LET at == FirstPlaces(ks)
      last(i) == Most({j \in DOMAIN ks : ks[j] = ks[i]}, i)
  IN  [i \in DOMAIN at |-> es[last(at[i])]]
SetSource(as) ==               \* resolveStaticArrayFromSetSource, of the constructor's arguments
  LET v == CollectionOf(as[1])
  IN CASE as = <<>> -> ArrOf(<<>>)
       [] NullishSource(as[1]) -> ArrOf(<<>>)
       [] v.k = "str" -> Distinct(TextElements(v.s).es)
       [] OTHER -> IF Dense(v) THEN Distinct(v.es) ELSE No
EntrySource(x) ==              \* resolveStaticEntryCollectionExpression
  LET u == Bare(x)
      v == CollectionOf(x)
      mapped == CollectionOf(u.as[1])
  IN CASE IsArr(v) -> v
       [] Known(FromParams(x)) -> FromParams(x)
       [] Constructs(u, {"URLSearchParams"}) -> FromParams(Arg(u.as, 1))
       [] Constructs(u, {"Map"}) -> IF StaticUndefined(Arg(u.as, 1)) THEN ArrOf(<<>>) ELSE IF IsArr(mapped) THEN mapped ELSE No
       [] OTHER -> No
IsEntry(v) == IsArr(v) /\ Len(v.es) >= 2 /\ v.es[1].k # "spread" /\ v.es[2].k # "spread"
Entries(es) ==                 \* each element as a key and a value; No when one is no entry or its key not one text
  LET vs == [i \in DOMAIN es |-> IF es[i].k = "spread" THEN No ELSE CollectionOf(es[i])]
  IN  IF \A i \in DOMAIN es : IsEntry(vs[i]) /\ Known(One(Texts(vs[i].es[1])))
      THEN ArrOf([i \in DOMAIN es |-> Pair(vs[i].es[1], vs[i].es[2])]) ELSE No
KeyOf(entry) == One(Texts(entry.es[1]))
MapSource(as) ==               \* resolveStaticArrayFromMapSource
  LET es == EntrySource(as[1])
      v == Entries(es.es)
  IN CASE as = <<>> -> ArrOf(<<>>)
       [] NullishSource(as[1]) -> ArrOf(<<>>)
       [] ~Known(es) -> No
       [] OTHER -> IF Known(v) THEN ArrOf(Keyed(v.es, [i \in DOMAIN v.es |-> KeyOf(v.es[i])])) ELSE No
MapSetItems(u) ==              \* what keys(), values() and entries() of a new Set or Map run through
  LET m == Callee(u).name
      r == Bare(Receiver(u))
      set == SetSource(r.as)
      map == MapSource(r.as)
  IN CASE ~CallsMethod(u, {"keys", "values", "entries"}, 0, 0) -> No
       [] Constructs(r, {"Set"}) -> IF Known(set) /\ m = "entries" THEN ArrOf([i \in DOMAIN set.es |-> Pair(set.es[i], set.es[i])]) ELSE set
       [] Constructs(r, {"Map"}) -> IF Known(map) /\ m # "entries"
                                    THEN ArrOf([i \in DOMAIN map.es |-> map.es[i].es[IF m = "keys" THEN 1 ELSE 2]]) ELSE map
       [] OTHER -> No
ArrayFromSource(x) ==          \* resolveStaticArrayFromSource: what iterating x gives
  LET u == Bare(x)
      v == CollectionOf(x)
      items == IF u.k = "call" THEN MapSetItems(u) ELSE No
  IN CASE Known(items) -> items
       [] IsArr(v) -> IF Dense(v) THEN v ELSE No
       [] v.k = "str" -> TextElements(v.s)
       [] Known(FromParams(x)) -> FromParams(x)
       [] Constructs(u, {"Set"}) -> SetSource(u.as)
       [] Constructs(u, {"Map"}) -> MapSource(u.as)
       [] Constructs(u, {"URLSearchParams"}) -> FromParams(Arg(u.as, 1))
       [] OTHER -> No
Subset(m, a, b) == CASE m = "isSubsetOf" -> a \subseteq b [] m = "isSupersetOf" -> b \subseteq a [] OTHER -> a \intersect b = {}
KeySet(es) == {One(Texts(es[i])) : i \in DOMAIN es}
MapSetMethods == {"has", "get", "isSubsetOf", "isSupersetOf", "isDisjointFrom"}
MapSetCall(u) ==               \* membership of a new Set, has and get of a new Map
  LET m == Callee(u).name
      r == Bare(Receiver(u))
      set == SetSource(r.as)
      other == ArrayFromSource(u.as[1])
      map == MapSource(r.as)
      at(t) == {i \in DOMAIN map.es : KeyOf(map.es[i]) = t}
      value(t) == IF at(t) = {} THEN {Str("undefined")} ELSE Texts(map.es[Most(at(t), 0)].es[2])
  IN CASE ~CallsMethod(u, MapSetMethods, 1, 1) -> {}
       [] Constructs(r, {"Set"}) /\ m # "get" ->
            IF ~Known(set) THEN {} ELSE IF m = "has" THEN {AsText(Bool(t \in KeySet(set.es))) : t \in Texts(u.as[1])}
            ELSE IF ~Dense(other) THEN {} ELSE IF No \in KeySet(other.es) THEN {}
            ELSE Answers(Subset(m, KeySet(set.es), KeySet(other.es)))
       [] Constructs(r, {"Map"}) ->
            IF ~Known(map) THEN {} ELSE IF m = "has" THEN {AsText(Bool(at(t) # {})) : t \in Texts(u.as[1])}
            ELSE AllTexts({value(t) : t \in Texts(u.as[1])})
       [] OTHER -> {}
MapSetSize(x) ==
  LET r == Bare(x.x)
      v == IF Constructs(r, {"Set"}) THEN SetSource(r.as) ELSE IF Constructs(r, {"Map"}) THEN MapSource(r.as) ELSE No
  IN  IF x.name = "size" /\ Known(v) THEN {AsText(Num(Len(v.es)))} ELSE {}
SetComposition(u) ==           \* union, intersection, difference, symmetricDifference
  LET m == Callee(u).name
      l == ArrayFromSource(Receiver(u))
      r == ArrayFromSource(u.as[1])
      left == Keyed(l.es, OnlyTexts(l.es))
      right == Keyed(r.es, OnlyTexts(r.es))
      within(x, es) == One(Texts(x)) \in KeySet(es)
      keep(x) == CASE m = "union" -> TRUE [] m = "intersection" -> within(x, right) [] OTHER -> ~within(x, right)
      added == IF m \in {"union", "symmetricDifference"} THEN SelectSeq(right, LAMBDA x : ~within(x, left)) ELSE <<>>
  IN  IF ~CallsMethod(u, {"union", "intersection", "difference", "symmetricDifference"}, 1, 1) THEN No
      ELSE IF ~Dense(l) \/ ~Dense(r) THEN No
      ELSE IF No \in KeySet(l.es) \union KeySet(r.es) THEN No ELSE ArrOf(SelectSeq(left, keep) \o added)
MapGet(u) ==                   \* the value's expression, undefined for a missing key
  LET r == Bare(Receiver(u))
      t == One(Texts(u.as[1]))
      map == MapSource(r.as)
      at == {i \in DOMAIN map.es : KeyOf(map.es[i]) = t}
  IN  IF ~CallsMethod(u, {"get"}, 1, 1) THEN No ELSE IF ~Constructs(r, {"Map"}) THEN No
      ELSE IF ~Known(t) \/ ~Known(map) THEN No ELSE IF at = {} THEN Undef ELSE map.es[Least(at, 0)].es[2]

(* -------------------------------- objects ------------------------------- *)

AllPlain(v) == v.k = "obj" /\ \A i \in DOMAIN v.ps : Plain(v.ps[i])
WithProperty(ps, key, x) ==    \* withStaticObjectProperty: a known key keeps its place
  IF \E i \in DOMAIN ps : ps[i].name = key
  THEN [i \in DOMAIN ps |-> IF ps[i].name = key THEN Prop(key, x) ELSE ps[i]] ELSE Append(ps, Prop(key, x))
WithProperties(ps, qs) == FoldLeft(LAMBDA acc, q : WithProperty(acc, q.name, q.x), ps, qs)
ObjectWrapper(u) ==            \* Object.freeze(x) and its like give x
  IF CallsOwner(u, {"Object"}, {"freeze", "seal", "preventExtensions"}, 1, 1) \/ CallsOwner(u, {"Object"}, {"setPrototypeOf"}, 2, 2)
  THEN u.as[1] ELSE No
DescriptorKeys == {"value", "writable", "enumerable", "configurable"}
DescriptorValue(x) ==          \* resolveStaticOrdinaryDataDescriptorValue
  LET v == CollectionOf(x)
      last(key) == Most({i \in DOMAIN v.ps : v.ps[i].name = key}, 0)
      on(key) == last(key) # 0 /\ BooleanValues(v.ps[last(key)].x) = {TRUE}
  IN  IF ~AllPlain(v) THEN No ELSE IF \E i \in DOMAIN v.ps : v.ps[i].name \notin DescriptorKeys THEN No
      ELSE IF last("value") # 0 /\ on("writable") /\ on("enumerable") /\ on("configurable") THEN v.ps[last("value")].x ELSE No
DescriptorMap(x) ==            \* resolveStaticDataDescriptorMapProperties: an object of values, or No
  LET v == CollectionOf(x)
      ps == [i \in DOMAIN v.ps |-> Prop(v.ps[i].name, DescriptorValue(v.ps[i].x))]
  IN  IF ~AllPlain(v) THEN No ELSE IF \A i \in DOMAIN ps : Known(ps[i].x) THEN ObjOf(ps) ELSE No
DescriptorBuilt(u) ==          \* Object.create(null, map), defineProperty, defineProperties
  LET v == CollectionOf(u.as[1])
      key == One(Texts(u.as[2]))
      value == DescriptorValue(u.as[3])
      map == DescriptorMap(u.as[2])
  IN CASE CallsOwner(u, {"Object"}, {"create"}, 2, 2) -> IF Bare(u.as[1]).k = "null" THEN map ELSE No
       [] CallsOwner(u, {"Object"}, {"defineProperty"}, 3, 3) ->
            IF AllPlain(v) /\ Known(key) /\ Known(value) THEN ObjOf(WithProperty(v.ps, key.s, value)) ELSE No
       [] CallsOwner(u, {"Object"}, {"defineProperties"}, 2, 2) ->
            IF v.k # "obj" \/ ~Known(map) THEN No ELSE IF map.ps = <<>> THEN v
            ELSE IF AllPlain(v) THEN ObjOf(WithProperties(v.ps, map.ps)) ELSE No
       [] OTHER -> No
ObjectAssign(u) ==
  LET given == SelectSeq(u.as, LAMBDA x : ~NullishSource(x))
      vs == [i \in DOMAIN given |-> CollectionOf(given[i])]
  IN  IF ~CallsOwner(u, {"Object"}, {"assign"}, 1, Many) THEN No ELSE IF NullishSource(u.as[1]) THEN No
      ELSE IF \A i \in DOMAIN vs : AllPlain(vs[i]) THEN ObjOf(WithProperties(<<>>, FlattenSeq([i \in DOMAIN vs |-> vs[i].ps]))) ELSE No
FromEntries(u) ==              \* Object.fromEntries: a repeated key is repeated
  LET es == EntrySource(u.as[1])
      v == Entries(es.es)
  IN  IF ~CallsOwner(u, {"Object"}, {"fromEntries"}, 1, 1) THEN No ELSE IF ~Known(es) THEN No
      ELSE IF Known(v) THEN ObjOf([i \in DOMAIN v.es |-> Prop(KeyOf(v.es[i]).s, v.es[i].es[2])]) ELSE No
GroupKeys(es, x) ==            \* the only text of the callback for each element
  [i \in DOMAIN es |-> LET r == ArrayCallback(x, es, i) IN IF Known(r) THEN One(Texts(r)) ELSE No]
GroupOf(es, ks, t) == LET at == SelectSeq([i \in DOMAIN es |-> i], LAMBDA i : ks[i] = t) IN ArrOf([i \in DOMAIN at |-> es[at[i]]])
ObjectGroupBy(u) ==
  LET v == ArrayFromSource(u.as[1])
      ks == GroupKeys(v.es, u.as[2])
      at == FirstPlaces(ks)
  IN  IF ~CallsOwner(u, {"Object"}, {"groupBy"}, 2, 2) THEN No ELSE IF ~Dense(v) THEN No
      ELSE IF Positions(ks) THEN ObjOf([i \in DOMAIN at |-> Prop(ks[at[i]].s, GroupOf(v.es, ks, ks[at[i]]))]) ELSE No
MapGroupBy(u) ==
  LET v == ArrayFromSource(u.as[1])
      ks == GroupKeys(v.es, u.as[2])
      at == FirstPlaces(ks)
  IN  IF ~CallsOwner(u, {"Map"}, {"groupBy"}, 2, 2) THEN No ELSE IF ~Dense(v) THEN No
      ELSE IF Positions(ks) THEN ArrOf([i \in DOMAIN at |-> Pair(ks[at[i]], GroupOf(v.es, ks, ks[at[i]]))]) ELSE No
ObjectEntries(u) ==
  LET v == CollectionOf(u.as[1])
  IN  IF ~CallsOwner(u, {"Object"}, {"entries"}, 1, 1) THEN No
      ELSE IF AllPlain(v) THEN ArrOf([i \in DOMAIN v.ps |-> Pair(Str(v.ps[i].name), v.ps[i].x)]) ELSE No
BufferJson(u) ==               \* buffer.toJSON()
  LET b == One(JsonBuffers(u))
  IN  IF Known(b) THEN ObjOf(<<Prop("type", Str("Buffer")), Prop("data", ArrOf([i \in DOMAIN b.bs |-> Num(b.bs[i])]))>>) ELSE No
JsonParse(u) ==
  LET t == One(Texts(u.as[1])) IN IF CallsOwner(u, {"JSON"}, {"parse"}, 1, 1) /\ Known(t) THEN HostJson(t.s) ELSE No
ValueOfReceiver(u) == IF CallsPrototype(u, {"valueOf"}, 1) THEN u.as[1] ELSE No

(* ------------------------- matches and parts of texts ------------------- *)

PatternOf(x, flags) ==         \* a regexp, or a text made into one
  LET rs == RegExps(x)
      t == One(Texts(x))
  IN  IF rs # {} THEN One(rs) ELSE IF Known(t) THEN RegExpOf(t.s, flags) ELSE No
MatchTexts(r, s) ==            \* the texts of the matches, left to right; patterns have no groups
  LET at == SetToSortSeq(Matches(r, s), <) IN [i \in DOMAIN at |-> Str(SubSeq(s, at[i] + 1, at[i] + Len(r.s)))]
MatchCollection(u) ==          \* regexp.exec(text), text.match(pattern)
  LET m == Callee(u).name
      r == IF m = "exec" THEN One(RegExps(Receiver(u))) ELSE PatternOf(u.as[1], "")
      t == One(Texts(IF m = "exec" THEN u.as[1] ELSE Receiver(u)))
      found == MatchTexts(r, t.s)
  IN  IF ~CallsMethod(u, {"exec", "match"}, 1, 1) THEN No ELSE IF ~Known(t) \/ ~Known(r) THEN No
      ELSE IF found = <<>> THEN No ELSE ArrOf(IF m = "match" /\ HasFlag(r, "g") THEN found ELSE SubSeq(found, 1, 1))
MatchAllCollection(u) ==
  LET r == PatternOf(u.as[1], "g")
      t == One(Texts(Receiver(u)))
      found == MatchTexts(r, t.s)
  IN  IF ~CallsMethod(u, {"matchAll"}, 1, 1) THEN No ELSE IF ~Known(t) \/ ~Known(r) THEN No
      ELSE IF HasFlag(r, "g") THEN ArrOf([i \in DOMAIN found |-> ArrOf(<<found[i]>>)]) ELSE No
SplitCollection(u) ==          \* one text, one separator, one limit
  LET separators == FirstSome(<<IF StaticUndefined(Arg(u.as, 1)) THEN {Undef} ELSE {}, RegExps(Arg(u.as, 1)), Texts(Arg(u.as, 1))>>)
      parts == One(SplitParts(u))
  IN  IF ~CallsMethod(u, {"split"}, 0, 2) THEN No
      ELSE IF Positions(<<One(Texts(Receiver(u))), One(separators), One(Operand("int?", u.as, 2))>>) /\ SplitParts(u) # {}
      THEN ArrOf([i \in DOMAIN parts |-> Str(parts[i])]) ELSE No

(* --------------------- the literal an expression stands for ------------- *)

FlattenArray(v) ==             \* flattenArrayLiteral
  LET spread == [i \in DOMAIN v.es |-> IF v.es[i].k = "spread" THEN CollectionOf(v.es[i].x) ELSE ArrOf(<<v.es[i]>>)]
  IN  IF \A i \in DOMAIN v.es : IsArr(spread[i]) /\ NoSpread(spread[i].es)
      THEN ArrOf(FlattenSeq([i \in DOMAIN v.es |-> spread[i].es])) ELSE No
FlattenObject(v) ==            \* flattenObjectLiteral
  LET given == SelectSeq(v.ps, LAMBDA p : ~(IsSpreadProp(p) /\ NullishSource(p.x)))
      part == [i \in DOMAIN given |-> IF IsSpreadProp(given[i]) THEN CollectionOf(given[i].x) ELSE ObjOf(<<given[i]>>)]
  IN  IF \A i \in DOMAIN v.ps : ~IsSpreadProp(v.ps[i]) THEN v
      ELSE IF \A i \in DOMAIN part : AllPlain(part[i]) THEN ObjOf(WithProperties(<<>>, FlattenSeq([i \in DOMAIN part |-> part[i].ps]))) ELSE No
FirstKnown(ss) ==
  LET at == {i \in DOMAIN ss : Known(ss[i])} IN IF at = {} THEN No ELSE ss[Least(at, 0)]
CallCollection(u) ==           \* the recognizers of a call, in their order
  FirstKnown(<<ArrayCopy(u), IF CallsOwner(u, {"Array"}, {"of"}, 0, Many) THEN ArrOf(u.as) ELSE No,
               IF CallsOwner(u, {"Array"}, {"from"}, 1, 1) THEN ArrayFromSource(u.as[1]) ELSE No,
               ObjectWrapper(u), DescriptorBuilt(u), ObjectAssign(u), ObjectGroupBy(u), MapGroupBy(u), SetComposition(u), MapGet(u),
               ObjectEntries(u), FromEntries(u), ParamsCollection(u), BufferJson(u), JsonParse(u), MatchCollection(u),
               MatchAllCollection(u), SplitCollection(u), ValueOfReceiver(u)>>)
Identifiers == {"let", "param", "typed", "enum", "import", "global", "undefined"}
PropertyOf(v, key) == LET p == IF v.k = "obj" THEN FirstProperty([v EXCEPT !.ps = SelectSeq(@, Plain)], key, {"prop"}) ELSE Undef
                      IN  IF p = Undef THEN No ELSE p.x
CollectionExpression(x) ==     \* resolveCollectionExpression
  LET u == Bare(x)
      v == CollectionOf(u.x)
      key == One(Texts(u.y))
      made == CallCollection(u)
      own == IF u.k = "get" THEN PropertyOf(v, u.name) ELSE IF IsArr(v) THEN ElementAt(v, key.s) ELSE PropertyOf(v, key.s)
  IN CASE u.k = "const" -> CollectionOf(u.x)
       [] u.k \in Identifiers -> No
       [] u.k = "call" -> IF Known(made) THEN CollectionOf(made) ELSE u
       [] u.k = "at" /\ (~Known(v) \/ ~Known(key)) -> No
       [] u.k \in {"get", "at"} -> IF Known(own) THEN CollectionOf(own) ELSE u
       [] u.k = "arr" -> FlattenArray(u)
       [] u.k = "obj" -> FlattenObject(u)
       [] OTHER -> u

(* ------------------------------ reading them ----------------------------- *)

ElementTexts(v) == [i \in DOMAIN v.es |-> IF v.es[i].k \in {"spread", "hole"} THEN {} ELSE Texts(v.es[i])]
Selected(slots, keys) ==       \* the texts at the numeric keys, none when one is out of range
  IF \E n \in keys : Whole(n) >= Len(slots) THEN {} ELSE UNION {slots[Whole(n) + 1] : n \in keys}
ArrayAccess(v, ks, keys) ==    \* resolveStaticArrayAccess: keys it cannot read select every element
  LET slots == ElementTexts(v)
  IN  IF ks = {Str("length")} THEN {AsText(Num(Len(v.es)))}
      ELSE IF \E i \in DOMAIN slots : slots[i] = {} THEN {}
      ELSE IF keys = {} THEN UNION {slots[i] : i \in DOMAIN slots} ELSE Selected(slots, keys)
ObjectAccess(v, ks) ==         \* resolveStaticObjectAccess
  LET last(key) == Most({i \in DOMAIN v.ps : v.ps[i].name = key}, 0)
  IN  IF ~AllPlain(v) \/ ks = {} THEN {}
      ELSE IF \E i \in DOMAIN v.ps : Texts(v.ps[i].x) = {} THEN {}
      ELSE IF \E t \in ks : last(t.s) = 0 THEN {} ELSE UNION {Texts(v.ps[last(t.s)].x) : t \in ks}
CollectionAccess(x) ==         \* of a property or an element
  LET v == CollectionOf(x.x)
      ks == IF x.k = "get" THEN {Str(x.name)} ELSE Texts(x.y)
  IN CASE v.k = "arr" -> ArrayAccess(v, ks, IF x.k = "get" THEN {} ELSE NumericKeys(x.y))
       [] v.k = "obj" -> ObjectAccess(v, ks)
       [] OTHER -> {}
EnumTexts(m) ==                \* enumMemberStringValues: each member's only text; No when one has several or none
  LET ts == [n \in DOMAIN m |-> One(Texts(m[n]))] IN IF \A n \in DOMAIN m : Known(ts[n]) THEN [k |-> "members", ts |-> ts] ELSE No
EnumAccess(x) ==
  LET e == Bare(x.x)
      ks == IF x.k = "get" THEN {Str(x.name)} ELSE Texts(x.y)
      m == EnumTexts(e.members)
  IN  IF e.k # "enum" THEN {} ELSE IF ~Known(m) THEN {}
      ELSE IF \E t \in ks : t.s \notin DOMAIN m.ts THEN {} ELSE {m.ts[t.s] : t \in ks}
OwnSlots(x, names) ==          \* the texts of the own keys, or of the own values, in order; No when not known
  LET v == CollectionOf(x)
      slots == IF IsArr(v) THEN ElementTexts(v) ELSE [i \in DOMAIN v.ps |-> IF Plain(v.ps[i]) THEN Texts(v.ps[i].x) ELSE {}]
  IN CASE Dense(v) /\ names -> [k |-> "slots", ss |-> [i \in DOMAIN v.es |-> {AsText(Num(i - 1))}]]
       [] v.k = "obj" /\ names -> IF \E i \in DOMAIN v.ps : IsSpreadProp(v.ps[i]) THEN No
                                  ELSE [k |-> "slots", ss |-> [i \in DOMAIN v.ps |-> {Str(v.ps[i].name)}]]
       [] v.k \in {"arr", "obj"} -> IF \E i \in DOMAIN slots : slots[i] = {} THEN No ELSE [k |-> "slots", ss |-> slots]
       [] OTHER -> No
OwnAt(x, names, keys) ==       \* the keys or values of x at the numeric keys
  LET bs == BuffersOf(x)
      slots == OwnSlots(x, names)
  IN CASE bs # {} -> IF \E b \in bs, n \in keys : Whole(n) >= Len(b.bs) THEN {}
                     ELSE {AsText(Num(IF names THEN Whole(n) ELSE b.bs[Whole(n) + 1])) : b \in bs, n \in keys}
       [] ~Known(slots) -> {}
       [] OTHER -> Selected(slots.ss, keys)
KeysValuesAccess(x) ==         \* Object.keys(y)[i], Object.values(y)[i] and their like
  LET u == Bare(x.x)
      keys == NumericKeys(x.y)
  IN CASE keys = {} -> {}
       [] CallsOwner(u, {"Object"}, {"keys", "getOwnPropertyNames"}, 1, 1) \/ CallsOwner(u, {"Reflect"}, {"ownKeys"}, 1, 1) ->
            OwnAt(u.as[1], TRUE, keys)
       [] CallsOwner(u, {"Object"}, {"values"}, 1, 1) -> OwnAt(u.as[1], FALSE, keys)
       [] OTHER -> {}
EntriesAccess(x) ==            \* Object.entries(y)[i][0], Object.entries(y)[i][1]
  LET e == Bare(x.x)
      u == Bare(e.x)
      tuple == One(NumericKeys(x.y))
      keys == NumericKeys(e.y)
  IN  IF tuple \notin {Num(0), Num(1)} \/ e.k # "at" THEN {} ELSE IF keys = {} THEN {}
      ELSE IF CallsOwner(u, {"Object"}, {"entries"}, 1, 1) THEN OwnAt(u.as[1], tuple = Num(0), keys) ELSE {}
ArrayAt(u) ==
  LET v == CollectionOf(Receiver(u))
      slots == ElementTexts(v)
      at(n) == IF Whole(n) < 0 THEN Len(slots) + Whole(n) ELSE Whole(n)
      places == {at(n) : n \in IntegerKeys(u.as[1])}
  IN  IF ~CallsMethod(u, {"at"}, 1, 1) THEN {} ELSE IF ~IsArr(v) THEN {}
      ELSE IF \E i \in DOMAIN slots : slots[i] = {} THEN {} ELSE IF \E n \in places : n \notin 0 .. Len(slots) - 1 THEN {}
      ELSE UNION {slots[n + 1] : n \in places}
ArrayJoin(u) ==
  LET v == CollectionOf(Receiver(u))
      separators == IF StaticUndefined(Arg(u.as, 1)) THEN {Str(",")} ELSE Texts(u.as[1])
      part(y) == CASE y.k \in {"hole", "null"} -> {Str("")} [] StaticUndefined(y) -> {Str("")} [] OTHER -> Texts(y)
  IN  IF ~CallsMethod(u, {"join"}, 0, 1) THEN {} ELSE IF ~IsArr(v) THEN {} ELSE IF ~NoSpread(v.es) THEN {}
      ELSE {Str(Glue([i \in DOMAIN t |-> t[i].s], p.s)) : p \in separators, t \in Combinations([i \in DOMAIN v.es |-> part(v.es[i])])}

(* ---------------------------- JSON.stringify ----------------------------- *)

JsonTexts(x) ==                \* resolveStaticJsonStringifyValues
  LET v == CollectionOf(x)
      element(y) == IF y.k = "hole" \/ StaticUndefined(y) THEN {"null"} ELSE JsonTexts(y)
      ps == SelectSeq(v.ps, LAMBDA p : ~StaticUndefined(p.x))
      named(p) == {Quote \o p.name \o Quote \o ":" \o s : s \in JsonTexts(p.x)}
  IN CASE v.k \in {"null", "bool", "str", "num"} -> {JsonText(v)}
       [] NegativeLiteral(v, {"num"}) -> {JsonText(Negate(v.x))}
       [] v.k = "arr" -> IF ~NoSpread(v.es) THEN {}
                         ELSE {"[" \o Glue(t, ",") \o "]" : t \in Combinations([i \in DOMAIN v.es |-> element(v.es[i])])}
       [] v.k = "obj" -> IF ~AllPlain(v) THEN {}
                         ELSE {"{" \o Glue(t, ",") \o "}" : t \in Combinations([i \in DOMAIN ps |-> named(ps[i])])}
       [] OTHER -> {}
JsonStringify(u) == IF CallsOwner(u, {"JSON"}, {"stringify"}, 1, 1) THEN {Str(s) : s \in JsonTexts(u.as[1])} ELSE {}

===============================================================================
