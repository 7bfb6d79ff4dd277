--------------------------- MODULE StaticCollections ---------------------------
(***************************************************************************)
(* The arrays and collections the code generator can count: the length of  *)
(* an array literal and of what the copying array methods make of it, the  *)
(* elements they leave, the size of new Set and new Map over them, the      *)
(* lengths of Object.keys and its siblings, and whether one element of such *)
(* an array can be read without running user code.                         *)
(***************************************************************************)
EXTENDS StaticObjects

CONSTANTS StringCoercion(_)    \* isSideEffectFreeStringCoercion

RECURSIVE LiteralLength(_), ArrayLength(_), ArraySource(_), CollectionLength(_, _), SetSourceLength(_, _),
          KeySourceLength(_), ValueSourceLength(_, _), ValuesSetLength(_, _), MapSourceLength(_, _), EntrySourceLength(_),
          IdentityKey(_), OwnCount(_, _), EmptySource(_, _), ElementOf(_, _), ValuesElement(_, _), TupleElement(_, _, _),
          LiteralElement(_, _, _), SpreadElement(_, _, _), SpreadCount(_)

(* ------------------------------- lengths -------------------------------- *)

(* sideEffectFreeArrayLiteralLength: one for every element, a spread or a   *)
(* hole included.                                                          *)
LiteralLength(x) ==
  LET u == Unwrap(x)
  IN CASE u.k = "arr" -> IF IsPure(u) THEN Num(Len(u.es)) ELSE No
       [] Known(EarlierConst(u)) -> LiteralLength(EarlierConst(u))
       [] OTHER -> No

FreshArray(x) == LET u == Unwrap(x) IN u.k = "arr" /\ IsPure(u)
FreshStrings(x) ==             \* isSideEffectFreeFreshOrReturnedStringArrayOperand
  LET u == Unwrap(x) IN IF u.k # "arr" THEN FALSE ELSE \A i \in DOMAIN u.es : StringCoercion(u.es[i])

InPlace == {"reverse", "sort", "fill", "copyWithin"}
MutatesNonFresh(u) == MethodName(u) \in InPlace /\ ~FreshArray(u.f.x)

(* An optional integer argument.                                           *)
Position(as, i, default) == IF i > Len(as) THEN Num(default) ELSE IntegerArgument(as[i])
AllKnown(vs) == \A i \in DOMAIN vs : Known(vs[i])
PositionAt(v, n) == From(v.n, n)
DeletedUnclamped(as, start, n) == IF Len(as) < 2 THEN n - start ELSE IntegerArgument(as[2]).n   \* mutant
Deleted(as, start, n) ==       \* toSpliced: how many elements go
  IF Len(as) < 2 THEN n - start ELSE Clamp(IntegerArgument(as[2]).n, 0, n - start)
Coercions(as, from) == \A i \in from .. Len(as) : NumberCoercion(as[i])

(* The same of an empty receiver, of which less has to be known.           *)
EmptyLength(m, as) ==
  LET count == Len(as)
  IN CASE m = "flat" /\ count <= 1 /\ Coercions(as, 1) -> Num(0)
       [] m = "slice" /\ count \in 1 .. 2 /\ Coercions(as, 1) -> Num(0)
       [] m \in {"map", "filter", "flatMap"} /\ count \in 1 .. 2 /\ IgnoredPure(as, 0) -> Num(0)
       [] m = "toSpliced" /\ count \in 1 .. 2 /\ Coercions(as, 1) -> Num(0)
       [] m = "toSpliced" /\ count > 2 /\ NumberCoercion(as[1]) /\ NumberCoercion(as[2]) /\ IgnoredPure(as, 2) -> Num(count - 2)
       [] OTHER -> No

(* The length of recv.m(as) when recv has n elements, or No.               *)
TransformLength(m, n, recv, as) ==
  LET count == Len(as)
      start == Position(as, 1, 0)
      end == Position(as, 2, n)
      lengths == [i \in 1 .. count |-> ArrayLength(as[i])]
      same == Num(n)
  IN CASE m = "slice" /\ count = 0 -> same
       [] m = "slice" /\ count <= 2 /\ Known(start) /\ Known(end) ->
            LET d == PositionAt(end, n) - PositionAt(start, n) IN Num(IF d < 0 THEN 0 ELSE d)
       [] m = "concat" /\ AllKnown(lengths) -> Num(FoldLeft(LAMBDA a, b : a + b.n, n, lengths))
       [] m = "flat" /\ count = 1 /\ start = Num(0) -> same
       [] m \in {"sort", "toSorted"} /\ count = 0 /\ (FreshStrings(recv) \/ n = 0) -> same
       [] m \in {"reverse", "toReversed", "keys", "values", "entries"} /\ IgnoredPure(as, 0) -> same
       [] m = "with" /\ count = 2 /\ Known(start) /\ IsPure(as[2]) /\ start.n \in -n .. n - 1 -> same
       [] m = "copyWithin" /\ count \in 2 .. 3 /\ Coercions(as, 1) -> same
       [] m = "fill" /\ count \in 1 .. 3 /\ IsPure(as[1]) /\ Coercions(as, 2) -> same
       [] m = "toSpliced" /\ count >= 1 /\ IgnoredPure(as, 2) /\ Known(start) /\ Known(end) ->
            Num(n - Deleted(as, PositionAt(start, n), n) + (IF count > 2 THEN count - 2 ELSE 0))
       [] n = 0 -> EmptyLength(m, as)
       [] OTHER -> No

(* sideEffectFreeFreshOrReturnedArrayLength.                               *)
OwnLists == {"keys", "getOwnPropertyNames", "getOwnPropertySymbols", "values", "entries"}
ArrayLength(x) ==
  LET u == Unwrap(x)
      literal == LiteralLength(u)
      recv == ArrayLength(u.f.x)
      transformed == IF Known(recv) THEN TransformLength(u.f.name, recv.n, u.f.x, u.as) ELSE No
  IN CASE Known(literal) -> literal
       [] Known(EarlierConst(u)) -> ArrayLength(EarlierConst(u))
       [] MethodName(u) = "" -> No
       [] MutatesNonFresh(u) -> No
       [] Known(transformed) -> transformed
       [] Len(u.as) # 1 -> No
       [] OwnerCall(u, {"Object"}, OwnLists) -> OwnCount(u.f.name, u.as[1])
       [] OwnerCall(u, {"Reflect"}, {"ownKeys"}) -> OwnCount("ownKeys", u.as[1])
       [] OTHER -> No

(* The own property lists of a known object: how many keys, names, symbols, *)
(* values, entries.                                                        *)
EnumerableOnly == {"keys", "values", "entries"}
OwnCount(how, x) ==
  LET u == Unwrap(x)
      text == StringText(u)
      array == FirstKnown(LiteralLength(u), ArrayLength(u))
      builtin == FreshBuiltinKeys(u, how \notin EnumerableOnly)
      built == StaticBuiltKeys(u, how \in EnumerableOnly)
      target == TargetOperand(u)
      lengthKey == IF how \in {"getOwnPropertyNames", "ownKeys"} THEN 1 ELSE 0
      none == how = "getOwnPropertySymbols"
      count(v) == IF none THEN Num(0) ELSE v
  IN CASE Known(text) /\ how \notin {"getOwnPropertySymbols", "ownKeys"} -> Num(Len(text.s) + lengthKey)
       [] how # "ownKeys" /\ NonNullishPrimitive(u) -> Num(0)
       [] Known(array) -> count(Num(array.n + lengthKey))
       [] how \notin {"keys", "getOwnPropertySymbols"} /\ EmptyOwnProperties(u) -> Num(0)
       [] Known(OwnKeyCount(u)) -> count(OwnKeyCount(u))
       [] Known(builtin) -> count(builtin)
       [] Known(built) -> count(built)
       [] Known(target) -> OwnCount(how, target)
       [] Known(EarlierConst(u)) -> OwnCount(how, EarlierConst(u))
       [] OTHER -> No
ObjectKeysLength(x) == OwnCount("keys", x)
ObjectNamesLength(x) == OwnCount("getOwnPropertyNames", x)
ObjectSymbolsLength(x) == OwnCount("getOwnPropertySymbols", x)
ObjectValuesLength(x) == OwnCount("values", x)
ObjectEntriesLength(x) == OwnCount("entries", x)
ReflectOwnKeysLength(x) == OwnCount("ownKeys", x)

(* ---------------------------- array sources ----------------------------- *)

List(es) == [k |-> "list", es |-> es]

(* The elements the methods that work in place, or on a copy of equal      *)
(* length, leave of the elements es.                                       *)
Rewritten(m, es, as) ==
  LET n == Len(es)
      start == Position(as, 1, 0)
      end == Position(as, 2, n)
  IN CASE m = "fill" ->
            LET lo == Position(as, 2, 0)
                hi == Position(as, 3, n)
            IN  IF Known(lo) /\ Known(hi) /\ IsPure(as[1])
                THEN List([i \in 1 .. n |-> IF PositionAt(lo, n) < i /\ i <= PositionAt(hi, n) THEN as[1] ELSE es[i]]) ELSE No
       [] m = "copyWithin" ->
            LET final == Position(as, 3, n)
                to == PositionAt(start, n)
                from == PositionAt(end, n)
                moved == Clamp(PositionAt(final, n) - from, 0, n - to)
            IN  IF Known(start) /\ Known(end) /\ Known(final)
                THEN List([i \in 1 .. n |-> IF to < i /\ i <= to + moved THEN es[i - to + from] ELSE es[i]]) ELSE No
       [] m \in {"reverse", "toReversed"} -> IF IgnoredPure(as, 0) THEN List(Reverse(es)) ELSE No
       [] m \in {"sort", "toSorted"} -> List(es)

(* The elements recv.m(as) leaves of the elements es.                      *)
Transformed(m, es, as) ==
  LET n == Len(es)
      count == Len(as)
      start == Position(as, 1, 0)
      end == Position(as, 2, n)
      lists == [i \in 1 .. count |-> ArraySource(as[i])]
  IN CASE m = "slice" -> IF Known(start) /\ Known(end) THEN List(SubSeq(es, PositionAt(start, n) + 1, PositionAt(end, n))) ELSE No
       [] m = "concat" -> IF AllKnown(lists) THEN List(es \o FlattenSeq([i \in 1 .. count |-> lists[i].es])) ELSE No
       [] m = "flat" -> IF start = Num(0) THEN List(es) ELSE No
       [] m = "with" -> IF Known(start) /\ IsPure(as[2]) /\ start.n \in -n .. n - 1
                        THEN List([es EXCEPT ![(IF start.n < 0 THEN n + start.n ELSE start.n) + 1] = as[2]]) ELSE No
       [] m = "toSpliced" ->
            IF ~Known(start) \/ ~Known(end) \/ ~IgnoredPure(as, 2) THEN No
            ELSE LET at == PositionAt(start, n)
                 IN  List(SubSeq(es, 1, at) \o SubSeq(as, 3, count) \o SubSeq(es, at + Deleted(as, at, n) + 1, n))
       [] OTHER -> Rewritten(m, es, as)

(* How many arguments each of them takes.                                  *)
Arities == [m \in {"slice", "concat", "flat", "with", "toSpliced", "fill", "copyWithin", "reverse", "toReversed", "sort", "toSorted"} |->
  CASE m = "slice" -> 0 .. 2 [] m = "flat" -> {1} [] m = "with" -> {2} [] m = "fill" -> 1 .. 3
    [] m = "copyWithin" -> 2 .. 3 [] m \in {"sort", "toSorted"} -> {0} [] m = "toSpliced" -> 1 .. 9 [] OTHER -> 0 .. 9]

(* sideEffectFreeSetArraySourceExpressions and its twin for Map: the        *)
(* element expressions of an array, spreads flattened.                     *)
ArraySource(x) ==
  LET u == Unwrap(x)
      of(e) == IF e.k = "spread" THEN ArraySource(e.x) ELSE List(<<e>>)
      parts == [i \in DOMAIN u.es |-> of(u.es[i])]
      recv == ArraySource(u.f.x)
  IN CASE u.k = "arr" -> IF AllKnown(parts) THEN List(FlattenSeq([i \in DOMAIN parts |-> parts[i].es])) ELSE No
       [] MethodName(u) \in DOMAIN Arities ->
            IF Len(u.as) \notin Arities[u.f.name] \/ MutatesNonFresh(u) \/ ~Known(recv) THEN No
            ELSE Transformed(u.f.name, recv.es, u.as)
       [] Known(EarlierConst(u)) -> ArraySource(EarlierConst(u))
       [] OTHER -> No
MapArraySource(x) == ArraySource(x)

(* ----------------------- the size of a Set or a Map --------------------- *)

(* sideEffectFreeObjectIdentityKey: the literal an operand is.             *)
IdentityKey(x) ==
  LET u == Unwrap(x)
      target == TargetOperand(u)
  IN CASE FreshLiteral(u) -> u
       [] Known(target) -> IdentityKey(target)
       [] Known(EarlierConst(u)) -> IdentityKey(EarlierConst(u))
       [] OTHER -> No

NumericKey(x) == LET n == NumericValue(x) IN IF n = NegZero THEN Num(0) ELSE n

(* An element as a key of its kind.                                        *)
KeyOf(kind, x) ==
  CASE kind = "string" -> StringText(x)
    [] kind = "number" -> NumericKey(x)
    [] kind = "boolean" -> BooleanLiteral(x)
    [] kind = "identity" -> IdentityKey(x)
Distinct(kind, xs) ==
  LET keys == [i \in DOMAIN xs |-> KeyOf(kind, xs[i])]
  IN  IF AllKnown(keys) THEN Num(Cardinality({keys[i] : i \in DOMAIN xs})) ELSE No
EntryValues(entries) == [i \in DOMAIN entries.es |-> entries.es[i].x]

(* Object.keys and its siblings have distinct strings.                     *)
KeySourceLength(x) ==
  LET u == Unwrap(x)
  IN CASE OwnerCall(u, {"Object"}, {"keys", "getOwnPropertyNames"}) /\ Len(u.as) = 1 -> OwnCount(u.f.name, u.as[1])
       [] OwnerCall(u, {"Reflect"}, {"ownKeys"}) /\ Len(u.as) = 1 -> OwnCount("ownKeys", u.as[1])
       [] Known(EarlierConst(u)) -> KeySourceLength(EarlierConst(u))
       [] OTHER -> No

(* The distinct values of a known object, when all are of the kind.        *)
ValuesSetLength(kind, x) ==
  LET u == Unwrap(x)
      text == StringText(u)
      source == ArraySource(u)
      entries == OwnDataEntries(u)
      target == TargetOperand(u)
      of(es) == IF Known(es) THEN Distinct(kind, EntryValues(es)) ELSE No
  IN CASE Known(text) -> IF kind = "string" THEN Num(Cardinality({SubSeq(text.s, i, i) : i \in 1 .. Len(text.s)})) ELSE No
       [] NonNullishPrimitive(u) \/ EmptyOwnProperties(u) -> Num(0)
       [] Known(source) -> Distinct(kind, source.es)
       [] Known(entries) -> of(entries)
       [] ObjectCall(u, "fromEntries") /\ Len(u.as) = 1 -> of(FromEntries(u.as[1]))
       [] ObjectCall(u, "assign") -> of(AssignEntries(u))
       [] Known(target) -> ValuesSetLength(kind, target)
       [] Known(EarlierConst(u)) -> ValuesSetLength(kind, EarlierConst(u))
       [] OTHER -> No
StringValuesLength(x) == ValuesSetLength("string", x)
NumericValuesLength(x) == ValuesSetLength("number", x)
BooleanValuesLength(x) == ValuesSetLength("boolean", x)
IdentityValuesLength(x) == ValuesSetLength("identity", x)

ValueSourceLength(kind, x) ==
  LET u == Unwrap(x)
  IN CASE ObjectCall(u, "values") /\ Len(u.as) = 1 -> ValuesSetLength(kind, u.as[1])
       [] Known(EarlierConst(u)) -> ValueSourceLength(kind, EarlierConst(u))
       [] OTHER -> No

(* new Set(x) when every element is of the kind.                           *)
SetSourceLength(kind, x) ==
  LET u == Unwrap(x)
      source == ArraySource(u)
      keys == IF kind = "string" THEN KeySourceLength(u) ELSE No
      values == ValueSourceLength(kind, u)
  IN CASE Known(source) -> Distinct(kind, source.es)
       [] Known(keys) -> keys
       [] Known(values) -> values
       [] NewOf(u, {"Set"}) /\ PureNew(u) -> CollectionLength("Set", u)
       [] Known(EarlierConst(u)) -> SetSourceLength(kind, EarlierConst(u))
       [] OTHER -> No
StringSetLength(x) == SetSourceLength("string", x)
NumericSetLength(x) == SetSourceLength("number", x)
BooleanSetLength(x) == SetSourceLength("boolean", x)
IdentitySetLength(x) == SetSourceLength("identity", x)

(* new Map(x) when every key is of the kind.                               *)
MapSourceLength(kind, x) ==
  LET u == Unwrap(x)
      source == MapArraySource(u)
      entry(i) == EntryLiteral(source.es[i])
      entryOk(e) == Known(e) /\ Len(e.es) >= 2 /\ EntryPure(e)
  IN CASE Known(source) -> IF \A i \in DOMAIN source.es : entryOk(entry(i))
                           THEN Distinct(kind, [i \in DOMAIN source.es |-> entry(i).es[1]]) ELSE No
       [] kind = "string" /\ ObjectCall(u, "entries") /\ Len(u.as) = 1 -> OwnCount("entries", u.as[1])
       [] NewOf(u, {"Map"}) /\ PureNew(u) -> CollectionLength("Map", u)
       [] Known(EarlierConst(u)) -> MapSourceLength(kind, EarlierConst(u))
       [] OTHER -> No
StringMapLength(x) == MapSourceLength("string", x)
NumericMapLength(x) == MapSourceLength("number", x)
BooleanMapLength(x) == MapSourceLength("boolean", x)
IdentityMapLength(x) == MapSourceLength("identity", x)

FirstOf(vs) == LET known == {i \in DOMAIN vs : Known(vs[i])} IN IF known = {} THEN No ELSE vs[Least(known, 1)]

(* Entry arrays are distinct objects.                                      *)
EntrySourceLength(x) ==
  LET u == Unwrap(x)
  IN CASE ObjectCall(u, "entries") /\ Len(u.as) = 1 -> OwnCount("entries", u.as[1])
       [] Known(EarlierConst(u)) -> EntrySourceLength(EarlierConst(u))
       [] OTHER -> No

(* sideEffectFreeNewCollectionLength: the size of new Set or new Map.  The  *)
(* kinds are tried in turn.                                                *)
KindLength(name, a) ==
  IF name = "Set"
  THEN FirstOf(<<StringSetLength(a), NumericSetLength(a), BooleanSetLength(a), IdentitySetLength(a), EntrySourceLength(a)>>)
  ELSE FirstOf(<<StringMapLength(a), NumericMapLength(a), BooleanMapLength(a), IdentityMapLength(a)>>)
CollectionLength(name, x) ==
  LET u == Unwrap(x)
      a == u.as[1]
      exact == KindLength(name, a)
      literal == LiteralLength(a)
      length == ArrayLength(a)
      upTo(v, n) == Known(v) /\ v.n <= n
  IN CASE NewOf(u, {name}) /\ PureNew(u) /\ Len(u.as) <= 1 ->
            CASE u.as = <<>> -> Num(0)
              [] Known(exact) -> exact
              [] upTo(literal, 1) -> literal
              [] upTo(length, IF name = "Set" THEN 1 ELSE 0) -> length
              [] OTHER -> No
       [] Known(EarlierConst(u)) -> CollectionLength(name, EarlierConst(u))
       [] OTHER -> No

(* isSideEffectFreeEmptyMapSource, isSideEffectFreeEmptySetSource.         *)
EmptySource(name, x) ==
  LET u == Unwrap(x)
      exact == CollectionLength(name, u)
  IN  IF NewOf(u, {name}) /\ PureNew(u)
      THEN IF Known(exact) THEN exact.n = 0
           ELSE \/ u.as = <<>>
                \/ Len(u.as) = 1 /\ (LiteralLength(u.as[1]) = Num(0) \/ EmptySource(name, u.as[1]))
      ELSE Known(EarlierConst(u)) /\ EmptySource(name, EarlierConst(u))
EmptyMapSource(x) == EmptySource("Map", x)
EmptySetSource(x) == EmptySource("Set", x)

(* isSideEffectFreeEmptyArrayFromSource.                                   *)
EmptyFromSource(x) ==
  \/ LiteralLength(x) = Num(0) \/ ArrayLength(x) = Num(0) \/ StringText(x) = Str("")
  \/ EmptyMapSource(x) \/ EmptySetSource(x)

(* ------------------------- reading one element -------------------------- *)

(* sideEffectFreeArraySpreadElementCount.                                  *)
SpreadCount(x) ==
  LET u == Unwrap(x)
      of(e) == IF e.k = "spread" THEN SpreadCount(e.x) ELSE Num(1)
      counts == [i \in DOMAIN u.es |-> of(u.es[i])]
  IN CASE u.k = "str" -> Num(Len(u.s))
       [] u.k = "arr" -> IF IsPure(u) /\ AllKnown(counts) THEN Num(FoldLeft(LAMBDA a, b : a + b.n, 0, counts)) ELSE No
       [] Known(ArrayLength(u)) -> ArrayLength(u)
       [] Known(EarlierConst(u)) -> SpreadCount(EarlierConst(u))
       [] OTHER -> No

(* Element i of an array literal, from the element expressions that are     *)
(* left; keyOnly asks for its presence, not for its value.                 *)
LiteralElement(es, i, keyOnly) ==
  IF es = <<>> THEN "absent"
  ELSE LET e == Head(es)
           count == IF e.k = "spread" THEN SpreadCount(e.x) ELSE Num(1)
       IN CASE ~Known(count) -> "unsafe"
            [] i >= count.n -> LiteralElement(Tail(es), i - count.n, keyOnly)
            [] e.k = "spread" -> SpreadElement(e.x, i, keyOnly)
            [] e.k = "hole" -> "absent"
            [] OTHER -> IF keyOnly THEN (IF IsPure(e) THEN "present" ELSE "unsafe") ELSE Primitive(e)
ArrayLiteralElement(u, i, keyOnly) ==
  IF ~IsPure(u) THEN "unsafe" ELSE IF i < 0 THEN "absent" ELSE LiteralElement(u.es, i, keyOnly)
EntryKeyElement(u, i) == ArrayLiteralElement(u, i, TRUE)

InRange(i, n) == IF 0 <= i /\ i < n THEN "present" ELSE "absent"
SpreadElement(x, i, keyOnly) ==
  LET u == Unwrap(x)
      length == ArrayLength(u)
  IN CASE u.k = "arr" -> ArrayLiteralElement(u, i, keyOnly)
       [] u.k = "str" -> InRange(i, Len(u.s))
       [] Known(length) -> IF keyOnly \/ InRange(i, length.n) = "absent" THEN InRange(i, length.n) ELSE ElementOf(u, i)
       [] Known(EarlierConst(u)) -> SpreadElement(EarlierConst(u), i, keyOnly)
       [] OTHER -> "unsafe"

(* Entry i of an object: its value.                                        *)
LiteralEntry(u, i, keyOnly) ==
  LET entries == OwnDataEntries(u)
  IN CASE i < 0 -> "absent"
       [] ~Known(entries) -> "unsafe"
       [] i >= Len(entries.es) -> "absent"
       [] OTHER -> IF keyOnly THEN "present" ELSE Primitive(entries.es[i + 1].x)

(* sideEffectFreePrimitiveStaticArrayElementResult: an element of the own   *)
(* property lists; "none" for every other call.                            *)
StaticElement(u, i) ==
  CASE Len(u.as) # 1 -> "none"
    [] OwnerCall(u, {"Object"}, {"keys", "getOwnPropertyNames"}) /\ CoercionOperand(u.as[1]) ->
         IF i < 0 THEN "absent" ELSE "present"
    [] ObjectCall(u, "getOwnPropertySymbols") ->
         IF Known(OwnCount("getOwnPropertySymbols", u.as[1])) THEN "absent" ELSE "unsafe"
    [] ObjectCall(u, "values") -> ValuesElement(u.as[1], i)
    [] OwnerCall(u, {"Reflect"}, {"ownKeys"}) /\ EnumerationOperand(u.as[1]) -> IF i < 0 THEN "absent" ELSE "present"
    [] OTHER -> "none"

ValuesElement(x, i) ==
  LET u == Unwrap(x)
      static == IF u.k = "call" THEN StaticElement(u, i) ELSE "none"
      target == TargetOperand(u)
  IN CASE u.k = "arr" -> ArrayLiteralElement(u, i, FALSE)
       [] static # "none" -> static
       [] u.k = "obj" -> LiteralEntry(u, i, FALSE)
       [] u.k = "str" -> InRange(i, Len(u.s))
       [] NonNullishPrimitive(u) -> "absent"
       [] Known(target) -> ValuesElement(target, i)
       [] Known(EarlierConst(u)) -> ValuesElement(EarlierConst(u), i)
       [] OTHER -> "unsafe"

(* Object.entries(x)[i][0] and [1].                                        *)
TupleElement(x, i, keyOnly) ==
  LET u == Unwrap(x)
      static == IF u.k = "call" THEN StaticElement(u, i) ELSE "none"
      target == TargetOperand(u)
  IN CASE i < 0 -> "absent"
       [] u.k = "obj" -> LiteralEntry(u, i, keyOnly)
       [] u.k = "arr" -> ArrayLiteralElement(u, i, keyOnly)
       [] static # "none" -> static
       [] u.k = "str" -> InRange(i, Len(u.s))
       [] NonNullishPrimitive(u) -> "absent"
       [] Known(target) -> TupleElement(target, i, keyOnly)
       [] Known(EarlierConst(u)) -> TupleElement(EarlierConst(u), i, keyOnly)
       [] OTHER -> "unsafe"

(* array.entries()[i][0] and [1].                                          *)
ArrayTupleElement(u, i, keyOnly) ==
  LET length == ArrayLength(u.f.x)
  IN CASE ~IgnoredPure(u.as, 0) \/ ~Known(length) -> "unsafe"
       [] InRange(i, length.n) = "absent" \/ keyOnly -> InRange(i, length.n)
       [] OTHER -> ElementOf(u.f.x, i)

(* isSideEffectFreePrimitiveObjectEntriesTupleElementAccess.               *)
TupleAccess(u) ==
  LET entry == Unwrap(u.x)
      part == PrimitiveNumber(u.y)
      i == PrimitiveNumber(entry.y)
      call == Unwrap(entry.x)
      keyOnly == Whole(part) = 0
  IN  IF u.k # "at" THEN FALSE
      ELSE IF part \notin {Num(0), Num(1), NegZero} \/ entry.k # "at" THEN FALSE
      ELSE IF ~IsFinite(i) \/ MethodName(call) # "entries" THEN FALSE
      ELSE IF ObjectCall(call, "entries") /\ Len(call.as) = 1 THEN TupleElement(call.as[1], Whole(i), keyOnly) # "unsafe"
      ELSE ArrayTupleElement(call, Whole(i), keyOnly) # "unsafe"

(* ------------- one element of what an array method makes ---------------- *)
(* "none" when the call is not of the method or the receiver is unknown.   *)

EmptySplicedElement(u, i) ==
  IF MethodName(u) # "toSpliced" \/ Len(u.as) < 2 THEN "none"
  ELSE IF ArrayLength(u.f.x) # Num(0) THEN "none"
  ELSE IF ~NumberCoercion(u.as[1]) \/ ~NumberCoercion(u.as[2]) \/ ~IgnoredPure(u.as, 2) THEN "unsafe"
  ELSE IF i < 0 \/ i + 3 > Len(u.as) THEN "absent" ELSE Primitive(u.as[i + 3])

SplicedElement(u, i) ==
  LET length == ArrayLength(u.f.x)
      n == length.n
      start == Position(u.as, 1, 0)
      end == Position(u.as, 2, 0)
      at == PositionAt(start, n)
      gone == Deleted(u.as, at, n)
      inserted == IF Len(u.as) > 2 THEN Len(u.as) - 2 ELSE 0
  IN CASE MethodName(u) # "toSpliced" \/ Len(u.as) < 1 -> "none"
       [] ~IgnoredPure(u.as, 2) \/ ~Known(length) -> "none"
       [] ~Known(start) \/ ~Known(end) -> "unsafe"
       [] InRange(i, n - gone + inserted) = "absent" -> "absent"
       [] i < at -> ElementOf(u.f.x, i)
       [] i < at + inserted -> Primitive(u.as[i - at + 3])
       [] OTHER -> ElementOf(u.f.x, i - inserted + gone)

SliceElement(u, i) ==
  LET length == ArrayLength(u.f.x)
      n == length.n
      start == Position(u.as, 1, 0)
      end == Position(u.as, 2, n)
  IN CASE MethodName(u) # "slice" \/ Len(u.as) > 2 -> "none"
       [] ~Known(length) -> "none"
       [] ~Known(start) \/ ~Known(end) -> "unsafe"
       [] InRange(i, PositionAt(end, n) - PositionAt(start, n)) = "absent" -> "absent"
       [] OTHER -> ElementOf(u.f.x, PositionAt(start, n) + i)

ConcatElement(u, i) ==
  LET parts == <<u.f.x>> \o u.as
      lengths == [j \in DOMAIN parts |-> ArrayLength(parts[j])]
      before(j) == FoldLeft(LAMBDA a, b : a + b.n, 0, SubSeq(lengths, 1, j - 1))
      j == Least({m \in DOMAIN parts : ~Known(lengths[m]) \/ i < before(m) + lengths[m].n}, 0)
  IN CASE MethodName(u) # "concat" -> "none"
       [] ~Known(lengths[1]) -> "none"
       [] i < 0 \/ j = 0 -> "absent"
       [] ~Known(lengths[j]) -> "unsafe"
       [] OTHER -> ElementOf(parts[j], i - before(j))

FlatElement(u, i) ==
  IF MethodName(u) # "flat" \/ Len(u.as) # 1 THEN "none"
  ELSE IF Position(u.as, 1, 0) # Num(0) THEN "unsafe" ELSE ElementOf(u.f.x, i)

SortedElement(u, i) ==
  LET length == ArrayLength(u.f.x)
  IN CASE MethodName(u) \notin {"sort", "toSorted"} \/ u.as # <<>> -> "none"
       [] ~Known(length) -> "unsafe"
       [] InRange(i, length.n) = "absent" -> "absent"
       [] OTHER -> IF FreshStrings(u.f.x) THEN "present" ELSE "unsafe"

ReversedElement(u, i) ==
  LET length == ArrayLength(u.f.x)
  IN CASE MethodName(u) \notin {"reverse", "toReversed"} -> "none"
       [] ~IgnoredPure(u.as, 0) \/ ~Known(length) -> "none"
       [] InRange(i, length.n) = "absent" -> "absent"
       [] OTHER -> ElementOf(u.f.x, length.n - 1 - i)

WithElement(u, i) ==
  LET length == ArrayLength(u.f.x)
      n == length.n
      at == Position(u.as, 1, 0)
      replaced == IF at.n < 0 THEN n + at.n ELSE at.n
  IN CASE MethodName(u) # "with" \/ Len(u.as) # 2 -> "none"
       [] ~Known(length) -> "none"
       [] InRange(i, n) = "absent" -> "absent"
       [] ~Known(at) \/ ~IsPure(u.as[2]) -> "unsafe"
       [] InRange(replaced, n) = "absent" -> "unsafe"
       [] OTHER -> IF i = replaced THEN Primitive(u.as[2]) ELSE ElementOf(u.f.x, i)

FillElement(u, i) ==
  LET length == ArrayLength(u.f.x)
      n == length.n
      lo == Position(u.as, 2, 0)
      hi == Position(u.as, 3, n)
  IN CASE MethodName(u) # "fill" \/ Len(u.as) \notin 1 .. 3 -> "none"
       [] ~IsPure(u.as[1]) \/ ~Known(length) -> "none"
       [] InRange(i, n) = "absent" -> "absent"
       [] ~Known(lo) \/ ~Known(hi) -> "unsafe"
       [] OTHER -> IF PositionAt(lo, n) <= i /\ i < PositionAt(hi, n) THEN Primitive(u.as[1]) ELSE ElementOf(u.f.x, i)

CopyWithinElement(u, i) ==
  LET length == ArrayLength(u.f.x)
      n == length.n
      target == Position(u.as, 1, 0)
      start == Position(u.as, 2, 0)
      final == Position(u.as, 3, n)
      to == PositionAt(target, n)
      from == PositionAt(start, n)
      moved == Clamp(PositionAt(final, n) - from, 0, n - to)
  IN CASE MethodName(u) # "copyWithin" \/ Len(u.as) \notin 2 .. 3 -> "none"
       [] ~Known(length) -> "none"
       [] InRange(i, n) = "absent" -> "absent"
       [] ~Known(target) \/ ~Known(start) \/ ~Known(final) -> "unsafe"
       [] OTHER -> ElementOf(u.f.x, IF to <= i /\ i < to + moved THEN from + i - to ELSE i)

KeyValueElement(u, i) ==
  LET length == ArrayLength(u.f.x)
  IN CASE MethodName(u) \notin {"keys", "values"} -> "none"
       [] ~IgnoredPure(u.as, 0) -> "unsafe"
       [] ~Known(length) -> "none"
       [] InRange(i, length.n) = "absent" \/ u.f.name = "keys" -> InRange(i, length.n)
       [] OTHER -> ElementOf(u.f.x, i)

(* sideEffectFreePrimitiveArrayElementOperandResult: the first of them that *)
(* decides.                                                                *)
ElementOf(x, i) ==
  LET u == Unwrap(x)
      tried == IF u.k # "call" THEN <<>>
               ELSE <<StaticElement(u, i), EmptySplicedElement(u, i), SplicedElement(u, i), SliceElement(u, i),
                      ConcatElement(u, i), FlatElement(u, i), SortedElement(u, i), ReversedElement(u, i), WithElement(u, i),
                      FillElement(u, i), CopyWithinElement(u, i), KeyValueElement(u, i)>>
      decided == Least({j \in DOMAIN tried : tried[j] # "none"}, 0)
      length == ArrayLength(u)
      target == TargetOperand(u)
  IN CASE u.k = "arr" -> ArrayLiteralElement(u, i, FALSE)
       [] decided # 0 -> tried[decided]
       [] Known(length) /\ InRange(i, length.n) = "absent" -> "absent"
       [] Known(target) -> ElementOf(target, i)
       [] Known(EarlierConst(u)) -> ElementOf(EarlierConst(u), i)
       [] OTHER -> "unsafe"

(* isSideEffectFreePrimitiveArrayElementAccess.                            *)
ElementAccess(u) ==
  LET i == PrimitiveNumber(u.y)
  IN  IF u.k # "at" THEN FALSE ELSE IF ~IsFinite(i) THEN FALSE ELSE ElementOf(u.x, Whole(i)) # "unsafe"

===============================================================================
