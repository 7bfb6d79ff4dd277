----------------------------- MODULE StaticObjects -----------------------------
(***************************************************************************)
(* What the code generator knows of an object it can see being built: the  *)
(* own keys and data entries of a literal, of Object.assign, fromEntries,  *)
(* create and defineProperty, of a property descriptor and of the builtins, *)
(* and whether reading one of its properties runs no user code.            *)
(*                                                                         *)
(* A read is "present" or "absent" when it is safe, "unsafe" otherwise.    *)
(* Property names are literal; a name the compiler cannot read makes every *)
(* answer "unsafe" or No and is left out.                                  *)
(***************************************************************************)
EXTENDS StaticFold

CONSTANTS StaticCall(_),       \* isSideEffectFreeStaticCall
          ObjectRead(_),       \* isSideEffectFreeObjectReadOperand
          ObjectSpread(_),     \* isSideEffectFreeObjectSpreadOperand
          PrimitiveValue(_),   \* isSideEffectFreePrimitivePromiseResolveValue
          LengthOperand(_),    \* isSideEffectFreeLengthOperand
          DescriptorFlag(_),   \* isSideEffectFreeDescriptorBooleanFlagRead
          EmptyMap(_),         \* isSideEffectFreeEmptyMapSource
          ElementResult(_, _)  \* sideEffectFreePrimitiveArrayElementOperandResult

MethodName(u) == IF u.k # "call" THEN "" ELSE IF u.f.k # "get" THEN "" ELSE u.f.name
OwnerCall(u, owners, methods) ==
  IF MethodName(u) \notin methods \ {""} THEN FALSE
  ELSE IF u.f.x.k # "global" THEN FALSE ELSE u.f.x.name \in owners
ObjectCall(u, method) == OwnerCall(u, {"Object"}, {method})
NewOf(u, names) == IF u.k # "new" THEN FALSE ELSE IF u.f.k # "global" THEN FALSE ELSE u.f.name \in names
Signed(u) == IF u.k # "un" THEN FALSE ELSE u.op \in {"+", "-"}

Errors == {"Error", "TypeError", "RangeError", "SyntaxError", "ReferenceError", "EvalError", "URIError", "AggregateError"}
WeakKinds == {"WeakMap", "WeakSet", "WeakRef", "FinalizationRegistry"}

RECURSIVE NumberCoercion(_), FreshBuiltinObject(_), CreatePrototype(_), PropertyKeyCoercion(_), DataDescriptor(_),
          EnumerationOperand(_), CoercionOperand(_), NonNullishPrimitive(_), NonStringPrimitive(_), ReadKey(_),
          FreshBuiltinResult(_, _), FreshBuiltinKeys(_, _), StaticBuiltKeys(_, _), DescriptorObject(_),
          DescriptorBuiltKeys(_, _), DescriptorMapKeys(_, _), DescriptorIncludes(_, _), OwnStringKeys(_),
          EmptyOwnProperties(_), OwnDataEntries(_), FromEntries(_), NullishAssignSource(_), EntryLiteral(_),
          BooleanLiteral(_), PropertyResult(_, _), LiteralRead(_, _), AssignRead(_, _), FromEntriesRead(_, _),
          EntriesRead(_, _), DescriptorMapRead(_, _), DescriptorValue(_), DescriptorValueOf(_), ArrayOperand(_),
          TargetOperand(_), PrimitiveStringMethod(_), PrimitiveValueOf(_), ObjectOrArrayResult(_, _)

(* ------------------------- operands that are safe ----------------------- *)

(* isSideEffectFreePrimitiveNumberCoercion: ToNumber runs no user code.    *)
NumberCoercion(x) ==
  LET u == Unwrap(x)
  IN  \/ u.k \in {"bool", "null", "str", "num"}
      \/ DescriptorFlag(u)
      \/ Signed(u) /\ NumberCoercion(u.x)
      \/ Known(EarlierConst(u)) /\ NumberCoercion(EarlierConst(u))

FreshLiteral(x) == LET u == Unwrap(x) IN u.k \in {"obj", "arr"} /\ IsPure(u)

FreshBuiltinObject(x) ==
  LET u == Unwrap(x)
  IN  \/ u.k = "regexp"
      \/ /\ NewOf(u, Errors \union WeakKinds \union
                     {"Map", "Set", "URL", "Date", "RegExp", "SuppressedError", "Event", "EventTarget"})
         /\ PureNew(u)
      \/ Known(EarlierConst(u)) /\ FreshBuiltinObject(EarlierConst(u))

(* isSideEffectFreeObjectCreatePrototypeOperand.                           *)
CreatePrototype(x) ==
  LET u == Unwrap(x)
  IN  \/ u.k = "null"
      \/ FreshLiteral(u)
      \/ u.k \notin {"obj", "arr"} /\ Known(DescriptorObject(u))
      \/ Known(EarlierConst(u)) /\ CreatePrototype(EarlierConst(u))

PropertyKeyCoercion(x) ==
  LET u == Unwrap(x)
  IN  \/ u.k \in {"bool", "null", "str", "num", "big"}
      \/ Signed(u) /\ PropertyKeyCoercion(u.x)
      \/ Known(EarlierConst(u)) /\ PropertyKeyCoercion(EarlierConst(u))

(* isSideEffectFreeDataPropertyDescriptor.                                 *)
DescriptorFields == {"value", "writable", "enumerable", "configurable"}
DataDescriptor(x) ==
  LET u == Unwrap(x)
  IN  IF u.k = "obj"
      THEN \A i \in DOMAIN u.ps : u.ps[i].p = "prop" /\ u.ps[i].name \in DescriptorFields /\ IsPure(u.ps[i].x)
      ELSE \/ Known(DescriptorObject(u))
           \/ Known(EarlierConst(u)) /\ DataDescriptor(EarlierConst(u))

ObjectBuilders == {"assign", "fromEntries", "create", "defineProperty", "defineProperties"}
BuiltObject(u) == OwnerCall(u, {"Object"}, ObjectBuilders) /\ StaticCall(u)

(* isSideEffectFreeArrayOperand.                                           *)
ArrayOperand(x) ==
  LET u == Unwrap(x)
  IN  \/ u.k = "arr" /\ IsPure(u)
      \/ u.k # "arr" /\ Known(BuiltLength(u))
      \/ Known(EarlierConst(u)) /\ ArrayOperand(EarlierConst(u))

EnumerationOperand(x) ==
  LET u == Unwrap(x)
      target == TargetOperand(u)
  IN  IF u.k \in {"obj", "arr"} THEN IsPure(u)
      ELSE \/ FreshBuiltinObject(u) \/ ArrayOperand(u) \/ Known(DescriptorObject(u))
           \/ IF Known(target) THEN EnumerationOperand(target)
              ELSE \/ BuiltObject(u)
                   \/ Known(EarlierConst(u)) /\ EnumerationOperand(EarlierConst(u))

CoercionOperand(x) ==
  LET u == Unwrap(x)
      target == TargetOperand(u)
  IN  IF Known(target) THEN CoercionOperand(target)
      ELSE BuiltObject(u) \/ ArrayOperand(u) \/ EnumerationOperand(u) \/ NonNullishPrimitive(u)

(* isSideEffectFreeNonNullishPrimitiveObjectOperand.                       *)
NonNullishPrimitive(x) ==
  LET u == Unwrap(x)
  IN  \/ u.k \in {"bool", "str", "num", "big"}
      \/ Signed(u) /\ NonNullishPrimitive(u.x)
      \/ u.k = "get" /\ u.name = "length" /\ LengthOperand(u.x)
      \/ Known(EarlierConst(u)) /\ NonNullishPrimitive(EarlierConst(u))

NonStringPrimitive(x) ==
  LET u == Unwrap(x)
  IN  \/ u.k \in {"bool", "num", "big"}
      \/ DescriptorFlag(u)
      \/ Signed(u) /\ NonStringPrimitive(u.x)
      \/ Known(EarlierConst(u)) /\ NonStringPrimitive(EarlierConst(u))

PrimitiveStringMethod(x) ==
  LET u == Unwrap(x)
  IN  IF MethodName(u) = "" THEN Known(EarlierConst(u)) /\ PrimitiveStringMethod(EarlierConst(u))
      ELSE u.f.name \in {"toString", "toLocaleString"} /\ u.as = <<>> /\ NonStringPrimitive(u.f.x)

PrimitiveValueOf(x) ==
  LET u == Unwrap(x)
  IN  IF MethodName(u) = "" THEN Known(EarlierConst(u)) /\ PrimitiveValueOf(EarlierConst(u))
      ELSE u.f.name = "valueOf" /\ u.as = <<>> /\ NonStringPrimitive(u.f.x)

(* ------------------- calls that return one of their operands ------------ *)

(* Object.prototype.valueOf.call(x).                                       *)
PrototypeValueOf(u) ==
  IF MethodName(u) # "call" \/ Len(u.as) < 1 THEN No
  ELSE IF u.f.x # Get(Get(Global("Object"), "prototype"), "valueOf") THEN No
  ELSE IF ObjectRead(u.as[1]) /\ IgnoredPure(u.as, 1) THEN u.as[1] ELSE No

(* valueOf() of a property descriptor.                                     *)
DescriptorValueOf(u) ==
  IF MethodName(u) # "valueOf" THEN No
  ELSE IF IgnoredPure(u.as, 0) /\ Known(DescriptorObject(u.f.x)) THEN u.f.x ELSE No

(* sideEffectFreeObjectTargetReturningOperand: the target, or No.          *)
TargetReturning == {"preventExtensions", "seal", "freeze", "setPrototypeOf"}
TargetOperand(u) ==
  IF u.k # "call" THEN No
  ELSE IF OwnerCall(u, {"Object"}, TargetReturning) /\ StaticCall(u)
  THEN IF u.as = <<>> THEN No ELSE u.as[1]
  ELSE FirstKnown(PrototypeValueOf(u), DescriptorValueOf(u))

(* ------------------------- property descriptors ------------------------- *)

(* isObjectOrReflectGetOwnPropertyDescriptorCall.                          *)
GetDescriptor(u) ==
  /\ OwnerCall(u, {"Object", "Reflect"}, {"getOwnPropertyDescriptor"})
  /\ Len(u.as) >= 2 /\ IgnoredPure(u.as, 2)

(* sideEffectFreeObjectPropertyReadKey: the key as a text.                 *)
ReadKey(x) ==
  LET u == Unwrap(x)
      n == PrimitiveNumber(u)
  IN CASE u.k = "bool" -> Str(IF u.b THEN "true" ELSE "false")
       [] u.k = "null" -> Str("null")
       [] u.k = "str" -> u
       [] u.k = "num" \/ Signed(u) -> IF Known(n) THEN Str(NumText(n)) ELSE No
       [] Known(EarlierConst(u)) -> ReadKey(EarlierConst(u))
       [] OTHER -> No

(* sideEffectFreeFreshBuiltinOwnDataPropertyResult.                        *)
FreshBuiltinResult(x, key) ==
  LET u == Unwrap(x)
      lastIndex == IF key = "lastIndex" THEN "present" ELSE "absent"
  IN CASE u.k = "regexp" -> lastIndex
       [] u.k = "new" /\ ~PureNew(u) -> "unsafe"
       [] NewOf(u, {"RegExp"}) -> lastIndex
       [] NewOf(u, Errors \union {"SuppressedError"}) ->
            IF key \in {"name", "message", "cause", "errors", "error", "suppressed"} THEN "present" ELSE "absent"
       [] Known(EarlierConst(u)) -> FreshBuiltinResult(EarlierConst(u), key)
       [] OTHER -> "unsafe"

(* The own property of a builtin, else of an object or an array.           *)
OwnProperty(x, key) ==
  LET b == FreshBuiltinResult(x, key) IN IF b # "unsafe" THEN b ELSE ObjectOrArrayResult(x, key)

(* sideEffectFreeOwnDataPropertyDescriptorObjectKeyCount: 4 when the       *)
(* property is there.                                                      *)
DescriptorObject(x) ==
  LET u == Unwrap(x)
      key == ReadKey(u.as[2])
  IN  IF GetDescriptor(u)
      THEN IF Known(key) /\ OwnProperty(u.as[1], key.s) = "present" THEN Num(4) ELSE No
      ELSE IF Known(EarlierConst(u)) THEN DescriptorObject(EarlierConst(u)) ELSE No

(* isSideEffectFreeAbsentOwnPropertyDescriptorCall.                        *)
AbsentOwnDescriptor(u) ==
  LET key == ReadKey(u.as[2])
  IN  IF ~GetDescriptor(u) THEN FALSE ELSE Known(key) /\ OwnProperty(u.as[1], key.s) = "absent"

(* sideEffectFreePrimitiveDescriptorPropertyReadResult.                    *)
DescriptorRead(u, field) ==
  LET key == ReadKey(u.as[2])
  IN  IF /\ field \in DescriptorFields \union {"get", "set"}
         /\ Known(key) /\ OwnProperty(u.as[1], key.s) = "present"
      THEN "present" ELSE "unsafe"

(* --------------------------- keys and entries --------------------------- *)

Keys(S) == [k |-> "keys", keys |-> S]

FreshBuiltinKeys(x, nonEnumerable) ==
  LET u == Unwrap(x)
      count(n) == IF u.k = "regexp" \/ PureNew(u) THEN Num(IF nonEnumerable THEN n ELSE 0) ELSE No
  IN CASE u.k = "regexp" \/ NewOf(u, {"RegExp"}) -> count(1)
       [] NewOf(u, Errors) -> count(4)
       [] NewOf(u, WeakKinds \union {"Map", "Set", "URL", "Date", "Event", "EventTarget"}) -> count(0)
       [] Known(EarlierConst(u)) -> FreshBuiltinKeys(EarlierConst(u), nonEnumerable)
       [] OTHER -> No

(* sideEffectFreeObjectLiteralOwnStringKeys.                               *)
OwnStringKeys(x) ==
  LET u == Unwrap(x)
      of(p) == CASE p.p = "prop" -> IF IsPure(p.x) THEN Keys({p.name}) ELSE No
                 [] p.p = "spread" -> IF ObjectSpread(p.x) THEN OwnStringKeys(p.x) ELSE No
                 [] OTHER -> No
  IN CASE u.k = "obj" -> IF \A i \in DOMAIN u.ps : Known(of(u.ps[i]))
                         THEN Keys(UNION {of(u.ps[i]).keys : i \in DOMAIN u.ps}) ELSE No
       [] Known(DescriptorObject(u)) -> Keys(DescriptorFields)
       [] Known(EarlierConst(u)) -> OwnStringKeys(EarlierConst(u))
       [] OTHER -> No
OwnKeyCount(x) == LET keys == OwnStringKeys(x) IN IF Known(keys) THEN Num(Cardinality(keys.keys)) ELSE No

(* sideEffectFreeDataDescriptorIncludesOwnKey: does a property with this    *)
(* descriptor count?                                                       *)
DescriptorIncludes(x, enumerableOnly) ==
  LET u == Unwrap(x)
      flags == {i \in DOMAIN u.ps : u.ps[i].name = "enumerable"}
      flag(i) == BooleanLiteral(u.ps[i].x)
  IN CASE u.k = "obj" -> IF ~DataDescriptor(u) THEN No
                         ELSE IF ~enumerableOnly THEN Bool(TRUE)
                         ELSE IF \E i \in flags : ~Known(flag(i)) THEN No
                         ELSE IF flags = {} THEN Bool(FALSE) ELSE flag(Most(flags, 0))
       [] Known(EarlierConst(u)) -> DescriptorIncludes(EarlierConst(u), enumerableOnly)
       [] OTHER -> No

DescriptorMapKeys(x, enumerableOnly) ==
  LET u == Unwrap(x)
      includes(i) == DescriptorIncludes(u.ps[i].x, enumerableOnly)
  IN CASE u.k = "obj" -> IF \A i \in DOMAIN u.ps : u.ps[i].p = "prop" /\ Known(includes(i))
                         THEN Keys({u.ps[i].name : i \in {j \in DOMAIN u.ps : includes(j).b}}) ELSE No
       [] Known(EarlierConst(u)) -> DescriptorMapKeys(EarlierConst(u), enumerableOnly)
       [] OTHER -> No

(* sideEffectFreeDescriptorBuiltObjectOwnStringKeys: Object.create,        *)
(* defineProperty and defineProperties.                                    *)
DescriptorBuiltKeys(x, enumerableOnly) ==
  LET u == Unwrap(x)
      empty == OwnKeyCount(u.as[1]) = Num(0)
      key == ReadKey(u.as[2])
      includes == DescriptorIncludes(u.as[3], enumerableOnly)
  IN CASE ObjectCall(u, "create") ->
            IF Len(u.as) \notin 1 .. 2 THEN No
            ELSE IF ~CreatePrototype(u.as[1]) THEN No
            ELSE IF Len(u.as) = 1 THEN Keys({}) ELSE DescriptorMapKeys(u.as[2], enumerableOnly)
       [] ObjectCall(u, "defineProperty") ->
            IF Len(u.as) # 3 THEN No
            ELSE IF ~empty \/ ~Known(key) \/ ~Known(includes) THEN No
            ELSE Keys(IF includes.b THEN {key.s} ELSE {})
       [] ObjectCall(u, "defineProperties") ->
            IF Len(u.as) # 2 THEN No ELSE IF ~empty THEN No ELSE DescriptorMapKeys(u.as[2], enumerableOnly)
       [] Known(EarlierConst(u)) -> DescriptorBuiltKeys(EarlierConst(u), enumerableOnly)
       [] OTHER -> No

(* isSideEffectFreeEmptyOwnPropertyObjectValuesSource.                     *)
EmptyOwnProperties(x) ==
  LET u == Unwrap(x)
  IN  \/ NewOf(u, WeakKinds \union {"Map", "Set", "URL"}) /\ PureNew(u)
      \/ Known(EarlierConst(u)) /\ EmptyOwnProperties(EarlierConst(u))

(* A list of entries; a later entry of a key takes the first one's place.  *)
Entries(es) == [k |-> "entries", es |-> es]
Entry(name, x) == [name |-> name, x |-> x]
SetEntry(es, e) ==
  LET at == {i \in DOMAIN es : es[i].name = e.name}
  IN  IF at = {} THEN Append(es, e) ELSE [es EXCEPT ![Most(at, 1)] = e]
MergeEntries(lists) ==         \* No when one of them is
  IF \E i \in DOMAIN lists : ~Known(lists[i]) THEN No
  ELSE Entries(FoldLeft(SetEntry, <<>>, FlattenSeq([i \in DOMAIN lists |-> lists[i].es])))

(* sideEffectFreeObjectLiteralOwnDataEntries.                              *)
OwnDataEntries(x) ==
  LET u == Unwrap(x)
      of(p) == CASE p.p = "prop" -> IF IsPure(p.x) THEN Entries(<<Entry(p.name, p.x)>>) ELSE No
                 [] p.p = "spread" -> IF ObjectSpread(p.x) THEN OwnDataEntries(p.x) ELSE No
                 [] OTHER -> No
      field(name) == Entry(name, Get(u, name))
  IN CASE u.k = "obj" -> MergeEntries([i \in DOMAIN u.ps |-> of(u.ps[i])])
       [] Known(DescriptorObject(u)) ->
            Entries(<<field("value"), field("writable"), field("enumerable"), field("configurable")>>)
       [] Known(EarlierConst(u)) -> OwnDataEntries(EarlierConst(u))
       [] OTHER -> No

(* sideEffectFreeMapEntryArrayLiteral: the literal of one entry.           *)
EntryLiteral(x) ==
  LET u == Unwrap(x)
  IN  IF u.k = "arr" THEN u ELSE IF Known(EarlierConst(u)) THEN EntryLiteral(EarlierConst(u)) ELSE No
EntryPure(e) == \A i \in DOMAIN e.es : IsPure(e.es[i])

(* sideEffectFreeObjectFromEntriesOwnDataEntries.                          *)
FromEntries(x) ==
  LET u == Unwrap(x)
      of(e) == IF ~Known(e) THEN No
               ELSE IF Len(e.es) < 2 THEN No
               ELSE IF ~EntryPure(e) \/ ~Known(ReadKey(e.es[1])) THEN No
               ELSE Entries(<<Entry(ReadKey(e.es[1]).s, e.es[2])>>)
  IN CASE u.k = "arr" -> MergeEntries([i \in DOMAIN u.es |-> of(EntryLiteral(u.es[i]))])
       [] ObjectCall(u, "entries") /\ Len(u.as) = 1 -> OwnDataEntries(u.as[1])
       [] EmptyMap(u) -> Entries(<<>>)
       [] Known(EarlierConst(u)) -> FromEntries(EarlierConst(u))
       [] OTHER -> No

NullishAssignSource(x) ==
  LET u == Unwrap(x)
  IN  u.k \in {"null", "undefined"} \/ (Known(EarlierConst(u)) /\ NullishAssignSource(EarlierConst(u)))

(* sideEffectFreeObjectAssignOwnDataEntries.                               *)
AssignEntries(u) ==
  LET skipped(i) == i > 1 /\ (NullishAssignSource(u.as[i]) \/ EmptyOwnProperties(u.as[i]))
      of(i) == IF skipped(i) THEN Entries(<<>>) ELSE OwnDataEntries(u.as[i])
  IN  IF Len(u.as) < 1 THEN No
      ELSE IF ~FreshLiteral(u.as[1]) THEN No ELSE MergeEntries([i \in DOMAIN u.as |-> of(i)])

BooleanLiteral(x) ==
  LET u == Unwrap(x)
  IN  IF u.k = "bool" THEN u ELSE IF Known(EarlierConst(u)) THEN BooleanLiteral(EarlierConst(u)) ELSE No

(* sideEffectFreeStaticBuiltObjectOwnStringKeyCount.                       *)
StaticBuiltKeys(x, enumerableOnly) ==
  LET u == Unwrap(x)
      count(entries) == IF Known(entries) THEN Num(Len(entries.es)) ELSE No
      built == DescriptorBuiltKeys(u, enumerableOnly)
  IN CASE ObjectCall(u, "fromEntries") /\ Len(u.as) = 1 -> count(FromEntries(u.as[1]))
       [] ObjectCall(u, "assign") -> count(AssignEntries(u))
       [] Known(DescriptorObject(u)) -> DescriptorObject(u)
       [] Known(built) -> Num(Cardinality(built.keys))
       [] Known(EarlierConst(u)) -> StaticBuiltKeys(EarlierConst(u), enumerableOnly)
       [] OTHER -> No

(* ----------------------------- property reads --------------------------- *)

Primitive(x) == IF PrimitiveValue(x) THEN "present" ELSE "unsafe"

(* sideEffectFreePrimitiveObjectLiteralPropertyReadResult: from the last    *)
(* property to the first, up to the one that decides.                      *)
LiteralRead(ps, key) ==
  IF ps = <<>> THEN "absent"
  ELSE LET p == Last(ps)
           spread == PropertyResult(p.x, key)
       IN CASE p.p = "prop" -> IF ~IsPure(p.x) THEN "unsafe"
                               ELSE IF p.name = key THEN Primitive(p.x) ELSE LiteralRead(Front(ps), key)
            [] p.p = "spread" -> IF ~ObjectSpread(p.x) THEN "unsafe"
                                 ELSE IF spread # "absent" THEN spread ELSE LiteralRead(Front(ps), key)
            [] OTHER -> "unsafe"

(* sideEffectFreePrimitiveObjectAssignPropertyReadResult, for the sources   *)
(* that are left.                                                          *)
AssignRead(as, key) ==
  IF as = <<>> THEN "absent"
  ELSE LET r == PropertyResult(Last(as), key)
       IN  IF Len(as) > 1 /\ NullishAssignSource(Last(as)) THEN AssignRead(Front(as), key)
           ELSE IF r # "absent" THEN r ELSE AssignRead(Front(as), key)

(* The entry array of fromEntries, from its last entry.                    *)
EntriesRead(es, key) ==
  IF es = <<>> THEN "absent"
  ELSE LET e == Unwrap(Last(es))
           name == ReadKey(e.es[1])
       IN  IF e.k # "arr" THEN "unsafe"
           ELSE IF Len(e.es) < 2 THEN "unsafe"
           ELSE IF ~EntryPure(e) \/ ~Known(name) THEN "unsafe"
           ELSE IF name.s = key THEN Primitive(e.es[2]) ELSE EntriesRead(Front(es), key)

FromEntriesRead(x, key) ==
  LET u == Unwrap(x)
  IN CASE u.k = "arr" -> EntriesRead(u.es, key)
       [] ObjectCall(u, "entries") /\ Len(u.as) = 1 -> PropertyResult(u.as[1], key)
       [] EmptyMap(u) -> "absent"
       [] Known(EarlierConst(u)) -> FromEntriesRead(EarlierConst(u), key)
       [] OTHER -> "unsafe"

(* sideEffectFreeDataDescriptorPrimitiveValueResult.                       *)
DescriptorValue(x) ==
  LET u == Unwrap(x)
      values == {i \in DOMAIN u.ps : u.ps[i].name = "value"}
  IN CASE u.k = "obj" -> IF ~DataDescriptor(u) THEN "unsafe"
                         ELSE IF values = {} THEN "present" ELSE Primitive(u.ps[Most(values, 1)].x)
       [] Known(EarlierConst(u)) -> DescriptorValue(EarlierConst(u))
       [] OTHER -> "unsafe"

DescriptorMapRead(x, key) ==
  LET u == Unwrap(x)
      at == Most({i \in DOMAIN u.ps : u.ps[i].name = key \/ u.ps[i].p # "prop"}, 0)
      skipped == {i \in DOMAIN u.ps : i > at}
  IN CASE u.k = "obj" -> IF \E i \in skipped : ~DataDescriptor(u.ps[i].x) THEN "unsafe"
                         ELSE IF at = 0 THEN "absent"
                         ELSE IF u.ps[at].p # "prop" THEN "unsafe" ELSE DescriptorValue(u.ps[at].x)
       [] Known(EarlierConst(u)) -> DescriptorMapRead(EarlierConst(u), key)
       [] OTHER -> "unsafe"

(* sideEffectFreePrimitiveObjectDefinePropertyReadResult.                  *)
DefinePropertyRead(u, key) ==
  IF Len(u.as) # 3 THEN "unsafe"
  ELSE IF ~FreshLiteral(u.as[1]) \/ ~Known(ReadKey(u.as[2])) THEN "unsafe"
  ELSE IF ReadKey(u.as[2]).s = key THEN DescriptorValue(u.as[3]) ELSE PropertyResult(u.as[1], key)

DefinePropertiesRead(u, key) ==
  IF Len(u.as) # 2 THEN "unsafe"
  ELSE IF ~FreshLiteral(u.as[1]) THEN "unsafe"
  ELSE IF DescriptorMapRead(u.as[2], key) # "absent" THEN DescriptorMapRead(u.as[2], key)
  ELSE PropertyResult(u.as[1], key)

(* sideEffectFreePrimitiveObjectCreateReadResult.                          *)
CreateRead(u, key) ==
  LET own == IF Len(u.as) = 2 THEN DescriptorMapRead(u.as[2], key) ELSE "absent"
  IN  IF Len(u.as) \notin 1 .. 2 THEN "unsafe"
      ELSE IF ~CreatePrototype(u.as[1]) THEN "unsafe"
      ELSE IF own # "absent" THEN own
      ELSE IF Unwrap(u.as[1]).k = "null" THEN "absent" ELSE PropertyResult(u.as[1], key)

(* sideEffectFreePrimitiveObjectPropertyOperandResult.                     *)
PropertyResult(x, key) ==
  LET u == Unwrap(x)
      target == TargetOperand(u)
  IN CASE u.k = "obj" -> LiteralRead(u.ps, key)
       [] ObjectCall(u, "assign") ->
            IF u.as = <<>> THEN "unsafe" ELSE IF FreshLiteral(u.as[1]) THEN AssignRead(u.as, key) ELSE "unsafe"
       [] ObjectCall(u, "fromEntries") -> IF Len(u.as) = 1 THEN FromEntriesRead(u.as[1], key) ELSE "unsafe"
       [] ObjectCall(u, "defineProperty") -> DefinePropertyRead(u, key)
       [] ObjectCall(u, "defineProperties") -> DefinePropertiesRead(u, key)
       [] ObjectCall(u, "create") -> CreateRead(u, key)
       [] GetDescriptor(u) -> DescriptorRead(u, key)
       [] Known(target) -> PropertyResult(target, key)
       [] Known(EarlierConst(u)) -> PropertyResult(EarlierConst(u), key)
       [] OTHER -> "unsafe"

(* An array index is a canonical numeral.                                  *)
IndexOfKey(key) ==
  IF \E n \in 0 .. 9 : ToString(n) = key THEN Num(CHOOSE n \in 0 .. 9 : ToString(n) = key) ELSE No

ObjectOrArrayResult(x, key) ==
  LET r == PropertyResult(x, key)
      i == IndexOfKey(key)
  IN  IF r # "unsafe" THEN r ELSE IF Known(i) THEN ElementResult(x, i.n) ELSE "unsafe"

(* x.key or x[key] of an object the compiler sees.                         *)
PropertyRead(u) ==
  CASE u.k = "get" -> PropertyResult(u.x, u.name) # "unsafe"
    [] u.k = "at" -> Known(ReadKey(u.y)) /\ PropertyResult(u.x, ReadKey(u.y).s) # "unsafe"
    [] OTHER -> FALSE

===============================================================================
