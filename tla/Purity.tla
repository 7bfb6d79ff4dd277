-------------------------------- MODULE Purity --------------------------------
(***************************************************************************)
(* Which expressions the code generator takes to run no user code, and may *)
(* drop when nobody needs their value: isSideEffectFreeTopLevelConst-      *)
(* Initializer of emit/index.ts (Pure) and the recognisers it calls.  The  *)
(* modules below know these operators as constants.                        *)
(*                                                                         *)
(* Canonical is the gate in front of them: an expression whose value the   *)
(* value-flow graph carries as a tagged value, every use of a mutable      *)
(* global included, is never pure.  The recognisers behind it are also     *)
(* asked directly, by the readers of StaticFold and StaticCollections.     *)
(***************************************************************************)
EXTENDS HostPurity, PromiseStates

RECURSIVE Canonical(_), ArrayTyped(_), StringTyped(_), Pure(_), LiteralPure(_, _), CallPure(_), BinaryPure(_), ReadPure(_),
          LengthPure(_), IndexablePure(_), ObjectIdentity(_), InRight(_), DeleteTarget(_), DeletePure(_), SpreadPure(_),
          ArraySpread(_), StaticCallPure(_), PrimitiveStaticCall(_), PrimitiveMethodCall(_), GlobalCallPure(_), NewPure(_),
          StringMethodCall(_, _, _), TextProducer(_), StringOperand(_), StringCoercionPure(_), PrimitivePure(_),
          PrimitiveBinary(_), NumericOperand(_), ErrorOptions(_), MapSource(_), SetSource(_), WeakMapSource(_),
          WeakSetSource(_), BuiltinStringMethod(_), PrototypeToString(_), PrototypeReadonly(_), GlobalText(_, _),
          JsonStringify(_), JsonOperand(_), JsonReplacer(_), JsonSpace(_), JsonParse(_), StringReturningMethod(_),
          BuiltinMethod(_, _, _)

(* ----------------------------- the canonical gate ----------------------- *)

RuntimeGlobals == {"Object", "Function", "Array", "String", "Number", "Boolean", "BigInt", "Symbol", "Proxy", "Date",
                   "Atomics", "URL", "RegExp", "Promise", "Map", "Set", "SuppressedError", "Math", "Buffer", "JSON",
                   "Reflect", "parseInt", "parseFloat", "isFinite", "isNaN", "btoa", "atob", "NaN", "Infinity"}
                  \union Errors \union WeakKinds \union UriNames
HostModules == {"os", "path", "net", "dns", "events", "stream", "EventEmitter"}
WrapperNames == {"__dirname", "__filename", "module"}
NumericOperators == NumberOperators \union {">>", ">>>", "&", "|", "^"}

(* The type checker's answers for the receivers of an access.              *)
ArrayMakers == {"slice", "concat", "flat", "sort", "toSorted", "reverse", "toReversed", "with", "fill", "copyWithin",
                "toSpliced", "split"}
ArrayTyped(x) ==
  CASE x.k \in {"paren", "const"} -> ArrayTyped(x.x)
    [] x.k = "call" -> \/ OwnerCall(x, {"Object", "Reflect"}, {"keys", "values", "entries", "getOwnPropertyNames", "ownKeys"})
                       \/ MethodName(x) \in ArrayMakers /\ (ArrayTyped(x.f.x) \/ MethodName(x) = "split")
    [] OTHER -> x.k = "arr"
StringTyped(x) ==
  CASE x.k \in {"paren", "const"} -> StringTyped(x.x)
    [] OTHER -> x.k \in {"str", "template", "typeof"}

(* expressionHasCanonicalSourceValue: the expression, or something its     *)
(* value is made of, is a tagged value of the graph.                       *)
Canonical(x) ==
  CASE x.k \in {"undefined", "fn", "let", "effect", "user", "import", "param"} -> TRUE
    [] x.k = "global" -> x.name \in RuntimeGlobals \union HostModules \union WrapperNames
    [] x.k = "class" -> ~x.b
    [] x.k \in {"paren", "const", "void", "typeof", "delete", "spread"} -> Canonical(x.x)
    [] x.k = "un" -> x.op # "!" \/ Canonical(x.x)
    [] x.k = "bin" -> x.op \in NumericOperators \union Comparisons \/ Canonical(x.x) \/ Canonical(x.y)
    [] x.k = "cond" -> Canonical(x.c) \/ Canonical(x.x) \/ Canonical(x.y)
    [] x.k = "template" -> \E i \in DOMAIN x.spans : Canonical(x.spans[i].x)
    [] x.k = "arr" -> \E i \in DOMAIN x.es : Canonical(x.es[i])
    [] x.k = "obj" -> \E i \in DOMAIN x.ps :
                        IF x.ps[i].p \in {"prop", "spread"} THEN Canonical(x.ps[i].x) ELSE TRUE
    [] x.k = "get" -> ArrayTyped(x.x) \/ Canonical(x.x)
    [] x.k = "at" -> ArrayTyped(x.x) \/ StringTyped(x.x) \/ Canonical(x.x) \/ Canonical(x.y)
    [] x.k \in {"call", "new"} -> Canonical(x.f) \/ \E i \in DOMAIN x.as : Canonical(x.as[i])
    [] OTHER -> FALSE

(* --------------------------- the main recogniser ------------------------ *)

ObjectMethods == OwnTests \union {"isPrototypeOf", "__defineGetter__", "__defineSetter__", "__lookupGetter__", "__lookupSetter__"}
ValueMethods == {"call", "apply", "bind", "toFixed", "toExponential", "toPrecision", "keys", "values", "entries", "forEach",
                 "reduce", "reduceRight", "at", "charAt", "charCodeAt", "codePointAt", "concat", "endsWith", "includes",
                 "indexOf", "isWellFormed", "lastIndexOf", "localeCompare", "match", "matchAll", "normalize", "padEnd",
                 "padStart", "repeat", "replace", "replaceAll", "search", "slice", "split", "startsWith", "substr",
                 "substring", "toWellFormed", "valueOf"} \union CaseFolding \union Trims \union Texts

Pure(x) ==
  LET u == Unwrap(x)
  IN CASE u.k = "class" -> u.b
       [] u.k = "obj" -> LiteralPure(u, FALSE)
       [] Canonical(u) -> FALSE
       [] u.k \in {"bool", "null", "num", "big", "str", "regexp", "fn", "undefined"} -> TRUE
       [] u.k = "global" -> u.name \in {"NaN", "Infinity"} \/ CommonJsPath(u)
       [] u.k = "import" -> BuiltinStringName(u) \/ BuiltinNumberName(u)
       [] u.k = "un" -> u.op = "!" /\ Pure(u.x)
       [] u.k \in {"const", "typeof", "void"} -> Pure(u.x)
       [] u.k = "delete" -> DeletePure(u)
       [] u.k = "call" -> CallPure(u)
       [] u.k = "new" -> NewPure(u)
       [] u.k = "bin" -> BinaryPure(u)
       [] u.k = "cond" -> LET c == StaticBoolean(u.c)
                          IN  IF Known(c) THEN Pure(IF c.b THEN u.x ELSE u.y)
                              ELSE Pure(u.c) /\ Pure(u.x) /\ Pure(u.y)
       [] u.k \in {"get", "at"} -> ReadPure(u)
       [] u.k = "template" -> \A i \in DOMAIN u.spans : Pure(u.spans[i].x)
       [] u.k = "arr" -> \A i \in DOMAIN u.es :
                           CASE u.es[i].k = "hole" -> TRUE
                             [] u.es[i].k = "spread" -> ArraySpread(u.es[i].x)
                             [] OTHER -> Pure(u.es[i])
       [] OTHER -> FALSE

(* objectLiteralEvaluationHasNoSideEffects: reading is set when the values *)
(* of the enumerable properties are read, as a spread does.                *)
LiteralPure(u, reading) ==
  \A i \in DOMAIN u.ps :
    LET p == u.ps[i]
        v == Unwrap(p.x)
    IN CASE p.p = "spread" -> IF v.k = "obj" THEN LiteralPure(v, TRUE) ELSE SpreadPure(v)
         [] p.p = "prop" -> IF v.k = "obj" THEN LiteralPure(v, FALSE) ELSE Pure(v)
         [] p.p = "getter" -> ~reading
         [] p.p = "method" -> TRUE

SpreadPure(x) ==               \* isSideEffectFreeObjectSpreadOperand
  LET u == Unwrap(x)
  IN CASE u.k = "obj" -> LiteralPure(u, TRUE)
       [] Canonical(u) -> FALSE
       [] Known(DescriptorObject(u)) -> TRUE
       [] OTHER -> Through(u, SpreadPure)

ArraySpread(x) ==              \* isSideEffectFreeArraySpreadOperand
  LET u == Unwrap(x)
  IN CASE u.k \in {"arr", "str"} -> Pure(u)
       [] Known(BuiltLength(u)) -> TRUE
       [] NewOf(u, {"Map", "Set"}) -> NewPure(u)
       [] OTHER -> Through(u, ArraySpread)

CallPure(u) ==
  /\ MethodName(u) \notin ValueMethods \union ObjectMethods
  /\ ~OwnerCall(u, RuntimeGlobals, {MethodName(u)})
  /\ \/ PrototypeToString(u) \/ PrototypeReadonly(u) \/ PrimitiveValueOf(u) \/ PrimitiveMethodCall(u)
     \/ StaticCallPure(u) \/ GlobalCallPure(u)

(* A left operand of known outcome decides whether the right one runs.     *)
BinaryPure(u) ==
  LET l == StaticBoolean(u.x)
      s == NullishState(u.x)
      both == Pure(u.x) /\ Pure(u.y)
  IN CASE u.op = "in" -> Pure(u.x) /\ InRight(u.y)
       [] u.op = "&&" -> IF ~Known(l) THEN both ELSE l.b => Pure(u.y)
       [] u.op = "||" -> IF ~Known(l) THEN both ELSE ~l.b => Pure(u.y)
       [] u.op = "??" -> IF s = "unknown" THEN both ELSE s = "nullish" => Pure(u.y)
       [] OTHER -> u.op \in {"===", "!==", ","} /\ both

(* The questions of FrontEnd that no single method answers.                *)
CollectionSizeOf(x) ==
  LET n == CollectionLength(x.f.name, x)
  IN  IF ~NewOf(x, {"Set", "Map"}) THEN No ELSE IF Known(n) \/ Len(x.as) # 1 THEN n ELSE KindLength(x.f.name, x.as[1])
ReadResult(x) ==
  LET key == IF x.k = "get" THEN Str(x.name) ELSE ReadKey(x.y)
  IN  IF Known(key) THEN ObjectOrArrayResult(x.x, key.s) ELSE "unsafe"

CollectionSize(x) == FreshOf(x, {"Map"}) \/ FreshOf(x, {"Set"})

ElementPure(u) ==              \* isSideEffectFreeElementAccess
  LET i == PrimitiveNumber(u.y)
  IN  \/ i.k = "num" /\ ElementOf(u.x, i.n) # "unsafe"
      \/ TupleAccess(u)
      \/ IndexablePure(u.x) /\ Pure(u.y)

(* A property access: an ordinary object bound to a name may have acquired  *)
(* accessors, so a read of it is never pure.                               *)
ReadPure(u) ==
  LET recv == Unwrap(u.x)
  IN CASE u.k = "at" -> ElementPure(u) \/ (ObjectIdentity(u.x) /\ Pure(u.y))
       [] recv.k = "const" /\ Unwrap(recv.x).k = "obj" -> FALSE
       [] u.name = "length" -> LengthPure(u.x)
       [] u.name = "size" -> CollectionSize(u.x)
       [] OTHER -> \/ ErrorRead(u) \/ EventRead(u) \/ ProcessRead(u) \/ ProcessUsageRead(u) \/ ProcessObjectRead(u)
                   \/ UserInfoRead(u) \/ PathParseRead(u) \/ StdioRead(u) \/ ModuleRead(u) \/ ModuleConstantRead(u)
                   \/ DefaultMaxListenersRead(u)
                   \/ ObjectOrArrayResult(u.x, u.name) # "unsafe"
                   \/ ObjectIdentity(u.x)

(* ------------------------------- operands ------------------------------- *)

(* The recognisers of text that the string operand, the string coercion,   *)
(* the receiver of length and the receiver of an index share.              *)
TextProducer(u) ==
  \/ StringReturningPathCall(u) \/ CommonJsString(u) \/ BuiltinString(u)
  \/ ErrorStringRead(u) \/ ErrorDescriptorString(u) \/ ErrorStringMethodCall(u)
  \/ EventTypeRead(u) \/ EventStringMethodCall(u)
  \/ PrimitiveStringMethod(u) \/ BuiltinStringMethod(u) \/ PrototypeToString(u)
  \/ GlobalText(u, UriNames) \/ GlobalText(u, {"Date"}) \/ GlobalText(u, {"btoa", "atob"})
  \/ JsonStringify(u) \/ StringReturningMethod(u)
  \/ ProcessString(u) \/ UserInfoString(u) \/ PathParseRead(u)

StringOperand(x) == LET u == Unwrap(x) IN u.k = "str" \/ TextProducer(u) \/ Through(u, StringOperand)
StringCoercionPure(x) == LET u == Unwrap(x) IN u.k = "str" \/ TextProducer(u) \/ Through(u, StringCoercionPure)
IndexablePure(x) ==
  LET u == Unwrap(x) IN IF u.k \in {"arr", "str"} THEN Pure(u) ELSE TextProducer(u) \/ Through(u, IndexablePure)
LengthPure(x) ==               \* isSideEffectFreeLengthOperand
  LET u == Unwrap(x)
  IN  IF u.k \in {"arr", "str"} THEN Pure(u)
      ELSE \/ CommonJsPath(u) \/ BuiltinStringName(u) \/ ModuleConstantRead(u)
           \/ TextProducer(u) \/ PrototypeReadonly(u) \/ Known(BuiltLength(u)) \/ Through(u, LengthPure)

ObjectIdentity(x) ==           \* also isSideEffectFreeObjectReadOperand
  LET u == Unwrap(x)
      target == TargetOperand(u)
  IN CASE u.k \in {"obj", "arr"} -> Pure(u)
       [] BuiltObject(u) \/ Known(DescriptorObject(u)) -> TRUE
       [] Known(target) -> ObjectIdentity(target)
       [] OTHER -> Through(u, ObjectIdentity)

InRight(x) ==
  LET u == Unwrap(x)
  IN IF u.k \in {"obj", "arr"} THEN Pure(u) ELSE Known(DescriptorObject(u)) \/ Through(u, InRight)
DeleteTarget(x) ==
  LET u == Unwrap(x)
  IN IF u.k \in {"obj", "arr"} THEN Pure(u) ELSE Known(DescriptorObject(u)) \/ Through(u, DeleteTarget)
DeletePure(u) ==
  LET t == Unwrap(u.x)
  IN  t.k \in {"get", "at"} /\ DeleteTarget(t.x) /\ (t.k = "at" => Pure(t.y))

(* deleteTargetsEarlierConstAlias and isPrunableExpressionStatement-       *)
(* Expression: a statement that may be dropped.                            *)
DeletesAlias(u) == LET t == Unwrap(u.x) IN t.k \in {"get", "at"} /\ Known(EarlierConst(t.x))
PrunableStatement(x) == LET u == Unwrap(x) IN IF u.k = "delete" /\ DeletesAlias(u) THEN FALSE ELSE Pure(x)

(* --------------------------------- calls -------------------------------- *)

(* The methods of strings that run no user code.                           *)
NumberArgs(as, max) == Len(as) <= max /\ \A i \in DOMAIN as : NumberCoercion(as[i])
Bounded(x, n) ==               \* a known count, within the folding bound when it is scaled by n
  LET v == PrimitiveNumber(x) IN Known(v) /\ IsFinite(v) /\ Whole(v) >= 0 /\ Whole(v) * n <= MaxText
StringMethodCall(recv, m, as) ==
  /\ StringOperand(recv)
  /\ LET text == StringText(recv)
         form == StringText(Arg(as, 1))
     IN CASE m \in {"charAt", "charCodeAt", "at", "codePointAt"} -> NumberArgs(as, 1)
          [] m \in {"slice", "substring", "substr"} -> NumberArgs(as, 2)
          [] m \in {"includes", "indexOf", "lastIndexOf", "startsWith", "endsWith", "split"} ->
               Len(as) \in 1 .. 2 /\ Strings(as, 1) /\ (Len(as) = 1 \/ NumberCoercion(Arg(as, 2)))
          [] m = "localeCompare" -> Strings(as, 1) /\ IgnoredPure(as, 1)
          [] m = "concat" -> Strings(as, Len(as))
          [] m \in CaseFolding \union Trims \union Texts \union {"valueOf", "isWellFormed", "toWellFormed"} -> IgnoredPure(as, 0)
          [] m = "normalize" -> as = <<>> \/ (form \in {Str("NFC"), Str("NFD"), Str("NFKC"), Str("NFKD")} /\ IgnoredPure(as, 1))
          [] m = "repeat" -> /\ as # <<>> /\ Known(text) /\ IgnoredPure(as, 1)
                             /\ Bounded(as[1], IF text.s = "" THEN 1 ELSE 4 * Len(text.s))
          [] m \in {"padStart", "padEnd"} -> /\ as # <<>> /\ Bounded(as[1], 1) /\ IgnoredPure(as, 2)
                                             /\ Len(as) = 1 \/ StringCoercionPure(Arg(as, 2))
          [] m \in {"replace", "replaceAll"} -> Strings(as, 2) /\ IgnoredPure(as, 2)
          [] OTHER -> FALSE
TextReturning == {"charAt", "at", "slice", "substring", "substr", "concat", "valueOf", "toWellFormed", "normalize",
                  "repeat", "padStart", "padEnd", "replace", "replaceAll"} \union CaseFolding \union Trims \union Texts
StringReturningMethod(x) ==
  LET u == Unwrap(x)
      m == MethodName(u)
  IN IF m = "" THEN Through(u, StringReturningMethod) ELSE m \in TextReturning /\ StringMethodCall(u.f.x, m, u.as)

(* A call of an array method may run a replaced method: never pure.        *)
ArrayMethodCall(recv, m, as) == FALSE

FreshMap(x) == FreshOf(x, {"Map"})
FreshSet(x) == FreshOf(x, {"Set"})
FreshWeakMap(x) == FreshOf(x, {"WeakMap"})
FreshWeakSet(x) == FreshOf(x, {"WeakSet"})
MapMethodCall(recv, m, as) == FreshMap(recv) /\ m \in {"get", "has"} /\ Len(as) = 1 /\ Pure(as[1])
SetAlgebra == {"union", "intersection", "difference", "symmetricDifference", "isSubsetOf", "isSupersetOf", "isDisjointFrom"}
SetMethodCall(recv, m, as) ==
  /\ FreshSet(recv) /\ Len(as) = 1
  /\ \/ m = "has" /\ Pure(as[1])
     \/ m \in SetAlgebra /\ FreshSet(as[1])
WeakMapMethodCall(recv, m, as) == m \in {"get", "has"} /\ Len(as) = 1 /\ FreshWeakMap(recv) /\ FreshLiteral(as[1])
WeakSetMethodCall(recv, m, as) == m = "has" /\ Len(as) = 1 /\ FreshWeakSet(recv) /\ FreshLiteral(as[1])

(* isSideEffectFreeBuiltinObjectPrototypeMethodCall.                       *)
BuiltinMethod(recv, m, as) ==
  /\ FreshMap(recv) \/ FreshSet(recv) \/ FreshWeakMap(recv) \/ FreshWeakSet(recv) \/ Known(DescriptorObject(recv))
  /\ Inherited(m, as) \/ (m = "isPrototypeOf" /\ as # <<>> /\ IgnoredPure(as, 0))
BuiltinStringMethod(x) ==
  LET u == Unwrap(x)
      m == MethodName(u)
  IN IF m = "" THEN Through(u, BuiltinStringMethod) ELSE m \in Texts /\ BuiltinMethod(u.f.x, m, u.as)

(* Object.prototype.m.call(...): the name m, or "".                        *)
PrototypeMethod(u) ==
  IF MethodName(u) # "call" \/ u.as = <<>> THEN ""
  ELSE IF u.f.x.k # "get" THEN ""
  ELSE IF OnGlobal(u.f.x.x, "Object") /\ u.f.x.x.name = "prototype" THEN u.f.x.name ELSE ""
PrototypeToString(x) ==
  LET u == Unwrap(x)
  IN IF u.k # "call" THEN Through(u, PrototypeToString) ELSE PrototypeMethod(u) = "toString" /\ IgnoredPure(u.as, 0)
PrototypeReadonly(x) ==
  LET u == Unwrap(x)
      m == PrototypeMethod(u)
  IN CASE u.k # "call" -> Through(u, PrototypeReadonly)
       [] m \in OwnTests -> Len(u.as) >= 2 /\ CoercionOperand(u.as[1]) /\ PropertyKeyCoercion(u.as[2]) /\ IgnoredPure(u.as, 2)
       [] m = "isPrototypeOf" -> Len(u.as) >= 2 /\ CoercionOperand(u.as[1]) /\ IgnoredPure(u.as, 1)
       [] m = "valueOf" -> CoercionOperand(u.as[1]) /\ IgnoredPure(u.as, 1)
       [] OTHER -> FALSE

(* isSideEffectFreeStaticCall: a call recv.m(as).                          *)
StaticMethodCall(recv, m, as) ==
  \/ StringMethodCall(recv, m, as) \/ ArrayMethodCall(recv, m, as)
  \/ MapMethodCall(recv, m, as) \/ SetMethodCall(recv, m, as)
  \/ WeakMapMethodCall(recv, m, as) \/ WeakSetMethodCall(recv, m, as) \/ BuiltinMethod(recv, m, as)
  \/ StdioMethodCall(recv, m, as) \/ ProcessCall(recv, m, as)
  \/ EventEmitterMethodCall(recv, m, as) \/ HashMethodCall(m, as) \/ EventMethodCall(recv, m, as)
  \/ EventTargetMethodCall(recv, m, as) \/ EventEmitterStaticCall(recv, m, as) \/ PromiseMethodCall(recv, m, as)
  \/ IsGlobal(recv, "events") /\ EventsStaticCall(m, as)
  \/ IsGlobal(recv, "stream") /\ StreamCall(m, as)
CodePoint(x) == LET v == PrimitiveNumber(x) IN v.k = "num" /\ v.n \in 0 .. 1114111
OwnerMethodCall(u, recv, m, as) ==
  CASE recv.k = "global" /\ recv.name \in RuntimeGlobals -> FALSE
    [] IsGlobal(recv, "Promise") /\ m \in {"resolve", "reject"} -> FirstPrimitive(as)
    [] IsGlobal(recv, "Promise") /\ m = "try" /\ Len(as) = 1 -> TryCallbackPure(as[1])
    [] JsonStringify(u) \/ JsonParse(u) -> TRUE
    [] IsGlobal(recv, "Map") /\ m = "groupBy" /\ Len(as) = 2 -> EmptyFromSource(as[1]) /\ Pure(as[2])
    [] IsGlobal(recv, "String") /\ m = "fromCharCode" -> \A i \in DOMAIN as : Known(PrimitiveNumber(as[i]))
    [] IsGlobal(recv, "String") /\ m = "fromCodePoint" -> \A i \in DOMAIN as : CodePoint(as[i])
    [] IsGlobal(recv, "RegExp") /\ m = "escape" /\ Len(as) = 1 -> StringCoercionPure(as[1])
    [] OTHER -> \/ IsGlobal(recv, "os") /\ OsCall(m, as)
                \/ PathModule(recv) /\ PathCall(m, as)
                \/ IsGlobal(recv, "net") /\ NetCall(m, as)
StaticCallPure(u) ==
  IF MethodName(u) = "" THEN FALSE
  ELSE /\ ~ArrayTyped(u.f.x)
       /\ StaticMethodCall(u.f.x, u.f.name, u.as) \/ OwnerMethodCall(u, u.f.x, u.f.name, u.as)

PrimitiveHelpers ==
  [Array |-> {"isArray"}, Object |-> {"is", "hasOwn", "isExtensible", "isSealed", "isFrozen"},
   Reflect |-> {"has", "set", "deleteProperty", "defineProperty", "preventExtensions", "setPrototypeOf", "isExtensible"}]
PrimitiveStaticCall(u) ==
  IF MethodName(u) = "" THEN FALSE
  ELSE LET recv == u.f.x
           m == u.f.name
       IN  /\ \/ \E owner \in DOMAIN PrimitiveHelpers : IsGlobal(recv, owner) /\ m \in PrimitiveHelpers[owner]
              \/ PrimitiveProcessCall(recv, m, u.as)
              \/ IsGlobal(recv, "os") /\ PrimitiveOsCall(m, u.as)
              \/ PathModule(recv) /\ PrimitivePathCall(m, u.as)
              \/ IsGlobal(recv, "net") /\ NetCall(m, u.as)
              \/ IsGlobal(recv, "events") /\ PrimitiveEventsStaticCall(m, u.as)
              \/ IsGlobal(recv, "EventEmitter") /\ m = "listenerCount" /\ PrimitiveEventsStaticCall(m, u.as)
           /\ StaticCallPure(u)

(* isSideEffectFreePrimitiveMethodCall.                                    *)
TextMethods == (TextReturning \union {"includes", "indexOf", "lastIndexOf", "charCodeAt", "codePointAt", "startsWith",
                "endsWith", "localeCompare", "isWellFormed", "search"})
PrimitiveMethodCall(u) ==
  IF MethodName(u) = "" THEN FALSE
  ELSE LET recv == u.f.x
           m == u.f.name
           as == u.as
       IN  \/ m \in TextMethods /\ StringMethodCall(recv, m, as)
           \/ m \in Texts /\ (BuiltinMethod(recv, m, as) \/ PrimitiveStringMethod(u))
           \/ m = "valueOf" /\ PrimitiveValueOf(u)
           \/ m \in OwnTests /\ BuiltinMethod(recv, m, as)
           \/ ArrayMethodCall(recv, m, as) \/ ErrorMethodCall(recv, m, as) \/ HashMethodCall(m, as)
           \/ PrimitiveEventEmitterMethodCall(recv, m, as) \/ PrimitiveEventMethodCall(recv, m, as)
           \/ PrimitiveEventTargetMethodCall(recv, m, as) \/ PrimitiveStdioMethodCall(recv, m, as)
           \/ PrimitiveStreamMethodCall(recv, m, as)

Base64Text(x) == LET t == StringText(x) IN Known(t) /\ Ascii(t.s) /\ Occurs(t.s, "%") = {}
(* isSideEffectFreeGlobalCall: a call of a plain name.                     *)
NumericParserArgs(name, as) ==
  /\ as # <<>> /\ NumberCoercion(as[1]) /\ (Len(as) < 2 \/ NumberCoercion(Arg(as, 2)))
  /\ IgnoredPure(as, IF name = "parseInt" THEN 2 ELSE 1)
ErrorArgs(as) == as = <<>> \/ (NumberCoercion(Arg(as, 1)) /\ IgnoredPure(as, 1))
GlobalCallPure(u) ==
  LET f == Unwrap(u.f)
      as == u.as
      one(P(_)) == as # <<>> /\ P(Arg(as, 1)) /\ IgnoredPure(as, 1)
  IN CASE f.k = "import" ->
            CASE f.mod = "os" -> OsCall(f.name, as) [] f.mod = "path" -> PathCall(f.name, as)
              [] f.mod = "net" -> NetCall(f.name, as) [] f.mod = "events" -> EventsStaticCall(f.name, as)
              [] f.mod = "stream" -> StreamCall(f.name, as) [] OTHER -> FALSE
       [] f.k # "global" -> FALSE
       [] f.name \in RuntimeGlobals -> FALSE
       [] f.name \in {"parseInt", "parseFloat"} -> NumericParserArgs(f.name, as)
       [] f.name \in {"isNaN", "isFinite"} -> one(NumberCoercion)
       [] f.name = "AggregateError" -> AggregateErrorArgs(as)
       [] f.name \in Errors -> ErrorArgs(as)
       [] f.name \in UriNames -> one(UriCoercion)
       [] f.name = "btoa" -> one(StringCoercionPure)
       [] f.name = "atob" -> one(Base64Text)
       [] OTHER -> FALSE
GlobalText(x, names) ==        \* a call of one of these globals, or a const of one
  LET u == Unwrap(x)
  IN  IF u.k = "call" /\ u.f.k = "global" /\ u.f.name \in names THEN GlobalCallPure(u)
      ELSE Known(EarlierConst(u)) /\ GlobalText(EarlierConst(u), names)

(* isSideEffectFreeNewExpression.                                          *)
Sourced(as, P(_)) == as = <<>> \/ (Len(as) = 1 /\ P(Arg(as, 1)))
NewPure(u) ==
  LET f == Unwrap(u.f)
      as == u.as
  IN CASE f.k # "global" -> FALSE
       [] f.name \in RuntimeGlobals -> FALSE
       [] f.name \in {"EventEmitter", "EventTarget"} -> IgnoredPure(as, 0)
       [] f.name = "Event" -> EventArgs(as)
       [] f.name = "Promise" -> Len(as) = 1 /\ ExecutorPure(as[1])
       [] f.name = "AggregateError" -> AggregateErrorArgs(as)
       [] f.name = "Map" -> Sourced(as, MapSource)
       [] f.name = "Set" -> Sourced(as, SetSource)
       [] f.name = "WeakMap" -> Sourced(as, WeakMapSource)
       [] f.name = "WeakSet" -> Sourced(as, WeakSetSource)
       [] f.name \in Errors -> ErrorArgs(as)
       [] OTHER -> FALSE

Pair(e) == e.k = "arr" /\ Len(e.es) >= 2 /\ \A i \in DOMAIN e.es : e.es[i].k # "hole"
MapSource(x) ==
  LET u == Unwrap(x)
      list == MapArraySource(u)
      pure(e) == Pair(e) /\ \A i \in DOMAIN e.es : Pure(e.es[i])
  IN CASE MutatesNonFresh(u) -> FALSE
       [] Known(list) -> \A i \in DOMAIN list.es : pure(EntryLiteral(list.es[i]))
       [] ObjectCall(u, "entries") /\ Len(u.as) = 1 -> CoercionOperand(u.as[1])
       [] NewOf(u, {"Map"}) /\ NewPure(u) -> TRUE
       [] BuiltLength(u) = Num(0) -> TRUE
       [] OTHER -> Through(u, MapSource)
SetSource(x) ==
  LET u == Unwrap(x)
  IN CASE MutatesNonFresh(u) -> FALSE
       [] ArrayOperand(u) -> TRUE
       [] NewOf(u, {"Set"}) /\ NewPure(u) -> TRUE
       [] OTHER -> Through(u, SetSource)
WeakMapSource(x) ==
  LET u == Unwrap(x)
      list == MapArraySource(u)
      pure(e) == Pair(e) /\ FreshLiteral(e.es[1]) /\ \A i \in 2 .. Len(e.es) : Pure(e.es[i])
  IN CASE Known(list) -> \A i \in DOMAIN list.es : pure(EntryLiteral(list.es[i]))
       [] NewOf(u, {"Map"}) -> Sourced(u.as, WeakMapSource)
       [] OTHER -> Through(u, WeakMapSource)
WeakSetSource(x) ==
  LET u == Unwrap(x)
      list == ArraySource(u)
  IN CASE Known(list) -> \A i \in DOMAIN list.es : FreshLiteral(list.es[i])
       [] NewOf(u, {"Set"}) -> Sourced(u.as, WeakSetSource)
       [] OTHER -> Through(u, WeakSetSource)
ErrorOptions(x) ==
  LET u == Unwrap(x)
  IN IF u.k = "obj" THEN \A i \in DOMAIN u.ps : u.ps[i].p = "prop" /\ Pure(u.ps[i].x) ELSE Through(u, ErrorOptions)

(* --------------------------------- JSON --------------------------------- *)

JsonStringify(x) ==
  LET u == Unwrap(x)
  IN  IF OwnerCall(u, {"JSON"}, {"stringify"}) /\ Len(u.as) \in 1 .. 3
      THEN /\ JsonOperand(u.as[1])
           /\ Len(u.as) < 2 \/ JsonReplacer(Arg(u.as, 2))
           /\ Len(u.as) < 3 \/ JsonSpace(Arg(u.as, 3))
      ELSE Through(u, JsonStringify)
JsonOperand(x) ==
  LET u == Unwrap(x)
  IN CASE u.k \in {"bool", "null", "str", "num"} -> TRUE
       [] u.k = "un" -> Signed(u) /\ JsonOperand(u.x)
       [] u.k = "arr" -> \A i \in DOMAIN u.es : u.es[i].k \notin {"hole", "spread"} /\ JsonOperand(u.es[i])
       [] u.k = "obj" -> \A i \in DOMAIN u.ps : u.ps[i].p = "prop" /\ JsonOperand(u.ps[i].x)
       [] OTHER -> Through(u, JsonOperand)
JsonReplacer(x) ==
  LET u == Unwrap(x)
  IN CASE u.k = "null" -> TRUE
       [] u.k = "arr" -> \A i \in DOMAIN u.es : u.es[i].k \in {"str", "num"}
       [] OTHER -> Through(u, JsonReplacer)
JsonSpace(x) == LET u == Unwrap(x) IN u.k \in {"null", "str", "num"} \/ Through(u, JsonSpace)
ValidJson == {"1", "[]", "null"}     \* the texts of the instances that parse
JsonParse(x) ==
  LET u == Unwrap(x)
      t == StringText(u.as[1])
  IN  IF OwnerCall(u, {"JSON"}, {"parse"}) /\ Len(u.as) \in 1 .. 2
      THEN Known(t) /\ t.s \in ValidJson /\ (Len(u.as) = 1 \/ Unwrap(Arg(u.as, 2)).k = "null")
      ELSE Through(u, JsonParse)

(* ------------------------- values that are no object -------------------- *)

StringElementPure(u) == u.k = "at" /\ StringOperand(u.x) /\ PrimitiveNumber(u.y).k \in {"num", "-0"}
PrimitiveRead(u) ==
  \/ u.k = "get" /\ u.name = "length" /\ LengthPure(u.x)
  \/ u.k = "get" /\ u.name = "size" /\ CollectionSize(u.x)
  \/ ErrorStringRead(u) \/ ErrorDescriptorString(u) \/ ErrorStringMethodCall(u) \/ PrimitiveEventRead(u)
  \/ EventStringMethodCall(u) \/ PrimitiveStringMethod(u) \/ BuiltinStringMethod(u) \/ PrototypeToString(u)
  \/ PrototypeReadonly(u) \/ ProcessRead(u) \/ ProcessUsageRead(u) \/ ProcessObjectRead(u) \/ UserInfoRead(u)
  \/ PathParseRead(u) \/ StdioRead(u) \/ ModuleRead(u) \/ ModuleConstantRead(u) \/ DefaultMaxListenersRead(u)
  \/ StringElementPure(u) \/ PropertyRead(u) \/ TupleAccess(u) \/ ElementAccess(u)
PrimitiveGlobals == {"Date", "parseInt", "parseFloat", "isNaN", "isFinite", "btoa", "atob"} \union UriNames
PrimitiveCall(u) ==
  /\ u.k = "call"
  /\ \/ AbsentDescriptor(u)
     \/ u.f.k = "global" /\ u.f.name \in PrimitiveGlobals /\ GlobalCallPure(u)
     \/ PrimitiveOsCall(ModuleMethod(u, "os"), u.as) /\ u.f.k = "import"
     \/ PrimitivePathCall(ModuleMethod(u, "path"), u.as) /\ u.f.k = "import"
     \/ NetCall(ModuleMethod(u, "net"), u.as) /\ u.f.k = "import"
     \/ PrimitiveEventsStaticCall(ModuleMethod(u, "events"), u.as) /\ u.f.k = "import"
     \/ StreamCall(ModuleMethod(u, "stream"), u.as) /\ u.f.k = "import"
     \/ PrimitiveStaticCall(u) \/ PrimitiveMethodCall(u)
     \/ OwnerCall(u, {"RegExp", "String", "Date", "Number"}, {MethodName(u)}) /\ StaticCallPure(u)

(* isSideEffectFreePrimitivePromiseResolveValue.                           *)
PrimitivePure(x) ==
  LET u == Unwrap(x)
      c == StaticBoolean(u.c)
  IN CASE u.k \in {"bool", "null", "str", "num", "big"} -> TRUE
       [] u.k = "template" -> \A i \in DOMAIN u.spans : PrimitivePure(u.spans[i].x)
       [] u.k = "cond" -> IF Known(c) THEN PrimitivePure(IF c.b THEN u.x ELSE u.y)
                          ELSE Pure(u.c) /\ PrimitivePure(u.x) /\ PrimitivePure(u.y)
       [] u.k = "bin" -> PrimitiveBinary(u)
       [] u.k = "delete" -> DeletePure(u)
       [] u.k \in {"void", "typeof"} -> Pure(u.x)
       [] u.k = "global" -> u.name \in {"NaN", "Infinity"} \/ CommonJsPath(u)
       [] u.k = "import" -> BuiltinStringName(u) \/ BuiltinNumberName(u)
       [] u.k = "un" -> PrimitivePure(u.x)
       [] OTHER -> \/ JsonStringify(u) \/ StringReturningMethod(u) \/ PrimitiveRead(u) \/ PrimitiveCall(u)
                   \/ Through(u, PrimitivePure)
PrimitiveBinary(u) ==
  LET l == StaticBoolean(u.x)
      s == NullishState(u.x)
      both == PrimitivePure(u.x) /\ PrimitivePure(u.y)
      right == Pure(u.x) /\ PrimitivePure(u.y)
      decided(left) == IF left THEN PrimitivePure(u.x) ELSE right
  IN CASE u.op \in {"&&", "||"} -> IF Known(l) THEN decided(l.b = (u.op = "||")) ELSE both
       [] u.op = "??" -> IF s = "unknown" THEN both ELSE decided(s = "nonNullish")
       [] u.op = "," -> right
       [] u.op \in NumericOperators \union Comparisons -> NumericOperand(u.x) /\ NumericOperand(u.y)
       [] u.op \in {"==", "===", "!=", "!=="} -> both
       [] u.op = "in" -> PrimitivePure(u.x) /\ InRight(u.y)
       [] OTHER -> FALSE
NumericOperand(x) ==
  LET u == Unwrap(x)
  IN  \/ u.k = "get" /\ u.name = "length" /\ LengthPure(u.x)
      \/ ModuleConstantRead(u) \/ ProcessUsageRead(u) \/ UserInfoRead(u) \/ DefaultMaxListenersRead(u)
      \/ BuiltinNumberName(u) \/ NumberCoercion(u)

===============================================================================
