------------------------------ MODULE JsReference ------------------------------
(***************************************************************************)
(* What evaluating an expression does, by ECMAScript's evaluation rules and *)
(* Node's documentation: the reference the static analyses are compared    *)
(* with.  Eval(x, w) is the value of x, where w is the value of the        *)
(* variables nobody knows, and whether getting there ran user code or      *)
(* threw (act).  What this module does not describe acts, so no analysis    *)
(* can be right about it by accident.                                      *)
(***************************************************************************)
EXTENDS JsSyntax

(* Values: the primitives of JsSyntax and these.                           *)
Unknown == [k |-> "unknown"]
UserObject == [k |-> "userobject"]                   \* its conversions and reads are user code
HostValue(type) == [k |-> "hostvalue", type |-> type] \* a primitive only the host knows
HostObject(class) == [k |-> "hostobject", class |-> class]
Function(fn) == [k |-> "function", fn |-> fn]
Array(id, vs) == [k |-> "array", id |-> id, vs |-> vs]
Object(id, own, proto) == [k |-> "object", id |-> id, own |-> own, proto |-> proto]
Own(name, v, enumerable) == [name |-> name, v |-> v, enumerable |-> enumerable]
Accessor == [k |-> "accessor"]
Collection(kind, keys) == [k |-> "collection", kind |-> kind, keys |-> keys]
Promise(state) == [k |-> "promise", state |-> state]

Returns(v) == [v |-> v, act |-> FALSE]
Acts == [v |-> Unknown, act |-> TRUE]
If(ok, v) == [v |-> v, act |-> ~ok]
Then(r, s) == [v |-> s.v, act |-> r.act \/ s.act]    \* r, then s
AnyAct(rs) == \E i \in DOMAIN rs : rs[i].act
ValuesOf(rs) == [i \in DOMAIN rs |-> rs[i].v]

IsPrimitive(v) == v.k \in {"str", "num", "nan", "inf", "-inf", "-0", "big", "bool", "null", "undefined", "hostvalue"}
Objects == {"array", "object", "hostobject", "collection", "promise", "userobject", "function"}
RECURSIVE Clean(_)
Clean(v) ==                    \* converting it to a primitive runs no user code
  CASE v.k = "array" -> \A i \in DOMAIN v.vs : Clean(v.vs[i])
    [] OTHER -> v.k \notin {"userobject", "unknown", "accessor"}

(* ----------------------------- conversions ------------------------------ *)

Truthy(v) ==
  CASE v.k = "bool" -> v.b [] v.k = "str" -> v.s # "" [] v.k = "big" -> v.n # 0 [] v.k = "num" -> v.n # 0
    [] OTHER -> v.k \notin {"null", "undefined", "nan", "-0"}
Nullish(v) == v.k \in {"null", "undefined"}
TypeofText(v) ==
  CASE v.k = "undefined" -> "undefined" [] v.k = "str" -> "string" [] IsNumber(v) -> "number" [] v.k = "big" -> "bigint"
    [] v.k = "bool" -> "boolean" [] v.k = "function" -> "function" [] v.k = "hostvalue" -> v.type [] OTHER -> "object"

ToNumber(v) ==
  CASE IsNumber(v) -> Returns(v)
    [] v.k = "bool" -> Returns(Num(IF v.b THEN 1 ELSE 0))
    [] v.k = "null" -> Returns(Num(0))
    [] v.k = "undefined" -> Returns(NaN)
    [] v.k = "str" -> Returns(TextNum(v.s))
    [] v.k = "big" -> Acts                           \* a TypeError
    [] v.k = "hostvalue" -> If(v.type # "bigint", HostValue("number"))
    [] OTHER -> If(Clean(v), HostValue("number"))
ToText(v) ==
  CASE v.k = "str" -> Returns(v)
    [] IsNumber(v) -> Returns(Str(NumText(v)))
    [] v.k = "big" -> Returns(Str(ToString(v.n)))
    [] v.k = "bool" -> Returns(Str(IF v.b THEN "true" ELSE "false"))
    [] Nullish(v) -> Returns(Str(v.k))
    [] OTHER -> If(Clean(v), HostValue("string"))
(* A number for a position; a host value makes the result one.             *)
Opaque(v) == v.k = "hostvalue"

StrictEqual(a, b) == a # NaN /\ (a = b \/ {a, b} = {Num(0), NegZero})
LooselyEqual(a, b) ==
  LET num(v) == IF v.k = "big" THEN Num(v.n) ELSE ToNumber(v).v
  IN  IF Nullish(a) \/ Nullish(b) THEN Nullish(a) /\ Nullish(b)
      ELSE IF a.k = b.k THEN StrictEqual(a, b) ELSE StrictEqual(num(a), num(b))

BigArith(op, a, b) ==
  CASE op = "+" -> Returns(Big(a + b)) [] op = "-" -> Returns(Big(a - b)) [] op = "*" -> Returns(Big(a * b))
    [] op = "/" -> IF b = 0 THEN Acts ELSE Returns(Big(a \div b))
    [] op = "%" -> IF b = 0 THEN Acts ELSE Returns(Big(a % b))
    [] op = "**" -> IF b < 0 THEN Acts ELSE Returns(Big(a ^ b))
    [] OTHER -> Acts
Arithmetic(op, a, b) ==
  CASE ~IsPrimitive(a) \/ ~IsPrimitive(b) -> If(Clean(a) /\ Clean(b), HostValue("string"))
    [] op = "+" /\ "str" \in {a.k, b.k} /\ ~Opaque(a) /\ ~Opaque(b) -> Returns(Str(ToText(a).v.s \o ToText(b).v.s))
    [] a.k = "big" /\ b.k = "big" -> BigArith(op, a.n, b.n)
    [] "big" \in {a.k, b.k} -> Acts
    [] Opaque(a) \/ Opaque(b) -> Returns(HostValue("number"))
    [] OTHER -> Returns(Arith(op, ToNumber(a).v, ToNumber(b).v))
Ordered(op, a, b) ==
  LET n == IF a.k = "big" THEN Num(a.n) ELSE ToNumber(a).v
      m == IF b.k = "big" THEN Num(b.n) ELSE ToNumber(b).v
  IN CASE ~IsPrimitive(a) \/ ~IsPrimitive(b) \/ Opaque(a) \/ Opaque(b) -> If(Clean(a) /\ Clean(b), HostValue("boolean"))
       [] a.k = "str" /\ b.k = "str" -> Returns(Bool(Compare(op, TextLess(a.s, b.s), a = b)))
       [] OTHER -> Returns(Bool(n # NaN /\ m # NaN /\ Compare(op, Less(n, m), ~Less(n, m) /\ ~Less(m, n))))

(* ------------------------------ properties ------------------------------ *)

Index(name) == IF \E n \in 0 .. 9 : ToString(n) = name THEN CHOOSE n \in 0 .. 9 : ToString(n) = name ELSE -1
Present(v) == IF v.k = "hole" THEN Undef ELSE v
Last1(S) == CHOOSE i \in S : \A j \in S : i >= j
ErrorNames == {"Error", "TypeError", "AggregateError"}
HostFields ==                  \* class, name: the type of the host's value
  [Error |-> [name |-> "string", message |-> "string", cause |-> "undefined", errors |-> "undefined"],
   Event |-> [type |-> "string", defaultPrevented |-> "boolean", cancelable |-> "boolean", target |-> "object"],
   stdin |-> [fd |-> "number", isTTY |-> "boolean", readableEnded |-> "boolean", closed |-> "boolean"],
   stdout |-> [fd |-> "number", isTTY |-> "boolean", writable |-> "boolean", columns |-> "number", closed |-> "boolean"],
   cpuUsage |-> [user |-> "number", system |-> "number"],
   versions |-> [node |-> "string"],
   release |-> [name |-> "string"],
   userInfo |-> [username |-> "string", uid |-> "number"],
   parsed |-> [base |-> "string", dir |-> "string"],
   process |-> [platform |-> "string", pid |-> "number", argv0 |-> "string"],
   path |-> [sep |-> "string", delimiter |-> "string"],
   os |-> [EOL |-> "string"],
   dns |-> [ADDRCONFIG |-> "number"],
   events |-> [defaultMaxListeners |-> "number"],
   module |-> [filename |-> "string", loaded |-> "boolean"],
   signals |-> [SIGINT |-> "number"]]
HostMembers ==                 \* class, name: the class of the host's object
  [process |-> [stdin |-> "stdin", stdout |-> "stdout", versions |-> "versions", release |-> "release"],
   os |-> [constants |-> "osconstants"], osconstants |-> [signals |-> "signals"]]
HostRead(class, name) ==
  IF class \in DOMAIN HostFields /\ name \in DOMAIN HostFields[class]
  THEN LET type == HostFields[class][name]
       IN  Returns(IF type = "undefined" THEN Undef ELSE IF type = "object" THEN HostObject("any") ELSE HostValue(type))
  ELSE IF class \in DOMAIN HostMembers /\ name \in DOMAIN HostMembers[class]
  THEN Returns(HostObject(HostMembers[class][name]))
  ELSE Acts

RECURSIVE Read(_, _)
Read(v, name) ==               \* v.name
  LET at == {i \in DOMAIN v.own : v.own[i].name = name}
      p == v.own[Last1(at)].v
      i == Index(name)
  IN CASE v.k \in {"null", "undefined", "userobject", "unknown"} -> Acts
       [] v.k = "str" -> IF name = "length" THEN Returns(Num(Len(v.s)))
                         ELSE IF i >= 0 THEN Returns(IF i < Len(v.s) THEN Str(Unit(v.s, i)) ELSE Undef) ELSE Returns(Undef)
       [] v.k = "array" -> IF name = "length" THEN Returns(Num(Len(v.vs)))
                           ELSE Returns(IF 0 <= i /\ i < Len(v.vs) THEN Present(v.vs[i + 1]) ELSE Undef)
       [] v.k = "object" -> IF at # {} THEN If(p.k # "accessor", p)
                            ELSE IF v.proto.k = "null" THEN Returns(Undef) ELSE Read(v.proto, name)
       [] v.k = "collection" -> IF name = "size" THEN Returns(Num(Cardinality(v.keys))) ELSE Acts
       [] v.k = "hostobject" -> HostRead(v.class, name)
       [] v.k = "hostvalue" -> IF v.type = "string" THEN Returns(HostValue(IF name = "length" THEN "number" ELSE "string"))
                               ELSE Returns(Undef)
       [] v.k \in {"function", "promise"} -> Acts
       [] OTHER -> Returns(Undef)

Names(v, enumerableOnly) ==    \* the own string keys
  LET indices(n) == {ToString(i) : i \in 0 .. n - 1}
      more == IF enumerableOnly THEN {} ELSE {"length"}
  IN CASE v.k = "str" -> indices(Len(v.s)) \union more
       [] v.k = "array" -> {ToString(i - 1) : i \in {j \in DOMAIN v.vs : v.vs[j].k # "hole"}} \union more
       [] v.k = "object" -> {v.own[i].name : i \in {j \in DOMAIN v.own : ~enumerableOnly \/ v.own[j].enumerable}}
       [] OTHER -> {}
(* The keys in the order of creation; the instances' integer keys are      *)
(* created in ascending order.                                             *)
KeyOrder(v, enumerableOnly) ==
  CASE v.k = "object" -> [i \in DOMAIN SelectSeq(v.own, LAMBDA o : ~enumerableOnly \/ o.enumerable) |->
                            SelectSeq(v.own, LAMBDA o : ~enumerableOnly \/ o.enumerable)[i].name]
    [] v.k \in {"str", "array"} ->
         LET n == IF v.k = "str" THEN Len(v.s) ELSE Len(v.vs)
         IN  SelectSeq([i \in 1 .. n |-> ToString(i - 1)], LAMBDA s : s \in Names(v, TRUE))
             \o (IF enumerableOnly THEN <<>> ELSE <<"length">>)
    [] OTHER -> <<>>
SetOwn(own, o) ==
  LET at == {i \in DOMAIN own : own[i].name = o.name} IN IF at = {} THEN Append(own, o) ELSE [own EXCEPT ![Last1(at)] = o]
SetAll(own, os) == FoldLeft(SetOwn, own, os)
(* The own enumerable properties of a source, as spread and assign copy    *)
(* them: reading an accessor is user code.                                 *)
Copied(v) == [i \in DOMAIN KeyOrder(v, TRUE) |-> LET n == KeyOrder(v, TRUE)[i] IN Own(n, Read(v, n).v, TRUE)]
CopyClean(v) ==
  /\ v.k \notin {"userobject", "unknown"}
  /\ v.k = "object" => \A i \in DOMAIN v.own : v.own[i].v.k # "accessor"
Iterated(v) ==                 \* the values an iteration yields, or No
  CASE v.k = "array" -> [k |-> "list", vs |-> [i \in DOMAIN v.vs |-> Present(v.vs[i])]]
    [] v.k = "str" -> [k |-> "list", vs |-> [i \in 1 .. Len(v.s) |-> Str(SubSeq(v.s, i, i))]]
    [] v.k = "collection" /\ v.keys = {} -> [k |-> "list", vs |-> <<>>]
    [] OTHER -> No

Fresh == "fresh"               \* the identity of an array nobody else has
NewArray(vs) == Array(Fresh, vs)
HostProto == Null              \* Object.prototype has none of the instances' names
NewObject(own) == Object(Fresh, own, HostProto)

(* ------------------------------- methods -------------------------------- *)

Positional == {"charAt", "at", "slice", "substring", "substr", "charCodeAt", "codePointAt"}
Searching == {"indexOf", "lastIndexOf", "includes", "startsWith", "endsWith"}
Casing == {"toUpperCase", "toLowerCase", "toLocaleUpperCase", "toLocaleLowerCase", "trim", "trimStart", "trimEnd",
           "trimLeft", "trimRight"}
TextMethod(s, m, as) ==
  LET a == Arg(as, 1)
      b == Arg(as, 2)
      num(v) == IF v.k = "undefined" THEN Returns(Undef) ELSE ToNumber(v)
      na == ToNumber(a)
      nb == num(b)
      ta == ToText(a)
      tb == IF b.k = "undefined" THEN Returns(Str(" ")) ELSE ToText(b)
      opaque(r) == Opaque(r.v)
      texts == [i \in DOMAIN as |-> ToText(as[i])]
  IN CASE m \in Casing -> Returns(HostString(m, s, Undef, Undef))
       [] m \in Positional -> IF opaque(na) \/ opaque(nb) THEN If(~na.act /\ ~nb.act, HostValue("string"))
                              ELSE If(~na.act /\ ~nb.act, IF na.act \/ nb.act THEN Undef ELSE HostString(m, s, na.v, nb.v))
       [] m \in Searching -> IF opaque(ta) \/ opaque(nb) \/ ta.act \/ nb.act
                             THEN If(~ta.act /\ ~nb.act, HostValue("number")) ELSE Returns(HostString(m, s, ta.v, nb.v))
       [] m = "concat" -> IF \E i \in DOMAIN as : texts[i].act \/ opaque(texts[i])
                          THEN If(~AnyAct(texts), HostValue("string"))
                          ELSE Returns(Str(s \o Concat([i \in DOMAIN as |-> texts[i].v.s])))
       [] m = "repeat" -> IF na.act \/ na.v.k \in {"inf", "-inf"} \/ (na.v.k = "num" /\ na.v.n < 0) THEN Acts
                          ELSE Returns(HostString(m, s, na.v, Undef))
       [] m \in {"padStart", "padEnd"} -> IF na.act \/ tb.act \/ na.v.k = "inf" THEN Acts
                                          ELSE Returns(HostString(m, s, na.v, tb.v))
       [] m \in {"toString", "valueOf"} -> Returns(Str(s))
       [] m \in {"split", "normalize", "localeCompare", "replace", "isWellFormed"} ->
            If(~ta.act /\ ~tb.act, IF m = "split" THEN HostObject("any") ELSE HostValue("string"))
       [] OTHER -> Acts

SortText(vs) ==                \* default order, of texts
  SortSeq(vs, LAMBDA a, b : TextLess(a.s, b.s))
ArrayMethod(v, m, as) ==
  LET vs == v.vs
      n == Len(vs)
      pos(i, d) == IF Arg(as, i).k = "undefined" THEN From(d, n) ELSE From(Integer(ToNumber(Arg(as, i)).v, n), n)
      clean(lo) == \A i \in lo .. Len(as) : ~ToNumber(as[i]).act
      one == ToNumber(Arg(as, 1)).v
      list(x) == IF x.k = "array" THEN x.vs ELSE <<x>>
      same(ws) == Array(v.id, ws)
      del == IF Len(as) = 0 THEN 0 ELSE IF Len(as) = 1 THEN n - pos(1, 0)
             ELSE Clamp(Integer(ToNumber(as[2]).v, n), 0, n - pos(1, 0))
      at == LET i == Integer(one, n) IN IF i < 0 THEN n + i ELSE i
  IN CASE m = "slice" -> If(clean(1), NewArray(SubSeq(vs, pos(1, 0) + 1, pos(2, n))))
       [] m = "concat" -> Returns(NewArray(vs \o FlattenSeq([i \in DOMAIN as |-> list(as[i])])))
       [] m = "flat" -> If(clean(1), IF one = Num(0) THEN NewArray(vs)
                                     ELSE NewArray(FlattenSeq([i \in DOMAIN vs |-> list(vs[i])])))
       [] m = "with" -> If(clean(1) \/ at \in 0 .. n - 1,
                           IF at \in 0 .. n - 1 THEN NewArray([vs EXCEPT ![at + 1] = Arg(as, 2)]) ELSE Undef)
       [] m = "toSpliced" -> If(~ToNumber(Arg(as, 1)).act /\ ~ToNumber(Arg(as, 2)).act,
                                NewArray(SubSeq(vs, 1, pos(1, 0)) \o SubSeq(as, 3, Len(as))
                                         \o SubSeq(vs, pos(1, 0) + del + 1, n)))
       [] m = "fill" -> If(clean(2), same([i \in 1 .. n |-> IF pos(2, 0) < i /\ i <= pos(3, n) THEN Arg(as, 1) ELSE vs[i]]))
       [] m = "copyWithin" ->
            LET to == pos(1, 0)
                from == pos(2, 0)
                count == Clamp(pos(3, n) - from, 0, n - to)
            IN  If(clean(1), same([i \in 1 .. n |-> IF to < i /\ i <= to + count THEN vs[i - to + from] ELSE vs[i]]))
       [] m = "reverse" -> Returns(same(Reverse(vs)))
       [] m = "toReversed" -> Returns(NewArray(Reverse(vs)))
       [] m \in {"sort", "toSorted"} /\ Len(as) = 0 ->
            If(Clean(v), IF \A i \in 1 .. n : vs[i].k = "str" THEN (IF m = "sort" THEN same(SortText(vs)) ELSE NewArray(SortText(vs)))
                         ELSE NewArray([i \in 1 .. n |-> HostValue("number")]))
       [] m \in {"map", "filter", "flatMap"} /\ n = 0 -> If(Arg(as, 1).k = "function", NewArray(<<>>))
       [] OTHER -> Acts

(* Object and Reflect.                                                     *)
Descriptor(v) == NewObject(<<Own("value", v, TRUE), Own("writable", Bool(TRUE), TRUE), Own("enumerable", Bool(TRUE), TRUE),
                             Own("configurable", Bool(TRUE), TRUE)>>)
FieldOf(v, name) == IF v.k # "object" THEN Undef ELSE Read(v, name).v
Defined(name, d) == Own(name, FieldOf(d, "value"), Truthy(FieldOf(d, "enumerable")))
KeyText(v) == ToText(v).v
ObjectFunction(m, as) ==
  LET a == Arg(as, 1)
      b == Arg(as, 2)
      c == Arg(as, 3)
      list(n) == KeyOrder(a, m \notin {"getOwnPropertyNames", "ownKeys"})[n]
      names == KeyOrder(a, m \notin {"getOwnPropertyNames", "ownKeys"})
      readable == a.k # "object" \/ \A i \in DOMAIN a.own : a.own[i].v.k # "accessor"
      own == IF a.k = "object" THEN a.own ELSE <<>>
      isObject(v) == v.k \in {"array", "object", "hostobject"}
      pairs == Iterated(a)
      pair(i) == Own(KeyText(Arg(pairs.vs[i].vs, 1)).s, Arg(pairs.vs[i].vs, 2), TRUE)
  IN CASE a.k \in {"userobject", "unknown"} \/ b.k \in {"userobject", "unknown"} -> Acts
       [] m = "create" -> If(isObject(a) \/ a.k = "null",
                             Object(Fresh, [i \in DOMAIN Copied(b) |-> Defined(Copied(b)[i].name, Copied(b)[i].v)], a))
       [] m = "fromEntries" -> IF ~Known(pairs) THEN Acts ELSE Returns(NewObject(SetAll(<<>>, [i \in DOMAIN pairs.vs |-> pair(i)])))
       [] Nullish(a) -> Acts
       [] m \in {"keys", "getOwnPropertyNames"} -> Returns(NewArray([i \in DOMAIN names |-> Str(names[i])]))
       [] m = "ownKeys" -> If(isObject(a), NewArray([i \in DOMAIN names |-> Str(names[i])]))
       [] m = "getOwnPropertySymbols" -> Returns(NewArray(<<>>))
       [] m = "values" -> If(readable, NewArray([i \in DOMAIN names |-> Read(a, list(i)).v]))
       [] m = "entries" -> If(readable, NewArray([i \in DOMAIN names |-> NewArray(<<Str(list(i)), Read(a, list(i)).v>>)]))
       [] m = "assign" -> If(isObject(a) /\ \A i \in 2 .. Len(as) : CopyClean(as[i]),
                             Object(Fresh, SetAll(own, FlattenSeq([i \in 1 .. Len(as) - 1 |-> Copied(as[i + 1])])), HostProto))
       [] m = "defineProperty" -> If(isObject(a) /\ c.k = "object", Object(Fresh, SetOwn(own, Defined(KeyText(b).s, c)), HostProto))
       [] m = "defineProperties" ->
            If(isObject(a) /\ b.k = "object",
               Object(Fresh, SetAll(own, [i \in DOMAIN Copied(b) |-> Defined(Copied(b)[i].name, Copied(b)[i].v)]), HostProto))
       [] m = "getOwnPropertyDescriptor" -> Returns(IF KeyText(b).s \in Names(a, FALSE) THEN Descriptor(Read(a, KeyText(b).s).v) ELSE Undef)
       [] m \in {"freeze", "seal", "preventExtensions"} -> Returns(a)
       [] OTHER -> Acts

(* Calls of the host that run no user code, with arguments that convert    *)
(* without: what they return.  path wants texts and throws otherwise.      *)
HostCalls ==
  [os |-> [platform |-> "string", cpus |-> "object", totalmem |-> "number", userInfo |-> "userInfo"],
   path |-> [join |-> "string", basename |-> "string", isAbsolute |-> "boolean", relative |-> "string", parse |-> "parsed"],
   net |-> [isIP |-> "number"],
   process |-> [cwd |-> "string", uptime |-> "number", cpuUsage |-> "cpuUsage", hrtime |-> "object"],
   stdin |-> [resume |-> "object", pause |-> "object", on |-> "object"],
   stdout |-> [cork |-> "undefined", on |-> "object"],
   EventEmitter |-> [on |-> "object", emit |-> "boolean", listenerCount |-> "number", eventNames |-> "object",
                     setMaxListeners |-> "object", getMaxListeners |-> "number", toString |-> "string"],
   EventTarget |-> [addEventListener |-> "undefined", dispatchEvent |-> "boolean", toString |-> "string"],
   Event |-> [preventDefault |-> "undefined", toString |-> "string"],
   Error |-> [toString |-> "string"],
   events |-> [listenerCount |-> "number", getMaxListeners |-> "number"],
   stream |-> [isReadable |-> "boolean"]]
HostCall(class, m, as) ==
  LET ok == \A i \in DOMAIN as : Clean(as[i]) \/ as[i].k = "function"
      arity == CASE m \in {"isAbsolute", "parse"} -> 1 [] m = "relative" -> 2 [] OTHER -> Len(as)
      texts == class = "path" => Len(as) >= arity /\ \A i \in 1 .. arity : TypeofText(as[i]) = "string"
      unheard == m = "emit" => as # <<>> /\ as[1] # Str("error") /\ as[1].k = "str"
      type == HostCalls[class][m]
      v == CASE type = "undefined" -> Undef [] type \in {"string", "number", "boolean"} -> HostValue(type)
             [] OTHER -> HostObject(IF type = "object" THEN "any" ELSE type)
  IN  IF class \in DOMAIN HostCalls THEN (IF m \in DOMAIN HostCalls[class] THEN If(ok /\ texts /\ unheard, v) ELSE Acts) ELSE Acts

GlobalFunction(name, as) ==
  LET t == ToText(Arg(as, 1))
      n == ToNumber(Arg(as, 1))
      radix == IF Len(as) < 2 THEN Returns(Undef) ELSE ToNumber(as[2])
      uri == HostUri(name, t.v.s)
  IN CASE name \in {"parseInt", "parseFloat"} ->
            IF t.act \/ radix.act THEN Acts
            ELSE Returns(IF Opaque(t.v) THEN HostValue("number") ELSE HostParse(name, t.v.s, radix.v))
       [] name \in {"isNaN", "isFinite"} ->
            IF n.act THEN Acts
            ELSE Returns(IF Opaque(n.v) THEN HostValue("boolean") ELSE Bool(IF name = "isNaN" THEN n.v = NaN ELSE IsFinite(n.v)))
       [] name \in UriNames -> IF t.act THEN Acts ELSE IF Opaque(t.v) THEN Returns(t.v) ELSE If(Known(uri), IF Known(uri) THEN uri ELSE Undef)
       [] OTHER -> Acts

(* ------------------------------ evaluation ------------------------------ *)

RECURSIVE Eval(_, _), EvalUnary(_, _), EvalBinary(_, _), EvalCall(_, _), EvalNew(_, _), Called(_, _), PromiseMethod(_, _, _, _)

EvalAll(xs, w) == [i \in DOMAIN xs |-> Eval(xs[i], w)]
(* The elements of a literal, or of the arguments of a call.               *)
EvalElements(es, w) ==
  LET of(e) == CASE e.k = "hole" -> [vs |-> <<e>>, act |-> FALSE]
                 [] e.k = "spread" -> LET r == Eval(e.x, w)
                                          list == Iterated(r.v)
                                      IN  IF Known(list) THEN [vs |-> list.vs, act |-> r.act] ELSE [vs |-> <<>>, act |-> TRUE]
                 [] OTHER -> LET r == Eval(e, w) IN [vs |-> <<r.v>>, act |-> r.act]
      parts == [i \in DOMAIN es |-> of(es[i])]
  IN  [vs |-> FlattenSeq([i \in DOMAIN parts |-> parts[i].vs]), act |-> \E i \in DOMAIN parts : parts[i].act]
EvalProperties(ps, w) ==
  LET of(p) == CASE p.p = "prop" -> LET r == Eval(p.x, w) IN [own |-> <<Own(p.name, r.v, TRUE)>>, act |-> r.act]
                 [] p.p = "getter" -> [own |-> <<Own(p.name, Accessor, TRUE)>>, act |-> FALSE]
                 [] p.p = "method" -> [own |-> <<Own(p.name, Function(Fn), TRUE)>>, act |-> FALSE]
                 [] p.p = "spread" -> LET r == Eval(p.x, w)
                                      IN  IF CopyClean(r.v) THEN [own |-> Copied(r.v), act |-> r.act] ELSE [own |-> <<>>, act |-> TRUE]
      parts == [i \in DOMAIN ps |-> of(ps[i])]
  IN  [own |-> SetAll(<<>>, FlattenSeq([i \in DOMAIN parts |-> parts[i].own])), act |-> \E i \in DOMAIN parts : parts[i].act]

Constructors == {"Object", "Function", "Promise", "Proxy", "RegExp", "Error", "TypeError", "Map", "Set"}
NameValue(name) ==
  CASE name = "NaN" -> NaN [] name = "Infinity" -> Inf
    [] name \in Constructors -> Function(Fn)
    [] name \in {"__filename", "__dirname"} -> HostValue("string")
    [] OTHER -> HostObject(name)

Eval(x, w) ==
  CASE x.k \in {"str", "num", "big", "bool", "null", "undefined"} -> Returns(x)
    [] x.k = "regexp" -> Returns(HostObject("RegExp"))
    [] x.k = "fn" -> Returns(Function(x))
    [] x.k = "class" -> If(x.b, Function(Fn))
    [] x.k = "global" -> Returns(NameValue(x.name))
    [] x.k = "import" -> IF x.name \in {"sep", "EOL"} THEN Returns(HostValue("string"))
                         ELSE IF x.name \in {"ADDRCONFIG", "defaultMaxListeners"} THEN Returns(HostValue("number"))
                         ELSE HostRead(x.mod, x.name)
    [] x.k = "const" -> Returns(Eval(x.x, w).v)      \* its initializer ran earlier
    [] x.k = "let" -> Returns(w)
    [] x.k = "user" -> Returns(UserObject)
    [] x.k = "paren" -> Eval(x.x, w)
    [] x.k = "void" -> Then(Eval(x.x, w), Returns(Undef))
    [] x.k = "typeof" -> LET r == Eval(x.x, w) IN [v |-> Str(TypeofText(r.v)), act |-> r.act]
    [] x.k = "delete" -> LET r == Eval(x.x.x, w) IN If(~r.act /\ r.v.k \in {"array", "object"}, Bool(TRUE))
    [] x.k = "un" -> EvalUnary(x, w)
    [] x.k = "bin" -> EvalBinary(x, w)
    [] x.k = "cond" -> LET c == Eval(x.c, w) IN Then(c, Eval(IF Truthy(c.v) THEN x.x ELSE x.y, w))
    [] x.k = "template" ->
         LET rs == [i \in DOMAIN x.spans |-> Eval(x.spans[i].x, w)]
             ts == [i \in DOMAIN rs |-> ToText(rs[i].v)]
         IN  IF AnyAct(rs) \/ AnyAct(ts) THEN Acts
             ELSE IF \E i \in DOMAIN ts : Opaque(ts[i].v) THEN Returns(HostValue("string"))
             ELSE Returns(Str(x.s \o Concat([i \in DOMAIN ts |-> ts[i].v.s \o x.spans[i].s])))
    [] x.k = "arr" -> LET r == EvalElements(x.es, w) IN [v |-> Array(x.id, r.vs), act |-> r.act]
    [] x.k = "obj" -> LET r == EvalProperties(x.ps, w) IN [v |-> Object(x.id, r.own, HostProto), act |-> r.act]
    [] x.k = "get" -> LET r == Eval(x.x, w) IN Then(r, Read(r.v, x.name))
    [] x.k = "at" -> LET r == Eval(x.x, w)
                         key == Eval(x.y, w)
                         name == ToText(key.v)
                     IN  IF key.act \/ name.act THEN Acts
                         ELSE IF Opaque(name.v) THEN (IF Nullish(r.v) THEN Acts ELSE Then(r, Returns(Unknown)))
                         ELSE Then(r, Read(r.v, name.v.s))
    [] x.k = "call" -> EvalCall(x, w)
    [] x.k = "new" -> EvalNew(x, w)
    [] OTHER -> Acts                                 \* a call of user code, a parameter

EvalUnary(x, w) ==
  LET r == Eval(x.x, w)
      n == ToNumber(r.v)
  IN CASE x.op = "!" -> [v |-> Bool(~Truthy(r.v)), act |-> r.act]
       [] x.op # "+" /\ r.v.k = "big" -> [v |-> Big(IF x.op = "-" THEN -r.v.n ELSE -1 - r.v.n), act |-> r.act]
       [] n.act -> Acts
       [] Opaque(n.v) \/ x.op = "+" -> Then(r, n)
       [] x.op = "-" -> [v |-> Negate(n.v), act |-> r.act]
       [] x.op = "~" -> [v |-> Num(-1 - Whole(n.v)), act |-> r.act]

EvalBinary(x, w) ==
  LET l == Eval(x.x, w)
      r == Eval(x.y, w)
      both(s) == Then(l, Then(r, s))
      opaque == Opaque(l.v) \/ Opaque(r.v)
  IN CASE x.op = "&&" -> IF Truthy(l.v) THEN Then(l, r) ELSE l
       [] x.op = "||" -> IF Truthy(l.v) THEN l ELSE Then(l, r)
       [] x.op = "??" -> IF Nullish(l.v) THEN Then(l, r) ELSE l
       [] x.op = "," -> Then(l, r)
       [] l.v.k = "unknown" \/ r.v.k = "unknown" -> Acts
       [] x.op \in {"===", "!=="} -> both(Returns(IF opaque THEN HostValue("boolean") ELSE Bool(StrictEqual(l.v, r.v) = (x.op = "==="))))
       [] x.op \in {"==", "!="} ->
            both(IF IsPrimitive(l.v) /\ IsPrimitive(r.v)
                 THEN Returns(IF opaque THEN HostValue("boolean") ELSE Bool(LooselyEqual(l.v, r.v) = (x.op = "==")))
                 ELSE If(Clean(l.v) /\ Clean(r.v), HostValue("boolean")))
       [] x.op \in Comparisons -> both(Ordered(x.op, l.v, r.v))
       [] x.op = "in" -> both(If(r.v.k \in {"array", "object"} /\ Clean(l.v), HostValue("boolean")))
       [] OTHER -> both(Arithmetic(x.op, l.v, r.v))

EvalCall(x, w) ==
  LET as == EvalElements(x.as, w)
      args(s) == [v |-> s.v, act |-> s.act \/ as.act]
      owner == x.f.x
      m == x.f.name
      recv == Eval(owner, w)
  IN CASE x.f.k = "global" -> args(GlobalFunction(x.f.name, as.vs))
       [] x.f.k = "import" -> args(HostCall(x.f.mod, x.f.name, as.vs))
       [] x.f.k # "get" -> Acts
       [] owner.k = "global" /\ owner.name \in {"Object", "Reflect"} -> args(ObjectFunction(m, as.vs))
       [] owner.k = "global" /\ owner.name = "Promise" -> PromiseMethod(Undef, m, x.as, w)
       [] owner = Get(Get(Global("Object"), "prototype"), "valueOf") /\ m = "call" -> args(If(~Nullish(Arg(as.vs, 1)), Arg(as.vs, 1)))
       [] owner = Get(Get(Global("Object"), "prototype"), "toString") /\ m = "call" -> args(If(Clean(Arg(as.vs, 1)), HostValue("string")))
       [] recv.v.k = "promise" -> Then(recv, PromiseMethod(recv.v, m, x.as, w))
       [] recv.v.k = "str" -> Then(recv, args(TextMethod(recv.v.s, m, as.vs)))
       [] recv.v.k = "array" -> Then(recv, args(ArrayMethod(recv.v, m, as.vs)))
       [] recv.v.k = "object" -> Then(recv, args(If(m \in {"valueOf", "toString"} /\ Clean(recv.v),
                                                    IF m = "valueOf" THEN recv.v ELSE HostValue("string"))))
       [] recv.v.k \in {"num", "bool", "big"} -> Then(recv, args(CASE m = "toString" -> ToText(recv.v) [] m = "valueOf" -> Returns(recv.v)
                                                                   [] OTHER -> Acts))
       [] recv.v.k = "hostvalue" -> Then(recv, args(If(m \in Positional \union Casing \union {"toString", "valueOf"}
                                                       /\ \A i \in DOMAIN as.vs : ~ToNumber(as.vs[i]).act, HostValue("string"))))
       [] recv.v.k = "hostobject" -> Then(recv, args(HostCall(recv.v.class, m, as.vs)))
       [] OTHER -> Acts

(* ------------------------------- promises ------------------------------- *)

(* What a promise resolved with v becomes: looking for then on a user's    *)
(* object is user code.                                                    *)
Adopted(v) ==
  CASE v.k = "promise" -> Returns(v)
    [] v.k \in {"userobject", "unknown"} -> Acts
    [] OTHER -> Returns(Promise("fulfilled"))
(* Calling a function the program wrote.                                   *)
Called(fn, w) ==
  CASE fn.body.how \in {"expr", "return"} -> Eval(fn.body.x, w)
    [] fn.body.how = "stmt" -> Then(Eval(fn.body.x, w), Returns(Undef))
    [] fn.body.how = "empty" -> Returns(Undef)
    [] OTHER -> Acts
(* The callbacks of an instance method are evaluated; the one that is      *)
(* called decides what the new promise becomes.                            *)
PromiseMethod(recv, m, xs, w) ==
  LET as == EvalElements(xs, w)
      arg(i) == Arg(as.vs, i)
      done(r) == IF r.act THEN Acts ELSE Adopted(r.v)
      handled(i) == IF arg(i).k = "function" THEN done(Called(arg(i).fn, w)) ELSE Returns(recv)
      result ==
        CASE m = "resolve" -> Adopted(arg(1))
          [] m = "reject" -> Returns(Promise("rejected"))
          [] m = "try" -> IF arg(1).k = "function" THEN done(Called(arg(1).fn, w)) ELSE Acts
          [] recv.k # "promise" -> Acts
          [] recv.state = "pending" -> Returns(recv)
          [] m = "then" -> handled(IF recv.state = "fulfilled" THEN 1 ELSE 2)
          [] m = "catch" -> IF recv.state = "rejected" THEN handled(1) ELSE Returns(recv)
          [] m = "finally" -> LET r == handled(1) IN IF r.act \/ r.v.state = "fulfilled" THEN [v |-> recv, act |-> r.act] ELSE r
          [] OTHER -> Acts
  IN  [v |-> result.v, act |-> as.act \/ result.act]

(* new Promise(f): the parameters of f settle it, the first call wins.     *)
Constructed(fn, w) ==
  LET body == fn.body.x
      call == fn.body.how \in {"expr", "stmt", "return"} /\ body.k = "call" /\ body.f.k = "param"
      value == IF body.as = <<>> THEN Returns(Undef) ELSE Eval(body.as[1], w)
      rest == EvalElements(SubSeq(body.as, 2, Len(body.as)), w)
      first == Len(fn.params) >= 1 /\ body.f.name = fn.params[1]
      settled == IF first THEN Adopted(value.v) ELSE Returns(Promise("rejected"))
  IN  IF call THEN [v |-> settled.v, act |-> value.act \/ rest.act \/ settled.act]
      ELSE Then(Called(fn, w), Returns(Promise("pending")))

EvalNew(x, w) ==
  LET as == EvalElements(x.as, w)
      a == Arg(as.vs, 1)
      args(r) == [v |-> r.v, act |-> r.act \/ as.act]
      name == x.f.name
      list == Iterated(a)
      key(v) == IF v = NegZero THEN Num(0) ELSE v
  IN CASE x.f.k # "global" -> Acts
       [] name = "Promise" -> IF a.k = "function" THEN args(Constructed(a.fn, w)) ELSE Acts
       [] name = "Set" -> args(IF Nullish(a) THEN Returns(Collection("Set", {}))
                               ELSE If(Known(list), Collection("Set", IF Known(list) THEN {key(list.vs[i]) : i \in DOMAIN list.vs} ELSE {})))
       [] name = "Map" -> args(IF Nullish(a) THEN Returns(Collection("Map", {}))
                               ELSE If(Known(list), Collection("Map", IF Known(list) THEN {key(Arg(list.vs[i].vs, 1)) : i \in DOMAIN list.vs} ELSE {})))
       [] name \in ErrorNames -> args(If(Clean(a), HostObject("Error")))
       [] name \in {"EventEmitter", "EventTarget"} -> args(Returns(HostObject(name)))
       [] name = "Event" -> args(If(as.vs # <<>> /\ Clean(a), HostObject("Event")))
       [] OTHER -> Acts

===============================================================================
