------------------------------ MODULE MC_FrontEnd ------------------------------
EXTENDS FrontEnd, Purity

MCEvaluate(x, w) == LET run == JS!Eval(x, w) IN run

Literals == {Str(""), Str("a"), Str("1"), Num(0), Num(1), Big(0), Big(1), Bool(TRUE), Bool(FALSE), Null, Undef}
Unknowns == {Let, Effect, User, Global("NaN"), Global("Infinity"), Fn, Class(TRUE), Class(FALSE), Regexp}
Aliases == {Const("c", x) : x \in {Str("a"), Num(1), Bool(FALSE), Null, Big(1), Effect, User, Arr(7, <<>>)}}
Containers == {Arr(1, <<>>), Arr(2, <<Effect>>), Obj(3, <<>>), Obj(4, <<Getter("a")>>), Obj(5, <<Prop("a", Effect)>>)}
Atoms == Literals \union Unknowns \union Aliases \union Containers

(* Operators, conditions and templates over every pair of atoms; unary plus *)
(* of a bigint, which throws, is left out.                                 *)
Operators == {"===", "==", "!=", "<", ">=", "+", "-", "*", "&&", "||", "??", ","}
Bigints == {x \in Atoms : (IF x.k = "const" THEN x.x ELSE x).k = "big"}
Unaries == {Un(op, x) : op \in {"!", "-", "~"}, x \in Atoms} \union {Un("+", x) : x \in Atoms \ Bigints}
           \union {Void(x) : x \in Atoms} \union {Typeof(x) : x \in Atoms} \union {Paren(x) : x \in Atoms}
Binaries == {Bin(op, x, y) : op \in Operators, x \in Atoms, y \in Atoms}
Small == {Str("a"), Num(1), Null, Undef, Effect, Let, Obj(5, <<Prop("a", Effect)>>)}
Conditions == {Let, Bin("===", Let, Num(1)), Bool(TRUE), Void(Num(0)), Str(""), Effect, Const("c", Str("a")), Fn}
Conditionals == {Cond(c, x, y) : c \in Conditions, x \in Small, y \in Small}
Templates == {Template("a", <<Span(x, "b")>>) : x \in Atoms} \union
             {Template("", <<Span(x, ""), Span(y, "1")>>) : x \in Small, y \in Small}
Nested == {Un("!", y) : y \in Conditionals} \union {Typeof(y) : y \in Conditionals} \union {Bin("??", y, Str("b")) : y \in Conditionals}
          \union {Bin("===", y, Num(1)) : y \in Conditionals} \union {Bin("+", y, Str("b")) : y \in Conditionals}

(* Texts and their methods.                                                *)
Receivers == {Str(""), Str("ab"), Str(" aB "), Str("a#"), Const("t", Str("ab")), Let, Template("a", <<Span(Num(1), "")>>)}
Positions == {Num(0), Num(1), Un("-", Num(1)), Num(3), Str("1"), Undef, Null, Let, User, Effect, Global("NaN"), Bool(TRUE)}
Needles == {Str("a"), Str("b"), Str(""), Num(1), Null, Undef, User, Effect, Const("n", Str("b"))}
Methods(xs, ms) == {MCall(x, m, <<>>) : x \in xs, m \in ms}
Methods1(xs, ms, as) == {MCall(x, m, <<a>>) : x \in xs, m \in ms, a \in as}
Methods2(xs, ms, as, bs) == {MCall(x, m, <<a, b>>) : x \in xs, m \in ms, a \in as, b \in bs}
TextFamilies ==
  {Methods(Receivers, CaseFolding \union Trims \union Copies \union {"repeat", "padStart", "charCodeAt", "includes"}),
   Methods1(Receivers, Copies \union {"charCodeAt", "codePointAt", "repeat", "padStart"}, Positions),
   Methods2(Receivers, {"slice", "substring", "substr", "charAt"}, Positions, Positions),
   Methods2(Receivers, {"indexOf", "lastIndexOf", "includes", "startsWith", "endsWith"}, Needles, Positions),
   Methods1(Receivers, {"indexOf", "lastIndexOf", "includes", "startsWith", "endsWith", "concat", "toUpperCase",
                        "toLocaleUpperCase", "trim"}, Needles),
   Methods2(Receivers, {"padStart", "padEnd"}, {Num(0), Num(4), Effect}, Needles),
   {At(t, i) : t \in Receivers, i \in Positions}, {Get(t, "length") : t \in Receivers},
   {GCall(f, <<a>>) : f \in {"parseInt", "parseFloat", "isNaN", "isFinite"} \union UriNames,
                      a \in Atoms \union {Str(" "), Str("%"), Str("%20"), Str("1a")}},
   {GCall(f, <<a, b>>) : f \in {"parseInt", "parseFloat", "isNaN", "encodeURI"}, a \in {Str("a"), Str("1"), Num(1)},
                         b \in {Num(16), Effect, User, Undef}}}

(* Arrays, what the copying methods make of them, and one element of it.   *)
Arrays == {Arr(1, <<>>), Arr(2, <<Str("a")>>), Arr(3, <<Num(1), Str("b")>>), Arr(4, <<Str("b"), Str("a"), Str("1")>>),
           Arr(5, <<Obj(6, <<>>), Num(1)>>), Arr(7, <<Effect, Num(1)>>), Arr(8, <<Hole, Num(1)>>), Arr(9, <<Let, Null>>),
           Const("k", Arr(10, <<Num(1), Str("b")>>)), Let, Paren(Arr(11, <<Fn>>))}
Bounds == {Num(0), Num(1), Un("-", Num(1)), Num(3), Str("1"), Undef, Let, Effect}
Indices == {Num(0), Num(1), Un("-", Num(1)), Num(2), Let}
Items == {Num(1), Obj(12, <<>>), Effect, Arr(13, <<Null, Fn>>), Undef, User}
NoArguments == {"slice", "concat", "reverse", "toReversed", "sort", "toSorted", "flat", "map"}
Callbacks == {Fn, Effect, Let}
Made == Methods(Arrays, NoArguments) \union
        Methods1(Arrays, {"slice", "flat", "toSpliced", "fill", "toReversed"}, Bounds) \union
        Methods1(Arrays, {"concat", "fill", "reverse"}, Items) \union Methods1(Arrays, {"map", "filter"}, Callbacks)
Made2 == Methods2(Arrays, {"slice", "copyWithin", "toSpliced"}, Bounds, Bounds) \union
         Methods2(Arrays, {"with", "copyWithin"}, Bounds, Items) \union Methods2(Arrays, {"fill"}, Items, Bounds)
Made3(xs, items, bounds) ==
  {MCall(x, "toSpliced", <<a, b, c>>) : x \in xs, a \in bounds, b \in bounds, c \in items}
  \union {MCall(x, "fill", <<a, b, c>>) : x \in xs, a \in items, b \in bounds, c \in bounds}
  \union {MCall(x, "copyWithin", <<a, b, c>>) : x \in xs, a \in bounds, b \in bounds, c \in bounds}
(* One element is read of arrays whose making runs nothing: the analysis of *)
(* an element does not look at every argument.                             *)
Quiet == {x \in Arrays : x # Let} \ {Arr(7, <<Effect, Num(1)>>)}
Still == {Num(0), Num(1), Un("-", Num(1)), Num(3), Undef}
Things == {Num(1), Obj(12, <<>>), Arr(13, <<Null, Fn>>), Undef}
Readable ==
  {Quiet, Methods(Quiet, {"slice", "concat", "reverse", "toReversed", "sort", "toSorted"}),
   Methods1(Quiet, {"slice", "flat", "toSpliced", "fill", "toReversed"}, Still), Methods1(Quiet, {"concat", "fill"}, Things),
   Methods2(Quiet, {"slice", "copyWithin", "toSpliced"}, Still, Still),
   Methods2({Arr(3, <<Num(1), Str("b")>>), Arr(5, <<Obj(6, <<>>), Num(1)>>), Arr(8, <<Hole, Num(1)>>)}, {"with"}, {Num(0), Num(1), Un("-", Num(1))}, Things),
   Made3(Quiet, Things, Still \ {Num(0)}),
   {Arr(20, <<Spread(x), y>>) : x \in Quiet, y \in {Num(1), Spread(Arr(21, <<Null, Obj(22, <<>>)>>)), Spread(Str("ab"))}}}
ArrayFamilies ==
  {Arrays, Made, Made2, Made3(Arrays, {Num(1), Effect}, {Num(1), Un("-", Num(1)), Undef, Effect})}
  \union {{Get(x, "length") : x \in xs} : xs \in {Arrays, Made, Made2, Made3(Arrays, {Num(1), Effect}, {Num(1), Un("-", Num(1)), Undef, Effect})}}
  \union {{Void(At(x, i)) : x \in xs, i \in Indices} : xs \in {Arrays, Made, Made2}}
  \union {{At(x, i) : x \in xs, i \in Indices} : xs \in Readable}

(* Objects, the calls of Object that build one, and what is read of them.  *)
Objects == {Obj(30, <<>>), Obj(31, <<Prop("a", Num(1))>>), Obj(32, <<Prop("a", Num(1)), Prop("b", Str("x"))>>),
            Obj(33, <<Prop("a", Num(1)), Prop("a", Null)>>), Obj(34, <<Prop("b", Obj(35, <<>>)), Prop("0", Str("a"))>>),
            Obj(36, <<Prop("b", Num(1)), SpreadProp(Obj(37, <<Prop("a", Num(1)), Prop("b", Let)>>))>>),
            Const("o", Obj(38, <<Prop("a", Str("b"))>>)), Arr(39, <<Num(1), Str("b")>>)}
Loud == {Obj(40, <<Prop("a", Effect), Prop("b", Num(1))>>), Obj(41, <<Getter("a")>>), Obj(42, <<Method("a"), Prop("b", Num(1))>>),
         Obj(43, <<SpreadProp(Let)>>), Let, User, Effect, Null, Undef}
DescriptorMaps(ds) == {Obj(60, <<>>)} \union {Obj(61, <<Prop("a", d)>>) : d \in ds} \union {Obj(62, <<Prop("a", d), Prop("b", e)>>) : d \in ds, e \in ds}
PairLists == {Arr(70, <<>>), SCall("Object", "entries", <<Obj(32, <<Prop("a", Num(1)), Prop("b", Str("x"))>>)>>)} \union
             {Arr(71, <<Arr(72, <<k, v>>)>>) : k \in {Str("a"), Num(1), Null}, v \in {Num(1), Obj(73, <<>>), Let}} \union
             {Arr(74, <<Arr(75, <<Str("a"), v>>), Arr(76, <<k, Num(1)>>)>>) : k \in {Str("a"), Str("b")}, v \in {Null, Obj(77, <<>>)}}
Names2 == {Str("a"), Str("b"), Num(0), Const("n", Str("a"))}

Built(os, ds) ==
  {{SCall("Object", "assign", <<o, p>>) : o \in os, p \in os \union {Null, Undef}},
   {SCall("Object", "fromEntries", <<l>>) : l \in PairLists},
   {SCall("Object", "create", <<o>>) : o \in os \union {Null}},
   {SCall("Object", "create", <<o, m>>) : o \in os \union {Null}, m \in DescriptorMaps(ds)},
   {SCall("Object", "defineProperty", <<o, k, d>>) : o \in os, k \in Names2, d \in ds},
   {SCall("Object", "defineProperties", <<o, m>>) : o \in os, m \in DescriptorMaps(ds)}}

Listed(xs) == {SCall("Object", m, <<x>>) : m \in OwnLists, x \in xs} \union {SCall("Reflect", "ownKeys", <<x>>) : x \in xs}
Simple == {Obj(50, <<Prop("value", Num(1))>>), Obj(52, <<Prop("value", Num(1)), Prop("enumerable", Bool(TRUE))>>),
           Obj(51, <<Prop("value", Obj(55, <<>>)), Prop("enumerable", Bool(FALSE))>>)}
DescriptorsOf(xs) == {SCall(c, "getOwnPropertyDescriptor", <<x, k>>) : c \in {"Object", "Reflect"}, x \in xs, k \in Names2}
Primitives3 == {Str("ab"), Num(1), Bool(TRUE), Const("s", Str("ab"))}
Pairs2 == {Obj(32, <<Prop("a", Num(1)), Prop("b", Str("x"))>>), Arr(39, <<Obj(35, <<>>), Str("b")>>), Str("ab"),
           Obj(36, <<Prop("b", Num(1)), SpreadProp(Obj(37, <<Prop("a", Num(1)), Prop("b", Let)>>))>>)}
ObjectFamilies ==
  {Objects, Loud, DescriptorsOf(Objects), Listed(Objects \union Loud \union Primitives3)}
  \union {Listed(xs) : xs \in Built(Objects, Simple)}
  \union {{Get(x, "length") : x \in Listed(xs)} : xs \in Built(Objects, Simple) \union {Objects, Loud, Primitives3, DescriptorsOf(Objects)}}
  \union {{Get(x, n) : x \in xs, n \in {"a", "b", "value"}} : xs \in Built(Objects, Simple) \union {Objects, DescriptorsOf(Objects)}}
  \union {{Delete(At(x, n)) : x \in Objects \union Loud, n \in Names2 \union {Effect}}, {Delete(Get(x, "a")) : x \in Objects \union Loud},
          {Bin("in", n, x) : n \in Names2 \union {Effect, User}, x \in Objects \union Loud}}
  \union {{Void(Get(x, n)) : x \in xs, n \in {"a", "b"}} : xs \in {Loud, Objects}}
  \union {{At(x, n) : x \in xs, n \in Names2} : xs \in Built(Objects, Simple) \union {Objects}}
  \union {{At(x, n) : x \in Listed(xs), n \in Indices} : xs \in {Objects, {Str("ab"), Num(1)}}}
  \union {{At(At(SCall("Object", "entries", <<x>>), n), m) : x \in Pairs2, n \in {Num(0), Num(1)}, m \in {Num(0), Num(1), Num(2)}}}

(* Sets and maps over keys of each kind.                                   *)
Shared == Const("q", Obj(80, <<>>))
Keys4 == {Str("a"), Str("b"), Num(0), Un("-", Num(0)), Num(1), Global("NaN"), Bool(TRUE), Bool(FALSE), Obj(81, <<>>), Obj(82, <<>>), Shared,
          Const("t", Str("a")), Null, Let, Effect, SCall("Object", "freeze", <<Shared>>)}
Members == {<<x>> : x \in Keys4} \union {<<x, y>> : x \in Keys4, y \in Keys4} \union {<<x, Str("a"), y>> : x \in Keys4, y \in Keys4}
Sources == {{Arr(83, xs) : xs \in Members},
            {MCall(Arr(83, xs), "slice", <<Num(1)>>) : xs \in {ys \in Members : ys[1] # Effect}}, {MCall(Arr(83, xs), "concat", <<Arr(84, <<Str("a"), Num(1)>>)>>) : xs \in Members},
            {Arr(85, <<Spread(Arr(83, xs)), Str("b")>>) : xs \in Members},
            {SCall("Object", "values", <<Obj(86, [i \in DOMAIN xs |-> Prop(ToString(i), xs[i])])>>) : xs \in Members},
            {SCall("Object", m, <<Obj(86, [i \in DOMAIN xs |-> Prop(ToString(i), xs[i])])>>) : m \in {"keys", "entries"}, xs \in Members},
            {SCall("Object", m, <<x>>) : m \in {"keys", "values", "entries"}, x \in {Str("aba"), Const("s", Str("ab")), Num(1), Arr(87, <<Num(1), Num(1)>>)}}}
PairsOf(xs) == [i \in DOMAIN xs |-> Arr(90 + i, <<xs[i], Num(1)>>)]
CollectionFamilies ==
  {{New(Global("Set"), <<x>>) : x \in xs} : xs \in Sources} \union
  {{New(Global("Map"), <<Arr(83, PairsOf(xs))>>) : xs \in Members},
   {New(Global("Map"), <<MCall(Arr(83, PairsOf(xs)), "toReversed", <<>>)>>) : xs \in Members},
   {New(Global("Map"), <<SCall("Object", "entries", <<Obj(86, [i \in DOMAIN xs |-> Prop(ToString(i), xs[i])])>>)>>) : xs \in Members},
   {New(Global(m), <<>>) : m \in {"Set", "Map", "WeakSet", "WeakMap"}}}

(* Promises: made, and chained twice.                                      *)
Resolutions == {Num(1), Str("a"), Let, User, Effect, Obj(100, <<>>), Undef, SCall("Promise", "reject", <<Num(1)>>),
                SCall("Promise", "resolve", <<Str("a")>>), New(Global("Promise"), <<Lambda(<<>>, Body("empty", Null))>>)}
Bodies == {Body("empty", Null), Body("many", Null), Body("stmt", Num(1)), Body("stmt", Effect)} \union
          {Body(how, x) : how \in {"expr", "return"}, x \in Resolutions}
Handlers == {Lambda(<<>>, b) : b \in Bodies} \union {Lambda(<<"v">>, Body("expr", Num(1))), Lambda(<<"v", "w">>, Body("empty", Null)),
             Lambda(<<Pattern>>, Body("empty", Null)), Undef, Let, Effect, Const("h", Lambda(<<>>, Body("expr", Num(1))))}
Settling == {Body(how, Call(Param(p), as)) : how \in {"expr", "stmt"}, p \in {"y", "n"}, as \in {<<x>> : x \in Resolutions} \union {<<>>, <<Num(1), Effect>>}}
Promises ==
  {SCall("Promise", m, <<x>>) : m \in {"resolve", "reject"}, x \in Resolutions} \union
  {SCall("Promise", m, <<>>) : m \in {"resolve", "reject"}} \union {SCall("Promise", "resolve", <<Num(1), Effect>>)} \union
  {SCall("Promise", "try", <<h>>) : h \in Handlers} \union
  {New(Global("Promise"), <<Lambda(<<"y", "n">>, b)>>) : b \in Settling \union Bodies} \union
  {Const("p", SCall("Promise", "resolve", <<Num(1)>>)), Const("r", SCall("Promise", "reject", <<Num(1)>>)), Let}
OneStep == {SCall("Promise", "resolve", <<Num(1)>>), SCall("Promise", "reject", <<Num(1)>>), New(Global("Promise"), <<Lambda(<<>>, Body("empty", Null))>>),
            SCall("Promise", "resolve", <<Let>>), Const("p", SCall("Promise", "resolve", <<Num(1)>>))}
Chains(ps, hs) == {MCall(p, m, <<h>>) : p \in ps, m \in {"then", "catch", "finally"}, h \in hs} \union
                  {MCall(p, "then", <<h, g>>) : p \in ps, h \in hs, g \in hs}
Few == {Lambda(<<>>, Body("expr", Num(1))), Lambda(<<>>, Body("expr", SCall("Promise", "reject", <<Num(1)>>))), Lambda(<<>>, Body("stmt", Effect)), Undef}
PromiseFamilies == {Promises, Chains(Promises, Few), Chains(OneStep, Handlers), Chains(Chains(OneStep, Few), Few)}

(* The host: modules, process, the standard streams, events and errors.    *)
Words == {Str("a"), Const("s", Str("a")), Num(1), Let, User, Effect, Fn, Undef}
ArgumentLists == {<<>>} \union {<<x>> : x \in Words} \union {<<x, y>> : x \in Words, y \in Words}
Modules == [os |-> {"platform", "cpus", "totalmem", "userInfo"}, path |-> {"join", "basename", "isAbsolute", "relative", "parse"},
            net |-> {"isIP"}, process |-> {"cwd", "uptime", "cpuUsage"}]
Emitters == {New(Global("EventEmitter"), <<>>), Const("m", New(Global("EventEmitter"), <<>>)), New(Global("EventEmitter"), <<Effect>>)}
Targets == {New(Global("EventTarget"), <<>>), Const("g", New(Global("EventTarget"), <<>>))}
Events == {New(Global("Event"), <<x>>) : x \in Words} \union {Const("e", New(Global("Event"), <<Str("a")>>))}
Streams == {Get(Global("process"), n) : n \in {"stdin", "stdout"}}
HostFamilies ==
  {{SCall(c, m, as) : m \in Modules[c], as \in ArgumentLists} : c \in DOMAIN Modules} \union
  {{Call(Import(c, m), as) : m \in Modules[c], as \in ArgumentLists} : c \in DOMAIN Modules \ {"process"}} \union
  {{MCall(e, m, as) : e \in Emitters, m \in {"on", "emit", "listenerCount", "eventNames", "setMaxListeners", "getMaxListeners", "toString"},
                      as \in ArgumentLists},
   {MCall(e, m, as) : e \in Targets, m \in {"addEventListener", "toString"}, as \in ArgumentLists},
   {MCall(e, "dispatchEvent", <<v>>) : e \in Targets, v \in Events \union {Let, Effect}},
   {MCall(e, m, as) : e \in Events, m \in {"preventDefault", "toString"}, as \in {<<>>, <<Effect>>}},
   {Void(MCall(s, m, as)) : s \in Streams, m \in {"resume", "pause", "on"}, as \in ArgumentLists},
   {MCall(s, "cork", as) : s \in Streams, as \in ArgumentLists},
   {SCall("events", m, <<e, x>>) : m \in {"listenerCount", "getMaxListeners"}, e \in Emitters, x \in Words},
   {SCall("events", "getMaxListeners", <<e>>) : e \in Emitters},
   {Get(e, n) : e \in Events, n \in {"type", "defaultPrevented", "target", "a"}},
   {Get(s, n) : s \in Streams, n \in {"fd", "isTTY", "readableEnded", "writable", "columns", "closed"}},
   {Get(Global("process"), n) : n \in {"platform", "pid", "argv0", "stdin"}},
   {Get(SCall("process", "cpuUsage", as), n) : as \in {<<>>, <<Effect>>}, n \in {"user", "system"}},
   {Get(Get(Global("process"), o), n) : o \in {"versions", "release"}, n \in {"node", "name"}},
   {Get(SCall("os", "userInfo", as), n) : as \in {<<>>, <<Obj(110, <<Prop("encoding", Str("utf8"))>>)>>, <<Effect>>, <<Let>>}, n \in {"username", "uid"}},
   {Get(SCall("path", "parse", <<x>>), n) : x \in Words, n \in {"base", "dir"}},
   {Get(Global("path"), "sep"), Get(Global("path"), "delimiter"), Get(Global("os"), "EOL"), Import("path", "sep"), Import("os", "EOL"),
    Import("dns", "ADDRCONFIG"), Get(Global("dns"), "ADDRCONFIG"), Import("events", "defaultMaxListeners"), Get(Global("events"), "defaultMaxListeners"),
    Global("__filename"), Get(Global("module"), "filename"), Get(Global("module"), "loaded"), Get(Get(Get(Global("os"), "constants"), "signals"), "SIGINT")}}

MCFamilies == {Atoms, Unaries, Binaries, Conditionals, Templates, Nested} \union TextFamilies \union ArrayFamilies \union ObjectFamilies \union CollectionFamilies
              \union PromiseFamilies \union HostFamilies
MCWorlds == {Undef, Num(0), Str("a"), JS!UserObject}

===============================================================================
