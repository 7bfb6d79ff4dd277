----------------------------- MODULE MC_ModuleLinking -----------------------------
(***************************************************************************)
(* Programs for the linker, in families: chains of modules that import and *)
(* export each other's names, diamonds of re-exports, file formats and     *)
(* broken files, several entries, the ways of calling require and of       *)
(* naming it, manifests, and the expressions that compute what is asked    *)
(* for.                                                                    *)
(* The expressions come in families: operators and text methods            *)
(* (TextForms), buffers and arrays (ListForms), objects, collections,      *)
(* URLs, dates, paths, enums and types (ObjectForms).  Operands are chosen *)
(* per operator: each limit, a conditional (two values), a name that is    *)
(* not known (Let) and a wrong kind of value.                              *)
(***************************************************************************)
EXTENDS ModuleLinking

(* ------------------------------ expressions ------------------------------ *)

AB == Cond(Let, Str("a"), Str("b"))
Strings == {Str(""), Str("a"), Str("ab"), Str(" aB"), AB, Const("s", Str("ba")), Template("a", <<Span(Num(1), "b")>>), Let}
StringPositions == {Num(0), Num(1), Un("-", Num(1)), Num(3), Undef, Cond(Let, Num(0), Num(2)), Let}
Needles == {Str("a"), Str("b"), Str(""), Num(1), AB, Let}
M0(xs, ms) == {MCall(x, m, <<>>) : x \in xs, m \in ms}
M1(xs, ms, as) == {MCall(x, m, <<a>>) : x \in xs, m \in ms, a \in as}
M2(xs, ms, as, bs) == {MCall(x, m, <<a, b>>) : x \in xs, m \in ms, a \in as, b \in bs}
TextMethods == {"toLowerCase", "toUpperCase", "trim", "trimStart", "trimEnd", "toString", "valueOf", "slice", "substring", "concat", "normalize",
       "isWellFormed", "toWellFormed", "split"}
Regexps == {Rex("a", ""), Rex("B", "i"), Rex("a", "g"), GCall("RegExp", <<Str("b")>>), New(Global("RegExp"), <<Str("a"), Str("g")>>)}
Replacements == {Str("b"), Str(""), Lambda(<<>>, Body("expr", Str("a"))), Lambda(<<>>, Body("return", AB)), Let,
  Const("r", Lambda(<<>>, Body("return", Str("b"))))}
Parts == {MCall(s, "split", <<p>>) : s \in Strings, p \in {Str("a"), Str(""), Rex("b", ""), Rex("B", "i"), AB, Let}} \union
         {MCall(s, "split", <<Str(""), n>>) : s \in Strings, n \in {Num(0), Num(1), Undef}}
Matched == M1(Strings, {"match"}, Regexps \union {Str("a"), AB}) \union {MCall(r, "exec", <<s>>) : r \in Regexps, s \in Strings}
Literals == {Str(""), Str("a"), Str("1"), Num(0), Num(1), Big(0), Big(2), Bool(TRUE), Bool(FALSE), Null, Undef, Void(Num(0)), Un("-", Num(1)),
  Un("-", Big(2)), Un("+", Num(1)), Const("k", Str("1")), Const("n", Null), Let, Arr(1, <<Str("a")>>), Obj(2, <<>>), AB}
Operators == {"+", "||", "&&", "??"}
NullishOperands == {Null, Undef, Cond(Let, Null, Str("a"))}
TextOperand == {Str(""), Str("a"), AB, Null, Undef, Const("s", Str("b")), Let, Template("", <<Span(Let, "")>>), Cond(Let, Null, Str("a")),
  Bin("??", Null, Str("a")),
                Global("__filename"), Const("e", Str("")), Cond(Let, Str(""), Str("b")), Bin("+", Str("a"), AB), Effect}
TextForms == {
  Literals, {Bin(op, x, y) : op \in Operators \ {"+"}, x \in TextOperand, y \in TextOperand},
    {Bin("+", x, y) : x \in TextOperand \ NullishOperands, y \in TextOperand \ NullishOperands},
      {Bin(o, Bin(op, x, y), z) : o \in Operators \ {"+"}, op \in {"??", "||"}, x \in {Null, Str(""), AB, Cond(Let, Undef, Str("a"))},
      y \in TextOperand, z \in {Str("b"), Let}},
  {Template("a", <<Span(x, "b"), Span(y, "")>>) : x \in TextOperand, y \in TextOperand},
  {Raw("a", <<Span(x, "b")>>) : x \in TextOperand}, {Un("-", x) : x \in Literals \ {Const("n", Null), Big(0)}},
  {Cond(Let, x, y) : x \in {Str("a"), Num(1), AB, Null}, y \in {Str("b"), Undef, Bool(TRUE)}},
  M0(Strings, TextMethods), M1(Strings, {"charAt", "at", "charCodeAt", "codePointAt", "slice", "substring", "substr", "repeat", "padStart", "padEnd"},
    StringPositions),
  M2({Str("a"), Str("ab"), AB, Let}, {"slice", "substring", "substr"}, StringPositions, StringPositions),
    M1(Strings, {"indexOf", "lastIndexOf", "includes", "startsWith", "endsWith", "localeCompare", "concat"}, Needles),
  M2({Str("a"), Str("ab"), AB, Let}, {"indexOf", "lastIndexOf", "includes", "startsWith", "endsWith"}, Needles, {Num(1), Un("-", Num(1)), Let}),
    M2(Strings, {"padStart", "padEnd"}, {Num(0), Num(4)}, Needles),
  M1(Strings, {"normalize"}, {Str("NFC"), Str("x"), Undef}), M2(Strings, {"replace", "replaceAll"}, Regexps \union Needles, Replacements),
  M1(Strings, {"search"}, Regexps \union Needles), M1(Regexps, {"test"}, Strings), M0(Regexps, {"toString"}),
    {Get(r, n) : r \in Regexps, n \in {"source", "flags", "global", "ignoreCase"}},
  {At(s, i) : s \in Strings, i \in StringPositions \ {Undef, Un("-", Num(1))}}, {Get(s, "length") : s \in Strings},
    {At(p, i) : p \in Parts \union Matched, i \in {Num(0), Num(1), Cond(Let, Num(0), Num(1))}},
  {Get(p, "length") : p \in Parts}, M1(Parts \union Matched, {"join", "at"}, {Str(""), Num(0)}),
  {At(At(MCall(s, "matchAll", <<r>>), Num(0)), Num(0)) : s \in {Str("a")}, r \in {Let}},
  {GCall(f, <<v>>) : f \in {"Boolean", "String", "Number", "BigInt", "isNaN", "isFinite", "parseInt", "parseFloat"}, v \in Literals},
  {GCall(f, <<>>) : f \in {"Boolean", "String", "Number", "BigInt"}}, {GCall("parseInt", <<Str("1a"), r>>) : r \in StringPositions},
  {GCall(f, <<v>>) : f \in UriNames \union {"btoa", "atob"}, v \in {Str("a"), Str("%20"), Str("%"), AB, Let}},
  {SCall("Number", f, <<v>>) : f \in {"isInteger", "isNaN", "isFinite", "isSafeInteger", "parseInt", "parseFloat"},
    v \in {Num(1), Un("-", Num(1)), Let}},
  {SCall("String", f, as) : f \in {"fromCharCode", "fromCodePoint"}, as \in {<<>>, <<Num(23)>>, <<Num(23), Cond(Let, Num(24), Num(25))>>, <<Let>>}},
  {SCall("String", "raw", <<Obj(1, <<Prop("raw", Arr(2, es))>>)>> \o as) : es \in {<<>>, <<Str("a")>>}, as \in {<<>>, <<Num(1)>>, <<Let>>}},
  {SCall("String", "raw", <<Obj(1, <<Prop("raw", Arr(2, <<Str("a"), AB>>))>>), x, y>>) : x \in {Num(1), AB, Let}, y \in {Str("1"), Let}},
  {SCall("RegExp", "escape", <<x>>) : x \in {Str("a.b"), AB, Let}}
 }

(* --------------------------- buffers and arrays -------------------------- *)

BufferGlobal == Global("Buffer")
BC(m, as) == MCall(BufferGlobal, m, as)
Buffers == {BC("from", <<Str("ab")>>), BC("from", <<AB>>), BC("from", <<Str("6162"), Str("hex")>>), BC("from", <<Arr(1, <<Num(23), Num(24)>>)>>),
            BC("from", <<Arr(1, <<Num(300), Un("-", Num(1))>>)>>), BC("alloc", <<Num(4)>>), BC("alloc", <<Num(2), Num(23)>>),
            BC("from", <<Str("ab"), Str("x")>>), BC("from", <<Let>>),
            MCall(Import("buffer", "Buffer"), "from", <<Str("ba")>>), MCall(Get(Import("buffer", "*"), "Buffer"), "from", <<Str("a")>>)}
Few == {BC("from", <<Str("ab")>>), BC("from", <<AB>>), BC("alloc", <<Num(4)>>), BC("from", <<Let>>)}
Offsets == {Num(0), Num(1), Un("-", Num(1)), Num(3), Undef, Cond(Let, Num(0), Num(2)), Let}
Edges1 == {Num(0), Num(3), Un("-", Num(1)), Let}
MadeBuffers == M0(Few, {"valueOf", "swap16", "swap32"}) \union M1(Few, {"slice", "subarray", "fill"}, Offsets \ {Undef})
  \union M2(Few, {"slice", "subarray", "fill"}, {Num(0), Num(23)}, Offsets)
        \union {MCall(b, "fill", <<Num(23), x, y>>) : b \in Few, x \in Edges1, y \in Edges1}
        \union {BC("concat", <<Arr(1, <<x, y>>)>> \o n) : x \in Few, y \in Few, n \in {<<>>, <<Num(3)>>, <<Un("-", Num(1))>>}}
        \union {Call(Import("buffer", "transcode"), <<x, e, f>>) : x \in Few, e \in {Str("utf8"), Str("hex"), Str("q")},
          f \in {Str("hex"), Str("utf8")}}
        \union {MCall(New(Global("TextEncoder"), <<>>), "encode", as) : as \in {<<>>, <<AB>>, <<Undef>>, <<Let>>}}
Encs == {Str("utf8"), Str("hex"), Str("HEX"), Str("q"), Undef, Cond(Let, Str("hex"), Str("utf8")), Let}
Reads == {"readUInt8", "readInt8", "readUInt16LE", "readUInt16BE", "readInt16LE", "readUInt32LE", "readFloatLE", "readDoubleLE"}
Writes == {"writeUInt8", "writeInt8", "writeUInt16LE", "writeUInt16BE", "writeInt16LE", "writeUInt32LE", "writeFloatLE", "writeDoubleLE"}
DataViews == {New(Global("DataView"), <<New(Global("ArrayBuffer"), <<n>>)>> \o as) : n \in {Num(4), Cond(Let, Num(2), Num(4)), Let},
  as \in {<<>>, <<Num(1)>>, <<Num(1), Num(2)>>, <<Num(3), Num(4)>>, <<Let>>}}
Arrow(p, b) == Lambda(p, Body("expr", b))
Mappers == {Arrow(<<"v">>, Param("v")), Arrow(<<"v">>, Bin("+", Param("v"), Str("b"))), Arrow(<<"v", "i">>, Param("i")), Arrow(<<>>, Str("a")),
  Arrow(<<"v">>, Arr(9, <<Param("v"), Str("a")>>)), Let, Arrow(<<"v">>, Let), Lambda(<<"v">>, Body("many", Null))}
Predicates == {Arrow(<<"v">>, Bin("===", Param("v"), Str("a"))), Arrow(<<"v">>, Bin("!==", Param("v"), Str("b"))),
  Arrow(<<"v", "i">>, Bin("===", Param("i"), Num(1))), Arrow(<<>>, Bool(TRUE)), Arrow(<<"v">>, Un("!", Bool(TRUE))),
    Arrow(<<"v">>, Bin("===", Param("v"), Let)), Let}
Reducers == {Arrow(<<"p", "v">>, Bin("+", Param("p"), Param("v"))), Arrow(<<"p", "v">>, Param("v")), Arrow(<<"p", "v", "i">>, Param("i")), Let}
Lists == {Arr(1, <<>>), Arr(2, <<Str("a")>>), Arr(3, <<Str("b"), Str("a")>>), Arr(4, <<Str("b"), Str("a"), Str("ab")>>),
  Arr(5, <<Str("b"), Arr(6, <<Str("a"), Str("1")>>)>>), Arr(7, <<AB, Str("1")>>),
       Arr(8, <<Str("b"), Undef, Null>>), Arr(9, <<Hole, Str("a")>>), Arr(10, <<Let, Str("a")>>), Const("k", Arr(11, <<Str("a"), Str("b")>>)),
         Arr(12, <<Spread(Arr(13, <<Str("b"), Str("a")>>)), Str("1")>>), Arr(12, <<Spread(Let), Str("1")>>), Let}
Indices == {Num(0), Num(1), Un("-", Num(1)), Num(5), Undef, Let}
Ends == {Num(1), Un("-", Num(1)), Let}
Items == {Str("1"), AB, Arr(20, <<Str("b"), Str("1")>>), Let}
MadeLists == M0(Lists, {"toReversed", "reverse", "toSorted", "sort", "flat", "slice", "concat", "splice", "toSpliced"})
  \union M1(Lists, {"slice", "flat", "splice", "toSpliced"}, Indices)
        \union M1(Lists, {"map", "flatMap"}, Mappers) \union M1(Lists, {"filter"}, Predicates) \union M1(Lists, {"concat", "fill"}, Items)
          \union M2(Lists, {"slice", "splice", "toSpliced", "copyWithin"}, Ends, Ends)
        \union M2(Lists, {"with"}, Ends, Items) \union M2(Lists, {"fill"}, Items, Ends)
          \union {MCall(a, m, <<x, y, z>>) : a \in Lists, m \in {"fill", "splice", "toSpliced"}, x \in {Num(0), Num(1)}, y \in {Num(1), Let},
            z \in {Str("1"), Let}}
        \union {MCall(a, "copyWithin", <<x, y, z>>) : a \in Lists, x \in Ends, y \in {Num(0), Num(1)}, z \in {Num(2)}}
        \union {SCall("Array", "of", <<x, y>>) : x \in Items, y \in Items} \union {SCall("Array", "from", <<x>>) : x \in Lists \union {Str("ab"), AB}}
SingleLists == M0(Lists, {"toReversed", "toSorted", "flat", "slice"}) \union M1(Lists, {"map", "flatMap"}, Mappers) \union M1(Lists, {"concat"}, Items)
  \union M2(Lists, {"with"}, Ends, Items)
ListForms == {
  M0(Buffers, {"toString", "toLocaleString"}), M1(Buffers, {"toString"}, Encs), M0(MadeBuffers, {"toString"}),
    {Get(b, "length") : b \in Buffers \union M1(Few, {"slice", "fill"}, Offsets \ {Undef})},
  {At(b, i) : b \in Buffers, i \in Offsets \ {Undef}}, {At(Get(MCall(b, "toJSON", <<>>), "data"), i) : b \in Buffers, i \in {Num(0), Num(1), Num(9)}},
    {Get(MCall(b, "toJSON", <<>>), "type") : b \in Buffers}, {Get(Get(MCall(b, "toJSON", <<>>), "data"), "length") : b \in Buffers},
  {BC(m, <<x, y>>) : m \in {"compare"}, x \in Buffers, y \in Buffers},
    {BC("byteLength", as) : as \in {<<x>> : x \in Buffers \union {Str("ab"), AB, Let}} \union {<<Str("6162"), e>> : e \in Encs}},
  {BC("isEncoding", <<e>>) : e \in Encs}, {BC("isBuffer", <<x>>) : x \in Buffers \union {Str("a"), Num(1), Let, Arr(1, <<>>)}},
  M1(Few, {"equals", "compare", "copy"}, Few), {MCall(x, "compare", <<y, i, j>>) : x \in Few, y \in Few, i \in Edges1, j \in Edges1},
    {MCall(x, "compare", <<y, Num(0), Num(1), i, j>>) : x \in Few, y \in Few, i \in Edges1, j \in Edges1},
  {MCall(x, "copy", <<y, i, j, k>>) : x \in Few, y \in Few, i \in Edges1, j \in Edges1, k \in {Num(3), Let}},
    {MCall(x, "write", <<t, i, j>> \o e) : x \in Few, t \in {Str("b"), Str("abab"), AB}, i \in Edges1, j \in Edges1,
      e \in {<<>>, <<Str("utf8")>>, <<Str("q")>>}},
  M1(Few, Reads, Offsets), M2(Few, Writes, {Num(1), Num(300), Un("-", Num(1))}, Edges1), M0(Few, Reads),
  M1(Few, {"indexOf", "lastIndexOf", "includes"}, {Str("b"), Str("a"), Num(23), BC("from", <<Str("b")>>), Let, Num(0)}),
    M2(Few, {"indexOf", "lastIndexOf", "includes"}, {Str("b"), Num(0), BC("from", <<Str("b")>>)}, Offsets),
      {MCall(b, "indexOf", <<Str("62"), Num(0), e>>) : b \in Few, e \in Encs},
  {MCall(New(Global("TextDecoder"), l), "decode", as) : l \in {<<>>, <<Str("utf-8")>>, <<Str("q")>>, <<Undef>>}, as \in {<<>>, <<Undef>>}
    \union {<<b>> : b \in Few}},
  {Get(v, n) : v \in DataViews \union {Const("w", v) : v \in DataViews}, n \in {"byteLength", "byteOffset"}},
    {Get(Get(v, "buffer"), "byteLength") : v \in DataViews},
      {Get(New(Global("ArrayBuffer"), <<n>>), "byteLength") : n \in Offsets \ {Un("-", Num(1))}},
  {At(a, i) : a \in Lists, i \in {Num(0), Num(1), Str("1"), Cond(Let, Num(0), Num(1))}}, {Get(a, "length") : a \in Lists},
  M0(MadeLists, {"join"}), {At(a, Num(1)) : a \in SingleLists},
  M0(Lists, {"pop", "shift"}), M1(Lists, {"push", "unshift"}, Items),
    M1(Lists, {"some", "every", "find", "findIndex", "findLast", "findLastIndex"}, Predicates),
      M2(Lists, {"reduce", "reduceRight"}, Reducers, {Str(""), Str("1"), AB, Let}),
  M1(Lists, {"at"}, Indices), M1(Lists, {"join"}, {Str(""), Str("b"), AB, Undef, Let}),
    {SCall("Array", "isArray", <<x>>) : x \in Lists \union {Str("a"), Null, Undef, Obj(1, <<>>), Num(1)}}
 }

(* ------------------------ objects and host values ------------------------ *)

Two(a, b) == Obj(1, <<Prop("a", a), Prop("b", b)>>)
Yes(x) == Prop(x, Bool(TRUE))
Descr(x) == Obj(5, <<Prop("value", x), Yes("writable"), Yes("enumerable"), Yes("configurable")>>)
HiddenDescr(x) == Obj(5, <<Prop("value", x), Yes("writable"), Prop("enumerable", Bool(FALSE)), Yes("configurable")>>)
ObjectCall(m, as) == SCall("Object", m, as)
Objs == {Obj(1, <<>>), Two(Str("1"), Str("2")), Two(Str("1"), AB), Two(Str("1"), Let), Const("o", Two(Str("2"), Str("1"))),
         Obj(2, <<SpreadProp(Two(Str("1"), Str("2"))), Prop("b", Str("3"))>>), Obj(2, <<Prop("b", Str("3")), SpreadProp(Two(Str("1"), Str("2")))>>),
         Obj(2, <<SpreadProp(Null), Prop("a", Str("3"))>>), Obj(2, <<SpreadProp(Let), Prop("a", Str("3"))>>),
           Obj(3, <<Getter("a"), Prop("b", Str("1"))>>),
         Obj(4, <<Prop("a", Two(Str("x"), Str("y"))), Prop("b", Arr(6, <<Str("1"), Str("2")>>))>>), Obj(4, <<Method("a"), Prop("b", Str("1"))>>)}
MadeObjects == {ObjectCall(m, <<x>>) : m \in {"freeze", "seal", "preventExtensions"}, x \in Objs}
   \union {ObjectCall("setPrototypeOf", <<x, Null>>) : x \in Objs} \union {ObjectCall("assign", <<x, y>>) : x \in Objs, y \in Objs \union {Null, Let}}
   \union {ObjectCall("create", <<Null, Obj(7, <<Prop("a", d)>>)>>) : d \in {Descr(Str("1")), HiddenDescr(Str("1")), Descr(AB), Descr(Let), Let}}
   \union {ObjectCall("defineProperty", <<x, k, d>>) : x \in Objs, k \in {Str("a"), Str("x"), AB, Let},
     d \in {Descr(Str("9")), HiddenDescr(Str("9"))}}
   \union {ObjectCall("defineProperties", <<x, Obj(7, <<Prop("a", Descr(Str("8")))>>)>>) : x \in Objs}
   \union {ObjectCall("fromEntries", <<Arr(8, <<Arr(9, <<Str("a"), x>>), Arr(10, <<y, Str("4")>>)>>)>>) : x \in {Str("1"), AB, Let},
     y \in {Str("b"), Str("c")}}
   \union {ObjectCall("fromEntries", <<ObjectCall("entries", <<x>>)>>) : x \in Objs}
   \union {ObjectCall("fromEntries", <<New(Global("Map"), <<Arr(8, <<Arr(9, <<Str("a"), Str("2")>>)>>)>>)>>),
     ObjectCall("fromEntries", <<New(Global("URLSearchParams"), <<Str("a=1&b=2")>>)>>)}
   \union {SCall("JSON", "parse", <<Str(s)>>) : s \in {"{\"a\":\"a\"}", "{\"a\":1}", "x", "1", "null", "\"a\""}}
   \union {MCall(Get(Get(Global("Object"), "prototype"), "valueOf"), "call", <<x>>) : x \in Objs}
PropertyNames == {"a", "b", "x"}
Keys == {Str("a"), Str("x"), AB, Let, Num(0)}
Sequences1 == {Arr(11, <<>>), Arr(12, <<Str("b"), Str("a"), Str("b")>>), Arr(13, <<Str("a"), AB>>), Arr(13, <<Str("a"), Let>>), Str("aba"), Let,
  Arr(14, <<Arr(15, <<Str("a"), Str("1")>>), Arr(16, <<Str("a"), Str("2")>>), Arr(17, <<Str("b"), AB>>)>>), Null, Undef}
PairLists == {Arr(14, <<Arr(15, <<Str("a"), Str("1")>>), Arr(16, <<Str("a"), Str("2")>>), Arr(17, <<Str("b"), AB>>)>>),
  Arr(14, <<Arr(15, <<Str("a"), Arr(18, <<Str("1")>>)>>)>>), Arr(11, <<>>), Arr(14, <<Arr(15, <<AB, Str("1")>>)>>), Let}
SetObjects == {New(Global("Set"), <<x>>) : x \in Sequences1} \union {New(Global("Set"), <<>>)}
MapObjects == {New(Global("Map"), <<x>>) : x \in PairLists} \union {New(Global("Map"), <<>>)}
FromArr(x) == SCall("Array", "from", <<x>>)
Iterated == {FromArr(x) : x \in SetObjects \union MapObjects \union M0(SetObjects \union MapObjects, {"keys", "values", "entries"})
  \union M1(SetObjects, {"union", "intersection", "difference", "symmetricDifference"}, SetObjects)} \union {FromArr(x) : x \in {Str("ab"), Str("")}}
Keyers == {Arrow(<<"v">>, Param("v")), Arrow(<<"v", "i">>, Param("i")), Arrow(<<>>, Str("a")), Arrow(<<>>, AB), Let}
Groups == {ObjectCall("groupBy", <<x, f>>) : x \in Sequences1 \ {Null, Undef}, f \in Keyers}
Parameters == {New(Global("URLSearchParams"), as) : as \in {<<>>, <<Str("a=1&b=2&a=3")>>, <<Str("?a=1")>>, <<AB>>, <<Let>>, <<Undef>>,
  <<Cond(Let, Str("a=1"), Str("b=2"))>>}} \union {Get(New(Global("URL"), <<Str("http://a/b?b=1")>>), "searchParams")}
Urls1 == {New(Global("URL"), as) : as \in {<<Str("http://a/b")>>, <<Str("http://a")>>, <<Str("b"), Str("http://a/b")>>, <<Str("b")>>,
  <<AB, Str("http://a")>>, <<Str("http://a"), Undef>>, <<Let>>}}
UrlProperties == {"href", "protocol", "host", "hostname", "username", "port", "pathname", "search", "hash", "origin", "x"}
Day1 == Str("1970-01-02T01:00:00.000Z")
DateObjects == {New(Global("Date"), as) : as \in {<<Day1>>, <<Num(3600000)>>, <<Cond(Let, Num(0), Num(86400000))>>, <<Str("x")>>, <<Let>>, <<>>,
  <<Const("k", Day1)>>}}
Numbers == {Num(0), Num(2), Un("-", Num(4)), Str("4"), Cond(Let, Num(1), Num(9)), Let}
Paths == {Str("/a/b.c"), Str("a/../b"), Str("b"), Str(".."), AB, Let, Str("")}
PathModules == {Import("path", "*"), Import("node:path", "default"), Global("path")}
TextEnum == [A |-> Str("a"), B |-> Str("b")]
NumberEnum == [A |-> Num(0), B |-> Num(1)]
OpenEnum == [A |-> Str("a"), B |-> Let]
Types == {TLit(Str("a")), TLit(Num(1)), TLit(Un("-", Num(1))), TLit(Big(3)), TLit(Bool(TRUE)), TUnion(<<TLit(Str("a")), TLit(Str("b"))>>),
  TUnion(<<TLit(Str("a")), TOpen>>), TTemplate("x", <<TSpan(TUnion(<<TLit(Str("a")), TLit(Str("b"))>>), "y")>>),
    TTemplate("x", <<TSpan(TOpen, "y")>>), TKeyof(Two(Null, Null)), TKeyof(Const("o", Two(Null, Null))), TEnum(TextEnum), TEnum(OpenEnum), TOpen,
    TUnion(<<TEnum(TextEnum), TLit(Str("c"))>>)}
ObjectForms == {
  {Get(o, n) : o \in Objs \union MadeObjects, n \in PropertyNames}, {At(o, k) : o \in Objs, k \in Keys},
    {At(o, k) : o \in MadeObjects, k \in {Str("a"), AB}}, {Get(Get(o, "a"), n) : o \in Objs, n \in PropertyNames},
      {At(Get(o, "b"), Num(0)) : o \in Objs \union MadeObjects},
  {At(ObjectCall(m, <<o>>), i) : m \in {"keys", "values", "getOwnPropertyNames"}, o \in Objs \union MadeObjects, i \in {Num(1)}},
    {At(SCall("Reflect", "ownKeys", <<o>>), i) : o \in Objs, i \in {Num(0), Num(1), Num(5), Let}},
  {At(At(ObjectCall("entries", <<o>>), i), j) : o \in Objs \union MadeObjects, i \in {Num(1), Cond(Let, Num(0), Num(1))}, j \in {Num(0), Num(1)}},
  {At(ObjectCall(m, <<o>>), i) : m \in {"keys", "values"}, o \in {x \in Sequences1 : x.k = "arr"}, i \in {Num(0), Num(1)}},
  {ObjectCall("hasOwn", <<o, k>>) : o \in Objs, k \in Keys}, {SCall("Reflect", m, <<o, k>>) : m \in {"has"}, o \in Objs, k \in Keys},
    {SCall("Reflect", "get", <<o, k>>) : o \in Objs, k \in {Str("a"), AB}},
  {MCall(o, m, <<k>>) : o \in Objs, m \in {"hasOwnProperty", "propertyIsEnumerable"}, k \in Keys},
  {MCall(Get(Get(Global("Object"), "prototype"), m), "call", <<o, k>>) : m \in {"hasOwnProperty", "propertyIsEnumerable"}, o \in Objs
    \union {Arr(1, <<Str("a")>>)}, k \in Keys \union {Str("length"), Str("0")}},
  {MCall(Get(Get(Global("Object"), "prototype"), "toString"), "call", <<o>>) : o \in Objs \union Sequences1 \union {Num(1), Bool(TRUE), Null, Undef}},
  {Get(ObjectCall("getOwnPropertyDescriptor", <<o, k>>), n) : o \in Objs \union {Arr(1, <<Str("a")>>)}, k \in {Str("a"), Str("x"), Str("length"), AB},
    n \in {"value", "writable", "enumerable", "configurable"}},
  {Get(Get(ObjectCall("getOwnPropertyDescriptors", <<o>>), "a"), n) : o \in Objs, n \in {"value", "writable", "enumerable", "configurable"}},
  {ObjectCall("is", <<x, y>>) : x \in {Str("a"), Num(1), Null, AB, Let, Bool(TRUE)}, y \in {Str("a"), Num(1), Null, AB, Let, Undef}},
  {ObjectCall(m, <<x>>) : m \in {"isExtensible", "isFrozen", "isSealed"}, x \in Objs \union {Str("a"), Num(1), Null, Let}},
  M1(SetObjects \union MapObjects, {"has"}, {Str("a"), Str("x"), AB, Let}), M1(MapObjects, {"get"}, {Str("a"), Str("b"), Str("x"), AB, Let}),
    {Get(x, "size") : x \in SetObjects \union MapObjects}, M1(SetObjects, {"isSubsetOf", "isSupersetOf", "isDisjointFrom"}, SetObjects),
  {At(MCall(m, "get", <<Str("a")>>), Num(0)) : m \in MapObjects},
  M0(Iterated, {"join"}), {Get(x, "length") : x \in Iterated}, {At(x, Num(0)) : x \in Iterated}, {At(At(x, Num(0)), Num(1)) : x \in Iterated},
  {Get(Get(g, "a"), "length") : g \in Groups}, {At(Get(g, "b"), Num(0)) : g \in Groups}, {At(ObjectCall("keys", <<g>>), Num(0)) : g \in Groups},
    {At(At(FromArr(SCall("Map", "groupBy", <<x, f>>)), Num(0)), Num(0)) : x \in Sequences1 \ {Null, Undef},
      f \in Keyers \ {Arrow(<<"v", "i">>, Param("i"))}},
  {MCall(MCall(SCall("Map", "groupBy", <<x, f>>), "get", <<Str("a")>>), "join", <<>>) : x \in Sequences1 \ {Null, Undef}, f \in Keyers},
  M0(Parameters, {"toString"}), M1(Parameters, {"get", "has"}, {Str("a"), Str("x"), AB, Let}),
    M2(Parameters, {"has"}, {Str("a"), AB}, {Str("1"), AB}), {Get(p, "size") : p \in Parameters},
      {MCall(x, "join", <<>>) : x \in M1(Parameters, {"getAll"}, {Str("a"), AB})},
      {MCall(FromArr(x), "join", <<>>) : x \in M0(Parameters, {"keys", "values", "entries"}) \union Parameters},
  {Get(u, n) : u \in Urls1, n \in UrlProperties}, M0(Urls1, {"toString", "toJSON"}),
    {SCall("URL", "canParse", as) : as \in {<<Str("http://a")>>, <<Str("a")>>, <<Str("a"), Str("http://b")>>, <<AB>>, <<Let>>}},
  M0(DateObjects, {"getTime", "valueOf", "toISOString", "toJSON", "getUTCFullYear", "getUTCDate", "getUTCDay", "getUTCHours", "getUTCMinutes"}),
    M1(DateObjects, {"setTime", "setUTCDate", "setUTCHours", "setUTCMilliseconds"}, {Num(1), Num(3), Cond(Let, Num(1), Num(2)), Let}),
  {SCall("Date", "parse", <<x>>) : x \in {Day1, Str("x"), Let}},
    {SCall("Date", "UTC", as) : as \in {<<Num(1970)>>, <<Num(1970), Num(0), Num(3)>>, <<Num(1970), Num(0), Num(2), Num(1)>>, <<Let>>}},
  {SCall("Math", m, <<x>>) : m \in {"abs", "floor", "sqrt", "sign", "round"}, x \in Numbers},
    {SCall("Math", m, <<x, y>>) : m \in {"min", "max", "imul"}, x \in Numbers, y \in Numbers},
      {SCall("Math", "pow", <<x, y>>) : x \in Numbers, y \in {Num(0), Num(2)}},
      {Get(Global("Math"), "PI"), Get(Global("Number"), "MAX_VALUE"), Get(Global("Math"), "x")},
  {MCall(p, m, <<x, y>>) : p \in PathModules, m \in {"join", "resolve", "basename"}, x \in Paths, y \in Paths},
    {MCall(p, m, <<x>>) : p \in PathModules, m \in {"normalize", "basename", "dirname", "extname", "join", "resolve"}, x \in Paths},
      {Call(Import("path", "join"), <<Global("__dirname"), x>>) : x \in Paths},
      {MCall(GCall("require", <<Str("path")>>), "join", <<x>>) : x \in Paths},
  {MCall(Import("querystring", "*"), m, <<x>>) : m \in {"escape", "unescape"}, x \in {Str("a b"), Str("%20"), AB, Let}},
  {SCall("JSON", "stringify", <<x>>) : x \in Objs
    \union {Str("a"), Num(1), Un("-", Num(1)), Null, Undef, Bool(TRUE), AB, Let, Arr(1, <<Undef, Hole, Null>>), Arr(1, <<AB, Num(1)>>)}},
  {Get(Enum(e), n) : e \in {TextEnum, OpenEnum}, n \in {"A", "B"}},
    {At(Enum(e), k) : e \in {TextEnum, OpenEnum}, k \in {Str("A"), Cond(Let, Str("A"), Str("B"))}},
      {Get(Enum(NumberEnum), "A"), Get(Enum(NumberEnum), "B")},
  {Typed(t) : t \in Types}, {At(Two(Str("1"), Str("2")), Typed(t)) : t \in Types}, {Bin("+", Str("x"), Typed(t)) : t \in Types}
 }

(* -------------------------------- programs ------------------------------- *)

Dir == ("./d" :> "/c/d") @@ ("./e" :> "/c/e") @@ ("./f" :> "/c/f") @@ ("./g" :> "/c/g") @@ ("./h" :> "/c/h")
D == "/c/d"
E == "/c/e"
F == "/c/f"
G == "/c/g"
H == "/c/h"
NoManifest == [byFile |-> FALSE, all |-> {}, files |-> <<>>]
Source(body, ext, type, broken) == [body |-> body, ext |-> ext, type |-> type, broken |-> broken]
Ts(body) == Source(body, "ts", "", FALSE)
Program(files, entries, manifest) ==
  [files |-> files, entries |-> entries, names |-> Dir, rest |-> "", listed |-> FALSE, manifest |-> manifest]
Linked(files) == Program(files, <<D>>, NoManifest)

(* ------------------------- statements of a module ------------------------ *)

Sibling(t) == Request("./" \o t, "")
I(t, n) == ImportFrom(Sibling(t), <<<<n, "v">>>>, FALSE)
X(t, n, as) == ExportFrom(Sibling(t), <<<<n, as>>>>, FALSE)
S(t) == ExportAll(Sibling(t))
Req(t) == Eval(GCall("require", <<Str("./" \o t)>>))
Statements(others) ==
  {I(t, n) : t \in others, n \in {"x", "default", "*"}} \union {X(t, n, "x") : t \in others, n \in {"x", "y", "*"}}
  \union {S(t) : t \in others} \union {Req(t) : t \in others} \union {ExportLocal("x", "p"), ExportLocal("default", "p"), ExportLocal("x", "v")}
(* A file that does not exist, and a module of the host.                   *)
Rare == {I("q", "x"), X("q", "x", "x"), ImportFrom(Request("q", ""), <<<<"x", "v">>>>, FALSE), ExportFrom(Request("q", ""), <<<<"x", "x">>>>, FALSE)}
(* No name is exported or declared twice: that is an error of the source.  *)
Exported(st) == CASE st.s = "export" -> {st.pairs[i][2] : i \in DOMAIN st.pairs} [] st.s = "local" -> {st.name} [] OTHER -> {}
Imported(st) == IF st.s = "import" THEN {st.pairs[i][2] : i \in DOMAIN st.pairs} ELSE {}
Fit(st, su) == Exported(st) \intersect Exported(su) = {} /\ Imported(st) \intersect Imported(su) = {}
Bodies(A, B) == {<<st>> : st \in A} \union {w \in {<<st, su>> : st \in A, su \in B} : Fit(w[1], w[2])}

(* --------------------------------- graphs -------------------------------- *)

(* Every name d imports is looked up through e and f, which may form a cycle. *)
Chains ==
  {Linked(D :> Ts(<<a>>) @@ E :> Ts(b) @@ F :> Ts(<<c>>)) :
     a \in Statements({"e"}) \ {X("e", "y", "x"), ExportLocal("x", "p"), ExportLocal("default", "p"), ExportLocal("x", "v")},
     b \in Bodies(Statements({"f", "d"}) \union Rare, Statements({"f"})),
     c \in Statements({"e"}) \ {I("e", "default"), I("e", "*"), X("e", "y", "x")}}
(* Two star exports that meet again in h, in one binding or in two.        *)
Corner == {<<S("h")>>, <<X("h", "x", "x")>>, <<X("h", "y", "x")>>, <<ExportLocal("x", "p")>>, <<S("e")>>, <<X("h", "*", "x")>>, <<ExportLocal("y", "p")>>, <<>>}
Tips == {<<ExportLocal("x", "p"), ExportLocal("y", "p")>>, <<ExportLocal("x", "p"), ExportLocal("y", "q")>>, <<S("e")>>, <<X("e", "x", "x")>>}
Diamonds ==
  {Linked(D :> Ts(<<a>>) @@ E :> Ts(<<S("f"), S("g")>>) @@ F :> Ts(b) @@ G :> Ts(c) @@ H :> Ts(h)) :
     a \in {I("e", "x"), I("e", "default"), X("e", "x", "y"), S("e")}, b \in Corner, c \in Corner, h \in Tips}
(* What e is read as, and whether its source is good for that.             *)
Contents == {<<>>, <<ExportLocal("x", "p")>>, <<I("f", "x")>>, <<Req("f")>>}
Typed1(st, type) == [st EXCEPT !.req.type = type]
Formats ==
  {Linked(D :> Ts(<<Typed1(I("e", n), type)>>) @@ E :> Source(b, ext, package, FALSE) @@ F :> Ts(<<ExportLocal("x", "p")>>)) :
     n \in {"x", "default"}, type \in {"", "json", "javascript"}, b \in Contents, ext \in {"ts", "js", "mjs", "cjs"}, package \in {"", "module", "commonjs"}}
  \union {Linked(D :> Ts(<<Typed1(I("e", n), type)>>) @@ E :> Source(<<>>, "json", "", FALSE)) : n \in {"x", "default"}, type \in {"", "json"}}
Broken ==
  {Linked(D :> Ts(<<a>>) @@ E :> Source(b, ext, "", p) @@ F :> Source(c, "ts", "", q)) :
     a \in {I("e", "*"), S("e"), I("f", "x"), Dynamic({"./e"})}, b \in {<<I("f", "x")>>, <<S("f")>>, <<ExportLocal("x", "p")>>},
     c \in {<<I("e", "*"), ExportLocal("x", "p")>>, <<Dynamic({"./e"}), ExportLocal("x", "p"), Req("d")>>},
     ext \in {"ts", "mjs"}, p \in BOOLEAN, q \in BOOLEAN}
(* SeveralEntries that reach one another, one given twice, and edges of types.    *)
Erased(st) == [st EXCEPT !.erased = TRUE]
SeveralEntries ==
  {Program(D :> Ts(a) @@ E :> Ts(b) @@ F :> Ts(c), es, NoManifest) :
     a \in {<<>>, <<I("e", "x")>>, <<Req("e")>>, <<Erased(I("e", "x"))>>}, b \in {<<>>, <<I("f", "x"), ExportLocal("x", "p")>>, <<Req("d")>>, <<Erased(X("f", "x", "x"))>>},
     c \in {<<>>, <<ExportLocal("x", "p")>>, <<Req("e"), Req("d")>>}, es \in {<<D, E>>, <<E, D>>, <<F, D, E>>, <<D, D>>, <<D, E, D>>}}

(* ------------------------------ require calls ---------------------------- *)

Require == Global("require")
Module == Global("module")
ModuleRequire == Get(Module, "require")
Asked1 == {Str("./e"), Cond(Let, Str("./e"), Str("./f")), Template("./", <<Span(Cond(Let, Str("e"), Str("f")), "")>>)}
Asking(r, this, t) ==          \* the ways of calling r
  {Call(r, <<t>>), MCall(r, "call", <<this, t>>), MCall(r, "apply", <<this, Arr(1, <<t>>)>>), SCall("Reflect", "apply", <<r, this, Arr(1, <<t>>)>>),
   Call(MCall(r, "bind", <<this>>), <<t>>), Call(r, <<Spread(Arr(1, <<t>>))>>), Call(Paren(r), <<Paren(t)>>),
   MCall(r, "apply", <<this, Const("l", Arr(2, <<Spread(Arr(1, <<t>>))>>))>>), Call(r, <<>>)}
Uses(r, m, t) == Asking(r, Null, t) \union Asking(r, m, t) \union Asking(Get(m, "require"), m, t)
Function(ps, x) == Lambda(ps, Body("return", x))
(* r and m name require and module in the body of a function that is given them. *)
Calling(f, as) ==
  {Call(Paren(f), as), MCall(Paren(f), "call", <<Null>> \o as), MCall(f, "apply", <<Null, Arr(3, as)>>), SCall("Reflect", "apply", <<f, Null, Arr(3, as)>>),
   Call(MCall(f, "bind", <<Null>>), as)}
Scoped(t) == UNION {Calling(f, as) : f \in {Function(<<"r", "m">>, u) : u \in Uses(Param("r"), Param("m"), t)},
                      as \in {<<Require, Module>>, <<ModuleRequire, Module>>, <<MCall(Require, "bind", <<Null>>), Paren(Module)>>}}
Factories(t) == UNION {Calling(Const("w", f), <<Require, Module>>) : f \in {Function(<<"r", "m">>, u) : u \in Uses(Param("r"), Param("m"), t)}}
Wrapped(t) ==                  \* (function (f) { return f(require, module) })(function (r, m) { ... })
  {Call(Paren(Function(<<"f">>, c)), <<Function(<<"r", "m">>, u)>>) :
     c \in Calling(Param("f"), <<Require, Module>>), u \in Uses(Param("r"), Param("m"), t)}
Asker(body) == Linked(D :> Source(body, "js", "", FALSE) @@ E :> Ts(<<>>) @@ F :> Source(<<Req("e")>>, "js", "", FALSE))
Direct == {Asker(<<Eval(u)>>) : u \in UNION {Uses(Require, Module, t) : t \in Asked1}}
Aliased == {Asker(<<Declare("r", r), Declare("m", Module), Eval(u)>>) :
              r \in {Require, ModuleRequire, MCall(Require, "bind", <<Module>>)},
              u \in UNION {Uses(Const("r", r), Const("m", Module), Str("./e")) : r \in {Require, ModuleRequire, MCall(Require, "bind", <<Module>>)}}}
(* const { require: r } = module, under either name, beside other elements and through an alias of module. *)
Other(key, name) == [Element(key, name) EXCEPT !.plain = FALSE]
Patterns == {<<Element("require", "r")>>, <<Element("exports", "out"), Element("require", "r")>>, <<Other("require", "q"), Element("require", "r")>>,
             <<Element("require", "r"), Other("exports", "out")>>}
Taking(p, x) == <<Declare("m", Paren(Module)), Destructure(p, x)>>
Destructured ==
  {Asker(Taking(p, x) \o <<Eval(u)>>) : p \in Patterns, x \in {Module, Paren(Module), Const("m", Paren(Module))},
     u \in Uses(Const("r", ModuleRequire), Const("m", Paren(Module)), Str("./e"))}
  \union {Asker(<<Destructure(<<Element("require", "require")>>, Module), Eval(Call(Const("require", ModuleRequire), <<t>>))>>) : t \in Asked1}
  \union {Asker(Taking(p, Module) \o <<Declare("b", b), Eval(u)>>) : p \in Patterns, b \in {MCall(Const("r", ModuleRequire), "bind", <<Module>>)},
             u \in Uses(Const("b", MCall(Const("r", ModuleRequire), "bind", <<Module>>)), Module, Str("./e"))}
ScopedUses == {Asker(<<Eval(u)>>) : u \in Scoped(Str("./e"))}
FactoryUses == {Asker(<<Eval(u)>>) : u \in Factories(Str("./e")) \union Wrapped(Str("./e"))}
Both == {Asker(<<Eval(Arr(4, <<u, Cond(Let, Call(Require, <<Str("./f")>>), w)>>))>>) :
           u \in Factories(Str("./e")), w \in {Null, Call(Require, <<Str("./e")>>)}}

(* ------------------------- expressions and manifests --------------------- *)

P == "/c/p"
Open == {Let, Template("./", <<Span(Let, "")>>), Bin("+", Str("./"), Let), Bin("+", Let, Str("/e")), Template("a", <<Span(Let, "b"), Span(AB, "")>>), Bin("+", Bin("+", Str("./"), Let), Str("e"))}
Manifests == {NoManifest, [byFile |-> TRUE, all |-> {}, files |-> <<>>], [byFile |-> FALSE, all |-> {"./e", "./f", "yx", "./yx", "./", "a", "yx/e", "ayxba", "./e"}, files |-> <<>>],
              [byFile |-> TRUE, all |-> {}, files |-> D :> {"./e", "yx", "", "./yx", "./", "yx/e", "/e", "./yxe", "ayxba", "ayxbb", "aba", "abb"}]}
Listings == {[Program(D :> Ts(<<Eval(Call(r, <<x>>))>>) @@ E :> Ts(<<Req("f")>>) @@ F :> Ts(<<>>), <<D>>, man)
                EXCEPT !.names = @ @@ ("yx" :> E) @@ ("./yx" :> F)] : x \in Open, r \in {Require, ModuleRequire}, man \in Manifests}
Expression(x) ==               \* every text asked for is a text of the manifest and denotes the file P
  [files |-> D :> Ts(<<Eval(GCall("require", <<Template("", <<Span(x, "")>>)>>))>>) @@ P :> Ts(<<>>), entries |-> <<D>>,
   names |-> <<>>, rest |-> P, listed |-> TRUE, manifest |-> NoManifest]

(* The whole of Asked is one value for the run's statistics.               *)
MCRequests(body) == LET texts == L!Asked(body) IN texts
MCFamilies == {Chains, Diamonds, Formats, Broken, SeveralEntries, Direct, Aliased, Destructured, ScopedUses, FactoryUses, Both, Listings}
  \union {{Expression(x) : x \in X1} : X1 \in TextForms} \union {{Expression(x) : x \in X1} : X1 \in ListForms} \union {{Expression(x) : x \in X1} : X1 \in ObjectForms}
===============================================================================
