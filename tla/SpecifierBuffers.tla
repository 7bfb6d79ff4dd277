---------------------------- MODULE SpecifierBuffers ----------------------------
(***************************************************************************)
(* The Buffer resolvers of module-specifiers.ts: which buffers an          *)
(* expression may make, and the text of what is asked of them.             *)
(***************************************************************************)
EXTENDS SpecifierOperands, HostBuffers

IsBufferConstructor(x) == IsConstructor(x, "buffer", "Buffer")
CallsBuffer(u, names, lo, hi) == CallsMethod(u, names, lo, hi) /\ IsBufferConstructor(Receiver(u))

Utf8Names == {"utf8", "utf-8"}
OtherEncodings == {"hex", "base64", "latin1", "binary", "ascii"}
IsEncoding(s) == Lower(s) \in Utf8Names \union OtherEncodings
NodeEncoding(v) ==             \* "" when the encoding is not known
  CASE v.k = "undefined" -> "utf8" [] Lower(v.s) \in Utf8Names \union {""} -> "utf8"
    [] IsEncoding(v.s) -> Lower(v.s) [] OTHER -> ""
ValidInput(s, encoding) == encoding = "hex" => IsHex(s)
ByteLength(s, v) ==
  CASE v.k = "undefined" -> Num(Len(s)) [] Lower(v.s) \in Utf8Names \union {""} -> Num(Len(s))
    [] Lower(v.s) = "hex" -> Num(Len(s) \div 2) [] Lower(v.s) \in {"latin1", "binary", "ascii"} -> Num(Len(s))
    [] OTHER -> No

(* ------------------------ the buffers of an expression ------------------ *)

DecodedInput(s, v) == LET e == NodeEncoding(v) IN IF e = "" \/ ~ValidInput(s, e) THEN No ELSE Decoded(s, e)
BufferFrom(u) ==
  LET list == Bare(u.as[1])
      bytes == [i \in DOMAIN list.es |-> IntegerKeys(list.es[i])]
  IN CASE ~CallsBuffer(u, {"from"}, 1, 2) -> {}
       [] list.k = "arr" -> IF Len(u.as) > 1 \/ ~NoSpread(list.es) \/ \E i \in DOMAIN bytes : Cardinality(bytes[i]) # 1 THEN {}
                            ELSE {Bytes([i \in DOMAIN t |-> Byte(Whole(t[i]))]) : t \in Combinations(bytes)}
       [] OTHER -> AllOrNone({DecodedInput(t[1].s, t[2]) : t \in Combinations(Operands(u.as, <<"text", "text?">>))})
BufferAlloc(u) ==
  LET fill(v) == IF v.k = "undefined" THEN 0 ELSE Byte(Whole(v))
  IN  IF ~CallsBuffer(u, {"alloc"}, 1, 2) THEN {}
      ELSE AllOrNone({IF Whole(t[1]) < 0 THEN No ELSE Bytes([i \in 1 .. Whole(t[1]) |-> fill(t[2])])
                        : t \in Combinations(Operands(u.as, <<"int", "int?">>))})
Transforms(u, names, lo, kinds) ==           \* a method of each alternative buffer
  IF ~CallsMethod(u, names, lo, Len(kinds)) THEN {}
  ELSE {HostBuffer(Callee(u).name, t[1], Tail(t)) : t \in Combinations(<<BuffersOf(Receiver(u))>> \o Operands(u.as, kinds))}
BufferSlice(u) == Transforms(u, {"slice", "subarray"}, 0, <<"int?", "int?">>)
BufferFill(u) == AllOrNone(Transforms(u, {"fill"}, 1, <<"int", "int?", "int?">>))
BufferSwap(u) == AllOrNone(Transforms(u, {"swap16", "swap32", "swap64"}, 0, <<>>))
BufferValueOf(u) == IF CallsMethod(u, {"valueOf"}, 0, 0) THEN BuffersOf(Receiver(u)) ELSE {}
CallsTranscode(u) ==
  /\ u.k = "call" /\ Len(u.as) = 3 /\ NoSpread(u.as)
  /\ \/ Callee(u).k = "import" /\ Callee(u).mod = "buffer" /\ Callee(u).name = "transcode"
     \/ Callee(u).k = "get" /\ Callee(u).name = "transcode" /\ Bare(Receiver(u)).k = "import"
        /\ Bare(Receiver(u)).mod = "buffer" /\ Bare(Receiver(u)).name \in {"default", "*"}
Transcoded(t) ==               \* from t[2] to t[3]
  LET from == Lower(t[2].s)
      to == Lower(t[3].s)
      text == Encoded(t[1], "utf8").s
      raw == IF from \in Utf8Names THEN t[1] ELSE Decoded(text, from)
  IN CASE {from, to} \ (Utf8Names \union {"hex", "base64"}) # {} \/ (from = "hex" /\ ~IsHex(text)) -> No
       [] to \in Utf8Names -> raw
       [] OTHER -> Decoded(Encoded(raw, to).s, "utf8")
BufferTranscode(u) ==
  IF CallsTranscode(u) THEN AllOrNone({Transcoded(t) : t \in Combinations(Operands(u.as, <<"buffer", "text", "text">>))}) ELSE {}
EncoderEncode(u) ==            \* new TextEncoder().encode(text)
  LET r == Bare(Receiver(u))
  IN  IF ~CallsMethod(u, {"encode"}, 0, 1) \/ r.k # "new" THEN {}
      ELSE IF ~IsConstructor(r.f, "util", "TextEncoder") \/ r.as # <<>> THEN {}
      ELSE {IF t[1].k = "undefined" THEN Bytes(<<>>) ELSE Decoded(t[1].s, "utf8") : t \in Combinations(Operands(u.as, <<"text?">>))}
Joined(t) == Bytes(FlattenSeq([i \in DOMAIN t |-> t[i].bs]))
Resized(b, v) ==
  CASE v.k = "undefined" -> b [] Whole(v) < 0 -> No
    [] OTHER -> Bytes([i \in 1 .. Whole(v) |-> IF i <= Len(b.bs) THEN b.bs[i] ELSE 0])
BufferConcat(u) ==
  LET list == Bare(u.as[1])
  IN  IF ~CallsBuffer(u, {"concat"}, 1, 2) \/ list.k # "arr" THEN {}
      ELSE IF ~NoSpread(list.es) THEN {}
      ELSE AllOrNone({Resized(Joined(t), v) : t \in Combinations([i \in DOMAIN list.es |-> BuffersOf(list.es[i])]),
                                              v \in Operand("int?", u.as, 2)})

FirstSome(ss) == IF \E i \in DOMAIN ss : ss[i] # {} THEN ss[CHOOSE i \in DOMAIN ss : ss[i] # {} /\ \A j \in 1 .. i - 1 : ss[j] = {}] ELSE {}
(* resolveStaticBufferExpression: the first that knows the call.           *)
BufferExpression(x) ==
  LET u == Bare(x)
  IN  IF u.k # "call" THEN {}
      ELSE FirstSome(<<BufferTranscode(u), EncoderEncode(u), BufferFrom(u), BufferAlloc(u), BufferSlice(u), BufferFill(u),
                       BufferSwap(u), BufferValueOf(u), BufferConcat(u)>>)

(* ------------------------------ their texts ------------------------------ *)

BufferTexts(u, names, lo, kinds) == AsTexts(Transforms(u, names, lo, kinds))
DecoderDecode(u) ==            \* new TextDecoder(label).decode(bytes)
  LET r == Bare(Receiver(u))
      labels == Operand("text?", r.as, 1)
  IN  IF ~CallsMethod(u, {"decode"}, 0, 1) \/ r.k # "new" THEN {}
      ELSE IF ~IsConstructor(r.f, "util", "TextDecoder") \/ Len(r.as) > 1 THEN {}
      ELSE IF labels = {} \/ \E l \in labels : l.k = "str" /\ Lower(l.s) \notin Utf8Names THEN {}
      ELSE IF StaticUndefined(Arg(u.as, 1)) THEN {Str("")}
      ELSE {Encoded(b, "utf8") : b \in BuffersOf(u.as[1])}
BufferByteLength(u) ==
  IF ~CallsBuffer(u, {"byteLength"}, 1, 2) THEN {}
  ELSE IF BuffersOf(u.as[1]) # {} THEN {AsText(Num(Len(b.bs))) : b \in BuffersOf(u.as[1])}
  ELSE AsTexts({ByteLength(t[1].s, t[2]) : t \in Combinations(Operands(u.as, <<"text", "text?">>))})
BufferIsEncoding(u) ==
  IF CallsBuffer(u, {"isEncoding"}, 1, 1) THEN {AsText(Bool(IsEncoding(t.s))) : t \in Texts(u.as[1])} ELSE {}
InEncoding(b, v) == IF NodeEncoding(v) = "" THEN No ELSE Encoded(b, NodeEncoding(v))
BufferFromToString(u) ==       \* Buffer.from(text, encoding).toString(encoding)
  LET r == Bare(Receiver(u))
      both(t) == LET b == DecodedInput(t[1].s, t[2]) IN IF Known(b) THEN InEncoding(b, t[3]) ELSE No
  IN  IF ~CallsMethod(u, {"toString"}, 0, 1) \/ ~CallsBuffer(r, {"from"}, 1, 2) THEN {}
      ELSE AllOrNone({both(t) : t \in Combinations(Operands(r.as, <<"text", "text?">>) \o Operands(u.as, <<"text?">>))})
BufferToString(u) ==
  IF CallsMethod(u, {"toString"}, 0, 1)
  THEN AllOrNone({InEncoding(b, v) : b \in BuffersOf(Receiver(u)), v \in Operand("text?", u.as, 1)}) ELSE {}
BufferConcatToString(u) ==     \* Buffer.concat(list).toString(encoding)
  IF CallsMethod(u, {"toString"}, 0, 1) /\ CallsMethod(Bare(Receiver(u)), {"concat"}, 0, Many) THEN BufferToString(u) ELSE {}
BufferToLocaleString(u) ==
  IF CallsMethod(u, {"toLocaleString"}, 0, 0) THEN {Encoded(b, "utf8") : b \in BuffersOf(Receiver(u))} ELSE {}

CompareKinds == <<"buffer", "int?", "int?", "int?", "int?">>
BufferCompare(u) ==
  IF CallsBuffer(u, {"compare"}, 2, 2)
  THEN {AsText(Num(Order(t[1], t[2]))) : t \in Combinations(Operands(u.as, <<"buffer", "buffer">>))}
  ELSE IF CallsMethod(u, {"compare"}, 1, 5) /\ IsBufferConstructor(Receiver(u)) THEN {}
  ELSE BufferTexts(u, {"compare"}, 1, CompareKinds)
BufferCopy(u) == BufferTexts(u, {"copy"}, 1, <<"buffer", "int?", "int?", "int?">>)
BufferWrite(u) ==
  IF CallsMethod(u, {"write"}, 1, 4) /\ \E e \in Operand("text?", u.as, 4) : NodeEncoding(e) = "" THEN {}
  ELSE BufferTexts(u, {"write"}, 1, <<"text", "int?", "int?", "text?">>)
IntegerReads == {"readUInt8", "readInt8", "readUInt16LE", "readUInt16BE", "readInt16LE", "readUInt32LE"}
IntegerWrites == {"writeUInt8", "writeInt8", "writeUInt16LE", "writeUInt16BE", "writeInt16LE", "writeUInt32LE"}
BufferIntegerRead(u) == BufferTexts(u, IntegerReads, 0, <<"int?">>)
BufferIntegerWrite(u) == BufferTexts(u, IntegerWrites, 1, <<"int", "int?">>)
BufferFloatRead(u) == BufferTexts(u, {"readFloatLE", "readDoubleLE"}, 0, <<"int?">>)
BufferFloatWrite(u) == BufferTexts(u, {"writeFloatLE", "writeDoubleLE"}, 1, <<"number", "int?">>)
BufferEquals(u) == BufferTexts(u, {"equals"}, 1, <<"buffer">>)
SearchNeedles(x) ==            \* a buffer, then a byte unless it is written as a text, then a text
  FirstSome(<<BuffersOf(x), IF IsTextLiteral(Bare(x)) THEN {} ELSE IntegerKeys(x), Texts(x)>>)
BufferSearch(u) ==
  LET encodings == Operand("text?", u.as, 3)
  IN  IF ~CallsMethod(u, {"indexOf", "lastIndexOf", "includes"}, 1, 3) \/ \E e \in encodings : NodeEncoding(e) = "" THEN {}
      ELSE {AsText(HostBuffer(Callee(u).name, t[1], Tail(t)))
              : t \in Combinations(<<BuffersOf(Receiver(u)), SearchNeedles(u.as[1]), Operand("int?", u.as, 2), encodings>>)}
MakesBuffer(x) ==              \* isStaticBufferExpression: TRUE, FALSE or No
  LET u == Bare(x)
  IN CASE u.k = "call" /\ CallsMethod(u, {"from", "alloc", "allocUnsafe", "allocUnsafeSlow", "concat"}, 0, Many)
               /\ IsBufferConstructor(Receiver(u)) -> Bool(TRUE)
       [] u.k = "call" /\ Callee(u).k = "get" /\ IsBufferConstructor(Receiver(u)) -> Bool(FALSE)
       [] u.k \in {"str", "num", "big", "bool", "null", "arr", "obj"} -> Bool(FALSE)
       [] OTHER -> No
BufferIsBuffer(u) == IF CallsBuffer(u, {"isBuffer"}, 1, 1) THEN AsTexts({MakesBuffer(u.as[1])}) ELSE {}
BufferLength(x) == IF x.name = "length" THEN {AsText(Num(Len(b.bs))) : b \in BuffersOf(x.x)} ELSE {}

(* Lengths and offsets of array buffers and their views.                   *)
RECURSIVE ArrayBufferLengths(_), ViewMetadata(_)
NewOf(u, name, lo, hi) == u.k = "new" /\ IsNamed(u.f, {name}) /\ Len(u.as) \in lo .. hi /\ NoSpread(u.as)
OrZero(v) == IF v.k = "undefined" THEN 0 ELSE Whole(v)
ArrayBufferLengths(x) ==
  LET u == Bare(x)
      ls == {OrZero(v) : v \in Operand("int?", u.as, 1)}
  IN CASE u.k = "const" -> ArrayBufferLengths(u.x)
       [] NewOf(u, "ArrayBuffer", 0, 1) -> IF \E l \in ls : l < 0 THEN {} ELSE ls
       [] OTHER -> {}
ViewMetadata(x) ==
  LET u == Bare(x)
      view(n, o, v) == [length |-> n, offset |-> OrZero(o), size |-> IF v.k = "undefined" THEN n - OrZero(o) ELSE Whole(v)]
      views == {view(n, o, v) : n \in ArrayBufferLengths(u.as[1]), o \in Operand("int?", u.as, 2), v \in Operand("int?", u.as, 3)}
  IN CASE u.k = "const" -> ViewMetadata(u.x)
       [] NewOf(u, "DataView", 1, 3) ->
            IF \E v \in views : v.offset < 0 \/ v.offset > v.length \/ v.size < 0 \/ v.offset + v.size > v.length THEN {} ELSE views
       [] OTHER -> {}
ArrayBufferLength(x) == IF x.name = "byteLength" THEN {AsText(Num(n)) : n \in ArrayBufferLengths(x.x)} ELSE {}
ViewProperty(x) ==
  IF x.name \in {"byteLength", "byteOffset"}
  THEN {AsText(Num(IF x.name = "byteOffset" THEN v.offset ELSE v.size)) : v \in ViewMetadata(x.x)} ELSE {}
ViewBufferLength(x) ==         \* view.buffer.byteLength
  LET u == Bare(x.x)
  IN  IF x.name = "byteLength" /\ u.k = "get" /\ u.name = "buffer" THEN {AsText(Num(v.length)) : v \in ViewMetadata(u.x)} ELSE {}

ElementText(b, i) == LET n == Whole(i) IN IF n \in 0 .. Len(b.bs) - 1 THEN AsText(Num(b.bs[n + 1])) ELSE Str("undefined")
BufferElement(x) == {ElementText(b, i) : b \in BuffersOf(x.x), i \in IntegerKeys(x.y)}
JsonBuffers(x) ==              \* buffer.toJSON()
  LET u == Bare(x) IN IF CallsMethod(u, {"toJSON"}, 0, 0) THEN BuffersOf(Receiver(u)) ELSE {}
JsonData(x) == LET u == Bare(x) IN IF u.k = "get" /\ u.name = "data" THEN JsonBuffers(u.x) ELSE {}
JsonProperty(x) ==
  CASE x.name = "type" -> IF JsonBuffers(x.x) # {} THEN {Str("Buffer")} ELSE {}
    [] x.name = "length" -> {AsText(Num(Len(b.bs))) : b \in JsonData(x.x)}
    [] OTHER -> {}
JsonElement(x) == {ElementText(b, i) : b \in JsonData(x.x), i \in IntegerKeys(x.y)}

===============================================================================
