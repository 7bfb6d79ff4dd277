------------------------------- MODULE Specifiers -------------------------------
(***************************************************************************)
(* Which texts the argument of require() or import() may have:             *)
(* staticStringExpressionTexts of module-specifiers.ts, the prefix and     *)
(* suffix it falls back on, and the argument a call really passes.  No     *)
(* texts means that nothing is known; texts mean that there are no others. *)
(***************************************************************************)
EXTENDS SpecifierCollections

RECURSIVE LogicalTexts(_), NullishTexts(_), TypeTexts(_, _), AffixOf(_)

Joins(A, B) == {Str(a.s \o b.s) : a \in A, b \in B}
SpanTexts(u) == FoldLeft(LAMBDA ts, span : Joins(Joins(ts, Texts(span.x)), {Str(span.s)}), {Str(u.s)}, u.spans)
FileNames == {"__filename", "__dirname"}
FileText(name) == Str(IF name = "__filename" THEN FileName ELSE Directory(FileName))

(* ------------------------------ operators -------------------------------- *)

MinusTexts(x) ==
  LET t == One(Texts(x))
      n == Negate(TextNum(t.s))
  IN  IF ~Known(t) THEN {} ELSE IF x.k = "big" THEN {Str("-" \o t.s)} ELSE IF IsFinite(n) THEN {AsText(n)} ELSE {}
LogicalTexts(x) ==             \* resolveLogicalStringOperand: only what is certainly a text
  LET u == Bare(x)
      a == LogicalTexts(u.x)
      b == LogicalTexts(u.y)
  IN CASE u.k \in {"str", "template", "raw"} \/ (u.k = "bin" /\ u.op = "+") -> Texts(u)
       [] u.k = "call" -> IF PathCall(u) # {} THEN Texts(u) ELSE {}
       [] u.k = "cond" -> IF a = {} \/ b = {} THEN {} ELSE a \union b
       [] u.k = "global" /\ u.name \in FileNames -> Texts(u)
       [] u.k = "const" -> a
       [] OTHER -> {}
Nullish(ts, may) == [k |-> "nullish", ts |-> ts, may |-> may]
NullishTexts(x) ==             \* resolveNullishStringOperand: its texts, and whether it may be null or undefined
  LET u == Bare(x)
      a == NullishTexts(u.x)
      b == NullishTexts(u.y)
      ts == LogicalTexts(u)
  IN CASE u.k \in {"null", "undefined", "void"} -> Nullish({}, TRUE)
       [] u.k = "cond" -> IF Known(a) /\ Known(b) THEN Nullish(a.ts \union b.ts, a.may \/ b.may) ELSE No
       [] u.k = "bin" /\ u.op = "??" ->
            IF ~Known(a) THEN No ELSE IF ~a.may THEN a ELSE IF Known(b) THEN Nullish(a.ts \union b.ts, b.may) ELSE No
       [] u.k = "const" -> a
       [] OTHER -> IF ts = {} THEN No ELSE Nullish(ts, FALSE)
OrElse(ts, right) == IF right = {} THEN {} ELSE ts \union right
BinaryTexts(u) ==
  LET left == LogicalTexts(u.x)
      empty == {t \in left : t.s = ""}
      kept == IF u.op = "||" THEN left \ empty ELSE empty
      n == NullishTexts(u.x)
  IN CASE u.op = "+" -> Joins(Texts(u.x), Texts(u.y))
       [] u.op = "??" -> IF ~Known(n) THEN {} ELSE IF n.may THEN OrElse(n.ts, Texts(u.y)) ELSE n.ts
       [] u.op \in {"||", "&&"} -> IF left = kept THEN left ELSE OrElse(kept, Texts(u.y))
       [] OTHER -> {}
RawCall(u) ==                  \* String.raw({raw: [...]}, ...)
  LET v == CollectionOf(u.as[1])
      last == Most({i \in DOMAIN v.ps : v.ps[i].name = "raw"}, 0)
      raw == DenseOf(v.ps[last].x)
      substitution(i) == IF i + 1 <= Len(u.as) THEN Texts(u.as[i + 1]) ELSE {Str("undefined")}
      part(i) == IF i = 1 THEN Texts(raw.es[1]) ELSE Joins(substitution(i - 1), Texts(raw.es[i]))
  IN  IF ~CallsOwner(u, {"String"}, {"raw"}, 1, Many) THEN {} ELSE IF ~AllPlain(v) THEN {} ELSE IF last = 0 THEN {}
      ELSE IF ~Known(raw) THEN {} ELSE FoldLeft(Joins, {Str("")}, [i \in DOMAIN raw.es |-> part(i)])

(* --------------------------- calls and accesses -------------------------- *)

CallTexts(u) ==                \* staticCallResolvers, in their order
  FirstSome(<<BooleanCall(u), PrimitiveConstructor(u), StringConstructor(u), RawCall(u), RegExpEscape(u), RegExpString(u),
              RegExpTest(u), RegExpSearch(u), UriCall(u), Base64Call(u), UrlCanParse(u), UrlString(u), BufferByteLength(u),
              BufferIsEncoding(u), BufferFromToString(u), BufferConcatToString(u), BufferToString(u), BufferToLocaleString(u),
              BufferCompare(u), BufferCopy(u), BufferWrite(u), BufferIntegerWrite(u), BufferIntegerRead(u), BufferFloatWrite(u),
              BufferFloatRead(u), BufferEquals(u), BufferSearch(u), BufferIsBuffer(u), DecoderDecode(u), NumericParser(u),
              GlobalPredicate(u), NumericPredicate(u), ArrayPredicate(u), ArrayMutation(u), ArraySearch(u), ArrayReduce(u),
              MapSetCall(u), ObjectIs(u), ObjectHasOwn(u), OwnPrototypePredicate(u), BufferOwnPredicate(u), PrototypeToString(u),
              ReflectGet(u), ReflectHas(u), IntegrityPredicate(u), DateCall(u), DateInstance(u), MathCall(u), PathCall(u),
              QueryStringCall(u), ParamsCall(u), JsonStringify(u), ArrayAt(u), StringIndex(u), StringCode(u), StringSearch(u),
              LocaleCompare(u), StringIdentity(u), StringConcat(u), ArrayJoin(u), StringCase(u), StringTrim(u),
              StringNormalize(u), StringWellFormed(u), StringRepeat(u), StringPad(u), StringRange(u), StringReplace(u)>>)
ElementTextsOf(u) ==           \* x[y], each way to read it in its order
  FirstSome(<<StringElement(u), BufferElement(u), JsonElement(u), SplitAccess(u), EnumAccess(u), KeysValuesAccess(u),
              EntriesAccess(u), CollectionAccess(u)>>)
PropertyTextsOf(u) ==          \* x.name
  FirstSome(<<NumericConstant(u), StringLength(u), BufferLength(u), ArrayBufferLength(u), ViewProperty(u), ViewBufferLength(u),
              UrlProperty(u), RegExpProperty(u), JsonProperty(u), DescriptorProperty(u), EnumAccess(u), MapSetSize(u),
              ParamsSize(u), CollectionAccess(u)>>)

(* ------------------------------ declared types --------------------------- *)

TypeTexts(t, span) ==          \* stringLiteralUnionTypeTexts; span: inside a template literal type
  LET parts == [i \in DOMAIN t.ts |-> TypeTexts(t.ts[i], span)]
      members == EnumTexts(t.members)
  IN CASE t.k = "lit" -> IF span /\ NegativeLiteral(t.x, {"big"}) THEN {} ELSE {AsText(LiteralValue(t.x))}
       [] t.k = "union" -> IF \E i \in DOMAIN parts : parts[i] = {} THEN {} ELSE UNION {parts[i] : i \in DOMAIN parts}
       [] t.k = "template" -> FoldLeft(LAMBDA ts, s : Joins(Joins(ts, TypeTexts(s.t, TRUE)), {Str(s.s)}), {Str(t.s)}, t.spans)
       [] t.k = "keyof" -> IF span \/ ~AllPlain(Bare(t.x)) THEN {} ELSE {Str(Bare(t.x).ps[i].name) : i \in DOMAIN Bare(t.x).ps}
       [] t.k = "enum" -> IF Known(members) THEN {members.ts[n] : n \in DOMAIN members.ts} ELSE {}
       [] OTHER -> {}

(* resolve: the texts of an expression.                                    *)
SpecifierTexts(x) ==
  LET u == Bare(x)
  IN CASE u.k \in {"str", "num", "big", "bool", "null"} -> {AsText(u)}
       [] u.k \in {"undefined", "void"} -> {Str("undefined")}
       [] u.k = "global" -> IF u.name \in FileNames THEN {FileText(u.name)} ELSE {}
       [] u.k = "un" -> IF u.op = "-" THEN MinusTexts(u.x) ELSE {}
       [] u.k = "bin" -> BinaryTexts(u)
       [] u.k = "cond" -> Texts(u.x) \union Texts(u.y)
       [] u.k \in {"template", "raw"} -> SpanTexts(u)
       [] u.k = "call" -> CallTexts(u)
       [] u.k = "at" -> ElementTextsOf(u)
       [] u.k = "get" -> PropertyTextsOf(u)
       [] u.k = "const" -> Texts(u.x)
       [] u.k = "typed" -> TypeTexts(u.t, FALSE)
       [] OTHER -> {}

(* ----------------------------- what is left known ------------------------ *)

Affix(prefix, suffix) == [k |-> "affix", prefix |-> prefix, suffix |-> suffix]
TemplateAffix(u) ==
  LET n == Len(u.spans)
      text(i) == One(Texts(u.spans[i].x))
      literal(i) == IF i = 0 THEN u.s ELSE u.spans[i].s
      open == {i \in 1 .. n : ~Known(text(i))}
      prefix == Concat([i \in 1 .. Least(open, n + 1) |-> IF i = 1 THEN u.s ELSE text(i - 1).s \o literal(i - 1)])
      last == Most(open, 0)
      suffix == Concat([j \in 1 .. n - last + 1 |-> IF j = 1 THEN literal(last) ELSE text(last + j - 1).s \o literal(last + j - 1)])
  IN  IF prefix = "" /\ suffix = "" THEN No ELSE Affix(prefix, suffix)
OpenAffix(x) ==                \* staticStringExpressionAffix of an expression without texts
  LET u == Bare(x)
      l == One(Texts(u.x))
      r == One(Texts(u.y))
      a == AffixOf(u.x)
      b == AffixOf(u.y)
      or(v, d) == IF Known(v) THEN v ELSE d
      none == Affix("", "")
  IN CASE u.k = "const" -> a
       [] u.k = "bin" /\ u.op = "+" ->
            IF Known(l) THEN Affix(l.s \o or(b, none).prefix, or(b, none).suffix)
            ELSE IF Known(r) THEN Affix(or(a, none).prefix, or(a, none).suffix \o r.s) ELSE No
       [] u.k = "template" -> TemplateAffix(u)
       [] OTHER -> No
AffixOf(x) == IF Texts(Bare(x)) # {} THEN No ELSE OpenAffix(x)          \* No when everything is known, or nothing
StartsWith(s, t) == 0 \in Occurs(s, t)
EndsWith(s, t) == Len(s) - Len(t) \in Occurs(s, t)
FilterByAffix(specs, x) ==     \* filterSpecifiersByStaticAffix, asked only of an expression without texts
  LET a == OpenAffix(x) IN IF Known(a) THEN {s \in specs : StartsWith(s, a.prefix) /\ EndsWith(s, a.suffix)} ELSE specs

===============================================================================
