------------------------------ MODULE SpecifierHost ------------------------------
(***************************************************************************)
(* The resolvers of module-specifiers.ts for the methods of texts and for  *)
(* the objects a program makes of texts: regular expressions, URLs, dates; *)
(* and for Math and the path and querystring modules.                      *)
(***************************************************************************)
EXTENDS SpecifierValues

RECURSIVE RegExps(_), Urls(_), Dates(_), DateText(_), CallbackText(_)

(* -------------------------- regular expressions ------------------------- *)

RegExps(x) ==                  \* resolveStaticRegExpRecords and its Fresh twin
  LET u == Bare(x)
      flags(v) == IF v.k = "undefined" THEN "" ELSE v.s
  IN CASE u.k = "const" -> RegExps(u.x)
       [] u.k = "pattern" -> AllOrNone({RegExpOf(u.s, u.flags)})
       [] u.k \in {"call", "new"} ->
            IF ~IsNamed(u.f, {"RegExp"}) \/ Len(u.as) > 2 \/ ~NoSpread(u.as) THEN {}
            ELSE AllOrNone({RegExpOf(t[1].s, flags(t[2]))
                              : t \in Combinations(<<IF u.as = <<>> THEN {Str("")} ELSE Texts(u.as[1]), Operand("text?", u.as, 2)>>)})
       [] OTHER -> {}
RegExpProperty(x) ==
  IF x.name \in {"source", "flags"} \union DOMAIN FlagNames THEN {AsText(RegExpRead(r, x.name)) : r \in RegExps(x.x)} ELSE {}
RegExpString(u) ==
  IF CallsMethod(u, {"toString", "toLocaleString"}, 0, 0) THEN {Str(RegExpText(r)) : r \in RegExps(Receiver(u))} ELSE {}
RegExpTest(u) ==
  IF CallsMethod(u, {"test"}, 1, 1)
  THEN {AsText(Bool(Matches(r, t.s) # {})) : r \in RegExps(Receiver(u)), t \in Texts(u.as[1])} ELSE {}
RegExpEscape(u) == IF CallsOwner(u, {"RegExp"}, {"escape"}, 1, 1) THEN {Str(EscapedPattern(t.s)) : t \in Texts(u.as[1])} ELSE {}
RegExpSearch(u) ==             \* text.search(pattern); a text is made into a regexp
  LET made == FirstSome(<<RegExps(u.as[1]), AllOrNone({RegExpOf(t.s, "") : t \in Texts(u.as[1])})>>)
  IN  IF CallsMethod(u, {"search"}, 1, 1)
      THEN {AsText(Num(Least(Matches(r, t.s), -1))) : t \in Texts(Receiver(u)), r \in made} ELSE {}

(* --------------------------------- URLs --------------------------------- *)

IsUrlConstructor(x) == IsConstructor(x, "url", "URL")
CanParse(s) == \E i \in Occurs(s, ":") : /\ i = Least(Occurs(s, ":"), -1) /\ i + 3 <= Len(s)
                                         /\ SubSeq(s, i + 2, i + 3) = "//"
Parses(t) == CanParse(t[1].s) \/ (t[2].k = "str" /\ CanParse(t[2].s))
UrlCanParse(u) ==
  IF CallsMethod(u, {"canParse"}, 1, 2) /\ IsUrlConstructor(Receiver(u))
  THEN {AsText(Bool(Parses(t))) : t \in Combinations(Operands(u.as, <<"text", "text?">>))} ELSE {}
Urls(x) ==                     \* resolveStaticUrlRecords
  LET u == Bare(x)
      bases == IF Len(u.as) = 1 THEN {Undef} ELSE Texts(u.as[2])
  IN CASE u.k = "const" -> Urls(u.x)
       [] u.k = "new" ->
            IF ~IsUrlConstructor(u.f) \/ ~NoSpread(u.as) \/ Len(u.as) \notin 1 .. 2 THEN {}
            ELSE IF Len(u.as) = 2 /\ StaticUndefined(u.as[2]) THEN {}
            ELSE AllOrNone({IF Parses(t) THEN HostUrl(t[1].s, t[2]) ELSE No : t \in Combinations(<<Texts(u.as[1]), bases>>)})
       [] OTHER -> {}
UrlNames == {"href", "protocol", "host", "hostname", "username", "password", "port", "pathname", "search", "hash", "origin"}
UrlProperty(x) == IF x.name \in UrlNames THEN {UrlRead(r, x.name) : r \in Urls(x.x)} ELSE {}
UrlString(u) ==
  IF CallsMethod(u, {"toString", "toJSON", "toLocaleString"}, 0, 0) THEN {UrlRead(r, "href") : r \in Urls(Receiver(u))} ELSE {}

(* ------------------------------ dates, Math ----------------------------- *)

DateCall(u) ==                 \* Date.parse, Date.UTC
  LET stamps == IF Callee(u).name = "parse" THEN {HostTime(t.s) : t \in Texts(u.as[1])}
                ELSE {UtcTime([i \in DOMAIN t |-> Whole(t[i])]) : t \in Combinations([i \in DOMAIN u.as |-> IntegerKeys(u.as[i])])}
  IN  IF CallsOwner(u, {"Date"}, {"parse"}, 1, 1) \/ CallsOwner(u, {"Date"}, {"UTC"}, 1, 7)
      THEN (IF NaN \in stamps THEN {} ELSE {AsText(n) : n \in stamps}) ELSE {}
DateText(x) ==                 \* isStaticDateStringExpression
  LET u == Bare(x) IN u.k \in {"str", "template"} \/ (u.k = "const" /\ DateText(u.x))
FreshDates(x) ==               \* resolveFreshStaticDateRecords: the times of new Date(arg)
  LET u == Bare(x)
      stamps == IF DateText(u.as[1]) THEN {HostTime(t.s) : t \in Texts(u.as[1])} ELSE NumberValues(u.as[1])
  IN  IF u.k # "new" THEN {} ELSE IF ~IsNamed(u.f, {"Date"}) \/ Len(u.as) # 1 \/ ~NoSpread(u.as) THEN {}
      ELSE IF NaN \in stamps THEN {} ELSE {Whole(n) : n \in stamps}
Dates(x) == LET u == Bare(x) IN IF u.k = "const" THEN Dates(u.x) ELSE FreshDates(u)
DateGetters == {"getTime", "valueOf", "toISOString", "toJSON", "toUTCString", "toGMTString", "getUTCFullYear", "getUTCMonth",
                "getUTCDate", "getUTCDay", "getUTCHours", "getUTCMinutes", "getUTCSeconds", "getUTCMilliseconds"}
DateSetters == [setTime |-> 1, setUTCFullYear |-> 3, setUTCMonth |-> 2, setUTCDate |-> 1, setUTCHours |-> 4, setUTCMinutes |-> 3,
                setUTCSeconds |-> 2, setUTCMilliseconds |-> 1]
DateMutator(u) ==
  LET m == Callee(u).name
      tuples == Combinations([i \in DOMAIN u.as |-> NumberValues(u.as[i])])
      stamps == {DateSet(d, m, [i \in DOMAIN t |-> Whole(t[i])]) : d \in FreshDates(Receiver(u)), t \in tuples}
  IN  IF ~CallsMethod(u, DOMAIN DateSetters, 1, 4) THEN {} ELSE IF Len(u.as) > DateSetters[m] THEN {}
      ELSE IF NaN \in stamps THEN {} ELSE {AsText(n) : n \in stamps}
DateInstance(u) ==
  IF CallsMethod(u, DateGetters, 0, 0) THEN {AsText(DateRead(d, Callee(u).name)) : d \in Dates(Receiver(u))} ELSE DateMutator(u)

MathArity == [abs |-> 1, floor |-> 1, ceil |-> 1, trunc |-> 1, round |-> 1, sqrt |-> 1, cbrt |-> 1, sign |-> 1, clz32 |-> 1,
              fround |-> 1, pow |-> 2, imul |-> 2, min |-> Many, max |-> Many, hypot |-> Many]
MathCall(u) ==
  LET m == Callee(u).name
      results == {HostMath(m, [i \in DOMAIN t |-> Whole(t[i])]) : t \in Combinations([i \in DOMAIN u.as |-> NumberValues(u.as[i])])}
  IN  IF ~CallsOwner(u, {"Math"}, DOMAIN MathArity, 1, Many) THEN {}
      ELSE IF MathArity[m] \notin {Len(u.as), Many} \/ NaN \in results THEN {} ELSE {AsText(n) : n \in results}
MathConstants == {"E", "LN2", "LN10", "LOG2E", "LOG10E", "PI", "SQRT1_2", "SQRT2"}
NumberConstants == {"EPSILON", "MAX_SAFE_INTEGER", "MAX_VALUE", "MIN_SAFE_INTEGER", "MIN_VALUE"}
NumericConstant(x) ==          \* the name stands for the constant's decimal text
  IF \/ IsNamed(x.x, {"Math"}) /\ x.name \in MathConstants
     \/ IsNamed(x.x, {"Number"}) /\ x.name \in NumberConstants THEN {Str(x.name)} ELSE {}

(* -------------------------- path and querystring ------------------------ *)

ModuleCall(u, mods, names) ==  \* a function of a module, by namespace, default or named import
  /\ u.k = "call"
  /\ LET f == Callee(u)
     IN  \/ f.k = "import" /\ f.mod \in mods /\ f.name \in names
         \/ f.k = "get" /\ f.name \in names /\ Bare(f.x).k = "import" /\ Bare(f.x).mod \in mods /\ Bare(f.x).name \in {"default", "*"}
         \/ f.k = "get" /\ f.name \in names /\ CallsGlobal(Bare(f.x), {"require"}, 1, 1) /\ Bare(f.x).as[1] \in {Str(m) : m \in mods}
PathNames == [join |-> Many, resolve |-> Many, normalize |-> 1, basename |-> 2, dirname |-> 1, extname |-> 1]
PathCall(u) ==
  LET m == Callee(u).name
      args == [i \in DOMAIN u.as |-> Texts(u.as[i])]
      (* Parts are glued and cut again, so a leading empty one is lost.    *)
      parts(t) == LET n == Least({i \in DOMAIN t : t[i].s # ""}, Len(t) + 1)
                  IN  [i \in 1 .. Len(t) + 1 - n |-> t[i + n - 1].s]
      of(ps) == IF PathNames[m] # Many /\ Len(ps) \notin 1 .. PathNames[m] THEN "" ELSE HostPath(m, ps)
  IN  IF ~ModuleCall(u, {"path", "node:path"}, DOMAIN PathNames) THEN {} ELSE IF m = "resolve" /\ u.as = <<>> THEN {}
      ELSE {Str(s) : s \in {of(parts(t)) : t \in Combinations(args)} \ {""}}
QueryStringCall(u) ==
  IF ~ModuleCall(u, {"querystring", "node:querystring"}, {"escape", "unescape"}) \/ u.as = <<>> \/ ~NoSpread(u.as) THEN {}
  ELSE LET name == IF Callee(u).name = "escape" THEN "encodeURIComponent" ELSE "decodeURIComponent"
       IN  {HostUri(name, t.s) : t \in Texts(u.as[1])} \ {No, Str("")}

(* ------------------------------ text methods ----------------------------- *)

TextCall(u, names, lo, kinds) ==             \* the texts of a method of each alternative receiver
  IF ~CallsMethod(u, names, lo, Len(kinds)) THEN {}
  ELSE LET operands == <<Texts(Receiver(u))>> \o Operands(u.as, kinds) \o [i \in 1 .. 2 - Len(kinds) |-> {Undef}]
       IN  {HostString(Callee(u).name, t[1].s, t[2], t[3]) : t \in Combinations(operands)}
StringCase(u) == TextCall(u, {"toLowerCase", "toUpperCase"}, 0, <<>>)
StringTrim(u) == TextCall(u, {"trim", "trimStart", "trimEnd", "trimLeft", "trimRight"}, 0, <<>>)
StringIndex(u) ==              \* at() gives up where it finds nothing
  LET vs == TextCall(u, {"charAt", "at"}, 1, <<"int">>) IN IF Undef \in vs THEN {} ELSE vs
StringCode(u) ==
  LET vs == TextCall(u, {"charCodeAt", "codePointAt"}, 1, <<"int">>)
  IN  IF {NaN, Undef} \intersect vs # {} THEN {} ELSE {AsText(v) : v \in vs}
StringSearch(u) ==
  {AsText(v) : v \in TextCall(u, {"indexOf", "lastIndexOf", "includes", "startsWith", "endsWith"}, 1, <<"text", "int?">>)}
LocaleCompare(u) ==            \* compares bytes
  IF CallsMethod(u, {"localeCompare"}, 1, 1)
  THEN {AsText(Num(Order(Decoded(t.s, "utf8"), Decoded(o.s, "utf8")))) : t \in Texts(Receiver(u)), o \in Texts(u.as[1])} ELSE {}
StringIdentity(u) == IF CallsMethod(u, {"toString", "toLocaleString", "valueOf"}, 0, 0) THEN Texts(Receiver(u)) ELSE {}
StringLength(x) == IF x.name = "length" THEN {AsText(Num(Len(t.s))) : t \in Texts(x.x)} ELSE {}
StringElement(x) ==
  LET units == {Unit(t.s, Whole(i)) : t \in Texts(x.x), i \in NumericKeys(x.y)} IN IF "" \in units THEN {} ELSE {Str(c) : c \in units}
StringConcat(u) ==
  IF ~CallsMethod(u, {"concat"}, 0, Many) THEN {}
  ELSE {Str(Concat([i \in DOMAIN t |-> t[i].s])) : t \in Combinations(<<Texts(Receiver(u))>> \o [i \in DOMAIN u.as |-> Texts(u.as[i])])}
StringNormalize(u) ==          \* the instances' texts are in every normal form
  IF ~CallsMethod(u, {"normalize"}, 0, 1) THEN {}
  ELSE LET forms == {IF v.k = "undefined" THEN "NFC" ELSE v.s : v \in Operand("text?", u.as, 1)}
       IN  IF forms = {} \/ ~(forms \subseteq {"NFC", "NFD", "NFKC", "NFKD"}) THEN {} ELSE Texts(Receiver(u))
StringWellFormed(u) ==         \* and well formed
  IF ~CallsMethod(u, {"isWellFormed", "toWellFormed"}, 0, 0) THEN {}
  ELSE {IF Callee(u).name = "isWellFormed" THEN AsText(Bool(TRUE)) ELSE t : t \in Texts(Receiver(u))}
MaxRepeat == 256
MaxText == 4096
StringRepeat(u) ==
  IF ~CallsMethod(u, {"repeat"}, 1, 1) THEN {}
  ELSE IF \E n \in IntegerKeys(u.as[1]) : Whole(n) \notin 0 .. MaxRepeat \/ \E t \in Texts(Receiver(u)) : Len(t.s) * Whole(n) > MaxText THEN {}
  ELSE TextCall(u, {"repeat"}, 1, <<"int">>)
StringPad(u) ==
  IF ~CallsMethod(u, {"padStart", "padEnd"}, 1, 2) THEN {}
  ELSE IF \E n \in IntegerKeys(u.as[1]) : Whole(n) \notin 0 .. MaxText THEN {}
  ELSE LET fills == IF Len(u.as) = 1 THEN {Str(" ")} ELSE Texts(u.as[2])
       IN  {HostString(Callee(u).name, t.s, n, f) : t \in Texts(Receiver(u)), n \in IntegerKeys(u.as[1]), f \in fills}
StringRange(u) == TextCall(u, {"slice", "substring", "substr"}, 0, <<"int?", "int?">>)
CallbackText(x) ==             \* staticStringReplacementCallbackText: the one text, or No
  LET u == Bare(x)
      ts == Texts(u.body.x)
  IN CASE u.k = "const" -> CallbackText(u.x)
       [] u.k = "fn" -> IF u.params # <<>> \/ u.body.how \notin {"expr", "return"} THEN No
                        ELSE IF Cardinality(ts) = 1 THEN CHOOSE t \in ts : TRUE ELSE No
       [] OTHER -> No
StringReplace(u) ==
  LET callback == CallbackText(u.as[2])
      replacements == IF Known(callback) THEN {callback} ELSE IF Bare(u.as[2]).k = "fn" THEN {} ELSE Texts(u.as[2])
      patterns == FirstSome(<<RegExps(u.as[1]), Texts(u.as[1])>>)
      all == Callee(u).name = "replaceAll"
      of(s, p, r) == IF p.k # "str" /\ all /\ ~HasFlag(p, "g") THEN No    \* a TypeError
                     ELSE Str(Replaced(s, p, r, all \/ (p.k # "str" /\ HasFlag(p, "g"))))
  IN  IF ~CallsMethod(u, {"replace", "replaceAll"}, 2, 2) THEN {}
      ELSE AllOrNone({of(t.s, p, r.s) : t \in Texts(Receiver(u)), p \in patterns, r \in replacements})

(* text.split(separator, limit): the parts of each combination.            *)
SplitParts(u) ==
  LET separators == FirstSome(<<IF StaticUndefined(Arg(u.as, 1)) THEN {Undef} ELSE {}, RegExps(Arg(u.as, 1)), Texts(Arg(u.as, 1))>>)
      limits == Operand("int?", u.as, 2)
      parts(s, p) == IF p.k = "regexpvalue" /\ HasFlag(p, "i") THEN Split(Lower(s), Lower(p.s)) ELSE Split(s, p.s)
      cut(s, p, v) == IF p.k = "undefined" THEN <<s>>
                      ELSE IF v.k = "undefined" THEN parts(s, p) ELSE SubSeq(parts(s, p), 1, Clamp(Whole(v), 0, Len(parts(s, p))))
  IN  IF ~CallsMethod(u, {"split"}, 0, 2) THEN {} ELSE IF \E v \in limits : Whole(v) < 0 THEN {}
      ELSE {cut(t.s, p, v) : t \in Texts(Receiver(u)), p \in separators, v \in limits}
SplitAccess(x) ==
  LET found == {IF Whole(i) < Len(ps) THEN Str(ps[Whole(i) + 1]) ELSE No : ps \in SplitParts(Bare(x.x)), i \in NumericKeys(x.y)}
  IN  AllOrNone(found)

===============================================================================
