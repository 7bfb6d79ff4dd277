------------------------------- MODULE HostValues -------------------------------
(***************************************************************************)
(* The library of the host that module-specifiers.ts calls on the texts it *)
(* collects: regular expressions, URLs and their parameters, paths, dates, *)
(* Math and JSON.  The program calls the same library when it runs.        *)
(* Instances keep to the part described here: a pattern is a plain text,   *)
(* an URL is scheme://host/path?query, a date lies in January 1970.        *)
(***************************************************************************)
EXTENDS HostBuffers

Before(s, t) == LET at == Occurs(s, t) IN IF at = {} THEN s ELSE SubSeq(s, 1, Least(at, 0))
After(s, t) == LET at == Occurs(s, t) IN IF at = {} THEN "" ELSE SubSeq(s, Least(at, 0) + Len(t) + 1, Len(s))
Holds(s, t) == Occurs(s, t) # {}
(* The parts of s between occurrences of t, which do not overlap.          *)
RECURSIVE Split(_, _)
Split(s, t) ==
  CASE t = "" -> Chars(s) [] ~Holds(s, t) -> <<s>> [] OTHER -> <<Before(s, t)>> \o Split(After(s, t), t)
Glue(ss, t) == Concat([i \in DOMAIN ss |-> IF i = 1 THEN ss[i] ELSE t \o ss[i]])

(* -------------------------- regular expressions ------------------------- *)

RegExp(source, flags) == [k |-> "regexpvalue", s |-> source, flags |-> flags]
FlagNames == [global |-> "g", ignoreCase |-> "i", multiline |-> "m", dotAll |-> "s", unicode |-> "u", sticky |-> "y", hasIndices |-> "d"]
HasFlag(r, f) == Holds(r.flags, f)
RegExpOf(s, flags) ==          \* new RegExp(s, flags); No for a pattern or a flag that is none
  IF Holds(s, "[") \/ \E i \in 1 .. Len(flags) : SubSeq(flags, i, i) \notin {"g", "i"} THEN No ELSE RegExp(s, flags)
Matches(r, s) == IF HasFlag(r, "i") THEN Occurs(Lower(s), Lower(r.s)) ELSE Occurs(s, r.s)
RegExpText(r) == "/" \o (IF r.s = "" THEN "(?:)" ELSE r.s) \o "/" \o r.flags
RegExpRead(r, name) ==
  CASE name = "source" -> Str(IF r.s = "" THEN "(?:)" ELSE r.s) [] name = "flags" -> Str(r.flags)
    [] name \in DOMAIN FlagNames -> Bool(HasFlag(r, FlagNames[name])) [] OTHER -> Undef
EscapedPattern(s) ==           \* RegExp.escape, of texts of letters and dots
  Concat([i \in 1 .. Len(s) |-> LET c == SubSeq(s, i, i) IN IF c = "." THEN "b." ELSE IF i = 1 THEN "x" \o c ELSE c])
(* s.replace(p, t) and s.replaceAll(p, t), where p is a text or a regexp.  *)
Replaced(s, p, t, all) ==
  LET pattern == p.s
      at == IF p.k = "str" THEN Occurs(s, pattern) ELSE Matches(p, s)
      first == Least(at, 0)
      parts == Split(s, SubSeq(s, first + 1, first + Len(pattern)))
  IN  IF at = {} THEN s ELSE IF all THEN Glue(parts, t)
      ELSE SubSeq(s, 1, first) \o t \o SubSeq(s, first + Len(pattern) + 1, Len(s))

(* ----------------------------- URLs, queries ---------------------------- *)

Scheme == "://"
UrlValue(s) == [k |-> "url", s |-> s]
HostUrl(s, base) ==            \* new URL(s, base); base is Undef when absent
  CASE Holds(s, Scheme) -> UrlValue(IF Holds(After(s, Scheme), "/") THEN s ELSE s \o "/")
    [] base.k = "undefined" -> No
    [] OTHER -> UrlValue(Before(base.s, Scheme) \o Scheme \o Before(After(base.s, Scheme), "/") \o "/" \o s)
UrlRead(u, name) ==
  LET rest == After(u.s, Scheme)
      local == "/" \o After(rest, "/")
      host == Before(rest, "/")
  IN CASE name = "href" -> Str(u.s) [] name = "protocol" -> Str(Before(u.s, Scheme) \o ":")
       [] name \in {"host", "hostname"} -> Str(host) [] name = "origin" -> Str(Before(u.s, Scheme) \o Scheme \o host)
       [] name = "pathname" -> Str(Before(local, "?"))
       [] name = "search" -> Str(IF After(local, "?") = "" THEN "" ELSE "?" \o After(local, "?"))
       [] OTHER -> Str("")
Query(s) ==                    \* the pairs of new URLSearchParams(s)
  LET text == IF Len(s) > 0 /\ SubSeq(s, 1, 1) = "?" THEN SubSeq(s, 2, Len(s)) ELSE s
      parts == SelectSeq(Split(text, "&"), LAMBDA p : p # "")
  IN  [i \in DOMAIN parts |-> <<Before(parts[i], "="), After(parts[i], "=")>>]
Named(q, name) == SelectSeq(q, LAMBDA p : p[1] = name)
QueryText(q) == Glue([i \in DOMAIN q |-> q[i][1] \o "=" \o q[i][2]], "&")

(* --------------------------------- paths -------------------------------- *)

Segments(s) == SelectSeq(Split(s, "/"), LAMBDA p : p \notin {"", "."})
RECURSIVE Folded(_)
Folded(ps) ==                  \* without a name before ..
  LET at == {i \in 2 .. Len(ps) : ps[i] = ".." /\ ps[i - 1] # ".."}
  IN  IF at = {} THEN ps ELSE Folded(SubSeq(ps, 1, Least(at, 0) - 2) \o SubSeq(ps, Least(at, 0) + 1, Len(ps)))
Rooted(s) == Len(s) > 0 /\ SubSeq(s, 1, 1) = "/"
Normal(s) ==
  LET text == (IF Rooted(s) THEN "/" ELSE "") \o Glue(Folded(Segments(s)), "/") IN IF text = "" THEN "." ELSE text
LastOf(ps) == IF ps = <<>> THEN "" ELSE ps[Len(ps)]
Directory(s) == LET ps == Segments(s)
                    text == (IF Rooted(s) THEN "/" ELSE "") \o Glue(SubSeq(ps, 1, Len(ps) - 1), "/")
                IN  IF text = "" THEN "." ELSE text
Extension(s) == LET b == LastOf(Segments(s))
                    at == Most(Occurs(b, "."), 0)
                IN  IF at = 0 THEN "" ELSE SubSeq(b, at + 1, Len(b))
WorkingDirectory == "/c"
FileName == "/c/d"             \* of the module that holds the expression
HostPath(name, ps) ==
  LET last == Most({i \in DOMAIN ps : Rooted(ps[i])}, 0)
      base == LastOf(Segments(ps[1]))
      without(s, t) == IF Len(s) > Len(t) /\ SubSeq(s, Len(s) - Len(t) + 1, Len(s)) = t THEN SubSeq(s, 1, Len(s) - Len(t)) ELSE s
  IN CASE name = "join" -> Normal(Glue(SelectSeq(ps, LAMBDA p : p # ""), "/"))
       [] name = "resolve" -> IF last = 0 THEN Normal(Glue(<<WorkingDirectory>> \o ps, "/")) ELSE Normal(Glue(SubSeq(ps, last, Len(ps)), "/"))
       [] name = "normalize" -> Normal(ps[1])
       [] name = "basename" -> IF Len(ps) = 2 THEN without(base, ps[2]) ELSE base
       [] name = "dirname" -> Directory(ps[1])
       [] name = "extname" -> Extension(ps[1])

(* ------------------------------ dates, Math ----------------------------- *)

Day == 86400000
DateValue(t) == [k |-> "date", t |-> t]
Times == {Day * d + 3600000 * h : d \in 0 .. 3, h \in {0, 1}}
TimeText(t) == "1970-01-0" \o ToString((t \div Day) + 1) \o "T0" \o ToString((t % Day) \div 3600000) \o ":00:00.000Z"
HostTime(s) ==                 \* Date.parse
  IF \E t \in Times : TimeText(t) = s THEN Num(CHOOSE t \in Times : TimeText(t) = s) ELSE NaN
DateRead(t, name) ==
  CASE name \in {"getTime", "valueOf"} -> Num(t) [] name \in {"toISOString", "toJSON"} -> Str(TimeText(t))
    [] name \in {"toUTCString", "toGMTString"} -> Str("UTC " \o TimeText(t))
    [] name = "getUTCFullYear" -> Num(1970) [] name = "getUTCMonth" -> Num(0) [] name = "getUTCDate" -> Num((t \div Day) + 1)
    [] name = "getUTCDay" -> Num((4 + (t \div Day)) % 7) [] name = "getUTCHours" -> Num((t % Day) \div 3600000)
    [] name \in {"getUTCMinutes", "getUTCSeconds", "getUTCMilliseconds"} -> Num(0)
DateSet(t, name, ns) ==        \* the time after date[name](ns)
  CASE name = "setTime" -> Num(ns[1]) [] name = "setUTCDate" -> Num(Day * (ns[1] - 1) + (t % Day))
    [] name = "setUTCHours" -> Num(Day * (t \div Day) + 3600000 * ns[1] + (IF Len(ns) > 1 THEN 60000 * ns[2] ELSE (t % 3600000)))
    [] name = "setUTCMilliseconds" -> Num(1000 * (t \div 1000) + ns[1])
    [] OTHER -> NaN
UtcTime(ns) ==                 \* Date.UTC, of a year, a month, a day and an hour
  LET part(i, d) == IF i <= Len(ns) THEN ns[i] ELSE d
  IN  IF ns[1] = 1970 /\ part(2, 0) = 0 THEN Num(Day * (part(3, 1) - 1) + 3600000 * part(4, 0)) ELSE NaN

Magnitude(n) == IF n < 0 THEN -n ELSE n
Root(n) == IF \E r \in 0 .. 9 : r * r = n THEN Num(CHOOSE r \in 0 .. 9 : r * r = n) ELSE NaN
HostMath(name, ns) ==          \* of integers
  CASE name = "abs" -> Num(Magnitude(ns[1])) [] name \in {"floor", "ceil", "trunc", "round", "fround"} -> Num(ns[1])
    [] name = "sqrt" -> Root(ns[1]) [] name = "sign" -> Num(IF ns[1] = 0 THEN 0 ELSE ns[1] \div Magnitude(ns[1]))
    [] name = "pow" -> Num(IF ns[2] = 0 THEN 1 ELSE ns[1] ^ ns[2]) [] name = "imul" -> Num(ns[1] * ns[2])
    [] name = "min" -> Num(Least({ns[i] : i \in DOMAIN ns}, 0)) [] name = "max" -> Num(Most({ns[i] : i \in DOMAIN ns}, 0))
    [] OTHER -> NaN

(* --------------------------------- JSON --------------------------------- *)

Quote == "\""
RECURSIVE JsonText(_)
JsonText(v) ==                 \* JSON.stringify of a literal whose elements all have a text
  CASE v.k = "str" -> Quote \o v.s \o Quote
    [] v.k = "arr" -> "[" \o Glue([i \in DOMAIN v.es |-> JsonText(v.es[i])], ",") \o "]"
    [] v.k = "obj" -> "{" \o Glue([i \in DOMAIN v.ps |-> Quote \o v.ps[i].name \o Quote \o ":" \o JsonText(v.ps[i].x)], ",") \o "}"
    [] v.k = "bool" -> (IF v.b THEN "true" ELSE "false")
    [] IsNumber(v) -> NumText(v)
    [] OTHER -> "null"
JsonLeaves == {Str("a"), Num(1), Null, Bool(TRUE)}
JsonValues == JsonLeaves \union {Arr(0, <<x, y>>) : x \in JsonLeaves, y \in JsonLeaves} \union {Obj(0, <<Prop("a", x)>>) : x \in JsonLeaves}
HostJson(s) == IF \E v \in JsonValues : JsonText(v) = s THEN CHOOSE v \in JsonValues : JsonText(v) = s ELSE No

===============================================================================
