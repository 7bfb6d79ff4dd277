--------------------------- MODULE StructuredControl ---------------------------
(***************************************************************************)
(* What a resumable function body promises: the observable steps of an     *)
(* async function, a generator or an async generator, in the order the     *)
(* statement structure of its source prescribes.  AsyncCfg lowers the same *)
(* body to a flat graph of states and ResumeDispatch runs that graph; this *)
(* module is the specification they implement.                             *)
(*                                                                         *)
(* The body is a tree of statements.  An execution is a continuation stack *)
(* of frames: a statement pushes frames, a completion pops them, and every *)
(* abrupt completion is offered to each frame on its way out.  Only what   *)
(* an observer can see is a step: an evaluation, a suspension, a call of   *)
(* an iterator, a disposal, a branch, the settlement of the result.  A     *)
(* value is the name of the step that made it, so a wrong exception or a   *)
(* wrong returned value is visible.                                        *)
(***************************************************************************)
EXTENDS Naturals, Sequences, FiniteSets, TLC

CONSTANT Programs      \* a sequence of bodies: [kind, retained, body]

VARIABLES prog, ref, last     \* the body, what is left of it, the last observable step

Bodies == Programs            \* a definition of its own: evaluated once by TLC

Kinds == {"async", "generator", "async-generator"}

(* ------------------------------ syntax --------------------------------- *)

Absent == [k |-> "absent"]
Expr(s)         == [k |-> "expr", s |-> s]
Return(s)       == [k |-> "return", s |-> s]
Throw(s)        == [k |-> "throw", s |-> s]
Break(l)        == [k |-> "break", l |-> l]
Continue(l)     == [k |-> "continue", l |-> l]
Block(ss, lex)  == [k |-> "block", ss |-> ss, lex |-> lex]
If(s, t, f)     == [k |-> "if", s |-> s, t |-> t, f |-> f]
Loop(k, s, b)   == [k |-> k, s |-> s, b |-> b]                  \* while, do
For(init, s, b) == [k |-> "for", init |-> init, s |-> s, b |-> b]
ForOf(aw, s, d, b) == [k |-> "forof", aw |-> aw, s |-> s, decl |-> d.decl, bind |-> d.bind, b |-> b]
Switch(s, cs, lex) == [k |-> "switch", s |-> s, cs |-> cs, lex |-> lex]
Case(s, b)      == [dflt |-> FALSE, s |-> s, b |-> b]
Default(b)      == [dflt |-> TRUE, s |-> "no", b |-> b]
Try(b, c, f)    == [k |-> "try", b |-> b, c |-> c, f |-> f]
Catch(bind, b)  == [k |-> "catch", bind |-> bind, b |-> b]
Label(l, b)     == [k |-> "label", l |-> l, b |-> b]
With(s, b)      == [k |-> "with", s |-> s, b |-> b]
Using(aw, s)    == [k |-> "using", aw |-> aw, s |-> s]
Declare(bind, s) == [k |-> "declare", bind |-> bind, s |-> s]
Export(s)       == [k |-> "export", s |-> s]

(* Binding targets: an identifier, a property reference, or a pattern.     *)
Id   == [k |-> "id"]
Prop == [k |-> "prop"]
Array(es)  == [k |-> "array", es |-> es]
Object(es) == [k |-> "object", es |-> es]
Elem(b, d) == [b |-> b, d |-> d, key |-> FALSE, rest |-> FALSE]
Keyed(b, d) == [b |-> b, d |-> d, key |-> TRUE, rest |-> FALSE]
Rest(b)    == [b |-> b, d |-> "none", key |-> FALSE, rest |-> TRUE]

(* An expression is synchronous ("no") or holds one suspension.            *)
Suspending == {"await", "yield", "delegate"}

(* The suspensions an expression makes after its operand is evaluated: an  *)
(* async generator awaits the operand of a yield.                          *)
Suspends(m, s) ==
  CASE s = "yield" /\ m.kind = "async-generator" -> <<"await", "yield">>
    [] s \in Suspending -> <<s>>
    [] OTHER -> <<>>

(* An async generator also awaits what it returns.                         *)
SuspendsReturn(m, s) ==
  IF m.kind = "async-generator" THEN Append(Suspends(m, s), "await") ELSE Suspends(m, s)

RECURSIVE PatternSuspends(_)
PatternSuspends(b) ==
  /\ b.k \in {"array", "object"}
  /\ \E i \in DOMAIN b.es : b.es[i].d \in Suspending \/ PatternSuspends(b.es[i].b)

RECURSIVE Parts(_)
Parts(s) ==          \* a statement and every statement inside it
  {s} \cup (CASE s.k = "block" -> UNION {Parts(s.ss[i]) : i \in DOMAIN s.ss}
              [] s.k \in {"while", "do", "for", "forof", "label", "with", "catch"} -> Parts(s.b)
              [] s.k = "if" -> Parts(s.t) \cup Parts(s.f)
              [] s.k = "switch" -> UNION {Parts(Block(s.cs[i].b, FALSE)) : i \in DOMAIN s.cs}
              [] s.k = "try" -> Parts(s.b) \cup Parts(s.c) \cup Parts(s.f)
              [] OTHER -> {})

StatementSuspends(s) ==
  \E q \in Parts(s) :
    \/ "s" \in DOMAIN q /\ q.s \in Suspending
    \/ "aw" \in DOMAIN q /\ q.aw
    \/ "bind" \in DOMAIN q /\ PatternSuspends(q.bind)
    \/ q.k = "switch" /\ \E i \in DOMAIN q.cs : q.cs[i].s \in Suspending

(* A synchronous for-of loop with nothing that suspends, returns or leaves *)
(* it is one evaluation.                                                   *)
Atomic(s, l) ==
  /\ s.k = "forof" /\ ~s.aw /\ s.decl # "var"
  /\ ~StatementSuspends(s)
  /\ \A q \in Parts(s) : /\ q.k # "return"
                         /\ q.k \in {"break", "continue"} => q.l \in {"", l}

(* ---------------------------- completions ------------------------------ *)

Normal == [t |-> "normal", v |-> <<>>]
Ret(v) == [t |-> "return", v |-> v]
Thr(v) == [t |-> "throw", v |-> v]
Jump(t, l) == [t |-> t, v |-> <<l>>]
Suppressed(new, old) == Thr(<<"suppressed">> \o new.v \o old.v)

(* A step about to be taken: what, where, and the frames that await it.    *)
Step(a, p, k) == [a |-> a, p |-> p, k |-> k, c |-> Normal]
End(c) == [a |-> "end", p |-> <<>>, k |-> <<>>, c |-> c]

Outcomes(a) ==
  CASE a \in {"eval", "await", "open", "close", "with", "dispose", "rest", "check", "key", "put"}
                         -> {"ok", "throw"}
    [] a = "yield"       -> {"ok", "throw", "return"}
    [] a = "delegate"    -> {"ok", "throw", "return", "more"}
    [] a = "test"        -> {"true", "false"}
    [] a = "branch"      -> {"true", "false", "throw"}
    [] a = "next"        -> {"item", "done", "throw"}
    [] a = "step"        -> {"item", "undefined", "done", "throw"}
    [] a = "get"         -> {"item", "undefined", "throw"}
    [] OTHER             -> {"ok"}

Frame(f, s, p) == [f |-> f, s |-> s, p |-> p]
Held(f, s, p, c) == [f |-> f, s |-> s, p |-> p, c |-> c]   \* holds a completion back

Value(p, ss, k) ==                \* evaluate, then suspend once per element of ss
  Step("eval", p, IF ss = <<>> THEN k ELSE <<Frame("suspend", ss, p)>> \o k)

(* The nearest resource scope owns the resource just initialized.          *)
AddResource(k, p) ==
  LET i == CHOOSE j \in DOMAIN k : k[j].f = "scope" /\ \A h \in 1 .. j - 1 : k[h].f # "scope"
  IN  [k EXCEPT ![i].s = Append(@, p)]

RECURSIVE Start(_, _, _, _), Finish(_, _, _), Seq_(_, _, _, _, _), Bind(_, _, _, _), Element(_, _, _, _, _, _),
          RunClauses(_, _, _, _, _), TestCase(_, _, _, _, _), Dispose(_, _, _, _), RunFinally(_, _, _, _),
          RunCatch(_, _, _, _), Resume(_, _, _), Abrupt(_, _, _, _)

(* A statement list from its i-th statement; a using declaration opens a   *)
(* resource scope that lasts to the end of the list.                       *)
Seq_(m, ss, p, i, k) ==
  IF i > Len(ss) THEN Finish(m, Normal, k)
  ELSE IF ss[i].k = "using" /\ ~(\E h \in 1 .. i - 1 : ss[h].k = "using")
       THEN Start(m, ss[i], Append(p, ToString(i)),
                  <<Frame("seq", [ss |-> ss, i |-> i + 1], p), Frame("scope", <<>>, p)>> \o k)
       ELSE Start(m, ss[i], Append(p, ToString(i)), <<Frame("seq", [ss |-> ss, i |-> i + 1], p)>> \o k)

(* Binding: k receives the completion of the assignment.                   *)
Bind(m, b, p, k) ==
  CASE b.k = "id"     -> Finish(m, Normal, k)
    [] b.k = "prop"   -> Step("put", p, k)
    [] b.k = "array"  -> Step("open", p, <<Frame("opened", b, p)>> \o k)
    [] b.k = "object" -> Step("check", p, <<Frame("checked", b, p)>> \o k)

(* Element i of a pattern: the reference of a property target and a        *)
(* computed key are evaluated before the value is obtained.                *)
Element(m, b, p, i, st, k) ==
  LET e == b.es[i]
      q == Append(p, ToString(i))
      fr == [f |-> "element", s |-> b, p |-> p, i |-> i, stage |-> st]
  IN  CASE st = "key"    -> IF e.key THEN Step("eval", Append(q, "key"), <<[fr EXCEPT !.stage = "tokey"]>> \o k)
                            ELSE Element(m, b, p, i, "target", k)
        [] st = "tokey"  -> Step("key", q, <<[fr EXCEPT !.stage = "target"]>> \o k)
        [] st = "target" -> IF e.b.k = "prop"
                            THEN Step("eval", Append(q, "target"), <<[fr EXCEPT !.stage = "obtain"]>> \o k)
                            ELSE Element(m, b, p, i, "obtain", k)
        [] st = "obtain" /\ b.k = "array" /\ k[1].done ->        \* exhausted: the value is undefined
                            Element(m, b, p, i, IF e.d = "none" THEN "bind" ELSE "default", k)
        [] st = "obtain" -> Step(IF e.rest THEN "rest" ELSE IF b.k = "array" THEN "step" ELSE "get",
                                 q, <<[fr EXCEPT !.stage = "value"]>> \o k)
        [] st = "default" -> Value(Append(q, "default"), Suspends(m, e.d), <<[fr EXCEPT !.stage = "bind"]>> \o k)
        [] st = "bind"   -> Bind(m, e.b, q, <<[fr EXCEPT !.stage = "next"]>> \o k)
        [] st = "next"   -> IF i = Len(b.es) THEN Finish(m, Normal, k) ELSE Element(m, b, p, i + 1, "key", k)

(* The test of a loop or of an if: one step, or a test after a suspension. *)
Test(m, s, p, k) ==
  IF Suspends(m, s) = <<>> THEN Step("branch", p, k)
  ELSE Value(p, Suspends(m, s), <<Frame("test", s, p)>> \o k)

Start(m, s, p, k) ==
  CASE s.k = "absent"   -> Finish(m, Normal, k)
    [] s.k = "expr"     -> Value(p, Suspends(m, s.s), k)
    [] s.k = "export"   -> Value(p, Suspends(m, s.s), <<Frame("export", s, p)>> \o k)
    [] s.k = "return"   -> Value(p, SuspendsReturn(m, s.s), <<Frame("return", s, p)>> \o k)
    [] s.k = "throw"    -> Value(p, Suspends(m, s.s), <<Frame("throw", s, p)>> \o k)
    [] s.k = "using"    -> Value(p, Suspends(m, s.s), <<Frame("use", s, p)>> \o k)
    [] s.k = "declare"  -> Value(p, Suspends(m, s.s),
                             IF s.bind.k \in {"array", "object"} /\ ~PatternSuspends(s.bind)
                             THEN <<Frame("whole", s, p)>> \o k       \* bound in one evaluation
                             ELSE <<Frame("bind", s, p)>> \o k)
    [] s.k \in {"break", "continue"} -> Finish(m, Jump(s.k, s.l), k)
    [] s.k = "block"    -> Seq_(m, s.ss, p, 1, IF s.lex /\ m.retained THEN <<Frame("env", s, p)>> \o k ELSE k)
    [] s.k = "if"       -> Test(m, s.s, p, <<Frame("if", s, p)>> \o k)
    [] s.k \in {"while", "do", "for", "forof"} -> Start(m, Label("", s), p, k)
    [] s.k = "label" /\ Atomic(s.b, s.l) -> Step("eval", p, k)
    [] s.k = "label" /\ s.b.k \in {"while", "do"} ->
         LET f == [f |-> "loop", s |-> s.b, p |-> p, l |-> s.l]
         IN  IF s.b.k = "do" THEN Start(m, s.b.b, Append(p, "b"), <<f>> \o k)
             ELSE Test(m, s.b.s, p, <<[f EXCEPT !.f = "cond"]>> \o k)
    [] s.k = "label" /\ s.b.k = "for" ->
         LET f == [f |-> "cond", s |-> s.b, p |-> p, l |-> s.l]
             in == (IF s.b.init = "using" THEN <<Frame("scope", <<>>, p)>> ELSE <<>>)
                   \o (IF s.b.init \in {"let", "using"} /\ m.retained THEN <<Frame("env", s.b, p)>> ELSE <<>>)
                   \o k
         IN  Step("eval", Append(p, "init"), <<[f EXCEPT !.f = "init"]>> \o in)
    [] s.k = "label" /\ s.b.k = "forof" ->
         LET f == [f |-> "source", s |-> s.b, p |-> p, l |-> s.l]
             in == IF s.b.decl \in {"let", "using"} /\ m.retained THEN <<Frame("env", s.b, p)>> \o k ELSE k
         IN  IF Suspends(m, s.b.s) = <<>> THEN Step("open", p, <<[f EXCEPT !.f = "iterate"]>> \o in)
             ELSE Value(p, Suspends(m, s.b.s), <<f>> \o in)
    [] s.k = "label"    -> Start(m, s.b, Append(p, "b"), <<[f |-> "label", s |-> s, p |-> p, l |-> s.l]>> \o k)
    [] s.k = "switch"   -> Value(p, Suspends(m, s.s),
                             <<Frame("select", s, p)>> \o (IF s.lex /\ m.retained THEN <<Frame("late", s, p)>> \o k ELSE k))
    [] s.k = "try"      -> Start(m, s.b, Append(p, "b"), <<Frame("try", s, p)>> \o k)
    [] s.k = "with"     -> Value(p, Suspends(m, s.s), <<Frame("with", s, p)>> \o k)

(* Selecting a clause of a switch: one evaluation of all the cases when no *)
(* case suspends, otherwise case by case.                                  *)
Cases(s) == {i \in DOMAIN s.cs : ~s.cs[i].dflt}
DefaultOf(s) == {i \in DOMAIN s.cs : s.cs[i].dflt}
CaseSuspends(m, s) == \E i \in Cases(s) : Suspends(m, s.cs[i].s) # <<>>
NextCase(s, i) == IF \E j \in Cases(s) : j >= i
                  THEN CHOOSE j \in Cases(s) : j >= i /\ \A h \in Cases(s) : h >= i => j <= h ELSE 0

RunClauses(m, s, p, i, k) ==
  IF i = 0 THEN Finish(m, Normal, k)
  ELSE LET f == [f |-> "clause", s |-> s, p |-> p, i |-> i]
       IN  Seq_(m, s.cs[i].b, Append(p, ToString(i)), 1, <<f>> \o k)

DefaultClause(s) == IF DefaultOf(s) = {} THEN 0 ELSE CHOOSE i \in DefaultOf(s) : TRUE

TestCase(m, s, p, i, k) ==
  LET j == NextCase(s, i)
      f == [f |-> "case", s |-> s, p |-> p, i |-> j]
  IN  IF j = 0 THEN RunClauses(m, s, p, DefaultClause(s), k)
      ELSE LET q == Append(p, ToString(j))
           IN  IF Suspends(m, s.cs[j].s) = <<>> THEN Step("branch", q, <<f>> \o k)
               ELSE Value(q, Suspends(m, s.cs[j].s), <<Frame("test", s, q), f>> \o k)

(* Close an iterator, hold back the completion until it is closed.         *)
Close(p, c, k) == Step("close", p, <<Held("closing", <<>>, p, c)>> \o k)

(* Dispose the resources of a scope, last first.                           *)
Dispose(m, f, c, k) ==
  IF f.s = <<>> THEN Finish(m, c, k)
  ELSE Step("dispose", f.s[Len(f.s)],
            <<Held("disposing", SubSeq(f.s, 1, Len(f.s) - 1), f.p, c)>> \o k)

Iterate(p, f, k) == Step("next", p, <<[f EXCEPT !.f = "advance"]>> \o k)

RunFinally(m, f, c, k) == Start(m, f.s.f, Append(f.p, "f"), <<Held("finally", <<>>, f.p, c)>> \o k)

(* A frame whose work completed normally.                                  *)
Resume(m, f, k) ==
  CASE f.f = "seq"     -> Seq_(m, f.s.ss, f.p, f.s.i, k)
    [] f.f = "suspend" -> Step(Head(f.s), f.p, IF Tail(f.s) = <<>> THEN k
                                              ELSE <<Frame("suspend", Tail(f.s), f.p)>> \o k)
    [] f.f = "test"    -> Step("test", f.p, k)
    [] f.f = "export"  -> Step("export", f.p, k)
    [] f.f = "return"  -> Finish(m, Ret(<<"return">> \o f.p), k)
    [] f.f = "throw"   -> Finish(m, Thr(<<"throw">> \o f.p), k)
    [] f.f = "use"     -> Finish(m, Normal, AddResource(k, f.p))
    [] f.f = "bind"    -> Bind(m, f.s.bind, Append(f.p, "bind"), k)
    [] f.f = "whole"   -> Step("eval", Append(f.p, "bind"), k)
    [] f.f = "loop"    -> IF f.s.k = "for" THEN Step("eval", Append(f.p, "inc"), <<[f EXCEPT !.f = "inc"]>> \o k)
                          ELSE Test(m, f.s.s, f.p, <<[f EXCEPT !.f = "cond"]>> \o k)
    [] f.f = "init"    -> Test(m, f.s.s, f.p, <<[f EXCEPT !.f = "cond"]>> \o
                                (IF f.s.init = "using" THEN AddResource(k, Append(f.p, "init")) ELSE k))
    [] f.f = "inc"     -> Test(m, f.s.s, f.p, <<[f EXCEPT !.f = "cond"]>> \o k)
    [] f.f = "source"  -> Step("open", f.p, <<[f EXCEPT !.f = "iterate"]>> \o k)
    [] f.f \in {"iterate", "iter"} -> Iterate(f.p, f, k)
    [] f.f = "bound"   -> Start(m, f.s.b, Append(f.p, "b"),
                                IF f.s.decl = "using" THEN AddResource(k, Append(f.p, "bind")) ELSE k)
    [] f.f = "targeted" -> Bind(m, f.s.bind, Append(f.p, "bind"), <<[f EXCEPT !.f = "bound"]>> \o k)
    [] f.f = "opened"  -> Element(m, f.s, f.p, 1, "key", <<[f |-> "items", s |-> f.s, p |-> f.p, done |-> FALSE]>> \o k)
    [] f.f = "items"   -> IF f.done THEN Finish(m, Normal, k) ELSE Close(f.p, Normal, k)
    [] f.f = "checked" -> Element(m, f.s, f.p, 1, "key", k)
    [] f.f = "element" -> Element(m, f.s, f.p, f.i,
                                  IF f.stage = "value" THEN "bind" ELSE f.stage, k)
    [] f.f = "select"  -> LET in == IF k # <<>> /\ Head(k).f = "late" THEN <<[Head(k) EXCEPT !.f = "env"]>> \o Tail(k) ELSE k
                              g == Frame("switch", f.s, f.p)
                          IN  IF CaseSuspends(m, f.s) THEN TestCase(m, f.s, f.p, 1, <<g>> \o in)
                              ELSE Step("dispatch", f.p, <<g>> \o in)
    [] f.f = "clause"  -> RunClauses(m, f.s, f.p, IF f.i < Len(f.s.cs) THEN f.i + 1 ELSE 0, k)
    [] f.f = "with"    -> Step("with", f.p, <<Frame("entered", f.s, f.p)>> \o k)
    [] f.f = "entered" -> Start(m, f.s.b, Append(f.p, "b"), <<Frame("env", f.s, f.p)>> \o k)
    [] f.f = "caught"  -> Start(m, f.s.c.b, f.p \o <<"c", "b">>, k)
    [] f.f \in {"try", "catch"} /\ f.s.f # Absent -> RunFinally(m, f, Normal, k)
    [] f.f \in {"finally", "closing"} -> Finish(m, f.c, k)
    [] f.f = "scope"   -> Dispose(m, f, Normal, k)
    [] f.f = "disposing" -> Dispose(m, f, f.c, k)
    [] OTHER           -> Finish(m, Normal, k)

(* A catch clause binds the exception in an environment of its own.        *)
RunCatch(m, f, c, k) ==
  LET g == <<Frame("catch", f.s, f.p)>> \o k
      in == IF f.s.c.bind # Absent /\ m.retained THEN <<Frame("env", f.s, Append(f.p, "c"))>> \o g ELSE g
      q == Append(Append(f.p, "c"), "bind")
      h == <<Frame("caught", f.s, f.p)>> \o in
  IN  IF f.s.c.bind # Absent /\ PatternSuspends(f.s.c.bind) THEN Bind(m, f.s.c.bind, q, h)
      ELSE IF f.s.c.bind # Absent /\ f.s.c.bind.k # "id" THEN Step("eval", q, h)
      ELSE Finish(m, Normal, h)

Mine(c, f, t) == c.t = t /\ c.v \in {<<"">>, <<f.l>>}

(* An abrupt completion offered to a frame.                                *)
Abrupt(m, c, f, k) ==
  CASE f.f = "loop" /\ Mine(c, f, "break")       -> Finish(m, Normal, k)
    [] f.f \in {"loop", "iter"} /\ Mine(c, f, "continue") -> Resume(m, f, k)
    [] f.f = "iter"                              -> Close(f.p, IF Mine(c, f, "break") THEN Normal ELSE c, k)
    [] f.f = "items" /\ ~f.done                  -> Close(f.p, c, k)
    [] f.f = "label" /\ c = Jump("break", f.l)   -> Finish(m, Normal, k)
    [] f.f = "switch" /\ c = Jump("break", "")   -> Finish(m, Normal, k)
    [] f.f = "try" /\ c.t = "throw" /\ f.s.c # Absent -> RunCatch(m, f, c, k)
    [] f.f \in {"try", "catch"} /\ f.s.f # Absent -> RunFinally(m, f, c, k)
    [] f.f = "closing" /\ f.c.t = "throw"        -> Finish(m, f.c, k)
    [] f.f = "scope"                             -> Dispose(m, f, c, k)
    [] f.f = "disposing" -> Dispose(m, f, IF f.c.t = "throw" THEN Suppressed(c, f.c) ELSE c, k)
    [] OTHER                                     -> Finish(m, c, k)

Finish(m, c, k) ==
  IF k = <<>> THEN End(c)
  ELSE IF c.t = "normal" THEN Resume(m, Head(k), Tail(k))
  ELSE Abrupt(m, c, Head(k), Tail(k))

(* An outcome that selects among several continuations of a frame.         *)
Select(m, o, f, k) ==
  CASE f.f = "if"    -> IF o = "true" THEN Start(m, f.s.t, Append(f.p, "t"), k)
                        ELSE Start(m, f.s.f, Append(f.p, "f"), k)
    [] f.f = "cond"  -> IF o = "true" THEN Start(m, f.s.b, Append(f.p, "b"), <<[f EXCEPT !.f = "loop"]>> \o k)
                        ELSE Finish(m, Normal, k)
    [] f.f = "case"  -> IF o = "true" THEN RunClauses(m, f.s, f.p, f.i, k)
                        ELSE TestCase(m, f.s, f.p, f.i + 1, k)
    [] f.f = "switch" -> RunClauses(m, f.s, f.p, CHOOSE i \in 0 .. Len(f.s.cs) : ToString(i) = o, <<f>> \o k)
    [] f.f = "advance" -> IF o = "done" THEN Finish(m, Normal, k)
                          ELSE LET g == [f EXCEPT !.f = "bound"]
                                   in == <<[f EXCEPT !.f = "iter"]>> \o k
                                   at == IF f.s.decl = "using" THEN <<Frame("scope", <<>>, f.p)>> \o in ELSE in
                               IN  IF f.s.bind.k = "prop"
                                   THEN Step("eval", f.p \o <<"bind", "target">>, <<[f EXCEPT !.f = "targeted"]>> \o at)
                                   ELSE Bind(m, f.s.bind, Append(f.p, "bind"), <<g>> \o at)
    [] f.f = "element" ->
         LET in == IF o = "done" THEN [k EXCEPT ![1].done = TRUE] ELSE k
         IN  IF o # "item" /\ f.s.es[f.i].d # "none" THEN Element(m, f.s, f.p, f.i, "default", in)
             ELSE Element(m, f.s, f.p, f.i, "bind", in)

(* A failing step of an array pattern, and its rest, exhaust its iterator. *)
After(m, r, o) ==
  LET exhausts == (r.a = "step" /\ o = "throw") \/ (r.a = "rest" /\ r.k[1].s.k = "array")
      k == IF exhausts THEN [r.k EXCEPT ![2].done = TRUE] ELSE r.k
  IN  CASE o = "ok"     -> Finish(m, Normal, k)
        [] o = "throw"  -> Finish(m, Thr(<<r.a>> \o r.p), k)
        [] o = "more"   -> r
        [] o = "return" -> Finish(m, Ret(<<"resume">> \o r.p), k)
        [] OTHER        -> Select(m, o, Head(k), Tail(k))

(* What a step may come to; a dispatch selects a clause, or none.          *)
Choices(r) ==
  IF r.a = "dispatch"
  THEN {ToString(i) : i \in Cases(Head(r.k).s) \cup {DefaultClause(Head(r.k).s)}} \cup {"throw"}
  ELSE Outcomes(r.a)

(* The environments the statements being executed have entered.            *)
Environments(r) ==
  LET in == SelectSeq(r.k, LAMBDA f : f.f = "env")
  IN  [i \in 1 .. Len(in) |-> in[Len(in) + 1 - i].p]

(* ------------------------------ behaviours ----------------------------- *)

Begin(m) == Start(m, m.body, <<"r">>, <<>>)
NoStep == [a |-> "none", p |-> <<>>, o |-> "ok"]

Init ==
  /\ prog \in DOMAIN Bodies
  /\ ref = Begin(Bodies[prog])
  /\ last = NoStep

Observe ==
  /\ ref.a \notin {"end", "settled"}
  /\ \E o \in Choices(ref) :
       /\ last' = [a |-> ref.a, p |-> ref.p, o |-> o]
       /\ ref' = After(Bodies[prog], ref, o)
  /\ UNCHANGED prog

(* Falling off the end returns undefined.                                  *)
Result(c) == IF c.t = "normal" THEN Ret(<<"undefined">>) ELSE c

Settle ==
  /\ ref.a = "end"
  /\ last' = [a |-> "settle", p |-> Result(ref.c).v, o |-> Result(ref.c).t]
  /\ ref' = [ref EXCEPT !.a = "settled"]
  /\ UNCHANGED prog

Spec == Init /\ [][Observe \/ Settle]_<<prog, ref, last>>

================================================================================
