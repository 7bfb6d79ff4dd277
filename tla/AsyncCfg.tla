------------------------------- MODULE AsyncCfg -------------------------------
(***************************************************************************)
(* The planner that lowers the body of an async function, a generator or   *)
(* an async generator to a flat graph of states: planAsyncControlFlowGraph *)
(* of emit/async-cfg.ts.  Where the code allocates state numbers, a state  *)
(* is named here by the path of the syntax it is built for; a slot (of a   *)
(* value, an iterator, a resource scope, a finalization region) is named   *)
(* by the same path.                                                       *)
(*                                                                         *)
(* A graph is built from its end: every builder takes b, the graph built   *)
(* so far whose entry b.e is where control goes next, and returns it with  *)
(* the new states and the new entry.  c is the BuildContext.               *)
(***************************************************************************)
EXTENDS StructuredControl

None == <<>>                   \* no target, in a state and in a context
Sub(p, x) == Append(p, x)

(* A state: its successors next and alt, and x, what else its kind needs.  *)
Put(b, c, id, kind, p, alt, x) ==
  [e |-> id,
   g |-> (id :> [kind |-> kind, p |-> p, exc |-> c.exc, next |-> b.e, alt |-> alt, x |-> x]) @@ b.g]

From(b, e) == [b EXCEPT !.e = e]

Reject(b) == From([b EXCEPT !.g = (<<"unsupported">> :> "unsupported") @@ @], <<"unsupported">>)

(* ------------------------- expressions and bindings -------------------- *)

(* buildExpressionSequence: the operations before each suspension, the     *)
(* suspensions, and the state that completes the expression.               *)
RECURSIVE Suspensions(_, _, _, _, _)
Suspensions(b, c, p, ss, i) ==
  IF i = 0 THEN b
  ELSE Suspensions(Put(b, c, p \o <<"suspend", ToString(i)>>, "suspend", p, c.ret, ss[i]), c, p, ss, i - 1)

Operations(b, c, p, ss) ==
  Put(Suspensions(b, c, p, ss, Len(ss)), c, Sub(p, "operate"), "operate", p, None, "")

ExpressionSequence(b, c, p, ss, alt, completion) ==
  Operations(Put(b, c, Sub(p, "complete"), "expression-complete", p, alt, completion), c, p, ss)

ExpressionResult(b, c, p, s) ==
  IF Suspends(c.m, s) # <<>> THEN ExpressionSequence(b, c, p, Suspends(c.m, s), None, "result")
  ELSE Put(b, c, Sub(p, "complete"), "expression-complete", p, None, "evaluate")

Unprepared(b, c, t, p) == b                                     \* mutant: no operand is staged

(* The operands of a property reference, staged before the value it is to  *)
(* receive is obtained.                                                    *)
Prepare(b, c, t, p) ==
  IF t.k = "prop" THEN Put(b, c, Sub(p, "prepare"), "expression-sync", Sub(p, "target"), None, "") ELSE b

Defaulted(b, c, d, p) ==
  IF d = "none" THEN b
  ELSE LET applied == ExpressionResult(Put(b, c, Sub(p, "apply"), "default-apply", p, None, ""), c, Sub(p, "default"), d)
       IN  Put(From(applied, b.e), c, Sub(p, "defaulted"), "default-test", p, applied.e, "")

BindIdentifier(b, c, t, d, p) ==
  Defaulted(Put(Put(b, c, Sub(p, "release"), "release", p, None, ""),
                c, Sub(p, "assign"), "assign", p, None, [target |-> t.k, scope |-> c.scope]),
            c, d, p)

RECURSIVE BindName(_, _, _, _), BindElements(_, _, _, _, _)

BindElement(b, c, e, p) ==
  IF e.b.k \in {"id", "prop"} THEN BindIdentifier(b, c, e.b, e.d, p)
  ELSE Defaulted(BindName(b, c, e.b, p), c, e.d, p)

(* Elements 1 .. i of a pattern, the last first.                           *)
BindElements(b, c, t, p, i) ==
  IF i = 0 THEN b
  ELSE LET e == t.es[i]
           q == Sub(p, ToString(i))
           hasRest == \E j \in DOMAIN t.es : t.es[j].rest
           obtain == Put(BindElement(b, c, e, q), c, Sub(q, "obtain"),
                         CASE e.rest -> IF t.k = "array" THEN "iterator-rest" ELSE "object-rest"
                           [] t.k = "array" -> "iterator-step"
                           [] OTHER -> "property",
                         q, None,
                         [from |-> p, keep |-> e.rest = FALSE /\ hasRest,
                          keys |-> {Sub(Sub(p, ToString(j)), "name") :
                                      j \in {j \in DOMAIN t.es : t.es[j].key /\ (e.rest \/ j = i)}}])
           prepared == Prepare(obtain, c, e.b, q)
           named == IF e.key
                    THEN Put(Put(prepared, c, Sub(q, "convert"), "property-key", q, None, ""),
                             c, Sub(q, "keyed"), "expression-sync", Sub(q, "key"), None, "")
                    ELSE prepared
       IN  BindElements(named, c, t, p, i - 1)

(* A pattern owns its iterator record from the moment it is open: every    *)
(* completion of its elements closes it.                                   *)
BindName(b, c, t, p) ==
  LET released == Put(b, c, Sub(p, "release"), "release", p, None, "")
      closed == Put(released, c, Sub(p, "close"), "iterator-close", p, None, "normal")
      thrown == Put(From(closed, c.exc), c, Sub(p, "close-throw"), "iterator-close", p, None, "throw")
      returned == Put(From(thrown, c.ret), c, Sub(p, "close-return"), "iterator-close", p, None, "return")
      protected == [c EXCEPT !.exc = Sub(p, "close-throw"), !.ret = Sub(p, "close-return")]
      elements == BindElements(From(returned, closed.e), protected, t, p, Len(t.es))
  IN  CASE t.k \in {"id", "prop"} -> Prepare(BindIdentifier(b, c, t, "none", p), c, t, p)
        [] t.k = "array"  -> Put(elements, c, Sub(p, "open"), "iterator-open", p, None, "")
        [] t.k = "object" -> Put(BindElements(released, c, t, p, Len(t.es)), c, Sub(p, "check"), "check", p, None, "")

SuspendingBinding(b, c, t, p, source) ==
  Put(BindName(b, [c EXCEPT !.scope = None], t, p), c, Sub(p, "source"), "source", p, None, source)

(* ---------------------------- finalization ----------------------------- *)

Targets(c) ==
  ({c.brk, c.cont} \cup UNION {{c.labels[l].brk, c.labels[l].cont} : l \in DOMAIN c.labels}) \ {None}

(* Every target of the context seen through R.                             *)
Reroute(c, R(_)) ==
  [c EXCEPT !.brk = R(@), !.cont = R(@),
            !.labels = [l \in DOMAIN @ |-> [brk |-> R(@[l].brk), cont |-> R(@[l].cont)]]]

FinallyExitSettles(b, c, p) ==                                  \* mutant: the outer regions are skipped
  Put(From(b, None), c, Sub(p, "exit"), "finally-exit", p, None, "")

(* buildFinalizationRegion, in two parts around the finalizer: the exit it *)
(* ends in, and the entries that record which completion it interrupts.    *)
FinallyExit(b, c, p) == Put(From(b, None), c, Sub(p, "exit"), "finally-exit", p, c.ret, "")

Through(p, next, t) ==
  IF t = None THEN None ELSE IF t = next THEN Sub(p, "normal") ELSE p \o <<"through">> \o t

FinallyEnter(fin, c, p, next) ==
  LET enter(x) == [kind |-> "finally-enter", p |-> p, exc |-> c.exc, next |-> fin.e, alt |-> None, x |-> x]
      through == {t \in Targets(c) : t # next}
      wraps == [id \in {Through(p, next, t) : t \in through} |-> enter(CHOOSE t \in through : id = Through(p, next, t))]
      normal == [fin EXCEPT !.e = Sub(p, "normal"), !.g = (Sub(p, "normal") :> enter(next)) @@ wraps @@ @]
      thrown == Put(From(normal, fin.e), c, Sub(p, "throw"), "finally-throw-enter", p, None, "")
      returned == Put(From(thrown, fin.e), c, Sub(p, "return"), "finally-return-enter", p, None, "")
  IN  [b |-> From(returned, normal.e),
       c |-> [Reroute(c, LAMBDA t : Through(p, next, t)) EXCEPT
                !.ret = Sub(p, "return"), !.exc = Sub(p, "throw")]]

EnvironmentRegion(b, c, p) ==
  FinallyEnter(Put(FinallyExit(b, c, Sub(p, "env")), c, p \o <<"env", "leave">>, "environment-exit", p, None, ""),
               c, Sub(p, "env"), b.e)

LexicalRegionReturns(b, c, p) ==                                \* mutant: a return stays inside
  [EnvironmentRegion(b, c, p) EXCEPT !.c.ret = c.ret]

LexicalRegionContinues(b, c, p) ==                              \* mutant: a jump stays inside
  [EnvironmentRegion(b, c, p) EXCEPT !.c.cont = c.cont]

(* buildLexicalRegion: an environment that every completion leaves.        *)
LexicalRegion(b, c, p) == EnvironmentRegion(b, c, p)

EnterScope(b, c, p, retained) ==
  Put(b, c, p \o <<"env", "enter">>, "scope-enter", p, None, retained)

(* buildResourceRegion: the resources are disposed by the finalizer.       *)
ResourceRegion(b, c, p, aw) ==
  FinallyEnter(Put(FinallyExit(b, c, Sub(p, "use")), c, p \o <<"use", "dispose">>, "resource-dispose",
                   Sub(p, "use"), None, aw),
               c, Sub(p, "use"), b.e)

EnterResources(b, c, p) == Put(b, c, p \o <<"use", "enter">>, "resource-enter", Sub(p, "use"), None, "")

(* ------------------------------ statements ----------------------------- *)

RECURSIVE Statement(_, _, _, _), Statements(_, _, _, _, _, _), LoopStatement(_, _, _, _, _),
          IteratorLoop(_, _, _, _, _), SwitchStatement(_, _, _, _), CatchEntry(_, _, _, _), Clauses(_, _, _, _, _)

Statements(b, c, ss, p, lo, hi) ==      \* statements lo .. hi, the last first
  IF hi < lo THEN b ELSE Statements(Statement(b, c, ss[hi], Sub(p, ToString(hi))), c, ss, p, lo, hi - 1)

(* buildSequence: the first using declaration opens a resource region that *)
(* lasts to the end of the sequence.                                       *)
Sequence(b, c, ss, p) ==
  LET using == {i \in DOMAIN ss : ss[i].k = "using"}
      first == CHOOSE i \in using : \A j \in using : i <= j
      region == ResourceRegion(b, c, p, \E i \in using : ss[i].aw)
      in == [region.c EXCEPT !.scope = Sub(p, "use")]
  IN  IF using = {} THEN Statements(b, c, ss, p, 1, Len(ss))
      ELSE Statements(EnterResources(Statements(region.b, in, ss, p, first, Len(ss)), c, p), c, ss, p, 1, first - 1)

LexicalBlock(b, c, s, p) ==
  LET region == LexicalRegion(b, c, p)
  IN  CASE ~s.lex -> Sequence(b, c, s.ss, p)
        [] s.lex /\ c.m.retained -> EnterScope(Sequence(region.b, region.c, s.ss, p), c, p, TRUE)
        [] OTHER -> EnterScope(Sequence(b, c, s.ss, p), c, p, FALSE)

InLoop(c, l, brk, cont) ==
  LET in == [c EXCEPT !.brk = brk, !.cont = cont]
  IN  IF l = "" THEN in ELSE [in EXCEPT !.labels = (l :> [brk |-> brk, cont |-> cont]) @@ @]

(* buildLoop for a statement whose head owns no region (any more).  The    *)
(* back edge of a for loop copies the bindings of its head.                *)
PlainLoop(b, c, s, l, p) ==
  LET cond == Sub(p, "condition")
      head == From(b, cond)
      inc == IF s.k = "for" THEN Put(head, c, Sub(p, "increment"), "sync", Sub(p, "inc"), None, None) ELSE head
      copy == IF s.k = "for" /\ s.init = "let" THEN Put(inc, c, Sub(p, "clone"), "scope-clone", p, None, "") ELSE inc
      body == Statement(copy, InLoop(c, l, b.e, copy.e), s.b, Sub(p, "b"))
      test == IF Suspends(c.m, s.s) = <<>> THEN Put(body, c, cond, "branch", p, b.e, "")
              ELSE Put(ExpressionSequence(body, c, p, Suspends(c.m, s.s), b.e, "branch"),
                       c, cond, "empty", p, None, "")
      first == IF s.k = "for" /\ s.init = "let" THEN Put(test, c, Sub(p, "clone-first"), "scope-clone", p, None, "")
               ELSE test
  IN  CASE s.k = "do"    -> From(test, body.e)
        [] s.k = "while" -> test
        [] s.k = "for"   -> Put(first, c, Sub(p, "initial"), "sync", Sub(p, "init"), None, c.scope)

LoopStatement(b, c, s, l, p) ==
  LET declares == s.k = "for" /\ s.init \in {"let", "using"}
      lexical == LexicalRegion(b, c, p)
      outer == IF declares /\ c.m.retained THEN lexical ELSE [b |-> b, c |-> c]
      resources == ResourceRegion(outer.b, outer.c, p, FALSE)
      loop == IF s.k = "for" /\ s.init = "using"
              THEN EnterResources(PlainLoop(resources.b, [resources.c EXCEPT !.scope = Sub(p, "use")], s, l, p), outer.c, p)
              ELSE PlainLoop(outer.b, [outer.c EXCEPT !.scope = None], s, l, p)
  IN  IF declares THEN EnterScope(loop, c, p, c.m.retained) ELSE loop

(* buildIteratorLoop: a break, an outer jump, a return and a throw each    *)
(* close the iterator before they go on.                                   *)
Closed(p, t) == IF t = None THEN None ELSE p \o <<"close">> \o t

IteratorBody(b, c, s, l, p) ==
  LET kind(k) == IF s.aw THEN "async-iterator-" \o k ELSE "iterator-" \o k
      close(next, x) == [kind |-> kind("close"), p |-> p, exc |-> c.exc, next |-> next, alt |-> None, x |-> x]
      leaving == Targets(c) \cup {b.e}
      closes == [id \in {Closed(p, t) : t \in leaving} |-> close(CHOOSE t \in leaving : id = Closed(p, t), "normal")]
                @@ (Sub(p, "close-return") :> close(c.ret, "return"))
                @@ (Sub(p, "close-throw") :> close(c.exc, "throw"))
      outer == [Reroute(c, LAMBDA t : Closed(p, t)) EXCEPT !.exc = Sub(p, "close-throw"), !.ret = Sub(p, "close-return")]
      in == InLoop(outer, l, Closed(p, b.e), Sub(p, "next"))
      head == [e |-> Sub(p, "next"), g |-> closes @@ b.g]
      region == ResourceRegion(head, in, p, s.aw)
      uses == s.decl = "using"
      each == IF uses THEN region.c ELSE in
      body == Statement(IF uses THEN region.b ELSE head, each, s.b, Sub(p, "b"))
      bound == BindName(body, [each EXCEPT !.scope = IF uses THEN Sub(p, "use") ELSE None], s.bind, Sub(p, "bind"))
      entry == IF uses THEN EnterResources(bound, in, p) ELSE bound
      next == Put(entry, c, Sub(p, "next"), kind("next"), p, b.e, s.decl)
      init == Put(next, c, Sub(p, "init"), kind("init"), p, None, s.s)
  IN  IF Suspends(c.m, s.s) = <<>> THEN init ELSE ExpressionResult(init, c, p, s.s)

IteratorLoop(b, c, s, l, p) ==
  LET region == LexicalRegion(b, c, p)
  IN  CASE s.decl \in {"assign", "var"} -> IteratorBody(b, c, s, l, p)
        [] c.m.retained -> EnterScope(IteratorBody(region.b, region.c, s, l, p), c, p, TRUE)
        [] OTHER        -> EnterScope(IteratorBody(b, c, s, l, p), c, p, FALSE)

(* The clauses of a switch from the last: each falls through to the next.  *)
Clauses(b, c, s, p, i) ==
  IF i = 0 THEN [b |-> b, at |-> <<>>]
  ELSE LET entry == Sequence(b, c, s.cs[i].b, Sub(p, ToString(i)))
           rest == Clauses(entry, c, s, p, i - 1)
       IN  [b |-> rest.b, at |-> Append(rest.at, entry.e)]

RECURSIVE Compares(_, _, _, _, _, _)
Compares(b, c, s, p, at, i) ==         \* b.e: where a miss of the i-th case goes
  IF i = 0 THEN b
  ELSE IF s.cs[i].dflt THEN Compares(b, c, s, p, at, i - 1)
  ELSE LET q == Sub(p, ToString(i))
           waits == Suspends(c.m, s.cs[i].s) # <<>>
           final == \A j \in i + 1 .. Len(s.cs) : s.cs[j].dflt
           compare == Put(From(b, at[i]), c, Sub(q, "compare"), "switch-compare", q, b.e,
                          [waits |-> waits, final |-> final, slot |-> p])
       IN  Compares(IF waits THEN ExpressionResult(compare, c, q, s.cs[i].s) ELSE compare, c, s, p, at, i - 1)

SwitchStatement(b, c, s, p) ==
  LET region == LexicalRegion(b, c, p)
      keeps == s.lex /\ c.m.retained
      in == IF keeps THEN region ELSE [b |-> b, c |-> c]
      built == Clauses(in.b, [in.c EXCEPT !.brk = in.b.e], s, p, Len(s.cs))
      default == IF DefaultOf(s) = {} THEN in.b.e ELSE built.at[DefaultClause(s)]
      select == IF CaseSuspends(c.m, s) THEN Compares(From(built.b, default), in.c, s, p, built.at, Len(s.cs))
                ELSE Put(From(built.b, default), in.c, Sub(p, "dispatch"), "switch-dispatch", p, None,
                         [at |-> built.at, cases |-> Cases(s), default |-> DefaultClause(s)])
  IN  ExpressionResult(EnterScope(select, IF keeps THEN c ELSE in.c, p, keeps), c, p, s.s)

(* A catch clause: bind the exception, then the block.                     *)
CatchEntry(b, c, k, p) ==
  LET region == LexicalRegion(b, c, p)
      own == k.bind # Absent /\ c.m.retained
      in == IF own THEN region ELSE [b |-> b, c |-> c]
      block == Statement(in.b, in.c, k.b, Sub(p, "b"))
      bound == IF k.bind # Absent /\ PatternSuspends(k.bind)
               THEN Put(SuspendingBinding(block, in.c, k.bind, Sub(p, "bind"), "exception"),
                        in.c, Sub(p, "fresh"), "empty", p, None, "")
               ELSE Put(block, in.c, Sub(p, "catch"), "catch-bind", Sub(p, "bind"), None, k.bind)
  IN  IF own THEN EnterScope(bound, c, p, TRUE) ELSE bound

TryStatement(b, c, s, p) ==
  LET fin == Statement(FinallyExit(b, c, p), c, s.f, Sub(p, "f"))
      region == IF s.f = Absent THEN [b |-> b, c |-> c] ELSE FinallyEnter(fin, c, p, b.e)
      caught == CatchEntry(region.b, region.c, s.c, Sub(p, "c"))
  IN  IF s.c = Absent THEN Statement(region.b, region.c, s.b, Sub(p, "b"))
      ELSE Statement(From(caught, region.b.e), [region.c EXCEPT !.exc = caught.e], s.b, Sub(p, "b"))

(* A return or a throw: through an enclosing region, or to the result.     *)
CompletionStatement(b, c, s, p) ==
  LET ss == IF s.k = "return" THEN SuspendsReturn(c.m, s.s) ELSE Suspends(c.m, s.s)
  IN  CASE ss # <<>> -> ExpressionSequence(From(b, None), c, p, ss, IF s.k = "return" THEN c.ret ELSE None, s.k)
        [] s.k = "return" /\ c.ret # None -> Put(From(b, c.ret), c, Sub(p, "route"), "return-route", p, None, "")
        [] s.k = "throw" /\ c.exc # None  -> Put(From(b, c.exc), c, Sub(p, "route"), "throw-route", p, None, "")
        [] OTHER -> Put(From(b, None), c, Sub(p, "completion"), "completion", p, None, s.k)

JumpStatement(b, c, s) ==
  LET labelled == s.l \in DOMAIN c.labels
      t == CASE s.l # "" /\ ~labelled -> None
             [] s.l # "" -> IF s.k = "break" THEN c.labels[s.l].brk ELSE c.labels[s.l].cont
             [] OTHER    -> IF s.k = "break" THEN c.brk ELSE c.cont
  IN  IF t = None THEN Reject(b) ELSE From(b, t)

WithStatement(b, c, s, p) ==
  LET region == LexicalRegion(b, c, p)
      entered == Put(Statement(region.b, region.c, s.b, Sub(p, "b")), c, Sub(p, "object"), "object-scope-enter", p, None, "")
  IN  ExpressionResult(entered, c, p, s.s)

DeclareStatement(b, c, s, p) ==
  CASE s.bind.k = "id" /\ Suspends(c.m, s.s) = <<>> -> Put(b, c, Sub(p, "sync"), "sync", p, None, None)
    [] s.bind.k = "id"   -> ExpressionSequence(b, c, p, Suspends(c.m, s.s), None, "assign")
    [] PatternSuspends(s.bind) -> ExpressionResult(SuspendingBinding(b, c, s.bind, Sub(p, "bind"), "result"), c, p, s.s)
    [] OTHER -> ExpressionResult(Put(b, c, Sub(p, "init"), "binding-init", Sub(p, "bind"), None, ""), c, p, s.s)

UsingStatement(b, c, s, p) ==
  IF Suspends(c.m, s.s) = <<>> THEN Put(b, c, Sub(p, "sync"), "sync", p, None, c.scope)
  ELSE Operations(Put(b, c, Sub(p, "complete"), "resource-complete", p, None, c.scope), c, p, Suspends(c.m, s.s))

IfStatement(b, c, s, p) ==
  LET t == Statement(b, c, s.t, Sub(p, "t"))
      f == Statement(From(t, b.e), c, s.f, Sub(p, "f"))
  IN  IF Suspends(c.m, s.s) # <<>> THEN ExpressionSequence(From(f, t.e), c, p, Suspends(c.m, s.s), f.e, "branch")
      ELSE Put(From(f, t.e), c, Sub(p, "branch"), "branch", p, f.e, "")

LabelStatement(b, c, s, p) ==
  CASE s.b.k \in {"while", "do", "for"} -> LoopStatement(b, c, s.b, s.l, p)
    [] Atomic(s.b, s.l) -> Put(b, c, Sub(p, "sync"), "sync", p, None, None)
    [] s.b.k = "forof"  -> IteratorLoop(b, c, s.b, s.l, p)
    [] OTHER -> Statement(b, [c EXCEPT !.labels = (s.l :> [brk |-> b.e, cont |-> None]) @@ @], s.b, Sub(p, "b"))

Statement(b, c, s, p) ==
  CASE s.k = "absent" -> b
    [] s.k = "block"  -> LexicalBlock(b, c, s, p)
    [] s.k = "with"   -> WithStatement(b, c, s, p)
    [] s.k = "label"  -> LabelStatement(b, c, s, p)
    [] s.k \in {"while", "do", "for", "forof"} -> LabelStatement(b, c, Label("", s), p)
    [] s.k = "if"     -> IfStatement(b, c, s, p)
    [] s.k = "switch" -> SwitchStatement(b, c, s, p)
    [] s.k = "try"    -> TryStatement(b, c, s, p)
    [] s.k \in {"break", "continue"} -> JumpStatement(b, c, s)
    [] s.k \in {"return", "throw"}   -> CompletionStatement(b, c, s, p)
    [] s.k = "declare" -> DeclareStatement(b, c, s, p)
    [] s.k = "using"   -> UsingStatement(b, c, s, p)
    [] s.k = "export"  -> Operations(Put(Put(b, c, Sub(p, "export"), "module-export", p, None, ""), c, Sub(p, "complete"),
                                        "expression-complete", p, None, "result"), c, p, Suspends(c.m, s.s))
    [] s.k = "expr" /\ Suspends(c.m, s.s) # <<>> -> ExpressionSequence(b, c, p, Suspends(c.m, s.s), None, "discard")
    [] OTHER -> Put(b, c, Sub(p, "sync"), "sync", p, None, None)

(* --------------------------- the whole graph --------------------------- *)

NoContext(m) == [m |-> m, brk |-> None, cont |-> None, labels |-> <<>>, exc |-> None, ret |-> None, scope |-> None]

Terminal(m) == Put([e |-> None, g |-> <<>>], NoContext(m), <<"terminal">>, "completion", <<>>, None, "end")

Build(m) == Statement(Terminal(m), NoContext(m), m.body, <<"r">>)

SuccessorsReturning(g, reached, id) ==                          \* mutant: an exit only returns
  LET s == g[id]
  IN  {s.next, s.alt, s.exc} \cup (IF s.kind = "switch-dispatch" THEN {s.x.at[i] : i \in DOMAIN s.x.at} ELSE {})

(* The exit of a region leads wherever a reachable normal entry came from. *)
Successors(g, reached, id) ==
  LET s == g[id]
  IN  (CASE s.kind = "finally-exit" ->
              {s.alt} \cup {g[i].x : i \in {i \in reached : g[i].kind = "finally-enter" /\ g[i].p = s.p}}
         [] s.kind = "switch-dispatch" -> {s.next} \cup {s.x.at[i] : i \in DOMAIN s.x.at}
         [] OTHER -> {s.next, s.alt})
      \cup {s.exc}

RECURSIVE Explore(_, _, _, _)
Explore(g, reached, seen, frontier) ==
  IF frontier = {} THEN seen
  ELSE LET found == UNION {Successors(g, reached, id) : id \in frontier} \ (seen \cup frontier \cup {None})
       IN  Explore(g, reached, seen \cup frontier, found)

RECURSIVE Reachable(_, _, _)
Reachable(g, e, reached) ==
  LET discovered == Explore(g, reached, {}, {e})
  IN  IF discovered = reached THEN reached ELSE Reachable(g, e, discovered)

Awaits(g, ids) ==
  {id \in ids : \/ g[id].kind = "suspend"
                \/ g[id].kind = "resource-dispose" /\ g[id].x = TRUE
                \/ g[id].kind \in {"async-iterator-next", "async-iterator-close"}}

(* The graph the emitter receives, with the unreachable states removed; no *)
(* graph for a body with an unsupported jump, nor for an async function    *)
(* that never suspends.                                                    *)
Plan(m) ==
  LET b == Build(m)
      ids == IF <<"unsupported">> \in DOMAIN b.g THEN {} ELSE Reachable(b.g, b.e, {})
  IN  IF ids = {} \/ (m.kind = "async" /\ Awaits(b.g, DOMAIN b.g) = {}) THEN [e |-> None, g |-> <<>>]
      ELSE [e |-> b.e, g |-> [id \in ids |-> b.g[id]]]

================================================================================
