------------------------------- MODULE RequireScan -------------------------------
(***************************************************************************)
(* The require calls of a source file and the texts they ask for:          *)
(* commonJsRequireSpecifierArgument of module-specifiers.ts, and the walk  *)
(* of staticRequireSpecifiers with its aliases, which resolve.ts and       *)
(* program.ts hold in two copies.                                          *)
(*                                                                         *)
(* An alias is a name: A.req are the names taken for require and A.mod     *)
(* those taken for module, wherever they are declared.                     *)
(***************************************************************************)
EXTENDS Specifiers

(* ----------------------- the argument of a require call ------------------ *)

RECURSIVE Actuals(_), ArrayLiteral(_)
ArrayLiteral(x) ==
  LET u == Bare(x) IN CASE u.k = "const" -> ArrayLiteral(u.x) [] u.k = "arr" -> u [] OTHER -> No
ActualsAsWritten(as) == [i \in DOMAIN as |-> IF as[i].k = "spread" THEN Hole ELSE as[i]]     \* mutant: a list spread into the call is not looked into
(* The actual arguments up to the first that is not known, which is a hole. *)
Actuals(as) ==
  LET a == Head(as)
      list == ArrayLiteral(a.x)
  IN CASE as = <<>> -> <<>>
       [] a.k = "hole" -> <<Hole>>
       [] a.k = "spread" -> IF Known(list) THEN Actuals(list.es \o Tail(as)) ELSE <<Hole>>
       [] OTHER -> <<a>> \o Actuals(Tail(as))
ActualArgument(as, i) ==       \* staticActualArgumentAt
  LET xs == Actuals(as) IN IF i > Len(xs) THEN No ELSE IF xs[i].k = "hole" THEN No ELSE xs[i]
ApplyArgument(list) == IF Known(list) THEN ActualArgument(<<Spread(list)>>, 1) ELSE No
NameOf(x) == LET u == Bare(x) IN IF u.k \in {"global", "param", "const"} THEN u.name ELSE ""
IsModule(x, A) == NameOf(x) \in A.mod \union {"module"}
IsModuleRequire(x, A) == LET u == Bare(x) IN u.k = "get" /\ u.name = "require" /\ IsModule(u.x, A)
IsRequireThis(f, x, A) ==      \* isCommonJsRequireThisArg
  IsModule(x, A) \/ (~IsModuleRequire(f, A) /\ Bare(x).k \in {"null", "undefined"})
IsPlainRequire(x, A) == NameOf(x) \in A.req \union {"require"} \/ IsModuleRequire(x, A)
IsBound(x, A) ==               \* isCommonJsModuleRequireBindExpression
  LET u == Bare(x)
  IN  u.k = "call" /\ u.f.k = "get" /\ u.f.name = "bind" /\ Len(u.as) >= 1
      /\ IsPlainRequire(u.f.x, A) /\ IsRequireThis(u.f.x, u.as[1], A)
IsRequire(x, A) == IsPlainRequire(x, A) \/ IsBound(x, A)
SpecifierArgument(u, A) ==     \* commonJsRequireSpecifierArgument
  LET f == u.f
      target == ActualArgument(u.as, 1)
  IN CASE u.k # "call" -> No
       [] IsRequire(f, A) -> ActualArgument(u.as, 1)
       [] f.k = "get" /\ f.name = "call" /\ IsRequire(f.x, A) -> ActualArgument(u.as, 2)
       [] f.k = "get" /\ f.name = "apply" /\ IsRequire(f.x, A) -> ApplyArgument(ActualArgument(u.as, 2))
       [] f = Get(Global("Reflect"), "apply") ->
            IF Known(target) /\ IsRequire(target, A) THEN ApplyArgument(ActualArgument(u.as, 3)) ELSE No
       [] OTHER -> No

(* --------------------- functions called with require --------------------- *)

RECURSIVE FunctionOf(_), CallsIn(_), AliasesIn(_, _, _), SpecifiersIn(_, _, _)
Children(x) ==                 \* in source order; a name does not hold its declaration
  CASE x.k \in {"paren", "void", "typeof", "delete", "un", "spread", "get"} -> <<x.x>>
    [] x.k \in {"bin", "at"} -> <<x.x, x.y>>
    [] x.k = "cond" -> <<x.c, x.x, x.y>>
    [] x.k \in {"template", "raw"} -> [i \in DOMAIN x.spans |-> x.spans[i].x]
    [] x.k = "arr" -> x.es
    [] x.k = "obj" -> [i \in DOMAIN SelectSeq(x.ps, LAMBDA p : p.p \in {"prop", "spread"}) |->
                         SelectSeq(x.ps, LAMBDA p : p.p \in {"prop", "spread"})[i].x]
    [] x.k \in {"call", "new"} -> <<x.f>> \o x.as
    [] x.k = "fn" -> IF x.body.how \in {"expr", "return", "stmt"} THEN <<x.body.x>> ELSE <<>>
    [] OTHER -> <<>>
Over(x, In(_)) == UNION {In(Children(x)[i]) : i \in DOMAIN Children(x)}
FunctionOf(x) ==               \* commonJsDirectFactoryFunctionForExpression
  LET u == Bare(x)
  IN CASE u.k = "fn" -> u
       [] u.k = "const" -> IF u.x.k = "fn" THEN u.x ELSE IF Bare(u.x).k = "const" THEN FunctionOf(u.x) ELSE No
       [] OTHER -> No
Invocation(f, as) == [k |-> "invocation", f |-> f, as |-> as]
Listed(f, list) == IF Bare(list).k = "arr" THEN Invocation(f, Bare(list).es) ELSE No
Invoked(call) ==               \* what a call calls, directly or through call, apply, Reflect.apply or bind
  LET f == Bare(call.f)
      g == Bare(f.f)
      as == call.as
  IN CASE f.k = "get" /\ f.name = "apply" /\ NameOf(f.x) = "Reflect" -> IF Len(as) >= 3 THEN Listed(as[1], as[3]) ELSE No
       [] f.k = "get" /\ f.name = "call" -> Invocation(f.x, IF as = <<>> THEN <<>> ELSE Tail(as))
       [] f.k = "get" /\ f.name = "apply" -> IF Len(as) >= 2 THEN Listed(f.x, as[2]) ELSE No
       [] f.k = "get" -> No
       [] f.k = "call" -> IF g.k = "get" /\ g.name = "bind" THEN Invocation(g.x, as) ELSE No
       [] OTHER -> Invocation(f, as)
CallsIn(x) ==                  \* the calls made outside of nested functions
  IF x.k = "fn" THEN <<>> ELSE (IF x.k = "call" THEN <<x>> ELSE <<>>) \o FlattenSeq([i \in DOMAIN Children(x) |-> CallsIn(Children(x)[i])])
Scope(fn, as, skip) == [k |-> "scope", fn |-> fn, as |-> as, skip |-> skip]
(* (function (f) { f(require) })(function (r) { ... }): the one invocation of a factory given as argument. *)
WrapperScope(call) ==          \* commonJsFactoryWrapperInvocation
  LET outer == Bare(call.f)
      factories == {i \in DOMAIN outer.params : outer.params[i] # Pattern /\ Known(FunctionOf(call.as[i]))}
      target(c) == LET v == Invoked(c) IN IF Known(v) THEN Bare(v.f) ELSE No
      of(c) == {i \in factories : target(c).k = "param" /\ target(c).name = outer.params[i]}
      made == SelectSeq(CallsIn(outer.body.x), LAMBDA c : of(c) # {})
      i == CHOOSE j \in of(made[1]) : TRUE
  IN  IF outer.k # "fn" THEN No ELSE IF outer.body.how \notin {"return", "stmt"} \/ Len(call.as) < Len(outer.params) THEN No
      ELSE IF Len(made) = 1 THEN Scope(FunctionOf(call.as[i]), Invoked(made[1]).as, i) ELSE No
DirectScope(call) ==           \* commonJsDirectFactoryInvocation, which an IIFE is too
  LET v == Invoked(call)
      fn == FunctionOf(v.f)
  IN  IF ~Known(v) THEN No ELSE IF Known(fn) THEN Scope(fn, v.as, 0) ELSE No
Given(s) == {i \in DOMAIN s.fn.params : s.fn.params[i] # Pattern /\ i <= Len(s.as)}
RequireParameters(s, A) == {s.fn.params[i] : i \in {j \in Given(s) : IsRequire(s.as[j], A)}}
ModuleParameters(s, A) == {s.fn.params[i] : i \in {j \in Given(s) : IsModule(s.as[j], A)}}
ScopeAliases(s, A) ==
  [req |-> A.req \union RequireParameters(s, A), mod |-> A.mod \union (ModuleParameters(s, A) \ RequireParameters(s, A))]
Opens(s, A) ==                 \* the scope has aliases of its own
  IF ~Known(s) THEN FALSE ELSE Len(s.as) >= Len(s.fn.params) /\ ScopeAliases(s, A) # A

(* ------------------------------ the aliases ------------------------------ *)

Eval(x) == [s |-> "eval", x |-> x]
Declare(name, x) == [s |-> "declare", name |-> name, x |-> x]
(* const { key: name } = x, element by element; plain: name is a name, without a default, and no rest. *)
Element(key, name) == [key |-> key, name |-> name, plain |-> TRUE]
Destructure(elements, x) == [s |-> "destructure", elements |-> elements, x |-> x]
CodeKinds == {"eval", "declare", "destructure"}
IifeScope(call) ==             \* commonJsIifeParameterArgument
  LET w == WrapperScope(call) IN IF Bare(call.f).k = "fn" THEN <<Scope(Bare(call.f), call.as, 0)>> \o IF Known(w) THEN <<w>> ELSE <<>> ELSE <<>>
Adopt(A, s, of) == IF of = "mod" THEN [A EXCEPT !.mod = @ \union ModuleParameters(s, A)]
                   ELSE [A EXCEPT !.req = @ \union RequireParameters(s, A)]
AliasesIn(x, A, of) ==         \* the parameters of functions called where they stand
  LET own == IF x.k = "call" THEN FoldLeft(LAMBDA B, s : Adopt(B, s, of), A, IifeScope(x)) ELSE A
  IN  FoldLeft(LAMBDA B, c : AliasesIn(c, B, of), own, Children(x))
Taken(elements) == {e.name : e \in {b \in ToSet(elements) : b.plain /\ b.key = "require"}}
Declared(A, st, of) ==
  CASE st.s = "declare" /\ of = "mod" /\ Bare(st.x) = Global("module") -> [A EXCEPT !.mod = @ \union {st.name}]
    [] st.s = "declare" /\ of = "req" /\ IsRequire(st.x, A) -> [A EXCEPT !.req = @ \union {st.name}]
    [] st.s = "destructure" /\ of = "req" /\ IsModule(st.x, A) -> [A EXCEPT !.req = @ \union Taken(st.elements)]
    [] OTHER -> A
FileAliases(body) ==           \* commonJsModuleAliases, then commonJsRequireAliases
  LET code == SelectSeq(body, LAMBDA st : st.s \in CodeKinds)
      scan(A, of) == FoldLeft(LAMBDA B, st : AliasesIn(st.x, Declared(B, st, of), of), A, code)
  IN  scan(scan([req |-> {}, mod |-> {}], "mod"), "req")

(* -------------------------- the texts asked for -------------------------- *)

(* M: the texts the manifest of dynamic requires has for the file.         *)
CallSpecifiers(x, A, M) ==
  LET arg == SpecifierArgument(x, A)
      texts == {t.s : t \in Texts(arg)}
  IN  IF x.k # "call" THEN {} ELSE IF ~Known(arg) THEN {} ELSE IF texts # {} THEN texts ELSE FilterByAffix(M, arg)
SpecifiersIn(x, A, M) ==       \* visit of staticRequireSpecifiers
  LET w == WrapperScope(x)
      d == DirectScope(x)
      arguments(skip) == UNION {SpecifiersIn(x.as[i], A, M) : i \in DOMAIN x.as \ {skip}}
      body(s) == Over(s.fn, LAMBDA c : SpecifiersIn(c, ScopeAliases(s, A), M))
  IN  CallSpecifiers(x, A, M) \union
        IF x.k # "call" THEN Over(x, LAMBDA c : SpecifiersIn(c, A, M))
        ELSE IF Opens(w, A) THEN arguments(w.skip) \union body(w)
        ELSE IF Opens(d, A) THEN arguments(0) \union body(d)
        ELSE Over(x, LAMBDA c : SpecifiersIn(c, A, M))
StatementSpecifiers(st, A, M) == IF st.s \in CodeKinds THEN SpecifiersIn(st.x, A, M) ELSE {}
FileSpecifiers(body, M) ==     \* staticRequireSpecifiers
  LET A == FileAliases(body) IN UNION {StatementSpecifiers(st, A, M) : st \in ToSet(body)}

===============================================================================
