---------------------------- MODULE ResumableExpr ----------------------------
(***************************************************************************)
(* Expressions that suspend or short-circuit: planResumableExpression of   *)
(* emit/resumable-expression.ts lowers one to a graph of operations over   *)
(* value slots, which emitCanonicalExpressionOperation of emit/index.ts    *)
(* turns into C (emitOrdinaryExpressionGraph, and the same operations in   *)
(* the body of a suspended activation).                                    *)
(*                                                                         *)
(* The machine runs the graph and logs what every operation does and on    *)
(* which values; the reference, Eval, is the direct reading of the same    *)
(* expression.  A slot keeps what an earlier evaluation of the expression  *)
(* left in it (the slots of a suspended activation outlive a loop          *)
(* iteration): Stale.                                                      *)
(*                                                                         *)
(* As in AsyncCfg, states and slots are named by the path of the syntax    *)
(* they are for where the code allocates numbers, and a graph is built     *)
(* from its end: b.e is where control goes next.                           *)
(***************************************************************************)
EXTENDS Sequences, Naturals, TLC

CONSTANT Exprs                 \* a sequence of [x, asyncGenerator]

Expressions == Exprs           \* a definition of its own: evaluated once by TLC

VARIABLES prog,        \* the expression, an index of Exprs
          graph,       \* its operations and their entry
          oracle,      \* the outcome of every test, where the value leaves it open
          expected,    \* what the reference does
          pc, slots, log

vars == <<prog, graph, oracle, expected, pc, slots, log>>

(* ------------------------------- syntax -------------------------------- *)

Id == [k |-> "id"]
Lit == [k |-> "lit"]
Void_ == [k |-> "void"]        \* no operand: yield;
Await(x)      == [k |-> "await", x |-> x]
Yield(x)      == [k |-> "yield", x |-> x]
Delegate(x)   == [k |-> "delegate", x |-> x]
Paren(x)      == [k |-> "paren", x |-> x]
Cond(x, y, z) == [k |-> "cond", x |-> x, y |-> y, z |-> z]
Comma(x, y)   == [k |-> "comma", x |-> x, y |-> y]
Logic(o, x, y) == [k |-> "logic", o |-> o, x |-> x, y |-> y]
Assign(x, y)  == [k |-> "assign", x |-> x, y |-> y]
Compound(x, y) == [k |-> "compound", x |-> x, y |-> y]
LogicAssign(o, x, y) == [k |-> "logicassign", o |-> o, x |-> x, y |-> y]
Pattern(y)    == [k |-> "pattern", y |-> y]                  \* [a, b] = y
Prop(x, opt)  == [k |-> "prop", x |-> x, opt |-> opt]
Elem(x, y, opt) == [k |-> "elem", x |-> x, y |-> y, opt |-> opt]
Super == [k |-> "super"]
Import == [k |-> "import"]
Call(x, as, opt) == [k |-> "call", x |-> x, as |-> as, opt |-> opt]
New(x, as)    == [k |-> "new", x |-> x, as |-> as, opt |-> FALSE]
Tagged(x, as) == [k |-> "tagged", x |-> x, as |-> as, opt |-> FALSE]
Arr(as)       == [k |-> "array", as |-> as]                   \* arguments and elements
Item(x)       == [s |-> FALSE, x |-> x]
Spread(x)     == [s |-> TRUE, x |-> x]
Obj(ms)       == [k |-> "object", ms |-> ms]                  \* members
Member(m, key, x) == [m |-> m, key |-> key, x |-> x]          \* value, method, spread, proto
Class(h, ms)  == [k |-> "class", h |-> h, ms |-> ms]          \* ms: computed keys, Void_ for none
Delete(x)     == [k |-> "delete", x |-> x]
Update(x)     == [k |-> "update", x |-> x]
Template(as)  == [k |-> "template", as |-> as]
Binary(x, y)  == [k |-> "binary", x |-> x, y |-> y]
Unary(x)      == [k |-> "unary", x |-> x]
Typeof(x)     == [k |-> "typeof", x |-> x]

RECURSIVE Transparent(_)
Transparent(x) == IF x.k = "paren" THEN Transparent(x.x) ELSE x

Children(x) ==
  CASE x.k \in {"id", "lit", "void", "super", "import"} -> <<>>
    [] x.k \in {"await", "yield", "delegate", "paren", "delete", "update", "unary", "typeof", "prop"} -> <<x.x>>
    [] x.k = "cond" -> <<x.x, x.y, x.z>>
    [] x.k = "pattern" -> <<x.y>>
    [] x.k \in {"call", "new", "tagged"} -> <<x.x>> \o [i \in DOMAIN x.as |-> x.as[i].x]
    [] x.k \in {"array", "template"} -> [i \in DOMAIN x.as |-> x.as[i].x]
    [] x.k = "object" -> [i \in DOMAIN x.ms |-> x.ms[i].key] \o [i \in DOMAIN x.ms |-> x.ms[i].x]
    [] x.k = "class" -> <<x.h>> \o x.ms
    [] OTHER -> <<x.x, x.y>>

(* Is x a link of an optional chain (NodeFlags.OptionalChain)?  Parentheses *)
(* end a chain.                                                            *)
RECURSIVE Chain(_)
Chain(x) == x.k \in {"prop", "elem", "call"} /\ (x.opt \/ Chain(x.x))

(* The subtrees that bear control; the others are one evaluation each.     *)
RECURSIVE Decomposed(_)
Decomposed(x) ==
  \/ x.k \in {"await", "yield", "delegate"}
  \/ Chain(x)
  \/ x.k = "call" /\ x.x.k = "paren"
  \/ \E i \in DOMAIN Children(x) : Decomposed(Children(x)[i])

(* ------------------------------- planner ------------------------------- *)

None == <<>>
Sub(p, r) == Append(p, r)
N(i) == ToString(i)

Op(b, p, r, op, in, out) ==
  [e |-> Sub(p, r),
   g |-> (Sub(p, r) :> [op |-> op, p |-> p, in |-> in, out |-> out, next |-> b.e, no |-> None]) @@ b.g]

Branch(b, p, r, mode, source, yes, no) ==
  [e |-> Sub(p, r),
   g |-> (Sub(p, r) :> [op |-> mode, p |-> p, in |-> <<source>>, out |-> None, next |-> yes, no |-> no]) @@ b.g]

From(b, e) == [b EXCEPT !.e = e]
Copy(b, p, r, source, out) == Op(b, p, r, "copy", <<source>>, out)

(* The slots of a Reference formed at p.                                   *)
RefSlots(x, p) ==
  CASE x.k = "id" -> <<Sub(p, "ref")>>
    [] x.x = Super -> <<Sub(p, "base"), Sub(p, "key"), Sub(p, "this")>>
    [] OTHER -> <<Sub(p, "base"), Sub(p, "key")>>

RECURSIVE Build(_, _, _, _, _, _), Arguments(_, _, _, _, _, _), Members(_, _, _, _, _, _), Stages(_, _, _, _, _, _),
          Reference(_, _, _, _, _), Guarded(_, _, _, _, _), CallApplication(_, _, _, _, _, _), ClassDefinition(_, _, _, _, _),
          Logical(_, _, _, _, _), Assignment(_, _, _, _, _), CompoundAssignment(_, _, _, _, _), Suspension(_, _, _, _, _),
          DeleteReference(_, _, _, _, _)

(* buildReference: b is the graph of its consumer.                         *)
Reference(b, m, x, p, exit) ==
  LET based == IF x.x = Super THEN Op(b, p, "super-base", "super-base", <<>>, Sub(p, "base")) ELSE b
      keyed == IF x.k = "prop" THEN Op(based, p, "name", "name", <<>>, Sub(p, "key"))
               ELSE Build(Copy(based, p, "key-copy", Sub(p, "raw"), Sub(p, "key")), m, x.y, Sub(p, "y"), Sub(p, "raw"), None)
      guarded == IF x.opt THEN Branch(keyed, p, "guard", "nullish", Sub(p, "base"), exit, keyed.e) ELSE keyed
  IN  CASE x.k = "id"   -> Op(b, p, "reference", "binding-reference", <<>>, Sub(p, "ref"))
        [] x.x = Super  -> Op(guarded, p, "super-this", "super-this", <<>>, Sub(p, "this"))
        [] OTHER        -> Build(guarded, m, x.x, Sub(p, "x"), Sub(p, "base"), exit)

(* Arguments and elements 1 .. i, the last first; target is the list.      *)
Arguments(b, m, as, p, target, i) ==
  IF i = 0 THEN b
  ELSE LET q == Sub(p, N(i))
           append == Op(b, q, "append", IF as[i].s THEN "spread" ELSE "append",
                        IF as[i].x = Void_ THEN <<target>> ELSE <<target, Sub(q, "item")>>, None)
       IN  Arguments(IF as[i].x = Void_ THEN append ELSE Build(append, m, as[i].x, Sub(q, "x"), Sub(q, "item"), None),
                     m, as, p, target, i - 1)

(* The list of arguments, behind the test of an optional call.             *)
Guarded(b, m, x, p, skip) ==
  LET listed == Op(b, p, "arguments", "arguments", <<>>, Sub(p, "actuals"))
  IN  IF x.opt THEN Branch(listed, p, "callable", "nullish", Sub(p, "callee"), skip, listed.e) ELSE listed

ReceiverUnset(b, m, t, q, p) ==                                 \* mutant: the receiver is not copied
  Op(b, p, "get", "get", RefSlots(t, q), Sub(p, "callee"))

(* GetValue of the function after its receiver is copied.                  *)
Receiver(b, m, t, q, p) ==
  Copy(Op(b, p, "get", "get", RefSlots(t, q), Sub(p, "callee")), p, "receiver",
       IF t.x = Super THEN Sub(q, "this") ELSE Sub(q, "base"), Sub(p, "receiver"))

(* buildCall.                                                              *)
CallApplication(b, m, x, p, out, exit) ==
  LET t == Transparent(x.x)
      q == Sub(p, "x")
      property == t.k \in {"prop", "elem"}
      received == IF property \/ t.k = "id" THEN <<Sub(p, "receiver")>> ELSE <<>>
      skipped == IF exit = None THEN Op(b, p, "skip", "undefined", <<>>, out) ELSE From(b, exit)
      apply == Op([skipped EXCEPT !.e = b.e], p, "call", x.k, <<Sub(p, "callee"), Sub(p, "actuals")>> \o received, out)
      given == Arguments(apply, m, x.as, p, Sub(p, "actuals"), Len(x.as))
      template == IF x.k # "tagged" THEN given
                  ELSE Op(Op(given, p, "append", "append", <<Sub(p, "actuals"), Sub(p, "template")>>, None),
                          p, "template", "template-object", <<>>, Sub(p, "template"))
      args == Guarded(template, m, x, p, skipped.e)
      inChain == Chain(x) /\ x.x.k # "paren"
      lost == IF inChain THEN From(args, skipped.e) ELSE Op(args, p, "lost", "undefined", <<>>, Sub(p, "callee"))
  IN  CASE t = Super  -> Op(args, p, "super", "super-constructor", <<>>, Sub(p, "callee"))
        [] t = Import -> Op(args, p, "import", "undefined", <<>>, Sub(p, "callee"))
        [] t.k = "id" ->
             Reference(Op(Op(args, p, "receiver", "binding-receiver", <<Sub(q, "ref")>>, Sub(p, "receiver")),
                          p, "get", "get", RefSlots(t, q), Sub(p, "callee")), m, t, q, None)
        [] property   -> Reference(Receiver(From(lost, args.e), m, t, q, p), m, t, q, lost.e)
        [] OTHER      -> Build(args, m, x.x, q, Sub(p, "callee"), IF Chain(x) THEN skipped.e ELSE None)

(* Members 1 .. i of an object literal, the last first.                    *)
Members(b, m, ms, p, out, i) ==
  IF i = 0 THEN b
  ELSE LET q == Sub(p, N(i))
           e == ms[i]
           define == Op(b, q, "define", e.m,
                        CASE e.m = "value" -> <<out, Sub(q, "key"), Sub(q, "item")>>
                          [] e.m = "method" -> <<out, Sub(q, "key")>>
                          [] OTHER -> <<out, Sub(q, "item")>>, None)
           valued == IF e.m = "method" THEN define ELSE Build(define, m, e.x, Sub(q, "x"), Sub(q, "item"), None)
           keyed == IF e.m \in {"spread-object", "proto"} THEN valued
                    ELSE IF e.key = Void_ THEN Op(valued, q, "name", "name", <<>>, Sub(q, "key"))
                    ELSE Build(Op(valued, q, "normal", "property-key", <<Sub(q, "raw")>>, Sub(q, "key")),
                               m, e.key, Sub(q, "key"), Sub(q, "raw"), None)
       IN  Members(keyed, m, ms, p, out, i - 1)

(* The stages of a class definition (classDefinitionPlan).                 *)
Stages(b, m, ks, p, out, i) ==
  IF i = 0 THEN b
  ELSE LET q == Sub(p, N(i))
           defined == Op(b, q, "element", "class-element",
                         IF ks[i] = Void_ THEN <<out>> ELSE <<out, Sub(q, "key")>>, None)
       IN  Stages(IF ks[i] = Void_ THEN defined
                  ELSE Build(Op(defined, q, "normal", "property-key", <<Sub(q, "raw")>>, Sub(q, "key")),
                             m, ks[i], Sub(q, "x"), Sub(q, "raw"), None), m, ks, p, out, i - 1)

ClassDefinition(b, m, x, p, out) ==
  LET elements == Stages(Op(b, p, "complete", "class-complete", <<out>>, None), m, x.ms, p, out, Len(x.ms))
      inherited == Build(Op(elements, p, "heritage", "class-heritage", <<out, Sub(p, "super")>>, None),
                         m, x.h, Sub(p, "x"), Sub(p, "super"), None)
  IN  Op(IF x.h = Void_ THEN elements ELSE inherited, p, "begin", "class-start", <<>>, out)

(* The two ends of a logical operator, as the branch takes them.           *)
Ends(o, selected, right) ==
  IF o = "or" THEN [yes |-> selected, no |-> right] ELSE [yes |-> right, no |-> selected]
Mode(o) == IF o = "nullish" THEN "nullish" ELSE "truthy"

Logical(b, m, x, p, out) ==
  LET selected == Copy(b, p, "selected", Sub(p, "left"), out)
      right == Build(From(selected, b.e), m, x.y, Sub(p, "y"), out, None)
      ends == Ends(x.o, selected.e, right.e)
  IN  Build(Branch(right, p, "test", Mode(x.o), Sub(p, "left"), ends.yes, ends.no), m, x.x, Sub(p, "x"), Sub(p, "left"), None)

ReferenceLate(b, m, x, p, out) ==                               \* mutant: the target is formed after the value
  LET t == Transparent(x.x)
  IN  Build(Reference(Op(b, p, "set", "set", RefSlots(t, Sub(p, "x")) \o <<Sub(p, "right")>>, out), m, t, Sub(p, "x"), None),
            m, x.y, Sub(p, "y"), Sub(p, "right"), None)

(* The target of an assignment is formed before the value is evaluated.    *)
Assignment(b, m, x, p, out) ==
  LET t == Transparent(x.x)
  IN  Reference(Build(Op(b, p, "set", "set", RefSlots(t, Sub(p, "x")) \o <<Sub(p, "right")>>, out),
                      m, x.y, Sub(p, "y"), Sub(p, "right"), None), m, t, Sub(p, "x"), None)

CompoundAssignment(b, m, x, p, out) ==
  LET t == Transparent(x.x)
      ref == RefSlots(t, Sub(p, "x"))
      store == Op(b, p, "set", "set", ref \o <<Sub(p, "combined")>>, out)
      combine == Build(Op(store, p, "combine", "combine", <<Sub(p, "old"), Sub(p, "right")>>, Sub(p, "combined")),
                       m, x.y, Sub(p, "y"), Sub(p, "right"), None)
      assigned == Build(store, m, x.y, Sub(p, "y"), Sub(p, "combined"), None)
      selected == Copy(From(assigned, b.e), p, "selected", Sub(p, "old"), out)
      ends == Ends(x.o, selected.e, assigned.e)
      right == IF x.k = "compound" THEN combine
               ELSE Branch(selected, p, "test", Mode(x.o), Sub(p, "old"), ends.yes, ends.no)
  IN  Reference(Op(right, p, "get", "get", ref, Sub(p, "old")), m, t, Sub(p, "x"), None)

Suspension(b, m, x, p, out) ==
  LET twice == m.asyncGenerator /\ x.k = "yield"
      source == IF x.x = Void_ THEN <<>> ELSE <<Sub(p, "operand")>>
      suspend == Op(b, p, "suspend", x.k, IF twice THEN <<Sub(p, "awaited")>> ELSE source, out)
      entry == IF twice THEN Op(suspend, p, "await", "await", source, Sub(p, "awaited")) ELSE suspend
  IN  IF x.x = Void_ THEN entry ELSE Build(entry, m, x.x, Sub(p, "x"), Sub(p, "operand"), None)

DeleteReference(b, m, x, p, out) ==
  LET t == Transparent(x.x)
      skipped == Op(b, p, "skip", "true", <<>>, out)
  IN  IF t.k \notin {"id", "prop", "elem"} THEN Build(skipped, m, x.x, Sub(p, "x"), Sub(p, "ignored"), None)
      ELSE Reference(Op(From(skipped, b.e), p, "delete", "delete", RefSlots(t, Sub(p, "x")), out), m, t, Sub(p, "x"), skipped.e)

RECURSIVE Spans(_, _, _, _, _, _)
Spans(b, m, as, p, out, i) ==
  IF i = 0 THEN b
  ELSE LET q == Sub(p, N(i))
       IN  Spans(Build(Op(b, q, "append", "template-append", <<out, Sub(q, "item")>>, out), m, as[i].x, Sub(q, "x"), Sub(q, "item"), None),
                 m, as, p, out, i - 1)

ExitThroughParens(x, b, p, out, exit) ==                        \* mutant: parentheses do not end the chain
  IF exit # None THEN From(b, exit) ELSE Op(b, p, "exit", "undefined", <<>>, out)

(* Where the chain of x goes when it is cut short.                         *)
OptionalExit(x, b, p, out, exit) ==
  IF x.k # "paren" /\ exit # None THEN From(b, exit) ELSE Op(b, p, "exit", "undefined", <<>>, out)

(* build: the state that evaluates x into slot out and goes on to b.e.     *)
Build(b, m, x, p, out, exit) ==
  LET t == Transparent(x)
      optional == OptionalExit(x, b, p, out, exit)
      chain == IF Chain(t) THEN optional.e ELSE None
      in == IF Chain(t) THEN From(optional, b.e) ELSE b
      y == Sub(p, "y")
  IN  CASE ~Decomposed(x) -> Op(b, p, "evaluate", "evaluate", <<>>, out)
        [] t.k = "class" -> ClassDefinition(b, m, t, p, out)
        [] t.k \in {"await", "yield", "delegate"} -> Suspension(b, m, t, p, out)
        [] t.k = "cond" ->
             LET no == Build(b, m, t.z, Sub(p, "z"), out, None)
                 yes == Build(From(no, b.e), m, t.y, y, out, None)
             IN  Build(Branch(yes, p, "test", "truthy", Sub(p, "condition"), yes.e, no.e), m, t.x, Sub(p, "x"), Sub(p, "condition"), None)
        [] t.k = "comma" -> Build(Build(b, m, t.y, y, out, None), m, t.x, Sub(p, "x"), Sub(p, "ignored"), None)
        [] t.k = "logic" -> Logical(b, m, t, p, out)
        [] t.k = "pattern" -> Build(Op(b, p, "binding", "binding", <<Sub(p, "right")>>, out), m, t.y, y, Sub(p, "right"), None)
        [] t.k = "assign" -> Assignment(b, m, t, p, out)
        [] t.k \in {"compound", "logicassign"} -> CompoundAssignment(b, m, t, p, out)
        [] t.k \in {"call", "new", "tagged"} -> CallApplication(in, m, t, p, out, chain)
        [] t.k = "array" -> Op(Arguments(b, m, t.as, p, out, Len(t.as)), p, "array", "array", <<>>, out)
        [] t.k = "object" -> Op(Members(b, m, t.ms, p, out, Len(t.ms)), p, "object", "object", <<>>, out)
        [] t.k \in {"prop", "elem"} -> Reference(Op(in, p, "get", "get", RefSlots(t, p), out), m, t, p, chain)
        [] t.k = "delete" -> DeleteReference(b, m, t, p, out)
        [] t.k = "update" ->
             Reference(Op(b, p, "update", "update", RefSlots(Transparent(t.x), Sub(p, "x")), out), m, Transparent(t.x), Sub(p, "x"), None)
        [] t.k = "template" -> Op(Spans(b, m, t.as, p, out, Len(t.as)), p, "head", "name", <<>>, out)
        [] OTHER ->
             LET right == IF t.k = "binary" THEN <<Sub(p, "right")>> ELSE <<>>
                 evaluate == Op(b, p, "evaluate", "evaluate", <<Sub(p, "left")>> \o right, out)
             IN  Build(IF t.k = "binary" THEN Build(evaluate, m, t.y, y, Sub(p, "right"), None) ELSE evaluate,
                       m, t.x, Sub(p, "x"), Sub(p, "left"), None)

Result == <<"result">>
Done == <<"complete">>

Plan(m) == Build([e |-> Done, g |-> <<>>], m, m.x, <<"r">>, Result, None)

(* ------------------------------- values -------------------------------- *)

(* A value is named by the operation that makes it.                        *)
Made(op, p) == <<op>> \o p
Stale == <<"stale">>
Undefined == <<"undefined">>
True == <<"true">>
IsKey(v) == v[1] = "key"
Key(v) == IF IsKey(v) THEN v ELSE <<"key">> \o v         \* ToPropertyKey

Entry(op, p, vs) == [op |-> op, p |-> p, vs |-> vs]

(* A test of v at state id: open unless the value is known.                *)
Holds(o, id, mode, v) ==
  CASE v = Undefined -> mode = "nullish"
    [] v = True      -> mode = "truthy"
    [] OTHER         -> o[id]

(* ------------------------------ reference ------------------------------ *)

(* Each evaluation yields its log t, its value v, and whether it is the    *)
(* rest of an optional chain that was cut short.                           *)
Gives(t, v) == [t |-> t, v |-> v, cut |-> FALSE]
Cut(t) == [t |-> t, v |-> Undefined, cut |-> TRUE]
Then(t, r) == [r EXCEPT !.t = t \o @]

(* A Reference: the values that name it, and what obtaining it logs.       *)
RECURSIVE RefTo(_, _, _, _), EvalCall(_, _, _, _), EvalAssign(_, _, _, _), EvalSuspension(_, _, _, _),
          Eval(_, _, _, _), EvalChain(_, _, _, _), EvalList(_, _, _, _, _, _, _), EvalMembers(_, _, _, _, _, _),
          EvalStages(_, _, _, _, _, _), EvalSpans(_, _, _, _, _, _)

RefTo(o, m, x, p) ==
  LET base == EvalChain(o, m, x.x, Sub(p, "x"))
      key == IF x.k = "prop" THEN Gives(<<>>, Key(Made("name", p))) ELSE Eval(o, m, x.y, Sub(p, "y"))
      super == Made("super-this", p)
  IN  CASE x.k = "id" -> [t |-> <<Entry("binding-reference", p, <<>>)>>, vs |-> <<Made("binding-reference", p)>>, cut |-> FALSE]
        [] x.x = Super ->
             [t |-> <<Entry("super-this", p, <<>>)>> \o key.t \o <<Entry("super-base", p, <<>>)>>,
              vs |-> <<Made("super-base", p), key.v, super>>, cut |-> FALSE]
        [] base.cut \/ (x.opt /\ Holds(o, Sub(p, "guard"), "nullish", base.v)) -> [t |-> base.t, vs |-> <<>>, cut |-> TRUE]
        [] OTHER -> [t |-> base.t \o key.t, vs |-> <<base.v, key.v>>, cut |-> FALSE]

(* An access converts a key that is not a property key yet.                *)
Access(op, p, vs, more) ==
  IF Len(vs) > 1 /\ ~IsKey(vs[2])
  THEN <<Entry("to-key", p, <<vs[2]>>), Entry(op, p, [vs EXCEPT ![2] = Key(@)] \o more)>>
  ELSE <<Entry(op, p, vs \o more)>>
Normal(vs) == IF Len(vs) > 1 THEN [vs EXCEPT ![2] = Key(@)] ELSE vs

EvalCall(o, m, x, p) ==
  LET t == Transparent(x.x)
      q == Sub(p, "x")
      property == t.k \in {"prop", "elem"}
      ref == RefTo(o, m, t, q)
      plain == EvalChain(o, m, x.x, q)
      head == CASE t = Super  -> [t |-> <<Entry("super-constructor", p, <<>>)>>, f |-> Made("super-constructor", p), this |-> <<>>, cut |-> FALSE]
                [] t = Import -> [t |-> <<>>, f |-> Undefined, this |-> <<>>, cut |-> FALSE]
                [] t.k = "id" -> [t |-> ref.t \o Access("get", p, ref.vs, <<>>) \o <<Entry("binding-receiver", p, ref.vs)>>,
                                  f |-> Made("get", p), this |-> <<Made("binding-receiver", p)>>, cut |-> FALSE]
                [] property /\ ref.cut /\ x.x.k # "paren" -> [t |-> ref.t, f |-> Undefined, this |-> <<>>, cut |-> TRUE]
                [] property /\ ref.cut -> [t |-> ref.t, f |-> Undefined, this |-> <<>>, cut |-> FALSE]
                [] property   -> [t |-> ref.t \o Access("get", p, ref.vs, <<>>), f |-> Made("get", p),
                                  this |-> <<ref.vs[IF t.x = Super THEN 3 ELSE 1]>>, cut |-> FALSE]
                [] OTHER      -> [t |-> plain.t, f |-> plain.v, this |-> <<>>, cut |-> plain.cut]
      list == Made("arguments", p)
      template == IF x.k = "tagged" THEN <<Entry("template-object", p, <<>>), Entry("append", p, <<list, Made("template-object", p)>>)>>
                  ELSE <<>>
      args == <<Entry("arguments", p, <<>>)>> \o template \o EvalList(o, m, x.as, p, list, 1, <<>>)
  IN  IF head.cut \/ (x.opt /\ Holds(o, Sub(p, "callable"), "nullish", head.f)) THEN Cut(head.t)
      ELSE Gives(head.t \o args \o <<Entry(x.k, p, <<head.f, list>> \o head.this)>>, Made(x.k, p))

EvalList(o, m, as, p, list, i, t) ==
  IF i > Len(as) THEN t
  ELSE LET q == Sub(p, N(i))
           item == Eval(o, m, as[i].x, Sub(q, "x"))
           op == IF as[i].s THEN "spread" ELSE "append"
       IN  EvalList(o, m, as, p, list, i + 1,
                    t \o (IF as[i].x = Void_ THEN <<Entry(op, q, <<list>>)>> ELSE item.t \o <<Entry(op, q, <<list, item.v>>)>>))

EvalMembers(o, m, ms, p, i, t) ==
  IF i > Len(ms) THEN t
  ELSE LET q == Sub(p, N(i))
           e == ms[i]
           named == e.m \in {"value", "method"}
           key == Eval(o, m, e.key, Sub(q, "key"))
           converted == IF named /\ e.key # Void_ THEN key.t \o <<Entry("property-key", q, <<key.v>>)>> ELSE <<>>
           name == IF ~named THEN <<>> ELSE IF e.key = Void_ THEN <<Key(Made("name", q))>> ELSE <<Key(key.v)>>
           item == Eval(o, m, e.x, Sub(q, "x"))
           value == IF e.m = "method" THEN Gives(<<>>, Undefined) ELSE item
       IN  EvalMembers(o, m, ms, p, i + 1,
                       t \o converted \o value.t
                       \o <<Entry(e.m, q, <<Made("object", p)>> \o name \o (IF e.m = "method" THEN <<>> ELSE <<value.v>>))>>)

EvalStages(o, m, ks, p, i, t) ==
  IF i > Len(ks) THEN t
  ELSE LET q == Sub(p, N(i))
           key == Eval(o, m, ks[i], Sub(q, "x"))
           owner == Made("class-start", p)
       IN  EvalStages(o, m, ks, p, i + 1,
                      t \o (IF ks[i] = Void_ THEN <<Entry("class-element", q, <<owner>>)>>
                            ELSE key.t \o <<Entry("property-key", q, <<key.v>>), Entry("class-element", q, <<owner, Key(key.v)>>)>>))

EvalSpans(o, m, as, p, i, r) ==
  IF i > Len(as) THEN r
  ELSE LET q == Sub(p, N(i))
           item == Eval(o, m, as[i].x, Sub(q, "x"))
       IN  EvalSpans(o, m, as, p, i + 1, Gives(r.t \o item.t \o <<Entry("template-append", q, <<r.v, item.v>>)>>, Made("template-append", q)))

(* A link of a chain: parentheses stop a cut, anything else passes it on.  *)
EvalChain(o, m, x, p) == IF Chain(x) THEN
    IF x.k = "call" THEN EvalCall(o, m, x, p)
    ELSE LET ref == RefTo(o, m, x, p)
         IN  IF ref.cut THEN Cut(ref.t) ELSE Gives(ref.t \o Access("get", p, ref.vs, <<>>), Made("get", p))
  ELSE Eval(o, m, x, p)

EvalAssign(o, m, x, p) ==
  LET t == Transparent(x.x)
      ref == RefTo(o, m, t, Sub(p, "x"))
      right == Eval(o, m, x.y, Sub(p, "y"))
      old == Made("get", p)
      got == ref.t \o Access("get", p, ref.vs, <<>>)
      combined == Made("combine", p)
      keeps == Holds(o, Sub(p, "test"), Mode(x.o), old) = (x.o = "or")
  IN  CASE x.k = "assign" -> Gives(ref.t \o right.t \o Access("set", p, ref.vs, <<right.v>>), right.v)
        [] x.k = "compound" ->
             Gives(got \o right.t \o <<Entry("combine", p, <<old, right.v>>), Entry("set", p, Normal(ref.vs) \o <<combined>>)>>, combined)
        [] x.k = "logicassign" /\ keeps -> Gives(got, old)
        [] OTHER -> Gives(got \o right.t \o <<Entry("set", p, Normal(ref.vs) \o <<right.v>>)>>, right.v)

EvalSuspension(o, m, x, p) ==
  LET operand == IF x.x = Void_ THEN [t |-> <<>>, vs |-> <<>>]
                 ELSE LET r == Eval(o, m, x.x, Sub(p, "x")) IN [t |-> r.t, vs |-> <<r.v>>]
      twice == m.asyncGenerator /\ x.k = "yield"
  IN  Gives(operand.t \o (IF twice THEN <<Entry("await", p, operand.vs), Entry("yield", p, <<Made("await", p)>>)>>
                          ELSE <<Entry(x.k, p, operand.vs)>>), Made(x.k, p))

(* The direct reading of x: operands left to right, each once, a branch    *)
(* only when it is chosen.  What is not decomposed is one evaluation.      *)
Eval(o, m, x, p) ==
  LET t == Transparent(x)
      a == Eval(o, m, t.x, Sub(p, "x"))
      b == Eval(o, m, t.y, Sub(p, "y"))
      ref == RefTo(o, m, Transparent(t.x), Sub(p, "x"))
      owner == Made("class-start", p)
      super == Eval(o, m, t.h, Sub(p, "x"))
  IN  CASE ~Decomposed(x) -> Gives(<<Entry("evaluate", p, <<>>)>>, Made("evaluate", p))
        [] t.k \in {"await", "yield", "delegate"} -> EvalSuspension(o, m, t, p)
        [] t.k = "cond" -> IF Holds(o, Sub(p, "test"), "truthy", a.v) THEN Then(a.t, b) ELSE Then(a.t, Eval(o, m, t.z, Sub(p, "z")))
        [] t.k = "comma" -> Then(a.t, b)
        [] t.k = "logic" -> IF Holds(o, Sub(p, "test"), Mode(t.o), a.v) = (t.o = "or") THEN a ELSE Then(a.t, b)
        [] t.k = "pattern" -> Gives(b.t \o <<Entry("binding", p, <<b.v>>)>>, b.v)
        [] t.k \in {"assign", "compound", "logicassign"} -> EvalAssign(o, m, t, p)
        [] t.k = "call" /\ Chain(t) -> [EvalCall(o, m, t, p) EXCEPT !.cut = FALSE]
        [] t.k \in {"call", "new", "tagged"} -> EvalCall(o, m, t, p)
        [] t.k = "array" -> Gives(<<Entry("array", p, <<>>)>> \o EvalList(o, m, t.as, p, Made("array", p), 1, <<>>), Made("array", p))
        [] t.k = "object" -> Gives(EvalMembers(o, m, t.ms, p, 1, <<Entry("object", p, <<>>)>>), Made("object", p))
        [] t.k = "class" ->
             Gives(EvalStages(o, m, t.ms, p, 1, <<Entry("class-start", p, <<>>)>>
                              \o (IF t.h = Void_ THEN <<>> ELSE super.t \o <<Entry("class-heritage", p, <<owner, super.v>>)>>))
                   \o <<Entry("class-complete", p, <<owner>>)>>, owner)
        [] t.k \in {"prop", "elem"} ->
             LET r == RefTo(o, m, t, p)
             IN  IF r.cut THEN Gives(r.t, Undefined) ELSE Gives(r.t \o Access("get", p, r.vs, <<>>), Made("get", p))
        [] t.k = "delete" ->
             CASE Transparent(t.x).k \notin {"id", "prop", "elem"} -> Gives(a.t, True)
               [] ref.cut -> Gives(ref.t, True)
               [] OTHER -> Gives(ref.t \o Access("delete", p, ref.vs, <<>>), Made("delete", p))
        [] t.k = "update" -> Gives(ref.t \o Access("update", p, ref.vs, <<>>), Made("update", p))
        [] t.k = "template" -> EvalSpans(o, m, t.as, p, 1, Gives(<<>>, Key(Made("name", p))))
        [] t.k = "binary" -> Gives(a.t \o b.t \o <<Entry("evaluate", p, <<a.v, b.v>>)>>, Made("evaluate", p))
        [] OTHER -> Gives(a.t \o <<Entry("evaluate", p, <<a.v>>)>>, Made("evaluate", p))

(* ------------------------------- machine ------------------------------- *)

here == graph.g[pc]
Read(s) == IF s \in DOMAIN slots THEN slots[s] ELSE Stale

(* The call of undefined throws before it looks at its receiver, which is  *)
(* not obtained when a chain in parentheses is cut short.                  *)
Used(vs) == IF here.op \in {"call", "new", "tagged"} /\ vs[1] = Undefined THEN SubSeq(vs, 1, 2) ELSE vs
Operands == Used([i \in DOMAIN here.in |-> Read(here.in[i])])
Write(f, s, v) == IF s = None THEN f ELSE (s :> v) @@ f

Tests(g) == {id \in DOMAIN g : g[id].op \in {"nullish", "truthy"}}

Init ==
  /\ prog \in 1 .. Len(Expressions)
  /\ graph = Plan(Expressions[prog])
  /\ oracle \in [Tests(graph.g) -> BOOLEAN]
  /\ expected = Eval(oracle, Expressions[prog], Expressions[prog].x, <<"r">>)
  /\ pc = graph.e /\ slots = <<>> /\ log = <<>>

(* The test of a branch reads one slot.                                    *)
Decide ==
  /\ pc # Done /\ here.op \in {"nullish", "truthy"}
  /\ pc' = IF Holds(oracle, pc, here.op, Operands[1]) THEN here.next ELSE here.no
  /\ UNCHANGED <<prog, graph, oracle, expected, slots, log>>

(* Operations that only move values: copies, constants, literal names.     *)
Move ==
  /\ pc # Done /\ here.op \in {"copy", "undefined", "true", "name"}
  /\ slots' = Write(slots, here.out, CASE here.op = "copy" -> Operands[1]
                                       [] here.op = "undefined" -> Undefined
                                       [] here.op = "true" -> True
                                       [] here.op = "name" -> Key(Made("name", here.p)))
  /\ pc' = here.next
  /\ UNCHANGED <<prog, graph, oracle, expected, log>>

(* Get, set, delete and update through a Reference; the converted key is   *)
(* kept in its slot for the next access.                                   *)
AccessReference ==
  /\ pc # Done /\ here.op \in {"get", "set", "delete", "update"}
  /\ LET n == Len(here.in) - (IF here.op = "set" THEN 1 ELSE 0)
         vs == SubSeq(Operands, 1, n)
         kept == IF n > 1 THEN Write(slots, here.in[2], Key(vs[2])) ELSE slots
     IN  /\ log' = log \o Access(here.op, here.p, vs, SubSeq(Operands, n + 1, Len(Operands)))
         /\ slots' = Write(kept, here.out, IF here.op = "set" THEN Operands[n + 1] ELSE Made(here.op, here.p))
  /\ pc' = here.next
  /\ UNCHANGED <<prog, graph, oracle, expected>>

(* Every other operation reads its slots, acts, and stores its result.     *)
Operate ==
  /\ pc # Done
  /\ here.op \notin {"nullish", "truthy", "copy", "undefined", "true", "name", "get", "set", "delete", "update",
                     "await", "yield", "delegate"}
  /\ log' = Append(log, Entry(here.op, here.p, Operands))
  /\ slots' = Write(slots, here.out, CASE here.op = "property-key" -> Key(Operands[1])
                                       [] here.op = "binding" -> Operands[1]
                                       [] OTHER -> Made(here.op, here.p))
  /\ pc' = here.next
  /\ UNCHANGED <<prog, graph, oracle, expected>>

(* The suspension, and the value it resumes with.                          *)
Suspend ==
  /\ pc # Done /\ here.op \in {"await", "yield", "delegate"}
  /\ log' = Append(log, Entry(here.op, here.p, Operands))
  /\ slots' = Write(slots, here.out, Made(here.op, here.p))
  /\ pc' = here.next
  /\ UNCHANGED <<prog, graph, oracle, expected>>

Complete == pc = Done /\ UNCHANGED vars

Next == Decide \/ Move \/ AccessReference \/ Operate \/ Suspend \/ Complete

Spec == Init /\ [][Next]_vars

(* ------------------------------ properties ----------------------------- *)

(* Whatever suspends or short-circuits inside it, the lowered expression   *)
(* does what the source says: the same operations, in source order, each   *)
(* once, each on the values its own operands produced, and nothing after   *)
(* the point where a chain or an operator cuts the rest short.             *)
InSourceOrder ==
  /\ Len(log) <= Len(expected.t)
  /\ log = SubSeq(expected.t, 1, Len(log))

(* It never stops early, and its value is the value of the source.         *)
CompletesWithItsValue ==
  pc = Done => log = expected.t /\ Read(Result) = expected.v

(* No operation reads a slot that this evaluation has not written: what is *)
(* left there by an earlier iteration of a loop around it is never used.   *)
NoStaleValue ==
  pc # Done => \A i \in DOMAIN Operands : Operands[i] # Stale

================================================================================
