-------------------------- MODULE MC_ResumeDispatch --------------------------
(***************************************************************************)
(* Bodies for ResumeDispatch: every statement form nested in every other,  *)
(* around every way to leave it, inside a labelled loop.                   *)
(***************************************************************************)
EXTENDS ResumeDispatch

Do(s) == Block(<<Expr(s)>>, FALSE)
One(x) == Block(<<x>>, FALSE)
Of(decl, bind) == [decl |-> decl, bind |-> bind]

(* Ways to leave a statement; s is the suspension of the kind of body.     *)
Leaves(s) == <<Expr("no"), Expr(s), Return("no"), Return(s), Throw("no"), Throw(s),
               Break("l"), Continue("l"), Continue("")>>
Exits == <<Expr("no"), Return("no"), Throw("no"), Break("l"), Continue("l")>>

(* Statement forms around x.                                               *)
Contexts(s, x) ==
  <<Try(One(x), Absent, Do("no")), Try(One(x), Absent, Do(s)),
    Try(One(x), Catch(Id, Do("no")), Absent), Try(One(x), Catch(Absent, Do(s)), Do("no")),
    Try(Do("no"), Catch(Id, One(x)), Do("no")), Try(Do("no"), Absent, One(x)),
    Loop("while", "no", One(x)), Loop("do", s, One(x)), For("let", "no", One(x)), For("using", s, x),
    ForOf(FALSE, "no", Of("let", Id), Block(<<x, Expr(s)>>, FALSE)), ForOf(FALSE, s, Of("using", Id), x),
    Switch("no", <<Case("no", <<x>>), Default(<<Expr("no")>>)>>, TRUE),
    Switch("no", <<Default(<<x>>), Case(s, <<Break("")>>), Case("no", <<>>)>>, FALSE),
    Block(<<x>>, TRUE), With("no", x), Block(<<Using(FALSE, "no"), Using(FALSE, s), x>>, TRUE),
    If(s, x, Absent), Label("k", One(x))>>

(* The forms that own a finalizer or an iterator, to be nested once more.  *)
Owners(s, x) ==
  <<Try(One(x), Absent, Do(s)), ForOf(FALSE, "no", Of("assign", Prop), Block(<<x, Expr(s)>>, FALSE)),
    Try(Do("no"), Catch(Id, One(x)), Do("no")), With(s, x), Label("l", Loop("while", "no", One(x)))>>

(* The forms of an async body, and a loop that is one evaluation.          *)
AsyncContexts(x) ==
  <<ForOf(TRUE, "no", Of("let", Id), x), ForOf(TRUE, "await", Of("var", Id), x),
    Block(<<Using(TRUE, "no"), Expr("no"), Using(FALSE, "await"), x>>, FALSE),
    ForOf(TRUE, "no", Of("using", Id), x),
    Block(<<ForOf(FALSE, "no", Of("let", Id), One(Break(""))), Expr("await"), x, Export("await"), Export("no")>>, FALSE)>>

(* Destructuring patterns whose defaults suspend.                          *)
Patterns(s) ==
  <<Array(<<Elem(Id, s), Elem(Id, "none"), Rest(Id)>>),
    Array(<<Elem(Array(<<Elem(Id, "no"), Elem(Id, s)>>), "no"), Elem(Id, "none")>>),
    Object(<<Keyed(Id, s), Elem(Id, "no"), Rest(Id)>>),
    Object(<<Keyed(Id, "none"), Elem(Object(<<Elem(Id, s)>>), "none")>>)>>
Targets_(s) ==
  <<Array(<<Elem(Prop, s), Elem(Prop, "none"), Rest(Prop)>>), Object(<<Keyed(Prop, s), Rest(Prop)>>), Prop, Id>>
Binders(s, b) ==
  <<Declare(b, "no"), Declare(b, s), Try(Do("no"), Catch(b, Do("no")), Absent),
    ForOf(FALSE, "no", Of("let", b), Do(s))>>
Plain == Array(<<Elem(Id, "no")>>)      \* bound in one evaluation

Cross(A(_), bs) ==        \* A around every element of bs
  LET n == Len(A(bs[1]))
  IN  [i \in 1 .. n * Len(bs) |-> A(bs[((i - 1) \div n) + 1])[((i - 1) % n) + 1]]

Nest(s, xs) == Cross(LAMBDA x : Contexts(s, x), xs)
NestOwners(s, xs) == Cross(LAMBDA x : Owners(s, x), xs)
Bound(s) == Cross(LAMBDA b : Binders(s, b), Append(Patterns(s), Plain))
            \o [i \in 1 .. 4 |-> ForOf(FALSE, "no", Of("assign", Targets_(s)[i]), Do(s))]

Body(x) == Block(<<Label("l", Loop("while", "no", One(x))), Expr("no")>>, FALSE)
Of_(kind, retained, xs) ==
  [i \in 1 .. Len(xs) |-> [kind |-> kind, retained |-> retained, body |-> Body(xs[i])]]

MCPrograms ==
  Of_("async", TRUE, Nest("await", Nest("await", Leaves("await"))))
  \o Of_("generator", FALSE, Nest("yield", Nest("yield", Exits)))
  \o Of_("async-generator", TRUE, Nest("yield", Leaves("yield")))
  \o Of_("async", TRUE, NestOwners("await", NestOwners("await", NestOwners("await", Exits))))
  \o Of_("async", TRUE, Cross(AsyncContexts, Cross(AsyncContexts, Exits)))
  \o Of_("async", FALSE, Cross(AsyncContexts, Nest("await", Exits)))
  \o Of_("generator", TRUE, NestOwners("delegate", Leaves("delegate")))
  \o Of_("generator", TRUE, NestOwners("yield", Bound("yield")))
  \o Of_("async-generator", FALSE, NestOwners("await", Bound("await")))
================================================================================
