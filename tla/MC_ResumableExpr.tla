--------------------------- MODULE MC_ResumableExpr ---------------------------
(***************************************************************************)
(* Expressions for ResumableExpr: every form around every form, with a     *)
(* suspension or a chain in every operand position.  A chain is no target  *)
(* of an assignment, a construction or a template: there it is put in       *)
(* parentheses.                                                            *)
(***************************************************************************)
EXTENDS ResumableExpr

A == Await(Id)

(* Forms with one operand that bears control, the others atomic.           *)
Around(x) ==
  <<Await(x), Paren(x), Cond(x, Id, Lit), Cond(Id, x, Id), Cond(Id, Id, x), Comma(x, Id), Comma(Id, x),
    Logic("and", x, Id), Logic("or", Id, x), Logic("nullish", x, Id), Logic("or", x, Id), Logic("nullish", Id, x),
    Assign(Id, x), Assign(Prop(Paren(x), FALSE), Id), Assign(Elem(Id, x, FALSE), Id), Assign(Elem(Id, Id, FALSE), x),
    Compound(Id, x), Compound(Elem(Paren(x), Id, FALSE), Id), Compound(Elem(Id, Id, FALSE), x),
    LogicAssign("and", Id, x), LogicAssign("or", Elem(Id, Id, FALSE), x), LogicAssign("nullish", Elem(Paren(x), Id, FALSE), Id),
    Prop(x, FALSE), Prop(x, TRUE), Elem(x, Id, TRUE), Elem(Id, x, TRUE), Elem(Paren(Prop(Id, TRUE)), x, FALSE),
    Prop(Paren(Prop(x, TRUE)), FALSE), Prop(Prop(x, TRUE), FALSE), Elem(Super, x, FALSE),
    Call(x, <<>>, FALSE), Call(x, <<Item(Id)>>, TRUE), Call(Id, <<Item(Id), Spread(x)>>, FALSE), Call(Id, <<Item(x)>>, TRUE),
    Call(Prop(x, FALSE), <<Item(Id)>>, FALSE), Call(Prop(x, TRUE), <<Item(Id)>>, TRUE), Call(Prop(Id, TRUE), <<Item(x)>>, FALSE),
    Call(Elem(Id, x, FALSE), <<Item(x)>>, TRUE), Call(Paren(Prop(x, FALSE)), <<Item(Id)>>, FALSE),
    Prop(Call(Prop(x, TRUE), <<Item(Id)>>, FALSE), FALSE), Call(Call(Prop(x, TRUE), <<>>, FALSE), <<Item(Id)>>, FALSE),
    Call(Super, <<Item(x)>>, FALSE), Call(Import, <<Item(x)>>, FALSE), Call(Prop(Super, FALSE), <<Item(x)>>, FALSE),
    New(Paren(x), <<Item(Id)>>), New(Id, <<Spread(Id), Item(x)>>), Tagged(Prop(Id, FALSE), <<Item(Id), Item(x)>>), Tagged(Paren(x), <<>>),
    Arr(<<Item(Id), Item(Void_), Spread(x), Item(Id)>>), Arr(<<Item(x), Item(Id)>>),
    Obj(<<Member("value", Id, x), Member("value", Void_, Id)>>), Obj(<<Member("value", x, Id), Member("method", x, Void_)>>),
    Obj(<<Member("spread-object", Void_, x), Member("proto", Void_, Id), Member("method", Void_, Void_)>>),
    Class(x, <<Id, Void_>>), Class(Void_, <<x, Id>>), Class(Id, <<x>>),
    Delete(Prop(x, FALSE)), Delete(Prop(x, TRUE)), Delete(Elem(Id, x, TRUE)), Delete(Paren(Prop(Prop(x, TRUE), FALSE))),
    Delete(x), Update(Elem(Paren(x), Id, FALSE)), Update(Elem(Id, x, FALSE)), Template(<<Item(Id), Item(x), Item(Id)>>),
    Binary(Id, x), Binary(x, Id), Unary(x), Typeof(x), Pattern(x)>>

(* Two operands that bear control.                                         *)
Pairs(x, y) ==
  <<Cond(x, y, A), Comma(x, y), Logic("nullish", x, y), Assign(Elem(Paren(x), y, FALSE), A), Compound(Elem(Paren(x), Id, FALSE), y),
    LogicAssign("or", Prop(Paren(x), FALSE), y), Call(x, <<Item(y)>>, TRUE), Call(Elem(x, y, TRUE), <<Item(A)>>, TRUE),
    Call(Paren(Elem(x, y, TRUE)), <<Item(A)>>, FALSE), Arr(<<Item(x), Spread(y)>>), Binary(x, y),
    Obj(<<Member("value", x, y), Member("value", y, x)>>), Template(<<Item(x), Item(y)>>), Class(x, <<y, x>>)>>

Cross(F(_), xs) ==
  LET n == Len(F(xs[1]))
  IN  [i \in 1 .. n * Len(xs) |-> F(xs[((i - 1) \div n) + 1])[((i - 1) % n) + 1]]

Seeds == <<A, Delegate(Id), Prop(Id, TRUE), Call(Prop(Id, FALSE), <<>>, TRUE), Yield(Id), Yield(Void_)>>
In(g, xs) == [i \in 1 .. Len(xs) |-> [x |-> xs[i], asyncGenerator |-> g]]

MCExprs ==
  In(FALSE, Seeds)
  \o In(FALSE, Cross(Around, Cross(Around, <<A>>)))
  \o In(FALSE, Cross(Around, <<Prop(Id, TRUE), Call(Prop(Id, FALSE), <<>>, TRUE)>>))
  \o In(TRUE, Cross(Around, <<Yield(Id), Yield(Void_)>>))
  \o In(FALSE, Cross(LAMBDA x : Pairs(x, x), Cross(Around, <<A>>)))
  \o In(FALSE, Cross(LAMBDA x : Pairs(x, A), Cross(LAMBDA x : Pairs(x, Prop(Id, TRUE)), Seeds)))

===============================================================================
