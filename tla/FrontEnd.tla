-------------------------------- MODULE FrontEnd --------------------------------
(***************************************************************************)
(* The questions the code generator asks of an expression before it emits  *)
(* code for it, each answered by the analysis of emit/index.ts and judged  *)
(* against what evaluating the expression does.  The answers decide which  *)
(* branch is emitted at all, which initializer is dropped and whether a    *)
(* promise callback can be forgotten, so a wrong one changes the program.  *)
(***************************************************************************)
EXTENDS JsSyntax

CONSTANTS Families,            \* the expressions asked about, in sets
          Worlds,              \* what a variable of unknown value may hold
          Evaluate(_, _),      \* Eval of JsReference
          Truth(_), Number(_), BigIntOf(_), Text(_), TypeofOf(_), Key(_), NullishOf(_), LengthOf(_), SizeOf(_), StateOf(_),
          Reading(_), Prunable(_), PrimitiveResult(_)       \* the analyses

JS == INSTANCE JsReference

VARIABLES expr,                \* the expression
          asked,               \* the question that was answered, "" before one is
          answer
vars == <<expr, asked, answer>>

Init == (\E F \in Families : expr \in F) /\ asked = "" /\ answer = No

Answer(question, a) == asked = "" /\ asked' = question /\ answer' = a /\ UNCHANGED expr

AskTruth(x) == Answer("truth", Truth(x))
AskNumber(x) == Answer("number", Number(x))
AskBigInt(x) == Answer("bigint", BigIntOf(x))
AskText(x) == Answer("text", Text(x))
AskTypeof(x) == Answer("typeof", TypeofOf(x))
AskKey(x) == Answer("key", Key(x))
AskNullish(x) == Answer("nullish", Str(NullishOf(x)))
AskLength(x) == Answer("length", LengthOf(x))
AskSize(x) == Answer("size", SizeOf(x))
AskState(x) == Answer("state", Str(StateOf(x)))
AskRead(x) == x.k \in {"get", "at"} /\ Answer("read", Str(Reading(x)))
AskPure(x) == Answer("pure", Bool(Prunable(x)))
AskPrimitive(x) == Answer("primitive", Bool(PrimitiveResult(x)))
Forget == asked # "" /\ asked' = "" /\ answer' = No /\ UNCHANGED expr

Spec ==
  /\ Init
  /\ [][\/ AskTruth(expr) \/ AskNumber(expr) \/ AskBigInt(expr) \/ AskText(expr) \/ AskTypeof(expr) \/ AskKey(expr)
        \/ AskNullish(expr) \/ AskLength(expr) \/ AskSize(expr) \/ AskState(expr) \/ AskRead(expr) \/ AskPure(expr)
        \/ AskPrimitive(expr) \/ Forget]_vars

(* ------------------------------ properties ------------------------------ *)

Runs == {Evaluate(expr, w) : w \in Worlds}

(* What the answer says of a value.                                        *)
Says(v) ==
  CASE asked = "truth" -> JS!Truthy(v) = answer.b
    [] asked \in {"number", "bigint", "text"} -> v = answer
    [] asked = "key" -> v = answer \/ (v = NegZero /\ answer = Num(0))
    [] asked = "typeof" -> JS!TypeofText(v) = answer.s
    [] asked = "nullish" -> JS!Nullish(v) = (answer.s = "nullish")
    [] asked = "length" -> v.k = "array" /\ Len(v.vs) = answer.n
    [] asked = "size" -> v.k = "collection" /\ Cardinality(v.keys) = answer.n
    [] asked = "state" -> v.k = "promise" /\ v.state = answer.s
    [] asked = "read" -> IF answer.s = "absent" THEN v = Undef ELSE JS!IsPrimitive(v)
    [] asked = "primitive" -> JS!IsPrimitive(v)
    [] OTHER -> TRUE
Knows == /\ asked # "" /\ Known(answer)
         /\ answer \notin {Str("unknown"), Str("unsafe")} \/ asked \in {"text", "key"}
         /\ asked \in {"pure", "primitive"} => answer.b

(* A value the compiler claims to know (a truth value, a number, a text, a  *)
(* typeof, a nullish state, the length of an array, the size of a          *)
(* collection, the state of a promise, a property that is there or not) is *)
(* the one evaluation produces, whatever the unknown variables hold.       *)
StaticValueExact == Knows => \A r \in Runs : Says(r.v)

(* An expression whose value the compiler knows, or that it takes to be    *)
(* free of side effects, runs no user code and does not throw: replacing   *)
(* it by its value, or dropping it, loses nothing.                         *)
NothingIsLost == Knows => \A r \in Runs : ~r.act

===============================================================================
