----------------------------- MODULE PromiseStates -----------------------------
(***************************************************************************)
(* What the code generator knows of the promises it can see being made:    *)
(* emit/index.ts decides whether Promise.resolve, reject and try, new      *)
(* Promise and chains of then, catch and finally leave a promise            *)
(* fulfilled, rejected or pending, and from that which callbacks will run  *)
(* and whether running them executes no user code.                         *)
(*                                                                         *)
(* A state is "fulfilled", "rejected", "pending" or, for null, "unknown".  *)
(***************************************************************************)
EXTENDS StaticCollections

RECURSIVE KnownState(_), NewPromiseState(_), TryState(_), ResolveState(_), RejectState(_), ChainState(_),
          ResolveArgumentState(_), HandlerState(_, _), ReturnValueState(_), ExecutorState(_), ExecutorExpressionState(_, _),
          TryReturnValue(_), CallbackPure(_, _), ExecutorPure(_), InState(_, _)

FirstState(ss) == LET S == {i \in DOMAIN ss : ss[i] # "unknown"} IN IF S = {} THEN "unknown" ELSE ss[Least(S, 0)]

PromiseCall(u, m) == OwnerCall(u, {"Promise"}, {m})
FirstPrimitive(as) == (as = <<>> \/ PrimitiveValue(Arg(as, 1))) /\ IgnoredPure(as, 1)
ValueParams(fn) == SelectSeq(fn.params, LAMBDA p : p # "this")
Takes(fn, max) == Len(ValueParams(fn)) <= max /\ \A i \in DOMAIN ValueParams(fn) : ValueParams(fn)[i] # Pattern

(* ---------------------- what a promise will become ---------------------- *)

(* sideEffectFreePromiseKnownState.                                        *)
KnownState(x) ==
  LET u == Unwrap(x)
      s == FirstState(<<NewPromiseState(u), TryState(u), ResolveState(u), RejectState(u), ChainState(u)>>)
  IN  IF s = "unknown" /\ Known(EarlierConst(u)) THEN KnownState(EarlierConst(u)) ELSE s

ResolveState(x) ==
  LET u == Unwrap(x)
  IN  IF PromiseCall(u, "resolve") /\ IgnoredPure(u.as, 1)
      THEN IF u.as = <<>> THEN "fulfilled" ELSE ResolveArgumentState(u.as[1])
      ELSE IF Known(EarlierConst(u)) THEN ResolveState(EarlierConst(u)) ELSE "unknown"

RejectState(x) ==
  LET u == Unwrap(x)
  IN  IF PromiseCall(u, "reject") /\ FirstPrimitive(u.as) THEN "rejected"
      ELSE IF Known(EarlierConst(u)) THEN RejectState(EarlierConst(u)) ELSE "unknown"

(* A promise passed to resolve is adopted; only a primitive is known to be  *)
(* no thenable.                                                            *)
ResolveArgumentState(x) ==
  LET u == Unwrap(x)
      s == FirstState(<<ResolveState(u), NewPromiseState(u), TryState(u), ChainState(u)>>)
  IN CASE PrimitiveValue(u) -> "fulfilled"
       [] s # "unknown" -> s
       [] PromiseCall(u, "reject") /\ FirstPrimitive(u.as) -> "rejected"
       [] Known(EarlierConst(u)) -> ResolveArgumentState(EarlierConst(u))
       [] OTHER -> "unknown"

TryState(x) ==
  LET u == Unwrap(x)
  IN CASE PromiseCall(u, "try") -> IF Len(u.as) = 1 THEN HandlerState(u.as[1], 0) ELSE "unknown"
       [] Known(EarlierConst(u)) -> TryState(EarlierConst(u))
       [] OTHER -> "unknown"

(* sideEffectFreePromiseHandlerCallbackOperandState, and with max = 0       *)
(* sideEffectFreePromiseTryCallbackOperandState: what a promise settled by  *)
(* the callback's completion becomes.                                      *)
HandlerState(x, max) ==
  LET u == Unwrap(x)
  IN CASE u.k = "fn" ->
           (CASE ~Takes(u, max) -> "unknown"
              [] u.body.how \in {"expr", "return"} -> ReturnValueState(u.body.x)
              [] u.body.how = "empty" -> "fulfilled"
              [] u.body.how = "stmt" -> IF IsPure(u.body.x) THEN "fulfilled" ELSE "unknown"
              [] u.body.how = "many" -> "unknown")
       [] Known(EarlierConst(u)) -> HandlerState(EarlierConst(u), max)
       [] OTHER -> "unknown"

ReturnValueState(x) ==         \* sideEffectFreePromiseTryReturnValueState
  LET u == Unwrap(x)
      resolved == ResolveState(u)
  IN CASE PrimitiveValue(u) -> "fulfilled"
       [] OwnerCall(u, {"Promise"}, {MethodName(u)}) /\ resolved # "unknown" -> resolved
       [] PromiseCall(u, "resolve") /\ FirstPrimitive(u.as) -> "fulfilled"
       [] PromiseCall(u, "reject") /\ FirstPrimitive(u.as) -> "rejected"
       [] ChainState(u) # "unknown" -> ChainState(u)
       [] Known(EarlierConst(u)) -> ReturnValueState(EarlierConst(u))
       [] OTHER -> "unknown"

NewPromiseState(x) ==
  LET u == Unwrap(x)
  IN CASE NewOf(u, {"Promise"}) -> IF Len(u.as) = 1 THEN ExecutorState(u.as[1]) ELSE "unknown"
       [] Known(EarlierConst(u)) -> NewPromiseState(EarlierConst(u))
       [] OTHER -> "unknown"

ExecutorState(x) ==
  LET u == Unwrap(x)
  IN CASE u.k = "fn" ->
           (CASE ~Takes(u, 2) -> "unknown"
              [] u.body.how \in {"expr", "stmt"} -> ExecutorExpressionState(u.body.x, ValueParams(u))
              [] u.body.how = "empty" -> "pending"
              [] u.body.how = "return" -> IF IsPure(u.body.x) THEN "pending" ELSE "unknown"
              [] u.body.how = "many" -> "unknown")
       [] Known(EarlierConst(u)) -> ExecutorState(EarlierConst(u))
       [] OTHER -> "unknown"

(* resolve(...) or reject(...) as the executor's only expression.          *)
Settles(u, params) ==          \* 1 for resolve, 2 for reject, 0 for neither
  IF u.k # "call" THEN 0
  ELSE IF u.f.k # "param" THEN 0 ELSE Least({i \in DOMAIN params : params[i] = u.f.name}, 0)
ExecutorExpressionState(x, params) ==
  LET u == Unwrap(x)
      by == Settles(u, params)
  IN CASE by = 0 -> IF IsPure(u) THEN "pending" ELSE "unknown"
       [] ~IgnoredPure(u.as, 1) -> "unknown"
       [] u.as = <<>> -> IF by = 2 THEN "rejected" ELSE "fulfilled"
       [] by = 1 -> ResolveArgumentState(u.as[1])
       [] OTHER -> IF PrimitiveValue(u.as[1]) \/ KnownState(u.as[1]) # "unknown" THEN "rejected" ELSE "unknown"

Omitted(as, i) == i > Len(as) \/ UndefinedValue(Arg(as, i))   \* isUndefinedOrOmittedPromiseHandler
Unevaluated(as, i) ==          \* isSideEffectFreeUnevaluatedPromiseCallback
  i > Len(as) \/ UndefinedExpression(Arg(as, i)) \/ IsPure(Arg(as, i))

ThenState(s, as) ==
  LET on == IF s = "fulfilled" THEN 1 ELSE 2       \* the handler that runs
      other == 3 - on
  IN CASE Len(as) > 2 -> "unknown"
       [] s = "pending" -> IF Unevaluated(as, 1) /\ Unevaluated(as, 2) THEN s ELSE "unknown"
       [] ~Unevaluated(as, other) -> "unknown"
       [] OTHER -> IF Omitted(as, on) THEN s ELSE HandlerState(as[on], 1)
CatchState(s, as) ==
  CASE Len(as) > 1 -> "unknown"
    [] s \in {"pending", "fulfilled"} -> IF Unevaluated(as, 1) THEN s ELSE "unknown"
    [] OTHER -> IF Omitted(as, 1) THEN s ELSE HandlerState(as[1], 1)
FinallyState(s, as) ==
  CASE Len(as) > 1 -> "unknown"
    [] s = "pending" -> IF Unevaluated(as, 1) THEN s ELSE "unknown"
    [] OTHER -> IF Omitted(as, 1) \/ HandlerState(Arg(as, 1), 0) = "fulfilled" THEN s ELSE "unknown"
ChainState(x) ==               \* sideEffectFreePromiseInstanceChainState
  LET u == Unwrap(x)
      m == MethodName(u)
      s == KnownState(u.f.x)
  IN CASE m # "" /\ s = "unknown" -> "unknown"
       [] m = "then" -> ThenState(s, u.as)
       [] m = "catch" -> CatchState(s, u.as)
       [] m = "finally" -> FinallyState(s, u.as)
       [] Known(EarlierConst(u)) -> ChainState(EarlierConst(u))
       [] OTHER -> "unknown"

(* ---------------------- callbacks that are no effect -------------------- *)

(* isSideEffectFreePromiseTryReturnValue.                                  *)
TryReturnValue(x) ==
  LET u == Unwrap(x)
  IN CASE PrimitiveValue(u) -> TRUE
       [] PromiseCall(u, "resolve") \/ PromiseCall(u, "reject") -> FirstPrimitive(u.as)
       [] OTHER -> Known(EarlierConst(u)) /\ TryReturnValue(EarlierConst(u))

(* isSideEffectFreePromiseCallbackOperand; with max = 0 the callback of    *)
(* Promise.try.                                                            *)
CallbackPure(x, max) ==
  LET u == Unwrap(x)
  IN CASE u.k = "fn" -> Takes(u, max) /\ CASE u.body.how \in {"expr", "return"} -> TryReturnValue(u.body.x)
                                           [] u.body.how = "stmt" -> IsPure(u.body.x)
                                           [] OTHER -> u.body.how = "empty"
       [] OTHER -> Known(EarlierConst(u)) /\ CallbackPure(EarlierConst(u), max)
TryCallbackPure(x) == CallbackPure(x, 0)
OptionalCallback(as, i, max) == i > Len(as) \/ UndefinedExpression(Arg(as, i)) \/ CallbackPure(Arg(as, i), max)

(* isSideEffectFreePromiseExecutorOperand.                                 *)
ExecutorExpressionPure(x, params) ==
  LET u == Unwrap(x)
      by == Settles(u, params)
  IN CASE by = 0 -> IsPure(u)
       [] ~IgnoredPure(u.as, 1) -> FALSE
       [] u.as = <<>> -> TRUE
       [] by = 1 -> ResolveArgumentState(u.as[1]) # "unknown"
       [] OTHER -> PrimitiveValue(u.as[1]) \/ KnownState(u.as[1]) # "unknown"
ExecutorPure(x) ==
  LET u == Unwrap(x)
  IN CASE u.k = "fn" -> Takes(u, 2) /\ CASE u.body.how \in {"expr", "stmt"} -> ExecutorExpressionPure(u.body.x, ValueParams(u))
                                         [] u.body.how = "return" -> IsPure(u.body.x)
                                         [] OTHER -> u.body.how = "empty"
       [] OTHER -> Known(EarlierConst(u)) /\ ExecutorPure(EarlierConst(u))

(* isSideEffectFreeFulfilledPromiseOperand and its siblings.               *)
InState(x, s) ==
  LET u == Unwrap(x)
  IN CASE s \in {NewPromiseState(u), TryState(u), ResolveState(u), ChainState(u)} -> TRUE
       [] s = "rejected" /\ PromiseCall(u, "reject") -> FirstPrimitive(u.as)
       [] OTHER -> Known(EarlierConst(u)) /\ InState(EarlierConst(u), s)
FulfilledPromise(x) == InState(x, "fulfilled")
RejectedPromise(x) == InState(x, "rejected")
PendingPromise(x) == InState(x, "pending")
SettledPromise(x) == FulfilledPromise(x) \/ RejectedPromise(x)

(* isSideEffectFreePromiseInstanceMethodCall: the callback that will run   *)
(* is one that may, the others are only evaluated.                         *)
PromiseMethodCall(recv, m, as) ==
  CASE m = "then" ->
         /\ Len(as) <= 2
         /\ CASE FulfilledPromise(recv) -> OptionalCallback(as, 1, 1) /\ Unevaluated(as, 2)
              [] RejectedPromise(recv) -> Unevaluated(as, 1) /\ OptionalCallback(as, 2, 1)
              [] PendingPromise(recv) -> Unevaluated(as, 1) /\ Unevaluated(as, 2)
              [] OTHER -> FALSE
    [] Len(as) > 1 -> FALSE
    [] m = "catch" -> IF PendingPromise(recv) \/ FulfilledPromise(recv) THEN Unevaluated(as, 1)
                      ELSE RejectedPromise(recv) /\ OptionalCallback(as, 1, 1)
    [] m = "finally" -> IF PendingPromise(recv) THEN Unevaluated(as, 1)
                        ELSE SettledPromise(recv) /\ OptionalCallback(as, 1, 0)
    [] OTHER -> FALSE

===============================================================================
