SPECIFICATION Spec
CONSTANT Exprs <- MCExprs
INVARIANT InSourceOrder CompletesWithItsValue NoStaleValue
