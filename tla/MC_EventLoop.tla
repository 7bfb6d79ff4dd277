---------------------------- MODULE MC_EventLoop ----------------------------
(* Small instances of EventLoop.                                           *)
EXTENDS EventLoop, TLC

\* Callbacks are interchangeable identities.
CbSymmetry == Permutations(Cb)
=============================================================================
