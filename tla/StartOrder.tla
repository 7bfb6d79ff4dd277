------------------------------ MODULE StartOrder ------------------------------
(***************************************************************************)
(* The order in which the modules of a program start: the end of           *)
(* buildModuleGraph of resolve.ts, a depth-first walk over the imports     *)
(* from each initialization entry, with explicit frames.                   *)
(***************************************************************************)
EXTENDS Naturals, Sequences, SequencesExt

VARIABLES imports,             \* the modules each module imports or requires, in its order
          entries,             \* the initialization entries
          stage,               \* order, done, or error after a duplicate entry
          roots,               \* the entries still to walk from
          frames,              \* per open module, the place of the import to look at next
          visited, active,     \* modules placed, and modules of the frames
          order                \* topoOrder
walk == <<roots, frames, visited, active, order>>
vars == <<imports, entries, stage, walk>>

Module == DOMAIN imports
Init ==
  /\ \A m \in Module : imports[m] \in Seq(Module)
  /\ entries \in Seq(Module) /\ stage = "order"
  /\ roots = entries /\ frames = <<>> /\ visited = {} /\ active = {} /\ order = <<>>

Frame(m) == [m |-> m, next |-> 1]
EnterRoot ==
  /\ stage = "order" /\ frames = <<>> /\ roots # <<>>
  /\ LET m == Head(roots)
         earlier == ToSet(SubSeq(entries, 1, Len(entries) - Len(roots)))
     IN  /\ stage' = IF m \in earlier THEN "error" ELSE stage
         /\ IF m \in visited \union earlier THEN UNCHANGED <<frames, active>> ELSE frames' = <<Frame(m)>> /\ active' = {m}
  /\ roots' = Tail(roots)
  /\ UNCHANGED <<imports, entries, visited, order>>
Top == frames[Len(frames)]
Below == SubSeq(frames, 1, Len(frames) - 1)
Walking == stage = "order" /\ frames # <<>>
Advance ==                     \* the next dependency of the topmost module
  /\ Walking /\ Top.next <= Len(imports[Top.m])
  /\ LET d == imports[Top.m][Top.next]
         stepped == Append(Below, [Top EXCEPT !.next = @ + 1])
     IN  IF d \in visited \union active THEN frames' = stepped /\ UNCHANGED active
         ELSE frames' = Append(stepped, Frame(d)) /\ active' = active \union {d}
  /\ UNCHANGED <<imports, entries, stage, roots, visited, order>>
Leave ==                       \* an open module is not placed yet: the code's second test of visited never holds
  /\ Walking /\ Top.next > Len(imports[Top.m])
  /\ frames' = Below /\ active' = active \ {Top.m}
  /\ visited' = visited \union {Top.m} /\ order' = Append(order, Top.m)
  /\ UNCHANGED <<imports, entries, stage, roots>>
Finish == stage = "order" /\ frames = <<>> /\ roots = <<>> /\ stage' = "done" /\ UNCHANGED <<imports, entries, walk>>
Next == EnterRoot \/ Advance \/ Leave \/ Finish
Spec == Init /\ [][Next]_vars

(* ------------------------------- properties ------------------------------ *)

(* All that the modules of S depend on: the least set closed under imports. *)
Closed(T) == \A m \in T : ToSet(imports[m]) \subseteq T
Upstream(S) == {m \in Module : \A T \in SUBSET Module : S \subseteq T /\ Closed(T) => m \in T}
Rank(m) == CHOOSE i \in DOMAIN order : order[i] = m
(* d is part of the program and starts before m, unless it depends on m.   *)
StartsBefore(d, m) == d \in ToSet(order) /\ (Rank(d) < Rank(m) \/ m \in Upstream({d}))

(* What a module imports or requires starts before it, unless the two      *)
(* depend on each other.                                                   *)
ImportsStartFirst == stage = "done" => \A m \in ToSet(order) : \A d \in ToSet(imports[m]) : StartsBefore(d, m)

(* The order holds the modules that the entries depend on, each once.      *)
StartsAreExact ==
  stage = "done" => /\ ToSet(order) = Upstream(ToSet(entries))
                    /\ \A i, j \in DOMAIN order : order[i] = order[j] => i = j
===============================================================================
