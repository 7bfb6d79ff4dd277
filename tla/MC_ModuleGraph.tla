--------------------------- MODULE MC_ModuleGraph ---------------------------
(* Small instances of ModuleGraph.                                         *)
EXTENDS ModuleGraph, TLC

Definitions(R, T, D, K, n) ==
  {[req |-> r, tla |-> t, load |-> d, link |-> k, calls |-> n] : r \in R, t \in T, d \in D, k \in K}

\* Every list of at most two different requests, of the module itself too.
Lists == {<<>>} \cup {<<x>> : x \in Module} \cup {p \in Module \X Module : p[1] # p[2]}

\* Any graph of such lists: with any set of awaiting bodies, and with modules
\* that fail to load or to link.
SmallGraphs ==
  LET One == {{}} \cup {{m} : m \in Module}
  IN  Definitions([Module -> Lists], SUBSET Module, {{}}, {{}}, 0)
        \cup Definitions([Module -> Lists], {{}}, One, One, 0)

\* At most one request per module.
ChainGraphs ==
  Definitions([Module -> {<<>>} \cup {<<x>> : x \in Module}], SUBSET Module, {{}}, {{}}, MaxRequires)

\* Both: static graphs, and chains whose bodies call require().
MixedGraphs == SmallGraphs \cup ChainGraphs

\* Four modules: a diamond, alone or closed into one or two cycles, a cycle
\* entered at two places, and one with a dependency of each member, of which
\* one may fail while the other is awaited.
Diamonds ==
  Definitions({<< <<2, 3>>, <<4>>, <<4>>, <<>> >>, << <<2, 3>>, <<4>>, <<4>>, <<1>> >>,
               << <<2, 3>>, <<4>>, <<4>>, <<2>> >>, << <<2, 3>>, <<3>>, <<2, 4>>, <<>> >>,
               << <<2, 3>>, <<1, 4>>, <<>>, <<>> >>},
              SUBSET Module, {{}}, {{}}, 0)

Symmetry == Permutations(Module)
=============================================================================
