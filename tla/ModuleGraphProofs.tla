-------------------------- MODULE ModuleGraphProofs --------------------------
(***************************************************************************)
(* Proofs about ModuleGraph (tsc_module.c) for any set of modules, any     *)
(* graphs and any number of imports and require() calls: the records keep  *)
(* their types, no body runs twice, and a module fails only with the error *)
(* of a body that it needs.                                                *)
(*                                                                         *)
(* The inductive invariant IInv is built up in layers, each of which needs *)
(* the ones before it: the shape of the C stack (Control), Tarjan's stack  *)
(* of each walk (Stacks), what is reached from what (Paths, Links), the    *)
(* records not visited yet (Fresh), the bodies to be started (Once) and    *)
(* their ends (Outcomes), and where errors come from (Failures).           *)
(***************************************************************************)
EXTENDS ModuleGraph, SequenceTheorems, FiniteSetTheorems, TLAPS

FrameType == [m : Module, next : Nat \ {0}, entered : BOOLEAN, waiting : BOOLEAN, finish : BOOLEAN]
Activation == [kind : {"dfs", "list"}, root : Module \cup {Nil}, frames : Seq(FrameType),
               stack : Seq(Module), index : Nat, avail : SUBSET Module,
               body : Module \cup {Nil}]

Types == /\ TypeOK /\ clock \in Nat /\ called \subseteq Module \X Module
         /\ ctx \in Seq(Activation)

\* x needs y.
Needing == {e \in Module \X Module : e[2] \in Needs(e[1])}

\* A frame with respect to the requests of its module.
FrameOK(g, f) ==
  /\ f.waiting => f.entered /\ ~f.finish /\ f.next >= 2
  /\ f.finish => f.entered /\ f.next > Len(g.req[f.m])
  /\ f.next <= Len(g.req[f.m]) + 1

\* A list has no walk, a walk no list; only the last frame of a walk runs, the
\* others wait for the module of the next one.
Shape(g, c) ==
  /\ c.kind = "list" => c.frames = <<>> /\ c.stack = <<>>
  /\ c.kind = "dfs" => c.avail = {} /\ c.root \in Module
  /\ c.kind = "dfs" /\ c.body # Nil =>
       /\ c.frames # <<>> /\ c.frames[Len(c.frames)].m = c.body
       /\ c.frames[Len(c.frames)].finish
  /\ c.frames # <<>> => c.frames[1].m = c.root
  /\ \A k \in 1..Len(c.frames) : FrameOK(g, c.frames[k])
  /\ \A k \in 1..Len(c.frames) - 1 : c.frames[k].waiting

Control ==
  /\ \A i \in 1..Len(ctx) - 1 : ctx[i].body # Nil
  /\ \A i \in 2..Len(ctx) : ctx[i].kind = "dfs"
  /\ \A i \in 1..Len(ctx) : Shape(graph, ctx[i])

\* The stack of a walk holds modules being evaluated, in the order of their
\* depth-first indexes, those of the frames entered among them (s is status
\* and d the depth-first index).
Stacked(s, d, c) ==
  /\ \A x \in Members(c.stack) : s[x] = "evaluating" /\ d[x] < c.index
  /\ \A p, q \in 1..Len(c.stack) : p < q => d[c.stack[p]] < d[c.stack[q]]
  /\ \A k \in 1..Len(c.frames) :
       /\ c.frames[k].entered =>
            /\ c.frames[k].m \in Members(c.stack)
            /\ \A l \in 1..k - 1 : d[c.frames[l].m] < d[c.frames[k].m]
            /\ k = 1 => d[c.frames[k].m] = 0
       /\ ~c.frames[k].entered =>
            /\ s[c.frames[k].m] = "linked"
            /\ k = 1 => c.stack = <<>> /\ c.index = 0

Stacks ==
  /\ \A i \in 1..Len(ctx) : Stacked(status, dfs, ctx[i])
  /\ \A i, j \in 1..Len(ctx) : \A x \in Members(ctx[i].stack) : x \in Members(ctx[j].stack) => i = j
  /\ \A m \in Module : status[m] = "evaluating" =>
       \E i \in 1..Len(ctx) : m \in Members(ctx[i].stack)

\* A module on the stack needs one on it that its ancestor index covers, and
\* one with a frame that was entered no later; a frame's module needs those of
\* the frames above it (N is the relation of needs, a the ancestor index).
Reaching(N, d, a, c) ==
  /\ \A x \in Members(c.stack) :
       /\ a[x] <= d[x]
       /\ \E y \in Members(c.stack) : <<x, y>> \in N /\ d[y] <= a[x]
       /\ \E k \in 1..Len(c.frames) :
            c.frames[k].entered /\ <<x, c.frames[k].m>> \in N /\ d[c.frames[k].m] <= d[x]
  /\ \A k \in 1..Len(c.frames) : \A l \in k..Len(c.frames) :
       <<c.frames[k].m, c.frames[l].m>> \in N

\* The same across activations: a body needs the roots it has called.
Paths ==
  /\ \A i \in 1..Len(ctx) : Reaching(Needing, dfs, anc, ctx[i])
  /\ \A i, j \in 1..Len(ctx) : i < j => <<ctx[i].body, ctx[j].root>> \in Needing

\* A module needs its cycle root and the modules it waits for.
Links == \A m \in Module : /\ <<m, root[m]>> \in Needing
                           /\ \A p \in Members(parents[m]) : <<p, m>> \in Needing

\* A module not visited yet has no history.
Fresh == \A m \in Module :
  /\ status[m] = "linked" => /\ err[m] = Nil /\ pend[m] = 0 /\ m \notin Members(ran)
                             /\ root[m] = m
  /\ status[root[m]] = "linked" => status[m] = "linked"

\* The modules whose body a completion may start (s is status, p the pending
\* dependencies, r the bodies started).
Idle(s, p, r) ==
  {m \in Module : m \notin Members(r) /\ p[m] = 0 /\ s[m] \in {"async", "evaluated"}}

\* A body that a frame or a completion will start has not run (I are the idle
\* modules).
Unstarted(r, I, c) ==
  /\ \A k \in 1..Len(c.frames) : ~c.frames[k].finish => c.frames[k].m \notin Members(r)
  /\ c.avail \subseteq I

\* No body has run twice or will; one that has run waits for nothing.
Once ==
  /\ BodyRunsOnce
  /\ \A m \in Members(ran) : pend[m] = 0
  /\ \A i \in 1..Len(ctx) : Unstarted(ran, Idle(status, pend, ran), ctx[i])

\* The body of an activation is in progress, and a walk has not failed (dn are
\* the bodies that have completed, x the promises of the asynchronous ones, e
\* the errors).
Ongoing(r, dn, x, s, e, c) ==
  /\ c.body # Nil => /\ c.body \in Members(r) \ dn /\ x[c.body] = "none"
                     /\ c.kind = "list" => s[c.body] = "async"
  /\ c.kind = "dfs" => e[c.root] = Nil

\* A body runs, awaits or has ended, one of these at a time.
Outcomes ==
  /\ done \subseteq Members(ran)
  /\ \A i \in 1..Len(ctx) : Ongoing(ran, done, exec, status, err, ctx[i])
  /\ \A m \in Module :
       /\ exec[m] # "none" => m \in Members(ran) /\ m \in graph.tla
       /\ exec[m] \in {"pending", "err"} => m \notin done

\* A failed module names a body that was needed and has ended abruptly.
Failures == \A m \in Module : err[m] # Nil =>
  /\ status[m] = "evaluated" /\ top[m] # "ok"
  /\ <<m, err[m]>> \in Needing /\ err[m] \in Members(ran) \ done
  /\ exec[err[m]] \in {"none", "err"}
  /\ \A i \in 1..Len(ctx) : ctx[i].body # err[m]

IInv == /\ Types /\ Control /\ Stacks /\ Paths /\ Links /\ Fresh /\ Once /\ Outcomes
        /\ Failures
-----------------------------------------------------------------------------
\* The requests of a module are modules.
LEMMA RequestTyped ==
  ASSUME Types, NEW m \in Module
  PROVE  /\ Req(m) \in Seq(Module) /\ Len(Req(m)) \in Nat
         /\ \A i \in 1..Len(Req(m)) : Req(m)[i] \in Module /\ Req(m)[i] \in Requested(m)
         /\ Requested(m) \subseteq Module
<1>1. Req(m) \in Seq(Module) BY DEF Types, TypeOK, Req
<1>2. \A i \in 1..Len(Req(m)) : Req(m)[i] \in Module BY <1>1, ElementOfSeq
<1> QED BY <1>1, <1>2, LenProperties DEF Requested

\* What a module needs is closed under requests and calls, and is the least
\* such set: it only grows.
LEMMA NeedsClosed ==
  ASSUME Types
  PROVE  /\ \A x \in Module : <<x, x>> \in Needing
         /\ \A x \in Module : \A y \in Requested(x) : <<x, y>> \in Needing
         /\ \A x, y \in Module : <<x, y>> \in called => <<x, y>> \in Needing
         /\ \A x, y, z \in Module : <<x, y>> \in Needing /\ <<y, z>> \in Needing
              => <<x, z>> \in Needing
<1> DEFINE Uses(x) == Requested(x) \cup {y \in Module : <<x, y>> \in called}
           Closed(m) == {T \in SUBSET Module : {m} \subseteq T /\ \A x \in T : Uses(x) \subseteq T}
<1>1. \A m : Needs(m) = {x \in Module : \A T \in Closed(m) : x \in T} BY DEF Needs, Closure
<1>2. \A x, y \in Module : <<x, y>> \in Needing <=> \A T \in Closed(x) : y \in T
  <2> HIDE DEF Closed
  <2> QED BY <1>1 DEF Needing
<1>3. \A x \in Module : Requested(x) \subseteq Module BY RequestTyped
<1>4. \A x \in Module : Uses(x) \subseteq Module BY <1>3
<1>5. \A x \in Module : \A y \in Uses(x) : <<x, y>> \in Needing
  <2> SUFFICES ASSUME NEW x \in Module, NEW y \in Uses(x), NEW T \in Closed(x)
               PROVE  y \in T
    BY <1>2, <1>4
  <2> QED OBVIOUS
<1>6. \A x, y, z \in Module : <<x, y>> \in Needing /\ <<y, z>> \in Needing => <<x, z>> \in Needing
  <2> SUFFICES ASSUME NEW x \in Module, NEW y \in Module, NEW z \in Module,
                      <<x, y>> \in Needing, <<y, z>> \in Needing, NEW T \in Closed(x)
               PROVE  z \in T
    BY <1>2
  <2>1. y \in T BY <1>2
  <2>2. T \in Closed(y) BY <2>1
  <2> HIDE DEF Closed
  <2> QED BY <2>2, <1>2
<1>7. \A x \in Module : <<x, x>> \in Needing BY <1>2
<1>8. \A x \in Module : \A y \in Requested(x) : <<x, y>> \in Needing BY <1>5
<1>9. \A x, y \in Module : <<x, y>> \in called => <<x, y>> \in Needing BY <1>5
<1> HIDE DEF Uses, Closed
<1> QED BY <1>6, <1>7, <1>8, <1>9

\* What is needed only grows while the graph stands.
LEMMA NeedsGrow ==
  ASSUME Types, graph' = graph, called \subseteq called'
  PROVE  Needing \subseteq Needing'
<1> DEFINE Uses(x) == Requested(x) \cup {y \in Module : <<x, y>> \in called}
           Closed(m) == {T \in SUBSET Module : {m} \subseteq T /\ \A x \in T : Uses(x) \subseteq T}
           Uses1(x) == Requested(x) \cup {y \in Module : <<x, y>> \in called'}
           Closed1(m) == {T \in SUBSET Module : {m} \subseteq T /\ \A x \in T : Uses1(x) \subseteq T}
<1>1. \A m : Needs(m) = {x \in Module : \A T \in Closed(m) : x \in T} BY DEF Needs, Closure
<1>2. \A m : Requested(m)' = Requested(m) BY DEF Requested, Req
<1>3. \A m : Needs(m)' = {x \in Module : \A T \in Closed1(m) : x \in T}
  BY DEF Needs, Closure, Requested, Req
<1>4. \A m : Closed1(m) \subseteq Closed(m)
  <2>1. \A x : Uses(x) \subseteq Uses1(x) OBVIOUS
  <2> HIDE DEF Uses, Uses1
  <2> QED BY <2>1
<1> HIDE DEF Closed, Closed1
<1>5. \A m : Needs(m) \subseteq Needs(m)' BY <1>1, <1>3, <1>4
<1> QED BY <1>5 DEF Needing
-----------------------------------------------------------------------------
\* The members of a sequence.
LEMMA MembersOf ==
  ASSUME NEW s \in Seq(Module)
  PROVE  /\ Members(s) \subseteq Module /\ Len(s) \in Nat
         /\ \A i \in 1..Len(s) : s[i] \in Members(s)
         /\ \A x \in Members(s) : \E i \in 1..Len(s) : s[i] = x
<1>1. \A i \in 1..Len(s) : s[i] \in Module BY ElementOfSeq
<1> QED BY <1>1, LenProperties DEF Members

\* The members of the empty sequence.
LEMMA MembersEmpty == Members(<<>>) = {}
BY DEF Members

\* The members of an extended sequence.
LEMMA MembersAppend ==
  ASSUME NEW s \in Seq(Module), NEW e \in Module
  PROVE  Append(s, e) \in Seq(Module) /\ Members(Append(s, e)) = Members(s) \cup {e}
<1> DEFINE t == Append(s, e)
<1>1. /\ t \in Seq(Module) /\ Len(t) = Len(s) + 1 /\ Len(s) \in Nat /\ t[Len(s) + 1] = e
      /\ \A i \in 1..Len(s) : t[i] = s[i]
  BY AppendProperties, LenProperties
<1> HIDE DEF t
<1>2. \A i \in 1..Len(t) : i \in 1..Len(s) \/ i = Len(s) + 1 BY <1>1
<1>3. Members(t) \subseteq Members(s) \cup {e} BY <1>1, <1>2 DEF Members
<1>4. \A i \in 1..Len(s) : i \in 1..Len(t) BY <1>1
<1>5. Len(s) + 1 \in 1..Len(t) BY <1>1
<1>6. Members(s) \cup {e} \subseteq Members(t) BY <1>1, <1>4, <1>5 DEF Members
<1> QED BY <1>1, <1>3, <1>6 DEF t

\* The modules started, and that each was started once.
LEMMA RanAppend ==
  ASSUME ran \in Seq(Module), BodyRunsOnce, NEW m \in Module, m \notin Members(ran),
         ran' = Append(ran, m)
  PROVE  BodyRunsOnce' /\ ran' \in Seq(Module) /\ Members(ran') = Members(ran) \cup {m}
<1>1. ran' \in Seq(Module) /\ Members(ran') = Members(ran) \cup {m} BY MembersAppend
<1>2. Len(ran') = Len(ran) + 1 /\ Len(ran) \in Nat BY AppendProperties, LenProperties
<1>3. IsFiniteSet(Members(ran))
  <2>1. Members(ran) \subseteq Module BY MembersOf
  <2> QED BY <2>1, FS_Subset, GraphAssumption
<1>4. Cardinality(Members(ran) \cup {m}) = Cardinality(Members(ran)) + 1 BY <1>3, FS_AddElement
<1> QED BY <1>1, <1>2, <1>4 DEF BodyRunsOnce

\* The number of registered edges is a natural number and grows with the set.
LEMMA EdgesType ==
  ASSUME Types, NEW S \in SUBSET Module, NEW p \in Module
  PROVE  /\ Edges(S, p) \in Nat
         /\ \A T \in SUBSET S : Edges(T, p) <= Edges(S, p)
<1> DEFINE E(d) == {<<d, i>> : i \in {j \in 1..Len(parents[d]) : parents[d][j] = p}}
<1>1. IsFiniteSet(S) BY FS_Subset, GraphAssumption
<1>2. \A d \in S : IsFiniteSet(E(d))
  <2> TAKE d \in S
  <2>1. parents[d] \in Seq(Module) BY DEF Types, TypeOK
  <2>2. Len(parents[d]) \in Nat BY <2>1, LenProperties
  <2>3. IsFiniteSet(1..Len(parents[d])) BY <2>2, FS_Interval
  <2>4. IsFiniteSet({j \in 1..Len(parents[d]) : parents[d][j] = p}) BY <2>3, FS_Subset
  <2> DEFINE J == {j \in 1..Len(parents[d]) : parents[d][j] = p}
  <2> HIDE DEF J
  <2>5. IsFiniteSet(J) BY <2>4 DEF J
  <2>6. [i \in J |-> <<d, i>>] \in Surjection(J, {<<d, i>> : i \in J}) BY DEF Surjection
  <2>7. IsFiniteSet({<<d, i>> : i \in J}) BY <2>5, <2>6, FS_Surjection DEF ExistsSurjection
  <2> QED BY <2>7 DEF J
<1> DEFINE F == {E(d) : d \in S}
<1>3. IsFiniteSet(F)
  <2> HIDE DEF E
  <2>1. [d \in S |-> E(d)] \in Surjection(S, F) BY DEF Surjection
  <2> HIDE DEF F
  <2> QED BY <1>1, <2>1, FS_Surjection DEF ExistsSurjection
<1>4. \A T \in F : IsFiniteSet(T) BY <1>2
<1>5. Edges(S, p) = Cardinality(UNION F) BY DEF Edges
<1> HIDE DEF F
<1>6. IsFiniteSet(UNION F) BY <1>3, <1>4, FS_UNION
<1>7. \A T \in SUBSET S : Edges(T, p) <= Edges(S, p)
  <2> TAKE T \in SUBSET S
  <2> DEFINE G == {E(d) : d \in T}
  <2>1. Edges(T, p) = Cardinality(UNION G) BY DEF Edges
  <2>2. G \subseteq F
    <3> HIDE DEF E
    <3> QED BY DEF F
  <2> HIDE DEF G
  <2>3. UNION G \subseteq UNION F BY <2>2
  <2> QED BY <2>1, <2>3, <1>5, <1>6, FS_Subset
<1> QED BY <1>5, <1>6, <1>7, FS_CardinalityType

\* The available ancestors wait for the module, and a module that still waits
\* is left with a dependency to wait for.
LEMMA AvailableFacts ==
  ASSUME Types, NEW m \in Module
  PROVE  /\ Available(m) \subseteq Module
         /\ \A p \in Available(m) : p # m /\ Waits(p)
         /\ \A p \in Module \ Available(m) : p # m /\ Waits(p) =>
              /\ Edges(Sources(Available(m), m), p) \in Nat
              /\ Edges(Sources(Available(m), m), p) < pend[p]
<1> DEFINE Closed == {S \in SUBSET Module : \A p \in Module : Exhausted(p, S, m) => p \in S}
           A == Available(m)
<1>1. A = {p \in Module : \A S \in Closed : p \in S} BY DEF Available
<1>2. A \subseteq Module BY <1>1
<1>3. {p \in Module : p # m /\ Waits(p)} \in Closed BY DEF Exhausted
<1>4. \A p \in A : p # m /\ Waits(p) BY <1>1, <1>3
<1>5. \A S \in SUBSET Module : Sources(S, m) \in SUBSET Module BY DEF Sources
<1>6. A \in Closed
  <2> SUFFICES ASSUME NEW p \in Module, Exhausted(p, A, m), NEW S \in Closed
               PROVE  p \in S
    BY <1>1, <1>2
  <2>1. A \subseteq S BY <1>1
  <2>2. Sources(A, m) \subseteq Sources(S, m) BY <2>1 DEF Sources
  <2>3. Edges(Sources(A, m), p) <= Edges(Sources(S, m), p) BY <2>2, <1>5, EdgesType
  <2>4. Edges(Sources(A, m), p) \in Nat /\ Edges(Sources(S, m), p) \in Nat BY <1>2, <1>5, EdgesType
  <2>5. pend[p] \in Nat BY DEF Types, TypeOK
  <2>6. Exhausted(p, S, m) BY <2>3, <2>4, <2>5 DEF Exhausted
  <2> QED BY <2>6
<1>7. \A p \in Module \ A : p # m /\ Waits(p) => ~(pend[p] <= Edges(Sources(A, m), p))
  BY <1>6 DEF Exhausted
<1>8. \A p \in Module : pend[p] \in Nat /\ Edges(Sources(A, m), p) \in Nat
  BY <1>2, <1>5, EdgesType DEF Types, TypeOK
<1> HIDE DEF A
<1>9. \A p \in Module \ A : p # m /\ Waits(p) => Edges(Sources(A, m), p) < pend[p] BY <1>7, <1>8
<1> QED BY <1>2, <1>4, <1>8, <1>9 DEF A
-----------------------------------------------------------------------------
\* The stack of activations and the innermost one, as the steps change them.
LEMMA CurTyped ==
  ASSUME Types, ctx # <<>>
  PROVE  /\ Len(ctx) \in Nat \ {0} /\ Cur = ctx[Len(ctx)] /\ Cur \in Activation
         /\ \A i \in 1..Len(ctx) : ctx[i] \in Activation
<1>1. ctx \in Seq(Activation) BY DEF Types
<1>2. Len(ctx) \in Nat /\ Len(ctx) # 0 BY <1>1, LenProperties, EmptySeq
<1>3. \A i \in 1..Len(ctx) : ctx[i] \in Activation BY <1>1, ElementOfSeq
<1> QED BY <1>2, <1>3 DEF Cur

\* Replacing the running activation leaves the others alone.
LEMMA WithFacts ==
  ASSUME Types, ctx # <<>>, NEW c \in Activation
  PROVE  /\ With(c) \in Seq(Activation) /\ Len(With(c)) = Len(ctx)
         /\ With(c)[Len(ctx)] = c
         /\ \A i \in 1..Len(ctx) - 1 : With(c)[i] = ctx[i]
<1>1. ctx \in Seq(Activation) BY DEF Types
<1> QED BY <1>1, CurTyped, ExceptSeq DEF With

\* A proper prefix of a sequence.
LEMMA PrefixFacts ==
  ASSUME NEW X, NEW s \in Seq(X), NEW p \in 1..Len(s)
  PROVE  /\ SubSeq(s, 1, p - 1) \in Seq(X) /\ Len(SubSeq(s, 1, p - 1)) = p - 1
         /\ \A i \in 1..p - 1 : SubSeq(s, 1, p - 1)[i] = s[i]
<1> DEFINE t == SubSeq(s, 1, p - 1)
<1>1. Len(s) \in Nat /\ p \in Nat \ {0} /\ p <= Len(s) BY LenProperties
<1>2. \A i \in 1..p - 1 : s[i] \in X BY <1>1, ElementOfSeq
<1>3. 1 \in Int /\ p - 1 \in Int BY <1>1
<1>4. /\ t \in Seq(X) /\ Len(t) = IF 1 <= p - 1 THEN p - 1 - 1 + 1 ELSE 0
      /\ \A i \in 1..p - 1 - 1 + 1 : t[i] = s[1 + i - 1]
  BY <1>2, <1>3, SubSeqProperties
<1> HIDE DEF t
<1>5. p - 1 - 1 + 1 = p - 1 /\ \A i \in 1..p - 1 : 1 + i - 1 = i BY <1>1
<1>6. Len(t) = p - 1 BY <1>1, <1>4
<1>7. \A i \in 1..p - 1 : t[i] = s[1 + i - 1] BY <1>4, <1>5
<1> QED BY <1>4, <1>5, <1>6, <1>7 DEF t

\* Returning from the running activation leaves the others alone.
LEMMA PoppedFacts ==
  ASSUME Types, ctx # <<>>
  PROVE  /\ Popped \in Seq(Activation) /\ Len(Popped) = Len(ctx) - 1
         /\ \A i \in 1..Len(ctx) - 1 : Popped[i] = ctx[i]
<1>1. ctx \in Seq(Activation) BY DEF Types
<1>2. Len(ctx) \in 1..Len(ctx) BY CurTyped
<1> QED BY <1>1, <1>2, PrefixFacts DEF Popped

\* Calling a new activation leaves the others alone.
LEMMA PushFacts ==
  ASSUME Types, NEW c \in Activation
  PROVE  /\ Append(ctx, c) \in Seq(Activation) /\ Len(Append(ctx, c)) = Len(ctx) + 1
         /\ Append(ctx, c)[Len(ctx) + 1] = c /\ Len(ctx) \in Nat
         /\ \A i \in 1..Len(ctx) : Append(ctx, c)[i] = ctx[i]
<1>1. ctx \in Seq(Activation) BY DEF Types
<1> QED BY <1>1, AppendProperties, LenProperties

\* A new walk has one frame, for its root.
LEMMA WalkTyped ==
  ASSUME NEW m \in Module
  PROVE  /\ NewFrame(m) \in FrameType /\ Walk(m) \in Activation
         /\ Len(Walk(m).frames) = 1 /\ Walk(m).frames[1] = NewFrame(m)
<1>1. NewFrame(m) \in FrameType BY DEF NewFrame, FrameType
<1>2. <<NewFrame(m)>> \in Seq(FrameType) BY <1>1
<1>3. <<>> \in Seq(Module) OBVIOUS
<1> QED BY <1>1, <1>2, <1>3 DEF Walk, Activation

\* A completion's list is an activation.
LEMMA ListTyped ==
  ASSUME NEW S \in SUBSET Module
  PROVE  List(S) \in Activation /\ <<List(S)>> \in Seq(Activation)
<1>1. <<>> \in Seq(FrameType) /\ <<>> \in Seq(Module) OBVIOUS
<1>2. List(S) \in Activation BY <1>1 DEF List, Activation
<1> QED BY <1>2

\* d is c with its last frame replaced by f.
FrameSet(c, d, f) ==
  /\ Len(d.frames) = Len(c.frames) /\ d.frames[Len(c.frames)] = f
  /\ \A k \in 1..Len(c.frames) - 1 : d.frames[k] = c.frames[k]

\* Replacing the last frame changes only that frame.
LEMMA SetFrameFacts ==
  ASSUME NEW c \in Activation, c.frames # <<>>, NEW f \in FrameType
  PROVE  /\ SetFrame(c, f) \in Activation /\ FrameSet(c, SetFrame(c, f), f)
         /\ SetFrame(c, f).kind = c.kind /\ SetFrame(c, f).root = c.root
         /\ SetFrame(c, f).stack = c.stack /\ SetFrame(c, f).index = c.index
         /\ SetFrame(c, f).avail = c.avail /\ SetFrame(c, f).body = c.body
<1> DEFINE n == Len(c.frames)
           s == [c.frames EXCEPT ![n] = f]
<1>1. c.frames \in Seq(FrameType) BY DEF Activation
<1>2. n \in Nat /\ n # 0 BY <1>1, LenProperties, EmptySeq
<1>3. /\ s \in Seq(FrameType) /\ Len(s) = n /\ s[n] = f
      /\ \A k \in 1..n - 1 : s[k] = c.frames[k]
  BY <1>1, <1>2, ExceptSeq
<1>4. SetFrame(c, f) = [c EXCEPT !.frames = s] BY DEF SetFrame
<1> HIDE DEF s
<1>5. /\ SetFrame(c, f) \in Activation /\ SetFrame(c, f).frames = s
      /\ SetFrame(c, f).kind = c.kind /\ SetFrame(c, f).root = c.root
      /\ SetFrame(c, f).stack = c.stack /\ SetFrame(c, f).index = c.index
      /\ SetFrame(c, f).avail = c.avail /\ SetFrame(c, f).body = c.body
  BY <1>3, <1>4 DEF Activation
<1> QED BY <1>3, <1>5 DEF FrameSet

\* The last frame of the running walk is a frame.
LEMMA FrameTyped ==
  ASSUME Types, ctx # <<>>, Cur.frames # <<>>
  PROVE  /\ Frame \in FrameType /\ Frame.m \in Module /\ Frame.next \in Nat \ {0}
         /\ Frame.entered \in BOOLEAN /\ Frame.waiting \in BOOLEAN /\ Frame.finish \in BOOLEAN
         /\ Len(Cur.frames) \in Nat \ {0} /\ Frame = Cur.frames[Len(Cur.frames)]
         /\ Cur \in Activation /\ Cur.frames \in Seq(FrameType)
<1>1. Cur \in Activation BY CurTyped
<1>2. Cur.frames \in Seq(FrameType) BY <1>1 DEF Activation
<1>3. Len(Cur.frames) \in Nat /\ Len(Cur.frames) # 0 BY <1>2, LenProperties, EmptySeq
<1>4. Frame \in FrameType BY <1>2, <1>3, ElementOfSeq DEF Frame
<1> QED BY <1>1, <1>2, <1>3, <1>4 DEF Frame, FrameType
-----------------------------------------------------------------------------
\* What each step makes of the innermost activation.
LEMMA EnterForm ==
  ASSUME Types, Enter
  PROVE  /\ ctx # <<>> /\ Cur.frames # <<>> /\ Cur.kind = "dfs" /\ Cur.body = Nil
         /\ \E d \in Activation, f \in FrameType :
              /\ ctx' = With(d) /\ FrameSet(Cur, d, f)
              /\ d.kind = Cur.kind /\ d.root = Cur.root /\ d.avail = Cur.avail
              /\ d.body = Cur.body /\ d.stack = Append(Cur.stack, Frame.m)
              /\ d.index = Cur.index + 1
              /\ f.m = Frame.m /\ f.next = Frame.next /\ f.entered
              /\ f.waiting = Frame.waiting /\ f.finish = Frame.finish
<1> DEFINE f == [Frame EXCEPT !.entered = TRUE]
           c == SetFrame(Cur, f)
           d == [c EXCEPT !.stack = Append(@, Frame.m), !.index = @ + 1]
<1>1. ctx # <<>> /\ Cur.frames # <<>> /\ Cur.kind = "dfs" /\ Cur.body = Nil BY DEF Enter, Walking
<1>2. Frame \in FrameType /\ Frame.m \in Module /\ Cur \in Activation BY <1>1, FrameTyped
<1>3. /\ f \in FrameType /\ f.m = Frame.m /\ f.next = Frame.next /\ f.entered
      /\ f.waiting = Frame.waiting /\ f.finish = Frame.finish
  BY <1>2 DEF FrameType
<1>4. ctx' = With(d) BY DEF Enter
<1> HIDE DEF f
<1>5. /\ c \in Activation /\ FrameSet(Cur, c, f) /\ c.kind = Cur.kind /\ c.root = Cur.root
      /\ c.stack = Cur.stack /\ c.index = Cur.index /\ c.avail = Cur.avail /\ c.body = Cur.body
  BY <1>1, <1>2, <1>3, SetFrameFacts
<1> HIDE DEF c
<1>6. c.stack \in Seq(Module) /\ c.index \in Nat BY <1>5 DEF Activation
<1>7. Append(c.stack, Frame.m) \in Seq(Module) BY <1>2, <1>6, AppendProperties
<1>8. /\ d \in Activation /\ d.frames = c.frames /\ d.kind = c.kind /\ d.root = c.root
      /\ d.avail = c.avail /\ d.body = c.body
      /\ d.stack = Append(c.stack, Frame.m) /\ d.index = c.index + 1
  <2>1. c.index + 1 \in Nat BY <1>6
  <2> DEFINE t == Append(c.stack, Frame.m)
             j == c.index + 1
  <2>2. d = [c EXCEPT !.stack = t, !.index = j] OBVIOUS
  <2>3. t \in Seq(Module) /\ j \in Nat BY <1>7, <2>1
  <2> HIDE DEF t, j, d
  <2>4. /\ d \in Activation /\ d.frames = c.frames /\ d.kind = c.kind /\ d.root = c.root
        /\ d.avail = c.avail /\ d.body = c.body /\ d.stack = t /\ d.index = j
    BY <1>5, <2>2, <2>3 DEF Activation
  <2> QED BY <2>4 DEF t, j
<1>9. FrameSet(Cur, d, f) BY <1>5, <1>8 DEF FrameSet
<1> HIDE DEF d
<1> QED BY <1>1, <1>3, <1>4, <1>5, <1>8, <1>9

\* Examine, when the request did not fail, ends the wait of the last frame.
LEMMA ExamineForm ==
  ASSUME Types, Examine, ctx' # Popped
  PROVE  /\ ctx # <<>> /\ Cur.frames # <<>> /\ Cur.kind = "dfs" /\ Cur.body = Nil
         /\ \E d \in Activation, f \in FrameType :
              /\ ctx' = With(d) /\ FrameSet(Cur, d, f)
              /\ d.kind = Cur.kind /\ d.root = Cur.root /\ d.avail = Cur.avail
              /\ d.body = Cur.body /\ d.stack = Cur.stack /\ d.index = Cur.index
              /\ f.m = Frame.m /\ f.next = Frame.next /\ f.entered = Frame.entered
              /\ ~f.waiting /\ f.finish = Frame.finish
<1> DEFINE f == [Frame EXCEPT !.waiting = FALSE]
           d == SetFrame(Cur, f)
<1>1. ctx # <<>> /\ Cur.frames # <<>> /\ Cur.kind = "dfs" /\ Cur.body = Nil
  BY DEF Examine, Walking
<1>2. Frame \in FrameType /\ Frame.m \in Module /\ Cur \in Activation BY <1>1, FrameTyped
<1>3. /\ f \in FrameType /\ f.m = Frame.m /\ f.next = Frame.next /\ f.entered = Frame.entered
      /\ ~f.waiting /\ f.finish = Frame.finish
  BY <1>2 DEF FrameType
<1>4. ctx' = With(d) BY DEF Examine, Throw
<1> HIDE DEF f
<1>5. /\ d \in Activation /\ FrameSet(Cur, d, f) /\ d.kind = Cur.kind /\ d.root = Cur.root
      /\ d.stack = Cur.stack /\ d.index = Cur.index /\ d.avail = Cur.avail /\ d.body = Cur.body
  BY <1>1, <1>2, <1>3, SetFrameFacts
<1> HIDE DEF d
<1> QED BY <1>1, <1>3, <1>4, <1>5

\* The frame of the module that requests, and the frame of a new module.
LEMMA RequestForm ==
  ASSUME Types, Request
  PROVE  /\ ctx # <<>> /\ Cur.frames # <<>> /\ Cur.kind = "dfs" /\ Cur.body = Nil
         /\ \E d \in Activation, f \in FrameType :
              /\ ctx' = With(d)
              /\ d.kind = Cur.kind /\ d.root = Cur.root /\ d.avail = Cur.avail
              /\ d.body = Cur.body /\ d.stack = Cur.stack /\ d.index = Cur.index
              /\ f.m = Frame.m /\ f.next = Frame.next + 1 /\ f.entered = Frame.entered
              /\ f.waiting /\ f.finish = Frame.finish
              /\ \/ FrameSet(Cur, d, f) /\ ~Unvisited(Req(Frame.m)[Frame.next])
                 \/ /\ Unvisited(Req(Frame.m)[Frame.next])
                    /\ Len(d.frames) = Len(Cur.frames) + 1 /\ d.frames[Len(Cur.frames)] = f
                    /\ \A k \in 1..Len(Cur.frames) - 1 : d.frames[k] = Cur.frames[k]
                    /\ d.frames[Len(Cur.frames) + 1] = NewFrame(Req(Frame.m)[Frame.next])
<1> DEFINE f == [Frame EXCEPT !.next = @ + 1, !.waiting = TRUE]
           q == Req(Frame.m)[Frame.next]
           c == SetFrame(Cur, f)
           e == [c EXCEPT !.frames = Append(@, NewFrame(q))]
           d == IF Unvisited(q) THEN e ELSE c
<1>1. ctx # <<>> /\ Cur.frames # <<>> /\ Cur.kind = "dfs" /\ Cur.body = Nil
  BY DEF Request, Walking
<1>2. Frame \in FrameType /\ Frame.m \in Module /\ Frame.next \in Nat \ {0} /\ Cur \in Activation
  BY <1>1, FrameTyped
<1>3. /\ f \in FrameType /\ f.m = Frame.m /\ f.next = Frame.next + 1 /\ f.entered = Frame.entered
      /\ f.waiting /\ f.finish = Frame.finish
  <2> DEFINE j == Frame.next + 1
  <2>1. j \in Nat \ {0} BY <1>2
  <2>2. f = [Frame EXCEPT !.next = j, !.waiting = TRUE] OBVIOUS
  <2> HIDE DEF j, f
  <2>3. /\ f \in FrameType /\ f.m = Frame.m /\ f.next = j /\ f.entered = Frame.entered
        /\ f.waiting /\ f.finish = Frame.finish
    BY <1>2, <2>1, <2>2 DEF FrameType
  <2> QED BY <2>3 DEF j
<1>4. ctx' = With(d) BY DEF Request
<1> HIDE DEF f
<1>5. /\ c \in Activation /\ FrameSet(Cur, c, f) /\ c.kind = Cur.kind /\ c.root = Cur.root
      /\ c.stack = Cur.stack /\ c.index = Cur.index /\ c.avail = Cur.avail /\ c.body = Cur.body
  BY <1>1, <1>2, <1>3, SetFrameFacts
<1>6. CASE ~Unvisited(q)
  <2>1. d = c BY <1>6
  <2> HIDE DEF c, d
  <2> QED BY <1>1, <1>3, <1>4, <1>5, <1>6, <2>1
<1>7. CASE Unvisited(q)
  <2>1. d = e BY <1>7
  <2>2. q \in Module
    <3>1. Frame.next <= Len(Req(Frame.m)) BY DEF Request
    <3> QED BY <1>2, <3>1, RequestTyped
  <2>3. c.frames \in Seq(FrameType) BY <1>5 DEF Activation
  <2>4. NewFrame(q) \in FrameType BY <2>2, WalkTyped
  <2>5. /\ Append(c.frames, NewFrame(q)) \in Seq(FrameType)
        /\ Len(Append(c.frames, NewFrame(q))) = Len(c.frames) + 1
        /\ Append(c.frames, NewFrame(q))[Len(c.frames) + 1] = NewFrame(q)
        /\ \A k \in 1..Len(c.frames) : Append(c.frames, NewFrame(q))[k] = c.frames[k]
    BY <2>3, <2>4, AppendProperties
  <2> HIDE DEF c
  <2>6. /\ e \in Activation /\ e.frames = Append(c.frames, NewFrame(q)) /\ e.kind = c.kind
        /\ e.root = c.root /\ e.avail = c.avail /\ e.body = c.body
        /\ e.stack = c.stack /\ e.index = c.index
    BY <1>5, <2>5 DEF Activation
  <2>7. Len(Cur.frames) \in Nat \ {0} BY <1>1, FrameTyped
  <2> HIDE DEF e
  <2>8. /\ Len(e.frames) = Len(Cur.frames) + 1 /\ e.frames[Len(Cur.frames)] = f
        /\ \A k \in 1..Len(Cur.frames) - 1 : e.frames[k] = Cur.frames[k]
        /\ e.frames[Len(Cur.frames) + 1] = NewFrame(q)
    BY <1>5, <2>5, <2>6, <2>7 DEF FrameSet
  <2> QED BY <1>1, <1>3, <1>4, <1>5, <1>7, <2>1, <2>6, <2>8
<1> QED BY <1>6, <1>7

\* Execute marks the last frame and starts its body unless it must wait.
LEMMA ExecuteForm ==
  ASSUME Types, Execute
  PROVE  /\ ctx # <<>> /\ Cur.frames # <<>> /\ Cur.kind = "dfs" /\ Cur.body = Nil
         /\ \E d \in Activation, f \in FrameType :
              /\ ctx' = With(d) /\ FrameSet(Cur, d, f)
              /\ d.kind = Cur.kind /\ d.root = Cur.root /\ d.avail = Cur.avail
              /\ d.body = (IF pend[Frame.m] > 0 THEN Nil ELSE Frame.m)
              /\ d.stack = Cur.stack /\ d.index = Cur.index
              /\ f.m = Frame.m /\ f.next = Frame.next /\ f.entered = Frame.entered
              /\ f.waiting = Frame.waiting /\ f.finish
<1> DEFINE f == [Frame EXCEPT !.finish = TRUE]
           c == SetFrame(Cur, f)
           d == IF pend[Frame.m] > 0 THEN c ELSE [c EXCEPT !.body = Frame.m]
<1>1. ctx # <<>> /\ Cur.frames # <<>> /\ Cur.kind = "dfs" /\ Cur.body = Nil
  BY DEF Execute, Walking
<1>2. Frame \in FrameType /\ Frame.m \in Module /\ Cur \in Activation BY <1>1, FrameTyped
<1>3. /\ f \in FrameType /\ f.m = Frame.m /\ f.next = Frame.next /\ f.entered = Frame.entered
      /\ f.waiting = Frame.waiting /\ f.finish
  BY <1>2 DEF FrameType
<1>4. ctx' = With(d) BY DEF Execute
<1> HIDE DEF f
<1>5. /\ c \in Activation /\ FrameSet(Cur, c, f) /\ c.kind = Cur.kind /\ c.root = Cur.root
      /\ c.stack = Cur.stack /\ c.index = Cur.index /\ c.avail = Cur.avail /\ c.body = Cur.body
  BY <1>1, <1>2, <1>3, SetFrameFacts
<1> HIDE DEF c
<1>6. /\ d \in Activation /\ d.frames = c.frames /\ d.kind = c.kind /\ d.root = c.root
      /\ d.avail = c.avail /\ d.body = (IF pend[Frame.m] > 0 THEN Nil ELSE Frame.m)
      /\ d.stack = c.stack /\ d.index = c.index
  BY <1>1, <1>2, <1>5 DEF Activation
<1>7. FrameSet(Cur, d, f) BY <1>5, <1>6 DEF FrameSet
<1> HIDE DEF d
<1> QED BY <1>1, <1>3, <1>4, <1>5, <1>6, <1>7

\* A body ends, whatever its outcome.
LEMMA BodyForm ==
  ASSUME Types, ctx # <<>>, ctx' = With([Cur EXCEPT !.body = Nil])
  PROVE  \E d \in Activation :
           /\ ctx' = With(d) /\ d.kind = Cur.kind /\ d.root = Cur.root /\ d.avail = Cur.avail
           /\ d.body = Nil /\ d.stack = Cur.stack /\ d.index = Cur.index /\ d.frames = Cur.frames
<1> DEFINE d == [Cur EXCEPT !.body = Nil]
<1>1. Cur \in Activation BY CurTyped
<1>2. /\ d \in Activation /\ d.kind = Cur.kind /\ d.root = Cur.root /\ d.avail = Cur.avail
      /\ d.body = Nil /\ d.stack = Cur.stack /\ d.index = Cur.index /\ d.frames = Cur.frames
  BY <1>1 DEF Activation
<1>3. ctx' = With(d) OBVIOUS
<1> HIDE DEF d
<1> QED BY <1>2, <1>3

\* RunNext takes one module off the list and starts it unless it has failed.
LEMMA RunNextForm ==
  ASSUME Types, RunNext
  PROVE  /\ ctx # <<>> /\ Cur.kind = "list" /\ Cur.body = Nil
         /\ \E d \in Activation, m \in Cur.avail :
              /\ ctx' = With(d) /\ d.kind = Cur.kind /\ d.root = Cur.root
              /\ d.avail = Cur.avail \ {m} /\ d.frames = Cur.frames
              /\ d.body = (IF status[m] = "evaluated" THEN Nil ELSE m)
              /\ d.stack = Cur.stack /\ d.index = Cur.index
              /\ ran' = IF status[m] = "evaluated" THEN ran ELSE Append(ran, m)
<1>1. ctx # <<>> /\ Cur.kind = "list" /\ Cur.body = Nil BY DEF RunNext
<1>2. PICK m \in Cur.avail :
        /\ ctx' = With([Cur EXCEPT !.avail = @ \ {m},
                                   !.body = IF status[m] = "evaluated" THEN Nil ELSE m])
        /\ ran' = IF status[m] = "evaluated" THEN ran ELSE Append(ran, m)
  BY DEF RunNext
<1> DEFINE S == Cur.avail \ {m}
           b == IF status[m] = "evaluated" THEN Nil ELSE m
           d == [Cur EXCEPT !.avail = S, !.body = b]
<1>3. Cur \in Activation BY <1>1, CurTyped
<1>4. m \in Module /\ S \in SUBSET Module /\ b \in Module \cup {Nil} BY <1>3 DEF Activation
<1>5. ctx' = With(d) BY <1>2
<1> HIDE DEF S, b
<1>6. /\ d \in Activation /\ d.kind = Cur.kind /\ d.root = Cur.root
      /\ d.avail = S /\ d.frames = Cur.frames /\ d.body = b
      /\ d.stack = Cur.stack /\ d.index = Cur.index
  BY <1>3, <1>4 DEF Activation
<1> HIDE DEF d
<1> QED BY <1>1, <1>2, <1>5, <1>6 DEF S, b
-----------------------------------------------------------------------------
\* Evaluate pushes a walk of an unvisited module or only touches promises.
LEMMA EvaluateForm ==
  ASSUME Types, Fresh, NEW m \in Module, Evaluate(m, ctx)
  PROVE  /\ ctx' = ctx \/ (status[m] = "linked" /\ ctx' = Append(ctx, Walk(m)))
         /\ top' \in [Module -> Promises]
         /\ \A x \in Module : top'[x] = "ok" => top[x] = "ok" \/ err[x] = Nil
<1> DEFINE r == Root(m)
           new == status[r] = "linked"
           unlinked == new /\ Reach(m) \cap graph.link # {}
           v == IF unlinked \/ (status[r] = "evaluated" /\ err[r] # Nil) THEN "err"
                ELSE IF status[r] = "evaluated" THEN "ok" ELSE "pending"
<1>1. r \in Module BY DEF Root, Types, TypeOK
<1>2. \/ ctx' = ctx /\ top' = top
      \/ top' = [top EXCEPT ![r] = v] /\ ctx' = IF new /\ ~unlinked THEN Append(ctx, Walk(r)) ELSE ctx
  BY DEF Evaluate
<1>3. new => r = m BY DEF Root, Fresh, Types, TypeOK
<1>4. v \in Promises /\ (v = "ok" => err[r] = Nil \/ status[r] # "evaluated") BY DEF Promises
<1>5. v = "ok" => err[r] = Nil OBVIOUS
<1>6. top \in [Module -> Promises] BY DEF Types, TypeOK
<1> HIDE DEF r, unlinked, v
<1>7. CASE ctx' = ctx /\ top' = top BY <1>6, <1>7
<1>8. CASE top' = [top EXCEPT ![r] = v] /\ ctx' = IF new /\ ~unlinked THEN Append(ctx, Walk(r)) ELSE ctx
  <2>1. top' \in [Module -> Promises] /\ \A x \in Module : top'[x] = IF x = r THEN v ELSE top[x]
    BY <1>1, <1>4, <1>6, <1>8
  <2>2. ctx' = ctx \/ (status[m] = "linked" /\ ctx' = Append(ctx, Walk(m)))
    BY <1>3, <1>8
  <2> QED BY <2>1, <2>2, <1>5
<1> QED BY <1>2, <1>7, <1>8

\* The component that a frame's module closes, if it is one's root, is the
\* part of the stack from it on.
LEMMA FinishForm ==
  ASSUME Types, Control, Stacks, Finish
  PROVE  /\ ctx # <<>> /\ Cur.frames # <<>> /\ Cur.kind = "dfs" /\ Cur.body = Nil
         /\ \E d \in Activation, p \in 1..Len(Cur.stack), S \in SUBSET Module :
              /\ ctx' = With(d)
              /\ d.kind = Cur.kind /\ d.root = Cur.root /\ d.avail = Cur.avail
              /\ d.body = Cur.body /\ d.index = Cur.index
              /\ Len(d.frames) = Len(Cur.frames) - 1
              /\ \A k \in 1..Len(Cur.frames) - 1 : d.frames[k] = Cur.frames[k]
              /\ Cur.stack[p] = Frame.m
              /\ status' = [x \in Module |-> IF x \notin S THEN status[x]
                                            ELSE IF active[x] THEN "async" ELSE "evaluated"]
              /\ root' = [x \in Module |-> IF x \in S THEN Frame.m ELSE root[x]]
              /\ \/ /\ anc[Frame.m] # dfs[Frame.m] /\ S = {} /\ d.stack = Cur.stack
                 \/ /\ anc[Frame.m] = dfs[Frame.m]
                    /\ S = {Cur.stack[i] : i \in p..Len(Cur.stack)}
                    /\ Len(d.stack) = p - 1
                    /\ \A i \in 1..p - 1 : d.stack[i] = Cur.stack[i]
<1> DEFINE m == Frame.m
           p == CHOOSE i \in 1..Len(Cur.stack) : Cur.stack[i] = m
           S == IF anc[m] = dfs[m] THEN {Cur.stack[i] : i \in p..Len(Cur.stack)} ELSE {}
           F == SubSeq(Cur.frames, 1, Len(Cur.frames) - 1)
           T == IF S = {} THEN Cur.stack ELSE SubSeq(Cur.stack, 1, p - 1)
           d == [Cur EXCEPT !.frames = F, !.stack = T]
<1>1. ctx # <<>> /\ Cur.frames # <<>> /\ Cur.kind = "dfs" /\ Cur.body = Nil
  BY DEF Finish, Walking
<1>2. /\ Frame \in FrameType /\ m \in Module /\ Cur \in Activation
      /\ Len(Cur.frames) \in Nat \ {0} /\ Cur.frames \in Seq(FrameType)
  BY <1>1, FrameTyped
<1>3. Cur.stack \in Seq(Module) /\ Len(Cur.stack) \in Nat
  <2>1. Cur.stack \in Seq(Module) BY <1>2 DEF Activation
  <2> QED BY <2>1, LenProperties
<1>4. m \in Members(Cur.stack)
  <2>1. Len(ctx) \in 1..Len(ctx) /\ Cur = ctx[Len(ctx)] BY <1>1, CurTyped
  <2>2. Shape(graph, Cur) /\ Stacked(status, dfs, Cur) BY <2>1 DEF Control, Stacks
  <2>3. Len(Cur.frames) \in 1..Len(Cur.frames) BY <1>2
  <2>4. FrameOK(graph, Frame) BY <2>2, <2>3 DEF Shape, Frame
  <2>5. Frame.finish BY DEF Finish
  <2>6. Frame.entered BY <2>4, <2>5 DEF FrameOK
  <2> QED BY <2>2, <2>3, <2>6 DEF Stacked, Frame
<1>5. p \in 1..Len(Cur.stack) /\ Cur.stack[p] = m
  <2>1. \E i \in 1..Len(Cur.stack) : Cur.stack[i] = m BY <1>3, <1>4, MembersOf
  <2> QED BY <2>1
<1>6. /\ ctx' = With(d)
      /\ status' = [x \in Module |-> IF x \notin S THEN status[x]
                                    ELSE IF active[x] THEN "async" ELSE "evaluated"]
      /\ root' = [x \in Module |-> IF x \in S THEN Frame.m ELSE root[x]]
  BY DEF Finish
<1> HIDE DEF p
<1>7. /\ F \in Seq(FrameType) /\ Len(F) = Len(Cur.frames) - 1
      /\ \A k \in 1..Len(Cur.frames) - 1 : F[k] = Cur.frames[k]
  BY <1>2, PrefixFacts
<1>8. /\ SubSeq(Cur.stack, 1, p - 1) \in Seq(Module) /\ Len(SubSeq(Cur.stack, 1, p - 1)) = p - 1
      /\ \A k \in 1..p - 1 : SubSeq(Cur.stack, 1, p - 1)[k] = Cur.stack[k]
  BY <1>3, <1>5, PrefixFacts
<1>9. T \in Seq(Module) BY <1>3, <1>8
<1> HIDE DEF F
<1>10. S \in SUBSET Module
  <2>1. \A i \in p..Len(Cur.stack) : Cur.stack[i] \in Module BY <1>3, <1>5, ElementOfSeq
  <2> QED BY <2>1
<1>11. \/ anc[m] # dfs[m] /\ S = {} /\ T = Cur.stack
       \/ /\ anc[m] = dfs[m] /\ S = {Cur.stack[i] : i \in p..Len(Cur.stack)}
          /\ T = SubSeq(Cur.stack, 1, p - 1)
  <2>1. CASE anc[m] # dfs[m] BY <2>1
  <2>2. CASE anc[m] = dfs[m]
    <3>1. S = {Cur.stack[i] : i \in p..Len(Cur.stack)} BY <2>2
    <3>2. p \in p..Len(Cur.stack) BY <1>3, <1>5
    <3>3. S # {} BY <3>1, <3>2
    <3> QED BY <2>2, <3>1, <3>3
  <2> QED BY <2>1, <2>2
<1> HIDE DEF S, T
<1>12. /\ d \in Activation /\ d.kind = Cur.kind /\ d.root = Cur.root /\ d.avail = Cur.avail
       /\ d.body = Cur.body /\ d.index = Cur.index /\ d.frames = F /\ d.stack = T
  BY <1>2, <1>7, <1>9 DEF Activation
<1> HIDE DEF d
<1>13. \/ anc[m] # dfs[m] /\ S = {} /\ d.stack = Cur.stack
       \/ /\ anc[m] = dfs[m] /\ S = {Cur.stack[i] : i \in p..Len(Cur.stack)}
          /\ Len(d.stack) = p - 1 /\ \A i \in 1..p - 1 : d.stack[i] = Cur.stack[i]
  BY <1>8, <1>11, <1>12
<1> QED BY <1>1, <1>5, <1>6, <1>7, <1>10, <1>12, <1>13
-----------------------------------------------------------------------------
\* Types, without the stack of activations.
Plain ==
  /\ graph.req \in [Module -> Seq(Module)] /\ graph.tla \subseteq Module
  /\ status \in [Module -> Statuses] /\ err \in [Module -> Module \cup {Nil}]
  /\ top \in [Module -> Promises] /\ exec \in [Module -> Promises]
  /\ active \in [Module -> BOOLEAN] /\ root \in [Module -> Module]
  /\ dfs \in [Module -> Nat] /\ anc \in [Module -> Nat]
  /\ pend \in [Module -> Nat] /\ order \in [Module -> Nat]
  /\ parents \in [Module -> Seq(Module)]
  /\ jobs \in Seq(Module) /\ ran \in Seq(Module) /\ done \subseteq Module
  /\ clock \in Nat /\ called \subseteq Module \X Module

\* The typing of the C stack apart from that of the records.
LEMMA TypesArePlain ==
  /\ Types <=> Plain /\ ctx \in Seq(Activation)
  /\ Types' <=> Plain' /\ ctx' \in Seq(Activation)
<1>1. ASSUME NEW s \in Seq(Activation)
      PROVE  \A i \in 1..Len(s) : s[i].body \in Module \cup {Nil} /\ s[i].avail \subseteq Module
  <2>1. \A i \in 1..Len(s) : s[i] \in Activation BY ElementOfSeq
  <2> QED BY <2>1 DEF Activation
<1>2. Types <=> Plain /\ ctx \in Seq(Activation) BY <1>1 DEF Types, TypeOK, Plain
<1>3. Types' <=> Plain' /\ ctx' \in Seq(Activation) BY <1>1 DEF Types, TypeOK, Plain
<1> QED BY <1>2, <1>3

\* module_set_error keeps the types of what it writes.
LEMMA SetErrorTyped ==
  ASSUME Plain, NEW S, NEW e \in Module, SetError(S, e)
  PROVE  /\ status' \in [Module -> Statuses] /\ err' \in [Module -> Module \cup {Nil}]
         /\ top' \in [Module -> Promises] /\ active' \in [Module -> BOOLEAN]
<1>1. status' \in [Module -> Statuses] BY DEF Plain, SetError, Statuses
<1>2. err' \in [Module -> Module \cup {Nil}] BY DEF Plain, SetError
<1>3. top' \in [Module -> Promises] BY DEF Plain, SetError, Promises
<1>4. active' \in [Module -> BOOLEAN]
  <2>1. \A m \in Module : (m \notin S /\ active[m]) \in BOOLEAN OBVIOUS
  <2> QED BY <2>1 DEF SetError
<1> QED BY <1>1, <1>2, <1>3, <1>4

\* A completion keeps the types of what it writes.
LEMMA CompleteTyped ==
  ASSUME Plain, NEW m \in Module, Complete(m)
  PROVE  /\ status' \in [Module -> Statuses] /\ err' \in [Module -> Module \cup {Nil}]
         /\ top' \in [Module -> Promises] /\ active' \in [Module -> BOOLEAN]
BY DEF Plain, Complete, Statuses, Promises

\* The stack of activations in each step.
LEMMA CtxTyped ==
  ASSUME Types, Control, Stacks, Fresh, [Next]_vars
  PROVE  ctx' \in Seq(Activation)
<1>1. ctx \in Seq(Activation) BY DEF Types
<1>2. ASSUME ctx # <<>>, NEW d \in Activation, ctx' = With(d) PROVE ctx' \in Seq(Activation)
  BY <1>2, WithFacts
<1>3. ASSUME ctx # <<>>, ctx' = Popped PROVE ctx' \in Seq(Activation) BY <1>3, PoppedFacts
<1>4. ASSUME NEW m \in Module, Evaluate(m, ctx) PROVE ctx' \in Seq(Activation)
  <2>1. CASE ctx' = ctx BY <2>1, <1>1
  <2>2. CASE ctx' = Append(ctx, Walk(m)) BY <2>2, WalkTyped, PushFacts
  <2> QED BY <2>1, <2>2, <1>4, EvaluateForm
<1>5. CASE Enter BY <1>5, <1>2, EnterForm
<1>6. CASE Examine
  <2>1. CASE ctx' = Popped BY <2>1, <1>3, <1>6 DEF Examine, Walking
  <2>2. CASE ctx' # Popped BY <2>2, <1>2, <1>6, ExamineForm
  <2> QED BY <2>1, <2>2
<1>7. CASE Request BY <1>7, <1>2, RequestForm
<1>8. CASE Execute BY <1>8, <1>2, ExecuteForm
<1>9. CASE Finish BY <1>9, <1>2, FinishForm
<1>10. CASE EndWalk \/ EndList BY <1>10, <1>3 DEF EndWalk, EndList
<1>11. CASE ctx # <<>> /\ ctx' = With([Cur EXCEPT !.body = Nil])
  BY <1>11, <1>2, BodyForm
<1>12. CASE BodyReturns BY <1>11, <1>12 DEF BodyReturns
<1>13. CASE BodyThrows BY <1>3, <1>11, <1>13 DEF BodyThrows, Throw
<1>14. ASSUME NEW p \in {"pending", "ok", "err"}, BodyAwaits(p) PROVE ctx' \in Seq(Activation)
  BY <1>11, <1>14 DEF BodyAwaits
<1>15. CASE Callback
  <2>1. ctx = <<>> BY <1>15 DEF Callback
  <2>2. CASE ctx' = ctx BY <2>2, <1>1
  <2>3. CASE ctx' = <<List(Available(Head(jobs)))>>
    <3>1. Available(Head(jobs)) \in SUBSET Module BY DEF Available
    <3> QED BY <2>3, <3>1, ListTyped
  <2> QED BY <2>2, <2>3, <1>15 DEF Callback, Fulfilled, Rejected
<1>16. CASE RunNext BY <1>16, <1>2, RunNextForm
<1>17. ASSUME NEW m \in Module, Import(m) \/ Require(m) PROVE ctx' \in Seq(Activation)
  BY <1>4, <1>17 DEF Import, Require
<1>18. ASSUME NEW m \in Module, NEW p \in {"ok", "err"}, Settle(m, p)
       PROVE  ctx' \in Seq(Activation)
  BY <1>1, <1>18 DEF Settle
<1>19. CASE UNCHANGED vars BY <1>1, <1>19 DEF vars
<1> QED BY <1>5, <1>6, <1>7, <1>8, <1>9, <1>10, <1>12, <1>13, <1>14, <1>15, <1>16, <1>17,
           <1>18, <1>19 DEF Next, Run

\* The body that an activation runs is a module.
LEMMA CurBody ==
  ASSUME Types, ctx # <<>>, Cur.body # Nil
  PROVE  Cur.body \in Module
BY CurTyped DEF Activation

\* The last frame of the innermost activation, and what it examines.
LEMMA CurOK ==
  ASSUME Types, Control, Stacks, ctx # <<>>
  PROVE  /\ Shape(graph, Cur) /\ Stacked(status, dfs, Cur)
         /\ Cur.frames # <<>> => FrameOK(graph, Frame)
<1>1. Len(ctx) \in 1..Len(ctx) /\ Cur = ctx[Len(ctx)] BY CurTyped
<1>2. Shape(graph, Cur) /\ Stacked(status, dfs, Cur) BY <1>1 DEF Control, Stacks
<1>3. ASSUME Cur.frames # <<>> PROVE FrameOK(graph, Frame)
  <2>1. Len(Cur.frames) \in 1..Len(Cur.frames) BY <1>3, FrameTyped
  <2> QED BY <1>2, <2>1 DEF Shape, Frame
<1> QED BY <1>2, <1>3

\* The request under examination is one of the module's requests.
LEMMA ExamineTyped ==
  ASSUME Types, Control, Stacks, Examine
  PROVE  /\ Frame.m \in Module /\ Req(Frame.m)[Frame.next - 1] \in Module
         /\ Req(Frame.m)[Frame.next - 1] \in Requested(Frame.m)
<1>1. ctx # <<>> /\ Cur.frames # <<>> /\ Frame.waiting BY DEF Examine, Walking
<1>2. Frame.m \in Module /\ Frame.next \in Nat \ {0} BY <1>1, FrameTyped
<1>3. Frame.next >= 2 /\ Frame.next <= Len(Req(Frame.m)) + 1
  BY <1>1, CurOK DEF FrameOK, Req
<1>4. Len(Req(Frame.m)) \in Nat BY <1>2, RequestTyped
<1>5. Frame.next - 1 \in 1..Len(Req(Frame.m)) BY <1>2, <1>3, <1>4
<1> QED BY <1>2, <1>5, RequestTyped

\* Every step keeps the records typed.
LEMMA PlainPreserved ==
  ASSUME Types, Control, Stacks, Fresh, Once, Outcomes, [Next]_vars
  PROVE  Plain'
<1>1. Plain BY TypesArePlain
<1>2. ASSUME NEW m \in Module, Evaluate(m, ctx) PROVE top' \in [Module -> Promises]
  BY <1>2, EvaluateForm
<1>3. CASE Enter
  <2>1. Frame.m \in Module /\ Cur.index \in Nat
    <3>1. ctx # <<>> /\ Cur.frames # <<>> BY <1>3, EnterForm
    <3> QED BY <3>1, FrameTyped DEF Activation
  <2> QED BY <1>1, <1>3, <2>1 DEF Enter, Plain, Statuses, cntVars, hisVars
<1>4. CASE Examine
  <2> DEFINE m == Frame.m
             q == Req(m)[Frame.next - 1]
             r == IF status[q] = "evaluating" THEN q ELSE root[q]
  <2>1. m \in Module /\ q \in Module BY <1>4, ExamineTyped
  <2>2. r \in Module BY <2>1, <1>1 DEF Plain
  <2>3. anc' \in [Module -> Nat]
    <3>1. LowLink(m, q) \in Nat BY <2>1, <1>1 DEF LowLink, Plain
    <3>2. anc' = [anc EXCEPT ![m] = LowLink(m, q)] BY <1>4 DEF Examine
    <3> HIDE DEF m, q
    <3> QED BY <3>1, <3>2, <2>1, <1>1 DEF Plain
  <2>4. UNCHANGED <<graph, dfs, root, order, exec, jobs, clock, ran, done, called>>
    BY <1>4 DEF Examine, hisVars
  <2>5. CASE err[r] # Nil
    <3>1. SetError(Members(Cur.stack) \cup {Cur.root}, err[r]) /\ UNCHANGED <<pend, parents>>
      BY <1>4, <2>5 DEF Examine, Throw
    <3>2. err[r] \in Module BY <2>2, <2>5, <1>1 DEF Plain
    <3>3. /\ status' \in [Module -> Statuses] /\ err' \in [Module -> Module \cup {Nil}]
          /\ top' \in [Module -> Promises] /\ active' \in [Module -> BOOLEAN]
      BY <3>1, <3>2, <1>1, SetErrorTyped
    <3> QED BY <1>1, <2>3, <2>4, <3>1, <3>3 DEF Plain
  <2>6. CASE err[r] = Nil
    <3>1. /\ pend' = [pend EXCEPT ![m] = IF active[r] THEN @ + 1 ELSE @]
          /\ parents' = (IF active[r] THEN Register(r, m) ELSE parents) /\ UNCHANGED recVars
      BY <1>4, <2>6 DEF Examine
    <3>2. parents' \in [Module -> Seq(Module)]
      <4>1. parents[r] \in Seq(Module) BY <2>2, <1>1 DEF Plain
      <4>2. Append(parents[r], m) \in Seq(Module) BY <4>1, <2>1, AppendProperties
      <4> HIDE DEF r, m
      <4> QED BY <3>1, <4>2, <1>1 DEF Plain, Register
    <3>3. pend' \in [Module -> Nat] BY <3>1, <2>1, <1>1, SMTT(30) DEF Plain
    <3> QED BY <1>1, <2>3, <2>4, <3>1, <3>2, <3>3 DEF Plain, recVars
  <2> QED BY <2>5, <2>6
<1>5. CASE Request BY <1>1, <1>5 DEF Request, Plain, recVars, dfsVars, asyVars, hisVars
<1>6. CASE Execute
  <2>1. Frame.m \in Module
    <3>1. ctx # <<>> /\ Cur.frames # <<>> BY <1>6, ExecuteForm
    <3> QED BY <3>1, FrameTyped
  <2> DEFINE m == Frame.m
             a == pend[m] > 0 \/ m \in graph.tla
  <2>2. /\ active' = [active EXCEPT ![m] = @ \/ a]
        /\ order' = [order EXCEPT ![m] = IF a THEN clock ELSE @]
        /\ clock' = (IF a THEN clock + 1 ELSE clock) /\ (ran' = ran \/ ran' = Append(ran, m))
        /\ UNCHANGED <<graph, status, err, top, dfs, anc, root, pend, parents, exec, jobs, done, called>>
    BY <1>6 DEF Execute, dfsVars
  <2>3. ran' \in Seq(Module)
    <3>1. ran \in Seq(Module) BY <1>1 DEF Plain
    <3> QED BY <2>1, <2>2, <3>1, MembersAppend
  <2>4. a \in BOOLEAN OBVIOUS
  <2> HIDE DEF m, a
  <2>5. active' \in [Module -> BOOLEAN]
    <3>1. (active[m] \/ a) \in BOOLEAN OBVIOUS
    <3> QED BY <2>2, <3>1, <1>1 DEF Plain
  <2>6. order' \in [Module -> Nat] /\ clock' \in Nat
    <3>1. order \in [Module -> Nat] /\ clock \in Nat BY <1>1 DEF Plain
    <3>2. clock' \in Nat BY <2>2, <3>1
    <3>3. order' \in [Module -> Nat] BY <2>2, <3>1
    <3> QED BY <3>2, <3>3
  <2> QED BY <1>1, <2>2, <2>3, <2>5, <2>6 DEF Plain
<1>7. CASE Finish
  <2>1. Frame.m \in Module
    <3>1. ctx # <<>> /\ Cur.frames # <<>> BY <1>7, FinishForm
    <3> QED BY <3>1, FrameTyped
  <2>2. PICK S \in SUBSET Module :
          /\ status' = [x \in Module |-> IF x \notin S THEN status[x]
                                        ELSE IF active[x] THEN "async" ELSE "evaluated"]
          /\ root' = [x \in Module |-> IF x \in S THEN Frame.m ELSE root[x]]
    BY <1>7, FinishForm
  <2>3. UNCHANGED <<graph, err, top, active, dfs, anc, asyVars, hisVars>> BY <1>7 DEF Finish
  <2>4. status' \in [Module -> Statuses] /\ root' \in [Module -> Module]
    BY <1>1, <2>1, <2>2 DEF Plain, Statuses
  <2> QED BY <1>1, <2>3, <2>4 DEF Plain, asyVars, hisVars
<1>8. CASE EndWalk
  <2>1. top' \in [Module -> Promises] BY <1>1, <1>8 DEF EndWalk, Plain, Promises
  <2> QED BY <1>1, <1>8, <2>1 DEF EndWalk, Plain, dfsVars, asyVars, hisVars
<1>9. CASE EndList BY <1>1, <1>9 DEF EndList, Plain, recVars, dfsVars, asyVars, hisVars
<1>10. CASE BodyReturns
  <2>1. Cur.body \in Module BY <1>10, CurBody DEF BodyReturns
  <2>2. /\ status' \in [Module -> Statuses] /\ err' \in [Module -> Module \cup {Nil}]
        /\ top' \in [Module -> Promises] /\ active' \in [Module -> BOOLEAN]
    <3>1. CASE Complete(Cur.body) BY <1>1, <2>1, <3>1, CompleteTyped
    <3>2. CASE UNCHANGED recVars BY <1>1, <3>2 DEF recVars, Plain
    <3> QED BY <1>10, <3>1, <3>2 DEF BodyReturns
  <2> QED BY <1>1, <1>10, <2>1, <2>2 DEF BodyReturns, Plain, dfsVars, asyVars
<1>11. CASE BodyThrows
  <2>1. Cur.body \in Module BY <1>11, CurBody DEF BodyThrows
  <2>2. \E S : SetError(S, Cur.body) BY <1>11 DEF BodyThrows, Throw
  <2>3. /\ status' \in [Module -> Statuses] /\ err' \in [Module -> Module \cup {Nil}]
        /\ top' \in [Module -> Promises] /\ active' \in [Module -> BOOLEAN]
    BY <1>1, <2>1, <2>2, SetErrorTyped
  <2> QED BY <1>1, <1>11, <2>3 DEF BodyThrows, Plain, dfsVars, asyVars, hisVars
<1>12. ASSUME NEW p \in {"pending", "ok", "err"}, BodyAwaits(p) PROVE Plain'
  <2>1. Cur.body \in Module BY <1>12, CurBody DEF BodyAwaits
  <2>2. jobs' \in Seq(Module) BY <1>1, <1>12, <2>1, AppendProperties DEF BodyAwaits, Plain
  <2>3. exec' \in [Module -> Promises] BY <1>1, <1>12 DEF BodyAwaits, Plain, Promises
  <2> QED BY <1>1, <1>12, <2>1, <2>2, <2>3 DEF BodyAwaits, Plain, recVars, dfsVars
<1>13. CASE Callback
  <2>1. jobs # <<>> /\ jobs \in Seq(Module) BY <1>1, <1>13 DEF Callback, Plain
  <2>2. Head(jobs) \in Module /\ Tail(jobs) \in Seq(Module) BY <2>1, HeadTailProperties
  <2>3. jobs' \in Seq(Module) BY <1>13, <2>2 DEF Callback
  <2>4. UNCHANGED <<graph, dfsVars, order, parents, exec, clock, hisVars>> BY <1>13 DEF Callback
  <2>5. CASE UNCHANGED <<recVars, pend>>
    BY <1>1, <2>3, <2>4, <2>5 DEF Plain, recVars, dfsVars, hisVars
  <2>6. CASE Rejected(Head(jobs))
    <3>1. /\ status' \in [Module -> Statuses] /\ err' \in [Module -> Module \cup {Nil}]
          /\ top' \in [Module -> Promises] /\ active' \in [Module -> BOOLEAN]
      BY <1>1, <2>2, <2>6, SetErrorTyped DEF Rejected
    <3> QED BY <1>1, <2>3, <2>4, <2>6, <3>1 DEF Plain, Rejected, dfsVars, hisVars
  <2>7. CASE Fulfilled(Head(jobs)) /\ status[Head(jobs)] # "evaluated"
    <3> DEFINE m == Head(jobs)
               S == Available(m)
    <3>1. Complete(m) BY <2>7 DEF Fulfilled
    <3>2. /\ status' \in [Module -> Statuses] /\ err' \in [Module -> Module \cup {Nil}]
          /\ top' \in [Module -> Promises] /\ active' \in [Module -> BOOLEAN]
      BY <1>1, <2>2, <3>1, CompleteTyped
    <3>3. pend[m] = 0
      <4>1. exec[m] # "none" BY <2>7 DEF Fulfilled
      <4> QED BY <2>2, <4>1 DEF Outcomes, Once
    <3>4. pend' = [p \in Module |-> IF p \in S THEN 0
                     ELSE IF Waits(p) THEN pend[p] - Edges(Sources(S, m), p) ELSE pend[p]]
      BY <2>7 DEF Fulfilled
    <3>5. \A p \in Module \ S : Waits(p) =>
            Edges(Sources(S, m), p) \in Nat /\ Edges(Sources(S, m), p) < pend[p]
      BY <2>2, <3>3, AvailableFacts DEF Waits
    <3> HIDE DEF S
    <3>6. \A p \in Module : pend[p] \in Nat BY <1>1 DEF Plain
    <3>7. \A p \in Module : (IF p \in S THEN 0 ELSE IF Waits(p)
                 THEN pend[p] - Edges(Sources(S, m), p) ELSE pend[p]) \in Nat
      BY <3>5, <3>6
    <3>8. pend' \in [Module -> Nat] BY <3>4, <3>7
    <3> QED BY <1>1, <2>3, <2>4, <3>2, <3>8 DEF Plain, dfsVars, hisVars
  <2> QED BY <1>13, <2>5, <2>6, <2>7 DEF Callback, Fulfilled
<1>14. CASE RunNext
  <2>1. PICK m \in Cur.avail : ran' = ran \/ ran' = Append(ran, m) BY <1>14 DEF RunNext
  <2>2. m \in Module
    <3>1. Cur \in Activation BY <1>14, CurTyped DEF RunNext
    <3> QED BY <3>1 DEF Activation
  <2>3. ran' \in Seq(Module)
    <3>1. ran \in Seq(Module) BY <1>1 DEF Plain
    <3> QED BY <2>1, <2>2, <3>1, MembersAppend
  <2> QED BY <1>1, <1>14, <2>3 DEF RunNext, Plain, recVars, dfsVars, asyVars
<1>15. ASSUME NEW m \in Module, Import(m) PROVE Plain'
  <2>1. top' \in [Module -> Promises] BY <1>2, <1>15 DEF Import
  <2> QED BY <1>1, <1>15, <2>1 DEF Import, Plain, dfsVars, asyVars, hisVars
<1>16. ASSUME NEW m \in Module, Require(m) PROVE Plain'
  <2>1. top' \in [Module -> Promises] BY <1>2, <1>16 DEF Require
  <2>2. Cur.body \in Module BY <1>16, CurBody DEF Require
  <2>3. called' \subseteq Module \X Module BY <1>1, <1>16, <2>2, SMTT(30) DEF Require, Plain
  <2> QED BY <1>1, <1>16, <2>1, <2>3 DEF Require, Plain, dfsVars, asyVars
<1>17. ASSUME NEW m \in Module, NEW p \in {"ok", "err"}, Settle(m, p) PROVE Plain'
  <2>1. jobs' \in Seq(Module) BY <1>1, <1>17, AppendProperties DEF Settle, Plain
  <2>2. exec' \in [Module -> Promises] BY <1>1, <1>17 DEF Settle, Plain, Promises
  <2> QED BY <1>1, <1>17, <2>1, <2>2 DEF Settle, Plain, recVars, dfsVars
<1>18. CASE UNCHANGED vars BY <1>1, <1>18 DEF vars, Plain, recVars, dfsVars, asyVars, hisVars
<1> QED BY <1>3, <1>4, <1>5, <1>6, <1>7, <1>8, <1>9, <1>10, <1>11, <1>12, <1>13, <1>14,
           <1>15, <1>16, <1>17, <1>18 DEF Next, Run

\* Every step keeps the types.
LEMMA TypesPreserved ==
  ASSUME Types, Control, Stacks, Fresh, Once, Outcomes, [Next]_vars
  PROVE  Types'
BY CtxTyped, PlainPreserved, TypesArePlain
-----------------------------------------------------------------------------
\* Control: how the shape of one activation, and of their stack, is kept.
LEMMA TopControl ==
  ASSUME Types, Control, graph' = graph, ctx # <<>>, NEW d \in Activation, ctx' = With(d),
         d.kind = Cur.kind, Shape(graph, d)
  PROVE  Control'
<1>1. /\ Len(ctx) \in Nat \ {0} /\ Cur = ctx[Len(ctx)] BY CurTyped
<1>2. /\ Len(ctx') = Len(ctx) /\ ctx'[Len(ctx)] = d
      /\ \A i \in 1..Len(ctx) - 1 : ctx'[i] = ctx[i]
  BY WithFacts
<1>3. \A i \in 1..Len(ctx) : i = Len(ctx) \/ i \in 1..Len(ctx) - 1 BY <1>1
<1>4. \A i \in 2..Len(ctx) : i = Len(ctx) \/ i \in 1..Len(ctx) - 1 BY <1>1
<1>5. \A i \in 1..Len(ctx') : Shape(graph, ctx'[i]) BY <1>2, <1>3 DEF Control
<1>6. \A i \in 2..Len(ctx') : ctx'[i].kind = "dfs" BY <1>1, <1>2, <1>4 DEF Control
<1>7. \A i \in 1..Len(ctx') - 1 : ctx'[i].body # Nil BY <1>2 DEF Control
<1> QED BY <1>5, <1>6, <1>7 DEF Control

\* A return keeps the shape of the C stack.
LEMMA PopControl ==
  ASSUME Types, Control, graph' = graph, ctx # <<>>, ctx' = Popped
  PROVE  Control'
<1>1. Len(ctx) \in Nat \ {0} BY CurTyped
<1>2. Len(ctx') = Len(ctx) - 1 /\ \A i \in 1..Len(ctx) - 1 : ctx'[i] = ctx[i] BY PoppedFacts
<1>3. /\ \A i \in 1..Len(ctx) - 1 : i \in 1..Len(ctx)
      /\ \A i \in 2..Len(ctx) - 1 : i \in 2..Len(ctx) /\ i \in 1..Len(ctx) - 1
      /\ \A i \in 1..Len(ctx) - 1 - 1 : i \in 1..Len(ctx) - 1
  BY <1>1
<1>5. \A i \in 1..Len(ctx') : Shape(graph, ctx'[i]) BY <1>2, <1>3 DEF Control
<1>6. \A i \in 2..Len(ctx') : ctx'[i].kind = "dfs" BY <1>2, <1>3 DEF Control
<1>7. \A i \in 1..Len(ctx') - 1 : ctx'[i].body # Nil BY <1>2, <1>3 DEF Control
<1> QED BY <1>5, <1>6, <1>7 DEF Control

\* A call of a new walk keeps the shape of the C stack.
LEMMA PushControl ==
  ASSUME Types, Control, graph' = graph, NEW m \in Module, ctx' = Append(ctx, Walk(m)),
         ctx = <<>> \/ Cur.body # Nil
  PROVE  Control'
<1>1. /\ Len(ctx') = Len(ctx) + 1 /\ ctx'[Len(ctx) + 1] = Walk(m) /\ Len(ctx) \in Nat
      /\ \A i \in 1..Len(ctx) : ctx'[i] = ctx[i]
  BY WalkTyped, PushFacts
<1>2. Shape(graph, Walk(m)) /\ Walk(m).kind = "dfs"
  <2>1. Len(graph.req[m]) \in Nat BY RequestTyped DEF Req
  <2>2. FrameOK(graph, NewFrame(m)) BY <2>1 DEF FrameOK, NewFrame
  <2>3. /\ Walk(m).kind = "dfs" /\ Walk(m).root = m /\ Walk(m).avail = {} /\ Walk(m).body = Nil
        /\ Len(Walk(m).frames) = 1 /\ Walk(m).frames[1] = NewFrame(m) /\ NewFrame(m).m = m
    BY WalkTyped DEF Walk, NewFrame
  <2> QED BY <2>2, <2>3 DEF Shape
<1>3. \A i \in 1..Len(ctx) + 1 : i \in 1..Len(ctx) \/ i = Len(ctx) + 1 BY <1>1
<1>4. \A i \in 2..Len(ctx) + 1 : (i \in 1..Len(ctx) /\ i \in 2..Len(ctx)) \/ i = Len(ctx) + 1
  BY <1>1
<1>5. \A i \in 1..Len(ctx') : Shape(graph, ctx'[i]) BY <1>1, <1>2, <1>3 DEF Control
<1>6. \A i \in 2..Len(ctx') : ctx'[i].kind = "dfs" BY <1>1, <1>2, <1>4 DEF Control
<1>7. \A i \in 1..Len(ctx') - 1 : ctx'[i].body # Nil
  <2> SUFFICES ASSUME NEW i \in 1..Len(ctx) PROVE ctx[i].body # Nil BY <1>1
  <2>1. ctx # <<>> /\ (i = Len(ctx) \/ i \in 1..Len(ctx) - 1) BY <1>1
  <2> QED BY <2>1 DEF Control, Cur
<1> QED BY <1>5, <1>6, <1>7 DEF Control

\* A walk whose last frame is replaced keeps its shape if the frame is right.
LEMMA FrameShape ==
  ASSUME Types, Control, Stacks, ctx # <<>>, Cur.frames # <<>>, Cur.kind = "dfs",
         NEW d \in Activation, NEW f \in FrameType, FrameSet(Cur, d, f),
         d.kind = Cur.kind, d.root = Cur.root, d.avail = Cur.avail, f.m = Frame.m,
         FrameOK(graph, f), d.body # Nil => d.body = f.m /\ f.finish
  PROVE  Shape(graph, d)
<1>1. Shape(graph, Cur) BY CurOK
<1>2. Len(Cur.frames) \in Nat \ {0} /\ Frame = Cur.frames[Len(Cur.frames)] BY FrameTyped
<1>3. /\ Len(d.frames) = Len(Cur.frames) /\ d.frames[Len(Cur.frames)] = f
      /\ \A k \in 1..Len(Cur.frames) - 1 : d.frames[k] = Cur.frames[k]
  BY DEF FrameSet
<1>4. \A k \in 1..Len(Cur.frames) : k = Len(Cur.frames) \/ k \in 1..Len(Cur.frames) - 1 BY <1>2
<1>5. \A k \in 1..Len(d.frames) : FrameOK(graph, d.frames[k]) BY <1>1, <1>3, <1>4 DEF Shape
<1>6. \A k \in 1..Len(d.frames) - 1 : d.frames[k].waiting BY <1>1, <1>3 DEF Shape
<1>7. d.frames[1].m = d.root
  <2>1. Cur.frames[1].m = Cur.root BY <1>1 DEF Shape
  <2>2. CASE Len(Cur.frames) = 1 BY <1>2, <1>3, <2>1, <2>2
  <2>3. CASE Len(Cur.frames) # 1 BY <1>2, <1>3, <2>1, <2>3
  <2> QED BY <2>2, <2>3
<1>8. d.frames # <<>> BY <1>2, <1>3
<1> QED BY <1>1, <1>3, <1>5, <1>6, <1>7, <1>8 DEF Shape

\* Every step keeps the shape of the C stack.
LEMMA ControlPreserved ==
  ASSUME Types, Control, Stacks, Fresh, [Next]_vars
  PROVE  Control'
<1>0. CASE UNCHANGED <<graph, ctx>> BY <1>0 DEF Control
<1>1. CASE Enter
  <2>1. graph' = graph BY <1>1 DEF Enter
  <2>2. ctx # <<>> /\ Cur.frames # <<>> /\ Cur.kind = "dfs" BY <1>1, EnterForm
  <2>3. PICK d \in Activation, f \in FrameType :
          /\ ctx' = With(d) /\ FrameSet(Cur, d, f)
          /\ d.kind = Cur.kind /\ d.root = Cur.root /\ d.avail = Cur.avail /\ d.body = Nil
          /\ f.m = Frame.m /\ f.next = Frame.next /\ f.entered
          /\ f.waiting = Frame.waiting /\ f.finish = Frame.finish
    BY <1>1, EnterForm
  <2>4. FrameOK(graph, f) BY <2>2, <2>3, CurOK DEF FrameOK
  <2>5. Shape(graph, d) BY <2>2, <2>3, <2>4, FrameShape
  <2> QED BY <2>1, <2>2, <2>3, <2>5, TopControl
<1>2. CASE Examine
  <2>1. graph' = graph BY <1>2 DEF Examine
  <2>2. ctx # <<>> /\ Cur.frames # <<>> /\ Cur.kind = "dfs" /\ Cur.body = Nil
    BY <1>2 DEF Examine, Walking
  <2>3. CASE ctx' = Popped BY <2>1, <2>2, <2>3, PopControl
  <2>4. CASE ctx' # Popped
    <3>1. PICK d \in Activation, f \in FrameType :
            /\ ctx' = With(d) /\ FrameSet(Cur, d, f)
            /\ d.kind = Cur.kind /\ d.root = Cur.root /\ d.avail = Cur.avail /\ d.body = Nil
            /\ f.m = Frame.m /\ f.next = Frame.next /\ f.entered = Frame.entered
            /\ ~f.waiting /\ f.finish = Frame.finish
      BY <1>2, <2>2, <2>4, ExamineForm
    <3>2. FrameOK(graph, f) BY <2>2, <3>1, CurOK DEF FrameOK
    <3>3. Shape(graph, d) BY <2>2, <3>1, <3>2, FrameShape
    <3> QED BY <2>1, <2>2, <3>1, <3>3, TopControl
  <2> QED BY <2>3, <2>4
<1>3. CASE Request
  <2>1. graph' = graph /\ Frame.entered /\ Frame.next <= Len(Req(Frame.m)) BY <1>3 DEF Request
  <2>2. ctx # <<>> /\ Cur.frames # <<>> /\ Cur.kind = "dfs" /\ Cur.body = Nil BY <1>3, RequestForm
  <2> DEFINE q == Req(Frame.m)[Frame.next]
             n == Len(Cur.frames)
  <2>3. PICK d \in Activation, f \in FrameType :
          /\ ctx' = With(d)
          /\ d.kind = Cur.kind /\ d.root = Cur.root /\ d.avail = Cur.avail /\ d.body = Nil
          /\ f.m = Frame.m /\ f.next = Frame.next + 1 /\ f.entered = Frame.entered
          /\ f.waiting /\ f.finish = Frame.finish
          /\ \/ FrameSet(Cur, d, f)
             \/ /\ Len(d.frames) = n + 1 /\ d.frames[n] = f
                /\ \A k \in 1..n - 1 : d.frames[k] = Cur.frames[k]
                /\ d.frames[n + 1] = NewFrame(q)
    BY <1>3, <2>2, RequestForm
  <2>4. /\ Frame.m \in Module /\ Frame.next \in Nat \ {0} /\ Len(Req(Frame.m)) \in Nat
        /\ n \in Nat \ {0} /\ Frame = Cur.frames[n]
    BY <2>2, FrameTyped, RequestTyped
  <2>5. FrameOK(graph, f)
    <3>1. FrameOK(graph, Frame) BY <2>2, CurOK
    <3>2. ~Frame.finish BY <2>1, <2>4, <3>1 DEF FrameOK, Req
    <3>3. f.next >= 2 /\ f.next <= Len(Req(f.m)) + 1 BY <2>1, <2>3, <2>4
    <3> QED BY <2>1, <2>3, <3>2, <3>3 DEF FrameOK, Req
  <2>6. CASE FrameSet(Cur, d, f)
    <3>1. Shape(graph, d) BY <2>2, <2>3, <2>5, <2>6, FrameShape
    <3> QED BY <2>1, <2>2, <2>3, <3>1, TopControl
  <2>7. CASE /\ Len(d.frames) = n + 1 /\ d.frames[n] = f
             /\ \A k \in 1..n - 1 : d.frames[k] = Cur.frames[k]
             /\ d.frames[n + 1] = NewFrame(q)
    <3>1. q \in Module BY <2>1, <2>4, RequestTyped
    <3>2. FrameOK(graph, NewFrame(q))
      <4>1. Len(graph.req[q]) \in Nat BY <3>1, RequestTyped DEF Req
      <4> HIDE DEF q
      <4> QED BY <4>1 DEF FrameOK, NewFrame
    <3>3. Shape(graph, Cur) BY <2>2, CurOK
    <3> HIDE DEF q, n
    <3>4. \A k \in 1..n + 1 : k = n + 1 \/ k = n \/ k \in 1..n - 1 BY <2>4
    <3>5. \A k \in 1..n - 1 : k \in 1..n BY <2>4
    <3>6. \A k \in 1..Len(d.frames) : FrameOK(graph, d.frames[k])
      BY <2>5, <2>7, <3>2, <3>3, <3>4, <3>5 DEF Shape, n
    <3>7. \A k \in 1..Len(d.frames) - 1 : d.frames[k].waiting
      <4>1. \A k \in 1..n + 1 - 1 : k = n \/ k \in 1..n - 1 BY <2>4
      <4> QED BY <2>3, <2>7, <3>3, <4>1, SMTT(30) DEF Shape, n
    <3>8. d.frames[1].m = d.root
      <4>1. Cur.frames[1].m = Cur.root BY <2>2, <3>3 DEF Shape
      <4>2. CASE n = 1 BY <2>3, <2>4, <2>7, <4>1, <4>2
      <4>3. CASE n # 1
        <5>1. 1 \in 1..n - 1 BY <2>4, <4>3
        <5> QED BY <2>3, <2>7, <4>1, <5>1
      <4> QED BY <4>2, <4>3
    <3>9. Shape(graph, d) BY <2>2, <2>3, <3>3, <3>6, <3>7, <3>8 DEF Shape
    <3> QED BY <2>1, <2>2, <2>3, <3>9, TopControl
  <2> QED BY <2>3, <2>6, <2>7
<1>4. CASE Execute
  <2>1. /\ graph' = graph /\ Frame.entered /\ ~Frame.waiting
        /\ Frame.next > Len(Req(Frame.m))
    BY <1>4 DEF Execute
  <2>2. ctx # <<>> /\ Cur.frames # <<>> /\ Cur.kind = "dfs" BY <1>4, ExecuteForm
  <2>3. PICK d \in Activation, f \in FrameType :
          /\ ctx' = With(d) /\ FrameSet(Cur, d, f)
          /\ d.kind = Cur.kind /\ d.root = Cur.root /\ d.avail = Cur.avail
          /\ d.body = (IF pend[Frame.m] > 0 THEN Nil ELSE Frame.m)
          /\ f.m = Frame.m /\ f.next = Frame.next /\ f.entered = Frame.entered
          /\ f.waiting = Frame.waiting /\ f.finish
    BY <1>4, ExecuteForm
  <2>4. FrameOK(graph, f) BY <2>1, <2>2, <2>3, CurOK DEF FrameOK, Req
  <2>5. Shape(graph, d) BY <2>2, <2>3, <2>4, FrameShape
  <2> QED BY <2>1, <2>2, <2>3, <2>5, TopControl
<1>5. CASE Finish
  <2>1. graph' = graph BY <1>5 DEF Finish
  <2>2. ctx # <<>> /\ Cur.frames # <<>> /\ Cur.kind = "dfs" /\ Cur.body = Nil BY <1>5, FinishForm
  <2> DEFINE n == Len(Cur.frames)
  <2>3. PICK d \in Activation :
          /\ ctx' = With(d) /\ d.kind = Cur.kind /\ d.root = Cur.root /\ d.avail = Cur.avail
          /\ d.body = Nil /\ Len(d.frames) = n - 1
          /\ \A k \in 1..n - 1 : d.frames[k] = Cur.frames[k]
    BY <1>5, <2>2, FinishForm
  <2>4. Shape(graph, Cur) /\ n \in Nat \ {0} BY <2>2, CurOK, FrameTyped
  <2>5. /\ \A k \in 1..n - 1 : k \in 1..n
        /\ \A k \in 1..n - 1 - 1 : k \in 1..n - 1
    BY <2>4
  <2>6. /\ \A k \in 1..Len(d.frames) : FrameOK(graph, d.frames[k])
        /\ \A k \in 1..Len(d.frames) - 1 : d.frames[k].waiting
    BY <2>3, <2>4, <2>5 DEF Shape
  <2>7. d.frames # <<>> => d.frames[1].m = d.root
    <3>1. SUFFICES ASSUME d.frames # <<>> PROVE d.frames[1].m = d.root OBVIOUS
    <3>2. d.frames \in Seq(FrameType) BY DEF Activation
    <3>3. Len(d.frames) # 0 BY <3>1, <3>2, EmptySeq
    <3>4. n - 1 \in Nat /\ n - 1 # 0 BY <2>3, <2>4, <3>3
    <3>5. 1 \in 1..n - 1
      <4> HIDE DEF n
      <4> QED BY <2>4, <3>4
    <3> QED BY <2>2, <2>3, <2>4, <3>5 DEF Shape
  <2>8. Shape(graph, d) BY <2>2, <2>3, <2>4, <2>6, <2>7 DEF Shape
  <2> QED BY <2>1, <2>2, <2>3, <2>8, TopControl
<1>6. CASE EndWalk BY <1>6, PopControl DEF EndWalk
<1>7. CASE EndList BY <1>7, PopControl DEF EndList
<1>8. ASSUME graph' = graph, ctx # <<>>, ctx' = With([Cur EXCEPT !.body = Nil]) PROVE Control'
  <2>1. PICK d \in Activation :
          /\ ctx' = With(d) /\ d.kind = Cur.kind /\ d.root = Cur.root /\ d.avail = Cur.avail
          /\ d.body = Nil /\ d.stack = Cur.stack /\ d.frames = Cur.frames
    BY <1>8, BodyForm
  <2>2. Shape(graph, d) BY <1>8, <2>1, CurOK DEF Shape
  <2> QED BY <1>8, <2>1, <2>2, TopControl
<1>9. CASE BodyReturns BY <1>8, <1>9 DEF BodyReturns
<1>10. CASE BodyThrows BY <1>8, <1>10, PopControl DEF BodyThrows, Throw
<1>11. ASSUME NEW p \in {"pending", "ok", "err"}, BodyAwaits(p) PROVE Control'
  BY <1>8, <1>11 DEF BodyAwaits
<1>12. CASE Callback
  <2>1. graph' = graph /\ ctx = <<>> BY <1>12 DEF Callback
  <2>2. CASE ctx' = <<List(Available(Head(jobs)))>>
    <3> DEFINE c == List(Available(Head(jobs)))
    <3>1. c.kind = "list" /\ c.frames = <<>> /\ c.stack = <<>> BY DEF List
    <3>2. Shape(graph, c) BY <3>1 DEF Shape
    <3> HIDE DEF c
    <3>3. ctx' = <<c>> BY <2>2 DEF c
    <3>4. Len(ctx') = 1 /\ ctx'[1] = c BY <3>3
    <3> QED BY <2>1, <3>2, <3>4 DEF Control
  <2>3. CASE ctx' = ctx BY <1>0, <2>1, <2>3
  <2> QED BY <1>12, <2>2, <2>3 DEF Callback, Fulfilled, Rejected
<1>13. CASE RunNext
  <2>1. graph' = graph BY <1>13 DEF RunNext
  <2>2. ctx # <<>> /\ Cur.kind = "list" BY <1>13, RunNextForm
  <2>3. PICK d \in Activation :
          /\ ctx' = With(d) /\ d.kind = Cur.kind /\ d.frames = Cur.frames /\ d.stack = Cur.stack
    BY <1>13, RunNextForm
  <2>4. Shape(graph, d) BY <2>2, <2>3, CurOK DEF Shape
  <2> QED BY <2>1, <2>2, <2>3, <2>4, TopControl
<1>14. ASSUME NEW m \in Module, Import(m) \/ Require(m) PROVE Control'
  <2>1. graph' = graph /\ Evaluate(m, ctx) /\ (ctx = <<>> \/ Cur.body # Nil)
    BY <1>14 DEF Import, Require
  <2>2. CASE ctx' = ctx BY <1>0, <2>1, <2>2
  <2>3. CASE ctx' = Append(ctx, Walk(m)) BY <2>1, <2>3, PushControl
  <2> QED BY <2>1, <2>2, <2>3, EvaluateForm
<1>15. ASSUME NEW m \in Module, NEW p \in {"ok", "err"}, Settle(m, p) PROVE Control'
  BY <1>0, <1>15 DEF Settle
<1>16. CASE UNCHANGED vars BY <1>0, <1>16 DEF vars
<1> QED BY <1>1, <1>2, <1>3, <1>4, <1>5, <1>6, <1>7, <1>9, <1>10, <1>11, <1>12, <1>13, <1>14,
           <1>15, <1>16 DEF Next, Run
-----------------------------------------------------------------------------
\* Stacks.
Entered(c) == \A k \in 1..Len(c.frames) : c.frames[k].entered

\* Every frame but the last of the innermost activation has been entered.
LEMMA AllEntered ==
  ASSUME Types, Control, NEW i \in 1..Len(ctx),
         i # Len(ctx) \/ ctx[i].frames = <<>> \/ ctx[i].frames[Len(ctx[i].frames)].entered
  PROVE  Entered(ctx[i]) /\ (ctx[i].kind = "dfs" /\ i # Len(ctx) => ctx[i].frames # <<>>)
<1>1. ctx # <<>> /\ Len(ctx) \in Nat /\ ctx[i] \in Activation
  <2>1. ctx \in Seq(Activation) BY DEF Types
  <2>2. Len(ctx) \in Nat /\ ctx[i] \in Activation BY <2>1, LenProperties, ElementOfSeq
  <2> QED BY <2>2
<1> DEFINE c == ctx[i]
           n == Len(c.frames)
<1>2. Shape(graph, c) BY DEF Control
<1>3. c.frames \in Seq(FrameType) BY <1>1 DEF Activation
<1>4. n \in Nat /\ (n = 0 <=> c.frames = <<>>) BY <1>3, LenProperties, EmptySeq
<1>5. c.kind \in {"dfs", "list"} BY <1>1 DEF Activation
<1>6. i # Len(ctx) => c.body # Nil BY <1>1 DEF Control
<1>7. ASSUME NEW k \in 1..n PROVE c.frames[k].entered
  <2>1. FrameOK(graph, c.frames[k]) BY <1>2 DEF Shape
  <2>2. CASE k \in 1..n - 1 BY <1>2, <2>1, <2>2 DEF Shape, FrameOK
  <2>3. CASE k = n
    <3>1. c.frames # <<>> BY <1>4
    <3>2. c.kind = "dfs" BY <1>2, <1>5, <3>1 DEF Shape
    <3>3. CASE i # Len(ctx)
      <4>1. c.frames[n].finish BY <1>2, <1>6, <3>2, <3>3 DEF Shape
      <4> QED BY <2>1, <2>3, <4>1 DEF FrameOK
    <3>4. CASE i = Len(ctx) BY <2>3, <3>1, <3>4
    <3> QED BY <3>3, <3>4
  <2> HIDE DEF n
  <2>4. k \in 1..n - 1 \/ k = n BY <1>4
  <2> QED BY <2>2, <2>3, <2>4
<1>8. c.kind = "dfs" /\ i # Len(ctx) => c.frames # <<>> BY <1>2, <1>6 DEF Shape
<1> QED BY <1>7, <1>8 DEF Entered

\* The root of a walk is at the bottom of its stack.
LEMMA RootStacked ==
  ASSUME Types, Control, Stacks, NEW i \in 1..Len(ctx), ctx[i].frames # <<>>, Entered(ctx[i])
  PROVE  ctx[i].root \in Members(ctx[i].stack) /\ dfs[ctx[i].root] = 0
<1>1. ctx[i] \in Activation
  <2>1. ctx \in Seq(Activation) BY DEF Types
  <2> QED BY <2>1, ElementOfSeq
<1>2. ctx[i].frames \in Seq(FrameType) BY <1>1 DEF Activation
<1>3. Len(ctx[i].frames) \in Nat /\ Len(ctx[i].frames) # 0 BY <1>2, LenProperties, EmptySeq
<1>4. 1 \in 1..Len(ctx[i].frames) BY <1>3
<1>5. Shape(graph, ctx[i]) /\ Stacked(status, dfs, ctx[i]) BY DEF Control, Stacks
<1>6. ctx[i].frames[1].m = ctx[i].root BY <1>5 DEF Shape
<1> QED BY <1>4, <1>5, <1>6 DEF Stacked, Entered

\* What is known of a stack depends on its members alone.
LEMMA StackedLocal ==
  ASSUME NEW c \in Activation, NEW s, NEW d, NEW s1, NEW d1, Stacked(s, d, c), Entered(c),
         \A x \in Members(c.stack) : s1[x] = s[x] /\ d1[x] = d[x]
  PROVE  Stacked(s1, d1, c)
<1>1. c.stack \in Seq(Module) /\ c.frames \in Seq(FrameType) BY DEF Activation
<1>2. \A p \in 1..Len(c.stack) : c.stack[p] \in Members(c.stack) BY <1>1, MembersOf
<1>3. Len(c.frames) \in Nat BY <1>1, LenProperties
<1>4. \A k \in 1..Len(c.frames) : c.frames[k].m \in Members(c.stack) BY DEF Stacked, Entered
<1>5. \A k \in 1..Len(c.frames) : \A l \in 1..k - 1 : l \in 1..Len(c.frames) BY <1>3
<1>6. \A x \in Members(c.stack) : s1[x] = "evaluating" /\ d1[x] < c.index BY DEF Stacked
<1>7. \A p, q \in 1..Len(c.stack) : p < q => d1[c.stack[p]] < d1[c.stack[q]] BY <1>2 DEF Stacked
<1>8. \A k \in 1..Len(c.frames) :
        /\ \A l \in 1..k - 1 : d1[c.frames[l].m] < d1[c.frames[k].m]
        /\ k = 1 => d1[c.frames[k].m] = 0
  BY <1>4, <1>5 DEF Stacked, Entered
<1> QED BY <1>4, <1>6, <1>7, <1>8 DEF Stacked, Entered

\* A step that leaves the innermost stack, the statuses and the indexes alone.
LEMMA TopStacks ==
  ASSUME Types, Stacks, ctx # <<>>, NEW d \in Activation, ctx' = With(d),
         d.stack = Cur.stack, status' = status, dfs' = dfs, Stacked(status, dfs, d)
  PROVE  Stacks'
<1>1. Len(ctx) \in Nat \ {0} /\ Cur = ctx[Len(ctx)] BY CurTyped
<1>2. /\ Len(ctx') = Len(ctx) /\ ctx'[Len(ctx)] = d
      /\ \A i \in 1..Len(ctx) - 1 : ctx'[i] = ctx[i]
  BY WithFacts
<1>3. \A i \in 1..Len(ctx) : i = Len(ctx) \/ i \in 1..Len(ctx) - 1 BY <1>1
<1>4. \A i \in 1..Len(ctx) : ctx'[i].stack = ctx[i].stack BY <1>1, <1>2, <1>3
<1>5. \A i \in 1..Len(ctx') : Stacked(status', dfs', ctx'[i]) BY <1>2, <1>3 DEF Stacks
<1>6. \A i, j \in 1..Len(ctx') : \A x \in Members(ctx'[i].stack) :
        x \in Members(ctx'[j].stack) => i = j
  BY <1>2, <1>4 DEF Stacks
<1>7. \A m \in Module : status'[m] = "evaluating" =>
        \E i \in 1..Len(ctx') : m \in Members(ctx'[i].stack)
  <2> SUFFICES ASSUME NEW m \in Module, status[m] = "evaluating"
               PROVE  \E i \in 1..Len(ctx) : m \in Members(ctx'[i].stack)
    BY <1>2
  <2> QED BY <1>4 DEF Stacks
<1> QED BY <1>5, <1>6, <1>7 DEF Stacks

\* The innermost activation ends; the modules of its stack are settled.
LEMMA PopStacks ==
  ASSUME Types, Control, Stacks, ctx # <<>>, ctx' = Popped, dfs' = dfs,
         \A x \in Module \ Members(Cur.stack) : status'[x] = status[x],
         \A x \in Members(Cur.stack) : status'[x] # "evaluating"
  PROVE  Stacks'
<1>1. Len(ctx) \in Nat \ {0} /\ Cur = ctx[Len(ctx)] BY CurTyped
<1>2. Len(ctx') = Len(ctx) - 1 /\ \A i \in 1..Len(ctx) - 1 : ctx'[i] = ctx[i] BY PoppedFacts
<1>3. \A i \in 1..Len(ctx) - 1 : i \in 1..Len(ctx) /\ i # Len(ctx) BY <1>1
<1>4. \A i \in 1..Len(ctx) : ctx[i] \in Activation BY CurTyped
<1>5. \A i \in 1..Len(ctx) - 1 : Members(ctx[i].stack) \subseteq Module \ Members(Cur.stack)
  <2> TAKE i \in 1..Len(ctx) - 1
  <2>1. ctx[i].stack \in Seq(Module) BY <1>3, <1>4 DEF Activation
  <2>2. Members(ctx[i].stack) \subseteq Module BY <2>1, MembersOf
  <2>3. i \in 1..Len(ctx) /\ i # Len(ctx) /\ Len(ctx) \in 1..Len(ctx) BY <1>1, <1>3
  <2>4. \A x \in Members(ctx[i].stack) : x \notin Members(ctx[Len(ctx)].stack)
    BY <2>3 DEF Stacks
  <2> QED BY <1>1, <2>2, <2>4
<1>6. \A i \in 1..Len(ctx') : Stacked(status', dfs', ctx'[i])
  <2> SUFFICES ASSUME NEW i \in 1..Len(ctx) - 1 PROVE Stacked(status', dfs', ctx[i]) BY <1>2
  <2>1. Entered(ctx[i]) /\ Stacked(status, dfs, ctx[i]) /\ ctx[i] \in Activation
    BY <1>3, <1>4, AllEntered DEF Stacks
  <2>2. \A x \in Members(ctx[i].stack) : status'[x] = status[x] /\ dfs'[x] = dfs[x] BY <1>5
  <2> QED BY <2>1, <2>2, StackedLocal
<1>7. \A i, j \in 1..Len(ctx') : \A x \in Members(ctx'[i].stack) :
        x \in Members(ctx'[j].stack) => i = j
  BY <1>2, <1>3 DEF Stacks
<1>8. ASSUME NEW m \in Module, status'[m] = "evaluating"
      PROVE  \E i \in 1..Len(ctx') : m \in Members(ctx'[i].stack)
  <2>1. m \notin Members(Cur.stack) /\ status[m] = "evaluating" BY <1>8
  <2>2. PICK i \in 1..Len(ctx) : m \in Members(ctx[i].stack) BY <2>1 DEF Stacks
  <2>3. i # Len(ctx) BY <1>1, <2>1, <2>2
  <2>4. i \in 1..Len(ctx) - 1 BY <1>1, <2>3
  <2> QED BY <1>2, <2>2, <2>4
<1> QED BY <1>6, <1>7, <1>8 DEF Stacks

\* With no walk in progress only the statuses matter.
LEMMA NoStacks ==
  ASSUME Stacks, \A i \in 1..Len(ctx) : Members(ctx[i].stack) = {},
         \A i \in 1..Len(ctx') : ctx'[i].stack = <<>> /\ ctx'[i].frames = <<>>,
         \A m \in Module : status'[m] = "evaluating" => status[m] = "evaluating"
  PROVE  Stacks'
<1>1. \A i \in 1..Len(ctx') : Stacked(status', dfs', ctx'[i])
  <2> TAKE i \in 1..Len(ctx')
  <2>1. ctx'[i].stack = <<>> /\ ctx'[i].frames = <<>> OBVIOUS
  <2>2. Members(ctx'[i].stack) = {} /\ Len(ctx'[i].stack) = 0 /\ Len(ctx'[i].frames) = 0
    BY <2>1, MembersEmpty
  <2> QED BY <2>2 DEF Stacked
<1>2. \A i \in 1..Len(ctx') : Members(ctx'[i].stack) = {} BY MembersEmpty
<1> QED BY <1>1, <1>2 DEF Stacks

\* Replacing the last frame by one of the same module.
LEMMA FrameStacked ==
  ASSUME Types, Control, Stacks, ctx # <<>>, Cur.frames # <<>>,
         NEW d \in Activation, NEW f \in FrameType, FrameSet(Cur, d, f),
         d.stack = Cur.stack, d.index = Cur.index, f.m = Frame.m, f.entered = Frame.entered
  PROVE  Stacked(status, dfs, d)
<1>1. Stacked(status, dfs, Cur) BY CurOK
<1> DEFINE n == Len(Cur.frames)
<1>2. n \in Nat \ {0} /\ Frame = Cur.frames[n] BY FrameTyped
<1>3. /\ Len(d.frames) = n /\ d.frames[n] = f
      /\ \A k \in 1..n - 1 : d.frames[k] = Cur.frames[k]
  BY DEF FrameSet
<1> HIDE DEF n
<1>4. \A k \in 1..n : k = n \/ k \in 1..n - 1 BY <1>2
<1>5. \A k \in 1..n : d.frames[k].m = Cur.frames[k].m /\ d.frames[k].entered = Cur.frames[k].entered
  BY <1>2, <1>3, <1>4
<1>6. \A k \in 1..n : \A l \in 1..k - 1 : l \in 1..n BY <1>2
<1>7. ASSUME NEW k \in 1..n, d.frames[k].entered
      PROVE  /\ d.frames[k].m \in Members(d.stack)
             /\ \A l \in 1..k - 1 : dfs[d.frames[l].m] < dfs[d.frames[k].m]
             /\ k = 1 => dfs[d.frames[k].m] = 0
  BY <1>1, <1>5, <1>6, <1>7 DEF Stacked, n
<1>8. ASSUME NEW k \in 1..n, ~d.frames[k].entered
      PROVE  /\ status[d.frames[k].m] = "linked"
             /\ k = 1 => d.stack = <<>> /\ d.index = 0
  BY <1>1, <1>5, <1>8 DEF Stacked, n
<1>9. /\ \A x \in Members(d.stack) : status[x] = "evaluating" /\ dfs[x] < d.index
      /\ \A p, q \in 1..Len(d.stack) : p < q => dfs[d.stack[p]] < dfs[d.stack[q]]
  BY <1>1 DEF Stacked
<1> QED BY <1>3, <1>7, <1>8, <1>9 DEF Stacked

\* Enter pushes a module with the next index on the Tarjan stack.
LEMMA EnterStacks ==
  ASSUME Types, Control, Stacks, Enter
  PROVE  Stacks'
<1>1. ctx # <<>> /\ Cur.frames # <<>> /\ Cur.kind = "dfs" BY EnterForm
<1>2. PICK d \in Activation, f \in FrameType :
        /\ ctx' = With(d) /\ FrameSet(Cur, d, f)
        /\ d.stack = Append(Cur.stack, Frame.m) /\ d.index = Cur.index + 1
        /\ f.m = Frame.m /\ f.entered
  BY EnterForm
<1> DEFINE m == Frame.m
           n == Len(Cur.frames)
           h == Len(Cur.stack)
           N == Len(ctx)
<1>3. m \in Module /\ n \in Nat \ {0} /\ Frame = Cur.frames[n] /\ ~Frame.entered
  BY <1>1, FrameTyped DEF Enter
<1>4. /\ N \in Nat \ {0} /\ Cur = ctx[N] /\ Cur \in Activation
      /\ \A i \in 1..N : ctx[i] \in Activation
  BY <1>1, CurTyped
<1>5. Len(ctx') = N /\ ctx'[N] = d /\ \A i \in 1..N - 1 : ctx'[i] = ctx[i] BY <1>1, <1>2, WithFacts
<1>6. Cur.stack \in Seq(Module) /\ Cur.index \in Nat BY <1>4 DEF Activation
<1>7. Stacked(status, dfs, Cur) /\ Shape(graph, Cur) BY <1>1, CurOK
<1>8. n \in 1..n BY <1>3
<1>9. status[m] = "linked" /\ (n = 1 => Cur.stack = <<>> /\ Cur.index = 0)
  BY <1>3, <1>7, <1>8 DEF Stacked
<1>10. /\ Members(d.stack) = Members(Cur.stack) \cup {m}
       /\ Len(d.stack) = h + 1 /\ d.stack[h + 1] = m /\ h \in Nat
       /\ \A p \in 1..h : d.stack[p] = Cur.stack[p]
  BY <1>2, <1>3, <1>6, MembersAppend, AppendProperties, LenProperties
<1>11. /\ status' = [status EXCEPT ![m] = "evaluating"] /\ dfs' = [dfs EXCEPT ![m] = Cur.index]
  BY DEF Enter
<1>12. /\ \A x \in Module \ {m} : status'[x] = status[x] /\ dfs'[x] = dfs[x]
       /\ status'[m] = "evaluating" /\ dfs'[m] = Cur.index
  BY <1>3, <1>11 DEF Types, TypeOK
<1>13. \A i \in 1..N : \A x \in Members(ctx[i].stack) : x \in Module \ {m}
  <2> TAKE i \in 1..N
  <2>1. ctx[i].stack \in Seq(Module) BY <1>4 DEF Activation
  <2>2. Stacked(status, dfs, ctx[i]) BY DEF Stacks
  <2> QED BY <1>9, <2>1, <2>2, MembersOf DEF Stacked
<1>14. \A x \in Members(Cur.stack) : x \in Module \ {m} /\ dfs[x] < Cur.index /\ dfs[x] \in Nat
  <2>1. \A x \in Module : dfs[x] \in Nat BY DEF Types, TypeOK
  <2>2. N \in 1..N BY <1>4
  <2> QED BY <1>4, <1>7, <1>13, <2>1, <2>2 DEF Stacked
<1>15. \A i \in 1..N : i \in 1..N - 1 \/ i = N BY <1>4
<1> HIDE DEF m, n, h, N
<1>16. Stacked(status', dfs', d)
  <2>1. \A x \in Members(d.stack) : status'[x] = "evaluating" /\ dfs'[x] < d.index
    <3>1. \A x \in Members(Cur.stack) : status[x] = "evaluating" BY <1>7 DEF Stacked
    <3>2. \A x \in Members(Cur.stack) : status'[x] = "evaluating" /\ dfs'[x] < d.index
      BY <1>2, <1>6, <1>12, <1>14, <3>1
    <3>3. status'[m] = "evaluating" /\ dfs'[m] < d.index BY <1>2, <1>6, <1>12
    <3> QED BY <1>10, <3>2, <3>3
  <2>2. ASSUME NEW p \in 1..Len(d.stack), NEW q \in 1..Len(d.stack), p < q
        PROVE  dfs'[d.stack[p]] < dfs'[d.stack[q]]
    <3>1. p \in 1..h /\ (q \in 1..h \/ q = h + 1) BY <1>10, <2>2
    <3>2. Cur.stack[p] \in Members(Cur.stack) BY <1>6, <3>1, MembersOf DEF h
    <3>3. CASE q = h + 1 BY <1>10, <1>12, <1>14, <3>1, <3>2, <3>3
    <3>4. CASE q \in 1..h
      <4>1. Cur.stack[q] \in Members(Cur.stack) BY <1>6, <3>4, MembersOf DEF h
      <4>2. dfs[Cur.stack[p]] < dfs[Cur.stack[q]] BY <1>7, <2>2, <3>1, <3>4 DEF Stacked, h
      <4> QED BY <1>10, <1>12, <1>14, <3>1, <3>2, <3>4, <4>1, <4>2
    <3> QED BY <3>1, <3>3, <3>4
  <2>3. /\ Len(d.frames) = n /\ d.frames[n] = f
        /\ \A k \in 1..n - 1 : d.frames[k] = Cur.frames[k]
    BY <1>2 DEF FrameSet, n
  <2>4. \A k \in 1..n - 1 : k \in 1..n /\ Cur.frames[k].entered
    <3>1. \A k \in 1..n - 1 : k \in 1..n BY <1>3
    <3>2. \A k \in 1..n - 1 : FrameOK(graph, Cur.frames[k]) /\ Cur.frames[k].waiting
      BY <1>7, <3>1 DEF Shape, n
    <3> QED BY <3>1, <3>2 DEF FrameOK
  <2>5. \A k \in 1..n - 1 : Cur.frames[k].m \in Members(Cur.stack) BY <1>7, <2>4 DEF Stacked, n
  <2>6. ASSUME NEW k \in 1..n
        PROVE  /\ d.frames[k].entered /\ d.frames[k].m \in Members(d.stack)
               /\ \A l \in 1..k - 1 : dfs'[d.frames[l].m] < dfs'[d.frames[k].m]
               /\ k = 1 => dfs'[d.frames[k].m] = 0
    <3>1. CASE k \in 1..n - 1
      <4>1. \A l \in 1..k - 1 : l \in 1..n - 1 BY <1>3
      <4>2. \A l \in 1..k - 1 : dfs[Cur.frames[l].m] < dfs[Cur.frames[k].m]
        BY <1>7, <2>4, <3>1 DEF Stacked, n
      <4>3. k = 1 => dfs[Cur.frames[k].m] = 0 BY <1>7, <2>4, <3>1 DEF Stacked, n
      <4>4. \A l \in 1..n - 1 : dfs'[Cur.frames[l].m] = dfs[Cur.frames[l].m]
        BY <1>12, <1>14, <2>5
      <4>5. d.frames[k].entered /\ d.frames[k].m \in Members(d.stack)
        BY <1>10, <2>3, <2>4, <2>5, <3>1
      <4> QED BY <2>3, <3>1, <4>1, <4>2, <4>3, <4>4, <4>5
    <3>2. CASE k = n
      <4>1. d.frames[k] = f /\ f.entered /\ f.m = m /\ m \in Members(d.stack)
        BY <1>2, <1>10, <2>3, <3>2 DEF m
      <4>2. \A l \in 1..n - 1 : dfs'[d.frames[l].m] < Cur.index BY <1>12, <1>14, <2>3, <2>5
      <4>3. n = 1 => Cur.index = 0 BY <1>9
      <4> QED BY <1>12, <3>2, <4>1, <4>2, <4>3
    <3>3. k = n \/ k \in 1..n - 1 BY <1>3
    <3> QED BY <3>1, <3>2, <3>3
  <2> QED BY <2>1, <2>2, <2>3, <2>6 DEF Stacked
<1>17. \A i \in 1..Len(ctx') : Stacked(status', dfs', ctx'[i])
  <2> SUFFICES ASSUME NEW i \in 1..N - 1 PROVE Stacked(status', dfs', ctx[i])
    BY <1>5, <1>15, <1>16
  <2>1. i \in 1..N /\ i # N BY <1>4
  <2>2. Entered(ctx[i]) /\ Stacked(status, dfs, ctx[i]) /\ ctx[i] \in Activation
    BY <1>4, <2>1, AllEntered DEF Stacks, N
  <2>3. \A x \in Members(ctx[i].stack) : status'[x] = status[x] /\ dfs'[x] = dfs[x]
    BY <1>12, <1>13, <2>1
  <2> QED BY <2>2, <2>3, StackedLocal
<1>18. \A i \in 1..N : \A x \in Module :
         x \in Members(ctx'[i].stack) <=> x \in Members(ctx[i].stack) \/ (i = N /\ x = m)
  BY <1>3, <1>4, <1>5, <1>10, <1>13, <1>15
<1>19. \A i \in 1..N : Members(ctx'[i].stack) \subseteq Module
  BY <1>3, <1>4, <1>5, <1>10, <1>13, <1>15
<1>20. \A i, j \in 1..Len(ctx') : \A x \in Members(ctx'[i].stack) :
         x \in Members(ctx'[j].stack) => i = j
  <2> SUFFICES ASSUME NEW i \in 1..N, NEW j \in 1..N, NEW x \in Members(ctx'[i].stack),
                      x \in Members(ctx'[j].stack)
               PROVE  i = j
    BY <1>5
  <2>1. x \in Module BY <1>19
  <2>2. CASE x = m
    <3>1. x \notin Members(ctx[i].stack) /\ x \notin Members(ctx[j].stack) BY <1>13, <2>2
    <3> QED BY <1>18, <2>1, <3>1
  <2>3. CASE x # m
    <3>1. x \in Members(ctx[i].stack) /\ x \in Members(ctx[j].stack) BY <1>18, <2>1, <2>3
    <3> QED BY <3>1 DEF Stacks, N
  <2> QED BY <2>2, <2>3
<1>21. ASSUME NEW x \in Module, status'[x] = "evaluating"
       PROVE  \E i \in 1..Len(ctx') : x \in Members(ctx'[i].stack)
  <2>1. CASE x = m
    <3>1. N \in 1..N BY <1>4
    <3> QED BY <1>5, <1>18, <2>1, <3>1
  <2>2. CASE x # m
    <3>1. status[x] = "evaluating" BY <1>12, <1>21, <2>2
    <3>2. PICK i \in 1..N : x \in Members(ctx[i].stack) BY <3>1 DEF Stacks, N
    <3> QED BY <1>5, <1>18, <3>2
  <2> QED BY <2>1, <2>2
<1> QED BY <1>17, <1>20, <1>21 DEF Stacks

\* What Finish leaves on the stack, d, and the component it takes off, S: the
\* stack below its root stays, everything from there on leaves.
FinishParts(d, S) ==
  /\ ctx' = With(d) /\ d.kind = Cur.kind /\ d.root = Cur.root /\ d.avail = Cur.avail
  /\ d.body = Nil /\ d.index = Cur.index /\ Len(d.frames) = Len(Cur.frames) - 1
  /\ \A k \in 1..Len(Cur.frames) - 1 : d.frames[k] = Cur.frames[k]
  /\ Members(d.stack) \subseteq Members(Cur.stack) \ S /\ S \subseteq Members(Cur.stack)
  /\ \A x \in Members(Cur.stack) : x \in S \/ x \in Members(d.stack)
  /\ \A x \in Members(Cur.stack) : dfs[x] < dfs[Frame.m] => x \in Members(d.stack)
  /\ \A i, j \in 1..Len(d.stack) : i < j => dfs[d.stack[i]] < dfs[d.stack[j]]
  /\ anc[Frame.m] # dfs[Frame.m] => S = {} /\ d.stack = Cur.stack
  /\ anc[Frame.m] = dfs[Frame.m] => \A x \in Members(d.stack) : dfs[x] < dfs[Frame.m]
  /\ \A x \in S : dfs[Frame.m] <= dfs[x]
  /\ \A x \in Module :
       /\ x \in S => status'[x] \in {"async", "evaluated"} /\ root'[x] = Frame.m
       /\ x \notin S => status'[x] = status[x] /\ root'[x] = root[x]
  /\ \A x \in S : status'[x] = IF active[x] THEN "async" ELSE "evaluated"

\* Finish takes a suffix of the Tarjan stack off, or nothing.
LEMMA FinishSplits ==
  ASSUME Types, Control, Stacks, Finish
  PROVE  \E d \in Activation, S \in SUBSET Module : FinishParts(d, S)
<1>1. ctx # <<>> /\ Cur.frames # <<>> /\ Cur.kind = "dfs" /\ Cur.body = Nil BY FinishForm
<1> DEFINE m == Frame.m
           n == Len(Cur.frames)
           h == Len(Cur.stack)
<1>2. PICK d \in Activation, p \in 1..h, S \in SUBSET Module :
        /\ ctx' = With(d)
        /\ d.kind = Cur.kind /\ d.root = Cur.root /\ d.avail = Cur.avail
        /\ d.body = Nil /\ d.index = Cur.index
        /\ Len(d.frames) = n - 1 /\ \A k \in 1..n - 1 : d.frames[k] = Cur.frames[k]
        /\ Cur.stack[p] = m
        /\ status' = [x \in Module |-> IF x \notin S THEN status[x]
                                      ELSE IF active[x] THEN "async" ELSE "evaluated"]
        /\ root' = [x \in Module |-> IF x \in S THEN m ELSE root[x]]
        /\ \/ /\ anc[m] # dfs[m] /\ S = {} /\ d.stack = Cur.stack
           \/ /\ anc[m] = dfs[m] /\ S = {Cur.stack[i] : i \in p..h}
              /\ Len(d.stack) = p - 1 /\ \A i \in 1..p - 1 : d.stack[i] = Cur.stack[i]
  BY <1>1, FinishForm, ZenonT(30)
<1>3. m \in Module BY <1>1, FrameTyped
<1>4. Cur \in Activation BY <1>1, CurTyped
<1>6. Cur.stack \in Seq(Module) /\ h \in Nat /\ d.stack \in Seq(Module)
  <2>1. Cur.stack \in Seq(Module) /\ d.stack \in Seq(Module) BY <1>4 DEF Activation
  <2> QED BY <2>1, LenProperties
<1>7. Stacked(status, dfs, Cur) BY <1>1, CurOK
<1>8. \A x \in Module : dfs[x] \in Nat BY DEF Types, TypeOK
<1>9. \A x \in Module : /\ x \in S => status'[x] \in {"async", "evaluated"} /\ root'[x] = m
                        /\ x \notin S => status'[x] = status[x] /\ root'[x] = root[x]
  BY <1>2
<1>10. \A x \in S : status'[x] = IF active[x] THEN "async" ELSE "evaluated" BY <1>2
<1>11. \A i \in 1..h : Cur.stack[i] \in Members(Cur.stack) /\ Cur.stack[i] \in Module
  BY <1>6, MembersOf
<1> HIDE DEF m, n, h
<1>12. /\ Members(d.stack) \subseteq Members(Cur.stack) \ S
       /\ \A x \in Members(Cur.stack) : x \in S \/ x \in Members(d.stack)
       /\ \A x \in Members(Cur.stack) : dfs[x] < dfs[m] => x \in Members(d.stack)
       /\ S \subseteq Members(Cur.stack)
       /\ \A i, j \in 1..Len(d.stack) : i < j => dfs[d.stack[i]] < dfs[d.stack[j]]
       /\ anc[m] = dfs[m] => \A x \in Members(d.stack) : dfs[x] < dfs[m]
       /\ \A x \in S : dfs[m] <= dfs[x]
  <2>1. CASE anc[m] # dfs[m] /\ S = {} /\ d.stack = Cur.stack BY <1>7, <2>1 DEF Stacked
  <2>2. CASE /\ anc[m] = dfs[m] /\ S = {Cur.stack[i] : i \in p..h}
             /\ Len(d.stack) = p - 1 /\ \A i \in 1..p - 1 : d.stack[i] = Cur.stack[i]
    <3>1. /\ \A i \in 1..p - 1 : i \in 1..h /\ i < p
          /\ \A i \in p..h : i \in 1..h /\ (i = p \/ p < i)
          /\ \A i \in 1..h : i \in 1..p - 1 \/ i \in p..h
      BY <1>6
    <3>2. \A i \in 1..p - 1 : \A j \in p..h : i < j BY <1>6
    <3>3. \A i, j \in 1..h : i < j => dfs[Cur.stack[i]] < dfs[Cur.stack[j]] BY <1>7 DEF Stacked, h
    <3>4. \A i \in 1..p - 1 : \A j \in p..h : Cur.stack[i] # Cur.stack[j]
      BY <1>8, <1>11, <3>1, <3>2, <3>3
    <3>5. ASSUME NEW x \in Members(d.stack) PROVE \E i \in 1..p - 1 : x = Cur.stack[i]
      <4>1. PICK i \in 1..Len(d.stack) : d.stack[i] = x BY <1>6, MembersOf
      <4>2. i \in 1..p - 1 BY <2>2
      <4> QED BY <2>2, <4>1, <4>2
    <3>6. \A i \in 1..p - 1 : Cur.stack[i] \in Members(d.stack) BY <1>6, <2>2, MembersOf
    <3>7. Members(d.stack) \subseteq Members(Cur.stack) \ S
      BY <1>11, <2>2, <3>1, <3>4, <3>5
    <3>8. \A x \in Members(Cur.stack) : \E i \in 1..h : x = Cur.stack[i] BY <1>6, MembersOf DEF h
    <3>9. \A x \in Members(Cur.stack) : x \in S \/ x \in Members(d.stack)
      BY <2>2, <3>1, <3>6, <3>8
    <3>10. \A x \in S : dfs[m] <= dfs[x]
      <4> SUFFICES ASSUME NEW i \in p..h PROVE dfs[m] <= dfs[Cur.stack[i]] BY <2>2
      <4>1. i = p \/ dfs[m] < dfs[Cur.stack[i]] BY <1>2, <3>1, <3>3
      <4> QED BY <1>2, <1>3, <1>8, <1>11, <3>1, <4>1
    <3>11. S \subseteq Members(Cur.stack) BY <1>11, <2>2, <3>1
    <3>12. \A i, j \in 1..Len(d.stack) : i < j => dfs[d.stack[i]] < dfs[d.stack[j]]
      BY <2>2, <3>1, <3>3
    <3>13. \A x \in Members(Cur.stack) : dfs[x] < dfs[m] => x \in Members(d.stack)
      <4>1. Members(Cur.stack) \subseteq Module BY <1>6, MembersOf
      <4> QED BY <1>3, <1>8, <3>9, <3>10, <4>1
    <3>14. \A x \in Members(d.stack) : dfs[x] < dfs[m] BY <1>2, <3>1, <3>3, <3>5
    <3> QED BY <3>7, <3>9, <3>10, <3>11, <3>12, <3>13, <3>14
  <2> QED BY <1>2, <2>1, <2>2 DEF h, m
<1>13. anc[m] # dfs[m] => S = {} /\ d.stack = Cur.stack BY <1>2 DEF m, h
<1> QED BY <1>2, <1>9, <1>10, <1>12, <1>13 DEF FinishParts, m, n

\* Finish keeps the Tarjan stacks.
LEMMA FinishStacks ==
  ASSUME Types, Control, Stacks, Finish
  PROVE  Stacks'
<1>1. ctx # <<>> /\ Cur.frames # <<>> /\ Cur.kind = "dfs" BY FinishForm
<1> DEFINE m == Frame.m
           n == Len(Cur.frames)
           h == Len(Cur.stack)
           N == Len(ctx)
<1>2. PICK d \in Activation, S \in SUBSET Module : FinishParts(d, S) BY FinishSplits
<1>3. m \in Module /\ n \in Nat \ {0} /\ Frame = Cur.frames[n] BY <1>1, FrameTyped
<1>4. /\ N \in Nat \ {0} /\ Cur = ctx[N] /\ Cur \in Activation
      /\ \A i \in 1..N : ctx[i] \in Activation
  BY <1>1, CurTyped
<1>5. Len(ctx') = N /\ ctx'[N] = d /\ \A i \in 1..N - 1 : ctx'[i] = ctx[i]
  BY <1>1, <1>2, WithFacts DEF FinishParts
<1>6. Cur.stack \in Seq(Module) /\ h \in Nat /\ d.stack \in Seq(Module)
  <2>1. Cur.stack \in Seq(Module) /\ d.stack \in Seq(Module) BY <1>4 DEF Activation
  <2> QED BY <2>1, LenProperties
<1>7. Stacked(status, dfs, Cur) /\ Shape(graph, Cur) BY <1>1, CurOK
<1>8. dfs' = dfs /\ \A x \in Module : dfs[x] \in Nat BY DEF Finish, Types, TypeOK
<1>9. Entered(Cur)
  <2>1. Frame.entered BY <1>1, CurOK DEF FrameOK, Finish
  <2>2. N \in 1..N BY <1>4
  <2> QED BY <1>3, <1>4, <2>1, <2>2, AllEntered
<1>10. \A x \in Module : /\ x \in S => status'[x] \in {"async", "evaluated"}
                         /\ x \notin S => status'[x] = status[x]
  BY <1>2 DEF FinishParts
<1>11. Len(d.frames) = n - 1 /\ \A k \in 1..n - 1 : d.frames[k] = Cur.frames[k]
  BY <1>2 DEF FinishParts
<1>12. /\ Members(d.stack) \subseteq Members(Cur.stack) \ S
       /\ \A x \in Members(Cur.stack) : x \in S \/ x \in Members(d.stack)
       /\ \A x \in Members(Cur.stack) : dfs[x] < dfs[m] => x \in Members(d.stack)
       /\ S \subseteq Members(Cur.stack) /\ d.index = Cur.index
       /\ \A i, j \in 1..Len(d.stack) : i < j => dfs[d.stack[i]] < dfs[d.stack[j]]
  BY <1>2 DEF FinishParts
<1> HIDE DEF m, n, h, N
<1>13. Members(Cur.stack) \subseteq Module BY <1>6, MembersOf
<1>14. Stacked(status', dfs', d)
  <2>1. \A x \in Members(d.stack) : status'[x] = "evaluating" /\ dfs'[x] < d.index
    BY <1>7, <1>8, <1>10, <1>12, <1>13 DEF Stacked
  <2>2. ASSUME NEW k \in 1..n - 1
        PROVE  /\ d.frames[k].entered /\ d.frames[k].m \in Members(d.stack)
               /\ \A l \in 1..k - 1 : dfs'[d.frames[l].m] < dfs'[d.frames[k].m]
               /\ k = 1 => dfs'[d.frames[k].m] = 0
    <3>1. k \in 1..n /\ n \in 1..n /\ k \in 1..n - 1 BY <1>3
    <3>2. d.frames[k] = Cur.frames[k] /\ Cur.frames[k].entered BY <1>9, <1>11, <3>1 DEF Entered, n
    <3>3. Cur.frames[k].m \in Members(Cur.stack) /\ dfs[Cur.frames[k].m] < dfs[m]
      BY <1>3, <1>7, <1>9, <3>1 DEF Stacked, Entered, n, m
    <3>4. /\ \A l \in 1..k - 1 : dfs[Cur.frames[l].m] < dfs[Cur.frames[k].m]
          /\ k = 1 => dfs[Cur.frames[k].m] = 0
      BY <1>7, <1>9, <3>1 DEF Stacked, Entered, n
    <3>5. \A l \in 1..k - 1 : l \in 1..n - 1 BY <1>3
    <3>6. \A l \in 1..k - 1 : d.frames[l] = Cur.frames[l] BY <1>11, <3>5
    <3> QED BY <1>8, <1>12, <3>2, <3>3, <3>4, <3>6
  <2> QED BY <1>8, <1>11, <1>12, <2>1, <2>2 DEF Stacked
<1>15. \A i \in 1..N : i \in 1..N - 1 \/ i = N BY <1>4
<1>16. \A i \in 1..N - 1 : \A x \in Members(ctx[i].stack) : x \in Module \ S
  <2> TAKE i \in 1..N - 1
  <2>1. i \in 1..N /\ i # N /\ N \in 1..N BY <1>4
  <2>2. ctx[i].stack \in Seq(Module) BY <1>4, <2>1 DEF Activation
  <2>3. Members(ctx[i].stack) \subseteq Module BY <2>2, MembersOf
  <2>4. \A x \in Members(ctx[i].stack) : x \notin Members(Cur.stack) BY <1>4, <2>1 DEF Stacks, N
  <2> QED BY <1>12, <2>3, <2>4
<1>17. \A i \in 1..Len(ctx') : Stacked(status', dfs', ctx'[i])
  <2> SUFFICES ASSUME NEW i \in 1..N - 1 PROVE Stacked(status', dfs', ctx[i])
    BY <1>5, <1>14, <1>15
  <2>1. i \in 1..N /\ i # N BY <1>4
  <2>2. Entered(ctx[i]) /\ Stacked(status, dfs, ctx[i]) /\ ctx[i] \in Activation
    BY <1>4, <2>1, AllEntered DEF Stacks, N
  <2>3. \A x \in Members(ctx[i].stack) : status'[x] = status[x] /\ dfs'[x] = dfs[x]
    BY <1>8, <1>10, <1>16
  <2> QED BY <2>2, <2>3, StackedLocal
<1>18. \A i \in 1..N : Members(ctx'[i].stack) \subseteq Members(ctx[i].stack)
  BY <1>4, <1>5, <1>12, <1>15
<1>19. \A i, j \in 1..Len(ctx') : \A x \in Members(ctx'[i].stack) :
         x \in Members(ctx'[j].stack) => i = j
  <2> SUFFICES ASSUME NEW i \in 1..N, NEW j \in 1..N, NEW x \in Members(ctx'[i].stack),
                      x \in Members(ctx'[j].stack)
               PROVE  i = j
    BY <1>5
  <2>1. x \in Members(ctx[i].stack) /\ x \in Members(ctx[j].stack) BY <1>18
  <2> QED BY <2>1 DEF Stacks, N
<1>20. ASSUME NEW x \in Module, status'[x] = "evaluating"
       PROVE  \E i \in 1..Len(ctx') : x \in Members(ctx'[i].stack)
  <2>1. status[x] = "evaluating" /\ x \notin S BY <1>10, <1>20
  <2>2. PICK i \in 1..N : x \in Members(ctx[i].stack) BY <2>1 DEF Stacks, N
  <2>3. CASE i = N BY <1>4, <1>5, <1>12, <2>1, <2>2, <2>3
  <2>4. CASE i \in 1..N - 1 BY <1>5, <2>2, <2>4
  <2> QED BY <1>15, <2>3, <2>4
<1> QED BY <1>17, <1>19, <1>20 DEF Stacks

\* Request keeps the Tarjan stacks.
LEMMA RequestStacks ==
  ASSUME Types, Control, Stacks, Request
  PROVE  Stacks'
<1>1. ctx # <<>> /\ Cur.frames # <<>> BY RequestForm
<1> DEFINE n == Len(Cur.frames)
           q == Req(Frame.m)[Frame.next]
<1>2. PICK d \in Activation, f \in FrameType :
        /\ ctx' = With(d) /\ d.stack = Cur.stack /\ d.index = Cur.index
        /\ f.m = Frame.m /\ f.entered = Frame.entered
        /\ \/ FrameSet(Cur, d, f)
           \/ /\ Unvisited(q) /\ Len(d.frames) = n + 1 /\ d.frames[n] = f
              /\ \A k \in 1..n - 1 : d.frames[k] = Cur.frames[k]
              /\ d.frames[n + 1] = NewFrame(q)
  BY RequestForm
<1>3. status' = status /\ dfs' = dfs BY DEF Request, recVars, dfsVars
<1>4. CASE FrameSet(Cur, d, f)
  <2>1. Stacked(status, dfs, d) BY <1>1, <1>2, <1>4, FrameStacked
  <2> QED BY <1>1, <1>2, <1>3, <2>1, TopStacks
<1>5. CASE /\ Unvisited(q) /\ Len(d.frames) = n + 1 /\ d.frames[n] = f
           /\ \A k \in 1..n - 1 : d.frames[k] = Cur.frames[k]
           /\ d.frames[n + 1] = NewFrame(q)
  <2>1. n \in Nat \ {0} /\ Frame = Cur.frames[n] BY <1>1, FrameTyped
  <2>2. Stacked(status, dfs, Cur) BY <1>1, CurOK
  <2>3. status[NewFrame(q).m] = "linked" /\ ~NewFrame(q).entered
    BY <1>5 DEF Unvisited, NewFrame
  <2> HIDE DEF n, q
  <2>4. /\ \A k \in 1..n : k = n \/ k \in 1..n - 1
        /\ \A k \in 1..n + 1 : k = n + 1 \/ k \in 1..n
        /\ \A k \in 1..n : \A l \in 1..k - 1 : l \in 1..n
        /\ n + 1 # 1
    BY <2>1
  <2>5. \A k \in 1..n : d.frames[k].m = Cur.frames[k].m /\ d.frames[k].entered = Cur.frames[k].entered
    BY <1>2, <1>5, <2>1, <2>4
  <2>6. ASSUME NEW k \in 1..n, d.frames[k].entered
        PROVE  /\ d.frames[k].m \in Members(d.stack)
               /\ \A l \in 1..k - 1 : dfs[d.frames[l].m] < dfs[d.frames[k].m]
               /\ k = 1 => dfs[d.frames[k].m] = 0
    BY <1>2, <2>2, <2>4, <2>5, <2>6 DEF Stacked, n
  <2>7. ASSUME NEW k \in 1..n, ~d.frames[k].entered
        PROVE  /\ status[d.frames[k].m] = "linked"
               /\ k = 1 => d.stack = <<>> /\ d.index = 0
    BY <1>2, <2>2, <2>5, <2>7 DEF Stacked, n
  <2>8. /\ \A x \in Members(d.stack) : status[x] = "evaluating" /\ dfs[x] < d.index
        /\ \A x, y \in 1..Len(d.stack) : x < y => dfs[d.stack[x]] < dfs[d.stack[y]]
    BY <1>2, <2>2 DEF Stacked
  <2>9. Stacked(status, dfs, d) BY <1>5, <2>3, <2>4, <2>6, <2>7, <2>8 DEF Stacked
  <2> QED BY <1>1, <1>2, <1>3, <2>9, TopStacks
<1> QED BY <1>2, <1>4, <1>5

\* A new walk starts with an empty Tarjan stack.
LEMMA PushStacks ==
  ASSUME Types, Stacks, NEW m \in Module, status[m] = "linked", ctx' = Append(ctx, Walk(m)),
         status' = status, dfs' = dfs
  PROVE  Stacks'
<1>1. /\ Len(ctx') = Len(ctx) + 1 /\ ctx'[Len(ctx) + 1] = Walk(m) /\ Len(ctx) \in Nat
      /\ \A i \in 1..Len(ctx) : ctx'[i] = ctx[i]
  BY WalkTyped, PushFacts
<1> DEFINE c == Walk(m)
<1>2. /\ Len(c.frames) = 1 /\ c.frames[1] = NewFrame(m) /\ c.stack = <<>> /\ c.index = 0
      /\ NewFrame(m).m = m /\ ~NewFrame(m).entered
  BY WalkTyped DEF Walk, NewFrame
<1> HIDE DEF c
<1>3. Members(c.stack) = {} /\ Len(c.stack) = 0 BY <1>2, MembersEmpty
<1>4. Stacked(status, dfs, c) BY <1>2, <1>3 DEF Stacked
<1>5. /\ \A i \in 1..Len(ctx) + 1 : i \in 1..Len(ctx) \/ i = Len(ctx) + 1
      /\ \A i \in 1..Len(ctx) : i \in 1..Len(ctx) + 1
  BY <1>1
<1>6. \A i \in 1..Len(ctx') : Stacked(status', dfs', ctx'[i]) BY <1>1, <1>4, <1>5 DEF Stacks, c
<1>7. \A i, j \in 1..Len(ctx') : \A x \in Members(ctx'[i].stack) :
        x \in Members(ctx'[j].stack) => i = j
  <2> SUFFICES ASSUME NEW i \in 1..Len(ctx) + 1, NEW j \in 1..Len(ctx) + 1,
                      NEW x \in Members(ctx'[i].stack), x \in Members(ctx'[j].stack)
               PROVE  i = j
    BY <1>1
  <2>1. i \in 1..Len(ctx) /\ j \in 1..Len(ctx) BY <1>1, <1>3, <1>5 DEF c
  <2>2. x \in Members(ctx[i].stack) /\ x \in Members(ctx[j].stack) BY <1>1, <2>1
  <2> QED BY <2>1, <2>2 DEF Stacks
<1>8. \A x \in Module : status'[x] = "evaluating" =>
        \E i \in 1..Len(ctx') : x \in Members(ctx'[i].stack)
  <2> SUFFICES ASSUME NEW x \in Module, status[x] = "evaluating"
               PROVE  \E i \in 1..Len(ctx') : x \in Members(ctx'[i].stack)
    OBVIOUS
  <2>1. PICK i \in 1..Len(ctx) : x \in Members(ctx[i].stack) BY DEF Stacks
  <2> QED BY <1>1, <1>5, <2>1
<1> QED BY <1>6, <1>7, <1>8 DEF Stacks

\* A failing walk: the modules of its stack fail, its root among them.
LEMMA ThrowForm ==
  ASSUME Types, Control, Stacks, ctx # <<>>, Cur.frames # <<>>, Frame.entered, NEW e,
         Throw(Cur, Popped, e)
  PROVE  /\ SetError(Members(Cur.stack), e) /\ ctx' = Popped
         /\ Cur.root \in Members(Cur.stack) /\ Entered(Cur)
<1>1. Len(ctx) \in 1..Len(ctx) /\ Cur = ctx[Len(ctx)] BY CurTyped
<1>2. Entered(Cur) BY <1>1, AllEntered DEF Frame
<1>3. Cur.root \in Members(Cur.stack) BY <1>1, <1>2, RootStacked
<1>4. Members(Cur.stack) \cup {Cur.root} = Members(Cur.stack) BY <1>3
<1> QED BY <1>2, <1>3, <1>4 DEF Throw

\* Examine, when the request has failed, fails the whole Tarjan stack and returns.
LEMMA ExamineThrows ==
  ASSUME Types, Control, Stacks, Examine, ctx' = Popped
  PROVE  LET q == Req(Frame.m)[Frame.next - 1]
             r == IF status[q] = "evaluating" THEN q ELSE root[q]
         IN  /\ err[r] # Nil /\ r \in Module /\ q \in Module /\ q \in Requested(Frame.m)
             /\ SetError(Members(Cur.stack), err[r]) /\ ctx # <<>> /\ Cur.frames # <<>>
             /\ Cur.kind = "dfs" /\ Entered(Cur)
             /\ UNCHANGED <<graph, dfs, root, pend, parents, order, exec, jobs, clock,
                            ran, done, called>>
<1> DEFINE q == Req(Frame.m)[Frame.next - 1]
           r == IF status[q] = "evaluating" THEN q ELSE root[q]
<1>1. ctx # <<>> /\ Cur.frames # <<>> /\ Cur.kind = "dfs" /\ Frame.entered
  BY DEF Examine, Walking
<1>2. q \in Module /\ q \in Requested(Frame.m) BY ExamineTyped
<1>3. r \in Module BY <1>2 DEF Types, TypeOK
<1>4. CASE err[r] = Nil
  <2> DEFINE d == SetFrame(Cur, [Frame EXCEPT !.waiting = FALSE])
  <2>1. ctx' = With(d) BY <1>4 DEF Examine
  <2>2. Frame \in FrameType /\ Cur \in Activation BY <1>1, FrameTyped
  <2>3. [Frame EXCEPT !.waiting = FALSE] \in FrameType BY <2>2 DEF FrameType
  <2>4. d \in Activation BY <1>1, <2>2, <2>3, SetFrameFacts
  <2> HIDE DEF d
  <2>5. Len(ctx') = Len(ctx) /\ Len(ctx') = Len(ctx) - 1 /\ Len(ctx) \in Nat
    BY <1>1, <2>1, <2>4, WithFacts, PoppedFacts, CurTyped
  <2> QED BY <2>5
<1>5. CASE err[r] # Nil
  <2>1. Throw(Cur, Popped, err[r]) /\ UNCHANGED <<pend, parents>> BY <1>5 DEF Examine
  <2>2. SetError(Members(Cur.stack), err[r]) /\ Entered(Cur) BY <1>1, <2>1, ThrowForm
  <2>3. UNCHANGED <<graph, dfs, root, order, exec, jobs, clock, ran, done, called>>
    BY DEF Examine, hisVars
  <2> QED BY <1>1, <1>2, <1>3, <1>5, <2>1, <2>2, <2>3
<1> QED BY <1>4, <1>5

\* The body of a walk is that of its last frame.
LEMMA BodyFrame ==
  ASSUME Types, Control, Stacks, ctx # <<>>, Cur.body # Nil, Cur.kind = "dfs"
  PROVE  Cur.frames # <<>> /\ Frame.m = Cur.body /\ Frame.entered /\ Frame.finish /\ Entered(Cur)
<1>1. Shape(graph, Cur) BY CurOK
<1>2. Cur.frames # <<>> /\ Frame.m = Cur.body /\ Frame.finish BY <1>1 DEF Shape, Frame
<1>3. Frame.entered BY <1>2, CurOK DEF FrameOK
<1>4. Len(ctx) \in 1..Len(ctx) /\ Cur = ctx[Len(ctx)] BY CurTyped
<1>5. Entered(Cur) BY <1>3, <1>4, AllEntered DEF Frame
<1> QED BY <1>2, <1>3, <1>5

\* A body that throws in a walk fails the whole Tarjan stack and returns.
LEMMA BodyThrowForm ==
  ASSUME Types, Control, Stacks, BodyThrows, Cur.kind = "dfs"
  PROVE  /\ ctx # <<>> /\ Cur.body # Nil /\ Cur.body \in Module /\ Cur.frames # <<>>
         /\ Frame.m = Cur.body /\ Entered(Cur)
         /\ SetError(Members(Cur.stack), Cur.body) /\ ctx' = Popped
<1>1. ctx # <<>> /\ Cur.body # Nil /\ Throw(Cur, Popped, Cur.body) BY DEF BodyThrows
<1> QED BY <1>1, BodyFrame, CurBody, ThrowForm

\* A list of available modules is the only activation while it is innermost.
LEMMA ListAlone ==
  ASSUME Types, Control, ctx # <<>>, Cur.kind = "list"
  PROVE  /\ Len(ctx) = 1 /\ Cur = ctx[1] /\ Cur.frames = <<>> /\ Cur.stack = <<>>
         /\ \A i \in 1..Len(ctx) : i = 1
<1>1. Len(ctx) \in Nat \ {0} /\ Cur = ctx[Len(ctx)] BY CurTyped
<1>2. Len(ctx) = 1
  <2> DEFINE n == Len(ctx)
  <2>1. n \notin 2..n BY <1>1 DEF Control
  <2>2. n \in Nat \ {0} BY <1>1
  <2> HIDE DEF n
  <2>3. n = 1 BY <2>1, <2>2
  <2> QED BY <2>3 DEF n
<1>3. Shape(graph, Cur) BY <1>1, <1>2 DEF Control
<1> QED BY <1>1, <1>2, <1>3 DEF Shape

\* A walk without frames has an empty stack.
LEMMA EmptyStack ==
  ASSUME Types, Paths, ctx # <<>>, Cur.frames = <<>>
  PROVE  Members(Cur.stack) = {}
<1>1. Len(ctx) \in 1..Len(ctx) /\ Cur = ctx[Len(ctx)] BY CurTyped
<1>2. Reaching(Needing, dfs, anc, Cur) BY <1>1 DEF Paths
<1>3. Len(Cur.frames) = 0 OBVIOUS
<1>4. \A x \in Members(Cur.stack) : \E k \in 1..0 : TRUE BY <1>2, <1>3 DEF Reaching
<1> QED BY <1>4

\* Every step keeps the Tarjan stacks.
LEMMA StacksPreserved ==
  ASSUME Types, Control, Stacks, Paths, Fresh, [Next]_vars
  PROVE  Stacks'
<1>0. CASE UNCHANGED <<ctx, status, dfs>> BY <1>0 DEF Stacks
<1>1. CASE Enter BY <1>1, EnterStacks
<1>2. CASE Examine
  <2>1. CASE ctx' = Popped
    <3>1. /\ ctx # <<>> /\ dfs' = dfs
          /\ \E e : SetError(Members(Cur.stack), e)
      BY <1>2, <2>1, ExamineThrows
    <3>2. /\ \A x \in Module \ Members(Cur.stack) : status'[x] = status[x]
          /\ \A x \in Module \cap Members(Cur.stack) : status'[x] = "evaluated"
      BY <3>1 DEF SetError
    <3>3. Members(Cur.stack) \subseteq Module BY <3>1, CurTyped, MembersOf DEF Activation
    <3> QED BY <2>1, <3>1, <3>2, <3>3, PopStacks
  <2>2. CASE ctx' # Popped
    <3>1. PICK d \in Activation, f \in FrameType :
            /\ ctx' = With(d) /\ FrameSet(Cur, d, f)
            /\ d.stack = Cur.stack /\ d.index = Cur.index
            /\ f.m = Frame.m /\ f.entered = Frame.entered
      BY <1>2, <2>2, ExamineForm
    <3>2. ctx # <<>> /\ Cur.frames # <<>> BY <1>2, <2>2, ExamineForm
    <3>3. status' = status /\ dfs' = dfs BY <1>2, <2>2 DEF Examine, Throw, recVars
    <3>4. Stacked(status, dfs, d) BY <3>1, <3>2, FrameStacked
    <3> QED BY <3>1, <3>2, <3>3, <3>4, TopStacks
  <2> QED BY <2>1, <2>2
<1>3. CASE Request BY <1>3, RequestStacks
<1>4. CASE Execute
  <2>1. PICK d \in Activation, f \in FrameType :
          /\ ctx' = With(d) /\ FrameSet(Cur, d, f)
          /\ d.stack = Cur.stack /\ d.index = Cur.index
          /\ f.m = Frame.m /\ f.entered = Frame.entered
    BY <1>4, ExecuteForm
  <2>2. ctx # <<>> /\ Cur.frames # <<>> BY <1>4, ExecuteForm
  <2>3. status' = status /\ dfs' = dfs BY <1>4 DEF Execute, dfsVars
  <2>4. Stacked(status, dfs, d) BY <2>1, <2>2, FrameStacked
  <2> QED BY <2>1, <2>2, <2>3, <2>4, TopStacks
<1>5. CASE Finish BY <1>5, FinishStacks
<1>6. ASSUME ctx # <<>>, ctx' = Popped, Cur.frames = <<>>, status' = status, dfs' = dfs
      PROVE  Stacks'
  <2>1. Members(Cur.stack) = {} BY <1>6, EmptyStack
  <2> QED BY <1>6, <2>1, PopStacks
<1>7. CASE EndWalk BY <1>6, <1>7 DEF EndWalk, dfsVars
<1>8. CASE EndList
  <2>1. ctx # <<>> /\ Cur.kind = "list" BY <1>8 DEF EndList
  <2>2. Cur.frames = <<>> BY <2>1, ListAlone
  <2> QED BY <1>6, <1>8, <2>1, <2>2 DEF EndList, recVars, dfsVars
<1>9. ASSUME ctx # <<>>, ctx' = With([Cur EXCEPT !.body = Nil]), status' = status, dfs' = dfs
      PROVE  Stacks'
  <2>1. PICK d \in Activation :
          /\ ctx' = With(d) /\ d.stack = Cur.stack /\ d.frames = Cur.frames /\ d.index = Cur.index
    BY <1>9, BodyForm
  <2>2. Stacked(status, dfs, d) BY <1>9, <2>1, CurOK DEF Stacked
  <2> QED BY <1>9, <2>1, <2>2, TopStacks
\* A list runs alone: the statuses it changes are on no stack.
<1>10. ASSUME ctx # <<>>, Cur.kind = "list", ctx' = With([Cur EXCEPT !.body = Nil]),
              \A m \in Module : status'[m] = "evaluating" => status[m] = "evaluating"
       PROVE  Stacks'
  <2>1. PICK d \in Activation :
          ctx' = With(d) /\ d.stack = Cur.stack /\ d.frames = Cur.frames
    BY <1>10, BodyForm
  <2>2. /\ Len(ctx) = 1 /\ Cur = ctx[1] /\ Cur.frames = <<>> /\ Cur.stack = <<>>
        /\ \A i \in 1..Len(ctx) : i = 1
    BY <1>10, ListAlone
  <2>3. Len(ctx') = Len(ctx) /\ ctx'[Len(ctx)] = d BY <1>10, <2>1, WithFacts
  <2>4. \A i \in 1..Len(ctx') : ctx'[i].stack = <<>> /\ ctx'[i].frames = <<>>
    BY <2>1, <2>2, <2>3
  <2>5. \A i \in 1..Len(ctx) : Members(ctx[i].stack) = {} BY <2>2, MembersEmpty
  <2> QED BY <1>10, <2>4, <2>5, NoStacks
<1>11. CASE BodyReturns
  <2>1. ctx # <<>> /\ ctx' = With([Cur EXCEPT !.body = Nil]) /\ dfs' = dfs
    BY <1>11 DEF BodyReturns, dfsVars
  <2>2. CASE Cur.kind = "list"
    <3>1. Complete(Cur.body) BY <1>11, <2>2 DEF BodyReturns
    <3>2. \A m \in Module : status'[m] = "evaluating" => status[m] = "evaluating"
      BY <3>1 DEF Complete, Types, TypeOK
    <3> QED BY <1>10, <2>1, <2>2, <3>2
  <2>3. CASE Cur.kind # "list" BY <1>9, <1>11, <2>1, <2>3 DEF BodyReturns, recVars
  <2> QED BY <2>2, <2>3
<1>12. CASE BodyThrows
  <2>1. ctx # <<>> /\ dfs' = dfs BY <1>12 DEF BodyThrows, dfsVars
  <2>2. CASE Cur.kind = "dfs"
    <3>1. SetError(Members(Cur.stack), Cur.body) /\ ctx' = Popped BY <1>12, <2>2, BodyThrowForm
    <3>2. /\ \A x \in Module \ Members(Cur.stack) : status'[x] = status[x]
          /\ \A x \in Module \cap Members(Cur.stack) : status'[x] = "evaluated"
      BY <3>1 DEF SetError
    <3>3. Members(Cur.stack) \subseteq Module BY <2>1, CurTyped, MembersOf DEF Activation
    <3> QED BY <2>1, <3>1, <3>2, <3>3, PopStacks
  <2>3. CASE Cur.kind # "dfs"
    <3>1. Cur.kind = "list" BY <2>1, <2>3, CurTyped DEF Activation
    <3>2. /\ SetError(Ancestors(Cur.body), Cur.body)
          /\ ctx' = With([Cur EXCEPT !.body = Nil])
      BY <1>12, <2>3 DEF BodyThrows
    <3>3. \A m \in Module : status'[m] = "evaluating" => status[m] = "evaluating"
      BY <3>2 DEF SetError
    <3> QED BY <1>10, <2>1, <3>1, <3>2, <3>3
  <2> QED BY <2>2, <2>3
<1>13. ASSUME NEW p \in {"pending", "ok", "err"}, BodyAwaits(p) PROVE Stacks'
  BY <1>9, <1>13 DEF BodyAwaits, recVars, dfsVars
<1>14. CASE Callback
  <2>1. ctx = <<>> BY <1>14 DEF Callback
  <2>2. \A m \in Module : status'[m] = "evaluating" => status[m] = "evaluating"
    <3>1. CASE UNCHANGED recVars BY <3>1 DEF recVars
    <3>2. CASE \E m : Complete(m) BY <3>2 DEF Complete, Types, TypeOK
    <3>3. CASE \E m : SetError(Ancestors(m), m) BY <3>3 DEF SetError
    <3> QED BY <1>14, <3>1, <3>2, <3>3 DEF Callback, Fulfilled, Rejected
  <2>3. \A i \in 1..Len(ctx') : ctx'[i].stack = <<>> /\ ctx'[i].frames = <<>>
    <3>1. CASE ctx' = ctx
      <4>1. Len(ctx') = 0 BY <2>1, <3>1
      <4> QED BY <4>1
    <3>2. CASE ctx' = <<List(Available(Head(jobs)))>>
      <4> DEFINE c == List(Available(Head(jobs)))
      <4>1. c.stack = <<>> /\ c.frames = <<>> BY DEF List
      <4> HIDE DEF c
      <4>2. Len(ctx') = 1 /\ ctx'[1] = c BY <3>2 DEF c
      <4> QED BY <4>1, <4>2
    <3> QED BY <1>14, <3>1, <3>2 DEF Callback, Fulfilled, Rejected
  <2>4. Len(ctx) = 0 BY <2>1
  <2>5. \A i \in 1..Len(ctx) : Members(ctx[i].stack) = {} BY <2>4
  <2> QED BY <2>2, <2>3, <2>5, NoStacks
<1>15. CASE RunNext
  <2>1. ctx # <<>> BY <1>15, RunNextForm
  <2>2. PICK d \in Activation :
          /\ ctx' = With(d) /\ d.stack = Cur.stack /\ d.frames = Cur.frames /\ d.index = Cur.index
    BY <1>15, RunNextForm
  <2>3. Stacked(status, dfs, d) BY <2>1, <2>2, CurOK DEF Stacked
  <2> QED BY <1>15, <2>1, <2>2, <2>3, TopStacks DEF RunNext, recVars, dfsVars
<1>16. ASSUME NEW m \in Module, Import(m) \/ Require(m) PROVE Stacks'
  <2>1. Evaluate(m, ctx) /\ status' = status /\ dfs' = dfs BY <1>16 DEF Import, Require, dfsVars
  <2>2. CASE ctx' = ctx BY <1>0, <2>1, <2>2
  <2>3. CASE status[m] = "linked" /\ ctx' = Append(ctx, Walk(m)) BY <2>1, <2>3, PushStacks
  <2> QED BY <2>1, <2>2, <2>3, EvaluateForm
<1>17. ASSUME NEW m \in Module, NEW p \in {"ok", "err"}, Settle(m, p) PROVE Stacks'
  BY <1>0, <1>17 DEF Settle, recVars, dfsVars
<1>18. CASE UNCHANGED vars BY <1>0, <1>18 DEF vars, recVars, dfsVars
<1> QED BY <1>1, <1>2, <1>3, <1>4, <1>5, <1>7, <1>8, <1>11, <1>12, <1>13, <1>14, <1>15, <1>16,
           <1>17, <1>18 DEF Next, Run
-----------------------------------------------------------------------------
\* Paths.
\* Calling require() makes a body, and what needs it, need the module.
LEMMA CallNeeded ==
  ASSUME Types, graph' = graph, NEW b \in Module, NEW m \in Module,
         called' = called \cup {<<b, m>>}
  PROVE  \A x \in Module : <<x, b>> \in Needing => <<x, m>> \in Needing'
<1> DEFINE Uses1(x) == Requested(x) \cup {y \in Module : <<x, y>> \in called'}
           Closed1(z) == {T \in SUBSET Module : {z} \subseteq T /\ \A x \in T : Uses1(x) \subseteq T}
<1>1. \A z : Needs(z)' = {x \in Module : \A T \in Closed1(z) : x \in T}
  BY DEF Needs, Closure, Requested, Req
<1>2. Needing \subseteq Needing' BY NeedsGrow
<1>3. \A x, y \in Module : <<x, y>> \in Needing' <=> \A T \in Closed1(x) : y \in T
  <2> HIDE DEF Closed1
  <2> QED BY <1>1 DEF Needing
<1>4. m \in Uses1(b) OBVIOUS
<1> SUFFICES ASSUME NEW x \in Module, <<x, b>> \in Needing, NEW T \in Closed1(x)
             PROVE  m \in T
  BY <1>3
<1>5. b \in T BY <1>2, <1>3
<1> HIDE DEF Uses1
<1> QED BY <1>4, <1>5

\* A module on a stack needs the module of the stack's last frame.
LEMMA LastNeeded ==
  ASSUME Types, Control, Stacks, Paths, NEW i \in 1..Len(ctx), NEW x \in Members(ctx[i].stack)
  PROVE  /\ x \in Module /\ ctx[i].frames # <<>>
         /\ ctx[i].frames[Len(ctx[i].frames)].m \in Module
         /\ <<x, ctx[i].frames[Len(ctx[i].frames)].m>> \in Needing
<1> DEFINE c == ctx[i]
           n == Len(c.frames)
<1>1. c \in Activation
  <2>1. ctx \in Seq(Activation) BY DEF Types
  <2> QED BY <2>1, ElementOfSeq
<1>2. c.frames \in Seq(FrameType) /\ c.stack \in Seq(Module) BY <1>1 DEF Activation
<1>3. n \in Nat /\ x \in Module BY <1>2, LenProperties, MembersOf
<1>4. Reaching(Needing, dfs, anc, c) BY DEF Paths
<1>5. PICK k \in 1..n : <<x, c.frames[k].m>> \in Needing BY <1>4 DEF Reaching
<1>6. n # 0 /\ n \in 1..n /\ n \in k..n
  <2> HIDE DEF n
  <2> QED BY <1>3
<1>7. <<c.frames[k].m, c.frames[n].m>> \in Needing BY <1>4, <1>6 DEF Reaching
<1>8. \A l \in 1..n : c.frames[l] \in FrameType BY <1>2, ElementOfSeq
<1>9. c.frames[k].m \in Module /\ c.frames[n].m \in Module BY <1>6, <1>8 DEF FrameType
<1>10. <<x, c.frames[n].m>> \in Needing BY <1>3, <1>5, <1>7, <1>9, NeedsClosed
<1> QED BY <1>3, <1>6, <1>9, <1>10

\* ... and the roots of the activations above.
LEMMA RootNeeded ==
  ASSUME Types, Control, Stacks, Paths, NEW i \in 1..Len(ctx), NEW j \in 1..Len(ctx), i < j,
         NEW x \in Members(ctx[i].stack)
  PROVE  <<x, ctx[j].root>> \in Needing
<1> DEFINE c == ctx[i]
           n == Len(c.frames)
<1>0. ctx \in Seq(Activation) BY DEF Types
<1>1. Len(ctx) \in Nat /\ ctx[i] \in Activation /\ ctx[j] \in Activation
  BY <1>0, LenProperties, ElementOfSeq
<1>2. i \in 1..Len(ctx) - 1 /\ j \in 2..Len(ctx) BY <1>1
<1>3. x \in Module /\ c.frames # <<>> /\ c.frames[n].m \in Module /\ <<x, c.frames[n].m>> \in Needing
  BY LastNeeded
<1>4. c.body # Nil /\ Shape(graph, c) BY <1>2 DEF Control
<1>5. c.kind = "dfs" BY <1>1, <1>3, <1>4 DEF Activation, Shape
<1>6. c.frames[n].m = c.body BY <1>4, <1>5 DEF Shape
<1>7. <<c.body, ctx[j].root>> \in Needing BY DEF Paths
<1>8. ctx[j].root \in Module BY <1>2 DEF Control, Shape
<1> QED BY <1>3, <1>6, <1>7, <1>8, NeedsClosed

\* The bodies in progress need the innermost one.
LEMMA BodyNeeded ==
  ASSUME Types, Control, Stacks, Paths, ctx # <<>>, Cur.body # Nil, NEW i \in 1..Len(ctx)
  PROVE  ctx[i].body \in Module /\ <<ctx[i].body, Cur.body>> \in Needing
<1> DEFINE N == Len(ctx)
<1>1. /\ N \in Nat \ {0} /\ Cur = ctx[N] /\ Cur \in Activation /\ ctx[i] \in Activation
  BY CurTyped
<1>2. Cur.body \in Module BY CurBody
<1>3. CASE i = N BY <1>1, <1>2, <1>3, NeedsClosed
<1>4. CASE i # N
  <2>1. i \in 1..N - 1 /\ N \in 2..N /\ N \in 1..N /\ i < N
    <3> HIDE DEF N
    <3>1. N \in Nat \ {0} /\ i \in 1..N BY <1>1 DEF N
    <3> QED BY <3>1, <1>4
  <2>2. ctx[i].body # Nil BY <2>1 DEF Control
  <2>3. ctx[i].body \in Module BY <1>1, <2>2 DEF Activation
  <2>4. Cur.kind = "dfs" /\ Shape(graph, Cur) BY <1>1, <2>1 DEF Control
  <2>5. /\ Cur.frames # <<>> /\ Frame.m = Cur.body /\ Cur.root \in Module
        /\ Cur.frames[1].m = Cur.root
    BY <2>4, BodyFrame DEF Shape
  <2>6. Len(Cur.frames) \in Nat \ {0} /\ Frame = Cur.frames[Len(Cur.frames)] BY <2>5, FrameTyped
  <2>7. 1 \in 1..Len(Cur.frames) /\ Len(Cur.frames) \in 1..Len(Cur.frames) BY <2>6
  <2>8. Reaching(Needing, dfs, anc, Cur) BY <1>1, <2>1 DEF Paths
  <2>9. <<Cur.root, Cur.body>> \in Needing BY <2>5, <2>6, <2>7, <2>8 DEF Reaching
  <2>10. <<ctx[i].body, Cur.root>> \in Needing BY <1>1, <2>1 DEF Paths
  <2> QED BY <1>2, <2>3, <2>5, <2>9, <2>10, NeedsClosed
<1> QED BY <1>3, <1>4

\* What is known of the paths of a walk depends on its stack alone.
LEMMA ReachingLocal ==
  ASSUME NEW c \in Activation, NEW s, NEW d, NEW a, NEW d1, NEW a1, NEW N, NEW N1,
         N \subseteq N1, Reaching(N, d, a, c), Stacked(s, d, c),
         \A x \in Members(c.stack) : d1[x] = d[x] /\ a1[x] = a[x]
  PROVE  Reaching(N1, d1, a1, c)
<1>1. \A k \in 1..Len(c.frames) : c.frames[k].entered => c.frames[k].m \in Members(c.stack)
  BY DEF Stacked
<1>2. ASSUME NEW x \in Members(c.stack)
      PROVE  /\ a1[x] <= d1[x]
             /\ \E y \in Members(c.stack) : <<x, y>> \in N1 /\ d1[y] <= a1[x]
             /\ \E k \in 1..Len(c.frames) :
                  c.frames[k].entered /\ <<x, c.frames[k].m>> \in N1 /\ d1[c.frames[k].m] <= d1[x]
  <2>1. a1[x] <= d1[x] BY DEF Reaching
  <2>2. PICK y \in Members(c.stack) : <<x, y>> \in N /\ d[y] <= a[x] BY DEF Reaching
  <2>3. PICK k \in 1..Len(c.frames) :
          c.frames[k].entered /\ <<x, c.frames[k].m>> \in N /\ d[c.frames[k].m] <= d[x]
    BY DEF Reaching
  <2>4. d1[y] = d[y] /\ a1[x] = a[x] /\ d1[x] = d[x] OBVIOUS
  <2>5. d1[c.frames[k].m] = d[c.frames[k].m] BY <1>1, <2>3
  <2> QED BY <2>1, <2>2, <2>3, <2>4, <2>5
<1>3. \A k \in 1..Len(c.frames) : \A l \in k..Len(c.frames) :
        <<c.frames[k].m, c.frames[l].m>> \in N1
  BY DEF Reaching
<1> QED BY <1>2, <1>3 DEF Reaching

\* A step that replaces the innermost activation and leaves the others' stacks.
LEMMA TopPaths ==
  ASSUME Types, Stacks, Paths, Needing \subseteq Needing', ctx # <<>>, NEW d \in Activation,
         ctx' = With(d), d.root = Cur.root, Reaching(Needing', dfs', anc', d),
         \A i \in 1..Len(ctx) - 1 : \A x \in Members(ctx[i].stack) :
           dfs'[x] = dfs[x] /\ anc'[x] = anc[x]
  PROVE  Paths'
<1> DEFINE N == Len(ctx)
           R == Needing'
<1>1. /\ N \in Nat \ {0} /\ Cur = ctx[N] /\ \A i \in 1..N : ctx[i] \in Activation BY CurTyped
<1>2. Len(ctx') = N /\ ctx'[N] = d /\ \A i \in 1..N - 1 : ctx'[i] = ctx[i] BY WithFacts
<1> HIDE DEF N
<1>3. /\ \A i \in 1..N : i = N \/ i \in 1..N - 1
      /\ \A i \in 1..N - 1 : i \in 1..N
      /\ \A i, j \in 1..N : i < j => i \in 1..N - 1
  BY <1>1
<1>4. \A i \in 1..Len(ctx') : Reaching(R, dfs', anc', ctx'[i])
  <2> SUFFICES ASSUME NEW i \in 1..N - 1 PROVE Reaching(R, dfs', anc', ctx[i])
    BY <1>2, <1>3
  <2>1. i \in 1..N /\ ctx[i] \in Activation BY <1>1, <1>3
  <2>2. Reaching(Needing, dfs, anc, ctx[i]) /\ Stacked(status, dfs, ctx[i])
    BY <2>1 DEF Paths, Stacks, N
  <2>3. \A x \in Members(ctx[i].stack) : dfs'[x] = dfs[x] /\ anc'[x] = anc[x] BY DEF N
  <2> HIDE DEF R
  <2>4. Needing \subseteq R BY DEF R
  <2> QED BY <2>1, <2>2, <2>3, <2>4, ReachingLocal
<1>5. \A i, j \in 1..Len(ctx') : i < j => <<ctx'[i].body, ctx'[j].root>> \in R
  <2> SUFFICES ASSUME NEW i \in 1..N, NEW j \in 1..N, i < j
               PROVE  <<ctx'[i].body, ctx'[j].root>> \in R
    BY <1>2
  <2>1. <<ctx[i].body, ctx[j].root>> \in Needing BY DEF Paths, N
  <2>2. ctx'[i] = ctx[i] /\ ctx'[j].root = ctx[j].root BY <1>1, <1>2, <1>3
  <2> QED BY <2>1, <2>2
<1> QED BY <1>4, <1>5 DEF Paths

\* A return keeps the paths.
LEMMA PopPaths ==
  ASSUME Types, Stacks, Paths, Needing \subseteq Needing', ctx # <<>>, ctx' = Popped,
         \A i \in 1..Len(ctx) - 1 : \A x \in Members(ctx[i].stack) :
           dfs'[x] = dfs[x] /\ anc'[x] = anc[x]
  PROVE  Paths'
<1> DEFINE N == Len(ctx)
           R == Needing'
<1>1. /\ N \in Nat \ {0} /\ \A i \in 1..N : ctx[i] \in Activation BY CurTyped
<1>2. Len(ctx') = N - 1 /\ \A i \in 1..N - 1 : ctx'[i] = ctx[i] BY PoppedFacts
<1> HIDE DEF N
<1>3. \A i \in 1..N - 1 : i \in 1..N BY <1>1
<1>4. \A i \in 1..Len(ctx') : Reaching(R, dfs', anc', ctx'[i])
  <2> SUFFICES ASSUME NEW i \in 1..N - 1 PROVE Reaching(R, dfs', anc', ctx[i])
    BY <1>2
  <2>1. i \in 1..N /\ ctx[i] \in Activation BY <1>1, <1>3
  <2>2. Reaching(Needing, dfs, anc, ctx[i]) /\ Stacked(status, dfs, ctx[i])
    BY <2>1 DEF Paths, Stacks, N
  <2>3. \A x \in Members(ctx[i].stack) : dfs'[x] = dfs[x] /\ anc'[x] = anc[x] BY DEF N
  <2> HIDE DEF R
  <2>4. Needing \subseteq R BY DEF R
  <2> QED BY <2>1, <2>2, <2>3, <2>4, ReachingLocal
<1>5. \A i, j \in 1..Len(ctx') : i < j => <<ctx'[i].body, ctx'[j].root>> \in R
  BY <1>2, <1>3 DEF Paths, N
<1> QED BY <1>4, <1>5 DEF Paths

\* A walk that every running body needs keeps the paths.
LEMMA PushPaths ==
  ASSUME Types, Stacks, Paths, Needing \subseteq Needing', NEW m \in Module,
         ctx' = Append(ctx, Walk(m)), dfs' = dfs, anc' = anc,
         \A i \in 1..Len(ctx) : <<ctx[i].body, m>> \in Needing'
  PROVE  Paths'
<1> DEFINE N == Len(ctx)
           R == Needing'
           c == Walk(m)
<1>1. /\ Len(ctx') = N + 1 /\ ctx'[N + 1] = c /\ N \in Nat
      /\ \A i \in 1..N : ctx'[i] = ctx[i]
  BY WalkTyped, PushFacts
<1>2. \A i \in 1..N : ctx[i] \in Activation
  <2>1. ctx \in Seq(Activation) BY DEF Types
  <2> QED BY <2>1, ElementOfSeq
<1>3. /\ Len(c.frames) = 1 /\ c.frames[1].m = m /\ c.stack = <<>> /\ c.root = m
  BY WalkTyped DEF Walk, NewFrame
<1>4. <<m, m>> \in R BY NeedsClosed
<1> HIDE DEF N, c
<1>5. Reaching(R, dfs', anc', c)
  <2>1. Members(c.stack) = {} BY <1>3, MembersEmpty
  <2>2. \A k \in 1..Len(c.frames) : k = 1 /\ \A l \in k..Len(c.frames) : l = 1 BY <1>3
  <2> QED BY <1>3, <1>4, <2>1, <2>2 DEF Reaching
<1>6. /\ \A i \in 1..N + 1 : i = N + 1 \/ i \in 1..N
      /\ \A i, j \in 1..N + 1 : i < j => i \in 1..N
  BY <1>1
<1>7. \A i \in 1..Len(ctx') : Reaching(R, dfs', anc', ctx'[i])
  <2> SUFFICES ASSUME NEW i \in 1..N PROVE Reaching(R, dfs', anc', ctx[i])
    BY <1>1, <1>5, <1>6
  <2>1. ctx[i] \in Activation BY <1>2
  <2>2. Reaching(Needing, dfs, anc, ctx[i]) /\ Stacked(status, dfs, ctx[i])
    BY <2>1 DEF Paths, Stacks, N
  <2>3. \A x \in Members(ctx[i].stack) : dfs'[x] = dfs[x] /\ anc'[x] = anc[x] OBVIOUS
  <2> HIDE DEF R
  <2>4. Needing \subseteq R BY DEF R
  <2> QED BY <2>1, <2>2, <2>3, <2>4, ReachingLocal
<1>8. \A i, j \in 1..Len(ctx') : i < j => <<ctx'[i].body, ctx'[j].root>> \in R
  <2> SUFFICES ASSUME NEW i \in 1..N + 1, NEW j \in 1..N + 1, i < j
               PROVE  <<ctx'[i].body, ctx'[j].root>> \in R
    BY <1>1
  <2>1. i \in 1..N /\ ctx'[i] = ctx[i] BY <1>1, <1>6
  <2>2. CASE j = N + 1 BY <1>1, <1>3, <2>1, <2>2 DEF N
  <2>3. CASE j \in 1..N BY <1>1, <2>1, <2>3 DEF Paths, N
  <2> QED BY <1>6, <2>2, <2>3
<1> QED BY <1>7, <1>8 DEF Paths

\* Replacing the last frame by one of the same module.
LEMMA FrameReaching ==
  ASSUME Types, Control, Stacks, Paths, ctx # <<>>, Cur.frames # <<>>,
         NEW d \in Activation, NEW f \in FrameType, FrameSet(Cur, d, f),
         d.stack = Cur.stack, f.m = Frame.m, f.entered = Frame.entered
  PROVE  Reaching(Needing, dfs, anc, d)
<1> DEFINE n == Len(Cur.frames)
<1>1. Reaching(Needing, dfs, anc, Cur)
  <2>1. Len(ctx) \in 1..Len(ctx) /\ Cur = ctx[Len(ctx)] BY CurTyped
  <2> QED BY <2>1 DEF Paths
<1>2. n \in Nat \ {0} /\ Frame = Cur.frames[n] BY FrameTyped
<1>3. /\ Len(d.frames) = n /\ d.frames[n] = f
      /\ \A k \in 1..n - 1 : d.frames[k] = Cur.frames[k]
  BY DEF FrameSet
<1> HIDE DEF n
<1>4. /\ \A k \in 1..n : k = n \/ k \in 1..n - 1
      /\ \A k \in 1..n : \A l \in k..n : l \in 1..n
  BY <1>2
<1>5. \A k \in 1..n : d.frames[k].m = Cur.frames[k].m /\ d.frames[k].entered = Cur.frames[k].entered
  BY <1>2, <1>3, <1>4
<1>6. ASSUME NEW x \in Members(d.stack)
      PROVE  /\ anc[x] <= dfs[x]
             /\ \E y \in Members(d.stack) : <<x, y>> \in Needing /\ dfs[y] <= anc[x]
             /\ \E k \in 1..n :
                  d.frames[k].entered /\ <<x, d.frames[k].m>> \in Needing /\ dfs[d.frames[k].m] <= dfs[x]
  <2>1. /\ anc[x] <= dfs[x]
        /\ \E y \in Members(d.stack) : <<x, y>> \in Needing /\ dfs[y] <= anc[x]
    BY <1>1 DEF Reaching
  <2>2. PICK k \in 1..n :
          Cur.frames[k].entered /\ <<x, Cur.frames[k].m>> \in Needing /\ dfs[Cur.frames[k].m] <= dfs[x]
    BY <1>1 DEF Reaching, n
  <2> QED BY <1>5, <2>1, <2>2
<1>7. \A k \in 1..n : \A l \in k..n : <<d.frames[k].m, d.frames[l].m>> \in Needing
  <2> SUFFICES ASSUME NEW k \in 1..n, NEW l \in k..n
               PROVE  <<d.frames[k].m, d.frames[l].m>> \in Needing
    OBVIOUS
  <2>1. <<Cur.frames[k].m, Cur.frames[l].m>> \in Needing BY <1>1 DEF Reaching, n
  <2> QED BY <1>4, <1>5, <2>1
<1> QED BY <1>3, <1>6, <1>7 DEF Reaching

\* A module on entry reaches itself.
LEMMA EnterPaths ==
  ASSUME Types, Control, Stacks, Paths, Enter
  PROVE  Paths'
<1>1. ctx # <<>> /\ Cur.frames # <<>> BY EnterForm
<1>2. PICK d \in Activation, f \in FrameType :
        /\ ctx' = With(d) /\ FrameSet(Cur, d, f) /\ d.root = Cur.root
        /\ d.stack = Append(Cur.stack, Frame.m) /\ f.m = Frame.m /\ f.entered
  BY EnterForm
<1> DEFINE m == Frame.m
           n == Len(Cur.frames)
           N == Len(ctx)
           R == Needing'
<1>3. m \in Module /\ n \in Nat \ {0} /\ Frame = Cur.frames[n] /\ ~Frame.entered
  BY <1>1, FrameTyped DEF Enter
<1>4. /\ N \in Nat \ {0} /\ Cur = ctx[N] /\ Cur \in Activation
      /\ \A i \in 1..N : ctx[i] \in Activation
  BY <1>1, CurTyped
<1>5. Cur.stack \in Seq(Module) /\ Cur.index \in Nat BY <1>4 DEF Activation
<1>6. Stacked(status, dfs, Cur) /\ Shape(graph, Cur) BY <1>1, CurOK
<1>7. n \in 1..n /\ N \in 1..N BY <1>3, <1>4
<1>8. status[m] = "linked" BY <1>3, <1>6, <1>7 DEF Stacked
<1>9. Members(d.stack) = Members(Cur.stack) \cup {m} BY <1>2, <1>3, <1>5, MembersAppend
<1>10. /\ \A x \in Module \ {m} : dfs'[x] = dfs[x] /\ anc'[x] = anc[x]
       /\ dfs'[m] = Cur.index /\ anc'[m] = Cur.index
  BY <1>3 DEF Types, TypeOK, Enter
<1>11. \A i \in 1..N : \A x \in Members(ctx[i].stack) : x \in Module \ {m}
  <2> TAKE i \in 1..N
  <2>1. ctx[i].stack \in Seq(Module) BY <1>4 DEF Activation
  <2>2. Stacked(status, dfs, ctx[i]) BY DEF Stacks
  <2> QED BY <1>8, <2>1, <2>2, MembersOf DEF Stacked
<1>12. Needing \subseteq R BY NeedsGrow DEF Enter, hisVars
<1>13. Reaching(Needing, dfs, anc, Cur) BY <1>4, <1>7 DEF Paths
<1>14. /\ Len(d.frames) = n /\ d.frames[n] = f
       /\ \A k \in 1..n - 1 : d.frames[k] = Cur.frames[k]
  BY <1>2 DEF FrameSet
<1>15. <<m, m>> \in R BY <1>3, <1>12, NeedsClosed
<1>16. \A x \in Members(Cur.stack) : x \in Module \ {m} BY <1>4, <1>7, <1>11
<1> HIDE DEF m, n, N, R
<1>17. /\ \A k \in 1..n : k = n \/ k \in 1..n - 1
       /\ \A k \in 1..n : \A l \in k..n : l \in 1..n
  BY <1>3
<1>18. \A k \in 1..n : d.frames[k].m = Cur.frames[k].m BY <1>2, <1>3, <1>14, <1>17 DEF m
<1>19. ASSUME NEW x \in Members(d.stack)
       PROVE  /\ anc'[x] <= dfs'[x]
              /\ \E y \in Members(d.stack) : <<x, y>> \in R /\ dfs'[y] <= anc'[x]
              /\ \E k \in 1..n :
                   d.frames[k].entered /\ <<x, d.frames[k].m>> \in R /\ dfs'[d.frames[k].m] <= dfs'[x]
  <2>1. CASE x = m
    <3>1. d.frames[n].entered /\ d.frames[n].m = m BY <1>2, <1>14 DEF m
    <3>2. Cur.index <= Cur.index BY <1>5
    <3> QED BY <1>7, <1>9, <1>10, <1>15, <2>1, <3>1, <3>2
  <2>2. CASE x # m
    <3>1. x \in Members(Cur.stack) BY <1>9, <2>2
    <3>2. dfs'[x] = dfs[x] /\ anc'[x] = anc[x] BY <1>10, <1>16, <3>1
    <3>3. anc[x] <= dfs[x] BY <1>13, <3>1 DEF Reaching
    <3>4. PICK y \in Members(Cur.stack) : <<x, y>> \in Needing /\ dfs[y] <= anc[x]
      BY <1>13, <3>1 DEF Reaching
    <3>5. PICK k \in 1..n :
            Cur.frames[k].entered /\ <<x, Cur.frames[k].m>> \in Needing /\ dfs[Cur.frames[k].m] <= dfs[x]
      BY <1>13, <3>1 DEF Reaching, n
    <3>6. y \in Members(d.stack) /\ dfs'[y] = dfs[y] BY <1>9, <1>10, <1>16
    <3>7. k \in 1..n - 1 BY <1>3, <1>17, <3>5
    <3>8. Cur.frames[k].m \in Members(Cur.stack) BY <1>6, <3>5 DEF Stacked, n
    <3>9. dfs'[Cur.frames[k].m] = dfs[Cur.frames[k].m] BY <1>10, <1>16, <3>8
    <3>10. d.frames[k] = Cur.frames[k] BY <1>14, <3>7
    <3>11. \E z \in Members(d.stack) : <<x, z>> \in R /\ dfs'[z] <= anc'[x]
      BY <1>12, <3>2, <3>4, <3>6
    <3>12. /\ d.frames[k].entered /\ <<x, d.frames[k].m>> \in R
           /\ dfs'[d.frames[k].m] <= dfs'[x]
      BY <1>12, <3>2, <3>5, <3>9, <3>10
    <3> QED BY <3>2, <3>3, <3>11, <3>12
  <2> QED BY <2>1, <2>2
<1>20. \A k \in 1..n : \A l \in k..n : <<d.frames[k].m, d.frames[l].m>> \in R
  <2> SUFFICES ASSUME NEW k \in 1..n, NEW l \in k..n
               PROVE  <<d.frames[k].m, d.frames[l].m>> \in R
    OBVIOUS
  <2>1. <<Cur.frames[k].m, Cur.frames[l].m>> \in Needing BY <1>13 DEF Reaching, n
  <2> QED BY <1>12, <1>17, <1>18, <2>1
<1>21. Reaching(R, dfs', anc', d) BY <1>14, <1>19, <1>20 DEF Reaching
<1>22. \A i \in 1..N - 1 : \A x \in Members(ctx[i].stack) : dfs'[x] = dfs[x] /\ anc'[x] = anc[x]
  <2>1. \A i \in 1..N - 1 : i \in 1..N BY <1>4
  <2> QED BY <1>10, <1>11, <2>1
<1> QED BY <1>1, <1>2, <1>12, <1>21, <1>22, TopPaths DEF R, N

\* Only the innermost activation's stack holds the module of its last frame.
LEMMA FrameAlone ==
  ASSUME Types, Control, Stacks, ctx # <<>>, Cur.frames # <<>>, Frame.entered
  PROVE  /\ Frame.m \in Members(Cur.stack) /\ Entered(Cur)
         /\ \A i \in 1..Len(ctx) - 1 : \A x \in Members(ctx[i].stack) :
              x \in Module /\ x \notin Members(Cur.stack)
<1> DEFINE n == Len(Cur.frames)
           N == Len(ctx)
<1>1. /\ N \in Nat \ {0} /\ Cur = ctx[N] /\ Cur \in Activation
      /\ \A i \in 1..N : ctx[i] \in Activation
  BY CurTyped
<1>2. n \in Nat \ {0} /\ Frame = Cur.frames[n] BY FrameTyped
<1>3. Stacked(status, dfs, Cur) BY CurOK
<1>4. n \in 1..n /\ N \in 1..N BY <1>1, <1>2
<1>5. Frame.m \in Members(Cur.stack) BY <1>2, <1>3, <1>4 DEF Stacked
<1>6. Entered(Cur) BY <1>1, <1>2, <1>4, AllEntered
<1> HIDE DEF N
<1>7. ASSUME NEW i \in 1..N - 1, NEW x \in Members(ctx[i].stack)
      PROVE  x \in Module /\ x \notin Members(Cur.stack)
  <2>1. i \in 1..N /\ i # N BY <1>1
  <2>2. ctx[i].stack \in Seq(Module) BY <1>1, <2>1 DEF Activation
  <2>3. x \in Module BY <2>2, MembersOf
  <2> QED BY <1>1, <1>4, <2>1, <2>3 DEF Stacks, N
<1> QED BY <1>5, <1>6, <1>7 DEF N

\* Examine lowers an ancestor index only to one that the module reaches.
LEMMA ExaminePaths ==
  ASSUME Types, Control, Stacks, Paths, Examine
  PROVE  Paths'
<1> DEFINE m == Frame.m
           q == Req(m)[Frame.next - 1]
           N == Len(ctx)
<1>1. ctx # <<>> /\ Cur.frames # <<>> /\ Frame.entered BY DEF Examine, Walking
<1>2. m \in Module /\ q \in Module /\ q \in Requested(m) BY ExamineTyped
<1>3. /\ m \in Members(Cur.stack) /\ Entered(Cur)
      /\ \A i \in 1..N - 1 : \A x \in Members(ctx[i].stack) :
           x \in Module /\ x \notin Members(Cur.stack)
  BY <1>1, FrameAlone
<1>4. dfs' = dfs /\ anc' = [anc EXCEPT ![m] = LowLink(m, q)] BY DEF Examine
<1>5. /\ \A x \in Module \ {m} : anc'[x] = anc[x]
      /\ anc'[m] = LowLink(m, q)
  BY <1>2, <1>4 DEF Types, TypeOK
<1>6. \A x \in Module : dfs[x] \in Nat /\ anc[x] \in Nat BY DEF Types, TypeOK
<1>7. Needing \subseteq Needing' BY NeedsGrow DEF Examine, hisVars
<1>8. \A i \in 1..N - 1 : \A x \in Members(ctx[i].stack) : dfs'[x] = dfs[x] /\ anc'[x] = anc[x]
  BY <1>3, <1>4, <1>5
<1>9. CASE ctx' = Popped BY <1>1, <1>7, <1>8, <1>9, PopPaths
<1>10. CASE ctx' # Popped
  <2>1. PICK d \in Activation, f \in FrameType :
          /\ ctx' = With(d) /\ FrameSet(Cur, d, f) /\ d.root = Cur.root /\ d.stack = Cur.stack
          /\ f.m = Frame.m /\ f.entered = Frame.entered
    BY <1>10, ExamineForm
  <2>2. Reaching(Needing, dfs, anc, d) BY <1>1, <2>1, FrameReaching
  <2>3. N \in Nat \ {0} /\ Cur = ctx[N] /\ Cur \in Activation BY <1>1, CurTyped
  <2>4. Members(Cur.stack) \subseteq Module BY <2>3, MembersOf DEF Activation
  <2> HIDE DEF q, m
  <2>5. /\ LowLink(m, q) <= dfs[m]
        /\ \E y \in Members(Cur.stack) : <<m, y>> \in Needing /\ dfs[y] <= LowLink(m, q)
    <3>1. anc[m] <= dfs[m] BY <1>3, <2>1, <2>2 DEF Reaching
    <3>2. CASE LowLink(m, q) = anc[m]
      <4>1. \E y \in Members(Cur.stack) : <<m, y>> \in Needing /\ dfs[y] <= anc[m]
        BY <1>3, <2>1, <2>2 DEF Reaching
      <4> QED BY <3>1, <3>2, <4>1
    <3>3. CASE status[q] = "evaluating" /\ anc[q] < anc[m] /\ LowLink(m, q) = anc[q]
      <4>1. PICK i \in 1..N : q \in Members(ctx[i].stack) BY <1>2, <3>3 DEF Stacks
      <4>2. <<m, q>> \in Needing BY <1>2, NeedsClosed
      <4>3. CASE i = N
        <5>1. PICK y \in Members(Cur.stack) : <<q, y>> \in Needing /\ dfs[y] <= anc[q]
          BY <2>1, <2>2, <2>3, <4>1, <4>3 DEF Reaching
        <5>2. <<m, y>> \in Needing BY <1>2, <2>4, <4>2, <5>1, NeedsClosed
        <5> QED BY <1>2, <1>6, <3>1, <3>3, <5>1, <5>2
      <4>4. CASE i # N
        <5>1. N \in 1..N /\ i < N
          <6> HIDE DEF N
          <6> QED BY <2>3, <4>4
        <5>2. <<q, ctx[N].root>> \in Needing BY <4>1, <5>1, RootNeeded
        <5>3. ctx[N].root \in Members(Cur.stack) /\ dfs[ctx[N].root] = 0
          BY <1>1, <1>3, <2>3, <5>1, RootStacked
        <5>4. <<m, ctx[N].root>> \in Needing BY <1>2, <2>4, <4>2, <5>2, <5>3, NeedsClosed
        <5> QED BY <1>2, <1>6, <3>1, <3>3, <5>3, <5>4
      <4> QED BY <4>3, <4>4
    <3> QED BY <3>2, <3>3 DEF LowLink
  <2>6. ASSUME NEW x \in Members(d.stack)
        PROVE  /\ anc'[x] <= dfs'[x]
               /\ \E y \in Members(d.stack) : <<x, y>> \in Needing' /\ dfs'[y] <= anc'[x]
               /\ \E k \in 1..Len(d.frames) :
                    /\ d.frames[k].entered /\ <<x, d.frames[k].m>> \in Needing'
                    /\ dfs'[d.frames[k].m] <= dfs'[x]
    <3>1. CASE x = m BY <1>4, <1>5, <1>7, <2>1, <2>2, <2>5, <2>6, <3>1 DEF Reaching
    <3>2. CASE x # m
      <4>1. anc'[x] = anc[x] BY <1>5, <2>1, <2>4, <3>2
      <4> QED BY <1>4, <1>7, <2>2, <4>1 DEF Reaching
    <3> QED BY <3>1, <3>2
  <2>7. \A k \in 1..Len(d.frames) : \A l \in k..Len(d.frames) :
          <<d.frames[k].m, d.frames[l].m>> \in Needing'
    BY <1>7, <2>2 DEF Reaching
  <2>8. Reaching(Needing', dfs', anc', d) BY <2>6, <2>7 DEF Reaching
  <2> QED BY <1>1, <1>7, <1>8, <2>1, <2>8, TopPaths
<1> QED BY <1>9, <1>10

\* Request pushes only a module that the frames below it need.
LEMMA RequestPaths ==
  ASSUME Types, Control, Stacks, Paths, Request
  PROVE  Paths'
<1>1. ctx # <<>> /\ Cur.frames # <<>> BY RequestForm
<1> DEFINE n == Len(Cur.frames)
           q == Req(Frame.m)[Frame.next]
<1>2. PICK d \in Activation, f \in FrameType :
        /\ ctx' = With(d) /\ d.stack = Cur.stack /\ d.root = Cur.root
        /\ f.m = Frame.m /\ f.entered = Frame.entered
        /\ \/ FrameSet(Cur, d, f)
           \/ /\ Len(d.frames) = n + 1 /\ d.frames[n] = f
              /\ \A k \in 1..n - 1 : d.frames[k] = Cur.frames[k]
              /\ d.frames[n + 1] = NewFrame(q)
  BY RequestForm
<1>3. UNCHANGED <<graph, called, dfs, anc>> BY DEF Request, dfsVars, hisVars
<1>4. Needing \subseteq Needing' BY <1>3, NeedsGrow
<1>5. Reaching(Needing, dfs, anc, Cur)
  <2>1. Len(ctx) \in 1..Len(ctx) /\ Cur = ctx[Len(ctx)] BY <1>1, CurTyped
  <2> QED BY <2>1 DEF Paths
<1>6. ASSUME Reaching(Needing, dfs, anc, d) PROVE Paths'
  <2>1. Reaching(Needing', dfs', anc', d) BY <1>3, <1>4, <1>6 DEF Reaching
  <2> QED BY <1>1, <1>2, <1>3, <1>4, <2>1, TopPaths
<1>7. CASE FrameSet(Cur, d, f) BY <1>1, <1>2, <1>6, <1>7, FrameReaching
<1>8. CASE /\ Len(d.frames) = n + 1 /\ d.frames[n] = f
           /\ \A k \in 1..n - 1 : d.frames[k] = Cur.frames[k]
           /\ d.frames[n + 1] = NewFrame(q)
  <2>1. n \in Nat \ {0} /\ Frame = Cur.frames[n] /\ Frame.m \in Module /\ Frame.next \in Nat \ {0}
    BY <1>1, FrameTyped
  <2>2. q \in Module /\ q \in Requested(Frame.m)
    <3>1. Frame.next \in 1..Len(Req(Frame.m)) BY <2>1, RequestTyped DEF Request
    <3> QED BY <2>1, <3>1, RequestTyped
  <2>3. <<Frame.m, q>> \in Needing /\ <<q, q>> \in Needing BY <2>1, <2>2, NeedsClosed
  <2>4. NewFrame(q).m = q BY DEF NewFrame
  <2>5. \A k \in 1..n : Cur.frames[k].m \in Module
    <3>1. Cur.frames \in Seq(FrameType) BY <1>1, FrameTyped
    <3>2. \A k \in 1..n : Cur.frames[k] \in FrameType BY <3>1, ElementOfSeq
    <3> QED BY <3>2 DEF FrameType
  <2> HIDE DEF n, q
  <2>6. /\ \A k \in 1..n : k = n \/ k \in 1..n - 1
        /\ \A k \in 1..n : k \in 1..n + 1 /\ n \in k..n
        /\ \A k \in 1..n + 1 : k = n + 1 \/ k \in 1..n
        /\ \A k \in 1..n + 1 : \A l \in k..n + 1 : l = n + 1 \/ (k \in 1..n /\ l \in k..n /\ l \in 1..n)
    BY <2>1
  <2>7. \A k \in 1..n : d.frames[k].m = Cur.frames[k].m /\ d.frames[k].entered = Cur.frames[k].entered
    BY <1>2, <1>8, <2>1, <2>6
  <2>8. ASSUME NEW x \in Members(d.stack)
        PROVE  /\ anc[x] <= dfs[x]
               /\ \E y \in Members(d.stack) : <<x, y>> \in Needing /\ dfs[y] <= anc[x]
               /\ \E k \in 1..n + 1 :
                    d.frames[k].entered /\ <<x, d.frames[k].m>> \in Needing /\ dfs[d.frames[k].m] <= dfs[x]
    <3>1. /\ anc[x] <= dfs[x]
          /\ \E y \in Members(d.stack) : <<x, y>> \in Needing /\ dfs[y] <= anc[x]
      BY <1>2, <1>5 DEF Reaching
    <3>2. PICK k \in 1..n :
            Cur.frames[k].entered /\ <<x, Cur.frames[k].m>> \in Needing /\ dfs[Cur.frames[k].m] <= dfs[x]
      BY <1>2, <1>5 DEF Reaching, n
    <3> QED BY <2>6, <2>7, <3>1, <3>2
  <2>9. ASSUME NEW k \in 1..n + 1, NEW l \in k..n + 1
        PROVE  <<d.frames[k].m, d.frames[l].m>> \in Needing
    <3>1. CASE l # n + 1
      <4>1. k \in 1..n /\ l \in k..n /\ l \in 1..n BY <2>6, <3>1
      <4>2. <<Cur.frames[k].m, Cur.frames[l].m>> \in Needing BY <1>5, <4>1 DEF Reaching, n
      <4> QED BY <2>7, <4>1, <4>2
    <3>2. CASE l = n + 1 /\ k = n + 1 BY <1>8, <2>3, <2>4, <3>2
    <3>3. CASE l = n + 1 /\ k \in 1..n
      <4>1. n \in k..n BY <2>6, <3>3
      <4>2. <<Cur.frames[k].m, Frame.m>> \in Needing BY <1>5, <2>1, <3>3, <4>1 DEF Reaching, n
      <4>3. Cur.frames[k].m \in Module BY <2>5, <3>3 DEF n
      <4>4. <<Cur.frames[k].m, q>> \in Needing BY <2>1, <2>2, <2>3, <4>2, <4>3, NeedsClosed
      <4> QED BY <1>8, <2>4, <2>7, <3>3, <4>4
    <3> QED BY <2>6, <3>1, <3>2, <3>3
  <2>10. Reaching(Needing, dfs, anc, d) BY <1>8, <2>8, <2>9 DEF Reaching
  <2> QED BY <1>6, <2>10
<1> QED BY <1>2, <1>7, <1>8

\* Finish hands its ancestor index to the frame below, which needs its module.
LEMMA FinishPaths ==
  ASSUME Types, Control, Stacks, Paths, Finish
  PROVE  Paths'
<1> DEFINE m == Frame.m
           n == Len(Cur.frames)
<1>1. ctx # <<>> /\ Cur.frames # <<>> BY FinishForm
<1>2. PICK d \in Activation, S \in SUBSET Module : FinishParts(d, S) BY FinishSplits
<1>3. m \in Module /\ n \in Nat \ {0} /\ Frame = Cur.frames[n] BY <1>1, FrameTyped
<1>4. UNCHANGED <<graph, called, dfs, anc>> BY DEF Finish, hisVars
<1>5. Needing \subseteq Needing' BY <1>4, NeedsGrow
<1>6. Cur \in Activation /\ Reaching(Needing, dfs, anc, Cur)
  <2>1. Len(ctx) \in 1..Len(ctx) /\ Cur = ctx[Len(ctx)] /\ Cur \in Activation BY <1>1, CurTyped
  <2> QED BY <2>1 DEF Paths
<1>7. Members(Cur.stack) \subseteq Module BY <1>6, MembersOf DEF Activation
<1>8. Frame.entered BY <1>1, CurOK DEF FrameOK, Finish
<1>9. m \in Members(Cur.stack) BY <1>1, <1>8, FrameAlone
<1>10. \A x \in Module : dfs[x] \in Nat /\ anc[x] \in Nat BY DEF Types, TypeOK
<1>11. /\ Len(d.frames) = n - 1 /\ \A k \in 1..n - 1 : d.frames[k] = Cur.frames[k]
       /\ Members(d.stack) \subseteq Members(Cur.stack)
       /\ \A x \in Members(Cur.stack) : dfs[x] < dfs[m] => x \in Members(d.stack)
       /\ anc[m] # dfs[m] => d.stack = Cur.stack
       /\ anc[m] = dfs[m] => \A x \in Members(d.stack) : dfs[x] < dfs[m]
  BY <1>2 DEF FinishParts
<1>12. \A k \in 1..n : Cur.frames[k].entered => Cur.frames[k].m \in Members(Cur.stack)
  BY <1>1, CurOK DEF Stacked
<1> HIDE DEF m, n
<1>13. /\ \A k \in 1..n : k = n \/ k \in 1..n - 1
       /\ \A k \in 1..n - 1 : k \in 1..n
       /\ \A k \in 1..n - 1 : \A l \in k..n - 1 : l \in k..n /\ l \in 1..n - 1
  BY <1>3
\* The frame that witnesses a path, if it is not the one that leaves.
<1>14. ASSUME NEW x \in Members(Cur.stack), dfs[x] < dfs[m]
       PROVE  \E k \in 1..n - 1 : /\ d.frames[k].entered /\ <<x, d.frames[k].m>> \in Needing
                                  /\ dfs[d.frames[k].m] <= dfs[x] /\ d.frames[k].m \in Module
  <2>1. PICK k \in 1..n :
          Cur.frames[k].entered /\ <<x, Cur.frames[k].m>> \in Needing /\ dfs[Cur.frames[k].m] <= dfs[x]
    BY <1>6 DEF Reaching, n
  <2>2. Cur.frames[k].m \in Module BY <1>7, <1>12, <2>1
  <2>3. k # n BY <1>3, <1>7, <1>10, <1>14, <2>1, <2>2 DEF m
  <2> QED BY <1>11, <1>13, <2>1, <2>2, <2>3
<1>15. ASSUME NEW x \in Members(d.stack)
       PROVE  /\ anc[x] <= dfs[x]
              /\ \E y \in Members(d.stack) : <<x, y>> \in Needing /\ dfs[y] <= anc[x]
              /\ \E k \in 1..n - 1 :
                   d.frames[k].entered /\ <<x, d.frames[k].m>> \in Needing /\ dfs[d.frames[k].m] <= dfs[x]
  <2>1. x \in Members(Cur.stack) /\ x \in Module BY <1>7, <1>11
  <2>2. anc[x] <= dfs[x] BY <1>6, <2>1 DEF Reaching
  <2>3. PICK y \in Members(Cur.stack) : <<x, y>> \in Needing /\ dfs[y] <= anc[x]
    BY <1>6, <2>1 DEF Reaching
  <2>4. CASE anc[m] = dfs[m]
    <3>1. dfs[x] < dfs[m] BY <1>11, <2>4
    <3>2. dfs[y] < dfs[m]
      <4>1. y \in Module BY <1>7
      <4> QED BY <1>3, <1>10, <2>1, <2>2, <2>3, <3>1, <4>1
    <3>3. y \in Members(d.stack) BY <1>11, <3>2
    <3> QED BY <1>14, <2>1, <2>2, <2>3, <3>1, <3>3
  <2>5. CASE anc[m] # dfs[m]
    <3>1. y \in Members(d.stack) BY <1>11, <2>5
    <3>2. PICK k \in 1..n :
            Cur.frames[k].entered /\ <<x, Cur.frames[k].m>> \in Needing /\ dfs[Cur.frames[k].m] <= dfs[x]
      BY <1>6, <2>1 DEF Reaching, n
    <3>3. CASE k # n BY <1>11, <1>13, <2>2, <2>3, <3>1, <3>2, <3>3
    <3>4. CASE k = n
      <4>1. <<x, m>> \in Needing /\ dfs[m] <= dfs[x] BY <1>3, <3>2, <3>4 DEF m
      <4>2. anc[m] <= dfs[m] BY <1>6, <1>9 DEF Reaching
      <4>3. PICK z \in Members(Cur.stack) : <<m, z>> \in Needing /\ dfs[z] <= anc[m]
        BY <1>6, <1>9 DEF Reaching
      <4>4. z \in Module /\ dfs[z] < dfs[m]
        <5>1. z \in Module BY <1>7
        <5> QED BY <1>3, <1>10, <2>5, <4>2, <4>3, <5>1
      <4>5. PICK l \in 1..n - 1 : /\ d.frames[l].entered /\ <<z, d.frames[l].m>> \in Needing
                                  /\ dfs[d.frames[l].m] <= dfs[z] /\ d.frames[l].m \in Module
        BY <1>14, <4>4
      <4>6. <<x, d.frames[l].m>> \in Needing
        <5>1. <<x, z>> \in Needing BY <1>3, <2>1, <4>1, <4>3, <4>4, NeedsClosed
        <5> QED BY <2>1, <4>4, <4>5, <5>1, NeedsClosed
      <4>7. dfs[d.frames[l].m] <= dfs[x] BY <1>3, <1>10, <2>1, <4>1, <4>4, <4>5
      <4> QED BY <2>2, <2>3, <3>1, <4>5, <4>6, <4>7
    <3> QED BY <3>3, <3>4
  <2> QED BY <2>4, <2>5
<1>16. \A k \in 1..n - 1 : \A l \in k..n - 1 : <<d.frames[k].m, d.frames[l].m>> \in Needing
  <2> SUFFICES ASSUME NEW k \in 1..n - 1, NEW l \in k..n - 1
               PROVE  <<d.frames[k].m, d.frames[l].m>> \in Needing
    OBVIOUS
  <2>1. k \in 1..n /\ l \in k..n /\ l \in 1..n - 1 BY <1>13
  <2>2. <<Cur.frames[k].m, Cur.frames[l].m>> \in Needing BY <1>6, <2>1 DEF Reaching, n
  <2> QED BY <1>11, <2>1, <2>2
<1>17. Reaching(Needing, dfs, anc, d) BY <1>11, <1>15, <1>16 DEF Reaching
<1>18. Reaching(Needing', dfs', anc', d) BY <1>4, <1>5, <1>17 DEF Reaching
<1> QED BY <1>1, <1>2, <1>4, <1>5, <1>18, TopPaths DEF FinishParts

\* Every step keeps the paths.
LEMMA PathsPreserved ==
  ASSUME Types, Control, Stacks, Paths, Fresh, [Next]_vars
  PROVE  Paths'
<1>0. ASSUME graph' = graph, called' = called PROVE Needing \subseteq Needing'
  BY <1>0, NeedsGrow
<1>1. CASE Enter BY <1>1, EnterPaths
<1>2. CASE Examine BY <1>2, ExaminePaths
<1>3. CASE Request BY <1>3, RequestPaths
\* The steps that leave the indexes alone and change only the innermost
\* activation's frames, or end it.
<1>4. ASSUME UNCHANGED <<graph, called, dfs, anc>>, ctx # <<>>, NEW d \in Activation, ctx' = With(d),
             d.root = Cur.root, Reaching(Needing, dfs, anc, d)
      PROVE  Paths'
  <2>1. Needing \subseteq Needing' BY <1>0, <1>4
  <2>2. Reaching(Needing', dfs', anc', d) BY <1>4, <2>1 DEF Reaching
  <2> QED BY <1>4, <2>1, <2>2, TopPaths
<1>5. ASSUME UNCHANGED <<graph, called, dfs, anc>>, ctx # <<>>, ctx' = Popped PROVE Paths'
  BY <1>0, <1>5, PopPaths
<1>6. ASSUME UNCHANGED <<graph, called, dfs, anc>>, ctx # <<>>,
             ctx' = With([Cur EXCEPT !.body = Nil])
      PROVE  Paths'
  <2>1. PICK d \in Activation :
          ctx' = With(d) /\ d.root = Cur.root /\ d.stack = Cur.stack /\ d.frames = Cur.frames
    BY <1>6, BodyForm
  <2>2. Len(ctx) \in 1..Len(ctx) /\ Cur = ctx[Len(ctx)] BY <1>6, CurTyped
  <2>3. Reaching(Needing, dfs, anc, d) BY <2>1, <2>2 DEF Paths, Reaching
  <2> QED BY <1>4, <1>6, <2>1, <2>3
<1>7. CASE Execute
  <2>1. PICK d \in Activation, f \in FrameType :
          /\ ctx' = With(d) /\ FrameSet(Cur, d, f) /\ d.root = Cur.root /\ d.stack = Cur.stack
          /\ f.m = Frame.m /\ f.entered = Frame.entered
    BY <1>7, ExecuteForm
  <2>2. ctx # <<>> /\ Cur.frames # <<>> BY <1>7, ExecuteForm
  <2>3. Reaching(Needing, dfs, anc, d) BY <2>1, <2>2, FrameReaching
  <2> QED BY <1>4, <1>7, <2>1, <2>2, <2>3 DEF Execute, dfsVars
<1>8. CASE Finish BY <1>8, FinishPaths
<1>9. CASE EndWalk BY <1>5, <1>9 DEF EndWalk, dfsVars, hisVars
<1>10. CASE EndList BY <1>5, <1>10 DEF EndList, dfsVars, hisVars
<1>11. CASE BodyReturns BY <1>6, <1>11 DEF BodyReturns, dfsVars
<1>12. CASE BodyThrows BY <1>5, <1>6, <1>12 DEF BodyThrows, Throw, dfsVars, hisVars
<1>13. ASSUME NEW p \in {"pending", "ok", "err"}, BodyAwaits(p) PROVE Paths'
  BY <1>6, <1>13 DEF BodyAwaits, dfsVars
<1>14. CASE UNCHANGED <<graph, called, dfs, anc, ctx>>
  <2>1. Needing \subseteq Needing' BY <1>0, <1>14
  <2>2. \A i \in 1..Len(ctx) : Reaching(Needing', dfs', anc', ctx[i])
    BY <1>14, <2>1 DEF Paths, Reaching
  <2> QED BY <1>14, <2>1, <2>2 DEF Paths
<1>15. CASE Callback
  <2>1. UNCHANGED <<graph, called, dfs, anc>> /\ ctx = <<>> BY <1>15 DEF Callback, dfsVars, hisVars
  <2>2. CASE ctx' = <<List(Available(Head(jobs)))>>
    <3> DEFINE c == List(Available(Head(jobs)))
    <3>1. c.frames = <<>> /\ c.stack = <<>> BY DEF List
    <3> HIDE DEF c
    <3>2. Len(ctx') = 1 /\ ctx'[1] = c BY <2>2 DEF c
    <3>3. Members(c.stack) = {} /\ Len(c.frames) = 0 BY <3>1, MembersEmpty
    <3>4. Reaching(Needing', dfs', anc', c) BY <3>3 DEF Reaching
    <3>5. \A i \in 1..Len(ctx') : i = 1 BY <3>2
    <3> QED BY <3>2, <3>4, <3>5 DEF Paths
  <2>3. CASE ctx' = ctx BY <1>14, <2>1, <2>3
  <2> QED BY <1>15, <2>2, <2>3 DEF Callback, Fulfilled, Rejected
<1>16. CASE RunNext
  <2>1. ctx # <<>> BY <1>16, RunNextForm
  <2>2. PICK d \in Activation :
          ctx' = With(d) /\ d.root = Cur.root /\ d.stack = Cur.stack /\ d.frames = Cur.frames
    BY <1>16, RunNextForm
  <2>3. Len(ctx) \in 1..Len(ctx) /\ Cur = ctx[Len(ctx)] BY <2>1, CurTyped
  <2>4. Reaching(Needing, dfs, anc, d) BY <2>2, <2>3 DEF Paths, Reaching
  <2> QED BY <1>4, <1>16, <2>1, <2>2, <2>4 DEF RunNext, dfsVars
<1>17. ASSUME NEW m \in Module, Import(m) PROVE Paths'
  <2>1. Evaluate(m, ctx) /\ UNCHANGED <<graph, called, dfs, anc>> /\ ctx = <<>>
    BY <1>17 DEF Import, dfsVars, hisVars
  <2>2. CASE ctx' = ctx BY <1>14, <2>1, <2>2
  <2>3. CASE ctx' = Append(ctx, Walk(m))
    <3>1. Len(ctx) = 0 BY <2>1
    <3>2. \A i \in 1..Len(ctx) : <<ctx[i].body, m>> \in Needing' BY <3>1
    <3> QED BY <1>0, <2>1, <2>3, <3>2, PushPaths
  <2> QED BY <2>1, <2>2, <2>3, EvaluateForm
<1>18. ASSUME NEW m \in Module, Require(m) PROVE Paths'
  <2>1. /\ Evaluate(m, ctx) /\ UNCHANGED <<graph, dfs, anc>> /\ ctx # <<>> /\ Cur.body # Nil
        /\ called' = called \cup {<<Cur.body, m>>}
    BY <1>18 DEF Require, dfsVars
  <2>2. Needing \subseteq Needing' BY <2>1, NeedsGrow
  <2>3. Cur.body \in Module BY <2>1, CurBody
  <2>4. CASE ctx' = ctx
    <3>1. \A i \in 1..Len(ctx) : Reaching(Needing', dfs', anc', ctx[i])
      BY <2>1, <2>2 DEF Paths, Reaching
    <3> QED BY <2>1, <2>2, <2>4, <3>1 DEF Paths
  <2>5. CASE ctx' = Append(ctx, Walk(m))
    <3>1. \A i \in 1..Len(ctx) : <<ctx[i].body, m>> \in Needing'
      BY <2>1, <2>3, BodyNeeded, CallNeeded
    <3> QED BY <2>1, <2>2, <2>5, <3>1, PushPaths
  <2> QED BY <2>1, <2>4, <2>5, EvaluateForm
<1>19. ASSUME NEW m \in Module, NEW p \in {"ok", "err"}, Settle(m, p) PROVE Paths'
  BY <1>14, <1>19 DEF Settle, dfsVars
<1>20. CASE UNCHANGED vars BY <1>14, <1>20 DEF vars, dfsVars, hisVars
<1> QED BY <1>1, <1>2, <1>3, <1>7, <1>8, <1>9, <1>10, <1>11, <1>12, <1>13, <1>15, <1>16, <1>17,
           <1>18, <1>19, <1>20 DEF Next, Run
-----------------------------------------------------------------------------
\* Links.
LEMMA LinksPreserved ==
  ASSUME Types, Control, Stacks, Paths, Links, Fresh, [Next]_vars
  PROVE  Links'
<1>1. graph' = graph /\ called \subseteq called'
  BY DEF Next, Run, Enter, Examine, Request, Execute, Finish, EndWalk, BodyReturns, BodyThrows,
         BodyAwaits, Callback, RunNext, EndList, Import, Require, Settle, vars, hisVars
<1>2. Needing \subseteq Needing' BY <1>1, NeedsGrow
<1>3. CASE UNCHANGED <<root, parents>> BY <1>2, <1>3 DEF Links
<1>4. CASE Finish
  <2>1. ctx # <<>> /\ Cur.frames # <<>> BY <1>4, FinishForm
  <2>2. PICK d \in Activation, S \in SUBSET Module : FinishParts(d, S) BY <1>4, FinishSplits
  <2>3. parents' = parents BY <1>4 DEF Finish, asyVars
  <2>4. Len(ctx) \in 1..Len(ctx) /\ Cur = ctx[Len(ctx)] BY <2>1, CurTyped
  <2>5. \A x \in Members(Cur.stack) : <<x, Frame.m>> \in Needing
    BY <2>4, LastNeeded DEF Frame
  <2>6. \A x \in Module : root'[x] = root[x] \/ (root'[x] = Frame.m /\ x \in Members(Cur.stack))
    BY <2>2 DEF FinishParts
  <2>7. \A x \in Module : <<x, root'[x]>> \in Needing' BY <1>2, <2>5, <2>6 DEF Links
  <2> QED BY <1>2, <2>3, <2>7 DEF Links
<1>5. CASE Examine
  <2> DEFINE m == Frame.m
             q == Req(m)[Frame.next - 1]
             r == IF status[q] = "evaluating" THEN q ELSE root[q]
  <2>1. m \in Module /\ q \in Module /\ q \in Requested(m) BY <1>5, ExamineTyped
  <2>2. root' = root BY <1>5 DEF Examine
  <2>3. parents' = parents \/ parents' = Register(r, m) BY <1>5 DEF Examine
  <2>4. r \in Module /\ <<m, r>> \in Needing
    <3>1. <<m, q>> \in Needing BY <2>1, NeedsClosed
    <3>2. root[q] \in Module /\ <<q, root[q]>> \in Needing BY <2>1 DEF Links, Types, TypeOK
    <3>3. <<m, root[q]>> \in Needing
      <4> HIDE DEF m, q
      <4> QED BY <2>1, <3>1, <3>2, NeedsClosed
    <3> QED BY <2>1, <3>1, <3>2, <3>3
  <2> HIDE DEF m, q, r
  <2>5. CASE parents' = Register(r, m)
    <3>1. \A x \in Module : parents[x] \in Seq(Module) BY DEF Types, TypeOK
    <3>2. parents' = [parents EXCEPT ![r] = Append(parents[r], m)] BY <2>5 DEF Register
    <3>3. /\ parents'[r] = Append(parents[r], m)
          /\ \A x \in Module \ {r} : parents'[x] = parents[x]
      BY <2>4, <3>2 DEF Types, TypeOK
    <3>4. Members(parents'[r]) = Members(parents[r]) \cup {m}
      BY <2>1, <2>4, <3>1, <3>3, MembersAppend
    <3>5. ASSUME NEW x \in Module, NEW p \in Members(parents'[x]) PROVE <<p, x>> \in Needing
      <4>1. CASE x = r BY <2>4, <3>4, <3>5, <4>1 DEF Links
      <4>2. CASE x # r BY <3>3, <3>5, <4>2 DEF Links
      <4> QED BY <4>1, <4>2
    <3> QED BY <1>2, <2>2, <3>5 DEF Links
  <2> QED BY <1>3, <2>2, <2>3, <2>5
<1>6. CASE Enter BY <1>3, <1>6 DEF Enter
<1>7. CASE Request \/ Execute \/ EndWalk \/ EndList
  BY <1>3, <1>7 DEF Request, Execute, EndWalk, EndList, dfsVars, asyVars
<1>8. CASE BodyReturns \/ BodyThrows \/ RunNext
  BY <1>3, <1>8 DEF BodyReturns, BodyThrows, RunNext, dfsVars, asyVars
<1>9. ASSUME NEW p, BodyAwaits(p) PROVE Links' BY <1>3, <1>9 DEF BodyAwaits, dfsVars
<1>10. CASE Callback BY <1>3, <1>10 DEF Callback, dfsVars
<1>11. ASSUME NEW m \in Module, Import(m) \/ Require(m) PROVE Links'
  BY <1>3, <1>11 DEF Import, Require, dfsVars, asyVars
<1>12. ASSUME NEW m \in Module, NEW p, Settle(m, p) PROVE Links' BY <1>3, <1>12 DEF Settle, dfsVars
<1>13. CASE UNCHANGED vars BY <1>3, <1>13 DEF vars, dfsVars, asyVars
<1> QED BY <1>4, <1>5, <1>6, <1>7, <1>8, <1>9, <1>10, <1>11, <1>12, <1>13 DEF Next, Run
-----------------------------------------------------------------------------
\* Fresh.
LEMMA FreshPreserved ==
  ASSUME Types, Control, Stacks, Fresh, Once, [Next]_vars
  PROVE  Fresh'
<1>t. /\ status \in [Module -> Statuses] /\ root \in [Module -> Module] /\ pend \in [Module -> Nat]
      /\ err \in [Module -> Module \cup {Nil}] /\ ran \in Seq(Module)
  BY DEF Types, TypeOK
\* No step but Finish changes the cycle roots, and none unvisits a module.
<1>0. ASSUME root' = root,
             \A x \in Module : status'[x] = "linked" =>
               /\ status[x] = "linked" /\ err'[x] = Nil /\ pend'[x] = 0 /\ x \notin Members(ran')
      PROVE  Fresh'
  <2> SUFFICES ASSUME NEW x \in Module
               PROVE  /\ status'[x] = "linked" =>
                           err'[x] = Nil /\ pend'[x] = 0 /\ x \notin Members(ran') /\ root'[x] = x
                      /\ status'[root'[x]] = "linked" => status'[x] = "linked"
    BY DEF Fresh
  <2>1. root[x] \in Module BY <1>t
  <2>2. status'[root[x]] = "linked" => root[x] = x BY <1>0, <2>1 DEF Fresh
  <2> QED BY <1>0, <2>2 DEF Fresh
<1>1. ASSUME UNCHANGED <<status, err, pend, ran, root>> PROVE Fresh' BY <1>1 DEF Fresh
<1>2. ASSUME UNCHANGED <<pend, ran, root>>, NEW S, NEW e, SetError(S, e) PROVE Fresh'
  BY <1>0, <1>2 DEF SetError, Fresh
<1>3. ASSUME UNCHANGED <<pend, ran, root>>, NEW m \in Module, Complete(m) PROVE Fresh'
  <2>1. \A x \in Module : status'[x] = "linked" => status[x] = "linked"
    BY <1>t, <1>3 DEF Complete
  <2> QED BY <1>0, <1>3, <2>1 DEF Complete, Fresh
<1>4. CASE Enter
  <2>1. ctx # <<>> /\ Cur.frames # <<>> BY <1>4, EnterForm
  <2>2. Frame.m \in Module BY <2>1, FrameTyped
  <2>3. \A x \in Module : status'[x] = "linked" => status[x] = "linked"
    BY <1>t, <1>4, <2>2 DEF Enter
  <2>4. \A x \in Module : pend'[x] = 0 \/ pend'[x] = pend[x] BY <1>t, <1>4, <2>2 DEF Enter
  <2> QED BY <1>0, <1>4, <2>3, <2>4 DEF Enter, Fresh, hisVars
<1>5. CASE Examine
  <2>1. CASE ctx' = Popped
    <3>1. PICK e : SetError(Members(Cur.stack), e) BY <1>5, <2>1, ExamineThrows
    <3> QED BY <1>2, <1>5, <2>1, <3>1, ExamineThrows
  <2>2. CASE ctx' # Popped
    <3> DEFINE m == Frame.m
    <3>1. UNCHANGED <<status, err, ran, root>> /\ \A x \in Module \ {m} : pend'[x] = pend[x]
      BY <1>t, <1>5, <2>2 DEF Examine, Throw, recVars, hisVars
    <3>2. ctx # <<>> /\ Cur.frames # <<>> /\ Frame.entered BY <1>5 DEF Examine, Walking
    <3>3. m \in Members(Cur.stack) BY <3>2, FrameAlone
    <3>4. status[m] # "linked" BY <3>2, <3>3, CurOK DEF Stacked
    <3> QED BY <1>0, <3>1, <3>4 DEF Fresh
  <2> QED BY <2>1, <2>2
<1>6. CASE Execute
  <2>1. ctx # <<>> /\ Cur.frames # <<>> /\ Frame.entered BY <1>6 DEF Execute, Walking
  <2>2. Frame.m \in Members(Cur.stack) /\ Frame.m \in Module BY <2>1, FrameAlone, FrameTyped
  <2>3. status[Frame.m] # "linked" BY <2>1, <2>2, CurOK DEF Stacked
  <2>4. UNCHANGED <<status, err, pend, root>> /\ (ran' = ran \/ ran' = Append(ran, Frame.m))
    BY <1>6 DEF Execute, dfsVars
  <2>5. Members(ran') \subseteq Members(ran) \cup {Frame.m} BY <1>t, <2>2, <2>4, MembersAppend
  <2> QED BY <1>0, <2>3, <2>4, <2>5 DEF Fresh
<1>7. CASE Finish
  <2>1. ctx # <<>> /\ Cur.frames # <<>> BY <1>7, FinishForm
  <2>2. PICK d \in Activation, S \in SUBSET Module : FinishParts(d, S) BY <1>7, FinishSplits
  <2>3. UNCHANGED <<err, pend, ran>> BY <1>7 DEF Finish, asyVars, hisVars
  <2>4. \A x \in S : status[x] # "linked" BY <2>1, <2>2, CurOK DEF Stacked, FinishParts
  <2>5. \A x \in Module : status'[x] = "linked" <=> status[x] = "linked"
    BY <2>2, <2>4 DEF FinishParts
  <2>6. status[Frame.m] # "linked" /\ Frame.m \in Module
    <3>1. Frame.entered BY <1>7, <2>1, CurOK DEF FrameOK, Finish
    <3>2. Frame.m \in Members(Cur.stack) BY <2>1, <3>1, FrameAlone
    <3> QED BY <2>1, <3>2, CurOK, FrameTyped DEF Stacked
  <2>7. \A x \in Module : /\ x \in S => root'[x] = Frame.m
                          /\ x \notin S => root'[x] = root[x]
    BY <2>2 DEF FinishParts
  <2> SUFFICES ASSUME NEW x \in Module
               PROVE  /\ status'[x] = "linked" =>
                           err'[x] = Nil /\ pend'[x] = 0 /\ x \notin Members(ran') /\ root'[x] = x
                      /\ status'[root'[x]] = "linked" => status'[x] = "linked"
    BY DEF Fresh
  <2>8. root[x] \in Module BY <1>t
  <2>9. CASE x \in S BY <2>4, <2>5, <2>6, <2>7, <2>9
  <2>10. CASE x \notin S BY <2>3, <2>5, <2>7, <2>8, <2>10 DEF Fresh
  <2> QED BY <2>9, <2>10
<1>8. CASE Request \/ EndWalk \/ EndList
  BY <1>1, <1>8 DEF Request, EndWalk, EndList, recVars, dfsVars, asyVars, hisVars
<1>9. CASE BodyReturns
  <2>1. UNCHANGED <<pend, ran, root>> BY <1>9 DEF BodyReturns, dfsVars, asyVars
  <2>2. Cur.body \in Module BY <1>9, CurBody DEF BodyReturns
  <2> QED BY <1>1, <1>3, <1>9, <2>1, <2>2 DEF BodyReturns, recVars
<1>10. CASE BodyThrows
  <2>1. UNCHANGED <<pend, ran, root>> BY <1>10 DEF BodyThrows, dfsVars, asyVars, hisVars
  <2>2. \E S : SetError(S, Cur.body) BY <1>10 DEF BodyThrows, Throw
  <2> QED BY <1>2, <2>1, <2>2
<1>11. ASSUME NEW p, BodyAwaits(p) PROVE Fresh' BY <1>1, <1>11 DEF BodyAwaits, recVars, dfsVars
<1>12. CASE Callback
  <2> DEFINE m == Head(jobs)
  <2>1. m \in Module
    <3>1. jobs \in Seq(Module) /\ jobs # <<>> BY <1>12 DEF Callback, Types, TypeOK
    <3> QED BY <3>1, HeadTailProperties
  <2>2. UNCHANGED <<ran, root>> BY <1>12 DEF Callback, dfsVars, hisVars
  <2>3. CASE Rejected(m) BY <1>2, <2>2, <2>3 DEF Rejected
  <2>4. CASE Fulfilled(m) /\ status[m] = "evaluated"
    BY <1>1, <2>2, <2>4 DEF Fulfilled, recVars
  <2>5. CASE Fulfilled(m) /\ status[m] # "evaluated"
    <3> HIDE DEF m
    <3>1. Complete(m) BY <2>5 DEF Fulfilled
    <3>2. \A x \in Module : status'[x] = "linked" => status[x] = "linked"
      BY <1>t, <2>1, <3>1 DEF Complete
    <3>3. pend' = [p \in Module |-> IF p \in Available(m) THEN 0
                     ELSE IF Waits(p) THEN pend[p] - Edges(Sources(Available(m), m), p)
                     ELSE pend[p]]
      BY <2>5 DEF Fulfilled
    <3>4. \A x \in Module : pend[x] = 0 => ~Waits(x) BY DEF Waits
    <3>5. \A x \in Module : pend[x] = 0 => pend'[x] = 0 BY <3>3, <3>4
    <3> QED BY <1>0, <2>2, <3>1, <3>2, <3>5 DEF Complete, Fresh
  <2> QED BY <1>12, <2>3, <2>4, <2>5 DEF Callback
<1>13. CASE RunNext
  <2>1. UNCHANGED <<status, err, pend, root>> BY <1>13 DEF RunNext, recVars, dfsVars, asyVars
  <2>2. ctx # <<>> BY <1>13, RunNextForm
  <2>3. PICK m \in Cur.avail : ran' = IF status[m] = "evaluated" THEN ran ELSE Append(ran, m)
    BY <1>13, RunNextForm
  <2>4. Len(ctx) \in 1..Len(ctx) /\ Cur = ctx[Len(ctx)] BY <2>2, CurTyped
  <2>5. m \in Module /\ status[m] # "linked" BY <2>4 DEF Once, Unstarted, Idle
  <2>6. Members(ran') \subseteq Members(ran) \cup {m} BY <1>t, <2>3, <2>5, MembersAppend
  <2> QED BY <1>0, <2>1, <2>5, <2>6 DEF Fresh
<1>14. ASSUME NEW m \in Module, Import(m) \/ Require(m) PROVE Fresh'
  BY <1>1, <1>14 DEF Import, Require, dfsVars, asyVars, hisVars
<1>15. ASSUME NEW m \in Module, NEW p, Settle(m, p) PROVE Fresh'
  BY <1>1, <1>15 DEF Settle, recVars, dfsVars
<1>16. CASE UNCHANGED vars BY <1>1, <1>16 DEF vars, recVars, dfsVars, asyVars, hisVars
<1> QED BY <1>4, <1>5, <1>6, <1>7, <1>8, <1>9, <1>10, <1>11, <1>12, <1>13, <1>14, <1>15, <1>16
    DEF Next, Run
-----------------------------------------------------------------------------
\* Once.
\* A step that starts no body and keeps the idle modules idle.
LEMMA TopOnce ==
  ASSUME Types, Once, ctx # <<>>, NEW d \in Activation, ctx' = With(d), ran' = ran, NEW J,
         Idle(status, pend, ran) \subseteq J, Unstarted(ran, J, d)
  PROVE  \A i \in 1..Len(ctx') : Unstarted(ran', J, ctx'[i])
<1> DEFINE N == Len(ctx)
           I == Idle(status, pend, ran)
<1>1. N \in Nat \ {0} BY CurTyped
<1>2. Len(ctx') = N /\ ctx'[N] = d /\ \A i \in 1..N - 1 : ctx'[i] = ctx[i] BY WithFacts
<1>3. \A i \in 1..N : Unstarted(ran, I, ctx[i]) BY DEF Once
<1> HIDE DEF N, I
<1>4. \A i \in 1..N : i = N \/ i \in 1..N - 1 BY <1>1
<1>5. I \subseteq J BY DEF I
<1>6. \A i \in 1..N : Unstarted(ran, J, ctx[i]) BY <1>3, <1>5 DEF Unstarted
<1> QED BY <1>2, <1>4, <1>6

\* A return keeps what was not started.
LEMMA PopOnce ==
  ASSUME Types, Once, ctx # <<>>, ctx' = Popped, ran' = ran, NEW J,
         Idle(status, pend, ran) \subseteq J
  PROVE  \A i \in 1..Len(ctx') : Unstarted(ran', J, ctx'[i])
<1> DEFINE N == Len(ctx)
           I == Idle(status, pend, ran)
<1>1. N \in Nat \ {0} BY CurTyped
<1>2. Len(ctx') = N - 1 /\ \A i \in 1..N - 1 : ctx'[i] = ctx[i] BY PoppedFacts
<1>3. \A i \in 1..N : Unstarted(ran, I, ctx[i]) BY DEF Once
<1> HIDE DEF N, I
<1>4. \A i \in 1..N - 1 : i \in 1..N BY <1>1
<1>5. I \subseteq J BY DEF I
<1>6. \A i \in 1..N : Unstarted(ran, J, ctx[i]) BY <1>3, <1>5 DEF Unstarted
<1> QED BY <1>2, <1>4, <1>6

\* The running activation has not started what it is to start.
LEMMA CurOnce ==
  ASSUME Types, Once, ctx # <<>>
  PROVE  Unstarted(ran, Idle(status, pend, ran), Cur)
<1>1. Len(ctx) \in 1..Len(ctx) /\ Cur = ctx[Len(ctx)] BY CurTyped
<1> QED BY <1>1 DEF Once

\* Replacing the last frame by one that is as far.
LEMMA FrameOnce ==
  ASSUME Types, Once, ctx # <<>>, Cur.frames # <<>>, NEW d \in Activation, NEW f \in FrameType,
         FrameSet(Cur, d, f), d.avail = Cur.avail, f.m = Frame.m, Frame.finish => f.finish,
         NEW J, Idle(status, pend, ran) \subseteq J
  PROVE  Unstarted(ran, J, d)
<1> DEFINE n == Len(Cur.frames)
           I == Idle(status, pend, ran)
<1>1. Unstarted(ran, I, Cur) BY CurOnce
<1>2. n \in Nat \ {0} /\ Frame = Cur.frames[n] BY FrameTyped
<1>3. /\ Len(d.frames) = n /\ d.frames[n] = f
      /\ \A k \in 1..n - 1 : d.frames[k] = Cur.frames[k]
  BY DEF FrameSet
<1> HIDE DEF n, I
<1>4. \A k \in 1..n : k = n \/ k \in 1..n - 1 BY <1>2
<1>5. \A k \in 1..n : d.frames[k].m = Cur.frames[k].m /\ (Cur.frames[k].finish => d.frames[k].finish)
  BY <1>2, <1>3, <1>4
<1>6. I \subseteq J BY DEF I
<1> QED BY <1>1, <1>3, <1>5, <1>6 DEF Unstarted, n

\* The module of the last frame is started by no other frame or completion.
LEMMA FrameUnstarted ==
  ASSUME Types, Control, Stacks, Once, ctx # <<>>, Cur.frames # <<>>, Frame.entered
  PROVE  /\ \A i \in 1..Len(ctx) : Frame.m \notin ctx[i].avail
         /\ \A i \in 1..Len(ctx) - 1 : \A k \in 1..Len(ctx[i].frames) : ctx[i].frames[k].m # Frame.m
         /\ \A k \in 1..Len(Cur.frames) - 1 : Cur.frames[k].m # Frame.m
<1> DEFINE n == Len(Cur.frames)
           N == Len(ctx)
           m == Frame.m
<1>1. /\ m \in Members(Cur.stack) /\ Entered(Cur)
      /\ \A i \in 1..N - 1 : \A x \in Members(ctx[i].stack) : x \notin Members(Cur.stack)
  BY FrameAlone
<1>2. Stacked(status, dfs, Cur) BY CurOK
<1>3. status[m] = "evaluating" BY <1>1, <1>2 DEF Stacked
<1>4. \A i \in 1..N : m \notin ctx[i].avail BY <1>3 DEF Once, Unstarted, Idle
<1>5. n \in Nat \ {0} /\ Frame = Cur.frames[n] /\ m \in Module BY FrameTyped
<1>6. N \in Nat \ {0} BY CurTyped
<1>7. \A i \in 1..N - 1 : i \in 1..N /\ i # N
  <2> HIDE DEF N
  <2> QED BY <1>6
<1>8. \A i \in 1..N - 1 : Entered(ctx[i]) /\ Stacked(status, dfs, ctx[i])
  BY <1>7, AllEntered DEF Stacks
<1>9. \A i \in 1..N - 1 : \A k \in 1..Len(ctx[i].frames) : ctx[i].frames[k].m # m
  BY <1>1, <1>8 DEF Stacked, Entered
<1>10. ASSUME NEW k \in 1..n - 1 PROVE Cur.frames[k].m # m
  <2> HIDE DEF n
  <2>1. n \in 1..n BY <1>5
  <2>2. dfs[Cur.frames[k].m] < dfs[Cur.frames[n].m] BY <1>1, <1>2, <2>1 DEF Stacked, Entered, n
  <2>3. dfs[m] \in Nat BY <1>5 DEF Types, TypeOK
  <2>4. ~(dfs[m] < dfs[m]) BY <2>3
  <2> QED BY <1>5, <2>2, <2>4
<1> QED BY <1>4, <1>9, <1>10

\* Execute starts only a body that has not run.
LEMMA ExecuteOnce ==
  ASSUME Types, Control, Stacks, Once, Execute
  PROVE  Once'
<1> DEFINE m == Frame.m
           n == Len(Cur.frames)
           N == Len(ctx)
           I == Idle(status, pend, ran)
<1>1. ctx # <<>> /\ Cur.frames # <<>> /\ Frame.entered /\ ~Frame.finish
  BY DEF Execute, Walking
<1>2. PICK d \in Activation, f \in FrameType :
        /\ ctx' = With(d) /\ FrameSet(Cur, d, f) /\ d.avail = Cur.avail
        /\ f.m = Frame.m /\ f.finish
  BY ExecuteForm
<1>3. status' = status /\ pend' = pend BY DEF Execute
<1>4. n \in Nat \ {0} /\ Frame = Cur.frames[n] /\ m \in Module BY <1>1, FrameTyped
<1>5. N \in Nat \ {0} /\ Cur = ctx[N] BY <1>1, CurTyped
<1>6. CASE ran' = ran
  <2>1. Unstarted(ran, I, d) BY <1>1, <1>2, FrameOnce
  <2>2. \A i \in 1..Len(ctx') : Unstarted(ran', I, ctx'[i]) BY <1>1, <1>2, <1>6, <2>1, TopOnce
  <2>3. BodyRunsOnce' BY <1>6 DEF Once, BodyRunsOnce
  <2> QED BY <1>3, <1>6, <2>2, <2>3 DEF Once
<1>7. CASE ran' # ran
  <2>1. ran' = Append(ran, m) /\ ~(pend[m] > 0) BY <1>7 DEF Execute
  <2>2. pend[m] = 0 BY <1>4, <2>1 DEF Types, TypeOK
  <2>3. m \notin Members(ran)
    <3>1. n \in 1..n BY <1>4
    <3> QED BY <1>1, <1>4, <3>1, CurOnce DEF Unstarted
  <2>4. ran \in Seq(Module) /\ BodyRunsOnce BY DEF Types, TypeOK, Once
  <2>5. BodyRunsOnce' /\ Members(ran') = Members(ran) \cup {m}
    BY <1>4, <2>1, <2>3, <2>4, RanAppend
  <2>6. /\ \A i \in 1..N : m \notin ctx[i].avail
        /\ \A i \in 1..N - 1 : \A k \in 1..Len(ctx[i].frames) : ctx[i].frames[k].m # m
        /\ \A k \in 1..n - 1 : Cur.frames[k].m # m
    BY <1>1, FrameUnstarted
  <2>7. /\ Len(d.frames) = n /\ d.frames[n] = f
        /\ \A k \in 1..n - 1 : d.frames[k] = Cur.frames[k]
    BY <1>2 DEF FrameSet
  <2>8. Len(ctx') = N /\ ctx'[N] = d /\ \A i \in 1..N - 1 : ctx'[i] = ctx[i]
    BY <1>1, <1>2, WithFacts
  <2>9. \A i \in 1..N : Unstarted(ran, I, ctx[i]) BY DEF Once
  <2> HIDE DEF m, n, N
  <2>10. /\ \A i \in 1..N : i = N \/ i \in 1..N - 1
         /\ \A k \in 1..n : k = n \/ k \in 1..n - 1
         /\ N \in 1..N /\ \A k \in 1..n - 1 : k \in 1..n
    BY <1>4, <1>5
  <2> DEFINE J == Idle(status', pend', ran')
  <2>11. \A x \in I : x # m => x \in J BY <1>3, <2>5 DEF Idle
  <2> HIDE DEF I, J
  <2>12. ASSUME NEW i \in 1..N PROVE Unstarted(ran', J, ctx'[i])
    <3>1. CASE i = N
      <4>1. d.avail \subseteq J BY <1>2, <1>5, <2>6, <2>9, <2>10, <2>11 DEF Unstarted
      <4>2. ASSUME NEW k \in 1..n, ~d.frames[k].finish PROVE d.frames[k].m \notin Members(ran')
        <5>1. k \in 1..n - 1 BY <1>2, <2>7, <2>10, <4>2
        <5>2. d.frames[k] = Cur.frames[k] BY <2>7, <5>1
        <5> QED BY <1>5, <2>5, <2>6, <2>9, <2>10, <4>2, <5>1, <5>2 DEF Unstarted, n
      <4> QED BY <2>7, <2>8, <3>1, <4>1, <4>2 DEF Unstarted
    <3>2. CASE i \in 1..N - 1
      <4>1. ctx'[i] = ctx[i] /\ Unstarted(ran, I, ctx[i]) BY <2>8, <2>9, <3>2
      <4>2. ctx[i].avail \subseteq J BY <2>6, <2>11, <4>1 DEF Unstarted
      <4>3. \A k \in 1..Len(ctx[i].frames) : ctx[i].frames[k].m # m BY <2>6, <3>2
      <4> QED BY <2>5, <4>1, <4>2, <4>3 DEF Unstarted
    <3> QED BY <2>10, <3>1, <3>2
  <2>13. \A x \in Members(ran') : pend'[x] = 0 BY <1>3, <2>2, <2>5 DEF Once
  <2> QED BY <2>5, <2>8, <2>12, <2>13 DEF Once, J
<1> QED BY <1>6, <1>7

\* RunNext starts only a body that has not run.
LEMMA RunNextOnce ==
  ASSUME Types, Control, Once, RunNext
  PROVE  Once'
<1>1. ctx # <<>> /\ Cur.kind = "list" BY RunNextForm
<1>2. PICK d \in Activation, m \in Cur.avail :
        /\ ctx' = With(d) /\ d.avail = Cur.avail \ {m} /\ d.frames = Cur.frames
        /\ ran' = IF status[m] = "evaluated" THEN ran ELSE Append(ran, m)
  BY RunNextForm
<1>3. status' = status /\ pend' = pend BY DEF RunNext, recVars, asyVars
<1>4. Len(ctx) = 1 /\ Cur = ctx[1] /\ Cur.frames = <<>> /\ \A i \in 1..Len(ctx) : i = 1
  BY <1>1, ListAlone
<1>5. Len(ctx') = 1 /\ ctx'[1] = d BY <1>1, <1>2, <1>4, WithFacts
<1> DEFINE I == Idle(status, pend, ran)
           J == Idle(status', pend', ran')
<1>6. Cur.avail \subseteq I BY <1>1, CurOnce DEF Unstarted
<1>7. ran \in Seq(Module) /\ BodyRunsOnce BY DEF Types, TypeOK, Once
<1>8. m \in Module /\ m \notin Members(ran) /\ pend[m] = 0 BY <1>6 DEF Idle
<1>9. BodyRunsOnce' /\ (Members(ran') = Members(ran) \/ Members(ran') = Members(ran) \cup {m})
  <2>1. CASE status[m] = "evaluated" BY <1>2, <1>7, <2>1 DEF BodyRunsOnce
  <2>2. CASE status[m] # "evaluated"
    <3>1. ran' = Append(ran, m) BY <1>2, <2>2
    <3> QED BY <1>7, <1>8, <3>1, RanAppend
  <2> QED BY <2>1, <2>2
<1>10. \A x \in I : x # m => x \in J BY <1>3, <1>9 DEF Idle
<1> HIDE DEF I, J
<1>11. d.avail \subseteq J BY <1>2, <1>6, <1>10
<1>12. Len(d.frames) = 0 BY <1>2, <1>4
<1>13. Unstarted(ran', J, d) BY <1>11, <1>12 DEF Unstarted
<1>14. \A x \in Members(ran') : pend'[x] = 0 BY <1>3, <1>8, <1>9 DEF Once
<1>15. \A i \in 1..Len(ctx') : i = 1 BY <1>5
<1> QED BY <1>5, <1>9, <1>13, <1>14, <1>15 DEF Once, J

\* A completion starts modules that waited, hence have not run.
LEMMA FulfilledOnce ==
  ASSUME Types, Stacks, Fresh, Once, ctx = <<>>, NEW m \in Module, Fulfilled(m),
         status[m] # "evaluated", ran' = ran
  PROVE  Once'
<1> DEFINE S == Available(m)
           J == Idle(status', pend', ran')
<1>1. /\ Complete(m) /\ ctx' = <<List(S)>>
      /\ pend' = [p \in Module |-> IF p \in S THEN 0
                    ELSE IF Waits(p) THEN pend[p] - Edges(Sources(S, m), p)
                    ELSE pend[p]]
  BY DEF Fulfilled
<1>2. S \subseteq Module /\ \A p \in S : p # m /\ Waits(p) BY AvailableFacts
<1>3. /\ status \in [Module -> Statuses] /\ pend \in [Module -> Nat] /\ ran \in Seq(Module)
  BY DEF Types, TypeOK
<1> HIDE DEF S
<1>4. \A x \in Module : pend[x] = 0 => ~Waits(x) BY DEF Waits
<1>5. \A x \in Module : pend[x] = 0 => pend'[x] = 0 BY <1>1, <1>4
<1>6. \A x \in Members(ran) : x \in Module /\ pend[x] = 0 BY <1>3, MembersOf DEF Once
<1>7. ASSUME NEW p \in S
      PROVE  p \in Module /\ p \notin Members(ran) /\ pend'[p] = 0 /\ status'[p] = "async"
  <2>1. p \in Module /\ p # m /\ Waits(p) BY <1>2
  <2>2. pend[p] # 0 /\ status[p] # "evaluated" BY <1>3, <2>1 DEF Waits
  <2>3. status[p] # "linked" BY <2>1, <2>2 DEF Fresh
  <2>4. status[p] # "evaluating"
    <3>1. \A i \in 1..Len(ctx) : FALSE
      <4>1. Len(ctx) = 0 OBVIOUS
      <4> QED BY <4>1
    <3> QED BY <2>1, <3>1 DEF Stacks
  <2>5. status[p] = "async" BY <1>3, <2>1, <2>2, <2>3, <2>4 DEF Statuses
  <2>6. status'[p] = "async" BY <1>1, <1>3, <2>1, <2>5 DEF Complete
  <2>7. p \notin Members(ran) BY <1>6, <2>2
  <2>8. pend'[p] = 0 BY <1>1, <2>1
  <2> QED BY <2>1, <2>6, <2>7, <2>8
<1>8. S \subseteq J BY <1>7 DEF Idle
<1> DEFINE c == List(S)
<1>9. c.avail = S /\ c.frames = <<>> BY DEF List
<1> HIDE DEF c, J
<1>10. Len(ctx') = 1 /\ ctx'[1] = c BY <1>1 DEF c
<1>11. Len(c.frames) = 0 BY <1>9
<1>12. Unstarted(ran', J, c) BY <1>8, <1>9, <1>11 DEF Unstarted
<1>13. \A i \in 1..Len(ctx') : i = 1 BY <1>10
<1>14. \A x \in Members(ran') : pend'[x] = 0 BY <1>5, <1>6
<1>15. BodyRunsOnce' BY DEF Once, BodyRunsOnce
<1> QED BY <1>10, <1>12, <1>13, <1>14, <1>15 DEF Once, J

\* Every step keeps bodies from running twice.
LEMMA OncePreserved ==
  ASSUME Types, Control, Stacks, Fresh, Once, [Next]_vars
  PROVE  Once'
<1> DEFINE I == Idle(status, pend, ran)
           J == Idle(status', pend', ran')
<1>t. /\ status \in [Module -> Statuses] /\ pend \in [Module -> Nat] /\ ran \in Seq(Module)
  BY DEF Types, TypeOK
<1>r. \A x \in Members(ran) : x \in Module /\ pend[x] = 0 BY <1>t, MembersOf DEF Once
\* What is left to show of a step that starts no body.
<1>0. ASSUME ran' = ran, \A x \in Members(ran) : pend'[x] = 0,
             \A i \in 1..Len(ctx') : Unstarted(ran', J, ctx'[i])
      PROVE  Once'
  <2>1. BodyRunsOnce' BY <1>0 DEF Once, BodyRunsOnce
  <2> QED BY <1>0, <2>1 DEF Once
<1>1. ASSUME ran' = ran, pend' = pend,
             \A x \in Module : status[x] \in {"async", "evaluated"} =>
               status'[x] \in {"async", "evaluated"}
      PROVE  I \subseteq J /\ \A x \in Members(ran) : pend'[x] = 0
  BY <1>r, <1>1 DEF Idle
<1>2. ASSUME NEW m \in Module, Complete(m)
      PROVE  \A x \in Module : status[x] \in {"async", "evaluated"} =>
               status'[x] \in {"async", "evaluated"}
  BY <1>t, <1>2 DEF Complete
<1>3. ASSUME NEW S, NEW e, SetError(S, e)
      PROVE  \A x \in Module : status[x] \in {"async", "evaluated"} =>
               status'[x] \in {"async", "evaluated"}
  BY <1>3 DEF SetError
<1>4. CASE Enter
  <2>1. ctx # <<>> /\ Cur.frames # <<>> BY <1>4, EnterForm
  <2>2. PICK d \in Activation, f \in FrameType :
          /\ ctx' = With(d) /\ FrameSet(Cur, d, f) /\ d.avail = Cur.avail
          /\ f.m = Frame.m /\ f.finish = Frame.finish
    BY <1>4, EnterForm
  <2> DEFINE m == Frame.m
  <2>3. m \in Module /\ status[m] = "linked"
    <3>1. /\ Len(Cur.frames) \in Nat \ {0} /\ Frame = Cur.frames[Len(Cur.frames)] /\ m \in Module
      BY <2>1, FrameTyped
    <3>2. Len(Cur.frames) \in 1..Len(Cur.frames) BY <3>1
    <3> QED BY <1>4, <2>1, <3>1, <3>2, CurOK DEF Stacked, Enter
  <2>4. /\ status' = [status EXCEPT ![m] = "evaluating"] /\ pend' = [pend EXCEPT ![m] = 0]
        /\ ran' = ran
    BY <1>4 DEF Enter, hisVars
  <2>5. I \subseteq J BY <1>t, <2>3, <2>4 DEF Idle
  <2>6. \A x \in Members(ran) : pend'[x] = 0 BY <1>t, <1>r, <2>4
  <2>7. Unstarted(ran, J, d) BY <2>1, <2>2, <2>5, FrameOnce
  <2> QED BY <1>0, <2>1, <2>2, <2>4, <2>5, <2>6, <2>7, TopOnce
<1>5. CASE Examine
  <2>1. CASE ctx' = Popped
    <3>1. PICK e : SetError(Members(Cur.stack), e) BY <1>5, <2>1, ExamineThrows
    <3>2. ctx # <<>> /\ UNCHANGED <<pend, ran>> BY <1>5, <2>1, ExamineThrows
    <3> QED BY <1>0, <1>1, <1>3, <2>1, <3>1, <3>2, PopOnce
  <2>2. CASE ctx' # Popped
    <3> DEFINE m == Frame.m
    <3>1. /\ UNCHANGED <<status, ran>> /\ \A x \in Module \ {m} : pend'[x] = pend[x]
      BY <1>t, <1>5, <2>2 DEF Examine, Throw, recVars, hisVars
    <3>2. ctx # <<>> /\ Cur.frames # <<>> /\ Frame.entered /\ Frame.waiting
      BY <1>5 DEF Examine, Walking
    <3>3. ~Frame.finish BY <3>2, CurOK DEF FrameOK
    <3>4. m \notin Members(ran)
      <4>1. Len(Cur.frames) \in Nat \ {0} /\ Frame = Cur.frames[Len(Cur.frames)]
        BY <3>2, FrameTyped
      <4>2. Len(Cur.frames) \in 1..Len(Cur.frames) BY <4>1
      <4> QED BY <3>2, <3>3, <4>1, <4>2, CurOnce DEF Unstarted
    <3>5. status[m] = "evaluating"
      <4>1. m \in Members(Cur.stack) BY <3>2, FrameAlone
      <4> QED BY <3>2, <4>1, CurOK DEF Stacked
    <3>6. I \subseteq J BY <3>1, <3>5 DEF Idle
    <3>7. \A x \in Members(ran) : pend'[x] = 0 BY <1>r, <3>1, <3>4
    <3>8. PICK d \in Activation, f \in FrameType :
            /\ ctx' = With(d) /\ FrameSet(Cur, d, f) /\ d.avail = Cur.avail
            /\ f.m = Frame.m /\ f.finish = Frame.finish
      BY <1>5, <2>2, ExamineForm
    <3>9. Unstarted(ran, J, d) BY <3>2, <3>6, <3>8, FrameOnce
    <3> QED BY <1>0, <3>1, <3>2, <3>6, <3>7, <3>8, <3>9, TopOnce
  <2> QED BY <2>1, <2>2
<1>6. CASE Request
  <2>1. ctx # <<>> /\ Cur.frames # <<>> BY <1>6, RequestForm
  <2> DEFINE n == Len(Cur.frames)
             q == Req(Frame.m)[Frame.next]
  <2>2. PICK d \in Activation, f \in FrameType :
          /\ ctx' = With(d) /\ d.avail = Cur.avail /\ f.m = Frame.m /\ f.finish = Frame.finish
          /\ \/ FrameSet(Cur, d, f)
             \/ /\ Unvisited(q) /\ Len(d.frames) = n + 1 /\ d.frames[n] = f
                /\ \A k \in 1..n - 1 : d.frames[k] = Cur.frames[k]
                /\ d.frames[n + 1] = NewFrame(q)
    BY <1>6, RequestForm
  <2>3. UNCHANGED <<status, pend, ran>> BY <1>6 DEF Request, recVars, asyVars, hisVars
  <2>4. I \subseteq J /\ \A x \in Members(ran) : pend'[x] = 0 BY <1>1, <2>3
  <2>5. Unstarted(ran, J, d)
    <3>1. CASE FrameSet(Cur, d, f) BY <2>1, <2>2, <2>4, <3>1, FrameOnce
    <3>2. CASE /\ Unvisited(q) /\ Len(d.frames) = n + 1 /\ d.frames[n] = f
               /\ \A k \in 1..n - 1 : d.frames[k] = Cur.frames[k]
               /\ d.frames[n + 1] = NewFrame(q)
      <4>1. /\ n \in Nat \ {0} /\ Frame = Cur.frames[n] /\ Frame.m \in Module
            /\ Frame.next \in Nat \ {0}
        BY <2>1, FrameTyped
      <4>2. Frame.next \in 1..Len(Req(Frame.m)) BY <1>6, <4>1, RequestTyped, SMTT(30) DEF Request
      <4>3. q \in Module BY <4>1, <4>2, RequestTyped
      <4>4. q \notin Members(ran) /\ NewFrame(q).m = q
        BY <3>2, <4>3 DEF Unvisited, Fresh, NewFrame
      <4>5. Unstarted(ran, I, Cur) BY <2>1, CurOnce
      <4> HIDE DEF n, q, I, J
      <4>6. \A k \in 1..n + 1 : k = n + 1 \/ k = n \/ k \in 1..n - 1 BY <4>1
      <4>7. n \in 1..n /\ \A k \in 1..n - 1 : k \in 1..n BY <4>1
      <4>8. ASSUME NEW k \in 1..n + 1, ~d.frames[k].finish PROVE d.frames[k].m \notin Members(ran)
        <5>1. CASE k = n + 1 BY <3>2, <4>4, <5>1
        <5>2. CASE k = n BY <2>2, <3>2, <4>1, <4>5, <4>7, <4>8, <5>2 DEF Unstarted, n
        <5>3. CASE k \in 1..n - 1 BY <3>2, <4>5, <4>7, <4>8, <5>3 DEF Unstarted, n
        <5> QED BY <4>6, <5>1, <5>2, <5>3
      <4>9. d.avail \subseteq J BY <2>2, <2>4, <4>5 DEF Unstarted
      <4> QED BY <3>2, <4>8, <4>9 DEF Unstarted
    <3> QED BY <2>2, <3>1, <3>2
  <2> QED BY <1>0, <2>1, <2>2, <2>3, <2>4, <2>5, TopOnce
<1>7. CASE Execute BY <1>7, ExecuteOnce
<1>8. CASE Finish
  <2>1. ctx # <<>> /\ Cur.frames # <<>> BY <1>8, FinishForm
  <2>2. PICK d \in Activation, S \in SUBSET Module : FinishParts(d, S) BY <1>8, FinishSplits
  <2>3. UNCHANGED <<pend, ran>> BY <1>8 DEF Finish, asyVars, hisVars
  <2>4. \A x \in Module : status'[x] = status[x] \/ status'[x] \in {"async", "evaluated"}
    BY <2>2 DEF FinishParts
  <2>5. I \subseteq J /\ \A x \in Members(ran) : pend'[x] = 0 BY <1>1, <2>3, <2>4
  <2> DEFINE n == Len(Cur.frames)
  <2>6. n \in Nat \ {0} /\ Unstarted(ran, I, Cur) BY <2>1, FrameTyped, CurOnce
  <2>7. /\ Len(d.frames) = n - 1 /\ \A k \in 1..n - 1 : d.frames[k] = Cur.frames[k]
        /\ d.avail = Cur.avail /\ ctx' = With(d)
    BY <2>2 DEF FinishParts
  <2>8. \A k \in 1..n - 1 : k \in 1..n BY <2>6
  <2>9. Unstarted(ran, J, d)
    <3> HIDE DEF I, J
    <3> QED BY <2>5, <2>6, <2>7, <2>8 DEF Unstarted
  <2> QED BY <1>0, <2>1, <2>3, <2>5, <2>7, <2>9, TopOnce
<1>9. ASSUME ctx # <<>>, ctx' = Popped, UNCHANGED <<pend, ran>>,
             \A x \in Module : status[x] \in {"async", "evaluated"} =>
               status'[x] \in {"async", "evaluated"}
      PROVE  Once'
  <2>1. I \subseteq J /\ \A x \in Members(ran) : pend'[x] = 0 BY <1>1, <1>9
  <2> QED BY <1>0, <1>9, <2>1, PopOnce
<1>10. ASSUME ctx # <<>>, ctx' = With([Cur EXCEPT !.body = Nil]), UNCHANGED <<pend, ran>>,
              \A x \in Module : status[x] \in {"async", "evaluated"} =>
                status'[x] \in {"async", "evaluated"}
       PROVE  Once'
  <2>1. PICK d \in Activation :
          ctx' = With(d) /\ d.avail = Cur.avail /\ d.frames = Cur.frames
    BY <1>10, BodyForm
  <2>2. I \subseteq J /\ \A x \in Members(ran) : pend'[x] = 0 BY <1>1, <1>10
  <2>3. Unstarted(ran, I, Cur) BY <1>10, CurOnce
  <2>4. Unstarted(ran, J, d)
    <3> HIDE DEF I, J
    <3> QED BY <2>1, <2>2, <2>3 DEF Unstarted
  <2> QED BY <1>0, <1>10, <2>1, <2>2, <2>4, TopOnce
<1>11. CASE EndWalk \/ EndList
  BY <1>9, <1>11 DEF EndWalk, EndList, recVars, asyVars, hisVars
<1>12. CASE BodyReturns
  <2>1. Cur.body \in Module BY <1>12, CurBody DEF BodyReturns
  <2> QED BY <1>2, <1>10, <1>12, <2>1 DEF BodyReturns, recVars, asyVars
<1>13. CASE BodyThrows
  <2>1. \E S : SetError(S, Cur.body) BY <1>13 DEF BodyThrows, Throw
  <2> QED BY <1>3, <1>9, <1>10, <1>13, <2>1 DEF BodyThrows, Throw, asyVars, hisVars
<1>14. ASSUME NEW p, BodyAwaits(p) PROVE Once' BY <1>10, <1>14 DEF BodyAwaits, recVars
<1>15. ASSUME UNCHANGED <<ctx, pend, ran>>,
              \A x \in Module : status[x] \in {"async", "evaluated"} =>
                status'[x] \in {"async", "evaluated"}
       PROVE  Once'
  <2>1. I \subseteq J /\ \A x \in Members(ran) : pend'[x] = 0 BY <1>1, <1>15
  <2>2. \A i \in 1..Len(ctx) : Unstarted(ran, I, ctx[i]) BY DEF Once
  <2>3. \A i \in 1..Len(ctx) : Unstarted(ran, J, ctx[i])
    <3> HIDE DEF I, J
    <3> QED BY <2>1, <2>2 DEF Unstarted
  <2> QED BY <1>0, <1>15, <2>1, <2>3
<1>16. CASE Callback
  <2> DEFINE m == Head(jobs)
  <2>1. m \in Module
    <3>1. jobs \in Seq(Module) /\ jobs # <<>> BY <1>16 DEF Callback, Types, TypeOK
    <3> QED BY <3>1, HeadTailProperties
  <2>2. ctx = <<>> /\ ran' = ran BY <1>16 DEF Callback, hisVars
  <2>3. CASE Rejected(m) BY <1>3, <1>15, <2>2, <2>3 DEF Rejected
  <2>4. CASE Fulfilled(m) /\ status[m] = "evaluated"
    BY <1>15, <2>2, <2>4 DEF Fulfilled, recVars
  <2>5. CASE Fulfilled(m) /\ status[m] # "evaluated" BY <2>1, <2>2, <2>5, FulfilledOnce
  <2> QED BY <1>16, <2>3, <2>4, <2>5 DEF Callback
<1>17. CASE RunNext BY <1>17, RunNextOnce
<1>18. ASSUME NEW m \in Module, Import(m) \/ Require(m) PROVE Once'
  <2>1. Evaluate(m, ctx) /\ UNCHANGED <<status, pend, ran>>
    BY <1>18 DEF Import, Require, asyVars, hisVars
  <2>2. CASE ctx' = ctx BY <1>15, <2>1, <2>2
  <2>3. CASE status[m] = "linked" /\ ctx' = Append(ctx, Walk(m))
    <3> DEFINE N == Len(ctx)
               c == Walk(m)
    <3>1. /\ Len(ctx') = N + 1 /\ ctx'[N + 1] = c /\ N \in Nat
          /\ \A i \in 1..N : ctx'[i] = ctx[i]
      BY <2>3, WalkTyped, PushFacts
    <3>2. Len(c.frames) = 1 /\ c.frames[1].m = m /\ c.avail = {} BY WalkTyped DEF Walk, NewFrame
    <3>3. m \notin Members(ran) BY <2>3 DEF Fresh
    <3>4. I \subseteq J /\ \A x \in Members(ran) : pend'[x] = 0 BY <1>1, <2>1
    <3>5. \A i \in 1..N : Unstarted(ran, I, ctx[i]) BY DEF Once
    <3> HIDE DEF N, c, I, J
    <3>6. \A i \in 1..N : Unstarted(ran, J, ctx[i]) BY <3>4, <3>5 DEF Unstarted
    <3>7. \A k \in 1..1 : k = 1 OBVIOUS
    <3>8. Unstarted(ran, J, c) BY <3>2, <3>3, <3>7 DEF Unstarted
    <3>9. \A i \in 1..N + 1 : i = N + 1 \/ i \in 1..N BY <3>1
    <3>10. \A i \in 1..Len(ctx') : Unstarted(ran', J, ctx'[i]) BY <2>1, <3>1, <3>6, <3>8, <3>9
    <3> QED BY <1>0, <2>1, <3>4, <3>10 DEF J
  <2> QED BY <2>1, <2>2, <2>3, EvaluateForm
<1>19. ASSUME NEW m \in Module, NEW p, Settle(m, p) PROVE Once'
  BY <1>15, <1>19 DEF Settle, recVars
<1>20. CASE UNCHANGED vars BY <1>15, <1>20 DEF vars, recVars, asyVars, hisVars
<1> QED BY <1>4, <1>5, <1>6, <1>7, <1>8, <1>11, <1>12, <1>13, <1>14, <1>16, <1>17, <1>18, <1>19,
           <1>20 DEF Next, Run
-----------------------------------------------------------------------------
\* Outcomes.
\* The bodies in progress are different.
LEMMA BodiesDiffer ==
  ASSUME Types, Control, Stacks, Outcomes, ctx # <<>>, Cur.body # Nil, NEW i \in 1..Len(ctx) - 1
  PROVE  ctx[i].body # Cur.body
<1> DEFINE N == Len(ctx)
<1>1. N \in Nat \ {0} /\ Cur = ctx[N] /\ \A j \in 1..N : ctx[j] \in Activation BY CurTyped
<1>2. i \in 1..N /\ i # N /\ N \in 2..N /\ N \in 1..N
  <2> HIDE DEF N
  <2>1. i \in 1..N - 1 BY DEF N
  <2> QED BY <1>1, <2>1
<1>3. Cur.kind = "dfs" BY <1>1, <1>2 DEF Control
<1>4. Cur.frames # <<>> /\ Frame.m = Cur.body /\ Frame.entered BY <1>3, BodyFrame
<1>5. /\ Cur.body \in Members(Cur.stack)
      /\ \A x \in Members(ctx[i].stack) : x \notin Members(Cur.stack)
  BY <1>4, FrameAlone
<1>6. status[Cur.body] = "evaluating" BY <1>5, CurOK DEF Stacked
<1>7. ctx[i].body # Nil /\ Shape(graph, ctx[i]) BY <1>2 DEF Control
<1>8. CASE ctx[i].kind = "list" BY <1>2, <1>6, <1>7, <1>8 DEF Outcomes, Ongoing
<1>9. CASE ctx[i].kind = "dfs"
  <2>1. ctx[i].frames # <<>> /\ ctx[i].frames[Len(ctx[i].frames)].m = ctx[i].body
    BY <1>7, <1>9 DEF Shape
  <2>2. Entered(ctx[i]) /\ Stacked(status, dfs, ctx[i]) BY <1>2, AllEntered DEF Stacks
  <2>3. ctx[i].frames \in Seq(FrameType) BY <1>1, <1>2 DEF Activation
  <2>4. Len(ctx[i].frames) \in Nat /\ Len(ctx[i].frames) # 0 BY <2>1, <2>3, LenProperties, EmptySeq
  <2>5. Len(ctx[i].frames) \in 1..Len(ctx[i].frames) BY <2>4
  <2>6. ctx[i].body \in Members(ctx[i].stack) BY <2>1, <2>2, <2>5 DEF Stacked, Entered
  <2> QED BY <1>5, <2>6
<1> QED BY <1>1, <1>2, <1>8, <1>9 DEF Activation

\* The root of a walk below the innermost activation is on no other stack.
LEMMA LowerRoot ==
  ASSUME Types, Control, Stacks, ctx # <<>>, NEW i \in 1..Len(ctx) - 1, ctx[i].kind = "dfs"
  PROVE  ctx[i].root \in Module /\ ctx[i].root \notin Members(Cur.stack)
<1> DEFINE N == Len(ctx)
<1>1. N \in Nat \ {0} /\ Cur = ctx[N] /\ \A j \in 1..N : ctx[j] \in Activation BY CurTyped
<1>2. i \in 1..N /\ i # N /\ N \in 1..N
  <2> HIDE DEF N
  <2>1. i \in 1..N - 1 BY DEF N
  <2> QED BY <1>1, <2>1
<1>3. Entered(ctx[i]) /\ ctx[i].frames # <<>> BY <1>2, AllEntered
<1>4. ctx[i].root \in Members(ctx[i].stack) BY <1>2, <1>3, RootStacked
<1>5. ctx[i].stack \in Seq(Module) BY <1>1, <1>2 DEF Activation
<1>6. ctx[i].root \in Module BY <1>4, <1>5, MembersOf
<1> QED BY <1>1, <1>2, <1>4, <1>6 DEF Stacks

\* The activations below the innermost one stay in progress.
LEMMA LowerOngoing ==
  ASSUME Types, Control, Stacks, Outcomes, ctx # <<>>, Members(ran) \subseteq Members(ran'),
         done' \subseteq done \cup {Cur.body},
         \A x \in Module \ {Cur.body} : exec'[x] = exec[x],
         \A x \in Module : status[x] = "async" => status'[x] = "async",
         \A x \in Module \ Members(Cur.stack) : err'[x] = err[x],
         NEW i \in 1..Len(ctx) - 1
  PROVE  Ongoing(ran', done', exec', status', err', ctx[i])
<1> DEFINE N == Len(ctx)
           c == ctx[i]
<1>1. N \in Nat \ {0} /\ Cur = ctx[N] /\ \A j \in 1..N : ctx[j] \in Activation BY CurTyped
<1>2. i \in 1..N
  <2> HIDE DEF N
  <2>1. i \in 1..N - 1 BY DEF N
  <2> QED BY <1>1, <2>1
<1>3. c.body # Nil BY DEF Control
<1>4. c \in Activation /\ c.body \in Module /\ c.body # Cur.body
  <2>1. c \in Activation BY <1>1, <1>2
  <2>2. c.body # Cur.body BY <1>3, BodiesDiffer
  <2> QED BY <1>3, <2>1, <2>2 DEF Activation
<1>5. Ongoing(ran, done, exec, status, err, c) BY <1>2 DEF Outcomes
<1>6. c.kind = "dfs" => c.root \in Module /\ c.root \notin Members(Cur.stack) BY LowerRoot
<1>7. c.kind = "dfs" => err'[c.root] = Nil BY <1>5, <1>6 DEF Ongoing
<1>8. c.body \in Members(ran') \ done' /\ exec'[c.body] = "none" BY <1>3, <1>4, <1>5 DEF Ongoing
<1>9. c.kind = "list" => status'[c.body] = "async" BY <1>3, <1>4, <1>5 DEF Ongoing
<1> QED BY <1>7, <1>8, <1>9 DEF Ongoing

\* The bodies in progress after a step that replaces the innermost activation,
\* and after one that ends it.
LEMMA TopOngoing ==
  ASSUME Types, Control, Stacks, Outcomes, ctx # <<>>, NEW d \in Activation, ctx' = With(d),
         Members(ran) \subseteq Members(ran'), done' \subseteq done \cup {Cur.body},
         \A x \in Module \ {Cur.body} : exec'[x] = exec[x],
         \A x \in Module : status[x] = "async" => status'[x] = "async",
         err' = err, Ongoing(ran', done', exec', status', err', d)
  PROVE  \A i \in 1..Len(ctx') : Ongoing(ran', done', exec', status', err', ctx'[i])
<1> DEFINE N == Len(ctx)
<1>1. N \in Nat \ {0} BY CurTyped
<1>2. Len(ctx') = N /\ ctx'[N] = d /\ \A i \in 1..N - 1 : ctx'[i] = ctx[i] BY WithFacts
<1>3. \A i \in 1..N - 1 : Ongoing(ran', done', exec', status', err', ctx[i]) BY LowerOngoing
<1> HIDE DEF N
<1>4. \A i \in 1..N : i = N \/ i \in 1..N - 1 BY <1>1
<1> QED BY <1>2, <1>3, <1>4

\* A return leaves the bodies below in progress.
LEMMA PopOngoing ==
  ASSUME Types, Control, Stacks, Outcomes, ctx # <<>>, ctx' = Popped, UNCHANGED <<ran, done, exec>>,
         \A x \in Module : status[x] = "async" => status'[x] = "async",
         \A x \in Module \ Members(Cur.stack) : err'[x] = err[x]
  PROVE  \A i \in 1..Len(ctx') : Ongoing(ran', done', exec', status', err', ctx'[i])
<1> DEFINE N == Len(ctx)
<1>1. Len(ctx') = N - 1 /\ \A i \in 1..N - 1 : ctx'[i] = ctx[i] BY PoppedFacts
<1>2. \A i \in 1..N - 1 : Ongoing(ran', done', exec', status', err', ctx[i]) BY LowerOngoing
<1> HIDE DEF N
<1> QED BY <1>1, <1>2

\* Every step keeps a body in one of its outcomes.
LEMMA OutcomesPreserved ==
  ASSUME Types, Control, Stacks, Fresh, Once, Outcomes, [Next]_vars
  PROVE  Outcomes'
<1> DEFINE Go(c) == Ongoing(ran', done', exec', status', err', c)
<1>t. /\ status \in [Module -> Statuses] /\ exec \in [Module -> Promises] /\ ran \in Seq(Module)
      /\ done \subseteq Module /\ err \in [Module -> Module \cup {Nil}] /\ Members(ran) \subseteq Module
  BY MembersOf DEF Types, TypeOK
<1>c. ASSUME ctx # <<>> PROVE Ongoing(ran, done, exec, status, err, Cur)
  <2>1. Len(ctx) \in 1..Len(ctx) /\ Cur = ctx[Len(ctx)] BY <1>c, CurTyped
  <2> QED BY <2>1 DEF Outcomes
<1>0. ASSUME UNCHANGED <<graph, done, exec>>, Members(ran) \subseteq Members(ran'),
             \A i \in 1..Len(ctx') : Go(ctx'[i])
      PROVE  Outcomes'
  BY <1>0 DEF Outcomes
\* A step of the innermost walk or list that ends no body.
<1>1. ASSUME UNCHANGED <<graph, done, exec, err, ran>>, ctx # <<>>, NEW d \in Activation,
             ctx' = With(d), d.kind = Cur.kind, d.root = Cur.root, d.body = Nil,
             \A x \in Module : status[x] = "async" => status'[x] = "async"
      PROVE  Outcomes'
  <2>1. Go(d) BY <1>c, <1>1 DEF Ongoing
  <2>2. Members(ran) \subseteq Members(ran') BY <1>1
  <2>3. \A i \in 1..Len(ctx') : Go(ctx'[i])
    <3> HIDE DEF Go
    <3>1. Ongoing(ran', done', exec', status', err', d) BY <2>1 DEF Go
    <3> QED BY <1>1, <2>2, <3>1, TopOngoing DEF Go
  <2> QED BY <1>0, <1>1, <2>2, <2>3
<1>2. ASSUME UNCHANGED <<graph, done, exec, ran>>, ctx # <<>>, ctx' = Popped,
             \A x \in Module : status[x] = "async" => status'[x] = "async",
             \A x \in Module \ Members(Cur.stack) : err'[x] = err[x]
      PROVE  Outcomes'
  <2>1. \A i \in 1..Len(ctx') : Go(ctx'[i]) BY <1>2, PopOngoing
  <2> QED BY <1>0, <1>2, <2>1
\* A walk fails.
<1>3. ASSUME ctx # <<>>, NEW e, SetError(Members(Cur.stack), e), ctx' = Popped,
             UNCHANGED <<graph, done, exec, ran>>
      PROVE  Outcomes'
  <2>1. \A x \in Members(Cur.stack) : status[x] = "evaluating" BY <1>3, CurOK DEF Stacked
  <2>2. /\ \A x \in Module : status[x] = "async" => status'[x] = "async"
        /\ \A x \in Module \ Members(Cur.stack) : err'[x] = err[x]
    BY <1>3, <2>1 DEF SetError
  <2> QED BY <1>2, <1>3, <2>2
\* A body starts.
<1>4. ASSUME UNCHANGED <<graph, done, exec, err, status>>, ctx # <<>>, Cur.body = Nil,
             NEW d \in Activation, ctx' = With(d), d.kind = Cur.kind, d.root = Cur.root,
             d.body \in Module, d.body \notin Members(ran), ran' = Append(ran, d.body),
             d.kind = "list" => status[d.body] = "async"
      PROVE  Outcomes'
  <2>1. Members(ran') = Members(ran) \cup {d.body} BY <1>t, <1>4, MembersAppend
  <2>2. d.body \in Members(ran') \ done' BY <1>4, <2>1 DEF Outcomes
  <2>3. exec'[d.body] = "none" BY <1>4 DEF Outcomes
  <2>4. d.kind = "dfs" => err'[d.root] = Nil BY <1>c, <1>4 DEF Ongoing
  <2>5. Ongoing(ran', done', exec', status', err', d) BY <1>4, <2>2, <2>3, <2>4 DEF Ongoing
  <2>6. \A i \in 1..Len(ctx') : Go(ctx'[i]) BY <1>4, <2>1, <2>5, TopOngoing
  <2> QED BY <1>0, <1>4, <2>1, <2>6
\* A body ends in the innermost activation, or hands out its promise.
<1>5. ASSUME UNCHANGED <<graph, err, ran>>, ctx # <<>>, Cur.body # Nil,
             ctx' = With([Cur EXCEPT !.body = Nil]),
             done' \subseteq done \cup {Cur.body},
             \A x \in Module \ {Cur.body} : exec'[x] = exec[x],
             \A x \in Module : status[x] = "async" => status'[x] = "async",
             exec'[Cur.body] # "none" => Cur.body \in graph.tla,
             exec'[Cur.body] \in {"pending", "err"} => done' = done
      PROVE  Outcomes'
  <2>1. PICK d \in Activation :
          ctx' = With(d) /\ d.kind = Cur.kind /\ d.root = Cur.root /\ d.body = Nil
    BY <1>5, BodyForm
  <2>2. Cur.body \in Members(ran) \ done BY <1>c, <1>5 DEF Ongoing
  <2>3. Ongoing(ran', done', exec', status', err', d) BY <1>c, <1>5, <2>1 DEF Ongoing
  <2>4. \A i \in 1..Len(ctx') : Go(ctx'[i]) BY <1>5, <2>1, <2>3, TopOngoing
  <2>5. done' \subseteq Members(ran') BY <1>5, <2>2 DEF Outcomes
  <2>6. ASSUME NEW x \in Module
        PROVE  /\ exec'[x] # "none" => x \in Members(ran') /\ x \in graph'.tla
               /\ exec'[x] \in {"pending", "err"} => x \notin done'
    <3>1. CASE x = Cur.body BY <1>5, <2>2, <3>1
    <3>2. CASE x # Cur.body BY <1>5, <3>2 DEF Outcomes
    <3> QED BY <3>1, <3>2
  <2> QED BY <2>4, <2>5, <2>6 DEF Outcomes
<1>6. CASE Enter
  <2>1. ctx # <<>> /\ Cur.frames # <<>> /\ Cur.body = Nil BY <1>6, EnterForm
  <2>2. PICK d \in Activation :
          ctx' = With(d) /\ d.kind = Cur.kind /\ d.root = Cur.root /\ d.body = Nil
    BY <1>6, <2>1, EnterForm
  <2>3. Frame.m \in Module /\ status[Frame.m] = "linked"
    <3>1. /\ Len(Cur.frames) \in Nat \ {0} /\ Frame = Cur.frames[Len(Cur.frames)] /\ Frame.m \in Module
      BY <2>1, FrameTyped
    <3>2. Len(Cur.frames) \in 1..Len(Cur.frames) BY <3>1
    <3> QED BY <1>6, <2>1, <3>1, <3>2, CurOK DEF Stacked, Enter
  <2>4. \A x \in Module : status[x] = "async" => status'[x] = "async"
    BY <1>t, <1>6, <2>3 DEF Enter
  <2> QED BY <1>1, <1>6, <2>1, <2>2, <2>4 DEF Enter, hisVars
<1>7. CASE Examine
  <2>1. CASE ctx' = Popped BY <1>3, <1>7, <2>1, ExamineThrows
  <2>2. CASE ctx' # Popped
    <3>1. ctx # <<>> /\ Cur.body = Nil BY <1>7, <2>2, ExamineForm
    <3>2. PICK d \in Activation :
            ctx' = With(d) /\ d.kind = Cur.kind /\ d.root = Cur.root /\ d.body = Nil
      BY <1>7, <2>2, <3>1, ExamineForm
    <3>3. UNCHANGED <<graph, done, exec, err, ran, status>>
      BY <1>7, <2>2 DEF Examine, Throw, recVars, hisVars
    <3> QED BY <1>1, <3>1, <3>2, <3>3
  <2> QED BY <2>1, <2>2
<1>8. CASE Request
  <2>1. ctx # <<>> /\ Cur.body = Nil BY <1>8, RequestForm
  <2>2. PICK d \in Activation :
          ctx' = With(d) /\ d.kind = Cur.kind /\ d.root = Cur.root /\ d.body = Nil
    BY <1>8, <2>1, RequestForm
  <2> QED BY <1>1, <1>8, <2>1, <2>2 DEF Request, recVars, asyVars, hisVars
<1>9. CASE Execute
  <2>1. ctx # <<>> /\ Cur.frames # <<>> /\ Cur.body = Nil /\ Cur.kind = "dfs" BY <1>9, ExecuteForm
  <2>2. PICK d \in Activation :
          /\ ctx' = With(d) /\ d.kind = Cur.kind /\ d.root = Cur.root
          /\ d.body = (IF pend[Frame.m] > 0 THEN Nil ELSE Frame.m)
    BY <1>9, ExecuteForm
  <2>3. UNCHANGED <<graph, done, exec, err, status>> BY <1>9 DEF Execute
  <2>4. CASE pend[Frame.m] > 0 BY <1>1, <1>9, <2>1, <2>2, <2>3, <2>4 DEF Execute
  <2>5. CASE ~(pend[Frame.m] > 0)
    <3>1. ran' = Append(ran, Frame.m) BY <1>9, <2>5 DEF Execute
    <3>2. /\ Len(Cur.frames) \in Nat \ {0} /\ Frame = Cur.frames[Len(Cur.frames)] /\ Frame.m \in Module
      BY <2>1, FrameTyped
    <3>3. Len(Cur.frames) \in 1..Len(Cur.frames) BY <3>2
    <3>4. Frame.m \notin Members(ran)
      BY <1>9, <2>1, <3>2, <3>3, CurOnce DEF Unstarted, Execute
    <3>5. d.body = Frame.m /\ d.kind # "list" BY <2>1, <2>2, <2>5
    <3> QED BY <1>4, <2>1, <2>2, <2>3, <3>1, <3>2, <3>4, <3>5
  <2> QED BY <2>4, <2>5
<1>10. CASE Finish
  <2>1. ctx # <<>> /\ Cur.frames # <<>> BY <1>10, FinishForm
  <2>2. PICK d \in Activation, S \in SUBSET Module : FinishParts(d, S) BY <1>10, FinishSplits
  <2>3. \A x \in S : status[x] = "evaluating" BY <2>1, <2>2, CurOK DEF Stacked, FinishParts
  <2>4. \A x \in Module : status[x] = "async" => status'[x] = "async" BY <2>2, <2>3 DEF FinishParts
  <2>5. ctx' = With(d) /\ d.kind = Cur.kind /\ d.root = Cur.root /\ d.body = Nil
    BY <2>2 DEF FinishParts
  <2> QED BY <1>1, <1>10, <2>1, <2>4, <2>5 DEF Finish, asyVars, hisVars
<1>11. CASE EndWalk \/ EndList
  BY <1>2, <1>11 DEF EndWalk, EndList, recVars, asyVars, hisVars
<1>12. ASSUME ctx # <<>>, Cur.kind = "list", Cur.body # Nil, ctx' = With([Cur EXCEPT !.body = Nil]),
              UNCHANGED <<graph, exec, ran>>, done' \subseteq done \cup {Cur.body},
              Cur.body \notin graph.tla
       PROVE  Outcomes'
  <2>1. PICK d \in Activation : ctx' = With(d) /\ d.kind = Cur.kind /\ d.body = Nil
    BY <1>12, BodyForm
  <2>2. Len(ctx) = 1 /\ \A i \in 1..Len(ctx) : i = 1 BY <1>12, ListAlone
  <2>3. Len(ctx') = 1 /\ ctx'[1] = d BY <1>12, <2>1, <2>2, WithFacts
  <2>4. Ongoing(ran', done', exec', status', err', d) BY <1>12, <2>1 DEF Ongoing
  <2>5. \A i \in 1..Len(ctx') : i = 1 BY <2>3
  <2>6. \A i \in 1..Len(ctx') : Go(ctx'[i]) BY <2>3, <2>4, <2>5
  <2>7. Cur.body \in Members(ran) BY <1>c, <1>12 DEF Ongoing
  <2>8. exec[Cur.body] = "none" BY <1>c, <1>12 DEF Ongoing
  <2>9. \A x \in Module : /\ exec'[x] # "none" => x \in Members(ran') /\ x \in graph'.tla
                          /\ exec'[x] \in {"pending", "err"} => x \notin done'
    BY <1>12, <2>8 DEF Outcomes
  <2>10. done' \subseteq Members(ran') BY <1>12, <2>7 DEF Outcomes
  <2> QED BY <2>6, <2>9, <2>10 DEF Outcomes
<1>13. CASE BodyReturns
  <2>1. /\ ctx # <<>> /\ Cur.body # Nil /\ Cur.body \notin graph.tla
        /\ done' = done \cup {Cur.body} /\ ctx' = With([Cur EXCEPT !.body = Nil])
        /\ UNCHANGED <<graph, exec, ran>>
    BY <1>13 DEF BodyReturns, asyVars
  <2>2. CASE Cur.kind = "list" BY <1>12, <2>1, <2>2
  <2>3. CASE Cur.kind # "list"
    <3>1. UNCHANGED <<status, err>> BY <1>13, <2>3 DEF BodyReturns, recVars
    <3>2. exec'[Cur.body] = "none" BY <1>c, <2>1 DEF Ongoing
    <3> QED BY <1>5, <2>1, <3>1, <3>2
  <2> QED BY <2>2, <2>3
<1>14. CASE BodyThrows
  <2>1. /\ ctx # <<>> /\ Cur.body # Nil /\ Cur.body \notin graph.tla
        /\ UNCHANGED <<graph, exec, ran, done>>
    BY <1>14 DEF BodyThrows, asyVars, hisVars
  <2>2. CASE Cur.kind = "dfs" BY <1>3, <1>14, <2>1, <2>2, BodyThrowForm
  <2>3. CASE Cur.kind # "dfs"
    <3>1. Cur.kind = "list" BY <2>1, <2>3, CurTyped DEF Activation
    <3> QED BY <1>12, <1>14, <2>1, <2>3, <3>1 DEF BodyThrows
  <2> QED BY <2>2, <2>3
<1>15. ASSUME NEW p \in {"pending", "ok", "err"}, BodyAwaits(p) PROVE Outcomes'
  <2>1. /\ ctx # <<>> /\ Cur.body # Nil /\ Cur.body \in graph.tla
        /\ exec' = [exec EXCEPT ![Cur.body] = p] /\ ctx' = With([Cur EXCEPT !.body = Nil])
        /\ done' = (IF p = "ok" THEN done \cup {Cur.body} ELSE done)
        /\ UNCHANGED <<graph, status, err, ran>>
    BY <1>15 DEF BodyAwaits, recVars
  <2>2. Cur.body \in Module BY <2>1, CurBody
  <2>3. /\ exec'[Cur.body] = p /\ \A x \in Module \ {Cur.body} : exec'[x] = exec[x]
    BY <1>t, <2>1, <2>2
  <2>4. exec'[Cur.body] \in {"pending", "err"} => done' = done BY <2>1, <2>3
  <2>5. done' \subseteq done \cup {Cur.body} BY <2>1
  <2> QED BY <1>5, <2>1, <2>3, <2>4, <2>5
<1>16. ASSUME UNCHANGED <<graph, done, exec, ran, err, status, ctx>> PROVE Outcomes'
  BY <1>16 DEF Outcomes
<1>17. CASE Callback
  <2>1. UNCHANGED <<graph, done, exec, ran>> /\ ctx = <<>> BY <1>17 DEF Callback, hisVars
  <2>2. CASE ctx' = <<List(Available(Head(jobs)))>>
    <3> DEFINE c == List(Available(Head(jobs)))
    <3>1. c.body = Nil /\ c.kind = "list" BY DEF List
    <3> HIDE DEF c
    <3>2. Len(ctx') = 1 /\ ctx'[1] = c BY <2>2 DEF c
    <3>3. Go(c) BY <3>1 DEF Ongoing
    <3>4. \A i \in 1..Len(ctx') : i = 1 BY <3>2
    <3>5. \A i \in 1..Len(ctx') : Go(ctx'[i]) BY <3>2, <3>3, <3>4
    <3> QED BY <1>0, <2>1, <3>5
  <2>3. CASE ctx' = ctx
    <3>1. Len(ctx') = 0 BY <2>1, <2>3
    <3>2. \A i \in 1..Len(ctx') : Go(ctx'[i]) BY <3>1
    <3> QED BY <1>0, <2>1, <3>2
  <2> QED BY <1>17, <2>2, <2>3 DEF Callback, Fulfilled, Rejected
<1>18. CASE RunNext
  <2>1. ctx # <<>> /\ Cur.kind = "list" /\ Cur.body = Nil BY <1>18, RunNextForm
  <2>2. PICK d \in Activation, m \in Cur.avail :
          /\ ctx' = With(d) /\ d.kind = Cur.kind /\ d.root = Cur.root
          /\ d.body = (IF status[m] = "evaluated" THEN Nil ELSE m)
          /\ ran' = IF status[m] = "evaluated" THEN ran ELSE Append(ran, m)
    BY <1>18, RunNextForm
  <2>3. UNCHANGED <<graph, done, exec, err, status>> BY <1>18 DEF RunNext, recVars, asyVars
  <2>4. CASE status[m] = "evaluated" BY <1>1, <2>1, <2>2, <2>3, <2>4
  <2>5. CASE status[m] # "evaluated"
    <3>1. m \in Module /\ m \notin Members(ran) /\ status[m] = "async"
      BY <2>1, <2>5, CurOnce DEF Unstarted, Idle
    <3>2. d.body = m /\ ran' = Append(ran, m) BY <2>2, <2>5
    <3> QED BY <1>4, <2>1, <2>2, <2>3, <3>1, <3>2
  <2> QED BY <2>4, <2>5
<1>19. ASSUME NEW m \in Module, Import(m) \/ Require(m) PROVE Outcomes'
  <2>1. Evaluate(m, ctx) /\ UNCHANGED <<graph, done, exec, ran, err, status>>
    BY <1>19 DEF Import, Require, asyVars, hisVars
  <2>2. CASE ctx' = ctx BY <1>16, <2>1, <2>2
  <2>3. CASE status[m] = "linked" /\ ctx' = Append(ctx, Walk(m))
    <3> DEFINE N == Len(ctx)
               c == Walk(m)
    <3>1. /\ Len(ctx') = N + 1 /\ ctx'[N + 1] = c /\ N \in Nat
          /\ \A i \in 1..N : ctx'[i] = ctx[i]
      BY <2>3, WalkTyped, PushFacts
    <3>2. c.body = Nil /\ c.root = m BY DEF Walk
    <3>3. err[m] = Nil BY <2>3 DEF Fresh
    <3> HIDE DEF N, c
    <3>4. Go(c) BY <2>1, <3>2, <3>3 DEF Ongoing
    <3>5. \A i \in 1..N + 1 : i = N + 1 \/ i \in 1..N BY <3>1
    <3>6. \A i \in 1..N : Go(ctx[i]) BY <2>1 DEF Outcomes, N
    <3>7. \A i \in 1..Len(ctx') : Go(ctx'[i])
      <4> HIDE DEF Go
      <4> QED BY <3>1, <3>4, <3>5, <3>6
    <3> QED BY <1>0, <2>1, <3>7
  <2> QED BY <2>1, <2>2, <2>3, EvaluateForm
<1>20. ASSUME NEW m \in Module, NEW p \in {"ok", "err"}, Settle(m, p) PROVE Outcomes'
  <2>1. /\ ctx = <<>> /\ ctx' = ctx /\ exec[m] = "pending" /\ exec' = [exec EXCEPT ![m] = p]
        /\ done' = (IF p = "ok" THEN done \cup {m} ELSE done) /\ UNCHANGED <<graph, ran>>
    BY <1>20 DEF Settle
  <2>2. Len(ctx') = 0 BY <2>1
  <2>3. \A i \in 1..Len(ctx') : Go(ctx'[i]) BY <2>2
  <2>4. m \in Members(ran) /\ m \in graph.tla /\ m \notin done BY <2>1 DEF Outcomes
  <2>5. exec'[m] = p /\ \A x \in Module \ {m} : exec'[x] = exec[x] BY <1>t, <2>1
  <2>6. ASSUME NEW x \in Module
        PROVE  /\ exec'[x] # "none" => x \in Members(ran') /\ x \in graph'.tla
               /\ exec'[x] \in {"pending", "err"} => x \notin done'
    <3>1. CASE x = m BY <2>1, <2>4, <2>5, <3>1
    <3>2. CASE x # m BY <2>1, <2>5, <3>2 DEF Outcomes
    <3> QED BY <3>1, <3>2
  <2>7. done' \subseteq Members(ran') BY <2>1, <2>4 DEF Outcomes
  <2> QED BY <2>3, <2>6, <2>7 DEF Outcomes
<1>21. CASE UNCHANGED vars BY <1>16, <1>21 DEF vars, recVars, asyVars, hisVars
<1> QED BY <1>6, <1>7, <1>8, <1>9, <1>10, <1>11, <1>13, <1>14, <1>15, <1>17, <1>18, <1>19, <1>20,
           <1>21 DEF Next, Run
-----------------------------------------------------------------------------
\* Failures.
\* The ancestors that a rejection reaches need the module that failed.
LEMMA AncestorsNeed ==
  ASSUME Types, Links, NEW m \in Module
  PROVE  \A x \in Ancestors(m) : x \in Module /\ <<x, m>> \in Needing
<1> DEFINE Up(d) == {p \in Members(parents[d]) : status[p] # "evaluated"}
           T == {p \in Module : <<p, m>> \in Needing}
           Closed == {U \in SUBSET Module : {m} \subseteq U /\ \A x \in U : Up(x) \subseteq U}
<1>1. CASE status[m] = "evaluated" BY <1>1 DEF Ancestors
<1>2. CASE status[m] # "evaluated"
  <2>1. Ancestors(m) = {x \in Module : \A U \in Closed : x \in U}
    BY <1>2 DEF Ancestors, Closure
  <2>2. m \in T BY NeedsClosed
  <2>3. ASSUME NEW x \in T, NEW p \in Up(x) PROVE p \in T
    <3>1. parents[x] \in Seq(Module) BY DEF Types, TypeOK
    <3>2. p \in Module BY <3>1, MembersOf
    <3>3. <<p, x>> \in Needing BY DEF Links
    <3> QED BY <3>2, <3>3, NeedsClosed
  <2>4. T \in Closed
    <3> HIDE DEF Up
    <3> QED BY <2>2, <2>3
  <2> HIDE DEF Closed
  <2> QED BY <2>1, <2>4
<1> QED BY <1>1, <1>2

\* What a failed module's error, e, has become.
Ended(r, dn, x, e) == e \in Members(r) \ dn /\ x[e] \in {"none", "err"}

\* The modules of S fail with the error of a body that has ended.
LEMMA ErrorFailures ==
  ASSUME Types, Failures, NEW S \in SUBSET Module, NEW e \in Module, SetError(S, e),
         Needing \subseteq Needing', UNCHANGED <<ran, done, exec>>,
         Ended(ran, done, exec, e), \A x \in S : <<x, e>> \in Needing,
         \A i \in 1..Len(ctx') : \A x \in Module : err'[x] # Nil => ctx'[i].body # err'[x]
  PROVE  Failures'
<1> SUFFICES ASSUME NEW x \in Module, err'[x] # Nil
             PROVE  /\ status'[x] = "evaluated" /\ top'[x] # "ok"
                    /\ <<x, err'[x]>> \in Needing' /\ err'[x] \in Members(ran') \ done'
                    /\ exec'[err'[x]] \in {"none", "err"}
                    /\ \A i \in 1..Len(ctx') : ctx'[i].body # err'[x]
  BY DEF Failures
<1>1. CASE x \in S
  <2>1. status'[x] = "evaluated" /\ err'[x] = e /\ top'[x] # "ok" BY <1>1 DEF SetError
  <2> QED BY <1>1, <2>1 DEF Ended
<1>2. CASE x \notin S
  <2>1. status'[x] = status[x] /\ err'[x] = err[x] /\ top'[x] = top[x] BY <1>2 DEF SetError
  <2> QED BY <2>1 DEF Failures
<1> QED BY <1>1, <1>2

\* The errors there are stay; no body that ran before is started or ends.
LEMMA SameFailures ==
  ASSUME Types, Failures, err' = err, Needing \subseteq Needing',
         Members(ran) \subseteq Members(ran'),
         \A x \in Module : err[x] # Nil =>
           /\ status'[x] = "evaluated" /\ top'[x] # "ok" /\ err[x] \notin done'
           /\ exec'[err[x]] = exec[err[x]],
         \A i \in 1..Len(ctx') : \A x \in Module : err[x] # Nil => ctx'[i].body # err[x]
  PROVE  Failures'
<1> SUFFICES ASSUME NEW x \in Module, err[x] # Nil
             PROVE  /\ status'[x] = "evaluated" /\ top'[x] # "ok"
                    /\ <<x, err[x]>> \in Needing' /\ err[x] \in Members(ran') \ done'
                    /\ exec'[err[x]] \in {"none", "err"}
                    /\ \A i \in 1..Len(ctx') : ctx'[i].body # err[x]
  BY DEF Failures
<1> QED BY DEF Failures

\* The bodies after a step that replaces the innermost activation, and after
\* one that ends it, are different from the errors.
LEMMA TopErrors ==
  ASSUME Types, Failures, ctx # <<>>, NEW d \in Activation, ctx' = With(d),
         \A x \in Module : err[x] # Nil => d.body # err[x]
  PROVE  \A i \in 1..Len(ctx') : \A x \in Module : err[x] # Nil => ctx'[i].body # err[x]
<1> DEFINE N == Len(ctx)
<1>1. N \in Nat \ {0} BY CurTyped
<1>2. Len(ctx') = N /\ ctx'[N] = d /\ \A i \in 1..N - 1 : ctx'[i] = ctx[i] BY WithFacts
<1>3. \A i \in 1..N : \A x \in Module : err[x] # Nil => ctx[i].body # err[x] BY DEF Failures
<1> HIDE DEF N
<1>4. \A i \in 1..N : i = N \/ i \in 1..N - 1 BY <1>1
<1> QED BY <1>2, <1>3, <1>4

\* After a return no running body is the source of an error.
LEMMA PopErrors ==
  ASSUME Types, Failures, ctx # <<>>, ctx' = Popped
  PROVE  \A i \in 1..Len(ctx') : \A x \in Module : err[x] # Nil => ctx'[i].body # err[x]
<1> DEFINE N == Len(ctx)
<1>1. N \in Nat \ {0} BY CurTyped
<1>2. Len(ctx') = N - 1 /\ \A i \in 1..N - 1 : ctx'[i] = ctx[i] BY PoppedFacts
<1>3. \A i \in 1..N : \A x \in Module : err[x] # Nil => ctx[i].body # err[x] BY DEF Failures
<1> HIDE DEF N
<1>4. \A i \in 1..N - 1 : i \in 1..N BY <1>1
<1> QED BY <1>2, <1>3, <1>4

\* Every step keeps errors attributed to needed, abruptly ended bodies.
LEMMA FailuresPreserved ==
  ASSUME Types, Control, Stacks, Paths, Links, Fresh, Once, Outcomes, Failures, [Next]_vars
  PROVE  Failures'
<1>t. /\ status \in [Module -> Statuses] /\ err \in [Module -> Module \cup {Nil}]
      /\ top \in [Module -> Promises] /\ exec \in [Module -> Promises] /\ ran \in Seq(Module)
  BY DEF Types, TypeOK
<1>g. graph' = graph /\ called \subseteq called'
  BY DEF Next, Run, Enter, Examine, Request, Execute, Finish, EndWalk, BodyReturns, BodyThrows,
         BodyAwaits, Callback, RunNext, EndList, Import, Require, Settle, vars, hisVars
<1>n. Needing \subseteq Needing' BY <1>g, NeedsGrow
<1>f. \A x \in Module : err[x] # Nil =>
        /\ status[x] = "evaluated" /\ top[x] # "ok" /\ err[x] \in Module
        /\ err[x] \in Members(ran) \ done /\ exec[err[x]] \in {"none", "err"}
  BY <1>t DEF Failures
<1>b. \A i \in 1..Len(ctx) : \A x \in Module : err[x] # Nil => ctx[i].body # err[x]
  BY DEF Failures
<1>c. ASSUME ctx # <<>>
      PROVE  /\ Ongoing(ran, done, exec, status, err, Cur) /\ Cur \in Activation
             /\ \A x \in Module : err[x] # Nil => Cur.body # err[x]
  <2>1. Len(ctx) \in 1..Len(ctx) /\ Cur = ctx[Len(ctx)] /\ Cur \in Activation BY <1>c, CurTyped
  <2> QED BY <1>b, <2>1 DEF Outcomes
\* A step of the innermost activation that starts or ends no body.
<1>1. ASSUME UNCHANGED <<err, top, ran, done, exec>>, ctx # <<>>, NEW d \in Activation, ctx' = With(d),
             d.body = Nil, \A x \in Module : status[x] = "evaluated" => status'[x] = "evaluated"
      PROVE  Failures'
  <2>1. \A i \in 1..Len(ctx') : \A x \in Module : err[x] # Nil => ctx'[i].body # err[x]
    BY <1>1, TopErrors
  <2> QED BY <1>n, <1>f, <1>1, <2>1, SameFailures
\* A body starts.
<1>2. ASSUME UNCHANGED <<err, top, status, done, exec>>, ctx # <<>>, NEW d \in Activation,
             ctx' = With(d), d.body \in Module, d.body \notin Members(ran),
             ran' = Append(ran, d.body)
      PROVE  Failures'
  <2>1. \A i \in 1..Len(ctx') : \A x \in Module : err[x] # Nil => ctx'[i].body # err[x]
    BY <1>f, <1>2, TopErrors
  <2>2. Members(ran) \subseteq Members(ran') BY <1>t, <1>2, MembersAppend
  <2> QED BY <1>n, <1>f, <1>2, <2>1, <2>2, SameFailures
\* A walk fails: its stack needs the module of the last frame, where it failed.
<1>3. ASSUME ctx # <<>>, Cur.frames # <<>>, NEW e \in Module, SetError(Members(Cur.stack), e),
             ctx' = Popped, UNCHANGED <<ran, done, exec>>, Ended(ran, done, exec, e),
             <<Frame.m, e>> \in Needing, \A i \in 1..Len(ctx) - 1 : ctx[i].body # e
      PROVE  Failures'
  <2>1. Len(ctx) \in 1..Len(ctx) /\ Cur = ctx[Len(ctx)] /\ Cur \in Activation BY <1>3, CurTyped
  <2>2. \A x \in Members(Cur.stack) : x \in Module /\ <<x, Frame.m>> \in Needing
    BY <2>1, LastNeeded DEF Frame
  <2>3. Frame.m \in Module BY <1>3, FrameTyped
  <2>4. \A x \in Members(Cur.stack) : <<x, e>> \in Needing BY <1>3, <2>2, <2>3, NeedsClosed
  <2>5. \A i \in 1..Len(ctx') : \A x \in Module : err[x] # Nil => ctx'[i].body # err[x]
    BY <1>3, PopErrors
  <2>6. \A i \in 1..Len(ctx') : ctx'[i].body # e BY <1>3, PoppedFacts
  <2>7. \A x \in Module : err'[x] = err[x] \/ err'[x] = e BY <1>3 DEF SetError
  <2>8. \A i \in 1..Len(ctx') : \A x \in Module : err'[x] # Nil => ctx'[i].body # err'[x]
    BY <2>5, <2>6, <2>7
  <2>9. Members(Cur.stack) \subseteq Module BY <2>2
  <2> QED BY <1>n, <1>3, <2>4, <2>8, <2>9, ErrorFailures
\* An asynchronous failure: the ancestors that wait need the module.
<1>4. ASSUME NEW m \in Module, SetError(Ancestors(m), m), UNCHANGED <<ran, done, exec>>,
             Ended(ran, done, exec, m), \A i \in 1..Len(ctx') : ctx'[i].body = Nil
      PROVE  Failures'
  <2>1. Ancestors(m) \subseteq Module /\ \A x \in Ancestors(m) : <<x, m>> \in Needing
    BY AncestorsNeed
  <2>2. \A i \in 1..Len(ctx') : \A x \in Module : err'[x] # Nil => ctx'[i].body # err'[x]
    BY <1>4
  <2> QED BY <1>n, <1>4, <2>1, <2>2, ErrorFailures
\* A module completes.
<1>5. ASSUME NEW m \in Module, Complete(m), err[m] = Nil
      PROVE  \A x \in Module : err[x] # Nil => status'[x] = "evaluated" /\ top'[x] # "ok"
  BY <1>t, <1>f, <1>5 DEF Complete
<1>6. CASE Enter
  <2>1. ctx # <<>> /\ Cur.frames # <<>> /\ Cur.body = Nil BY <1>6, EnterForm
  <2>2. PICK d \in Activation : ctx' = With(d) /\ d.body = Nil BY <1>6, <2>1, EnterForm
  <2>3. Frame.m \in Module /\ status[Frame.m] = "linked"
    <3>1. /\ Len(Cur.frames) \in Nat \ {0} /\ Frame = Cur.frames[Len(Cur.frames)] /\ Frame.m \in Module
      BY <2>1, FrameTyped
    <3>2. Len(Cur.frames) \in 1..Len(Cur.frames) BY <3>1
    <3> QED BY <1>6, <2>1, <3>1, <3>2, CurOK DEF Stacked, Enter
  <2>4. \A x \in Module : status[x] = "evaluated" => status'[x] = "evaluated"
    BY <1>t, <1>6, <2>3 DEF Enter
  <2> QED BY <1>1, <1>6, <2>1, <2>2, <2>4 DEF Enter, hisVars
<1>7. CASE Examine
  <2>1. CASE ctx' = Popped
    <3> DEFINE q == Req(Frame.m)[Frame.next - 1]
               r == IF status[q] = "evaluating" THEN q ELSE root[q]
    <3>1. /\ err[r] # Nil /\ r \in Module /\ q \in Module /\ q \in Requested(Frame.m)
          /\ SetError(Members(Cur.stack), err[r]) /\ ctx # <<>> /\ Cur.frames # <<>>
          /\ UNCHANGED <<ran, done, exec>>
      BY <1>7, <2>1, ExamineThrows
    <3>2. Frame.m \in Module /\ <<Frame.m, q>> \in Needing BY <3>1, FrameTyped, NeedsClosed
    <3>3. <<q, r>> \in Needing BY <3>1, NeedsClosed DEF Links
    <3>4. err[r] \in Module /\ <<r, err[r]>> \in Needing
      BY <1>f, <3>1 DEF Failures
    <3> HIDE DEF q, r
    <3>5. <<Frame.m, r>> \in Needing BY <3>1, <3>2, <3>3, NeedsClosed
    <3>6. <<Frame.m, err[r]>> \in Needing BY <3>1, <3>2, <3>4, <3>5, NeedsClosed
    <3>7. Ended(ran, done, exec, err[r]) BY <1>f, <3>1 DEF Ended
    <3>8. \A i \in 1..Len(ctx) - 1 : ctx[i].body # err[r]
      <4>1. Len(ctx) \in Nat \ {0} BY <3>1, CurTyped
      <4>2. \A i \in 1..Len(ctx) - 1 : i \in 1..Len(ctx) BY <4>1
      <4> QED BY <1>b, <3>1, <4>2
    <3> QED BY <1>3, <2>1, <3>1, <3>4, <3>6, <3>7, <3>8
  <2>2. CASE ctx' # Popped
    <3>1. ctx # <<>> /\ Cur.body = Nil BY <1>7, <2>2, ExamineForm
    <3>2. PICK d \in Activation : ctx' = With(d) /\ d.body = Nil BY <1>7, <2>2, <3>1, ExamineForm
    <3>3. UNCHANGED <<done, exec, err, ran, status, top>>
      BY <1>7, <2>2 DEF Examine, Throw, recVars, hisVars
    <3> QED BY <1>1, <3>1, <3>2, <3>3
  <2> QED BY <2>1, <2>2
<1>8. CASE Request
  <2>1. ctx # <<>> /\ Cur.body = Nil BY <1>8, RequestForm
  <2>2. PICK d \in Activation : ctx' = With(d) /\ d.body = Nil BY <1>8, <2>1, RequestForm
  <2> QED BY <1>1, <1>8, <2>1, <2>2 DEF Request, recVars, asyVars, hisVars
<1>9. CASE Execute
  <2>1. ctx # <<>> /\ Cur.frames # <<>> BY <1>9, ExecuteForm
  <2>2. PICK d \in Activation :
          ctx' = With(d) /\ d.body = (IF pend[Frame.m] > 0 THEN Nil ELSE Frame.m)
    BY <1>9, ExecuteForm
  <2>3. UNCHANGED <<done, exec, err, status, top>> BY <1>9 DEF Execute
  <2>4. CASE pend[Frame.m] > 0 BY <1>1, <1>9, <2>1, <2>2, <2>3, <2>4 DEF Execute
  <2>5. CASE ~(pend[Frame.m] > 0)
    <3>1. ran' = Append(ran, Frame.m) BY <1>9, <2>5 DEF Execute
    <3>2. /\ Len(Cur.frames) \in Nat \ {0} /\ Frame = Cur.frames[Len(Cur.frames)] /\ Frame.m \in Module
      BY <2>1, FrameTyped
    <3>3. Len(Cur.frames) \in 1..Len(Cur.frames) BY <3>2
    <3>4. Frame.m \notin Members(ran)
      BY <1>9, <2>1, <3>2, <3>3, CurOnce DEF Unstarted, Execute
    <3>5. d.body = Frame.m BY <2>2, <2>5
    <3> QED BY <1>2, <2>1, <2>2, <2>3, <3>1, <3>2, <3>4, <3>5
  <2> QED BY <2>4, <2>5
<1>10. CASE Finish
  <2>1. ctx # <<>> /\ Cur.frames # <<>> BY <1>10, FinishForm
  <2>2. PICK d \in Activation, S \in SUBSET Module : FinishParts(d, S) BY <1>10, FinishSplits
  <2>3. \A x \in S : status[x] = "evaluating" BY <2>1, <2>2, CurOK DEF Stacked, FinishParts
  <2>4. \A x \in Module : status[x] = "evaluated" => status'[x] = "evaluated"
    BY <2>2, <2>3 DEF FinishParts
  <2>5. ctx' = With(d) /\ d.body = Nil BY <2>2 DEF FinishParts
  <2> QED BY <1>1, <1>10, <2>1, <2>4, <2>5 DEF Finish, asyVars, hisVars
<1>11. CASE EndWalk
  <2>1. /\ ctx # <<>> /\ Cur.kind = "dfs" /\ ctx' = Popped
        /\ top' = [top EXCEPT ![Cur.root] = IF active[Cur.root] THEN @ ELSE "ok"]
        /\ UNCHANGED <<status, err, exec, ran, done>>
    BY <1>11 DEF EndWalk, asyVars, hisVars
  <2>2. err[Cur.root] = Nil BY <1>c, <2>1 DEF Ongoing
  <2>3. \A x \in Module : err[x] # Nil => top'[x] = top[x] BY <1>t, <2>1, <2>2
  <2>4. \A i \in 1..Len(ctx') : \A x \in Module : err[x] # Nil => ctx'[i].body # err[x]
    BY <2>1, PopErrors
  <2> QED BY <1>n, <1>f, <2>1, <2>3, <2>4, SameFailures
<1>12. CASE EndList
  <2>1. ctx # <<>> /\ ctx' = Popped /\ UNCHANGED <<status, err, top, exec, ran, done>>
    BY <1>12 DEF EndList, recVars, asyVars, hisVars
  <2>2. \A i \in 1..Len(ctx') : \A x \in Module : err[x] # Nil => ctx'[i].body # err[x]
    BY <2>1, PopErrors
  <2> QED BY <1>n, <1>f, <2>1, <2>2, SameFailures
<1>13. CASE BodyReturns
  <2>1. /\ ctx # <<>> /\ Cur.body # Nil /\ done' = done \cup {Cur.body}
        /\ ctx' = With([Cur EXCEPT !.body = Nil]) /\ UNCHANGED <<exec, ran>>
    BY <1>13 DEF BodyReturns, asyVars
  <2>2. PICK d \in Activation : ctx' = With(d) /\ d.body = Nil BY <2>1, BodyForm
  <2>3. \A i \in 1..Len(ctx') : \A x \in Module : err[x] # Nil => ctx'[i].body # err[x]
    BY <2>1, <2>2, TopErrors
  <2>4. Cur.body \in Module BY <2>1, CurBody
  <2>5. \A x \in Module : err[x] # Nil => err[x] \notin done' BY <1>c, <1>f, <2>1
  <2>6. err' = err /\ \A x \in Module : err[x] # Nil => status'[x] = "evaluated" /\ top'[x] # "ok"
    <3>1. CASE Cur.kind = "list"
      <4>1. Complete(Cur.body) BY <1>13, <3>1 DEF BodyReturns
      <4>2. status[Cur.body] = "async" BY <1>c, <2>1, <3>1 DEF Ongoing
      <4>3. err[Cur.body] = Nil BY <1>f, <2>4, <4>2
      <4> QED BY <1>5, <2>4, <4>1, <4>3 DEF Complete
    <3>2. CASE Cur.kind # "list" BY <1>f, <1>13, <3>2 DEF BodyReturns, recVars
    <3> QED BY <3>1, <3>2
  <2> QED BY <1>n, <2>1, <2>3, <2>5, <2>6, SameFailures
<1>14. CASE BodyThrows
  <2>1. ctx # <<>> /\ Cur.body # Nil /\ UNCHANGED <<exec, ran, done>>
    BY <1>14 DEF BodyThrows, asyVars, hisVars
  <2>2. Cur.body \in Module BY <2>1, CurBody
  <2>3. Ended(ran, done, exec, Cur.body) BY <1>c, <2>1 DEF Ongoing, Ended
  <2>4. CASE Cur.kind = "dfs"
    <3>1. /\ Cur.frames # <<>> /\ Frame.m = Cur.body /\ ctx' = Popped
          /\ SetError(Members(Cur.stack), Cur.body)
      BY <1>14, <2>4, BodyThrowForm
    <3>2. <<Frame.m, Cur.body>> \in Needing BY <2>2, <3>1, NeedsClosed
    <3>3. \A i \in 1..Len(ctx) - 1 : ctx[i].body # Cur.body BY <2>1, BodiesDiffer
    <3> QED BY <1>3, <2>1, <2>2, <2>3, <3>1, <3>2, <3>3
  <2>5. CASE Cur.kind # "dfs"
    <3>1. Cur.kind = "list" BY <2>1, <2>5, CurTyped DEF Activation
    <3>2. SetError(Ancestors(Cur.body), Cur.body) /\ ctx' = With([Cur EXCEPT !.body = Nil])
      BY <1>14, <2>5 DEF BodyThrows
    <3>3. PICK d \in Activation : ctx' = With(d) /\ d.body = Nil BY <2>1, <3>2, BodyForm
    <3>4. Len(ctx) = 1 BY <2>1, <3>1, ListAlone
    <3>5. Len(ctx') = 1 /\ ctx'[1] = d BY <2>1, <3>3, <3>4, WithFacts
    <3>6. \A i \in 1..Len(ctx') : i = 1 BY <3>5
    <3>7. \A i \in 1..Len(ctx') : ctx'[i].body = Nil BY <3>3, <3>5, <3>6
    <3> QED BY <1>4, <2>1, <2>2, <2>3, <3>2, <3>7
  <2> QED BY <2>4, <2>5
<1>15. ASSUME NEW p \in {"pending", "ok", "err"}, BodyAwaits(p) PROVE Failures'
  <2>1. /\ ctx # <<>> /\ Cur.body # Nil /\ exec' = [exec EXCEPT ![Cur.body] = p]
        /\ ctx' = With([Cur EXCEPT !.body = Nil])
        /\ done' = (IF p = "ok" THEN done \cup {Cur.body} ELSE done)
        /\ UNCHANGED <<status, err, top, ran>>
    BY <1>15 DEF BodyAwaits, recVars
  <2>2. PICK d \in Activation : ctx' = With(d) /\ d.body = Nil BY <2>1, BodyForm
  <2>3. \A i \in 1..Len(ctx') : \A x \in Module : err[x] # Nil => ctx'[i].body # err[x]
    BY <2>1, <2>2, TopErrors
  <2>4. Cur.body \in Module BY <2>1, CurBody
  <2>5. \A x \in Module : err[x] # Nil => err[x] \notin done' /\ exec'[err[x]] = exec[err[x]]
    BY <1>t, <1>c, <1>f, <2>1, <2>4
  <2> QED BY <1>n, <1>f, <2>1, <2>3, <2>5, SameFailures
<1>16. CASE Callback
  <2> DEFINE m == Head(jobs)
  <2>1. m \in Module
    <3>1. jobs \in Seq(Module) /\ jobs # <<>> BY <1>16 DEF Callback, Types, TypeOK
    <3> QED BY <3>1, HeadTailProperties
  <2>2. ctx = <<>> /\ UNCHANGED <<exec, ran, done>> BY <1>16 DEF Callback, hisVars
  <2>3. \A i \in 1..Len(ctx) : FALSE
    <3>1. Len(ctx) = 0 BY <2>2
    <3> QED BY <3>1
  <2>4. CASE Rejected(m)
    <3>1. SetError(Ancestors(m), m) /\ exec[m] = "err" /\ ctx' = ctx BY <2>4 DEF Rejected
    <3>2. m \in Members(ran) \ done BY <2>1, <3>1 DEF Outcomes
    <3>3. Ended(ran, done, exec, m) BY <3>1, <3>2 DEF Ended
    <3>4. \A i \in 1..Len(ctx') : ctx'[i].body = Nil BY <2>3, <3>1
    <3> QED BY <1>4, <2>1, <2>2, <3>1, <3>3, <3>4
  <2>5. CASE Fulfilled(m) /\ status[m] = "evaluated"
    <3>1. UNCHANGED <<status, err, top, ctx>> BY <2>5 DEF Fulfilled, recVars
    <3> QED BY <1>n, <1>f, <1>b, <2>2, <3>1, SameFailures
  <2>6. CASE Fulfilled(m) /\ status[m] # "evaluated"
    <3>1. Complete(m) /\ ctx' = <<List(Available(m))>> BY <2>6 DEF Fulfilled
    <3> DEFINE c == List(Available(m))
    <3>2. c.body = Nil BY DEF List
    <3>3. err[m] = Nil BY <1>f, <2>1, <2>6
    <3>4. err' = err /\ \A x \in Module : err[x] # Nil => status'[x] = "evaluated" /\ top'[x] # "ok"
      BY <1>5, <2>1, <3>1, <3>3 DEF Complete
    <3> HIDE DEF c
    <3>5. Len(ctx') = 1 /\ ctx'[1] = c BY <3>1 DEF c
    <3>6. \A i \in 1..Len(ctx') : i = 1 BY <3>5
    <3>7. \A i \in 1..Len(ctx') : \A x \in Module : err[x] # Nil => ctx'[i].body # err[x]
      BY <3>2, <3>5, <3>6
    <3> QED BY <1>n, <1>f, <2>2, <3>4, <3>7, SameFailures
  <2> QED BY <1>16, <2>4, <2>5, <2>6 DEF Callback
<1>17. CASE RunNext
  <2>1. ctx # <<>> /\ Cur.kind = "list" BY <1>17, RunNextForm
  <2>2. PICK d \in Activation, m \in Cur.avail :
          /\ ctx' = With(d) /\ d.body = (IF status[m] = "evaluated" THEN Nil ELSE m)
          /\ ran' = IF status[m] = "evaluated" THEN ran ELSE Append(ran, m)
    BY <1>17, RunNextForm
  <2>3. UNCHANGED <<done, exec, err, status, top>> BY <1>17 DEF RunNext, recVars, asyVars
  <2>4. CASE status[m] = "evaluated" BY <1>1, <2>1, <2>2, <2>3, <2>4
  <2>5. CASE status[m] # "evaluated"
    <3>1. m \in Module /\ m \notin Members(ran) BY <2>1, CurOnce DEF Unstarted, Idle
    <3>2. d.body = m /\ ran' = Append(ran, m) BY <2>2, <2>5
    <3> QED BY <1>2, <2>1, <2>2, <2>3, <3>1, <3>2
  <2> QED BY <2>4, <2>5
<1>18. ASSUME NEW m \in Module, Import(m) \/ Require(m) PROVE Failures'
  <2>1. Evaluate(m, ctx) /\ UNCHANGED <<done, exec, ran, err, status>>
    BY <1>18 DEF Import, Require, asyVars, hisVars
  <2>2. \A x \in Module : err[x] # Nil => top'[x] # "ok" BY <1>f, <2>1, EvaluateForm
  <2>3. \A i \in 1..Len(ctx') : \A x \in Module : err[x] # Nil => ctx'[i].body # err[x]
    <3>1. CASE ctx' = ctx BY <1>b, <3>1
    <3>2. CASE ctx' = Append(ctx, Walk(m))
      <4> DEFINE N == Len(ctx)
                 c == Walk(m)
      <4>1. /\ Len(ctx') = N + 1 /\ ctx'[N + 1] = c /\ N \in Nat
            /\ \A i \in 1..N : ctx'[i] = ctx[i]
        BY <3>2, WalkTyped, PushFacts
      <4>2. c.body = Nil BY DEF Walk
      <4> HIDE DEF N, c
      <4>3. \A i \in 1..N + 1 : i = N + 1 \/ i \in 1..N BY <4>1
      <4>4. \A i \in 1..N : \A x \in Module : err[x] # Nil => ctx[i].body # err[x] BY <1>b DEF N
      <4> QED BY <4>1, <4>2, <4>3, <4>4
    <3> QED BY <2>1, <3>1, <3>2, EvaluateForm
  <2> QED BY <1>n, <1>f, <2>1, <2>2, <2>3, SameFailures
<1>19. ASSUME NEW m \in Module, NEW p \in {"ok", "err"}, Settle(m, p) PROVE Failures'
  <2>1. /\ ctx' = ctx /\ exec[m] = "pending" /\ exec' = [exec EXCEPT ![m] = p]
        /\ done' = (IF p = "ok" THEN done \cup {m} ELSE done)
        /\ UNCHANGED <<status, err, top, ran>>
    BY <1>19 DEF Settle, recVars
  <2>2. \A x \in Module : err[x] # Nil => err[x] # m BY <1>f, <2>1
  <2>3. \A x \in Module : err[x] # Nil => err[x] \notin done' /\ exec'[err[x]] = exec[err[x]]
    BY <1>t, <1>f, <2>1, <2>2
  <2> QED BY <1>n, <1>f, <1>b, <2>1, <2>3, SameFailures
<1>20. CASE UNCHANGED vars
  <2>1. UNCHANGED <<status, err, top, ran, done, exec, ctx>>
    BY <1>20 DEF vars, recVars, asyVars, hisVars
  <2> QED BY <1>n, <1>f, <1>b, <2>1, SameFailures
<1> QED BY <1>6, <1>7, <1>8, <1>9, <1>10, <1>11, <1>12, <1>13, <1>14, <1>15, <1>16, <1>17, <1>18,
           <1>19, <1>20 DEF Next, Run
-----------------------------------------------------------------------------
\* The invariant holds when the graph has been built.
LEMMA InitIInv == Init => IInv
<1> SUFFICES ASSUME Init PROVE IInv OBVIOUS
<1>1. Types
  <2>1. /\ graph.req \in [Module -> Seq(Module)] /\ graph.tla \subseteq Module
    <3>1. PICK g \in Graph : graph = g BY DEF Init
    <3>2. g.req \in [Module -> Seq(Module)] /\ g.tla \in SUBSET Module BY GraphAssumption
    <3> QED BY <3>1, <3>2
  <2>2. ctx = <<>> /\ ctx \in Seq(Activation) BY DEF Init
  <2>3. /\ jobs \in Seq(Module) /\ ran \in Seq(Module)
        /\ parents \in [Module -> Seq(Module)]
    BY DEF Init
  <2>4. Plain BY <2>1, <2>3 DEF Init, Plain, Statuses, Promises
  <2> QED BY <2>2, <2>4, TypesArePlain
<1>2. Len(ctx) = 0 /\ \A i \in 1..Len(ctx) : FALSE
  <2>1. Len(ctx) = 0 BY DEF Init
  <2> QED BY <2>1
<1>3. Control BY <1>2 DEF Control
<1>4. Stacks BY <1>2 DEF Stacks, Init
<1>5. Paths BY <1>2 DEF Paths
<1>6. Links
  <2>1. \A m \in Module : parents[m] = <<>> /\ root[m] = m BY DEF Init
  <2> QED BY <1>1, <2>1, NeedsClosed, MembersEmpty DEF Links
<1>7. Members(ran) = {} BY MembersEmpty DEF Init
<1>8. Fresh BY <1>7 DEF Fresh, Init
<1>9. Once
  <2>1. BodyRunsOnce
    <3>1. Cardinality(Members(ran)) = 0 BY <1>7, FS_EmptySet
    <3> QED BY <3>1 DEF BodyRunsOnce, Init
  <2> QED BY <1>2, <1>7, <2>1 DEF Once
<1>10. Outcomes BY <1>2 DEF Outcomes, Init
<1>11. Failures BY DEF Failures, Init
<1> QED BY <1>1, <1>3, <1>4, <1>5, <1>6, <1>8, <1>9, <1>10, <1>11 DEF IInv

\* Every step preserves the invariant.
LEMMA NextIInv == IInv /\ [Next]_vars => IInv'
BY TypesPreserved, ControlPreserved, StacksPreserved, PathsPreserved, LinksPreserved,
   FreshPreserved, OncePreserved, OutcomesPreserved, FailuresPreserved DEF IInv

\* The inductive invariant of the module graph: the shape of the activations,
\* Tarjan's stacks and paths, the registrations, and the state of every body
\* (module_evaluate_dfs and what calls it).
THEOREM GraphInvariant == Spec => []IInv
BY InitIInv, NextIInv, PTL DEF Spec

\* The Module Records keep their types: in particular pending_dependencies
\* never drops below zero, whatever a completion subtracts.
THEOREM GraphTypeCorrect == Spec => []TypeOK
<1>1. IInv => TypeOK BY DEF IInv, Types
<1> QED BY <1>1, GraphInvariant, PTL

\* No module body runs twice, however imports, re-entrant require() calls,
\* awaits and completion jobs interleave.
THEOREM BodiesRunOnce == Spec => []BodyRunsOnce
<1>1. IInv => BodyRunsOnce BY DEF IInv, Once
<1> QED BY <1>1, GraphInvariant, PTL

\* The error a module fails with was thrown by the body of a module it needs,
\* which never completes, and the promise of a failed module is never
\* fulfilled.
THEOREM FailuresComeFromDependencies == Spec => []FailureFromDependency
<1>1. IInv => FailureFromDependency
  <2> SUFFICES ASSUME IInv, NEW m \in Module, err[m] # Nil
               PROVE  err[m] \in Needs(m) \ done /\ top[m] # "ok"
    BY DEF FailureFromDependency
  <2>1. <<m, err[m]>> \in Needing /\ err[m] \notin done /\ top[m] # "ok" BY DEF IInv, Failures
  <2> QED BY <2>1 DEF Needing
<1> QED BY <1>1, GraphInvariant, PTL
=============================================================================
