-------------------------- MODULE ModuleCycleProofs --------------------------
(***************************************************************************)
(* Proofs about ModuleGraph for the behaviours in which modules are        *)
(* evaluated by imports only: the walk is complete.  What a module has     *)
(* asked for is popped or still on the stack, where the module's ancestor  *)
(* index covers it; a component that is popped takes with it everything it *)
(* needs; so the cycle roots tell the strongly connected components apart. *)
(*                                                                         *)
(* The invariant speaks of the set T of modules that were popped at the    *)
(* end of their component, as opposed to those that failed with their      *)
(* walk.  No variable records it; the proofs carry it along.               *)
(***************************************************************************)
EXTENDS ModuleImportProofs

Over == {"async", "evaluated"}

\* Popped modules stay so and with them what they ask for; the cycle root of
\* a module needs it; modules that need each other have the same cycle root.
\* A module that is over without having been popped has failed with its walk
\* (s is status, r the cycle root and e the error).
Sorted(T, s, r, e) ==
  /\ \A x \in T : s[x] \in Over /\ Requested(x) \subseteq T /\ r[x] \in T /\ r[r[x]] = r[x]
  /\ \A x \in Module : s[x] \in Over /\ x \notin T => r[x] = x /\ e[x] # Nil
  /\ \A x, y \in T : <<x, y>> \in Needing /\ <<y, x>> \in Needing => r[x] = r[y]
  /\ \A x \in Module : <<r[x], x>> \in Needing

\* The i-th request of x has been examined.
Seen(c, x, i) == \A k \in 1..Len(c.frames) : c.frames[k].m = x =>
  i < c.frames[k].next /\ (c.frames[k].waiting => i # c.frames[k].next - 1)

\* q is on the stack, in the cycle of x as far as x knows, and was entered
\* before every frame opened after x (d is the depth-first index and a the
\* ancestor index).
Behind(d, a, c, x, q) ==
  /\ q \in Members(c.stack) /\ a[x] <= d[q]
  /\ \A k \in 1..Len(c.frames) :
       c.frames[k].entered /\ d[x] < d[c.frames[k].m] => d[q] < d[c.frames[k].m]

\* A frame's module needs what was entered after it; what the last frame waits
\* for has been visited; and what has been examined is popped or behind.
Explored(T, s, d, a, c) ==
  /\ \A k \in 1..Len(c.frames) : ~c.frames[k].entered => c.frames[k].next = 1
  /\ \A k \in 1..Len(c.frames) : c.frames[k].entered => \A x \in Members(c.stack) :
       d[c.frames[k].m] <= d[x] => <<c.frames[k].m, x>> \in Needing
  /\ \A k \in 1..Len(c.frames) : k = Len(c.frames) /\ c.frames[k].waiting =>
       s[Asked(graph, c.frames[k])] # "linked"
  /\ \A x \in Members(c.stack) : \A i \in 1..Len(Req(x)) :
       Seen(c, x, i) => Req(x)[i] \in T \/ Behind(d, a, c, x, Req(x)[i])

\* T is the set of the modules popped with their component.
Settled(T) == /\ T \subseteq Module /\ Sorted(T, status, root, err)
              /\ \A i \in 1..Len(ctx) : Explored(T, status, dfs, anc, ctx[i])

CycleInv == ImportInv /\ (called = {} => \E T \in SUBSET Module : Settled(T))
-----------------------------------------------------------------------------
\* Without require() a module needs what it reaches by requests.
LEMMA NeedsAreReached ==
  ASSUME called = {}, NEW m
  PROVE  Reach(m) = Needs(m)
<1>1. \A x : Requested(x) \cup {y \in Module : <<x, y>> \in called} = Requested(x) OBVIOUS
<1> QED BY <1>1 DEF Reach, Needs, Closure

\* What is needed stands while the graph does.
LEMMA NeedingStands ==
  ASSUME called = {}, called' = {}, graph' = graph
  PROVE  /\ Needing' = Needing /\ \A m : Requested(m)' = Requested(m) /\ Req(m)' = Req(m)
         /\ \A m : Needs(m)' = Needs(m)
<1>1. \A m : Requested(m)' = Requested(m) /\ Req(m)' = Req(m) BY DEF Requested, Req
<1>2. \A m : Needs(m)' = Needs(m) BY DEF Needs, Closure, Requested, Req
<1> QED BY <1>1, <1>2 DEF Needing

\* A set that is closed under requests holds what its members need.
LEMMA ClosedHolds ==
  ASSUME called = {}, NEW T \in SUBSET Module, \A x \in T : Requested(x) \subseteq T,
         NEW x \in T, NEW y, <<x, y>> \in Needing
  PROVE  y \in T
<1> DEFINE Uses(z) == Requested(z) \cup {v \in Module : <<z, v>> \in called}
           Closed == {U \in SUBSET Module : {x} \subseteq U /\ \A z \in U : Uses(z) \subseteq U}
<1>1. Needs(x) = {z \in Module : \A U \in Closed : z \in U} BY DEF Needs, Closure
<1>2. T \in Closed OBVIOUS
<1> HIDE DEF Closed
<1> QED BY <1>1, <1>2 DEF Needing

\* The modules that are over without an error.
Clean(s, e) == {x \in Module : s[x] \in Over /\ e[x] = Nil}

\* What has been sorted stays so when no cycle root changes.
LEMMA SortedStays ==
  ASSUME NEW T \in SUBSET Module, Sorted(T, status, root, err), NEW s, NEW e,
         \A x \in Module : /\ status[x] \in Over => s[x] \in Over
                           /\ err[x] # Nil => e[x] # Nil
                           /\ status[x] \notin Over /\ s[x] \in Over => root[x] = x /\ e[x] # Nil
  PROVE  Sorted(T, s, root, e) /\ T \cup Clean(s, e) = T
<1>1. \A x \in T : s[x] \in Over BY DEF Sorted
<1>2. ASSUME NEW x \in Module, s[x] \in Over, x \notin T PROVE root[x] = x /\ e[x] # Nil
  BY <1>2 DEF Sorted
<1>3. Sorted(T, s, root, e) BY <1>1, <1>2 DEF Sorted
<1> QED BY <1>2, <1>3 DEF Clean

\* The invariant in the next state.
LEMMA SettledNext ==
  ASSUME called = {}, called' = {}, graph' = graph, NEW T \in SUBSET Module,
         Sorted(T, status', root', err'),
         \A i \in 1..Len(ctx') : Explored(T, status', dfs', anc', ctx'[i])
  PROVE  Settled(T)'
<1>1. /\ Needing' = Needing /\ \A m : Requested(m)' = Requested(m) /\ Req(m)' = Req(m)
  BY NeedingStands
<1>2. Sorted(T, status, root, err)' BY <1>1 DEF Sorted
<1>3. \A i \in 1..Len(ctx') : Explored(T, status, dfs, anc, ctx[i])' BY <1>1 DEF Explored
<1> QED BY <1>2, <1>3 DEF Settled

\* An activation without frames and stack has nothing to explore.
LEMMA ExploredNone ==
  ASSUME NEW T, NEW s, NEW d, NEW a, NEW c, c.frames = <<>>, c.stack = <<>>
  PROVE  Explored(T, s, d, a, c)
BY MembersEmpty DEF Explored

\* Only the requests of the frames matter.
LEMMA ExploredStays ==
  ASSUME NEW T, NEW c, NEW d, Explored(T, status, dfs, anc, c), d.stack = c.stack,
         Len(d.frames) = Len(c.frames),
         \A k \in 1..Len(c.frames) : /\ d.frames[k].m = c.frames[k].m
                                     /\ d.frames[k].next = c.frames[k].next
                                     /\ d.frames[k].entered = c.frames[k].entered
                                     /\ d.frames[k].waiting = c.frames[k].waiting
  PROVE  Explored(T, status, dfs, anc, d)
<1>1. \A x, i : Seen(d, x, i) <=> Seen(c, x, i) BY DEF Seen
<1>2. \A x, q : Behind(dfs, anc, d, x, q) <=> Behind(dfs, anc, c, x, q) BY DEF Behind
<1>3. \A k \in 1..Len(c.frames) : Asked(graph, d.frames[k]) = Asked(graph, c.frames[k]) BY DEF Asked
<1> QED BY <1>1, <1>2, <1>3 DEF Explored

-----------------------------------------------------------------------------
\* Entering a module, which becomes the top of the stack.
Entering(c, d, f, g, n) ==
  /\ c.frames # <<>> /\ f = c.frames[n] /\ ~f.entered /\ ~f.waiting /\ ~f.finish
  /\ g.entered /\ ~g.waiting /\ g.m = f.m /\ g.next = f.next /\ ~g.finish
  /\ Len(d.frames) = n /\ d.frames[n] = g /\ \A k \in 1..n - 1 : d.frames[k] = c.frames[k]
  /\ n \in 1..n /\ f.m \in Module /\ status[f.m] = "linked" /\ f.m \notin Members(c.stack)
  /\ Members(d.stack) = Members(c.stack) \cup {f.m}
  /\ c.index \in Nat /\ dfs'[f.m] = c.index /\ anc'[f.m] = c.index
  /\ status'[f.m] = "evaluating"
  /\ \A x \in Module : x # f.m => dfs'[x] = dfs[x] /\ anc'[x] = anc[x] /\ status'[x] = status[x]

\* What an EnterStep does to the frames, the stack and the records.
LEMMA EnterFacts ==
  ASSUME IInv, Len(ctx) = 1, NEW c, c = ctx[1], NEW d,
         NEW f \in FrameType, NEW g \in FrameType, EnterStep(c, d, f, g)
  PROVE  Entering(c, d, f, g, Len(c.frames))
<1> DEFINE n == Len(c.frames)
<1> SUFFICES Entering(c, d, f, g, n) OBVIOUS
<1>1. /\ c.frames # <<>> /\ f = c.frames[n] /\ ~f.entered /\ g.entered /\ g.m = f.m
      /\ g.next = f.next /\ g.waiting = f.waiting /\ g.finish = f.finish
      /\ Len(d.frames) = n /\ d.frames[n] = g /\ \A k \in 1..n - 1 : d.frames[k] = c.frames[k]
      /\ d.stack = Append(c.stack, f.m)
  BY DEF EnterStep, Turned, FrameSet
<1>2. /\ n \in Nat \ {0} /\ \A x \in Module : status[x] = "evaluating" <=> x \in Members(c.stack)
      /\ \A k \in 1..n : c.frames[k].m \in Module
  BY <1>1, WalkFrames
<1>3. /\ c \in Activation /\ Stacked(status, dfs, c) /\ Shape(graph, c) BY SoleFacts
<1>4. n \in 1..n BY <1>2
<1>5. f.m \in Module /\ status[f.m] = "linked" BY <1>1, <1>2, <1>3, <1>4 DEF Stacked
<1>6. ~f.waiting /\ ~f.finish BY <1>1, <1>3, <1>4 DEF Shape, FrameOK
<1>7. Members(d.stack) = Members(c.stack) \cup {f.m}
  BY <1>1, <1>3, <1>5, MembersAppend DEF Activation
<1>8. /\ dfs'[f.m] = c.index /\ anc'[f.m] = c.index /\ status'[f.m] = "evaluating"
      /\ \A x \in Module : x # f.m => dfs'[x] = dfs[x] /\ anc'[x] = anc[x] /\ status'[x] = status[x]
  <2>1. /\ dfs \in [Module -> Nat] /\ anc \in [Module -> Nat] /\ status \in [Module -> Statuses]
    BY DEF IInv, Types, TypeOK
  <2> QED BY <1>5, <2>1 DEF EnterStep
<1>9. c.index \in Nat BY <1>3 DEF Activation
<1>10. f.m \notin Members(c.stack) BY <1>2, <1>5
<1> HIDE DEF n
<1> QED BY <1>1, <1>4, <1>5, <1>6, <1>7, <1>8, <1>9, <1>10 DEF Entering

\* The module entered is needed by those of the frames, and nothing above it
\* has been opened.
LEMMA EnterExplored ==
  ASSUME IInv, Len(ctx) = 1, NEW c, c = ctx[1], NEW d, NEW T, Explored(T, status, dfs, anc, c),
         NEW f \in FrameType, NEW g \in FrameType, EnterStep(c, d, f, g)
  PROVE  Explored(T, status', dfs', anc', d)
<1> DEFINE n == Len(c.frames)
<1>0. n = Len(c.frames) OBVIOUS
<1>a. Entering(c, d, f, g, n) BY EnterFacts
<1> HIDE DEF n
<1>1. /\ c.frames # <<>> /\ f = c.frames[n] /\ ~f.entered /\ ~g.waiting
      /\ g.entered /\ g.m = f.m /\ g.next = f.next
      /\ Len(d.frames) = n /\ d.frames[n] = g /\ \A k \in 1..n - 1 : d.frames[k] = c.frames[k]
      /\ n \in 1..n /\ f.m \in Module /\ status[f.m] = "linked" /\ f.m \notin Members(c.stack)
      /\ Members(d.stack) = Members(c.stack) \cup {f.m}
      /\ c.index \in Nat /\ dfs'[f.m] = c.index /\ anc'[f.m] = c.index
      /\ \A x \in Module : x # f.m => dfs'[x] = dfs[x] /\ anc'[x] = anc[x] /\ status'[x] = status[x]
  BY <1>a DEF Entering
<1>e. c.frames # <<>> BY <1>1
<1>2. /\ n \in Nat \ {0} /\ Members(c.stack) \subseteq Module
      /\ \A x \in Module : dfs[x] \in Nat /\ anc[x] \in Nat
      /\ \A x \in Members(c.stack) : dfs[x] < c.index
      /\ \A k \in 1..n : c.frames[k].m \in Module
      /\ \A k \in 1..n : c.frames[k].entered => c.frames[k].m \in Members(c.stack)
      /\ \A k \in 1..n - 1 : k \in 1..n /\ k # n /\ c.frames[k].entered
  BY <1>0, <1>e, WalkFrames
<1>3. Reaching(Needing, dfs, anc, c) /\ Types BY SoleFacts DEF IInv
<1>4. \A k \in 1..n : k = n \/ k \in 1..n - 1 BY <1>2
<1>5. \A x \in Members(c.stack) : x # f.m /\ x \in Module /\ dfs'[x] = dfs[x] /\ anc'[x] = anc[x]
                                  /\ dfs[x] \in Nat /\ dfs'[x] < c.index
  BY <1>1, <1>2
<1>6. \A k \in 1..n - 1 : d.frames[k].m \in Members(c.stack) /\ d.frames[k] = c.frames[k]
  BY <1>1, <1>2
<1>7. ASSUME NEW k \in 1..n, NEW x \in Members(d.stack), dfs'[d.frames[k].m] <= dfs'[x]
      PROVE  <<d.frames[k].m, x>> \in Needing
  <2>1. CASE k = n
    <3>1. x = f.m
      <4> SUFFICES ASSUME x \in Members(c.stack) PROVE FALSE BY <1>1
      <4>1. dfs'[x] < c.index /\ dfs'[x] \in Nat BY <1>5
      <4> QED BY <1>1, <1>7, <2>1, <4>1
    <3> QED BY <1>1, <1>3, <2>1, <3>1, NeedsClosed
  <2>2. CASE k \in 1..n - 1 /\ x = f.m
    <3>1. n \in k..n BY <1>2, <2>2
    <3>2. <<c.frames[k].m, c.frames[n].m>> \in Needing BY <1>3, <3>1 DEF Reaching, n
    <3> QED BY <1>1, <1>6, <2>2, <3>2
  <2>3. CASE k \in 1..n - 1 /\ x \in Members(c.stack)
    <3>1. dfs[c.frames[k].m] <= dfs[x] BY <1>5, <1>6, <1>7, <2>3
    <3>2. c.frames[k].entered /\ k \in 1..n BY <1>2, <2>3
    <3> QED BY <1>6, <2>3, <3>1, <3>2 DEF Explored, n
  <2> QED BY <1>1, <1>4, <2>1, <2>2, <2>3
<1>8. ASSUME NEW x \in Members(d.stack), NEW i \in 1..Len(Req(x)), Seen(d, x, i)
      PROVE  Req(x)[i] \in T \/ Behind(dfs', anc', d, x, Req(x)[i])
  <2>1. x # f.m
    <3> SUFFICES ASSUME x = f.m PROVE FALSE OBVIOUS
    <3>1. f.next = 1 BY <1>1 DEF Explored, n
    <3>2. i < 1 BY <1>1, <1>8, <3>1 DEF Seen
    <3>3. Len(Req(x)) \in Nat BY <1>1, <1>3, RequestTyped
    <3> QED BY <3>2, <3>3
  <2>2. x \in Members(c.stack) BY <1>1, <2>1
  <2>3. Seen(c, x, i)
    <3>1. \A k \in 1..n : c.frames[k].m = x => d.frames[k] = c.frames[k] BY <1>1, <1>4, <2>1
    <3> QED BY <1>1, <1>8, <3>1 DEF Seen, n
  <2>4. CASE Req(x)[i] \in T BY <2>4
  <2>5. CASE Behind(dfs, anc, c, x, Req(x)[i])
    <3> DEFINE q == Req(x)[i]
    <3>1. /\ q \in Members(c.stack) /\ anc[x] <= dfs[q]
          /\ \A k \in 1..n : c.frames[k].entered /\ dfs[x] < dfs[c.frames[k].m] =>
               dfs[q] < dfs[c.frames[k].m]
      BY <2>5 DEF Behind, n
    <3> HIDE DEF q
    <3>2. q \in Members(d.stack) /\ anc'[x] <= dfs'[q] BY <1>1, <1>5, <2>2, <3>1
    <3>3. ASSUME NEW k \in 1..n, dfs'[x] < dfs'[d.frames[k].m]
          PROVE  dfs'[q] < dfs'[d.frames[k].m]
      <4>1. CASE k = n BY <1>1, <1>5, <3>1, <4>1
      <4>2. CASE k \in 1..n - 1
        <5>1. /\ d.frames[k] = c.frames[k] /\ c.frames[k].entered /\ c.frames[k].m \in Members(c.stack)
          BY <1>1, <1>2, <4>2
        <5> QED BY <1>5, <2>2, <3>1, <3>3, <5>1
      <4> QED BY <1>4, <4>1, <4>2
    <3> QED BY <1>1, <3>2, <3>3 DEF Behind, q
  <2> QED BY <2>2, <2>3, <2>4, <2>5 DEF Explored
<1>9. \A k \in 1..n : d.frames[k].entered BY <1>1, <1>2, <1>4, <1>6
<1> QED BY <1>1, <1>7, <1>8, <1>9 DEF Explored

\* Examining q, the module asked for last.
Examining(c, d, f, g, n, q) ==
  /\ c.frames # <<>> /\ f = c.frames[n] /\ f.entered /\ g.m = f.m /\ f.waiting
  /\ g.entered /\ g.next = f.next /\ ~g.waiting /\ ~f.finish /\ ~g.finish
  /\ Len(d.frames) = n /\ d.frames[n] = g /\ \A k \in 1..n - 1 : d.frames[k] = c.frames[k]
  /\ d.stack = c.stack /\ UNCHANGED <<dfs, status, active, root, done, ran>>
  /\ n \in 1..n /\ f.m \in Module /\ f.m \in Members(c.stack)
  /\ q \in Module /\ Awaited(q) \in Module /\ err[Awaited(q)] = Nil
  /\ \A x \in Module : anc'[x] <= anc[x] /\ anc'[x] \in Nat
  /\ status[q] = "evaluating" => anc'[f.m] <= anc[q]
  /\ \A k \in 1..n : c.frames[k].m = f.m => k = n

\* What an ExamineStep does to the frames, the stack and the records.
LEMMA ExamineFacts ==
  ASSUME IInv, Len(ctx) = 1, NEW c, c = ctx[1], NEW d,
         NEW f \in FrameType, NEW g \in FrameType, ExamineStep(c, d, f, g)
  PROVE  Examining(c, d, f, g, Len(c.frames), Asked(graph, f))
<1> DEFINE n == Len(c.frames)
           q == Asked(graph, f)
<1> SUFFICES Examining(c, d, f, g, n, q) OBVIOUS
<1>1. /\ c.frames # <<>> /\ f = c.frames[n] /\ f.entered /\ g.m = f.m /\ f.waiting
      /\ g.entered /\ g.next = f.next /\ ~g.waiting /\ g.finish = f.finish
      /\ Len(d.frames) = n /\ d.frames[n] = g /\ \A k \in 1..n - 1 : d.frames[k] = c.frames[k]
      /\ d.stack = c.stack /\ UNCHANGED <<dfs, status, active, root, done, ran>>
      /\ q \in Requested(f.m) /\ Awaited(q) \in Module /\ err[Awaited(q)] = Nil
      /\ anc' = [anc EXCEPT ![f.m] = LowLink(f.m, q)]
  BY DEF ExamineStep, Turned, FrameSet
<1>2. /\ n \in Nat \ {0} /\ \A x \in Module : dfs[x] \in Nat /\ anc[x] \in Nat
      /\ \A k \in 1..n : c.frames[k].m \in Module
      /\ \A k \in 1..n : c.frames[k].entered => c.frames[k].m \in Members(c.stack)
      /\ \A k \in 1..n : \A l \in 1..k - 1 : c.frames[k].entered =>
           dfs[c.frames[l].m] < dfs[c.frames[k].m]
  BY <1>1, WalkFrames
<1>3. n \in 1..n BY <1>2
<1>4. f.m \in Module /\ f.m \in Members(c.stack) BY <1>1, <1>2, <1>3
<1>5. q \in Module BY <1>1, <1>4, RequestTyped DEF IInv
<1>6. ~f.finish BY <1>1, <1>3, SoleFacts DEF Shape, FrameOK
<1>7. anc \in [Module -> Nat] BY DEF IInv, Types, TypeOK
<1>8. \A x \in Module : x # f.m => anc'[x] = anc[x] BY <1>1, <1>7
<1>9. anc'[f.m] = LowLink(f.m, q) BY <1>1, <1>4, <1>7
<1>10. anc[f.m] \in Nat /\ anc[q] \in Nat BY <1>2, <1>4, <1>5
<1>11. /\ anc'[f.m] <= anc[f.m] /\ anc'[f.m] \in Nat
       /\ status[q] = "evaluating" => anc'[f.m] <= anc[q]
  BY <1>9, <1>10 DEF LowLink
<1>12. \A x \in Module : anc'[x] <= anc[x] /\ anc'[x] \in Nat BY <1>2, <1>8, <1>11
<1>13. ASSUME NEW k \in 1..n, c.frames[k].m = f.m PROVE k = n
  <2> SUFFICES ASSUME k \in 1..n - 1 PROVE FALSE BY <1>2
  <2>1. dfs[f.m] < dfs[f.m] /\ dfs[f.m] \in Nat BY <1>1, <1>2, <1>3, <1>4, <1>13
  <2> QED BY <2>1
<1> HIDE DEF n, q
<1> QED BY <1>1, <1>3, <1>4, <1>5, <1>6, <1>11, <1>12, <1>13 DEF Examining

\* What was examined is popped, or on the stack and covered.
LEMMA ExamineExplored ==
  ASSUME IInv, Len(ctx) = 1, NEW c, c = ctx[1], NEW d, NEW T \in SUBSET Module,
         Sorted(T, status, root, err), Explored(T, status, dfs, anc, c),
         NEW f \in FrameType, NEW g \in FrameType, ExamineStep(c, d, f, g)
  PROVE  Explored(T, status', dfs', anc', d)
<1> DEFINE n == Len(c.frames)
           q == Asked(graph, f)
<1>0. n = Len(c.frames) /\ q = Asked(graph, f) OBVIOUS
<1>a. Examining(c, d, f, g, n, q) BY ExamineFacts
<1> HIDE DEF n, q
<1>1. /\ c.frames # <<>> /\ f = c.frames[n] /\ f.entered /\ g.m = f.m /\ f.waiting
      /\ g.entered /\ g.next = f.next /\ ~g.waiting
      /\ Len(d.frames) = n /\ d.frames[n] = g /\ \A k \in 1..n - 1 : d.frames[k] = c.frames[k]
      /\ d.stack = c.stack /\ UNCHANGED <<dfs, status, root>>
      /\ n \in 1..n /\ f.m \in Module /\ f.m \in Members(c.stack)
      /\ q \in Module /\ err[Awaited(q)] = Nil
      /\ \A x \in Module : anc'[x] <= anc[x] /\ anc'[x] \in Nat
      /\ status[q] = "evaluating" => anc'[f.m] <= anc[q]
      /\ \A k \in 1..n : c.frames[k].m = f.m => k = n
  BY <1>a DEF Examining
<1>e. c.frames # <<>> BY <1>1
<1>2. /\ n \in Nat \ {0} /\ Members(c.stack) \subseteq Module
      /\ \A x \in Module : dfs[x] \in Nat /\ anc[x] \in Nat
      /\ \A x \in Members(c.stack) : anc[x] <= dfs[x]
      /\ \A x \in Module : status[x] = "evaluating" <=> x \in Members(c.stack)
      /\ \A k \in 1..n : c.frames[k].m \in Module
      /\ \A k \in 1..n : \A l \in 1..k - 1 : c.frames[k].entered =>
           dfs[c.frames[l].m] < dfs[c.frames[k].m]
  BY <1>0, <1>e, WalkFrames
<1>3. q = Req(f.m)[f.next - 1] BY <1>0 DEF Asked, Req
<1>4. status[q] # "linked" BY <1>0, <1>1 DEF Explored
<1>5. status[q] \in Statuses BY <1>1 DEF IInv, Types, TypeOK
<1>6. \A k \in 1..n : k = n \/ k \in 1..n - 1 BY <1>2
<1>7. \A k \in 1..n : /\ d.frames[k].m = c.frames[k].m /\ d.frames[k].entered = c.frames[k].entered
                      /\ d.frames[k].next = c.frames[k].next
                      /\ k # n => d.frames[k] = c.frames[k]
  <2> SUFFICES ASSUME NEW k \in 1..n
               PROVE  /\ d.frames[k].m = c.frames[k].m /\ d.frames[k].entered = c.frames[k].entered
                      /\ d.frames[k].next = c.frames[k].next
                      /\ k # n => d.frames[k] = c.frames[k]
    OBVIOUS
  <2>1. f.entered = g.entered BY <1>1 DEF FrameType
  <2>2. CASE k = n BY <1>1, <2>1, <2>2
  <2>3. CASE k \in 1..n - 1 BY <1>1, <2>3
  <2> QED BY <1>6, <2>2, <2>3
<1>8. \A x, y : Behind(dfs, anc', d, x, y) <=>
        /\ y \in Members(c.stack) /\ anc'[x] <= dfs[y]
        /\ \A k \in 1..n : c.frames[k].entered /\ dfs[x] < dfs[c.frames[k].m] =>
             dfs[y] < dfs[c.frames[k].m]
  <2>1. Members(d.stack) = Members(c.stack) /\ Len(d.frames) = n BY <1>1
  <2> QED BY <1>7, <2>1 DEF Behind
<1>9. ASSUME NEW x \in Members(c.stack), NEW i \in 1..Len(Req(x)), Seen(d, x, i)
      PROVE  Req(x)[i] \in T \/ Behind(dfs, anc', d, x, Req(x)[i])
  <2>1. CASE Seen(c, x, i)
    <3>1. Req(x)[i] \in T \/ Behind(dfs, anc, c, x, Req(x)[i]) BY <2>1 DEF Explored
    <3>2. ASSUME Behind(dfs, anc, c, x, Req(x)[i]) PROVE Behind(dfs, anc', d, x, Req(x)[i])
      <4>1. /\ Req(x)[i] \in Members(c.stack) /\ anc[x] <= dfs[Req(x)[i]]
            /\ \A k \in 1..n : c.frames[k].entered /\ dfs[x] < dfs[c.frames[k].m] =>
                 dfs[Req(x)[i]] < dfs[c.frames[k].m]
        BY <3>2 DEF Behind, n
      <4>2. anc'[x] <= dfs[Req(x)[i]]
        <5>1. x \in Module /\ Req(x)[i] \in Module BY <1>2, <4>1
        <5>2. /\ anc'[x] <= anc[x] /\ anc'[x] \in Nat /\ anc[x] \in Nat
              /\ dfs[Req(x)[i]] \in Nat
          BY <1>1, <1>2, <5>1
        <5> QED BY <4>1, <5>2
      <4> QED BY <1>8, <4>1, <4>2
    <3> QED BY <3>1, <3>2
  <2>2. CASE ~Seen(c, x, i)
    <3>1. PICK k \in 1..n : c.frames[k].m = x /\ ~(i < c.frames[k].next
                              /\ (c.frames[k].waiting => i # c.frames[k].next - 1))
      BY <2>2 DEF Seen, n
    <3>2. k = n /\ x = f.m /\ i = f.next - 1
      <4>1. i < d.frames[k].next /\ (d.frames[k].waiting => i # d.frames[k].next - 1)
        BY <1>1, <1>7, <1>9, <3>1 DEF Seen
      <4>2. k = n BY <1>7, <3>1, <4>1
      <4> QED BY <1>1, <1>7, <3>1, <4>1, <4>2
    <3>3. Req(x)[i] = q BY <1>3, <3>2
    <3>4. CASE status[q] = "evaluating"
      <4>1. q \in Members(c.stack) BY <1>1, <1>2, <3>4
      <4>2. anc'[f.m] <= dfs[q]
        <5>1. /\ anc'[f.m] <= anc[q] /\ anc[q] <= dfs[q] BY <1>1, <1>2, <3>4, <4>1
        <5>2. anc'[f.m] \in Nat /\ anc[q] \in Nat /\ dfs[q] \in Nat BY <1>1, <1>2
        <5> QED BY <5>1, <5>2
      <4>3. ASSUME NEW l \in 1..n, dfs[x] < dfs[c.frames[l].m] PROVE FALSE
        <5>1. dfs[f.m] \in Nat /\ dfs[c.frames[l].m] \in Nat BY <1>1, <1>2
        <5>2. CASE l = n BY <1>1, <3>2, <4>3, <5>1, <5>2
        <5>3. CASE l \in 1..n - 1
          <6>1. dfs[c.frames[l].m] < dfs[f.m] BY <1>1, <1>2, <5>3
          <6> QED BY <3>2, <4>3, <5>1, <6>1
        <5> QED BY <1>6, <5>2, <5>3
      <4> QED BY <1>8, <3>2, <3>3, <4>1, <4>2, <4>3
    <3>5. CASE status[q] # "evaluating"
      <4>1. Awaited(q) = root[q] BY <3>5 DEF Awaited
      <4>2. status[q] \in Over BY <1>4, <1>5, <3>5 DEF Statuses, Over
      <4>3. q \in T BY <1>1, <4>1, <4>2 DEF Sorted
      <4> QED BY <3>3, <4>3
    <3> QED BY <3>4, <3>5
  <2> QED BY <2>1, <2>2
<1>10. ASSUME NEW k \in 1..n, d.frames[k].entered, NEW x \in Members(c.stack),
              dfs[d.frames[k].m] <= dfs[x]
       PROVE  <<d.frames[k].m, x>> \in Needing
  BY <1>7, <1>10 DEF Explored, n
<1>11. \A k \in 1..n : ~d.frames[k].entered => d.frames[k].next = 1 BY <1>7 DEF Explored, n
<1> QED BY <1>1, <1>9, <1>10, <1>11 DEF Explored

\* Asking for the next module, which is visited first if it is new.
Requesting(c, d, f, g, n, q) ==
  /\ c.frames # <<>> /\ f = c.frames[n] /\ f.entered /\ ~f.waiting /\ f.next \in Nat
  /\ g.m = f.m /\ g.entered /\ g.waiting /\ g.next = f.next + 1 /\ g.finish = f.finish
  /\ n \in 1..n /\ d.frames[n] = g /\ \A k \in 1..n - 1 : d.frames[k] = c.frames[k]
  /\ d.stack = c.stack /\ UNCHANGED <<status, dfs, anc, active, root, parents, done, ran>>
  /\ f.m \in Module /\ q \in Module /\ \A k \in 1..n : c.frames[k].m = f.m => k = n
  /\ \/ Len(d.frames) = n /\ status[q] # "linked"
     \/ /\ Len(d.frames) = n + 1 /\ status[q] = "linked" /\ q \notin Members(c.stack)
        /\ d.frames[n + 1].m = q /\ ~d.frames[n + 1].entered /\ ~d.frames[n + 1].waiting
        /\ d.frames[n + 1].next = 1 /\ ~d.frames[n + 1].finish

\* Frames of different modules.
LEMMA FramesDiffer ==
  ASSUME IInv, Len(ctx) = 1, NEW c, c = ctx[1], c.frames # <<>>,
         c.frames[Len(c.frames)].entered
  PROVE  \A k \in 1..Len(c.frames) : c.frames[k].m = c.frames[Len(c.frames)].m => k = Len(c.frames)
<1> DEFINE n == Len(c.frames)
<1>1. /\ n \in Nat \ {0} /\ \A x \in Module : dfs[x] \in Nat
      /\ \A k \in 1..n : c.frames[k].m \in Module
      /\ \A k \in 1..n : \A l \in 1..k - 1 : c.frames[k].entered =>
           dfs[c.frames[l].m] < dfs[c.frames[k].m]
  BY WalkFrames
<1>2. c.frames[n].entered OBVIOUS
<1> SUFFICES ASSUME NEW k \in 1..n, c.frames[k].m = c.frames[n].m PROVE k = n OBVIOUS
<1> HIDE DEF n
<1> SUFFICES ASSUME k \in 1..n - 1 PROVE FALSE BY <1>1
<1>3. n \in 1..n BY <1>1
<1>4. dfs[c.frames[k].m] < dfs[c.frames[n].m] BY <1>1, <1>2, <1>3
<1>5. dfs[c.frames[n].m] \in Nat BY <1>1, <1>3
<1> QED BY <1>4, <1>5

\* What a RequestStep does to the frames, the stack and the records.
LEMMA RequestFacts ==
  ASSUME IInv, Len(ctx) = 1, NEW c, c = ctx[1], NEW d,
         NEW f \in FrameType, NEW g \in FrameType, RequestStep(c, d, f, g)
  PROVE  Requesting(c, d, f, g, Len(c.frames), Asked(graph, g))
<1> DEFINE n == Len(c.frames)
           q == Asked(graph, g)
<1> SUFFICES Requesting(c, d, f, g, n, q) OBVIOUS
<1>1. /\ c.frames # <<>> /\ f = c.frames[n] /\ f.entered /\ ~f.waiting
      /\ g.m = f.m /\ g.entered /\ g.waiting /\ g.next = f.next + 1 /\ g.finish = f.finish
      /\ d.frames[n] = g /\ \A k \in 1..n - 1 : d.frames[k] = c.frames[k]
      /\ d.stack = c.stack /\ UNCHANGED <<status, dfs, anc, active, root, parents, done, ran>>
      /\ q \in Module
      /\ \/ Len(d.frames) = n /\ status[q] # "linked"
         \/ Len(d.frames) = n + 1 /\ status[q] = "linked" /\ d.frames[n + 1] = NewFrame(q)
  BY DEF RequestStep, FrameSet, recVars, dfsVars
<1>2. /\ n \in Nat \ {0} /\ \A k \in 1..n : c.frames[k].m \in Module
      /\ \A x \in Module : status[x] = "evaluating" <=> x \in Members(c.stack)
  BY <1>1, WalkFrames
<1>3. \A k \in 1..n : c.frames[k].m = f.m => k = n BY <1>1, FramesDiffer
<1>4. f.next \in Nat BY DEF FrameType
<1>5. /\ NewFrame(q).m = q /\ ~NewFrame(q).entered /\ ~NewFrame(q).waiting
      /\ NewFrame(q).next = 1 /\ ~NewFrame(q).finish
  BY DEF NewFrame
<1> HIDE DEF n, q
<1>6. n \in 1..n /\ f.m \in Module
  <2>1. n \in 1..n BY <1>2
  <2> QED BY <1>1, <1>2, <2>1
<1>7. status[q] = "linked" => q \notin Members(c.stack) BY <1>1, <1>2
<1> QED BY <1>1, <1>3, <1>4, <1>5, <1>6, <1>7 DEF Requesting

\* A module asked for has been visited or is visited first.
LEMMA RequestExplored ==
  ASSUME IInv, Len(ctx) = 1, NEW c, c = ctx[1], NEW d, NEW T, Explored(T, status, dfs, anc, c),
         NEW f \in FrameType, NEW g \in FrameType, RequestStep(c, d, f, g)
  PROVE  Explored(T, status', dfs', anc', d)
<1> DEFINE n == Len(c.frames)
           q == Asked(graph, g)
<1>0. n = Len(c.frames) /\ q = Asked(graph, g) OBVIOUS
<1>a. Requesting(c, d, f, g, n, q) BY RequestFacts
<1> HIDE DEF n, q
<1>1. /\ c.frames # <<>> /\ f = c.frames[n] /\ f.entered /\ ~f.waiting /\ f.next \in Nat
      /\ g.m = f.m /\ g.entered /\ g.next = f.next + 1
      /\ n \in 1..n /\ d.frames[n] = g /\ \A k \in 1..n - 1 : d.frames[k] = c.frames[k]
      /\ d.stack = c.stack /\ UNCHANGED <<status, dfs, anc>>
      /\ \A k \in 1..n : c.frames[k].m = f.m => k = n
  BY <1>a DEF Requesting
<1>2. \/ Len(d.frames) = n /\ status[q] # "linked"
      \/ /\ Len(d.frames) = n + 1 /\ status[q] = "linked" /\ q \notin Members(c.stack)
         /\ d.frames[n + 1].m = q /\ ~d.frames[n + 1].entered /\ ~d.frames[n + 1].waiting
         /\ d.frames[n + 1].next = 1
  BY <1>a DEF Requesting
<1>3. n \in Nat \ {0} BY <1>0, <1>1, WalkFrames
<1>4. \A k \in 1..n : k = n \/ k \in 1..n - 1 BY <1>3
<1>5. \A k \in 1..Len(d.frames) :
        k \in 1..n \/ (k = n + 1 /\ Len(d.frames) = n + 1 /\ k = Len(d.frames))
  <2>1. CASE Len(d.frames) = n BY <2>1
  <2>2. CASE Len(d.frames) = n + 1 BY <1>3, <2>2
  <2> QED BY <1>2, <2>1, <2>2
<1>6. \A k \in 1..n : d.frames[k].m = c.frames[k].m /\ d.frames[k].entered = c.frames[k].entered
                      /\ (k # n => d.frames[k] = c.frames[k])
  <2> SUFFICES ASSUME NEW k \in 1..n
               PROVE  /\ d.frames[k].m = c.frames[k].m /\ d.frames[k].entered = c.frames[k].entered
                      /\ k # n => d.frames[k] = c.frames[k]
    OBVIOUS
  <2>1. f.entered = g.entered BY <1>1 DEF FrameType
  <2>2. CASE k = n BY <1>1, <2>1, <2>2
  <2>3. CASE k \in 1..n - 1 BY <1>1, <2>3
  <2> QED BY <1>4, <2>2, <2>3
<1>7. \A k \in 1..n : k \in 1..Len(d.frames)
  <2>1. CASE Len(d.frames) = n BY <2>1
  <2>2. CASE Len(d.frames) = n + 1 BY <1>3, <2>2
  <2> QED BY <1>2, <2>1, <2>2
<1>8. ASSUME NEW x \in Members(c.stack), NEW i \in 1..Len(Req(x)), Seen(d, x, i)
      PROVE  Seen(c, x, i)
  <2> SUFFICES ASSUME NEW k \in 1..n, c.frames[k].m = x
               PROVE  i < c.frames[k].next /\ (c.frames[k].waiting => i # c.frames[k].next - 1)
    BY <1>0 DEF Seen
  <2>1. k \in 1..Len(d.frames) /\ d.frames[k].m = x BY <1>6, <1>7
  <2>2. i < d.frames[k].next /\ (d.frames[k].waiting => i # d.frames[k].next - 1)
    BY <1>8, <2>1 DEF Seen
  <2>3. CASE k # n BY <1>6, <2>2, <2>3
  <2>4. CASE k = n
    <3>1. i < f.next + 1 /\ i # f.next + 1 - 1 BY <1>a, <1>1, <2>2, <2>4 DEF Requesting
    <3>2. i < f.next BY <1>1, <3>1
    <3> QED BY <1>1, <2>4, <3>2
  <2> QED BY <2>3, <2>4
<1>9. ASSUME NEW x, NEW y, Behind(dfs, anc, c, x, y)
      PROVE  Behind(dfs, anc, d, x, y)
  <2>1. /\ y \in Members(d.stack) /\ anc[x] <= dfs[y]
        /\ \A k \in 1..n : c.frames[k].entered /\ dfs[x] < dfs[c.frames[k].m] =>
             dfs[y] < dfs[c.frames[k].m]
    BY <1>0, <1>1, <1>9 DEF Behind
  <2>2. ASSUME NEW k \in 1..Len(d.frames), d.frames[k].entered, dfs[x] < dfs[d.frames[k].m]
        PROVE  dfs[y] < dfs[d.frames[k].m]
    <3>1. k \in 1..n BY <1>2, <1>5, <2>2
    <3> QED BY <1>6, <2>1, <2>2, <3>1
  <2> QED BY <2>1, <2>2 DEF Behind
<1>10. \A x \in Members(d.stack) : \A i \in 1..Len(Req(x)) :
         Seen(d, x, i) => Req(x)[i] \in T \/ Behind(dfs, anc, d, x, Req(x)[i])
  BY <1>1, <1>8, <1>9 DEF Explored
<1>11. ASSUME NEW k \in 1..Len(d.frames), d.frames[k].entered, NEW x \in Members(d.stack),
              dfs[d.frames[k].m] <= dfs[x]
       PROVE  <<d.frames[k].m, x>> \in Needing
  <2>1. k \in 1..n BY <1>2, <1>5, <1>11
  <2> QED BY <1>0, <1>1, <1>6, <1>11, <2>1 DEF Explored
<1>12. ASSUME NEW k \in 1..Len(d.frames), ~d.frames[k].entered PROVE d.frames[k].next = 1
  <2>1. CASE k \in 1..n
    <3>1. ~c.frames[k].entered /\ k # n BY <1>1, <1>6, <1>12, <2>1
    <3> QED BY <1>0, <1>6, <2>1, <3>1 DEF Explored
  <2>2. CASE k = n + 1 /\ Len(d.frames) = n + 1 BY <1>2, <1>3, <2>2
  <2> QED BY <1>5, <2>1, <2>2
<1>13. ASSUME NEW k \in 1..Len(d.frames), k = Len(d.frames), d.frames[k].waiting
       PROVE  status[Asked(graph, d.frames[k])] # "linked"
  <2>1. Len(d.frames) = n BY <1>2, <1>13
  <2> QED BY <1>0, <1>1, <1>2, <1>3, <1>13, <2>1
<1> QED BY <1>1, <1>10, <1>11, <1>12, <1>13 DEF Explored
-----------------------------------------------------------------------------
\* Leaving a module, with its component S if it is the root of one.
Finishing(c, d, f, S, n) ==
  /\ c.frames # <<>> /\ f = c.frames[n] /\ f.entered /\ ~f.waiting /\ f.finish
  /\ n \in 1..n /\ Len(d.frames) = n - 1 /\ \A k \in 1..n - 1 : d.frames[k] = c.frames[k]
  /\ Members(d.stack) = Members(c.stack) \ S /\ f.m \in Members(c.stack) /\ f.m \in Module
  /\ S \subseteq Members(c.stack)
  /\ S = {} \/ (anc[f.m] = dfs[f.m] /\ S = {x \in Members(c.stack) : dfs[f.m] <= dfs[x]} /\ f.m \in S)
  /\ anc[f.m] = dfs[f.m] => f.m \in S
  /\ \A x \in S : status[x] = "evaluating" /\ err[x] = Nil
  /\ \A x \in S : status'[x] = (IF active[x] THEN "async" ELSE "evaluated") /\ root'[x] = f.m
  /\ \A x \in Module : x \notin S => status'[x] = status[x] /\ root'[x] = root[x]
  /\ UNCHANGED <<err, top, active, dfs, anc, pend, order, parents, exec, ran, done>>
  /\ f.next > Len(Req(f.m)) /\ \A k \in 1..n : c.frames[k].m = f.m => k = n
  /\ \A k \in 1..n - 1 : c.frames[k].m \notin S
  /\ \A x \in Members(c.stack) : dfs[f.m] <= dfs[x] => anc[f.m] <= anc[x]

\* What a FinishStep does to the frames, the stack and the records.
LEMMA FinishFacts ==
  ASSUME IInv, called = {}, LowLinks, Len(ctx) = 1, NEW c, c = ctx[1], NEW d,
         NEW f \in FrameType, NEW S \in SUBSET Module, FinishStep(c, d, f, S)
  PROVE  Finishing(c, d, f, S, Len(c.frames))
<1> DEFINE n == Len(c.frames)
<1> SUFFICES Finishing(c, d, f, S, n) OBVIOUS
<1>1. /\ c.frames # <<>> /\ f = c.frames[n] /\ f.entered /\ ~f.waiting /\ f.finish
      /\ Len(d.frames) = n - 1 /\ \A k \in 1..n - 1 : d.frames[k] = c.frames[k]
      /\ Members(d.stack) = Members(c.stack) \ S /\ f.m \in Members(c.stack)
      /\ S \subseteq Members(c.stack)
      /\ IF anc[f.m] = dfs[f.m] THEN S = {x \in Members(c.stack) : dfs[f.m] <= dfs[x]} ELSE S = {}
      /\ UNCHANGED <<err, top, active, dfs, anc, pend, order, parents, exec, ran, done>>
      /\ status' = [x \in Module |-> IF x \notin S THEN status[x]
                                     ELSE IF active[x] THEN "async" ELSE "evaluated"]
      /\ root' = [x \in Module |-> IF x \in S THEN f.m ELSE root[x]]
  BY DEF FinishStep
<1>2. /\ n \in Nat \ {0} /\ Members(c.stack) \subseteq Module
      /\ \A x \in Module : dfs[x] \in Nat /\ anc[x] \in Nat
      /\ \A x \in Module : status[x] = "evaluating" <=> x \in Members(c.stack)
      /\ \A x, y \in Members(c.stack) : dfs[x] = dfs[y] => x = y
      /\ \A k \in 1..n : c.frames[k].m \in Module
      /\ \A k \in 1..n : \A l \in 1..k - 1 : c.frames[k].entered =>
           dfs[c.frames[l].m] < dfs[c.frames[k].m]
  BY <1>1, WalkFrames
<1>3. \A k \in 1..n : c.frames[k].m = f.m => k = n BY <1>1, FramesDiffer
<1>4. Covered(graph, dfs, anc, c) BY DEF LowLinks
<1>5. Shape(graph, c) BY SoleFacts
<1> HIDE DEF n
<1>6. n \in 1..n /\ f.m \in Module BY <1>1, <1>2
<1>7. f.next > Len(Req(f.m)) BY <1>1, <1>5, <1>6 DEF Shape, FrameOK, Req, n
<1>8. anc[f.m] = dfs[f.m] => f.m \in S
  <2>1. dfs[f.m] <= dfs[f.m] BY <1>2, <1>6
  <2> QED BY <1>1, <2>1
<1>9. \A x \in S : x \in Module /\ status[x] = "evaluating" /\ err[x] = Nil
  BY <1>1, <1>2 DEF IInv, Failures
<1>10. /\ \A x \in S : status'[x] = (IF active[x] THEN "async" ELSE "evaluated") /\ root'[x] = f.m
       /\ \A x \in Module : x \notin S => status'[x] = status[x] /\ root'[x] = root[x]
  BY <1>1, <1>9
<1>11. ASSUME NEW k \in 1..n - 1 PROVE c.frames[k].m \notin S
  <2> SUFFICES ASSUME c.frames[k].m \in S PROVE FALSE OBVIOUS
  <2>1. dfs[f.m] <= dfs[c.frames[k].m] BY <1>1
  <2>2. dfs[c.frames[k].m] < dfs[f.m] BY <1>1, <1>2, <1>6
  <2>3. dfs[f.m] \in Nat /\ dfs[c.frames[k].m] \in Nat BY <1>2, <1>6
  <2> QED BY <2>1, <2>2, <2>3
<1>12. ASSUME NEW x \in Members(c.stack), dfs[f.m] <= dfs[x] PROVE anc[f.m] <= anc[x]
  <2>1. x \in Module BY <1>2
  <2>2. dfs[x] \in Nat /\ dfs[f.m] \in Nat /\ anc[f.m] \in Nat BY <1>2, <1>6, <2>1
  <2>3. CASE dfs[x] = dfs[f.m]
    <3>1. x = f.m BY <1>1, <1>2, <2>3
    <3> QED BY <2>2, <3>1
  <2>4. CASE dfs[x] > dfs[f.m]
    <3>1. \/ anc[c.frames[n].m] <= anc[x] \/ n < n \/ c.frames[n].waiting
      BY <1>1, <1>4, <1>6, <2>4 DEF Covered, n
    <3> QED BY <1>1, <1>2, <3>1
  <2> QED BY <1>12, <2>2, <2>3, <2>4
<1>13. S = {} \/ (anc[f.m] = dfs[f.m] /\ S = {x \in Members(c.stack) : dfs[f.m] <= dfs[x]} /\ f.m \in S)
  BY <1>1, <1>8
<1> QED BY <1>1, <1>3, <1>6, <1>7, <1>8, <1>9, <1>10, <1>11, <1>12, <1>13 DEF Finishing

\* A component is popped with all that it asks for and that is not popped yet.
LEMMA FinishSorted ==
  ASSUME IInv, called = {}, LowLinks, Len(ctx) = 1, NEW c, c = ctx[1], NEW d,
         NEW T \in SUBSET Module, Sorted(T, status, root, err), Explored(T, status, dfs, anc, c),
         NEW f \in FrameType, NEW S \in SUBSET Module, FinishStep(c, d, f, S)
  PROVE  Sorted(T \cup S, status', root', err') /\ T \cup Clean(status', err') = T \cup S
<1> DEFINE n == Len(c.frames)
<1>0. n = Len(c.frames) OBVIOUS
<1>a. Finishing(c, d, f, S, n) BY FinishFacts
<1> HIDE DEF n
<1>1. /\ f = c.frames[n] /\ f.entered /\ ~f.waiting /\ n \in 1..n
      /\ f.m \in Members(c.stack) /\ f.m \in Module /\ S \subseteq Members(c.stack)
      /\ S = {} \/ (anc[f.m] = dfs[f.m] /\ S = {x \in Members(c.stack) : dfs[f.m] <= dfs[x]} /\ f.m \in S)
      /\ \A x \in S : status[x] = "evaluating" /\ err[x] = Nil
      /\ \A x \in S : status'[x] = (IF active[x] THEN "async" ELSE "evaluated") /\ root'[x] = f.m
      /\ \A x \in Module : x \notin S => status'[x] = status[x] /\ root'[x] = root[x]
      /\ f.next > Len(Req(f.m)) /\ \A k \in 1..n : c.frames[k].m = f.m => k = n
      /\ \A k \in 1..n - 1 : c.frames[k].m \notin S
      /\ \A x \in Members(c.stack) : dfs[f.m] <= dfs[x] => anc[f.m] <= anc[x]
      /\ err' = err /\ c.frames # <<>>
  BY <1>a DEF Finishing
<1>e. c.frames # <<>> BY <1>1
<1>f. f = c.frames[n] /\ ~f.waiting /\ f.next > Len(Req(f.m)) BY <1>1
<1>g. S = {} \/ (anc[f.m] = dfs[f.m] /\ S = {x \in Members(c.stack) : dfs[f.m] <= dfs[x]} /\ f.m \in S)
  BY <1>1
<1>h. \A x \in S : root'[x] = f.m BY <1>1
<1>i. \A k \in 1..n - 1 : c.frames[k].m \notin S BY <1>1
<1>2. /\ n \in Nat \ {0} /\ Members(c.stack) \subseteq Module
      /\ \A x \in Module : dfs[x] \in Nat /\ anc[x] \in Nat
  BY <1>0, <1>e, WalkFrames
<1>3. \A x \in S : status'[x] \in Over BY <1>1 DEF Over
<1>4. \A x \in T : x \notin S /\ root[x] \in T /\ root[x] \in Module
  BY <1>1 DEF Sorted, Over
<1>5. ASSUME NEW x \in S PROVE Requested(x) \subseteq T \cup S
  <2>1. x \in Module /\ x \in Members(c.stack) BY <1>1, <1>2
  <2>2. ASSUME NEW i \in 1..Len(Req(x)) PROVE Req(x)[i] \in T \cup S
    <3>1. Len(Req(x)) \in Nat BY <2>1, RequestTyped DEF IInv
    <3>2. Seen(c, x, i)
      <4> SUFFICES ASSUME NEW k \in 1..n, c.frames[k].m = x
                   PROVE  i < c.frames[k].next /\ ~c.frames[k].waiting
        BY <1>0 DEF Seen
      <4>0. k = n \/ k \in 1..n - 1 BY <1>2
      <4>1. k = n BY <1>i, <4>0
      <4>2. f.next \in Nat BY DEF FrameType
      <4>3. x = f.m BY <1>f, <4>1
      <4> QED BY <1>f, <3>1, <4>1, <4>2, <4>3
    <3>3. CASE Behind(dfs, anc, c, x, Req(x)[i])
      <4>1. Req(x)[i] \in Members(c.stack) /\ anc[x] <= dfs[Req(x)[i]] BY <3>3 DEF Behind
      <4>2. anc[f.m] = dfs[f.m] /\ dfs[f.m] <= dfs[x] BY <1>g
      <4>3. anc[f.m] <= anc[x] BY <1>1, <2>1, <4>2
      <4>4. Req(x)[i] \in Module /\ dfs[Req(x)[i]] \in Nat /\ anc[x] \in Nat /\ anc[f.m] \in Nat
        BY <1>1, <1>2, <2>1, <4>1
      <4>5. dfs[f.m] <= dfs[Req(x)[i]] BY <4>1, <4>2, <4>3, <4>4
      <4>6. S = {y \in Members(c.stack) : dfs[f.m] <= dfs[y]} BY <1>g
      <4> QED BY <4>1, <4>5, <4>6
    <3> QED BY <2>1, <3>2, <3>3 DEF Explored
  <2> QED BY <2>2 DEF Requested
<1>6. \A x \in T \cup S : Requested(x) \subseteq T \cup S /\ status'[x] \in Over
  BY <1>1, <1>3, <1>4, <1>5 DEF Sorted
<1>7. \A x \in T \cup S : root'[x] \in T \cup S /\ root'[root'[x]] = root'[x]
  <2>1. ASSUME NEW x \in S PROVE root'[x] = f.m /\ f.m \in S BY <1>1
  <2>2. ASSUME NEW x \in T PROVE root'[x] = root[x] /\ root[x] \in T /\ root'[root[x]] = root[x]
    <3>1. root'[x] = root[x] /\ root[x] \in T /\ root[root[x]] = root[x] BY <1>1, <1>4 DEF Sorted
    <3>2. root'[root[x]] = root[root[x]] BY <1>1, <1>4, <3>1
    <3> QED BY <3>1, <3>2
  <2> QED BY <2>1, <2>2
<1>8. ASSUME NEW x \in Module, status'[x] \in Over, x \notin T \cup S
      PROVE  root'[x] = x /\ err'[x] # Nil
  <2>1. status'[x] = status[x] /\ root'[x] = root[x] /\ err'[x] = err[x] BY <1>1, <1>8
  <2> QED BY <1>8, <2>1 DEF Sorted
<1>9. ASSUME NEW x \in T \cup S, NEW y \in T \cup S, <<x, y>> \in Needing, <<y, x>> \in Needing
      PROVE  root'[x] = root'[y]
  <2>1. \A z \in T : Requested(z) \subseteq T BY DEF Sorted
  <2>2. x \in T <=> y \in T BY <1>9, <2>1, ClosedHolds
  <2>3. CASE x \in T /\ y \in T
    <3>1. root[x] = root[y] BY <1>9, <2>3 DEF Sorted
    <3> QED BY <1>1, <1>4, <2>3, <3>1
  <2>4. CASE x \in S /\ y \in S BY <1>h, <2>4
  <2> QED BY <1>9, <2>2, <2>3, <2>4
<1>10. ASSUME NEW x \in Module PROVE <<root'[x], x>> \in Needing
  <2>1. CASE x \in S
    <3>1. dfs[f.m] <= dfs[x] /\ x \in Members(c.stack) BY <1>1, <2>1
    <3>2. <<c.frames[n].m, x>> \in Needing BY <1>0, <1>1, <3>1 DEF Explored
    <3> QED BY <1>1, <2>1, <3>2
  <2>2. CASE x \notin S BY <1>1, <2>2 DEF Sorted
  <2> QED BY <2>1, <2>2
<1>11. Sorted(T \cup S, status', root', err') BY <1>6, <1>7, <1>8, <1>9, <1>10 DEF Sorted
<1>12. S \subseteq Clean(status', err') BY <1>1, <1>3 DEF Clean
<1>13. Clean(status', err') \subseteq T \cup S BY <1>8 DEF Clean
<1> QED BY <1>11, <1>12, <1>13

\* What stays on the stack has examined nothing of S, which is popped.
Unpopped(T, S, c, d) == \A x \in Members(d.stack) : \A i \in 1..Len(Req(x)) :
  Seen(d, x, i) => /\ Seen(c, x, i) /\ x \in Members(c.stack)
                   /\ (Req(x)[i] \in T \/ Req(x)[i] \notin S)

\* The walk goes on as explored as it was.
LEMMA FinishExplored ==
  ASSUME IInv, called = {}, LowLinks, Len(ctx) = 1, NEW c, c = ctx[1], NEW d,
         NEW T \in SUBSET Module, Sorted(T, status, root, err), Explored(T, status, dfs, anc, c),
         NEW f \in FrameType, NEW S \in SUBSET Module, FinishStep(c, d, f, S)
  PROVE  Explored(T \cup S, status', dfs', anc', d) /\ Unpopped(T, S, c, d)
<1> DEFINE n == Len(c.frames)
<1>0. n = Len(c.frames) OBVIOUS
<1>a. Finishing(c, d, f, S, n) BY FinishFacts
<1> HIDE DEF n
<1>1. /\ c.frames # <<>> /\ f = c.frames[n] /\ f.entered /\ ~f.waiting /\ n \in 1..n
      /\ Len(d.frames) = n - 1 /\ \A k \in 1..n - 1 : d.frames[k] = c.frames[k]
      /\ Members(d.stack) = Members(c.stack) \ S
      /\ f.m \in Members(c.stack) /\ f.m \in Module /\ S \subseteq Members(c.stack)
      /\ S = {} \/ (anc[f.m] = dfs[f.m] /\ S = {x \in Members(c.stack) : dfs[f.m] <= dfs[x]} /\ f.m \in S)
      /\ f.next > Len(Req(f.m)) /\ UNCHANGED <<dfs, anc>>
  BY <1>a DEF Finishing
<1>s. /\ \A x \in S : status'[x] = (IF active[x] THEN "async" ELSE "evaluated")
      /\ \A x \in Module : x \notin S => status'[x] = status[x]
  BY <1>a DEF Finishing
<1>e. c.frames # <<>> BY <1>1
<1>f. S = {} \/ S = {x \in Members(c.stack) : dfs[f.m] <= dfs[x]} BY <1>1
<1>g. Members(d.stack) = Members(c.stack) \ S BY <1>1
<1>h. n \in 1..n /\ c.frames[n].entered /\ c.frames[n].m = f.m BY <1>1
<1>2. /\ n \in Nat \ {0} /\ Members(c.stack) \subseteq Module
      /\ \A x \in Module : dfs[x] \in Nat /\ anc[x] \in Nat
      /\ \A x \in Module : status[x] = "evaluating" <=> x \in Members(c.stack)
      /\ \A k \in 1..n - 1 : k \in 1..n /\ k # n
  BY <1>0, <1>e, WalkFrames
<1>3. Covered(graph, dfs, anc, c) BY DEF LowLinks
<1>4. \A k \in 1..n : k = n \/ k \in 1..n - 1 BY <1>2
<1>5. ASSUME NEW x \in Members(d.stack), NEW i \in 1..Len(Req(x)), Seen(d, x, i)
      PROVE  Seen(c, x, i)
  <2>1. x \in Module BY <1>1, <1>2
  <2> SUFFICES ASSUME NEW k \in 1..n, c.frames[k].m = x
               PROVE  i < c.frames[k].next /\ (c.frames[k].waiting => i # c.frames[k].next - 1)
    BY <1>0 DEF Seen
  <2>2. CASE k = n
    <3>1. Len(Req(x)) \in Nat BY <2>1, RequestTyped DEF IInv
    <3>2. f.next \in Nat BY DEF FrameType
    <3> QED BY <1>1, <2>2, <3>1, <3>2
  <2>3. CASE k \in 1..n - 1 BY <1>1, <1>5, <2>3 DEF Seen
  <2> QED BY <1>4, <2>2, <2>3
<1>6. ASSUME NEW x \in Members(d.stack), NEW q, Behind(dfs, anc, c, x, q)
      PROVE  q \notin S /\ Behind(dfs, anc, d, x, q)
  <2>1. /\ q \in Members(c.stack) /\ anc[x] <= dfs[q] /\ x \in Members(c.stack)
        /\ \A k \in 1..n : c.frames[k].entered /\ dfs[x] < dfs[c.frames[k].m] =>
             dfs[q] < dfs[c.frames[k].m]
    BY <1>0, <1>1, <1>6 DEF Behind
  <2>2. dfs[x] \in Nat /\ dfs[q] \in Nat /\ dfs[f.m] \in Nat BY <1>1, <1>2, <2>1
  <2>3. q \notin S
    <3> SUFFICES ASSUME q \in S PROVE FALSE OBVIOUS
    <3>0. x \notin S BY <1>g
    <3>1. ~(dfs[f.m] <= dfs[x]) /\ dfs[f.m] <= dfs[q] BY <1>f, <2>1, <3>0
    <3>2. dfs[x] < dfs[f.m] BY <2>2, <3>1
    <3>3. dfs[q] < dfs[f.m] BY <1>h, <2>1, <3>2
    <3> QED BY <2>2, <3>1, <3>3
  <2>4. \A k \in 1..n - 1 : d.frames[k].entered /\ dfs[x] < dfs[d.frames[k].m] =>
          dfs[q] < dfs[d.frames[k].m]
    BY <1>1, <1>2, <2>1
  <2> QED BY <1>1, <2>1, <2>3, <2>4 DEF Behind
<1>7. ASSUME NEW x \in Members(d.stack), NEW i \in 1..Len(Req(x)), Seen(d, x, i)
      PROVE  /\ x \in Members(c.stack) /\ (Req(x)[i] \in T \/ Req(x)[i] \notin S)
             /\ (Req(x)[i] \in T \cup S \/ Behind(dfs, anc, d, x, Req(x)[i]))
  <2>1. x \in Members(c.stack) /\ Seen(c, x, i) BY <1>1, <1>5, <1>7
  <2>2. Req(x)[i] \in T \/ Behind(dfs, anc, c, x, Req(x)[i]) BY <2>1 DEF Explored
  <2> QED BY <1>6, <2>1, <2>2
<1>8. ASSUME NEW k \in 1..n - 1, d.frames[k].entered, NEW x \in Members(d.stack),
             dfs[d.frames[k].m] <= dfs[x]
      PROVE  <<d.frames[k].m, x>> \in Needing
  <2>1. d.frames[k] = c.frames[k] /\ x \in Members(c.stack) /\ k \in 1..n BY <1>1, <1>2
  <2> QED BY <1>0, <1>8, <2>1 DEF Explored
<1>9. ASSUME NEW k \in 1..n - 1, ~d.frames[k].entered PROVE d.frames[k].next = 1
  <2>1. d.frames[k] = c.frames[k] /\ k \in 1..n BY <1>1, <1>2
  <2> QED BY <1>0, <1>9, <2>1 DEF Explored
<1>10. ASSUME NEW k \in 1..n - 1, k = n - 1, d.frames[k].waiting
       PROVE  status'[Asked(graph, d.frames[k])] # "linked"
  <2>1. c.frames[k + 1].m = Asked(graph, c.frames[k]) BY <1>0, <1>3 DEF Covered
  <2>2. k + 1 = n BY <1>2, <1>10
  <2>3. Asked(graph, d.frames[k]) = f.m BY <1>1, <2>1, <2>2
  <2>4. status[f.m] = "evaluating" BY <1>1, <1>2
  <2>5. status'[f.m] # "linked" BY <1>1, <1>s, <2>4
  <2> QED BY <2>3, <2>5
<1>11. Explored(T \cup S, status', dfs', anc', d)
  <2>1. Len(d.frames) = n - 1 /\ UNCHANGED <<dfs, anc>> BY <1>1
  <2> QED BY <1>7, <1>8, <1>9, <1>10, <2>1 DEF Explored
<1>12. Unpopped(T, S, c, d) BY <1>5, <1>7 DEF Unpopped
<1> QED BY <1>11, <1>12
-----------------------------------------------------------------------------
\* A step that changes no cycle root and no frame keeps what is settled.
LEMMA SettledStays ==
  ASSUME called = {}, called' = {}, graph' = graph, NEW T \in SUBSET Module, Settled(T),
         UNCHANGED root, NEW U, U = T \cup Clean(status', err'),
         \A x \in Module : /\ status[x] \in Over => status'[x] \in Over
                           /\ err[x] # Nil => err'[x] # Nil
                           /\ status[x] \notin Over /\ status'[x] \in Over => root[x] = x /\ err'[x] # Nil,
         \A i \in 1..Len(ctx') : Explored(T, status', dfs', anc', ctx'[i])
  PROVE  Settled(U)' /\ U = T
<1>1. Sorted(T, status, root, err) BY DEF Settled
<1>2. Sorted(T, status', root, err') /\ T \cup Clean(status', err') = T BY <1>1, SortedStays
<1>3. Sorted(T, status', root', err') BY <1>2
<1>4. Settled(T)' BY <1>3, SettledNext
<1>5. U = T BY <1>2
<1> QED BY <1>4, <1>5

\* A failure ends modules with an error, and none of them had a cycle root.
LEMMA FailureStays ==
  ASSUME IInv, called = {}, Activity, NEW E, NEW e \in Module, SetError(E, e)
  PROVE  \A x \in Module :
           /\ status[x] \in Over => status'[x] \in Over
           /\ err[x] # Nil => err'[x] # Nil
           /\ status[x] \notin Over /\ status'[x] \in Over => root[x] = x /\ err'[x] # Nil
<1> SUFFICES ASSUME NEW x \in Module
             PROVE  /\ status[x] \in Over => status'[x] \in Over
                    /\ err[x] # Nil => err'[x] # Nil
                    /\ status[x] \notin Over /\ status'[x] \in Over => root[x] = x /\ err'[x] # Nil
  OBVIOUS
<1>1. /\ x \in E => status'[x] = "evaluated" /\ err'[x] = e
      /\ x \notin E => status'[x] = status[x] /\ err'[x] = err[x]
  BY RecordSteps DEF IInv
<1>2. e # Nil BY GraphAssumption
<1>3. root[x] # x => status[x] \in Over BY DEF Activity, Over
<1> QED BY <1>1, <1>2, <1>3 DEF Over

\* A completion ends a module that was over already.
LEMMA CompletionStays ==
  ASSUME IInv, NEW m \in Module, status[m] \in Over, Complete(m)
  PROVE  \A x \in Module :
           /\ status[x] \in Over => status'[x] \in Over
           /\ err[x] # Nil => err'[x] # Nil
           /\ status[x] \notin Over /\ status'[x] \in Over => root[x] = x /\ err'[x] # Nil
<1> SUFFICES ASSUME NEW x \in Module
             PROVE  /\ status[x] \in Over => status'[x] \in Over
                    /\ err[x] # Nil => err'[x] # Nil
                    /\ status[x] \notin Over /\ status'[x] \in Over => root[x] = x /\ err'[x] # Nil
  OBVIOUS
<1>1. /\ x = m => status'[x] = "evaluated"
      /\ x # m => status'[x] = status[x]
      /\ err'[x] = err[x]
  BY RecordSteps DEF IInv
<1> QED BY <1>1 DEF Over

\* The steps of the job queue and of imports keep what is settled.
LEMMA IdleSettled ==
  ASSUME ImportInv, called = {}, called' = {}, graph' = graph, ctx = <<>>, Idling,
         NEW T \in SUBSET Module, Settled(T), NEW U, U = T \cup Clean(status', err')
  PROVE  Settled(U)' /\ U = T
<1>1. IInv /\ Activity /\ Types /\ Outcomes /\ Stacks /\ Fresh BY DEF ImportInv, IInv
<1>2. CASE RestStep
  <2>1. UNCHANGED <<status, err, root>> /\ ctx' = <<>> BY <1>2 DEF RestStep, dfsVars
  <2> QED BY <2>1, SettledStays
<1>3. ASSUME NEW m \in Module, FulfilStep(m) PROVE Settled(U)' /\ U = T
  <2>1. /\ exec[m] = "ok" /\ status[m] # "evaluated" /\ Complete(m) /\ ctx' = <<List(Available(m))>>
        /\ UNCHANGED <<dfs, anc, root>>
    BY <1>3 DEF FulfilStep, dfsVars
  <2>2. status[m] \in Over
    <3>1. status[m] \in Statuses BY <1>1 DEF Types, TypeOK
    <3>2. status[m] # "evaluating" BY <1>1 DEF Stacks
    <3>3. m \in Members(ran) BY <1>1, <2>1 DEF Outcomes
    <3>4. status[m] # "linked" BY <1>1, <3>3 DEF Fresh
    <3> QED BY <3>1, <3>2, <3>4 DEF Statuses, Over
  <2>3. List(Available(m)).frames = <<>> /\ List(Available(m)).stack = <<>> BY DEF List
  <2>4. Explored(T, status', dfs', anc', List(Available(m))) BY <2>3, ExploredNone
  <2>5. Len(ctx') = 1 /\ ctx'[1] = List(Available(m)) BY <2>1
  <2>6. \A i \in 1..Len(ctx') : Explored(T, status', dfs', anc', ctx'[i]) BY <2>4, <2>5
  <2> QED BY <1>1, <2>1, <2>2, <2>6, CompletionStays, SettledStays
<1>4. ASSUME NEW m \in Module, RejectStep(m) PROVE Settled(U)' /\ U = T
  <2>1. ctx' = <<>> /\ SetError(Ancestors(m), m) /\ root' = root BY <1>4 DEF RejectStep, dfsVars
  <2>2. \A i \in 1..Len(ctx') : FALSE BY <2>1
  <2> QED BY <1>1, <2>1, <2>2, FailureStays, SettledStays
<1>5. ASSUME NEW m \in Module, WalkStep(m) PROVE Settled(U)' /\ U = T
  <2>1. ctx' = <<Walk(m)>> /\ UNCHANGED <<status, err, dfs, anc, root>> BY <1>5 DEF WalkStep, dfsVars
  <2>2. /\ Len(Walk(m).frames) = 1 /\ Walk(m).frames[1] = NewFrame(m) /\ Walk(m).stack = <<>>
        /\ ~NewFrame(m).entered /\ NewFrame(m).next = 1 /\ ~NewFrame(m).waiting
    BY WalkTyped DEF NewFrame, Walk
  <2>3. Explored(T, status', dfs', anc', Walk(m)) BY <2>2, MembersEmpty DEF Explored
  <2>4. Len(ctx') = 1 /\ ctx'[1] = Walk(m) BY <2>1
  <2>5. \A i \in 1..Len(ctx') : Explored(T, status', dfs', anc', ctx'[i]) BY <2>3, <2>4
  <2> QED BY <2>1, <2>5, SettledStays
<1> QED BY <1>2, <1>3, <1>4, <1>5 DEF Idling

\* The steps that end an activation keep what is settled.
LEMMA EndSettled ==
  ASSUME ImportInv, called = {}, called' = {}, graph' = graph, Ends,
         NEW T \in SUBSET Module, Settled(T), NEW U, U = T \cup Clean(status', err')
  PROVE  Settled(U)' /\ U = T
<1>1. IInv /\ Activity BY DEF ImportInv
<1> DEFINE c == ctx[1]
<1>2. Working(c) BY DEF Ends
<1> HIDE DEF c
<1>3. ASSUME NEW e \in Module, FailStep(c, e) PROVE Settled(U)' /\ U = T
  <2>1. ctx' = <<>> /\ SetError(Members(c.stack), e) /\ root' = root BY <1>3 DEF FailStep
  <2>2. \A i \in 1..Len(ctx') : FALSE BY <2>1
  <2> QED BY <1>1, <2>1, <2>2, FailureStays, SettledStays
<1>4. CASE EndWalkStep(c) \/ EndListStep(c)
  <2>1. ctx' = <<>> /\ UNCHANGED <<status, err, root>>
    BY <1>4 DEF EndWalkStep, EndListStep, recVars, dfsVars
  <2>2. \A i \in 1..Len(ctx') : FALSE BY <2>1
  <2> QED BY <2>1, <2>2, SettledStays
<1> QED BY <1>2, <1>3, <1>4 DEF Working

\* A walk's steps keep what is settled, its component added when it is popped.
LEMMA WalkSettled ==
  ASSUME ImportInv, called = {}, called' = {}, graph' = graph, Len(ctx) = 1, Len(ctx') = 1,
         NEW c, c = ctx[1], NEW d, d = ctx'[1],
         NEW T \in SUBSET Module, Settled(T), NEW U, U = T \cup Clean(status', err'),
         NEW f \in FrameType,
         \/ \E g \in FrameType : \/ EnterStep(c, d, f, g) \/ ExamineStep(c, d, f, g)
                                 \/ RequestStep(c, d, f, g) \/ ExecuteStep(c, d, f, g)
         \/ \E S \in SUBSET Module : FinishStep(c, d, f, S)
  PROVE  Settled(U)'
<1>1. IInv /\ LowLinks /\ Sorted(T, status, root, err) /\ Explored(T, status, dfs, anc, c)
  BY DEF ImportInv, Settled
<1>2. ASSUME NEW V, Explored(V, status', dfs', anc', d)
      PROVE  \A i \in 1..Len(ctx') : Explored(V, status', dfs', anc', ctx'[i])
  BY <1>2
<1>3. ASSUME Explored(T, status', dfs', anc', d), UNCHANGED <<status, err, root>>
      PROVE  Settled(U)'
  <2>1. \A i \in 1..Len(ctx') : Explored(T, status', dfs', anc', ctx'[i]) BY <1>2, <1>3
  <2> QED BY <1>3, <2>1, SettledStays
<1>4. ASSUME NEW g \in FrameType, EnterStep(c, d, f, g) PROVE Settled(U)'
  <2>1. Explored(T, status', dfs', anc', d) BY <1>1, <1>4, EnterExplored
  <2>2. Entering(c, d, f, g, Len(c.frames)) BY <1>1, <1>4, EnterFacts
  <2>3. /\ status[f.m] = "linked" /\ status'[f.m] = "evaluating"
        /\ \A x \in Module : x # f.m => status'[x] = status[x]
    BY <2>2 DEF Entering
  <2>4. UNCHANGED <<err, root>> BY <1>4 DEF EnterStep
  <2>5. \A x \in Module : /\ status[x] \in Over => status'[x] \in Over
                          /\ status[x] \notin Over => status'[x] \notin Over
    BY <2>3 DEF Over
  <2>6. \A i \in 1..Len(ctx') : Explored(T, status', dfs', anc', ctx'[i]) BY <1>2, <2>1
  <2> QED BY <2>4, <2>5, <2>6, SettledStays
<1>5. ASSUME NEW g \in FrameType, ExamineStep(c, d, f, g) PROVE Settled(U)'
  <2>1. Explored(T, status', dfs', anc', d) BY <1>1, <1>5, ExamineExplored
  <2> QED BY <1>3, <1>5, <2>1 DEF ExamineStep
<1>6. ASSUME NEW g \in FrameType, RequestStep(c, d, f, g) PROVE Settled(U)'
  <2>1. Explored(T, status', dfs', anc', d) BY <1>1, <1>6, RequestExplored
  <2> QED BY <1>3, <1>6, <2>1 DEF RequestStep, recVars, dfsVars
<1>7. ASSUME NEW g \in FrameType, ExecuteStep(c, d, f, g) PROVE Settled(U)'
  <2> DEFINE n == Len(c.frames)
  <2>1. /\ c.frames # <<>> /\ f = c.frames[n] /\ g.m = f.m /\ g.next = f.next
        /\ f.entered /\ g.entered /\ ~f.waiting /\ ~g.waiting /\ d.stack = c.stack
        /\ Len(d.frames) = n /\ d.frames[n] = g /\ \A k \in 1..n - 1 : d.frames[k] = c.frames[k]
        /\ UNCHANGED <<status, err, dfs, anc, root>>
    BY <1>7 DEF ExecuteStep, Turned, FrameSet, dfsVars
  <2>2. n \in Nat \ {0} BY <1>1, <2>1, WalkFrames
  <2>3. g.entered = f.entered /\ g.waiting = f.waiting BY <2>1 DEF FrameType
  <2>4. \A k \in 1..n : k = n \/ k \in 1..n - 1 BY <2>2
  <2>5. \A k \in 1..n : /\ d.frames[k].m = c.frames[k].m
                        /\ d.frames[k].next = c.frames[k].next
                        /\ d.frames[k].entered = c.frames[k].entered
                        /\ d.frames[k].waiting = c.frames[k].waiting
    BY <2>1, <2>3, <2>4
  <2>6. Explored(T, status, dfs, anc, d) BY <1>1, <2>1, <2>5, ExploredStays
  <2> QED BY <1>3, <2>1, <2>6
<1>8. ASSUME NEW S \in SUBSET Module, FinishStep(c, d, f, S) PROVE Settled(U)'
  <2>1. Sorted(T \cup S, status', root', err') /\ U = T \cup S BY <1>1, <1>8, FinishSorted
  <2>2. Explored(T \cup S, status', dfs', anc', d) BY <1>1, <1>8, FinishExplored
  <2>3. U \in SUBSET Module BY <2>1
  <2>4. \A i \in 1..Len(ctx') : Explored(U, status', dfs', anc', ctx'[i]) BY <1>2, <2>1, <2>2
  <2> QED BY <2>1, <2>3, <2>4, SettledNext
<1> QED BY <1>4, <1>5, <1>6, <1>7, <1>8

\* A body's steps and a completion's list keep what is settled.
LEMMA BodySettled ==
  ASSUME ImportInv, called = {}, called' = {}, graph' = graph, Len(ctx) = 1, Len(ctx') = 1,
         NEW c, c = ctx[1], NEW d, d = ctx'[1],
         NEW T \in SUBSET Module, Settled(T), NEW U, U = T \cup Clean(status', err'),
         \/ ReturnStep(c, d) \/ ThrowStep(c, d) \/ AwaitStep(c, d)
         \/ \E m \in Module : RunStep(c, d, m)
  PROVE  Settled(U)' /\ U = T
<1>1. IInv /\ Activity /\ Explored(T, status, dfs, anc, c) BY DEF ImportInv, Settled
<1>2. /\ Shape(graph, c) /\ Ongoing(ran, done, exec, status, err, c) BY <1>1, SoleFacts
<1>3. /\ d.frames = c.frames /\ d.stack = c.stack /\ UNCHANGED <<dfs, anc, root>>
  BY DEF ReturnStep, ThrowStep, AwaitStep, RunStep, Left, dfsVars
<1>4. ASSUME NEW s, c.kind = "list" PROVE Explored(T, s, dfs', anc', d)
  BY <1>2, <1>3, <1>4, ExploredNone DEF Shape
<1>5. CASE UNCHANGED <<status, err>>
  <2>1. Explored(T, status, dfs, anc, d) BY <1>1, <1>3, ExploredStays
  <2>2. \A i \in 1..Len(ctx') : Explored(T, status', dfs', anc', ctx'[i]) BY <1>3, <1>5, <2>1
  <2> QED BY <1>3, <1>5, <2>2, SettledStays
<1>6. CASE c.kind = "list" /\ ReturnStep(c, d)
  <2>1. Complete(c.body) /\ c.body \in Module BY <1>6 DEF ReturnStep, Left
  <2>2. status[c.body] \in Over BY <1>2, <1>6, <2>1, GraphAssumption DEF Ongoing, Over
  <2>3. \A i \in 1..Len(ctx') : Explored(T, status', dfs', anc', ctx'[i]) BY <1>4, <1>6
  <2> QED BY <1>1, <1>3, <2>1, <2>2, <2>3, CompletionStays, SettledStays
<1>7. CASE ThrowStep(c, d)
  <2>1. SetError(Ancestors(c.body), c.body) /\ c.body \in Module /\ c.kind = "list"
    BY <1>7 DEF ThrowStep, Left
  <2>2. \A i \in 1..Len(ctx') : Explored(T, status', dfs', anc', ctx'[i]) BY <1>4, <2>1
  <2> QED BY <1>1, <1>3, <2>1, <2>2, FailureStays, SettledStays
<1> QED BY <1>5, <1>6, <1>7 DEF ReturnStep, AwaitStep, RunStep, recVars

\* The modules popped stay settled, and a step adds those that are over now.
LEMMA StepSettled ==
  ASSUME ImportInv, [Next]_vars, called' = {}, NEW T \in SUBSET Module, Settled(T),
         NEW U, U = T \cup Clean(status', err')
  PROVE  Settled(U)'
<1>1. /\ called = {} /\ graph' = graph
      /\ UNCHANGED vars \/ (ctx = <<>> /\ Idling) \/ Replaces \/ Ends
  BY ImportSteps DEF ImportInv
<1>2. CASE UNCHANGED vars
  <2>1. UNCHANGED <<status, err, root, dfs, anc, ctx>> BY <1>2 DEF vars, recVars, dfsVars
  <2>2. \A i \in 1..Len(ctx') : Explored(T, status', dfs', anc', ctx'[i]) BY <2>1 DEF Settled
  <2> QED BY <1>1, <2>1, <2>2, SettledStays
<1>3. CASE ctx = <<>> /\ Idling BY <1>1, <1>3, IdleSettled
<1>4. CASE Ends BY <1>1, <1>4, EndSettled
<1>5. CASE Replaces
  <2> DEFINE c == ctx[1]
             d == ctx'[1]
  <2>1. Len(ctx) = 1 /\ Len(ctx') = 1 /\ Turning(c, d) BY <1>5 DEF Replaces
  <2>2. c = ctx[1] /\ d = ctx'[1] OBVIOUS
  <2> HIDE DEF c, d
  <2>3. ASSUME NEW f \in FrameType,
               \/ \E g \in FrameType : \/ EnterStep(c, d, f, g) \/ ExamineStep(c, d, f, g)
                                       \/ RequestStep(c, d, f, g) \/ ExecuteStep(c, d, f, g)
               \/ \E S \in SUBSET Module : FinishStep(c, d, f, S)
        PROVE  Settled(U)'
    BY <1>1, <2>1, <2>2, <2>3, WalkSettled
  <2>4. CASE \/ ReturnStep(c, d) \/ ThrowStep(c, d) \/ AwaitStep(c, d)
             \/ \E m \in Module : RunStep(c, d, m)
    BY <1>1, <2>1, <2>2, <2>4, BodySettled
  <2> QED BY <2>1, <2>3, <2>4 DEF Turning
<1> QED BY <1>1, <1>2, <1>3, <1>4, <1>5
-----------------------------------------------------------------------------
\* Nothing has been popped at first.
LEMMA InitSettled ==
  ASSUME Init
  PROVE  Settled({})
<1>1. called = {} /\ ctx = <<>> /\ \A m \in Module : status[m] = "linked" /\ root[m] = m BY DEF Init
<1>2. Types BY InitImportInv DEF ImportInv, IInv
<1>3. \A m \in Module : <<root[m], m>> \in Needing BY <1>1, <1>2, NeedsClosed
<1>4. Sorted({}, status, root, err) BY <1>1, <1>3 DEF Sorted, Over
<1> QED BY <1>1, <1>4 DEF Settled

\* Every step keeps the invariant.
LEMMA NextCycleInv == CycleInv /\ [Next]_vars => CycleInv'
<1> SUFFICES ASSUME CycleInv, [Next]_vars PROVE CycleInv' OBVIOUS
<1>1. ImportInv /\ ImportInv' BY NextImportInv DEF CycleInv
<1>2. ASSUME called' = {} PROVE \E T \in SUBSET Module : Settled(T)'
  <2>1. called = {} BY <1>1, <1>2, ImportSteps DEF ImportInv
  <2>2. PICK T \in SUBSET Module : Settled(T) BY <2>1 DEF CycleInv
  <2>3. PICK U : U = T \cup Clean(status', err') OBVIOUS
  <2>4. Settled(U)' BY <1>1, <1>2, <2>2, <2>3, StepSettled
  <2>5. U \in SUBSET Module BY <2>3 DEF Clean
  <2> QED BY <2>4, <2>5
<1> QED BY <1>1, <1>2 DEF CycleInv

\* Without require() a component is popped with all that it needs and is not
\* popped yet, and what is over without an error was popped (module_evaluate).
THEOREM CycleInvariant == Spec => []CycleInv
<1>1. Init => CycleInv BY InitImportInv, InitSettled DEF CycleInv
<1> QED BY <1>1, NextCycleInv, PTL DEF Spec

\* Modules share a cycle root exactly if they depend on each other, among
\* those that have been evaluated without error (cycle_root, set when
\* module_evaluate pops a component).
THEOREM CyclesAreFound == Spec => []CyclesFound
<1>1. CycleInv => CyclesFound
  <2> SUFFICES ASSUME CycleInv, called = {},
                      NEW m \in Module, NEW n \in Module,
                      {status[m], status[n]} \subseteq Over, err[m] = Nil, err[n] = Nil
               PROVE  root[m] = root[n] <=> m \in Reach(n) /\ n \in Reach(m)
    BY DEF CyclesFound, ImportsOnly, Over
  <2>1. PICK T \in SUBSET Module : Settled(T) BY DEF CycleInv
  <2>2. Sorted(T, status, root, err) BY <2>1 DEF Settled
  <2>3. Types /\ Links BY DEF CycleInv, ImportInv, IInv
  <2>4. m \in T /\ n \in T BY <2>2 DEF Sorted
  <2>5. m \in Reach(n) /\ n \in Reach(m) <=> <<n, m>> \in Needing /\ <<m, n>> \in Needing
    <3>1. Reach(m) = Needs(m) /\ Reach(n) = Needs(n) BY NeedsAreReached
    <3> QED BY <3>1 DEF Needing
  <2>6. ASSUME <<n, m>> \in Needing /\ <<m, n>> \in Needing PROVE root[m] = root[n]
    BY <2>2, <2>4, <2>6 DEF Sorted
  <2>7. ASSUME root[m] = root[n] PROVE <<n, m>> \in Needing /\ <<m, n>> \in Needing
    <3>1. <<m, root[m]>> \in Needing /\ <<n, root[n]>> \in Needing BY <2>3 DEF Links
    <3>2. <<root[m], m>> \in Needing /\ <<root[n], n>> \in Needing BY <2>2 DEF Sorted
    <3>3. root[m] \in Module /\ root[n] \in Module BY <2>3 DEF Types, TypeOK
    <3> QED BY <2>3, <2>7, <3>1, <3>2, <3>3, NeedsClosed
  <2> QED BY <2>5, <2>6, <2>7
<1> QED BY <1>1, CycleInvariant, PTL
=============================================================================
