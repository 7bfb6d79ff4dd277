-------------------------- MODULE ModuleImportProofs -------------------------
(***************************************************************************)
(* Proofs about ModuleGraph for the behaviours in which modules are        *)
(* evaluated by imports only (ImportsOnly): no body has called require(),  *)
(* so at most one activation is in progress.                               *)
(***************************************************************************)
EXTENDS ModuleGraphProofs

\* Without require() no activation is called by another.
Alone == called = {} => Len(ctx) <= 1

\* The promise of a walk's root may be pending although the root does not run
\* on, until the walk ends (s is status, a async_active).
Closing(s, a, c, m) == /\ c.kind = "dfs" /\ c.root = m
                       /\ c.frames = <<>> /\ a[m] => s[m] = "async"

\* A pending promise belongs to a module that runs on, or to the walk in
\* progress.
Settling == called = {} => \A m \in Module : top[m] = "pending" =>
  status[m] = "async" \/ \E i \in 1..Len(ctx) : Closing(status, active, ctx[i], m)

\* A module's cycle root is another one only when both have been popped; a
\* module runs on exactly while it is asynchronous, from the end of its visit;
\* and nothing waits for it before.
Activity == called = {} => \A m \in Module :
  /\ root[m] # m => {status[m], status[root[m]]} \subseteq {"async", "evaluated"}
  /\ active[m] => status[m] \in {"evaluating", "async"}
  /\ status[m] = "async" => active[m]
  /\ status[m] \in {"linked", "evaluating"} /\ ~active[m] => parents[m] = <<>>
  /\ \A p \in Members(parents[m]) : status[p] # "linked"

\* The module of a frame does not run on before its visit ends.
NotYetActive(a, c) == \A k \in 1..Len(c.frames) : ~c.frames[k].finish => ~a[c.frames[k].m]
Dormant == called = {} => \A i \in 1..Len(ctx) : NotYetActive(active, ctx[i])

\* What a frame of a walk asked for last.
Asked(g, f) == g.req[f.m][f.next - 1]

\* A frame covers the modules above it on the stack: its ancestor index is no
\* greater than theirs, unless it has still to hear of them from the next
\* frame or from the module that it asked for.
Covered(g, d, a, c) ==
  /\ \A k \in 1..Len(c.frames) - 1 : c.frames[k + 1].m = Asked(g, c.frames[k])
  /\ \A k \in 1..Len(c.frames) : c.frames[k].entered =>
       \A x \in Members(c.stack) : d[x] > d[c.frames[k].m] =>
         \/ a[c.frames[k].m] <= a[x]
         \/ k < Len(c.frames) /\ c.frames[k + 1].entered /\ d[c.frames[k + 1].m] <= d[x]
         \/ /\ k = Len(c.frames) /\ c.frames[k].waiting
            /\ Asked(g, c.frames[k]) \in Members(c.stack)
            /\ a[Asked(g, c.frames[k])] <= a[x]

\* Who waits for a module that is being evaluated is in its cycle.
Registered(s, d, a, par) ==
  \A x \in Module : s[x] = "evaluating" =>
    \A p \in Members(par[x]) : s[p] = "evaluating" /\ a[p] <= d[x]

LowLinks == called = {} =>
  /\ \A i \in 1..Len(ctx) : Covered(graph, dfs, anc, ctx[i])
  /\ Registered(status, dfs, anc, parents)

\* The modules whose completion is already accounted for: they are to run, or
\* run, from a completion's list and do not await.
Spent(g, c) == IF c.kind = "list" THEN (c.avail \cup {c.body}) \ g.tla ELSE {}
Debts == {d \in Module : active[d] /\ \A i \in 1..Len(ctx) : d \notin Spent(graph, ctx[i])}

\* The modules that have still to start, in a cycle that has not failed.
Waiting(r) == {p \in Module : /\ p \notin Members(r) /\ err[root[p]] = Nil
                              /\ status[p] \in {"evaluating", "async"}}

Counts == called = {} =>
  /\ \A p \in Waiting(ran) : pend[p] = Edges(Debts, p)
  /\ \A p \in Module : active[p] /\ p \notin Members(ran) =>
       pend[p] > 0 \/ \E i \in 1..Len(ctx) : p \in ctx[i].avail

ImportInv == /\ IInv /\ Alone /\ Settling /\ Activity /\ Dormant /\ LowLinks /\ Counts
-----------------------------------------------------------------------------
\* The steps of behaviours without require(), described by the one activation
\* c in progress, its successor d and, in a walk, its last frame f, which
\* becomes g.  What every step leaves alone (graph, called) is not repeated.
Turned(c, d, f, g) ==
  /\ c.kind = "dfs" /\ c.body = Nil /\ c.frames # <<>> /\ f = c.frames[Len(c.frames)]
  /\ d.kind = "dfs" /\ d.root = c.root /\ d.avail = c.avail /\ d.index >= c.index
  /\ g.m = f.m /\ FrameSet(c, d, g)

EnterStep(c, d, f, g) ==
  /\ Turned(c, d, f, g) /\ ~f.entered /\ g.entered
  /\ g.next = f.next /\ g.waiting = f.waiting /\ g.finish = f.finish
  /\ d.body = Nil /\ d.stack = Append(c.stack, f.m)
  /\ status' = [status EXCEPT ![f.m] = "evaluating"]
  /\ dfs' = [dfs EXCEPT ![f.m] = c.index] /\ anc' = [anc EXCEPT ![f.m] = c.index]
  /\ pend' = [pend EXCEPT ![f.m] = 0]
  /\ UNCHANGED <<err, top, active, root, order, parents, exec, ran, done>>

\* What m waits for when it has asked for q.
Awaited(q) == IF status[q] = "evaluating" THEN q ELSE root[q]

ExamineStep(c, d, f, g) ==
  LET q == Asked(graph, f) r == Awaited(q)
  IN  /\ Turned(c, d, f, g) /\ f.entered /\ f.waiting /\ g.entered /\ ~g.waiting
      /\ g.next = f.next /\ g.finish = f.finish
      /\ d.body = Nil /\ d.stack = c.stack
      /\ q \in Requested(f.m) /\ r \in Module /\ err[r] = Nil
      /\ anc' = [anc EXCEPT ![f.m] = LowLink(f.m, q)]
      /\ pend' = [pend EXCEPT ![f.m] = IF active[r] THEN @ + 1 ELSE @]
      /\ parents' = (IF active[r] THEN Register(r, f.m) ELSE parents)
      /\ UNCHANGED <<status, err, top, active, dfs, root, order, exec, ran, done>>

RequestStep(c, d, f, g) ==
  /\ c.kind = "dfs" /\ c.body = Nil /\ c.frames # <<>> /\ f = c.frames[Len(c.frames)]
  /\ d.kind = "dfs" /\ d.root = c.root /\ d.avail = c.avail /\ d.index >= c.index
  /\ f.entered /\ ~f.waiting /\ g.m = f.m /\ g.entered /\ g.waiting /\ g.next = f.next + 1
  /\ g.finish = f.finish /\ f.next \in 1..Len(Req(f.m)) /\ Asked(graph, g) \in Module
  /\ d.body = Nil /\ d.stack = c.stack
  /\ \/ FrameSet(c, d, g) /\ status[Asked(graph, g)] # "linked"
     \/ /\ status[Asked(graph, g)] = "linked" /\ Len(d.frames) = Len(c.frames) + 1
        /\ \A k \in 1..Len(c.frames) - 1 : d.frames[k] = c.frames[k]
        /\ d.frames[Len(c.frames)] = g
        /\ d.frames[Len(c.frames) + 1] = NewFrame(Asked(graph, g))
  /\ UNCHANGED <<recVars, dfsVars, pend, order, parents, exec, ran, done>>

ExecuteStep(c, d, f, g) ==
  LET late == pend[f.m] > 0 \/ f.m \in graph.tla
  IN  /\ Turned(c, d, f, g) /\ f.entered /\ ~f.waiting /\ ~f.finish /\ g.finish
      /\ g.entered /\ ~g.waiting /\ g.next = f.next /\ f.next > Len(Req(f.m))
      /\ d.stack = c.stack /\ d.body = (IF pend[f.m] > 0 THEN Nil ELSE f.m)
      /\ active' = [active EXCEPT ![f.m] = @ \/ late]
      /\ order' = [order EXCEPT ![f.m] = IF late THEN clock ELSE @]
      /\ clock' = (IF late THEN clock + 1 ELSE clock)
      /\ ran' = (IF pend[f.m] > 0 THEN ran ELSE Append(ran, f.m))
      /\ UNCHANGED <<status, err, top, dfsVars, pend, parents, exec, done>>

\* S is the component taken off the stack, if any.
FinishStep(c, d, f, S) ==
  /\ c.kind = "dfs" /\ c.body = Nil /\ c.frames # <<>> /\ f = c.frames[Len(c.frames)]
  /\ f.finish /\ f.entered /\ ~f.waiting /\ f.m \in Members(c.stack)
  /\ d.kind = "dfs" /\ d.root = c.root /\ d.avail = c.avail /\ d.body = Nil
  /\ d.index >= c.index
  /\ Len(d.frames) = Len(c.frames) - 1
  /\ \A k \in 1..Len(c.frames) - 1 : d.frames[k] = c.frames[k]
  /\ S \subseteq Members(c.stack) /\ Members(d.stack) = Members(c.stack) \ S
  /\ IF anc[f.m] = dfs[f.m] THEN S = {x \in Members(c.stack) : dfs[f.m] <= dfs[x]} ELSE S = {}
  /\ status' = [x \in Module |-> IF x \notin S THEN status[x]
                                 ELSE IF active[x] THEN "async" ELSE "evaluated"]
  /\ root' = [x \in Module |-> IF x \in S THEN f.m ELSE root[x]]
  /\ UNCHANGED <<err, top, active, dfs, anc, pend, order, parents, exec, ran, done>>

\* A walk fails with e, the error of what it asked for or of its own body.
FailStep(c, e) ==
  /\ c.kind = "dfs" /\ c.frames # <<>> /\ ctx' = <<>> /\ e \in Module
  /\ c.root \in Members(c.stack)
  /\ SetError(Members(c.stack), e)
  /\ UNCHANGED <<dfs, root, pend, order, parents, exec, ran, done>>

EndWalkStep(c) ==
  /\ c.kind = "dfs" /\ c.body = Nil /\ c.frames = <<>> /\ ctx' = <<>>
  /\ top' = [top EXCEPT ![c.root] = IF active[c.root] THEN @ ELSE "ok"]
  /\ UNCHANGED <<status, err, active, dfsVars, pend, order, parents, exec, ran, done>>

\* The body of c has returned control to the runtime.
Left(c, d) ==
  /\ c.body \in Module /\ d.body = Nil /\ d.kind = c.kind /\ d.root = c.root
  /\ d.avail = c.avail /\ d.frames = c.frames /\ d.stack = c.stack /\ d.index = c.index
  /\ UNCHANGED <<dfsVars, pend, order, parents, ran>>

ReturnStep(c, d) ==
  /\ Left(c, d) /\ c.body \notin graph.tla /\ done' = done \cup {c.body}
  /\ IF c.kind = "list" THEN Complete(c.body) ELSE UNCHANGED recVars
  /\ UNCHANGED exec

ThrowStep(c, d) ==
  /\ Left(c, d) /\ c.kind = "list" /\ c.body \notin graph.tla
  /\ SetError(Ancestors(c.body), c.body) /\ UNCHANGED <<exec, done>>

AwaitStep(c, d) ==
  /\ Left(c, d) /\ c.body \in graph.tla /\ UNCHANGED recVars
  /\ done \subseteq done' /\ done' \subseteq done \cup {c.body}
  /\ \E p \in {"pending", "ok", "err"} :
       exec' = [exec EXCEPT ![c.body] = p] /\ (p = "ok" => c.body \in done')

RunStep(c, d, m) ==
  /\ c.kind = "list" /\ c.body = Nil /\ m \in c.avail
  /\ \A x \in c.avail : order[m] <= order[x]
  /\ d.kind = "list" /\ d.root = c.root /\ d.avail = c.avail \ {m} /\ d.index = c.index
  /\ d.body = (IF status[m] = "evaluated" THEN Nil ELSE m)
  /\ d.frames = c.frames /\ d.stack = c.stack
  /\ ran' = (IF status[m] = "evaluated" THEN ran ELSE Append(ran, m))
  /\ UNCHANGED <<recVars, dfsVars, pend, order, parents, exec, done>>

EndListStep(c) ==
  /\ c.kind = "list" /\ c.body = Nil /\ c.avail = {} /\ ctx' = <<>>
  /\ UNCHANGED <<recVars, dfsVars, pend, order, parents, exec, ran, done>>

\* The steps taken when nothing is in progress.
FulfilStep(m) ==
  /\ exec[m] = "ok" /\ status[m] # "evaluated" /\ Complete(m)
  /\ LET S == Available(m)
     IN  /\ ctx' = <<List(S)>>
         /\ pend' = [p \in Module |-> IF p \in S THEN 0
                       ELSE IF Waits(p) THEN pend[p] - Edges(Sources(S, m), p) ELSE pend[p]]
  /\ UNCHANGED <<dfsVars, order, parents, exec, ran, done>>

RejectStep(m) ==
  /\ exec[m] = "err" /\ ctx' = <<>> /\ SetError(Ancestors(m), m)
  /\ UNCHANGED <<dfsVars, pend, order, parents, exec, ran, done>>

WalkStep(m) ==
  /\ status[m] = "linked" /\ ctx' = <<Walk(m)>> /\ top[m] = "none"
  /\ Reach(m) \cap graph.link = {}
  /\ top' = [top EXCEPT ![m] = "pending"]
  /\ UNCHANGED <<status, err, active, dfsVars, pend, order, parents, exec, ran, done>>

\* An import that is answered at once, an awaiting body that ends, and a
\* callback that comes too late.
RestStep ==
  /\ ctx' = <<>> /\ done \subseteq done'
  /\ \A x \in Module : top'[x] = top[x] \/
       (top[x] = "none" /\ top'[x] = (IF status[x] = "async" THEN "pending"
                                      ELSE IF status[x] = "evaluated" /\ err[x] = Nil THEN "ok"
                                      ELSE "err"))
  /\ \A x \in Module : top'[x] # top[x] =>
       /\ \E m \in Module : x = Root(m)
       /\ status[x] = "linked" => Reach(x) \cap graph.link # {}
  /\ \A x \in Module : exec'[x] = "ok" => exec[x] = "ok" \/ x \in done'
  /\ UNCHANGED <<status, err, active, dfsVars, pend, order, parents, ran>>

Idling == \/ \E m \in Module : FulfilStep(m) \/ RejectStep(m) \/ WalkStep(m)
          \/ RestStep
Working(c) == \/ \E e \in Module : FailStep(c, e)
              \/ EndWalkStep(c) \/ EndListStep(c)
Turning(c, d) == \/ \E f, g \in FrameType : \/ EnterStep(c, d, f, g) \/ ExamineStep(c, d, f, g)
                                            \/ RequestStep(c, d, f, g) \/ ExecuteStep(c, d, f, g)
                 \/ \E f \in FrameType, S \in SUBSET Module : FinishStep(c, d, f, S)
                 \/ ReturnStep(c, d) \/ ThrowStep(c, d) \/ AwaitStep(c, d)
                 \/ \E m \in Module : RunStep(c, d, m)
-----------------------------------------------------------------------------
\* Without require() a running activation is the only one.
LEMMA Sole ==
  ASSUME Types, Alone, called = {}, ctx # <<>>
  PROVE  Len(ctx) = 1 /\ Cur = ctx[1] /\ Cur \in Activation
<1>1. Len(ctx) \in Nat \ {0} /\ Cur = ctx[Len(ctx)] /\ Cur \in Activation BY CurTyped
<1> QED BY <1>1 DEF Alone

\* The one activation is replaced.
LEMMA SoleWith ==
  ASSUME Types, Alone, called = {}, ctx # <<>>, NEW d \in Activation, ctx' = With(d)
  PROVE  Len(ctx') = 1 /\ ctx'[1] = d
BY Sole, WithFacts

\* The one activation ends.
LEMMA SolePop ==
  ASSUME Types, Alone, called = {}, ctx # <<>>, ctx' = Popped
  PROVE  ctx' = <<>>
<1>1. ctx' \in Seq(Activation) /\ Len(ctx') = 0 BY Sole, PoppedFacts
<1> QED BY <1>1, EmptySeq

\* What a step without require() does to the activation in progress.
Replaces == /\ Len(ctx) = 1 /\ ctx[1] \in Activation /\ Len(ctx') = 1 /\ ctx'[1] \in Activation
            /\ Turning(ctx[1], ctx'[1])
Ends     == Len(ctx) = 1 /\ ctx[1] \in Activation /\ Working(ctx[1])

\* Enter, Examine and Request as steps of the one activation.
LEMMA VisitSteps ==
  ASSUME IInv, Alone, called = {}, Enter \/ Examine \/ Request
  PROVE  Replaces \/ Ends
<1> DEFINE n == Len(Cur.frames)
<1>1. Types /\ Control /\ Stacks BY DEF IInv
<1>2. CASE Enter
  <2>1. ctx # <<>> /\ Cur.frames # <<>> /\ Cur.kind = "dfs" /\ Cur.body = Nil BY <1>1, <1>2, EnterForm
  <2>2. PICK d \in Activation, g \in FrameType :
          /\ ctx' = With(d) /\ FrameSet(Cur, d, g)
          /\ d.kind = Cur.kind /\ d.root = Cur.root /\ d.avail = Cur.avail
          /\ d.body = Cur.body /\ d.stack = Append(Cur.stack, Frame.m)
          /\ d.index = Cur.index + 1
          /\ g.m = Frame.m /\ g.next = Frame.next /\ g.entered
          /\ g.waiting = Frame.waiting /\ g.finish = Frame.finish
    BY <1>1, <1>2, EnterForm
  <2>3. Len(ctx) = 1 /\ Cur = ctx[1] /\ Cur \in Activation /\ Len(ctx') = 1 /\ ctx'[1] = d
    BY <1>1, <2>1, <2>2, Sole, SoleWith
  <2>4. Frame \in FrameType /\ Frame = Cur.frames[n] BY <1>1, <2>1, FrameTyped
  <2>5. d.index >= Cur.index
    <3>1. Cur.index \in Nat BY <2>3 DEF Activation
    <3> QED BY <2>2, <3>1
  <2>6. EnterStep(Cur, d, Frame, g)
    BY <1>2, <2>1, <2>2, <2>4, <2>5 DEF EnterStep, Turned, Enter, hisVars
  <2> QED BY <2>3, <2>4, <2>6 DEF Replaces, Turning
<1>3. CASE Examine
  <2>1. ctx # <<>> /\ Cur.frames # <<>> /\ Cur.kind = "dfs" /\ Cur.body = Nil
    BY <1>3 DEF Examine, Walking
  <2>2. Frame \in FrameType /\ Frame = Cur.frames[n] /\ Frame.m \in Module BY <1>1, <2>1, FrameTyped
  <2>3. Len(ctx) = 1 /\ Cur = ctx[1] /\ Cur \in Activation BY <1>1, <2>1, Sole
  <2> DEFINE q == Req(Frame.m)[Frame.next - 1]
             r == IF status[q] = "evaluating" THEN q ELSE root[q]
  <2>4. q \in Module /\ q \in Requested(Frame.m) BY <1>1, <1>3, ExamineTyped
  <2>5. r \in Module BY <1>1, <2>4 DEF Types, TypeOK
  <2>6. q = Asked(graph, Frame) /\ r = Awaited(q) BY DEF Asked, Awaited, Req
  <2>7. CASE ctx' = Popped
    <3>1. /\ err[r] # Nil /\ SetError(Members(Cur.stack), err[r]) /\ Entered(Cur)
          /\ UNCHANGED <<dfs, root, pend, order, parents, exec, ran, done>>
      BY <1>1, <1>3, <2>7, ExamineThrows
    <3>2. err[r] \in Module BY <1>1, <2>5, <3>1 DEF Types, TypeOK
    <3>3. Cur.root \in Members(Cur.stack) BY <1>1, <2>1, <2>3, <3>1, RootStacked
    <3>4. ctx' = <<>> BY <1>1, <2>1, <2>7, SolePop
    <3>5. FailStep(Cur, err[r]) BY <2>1, <3>1, <3>2, <3>3, <3>4 DEF FailStep
    <3> HIDE DEF q, r
    <3> QED BY <2>3, <3>2, <3>5 DEF Ends, Working
  <2>8. CASE ctx' # Popped
    <3>1. PICK d \in Activation, g \in FrameType :
            /\ ctx' = With(d) /\ FrameSet(Cur, d, g)
            /\ d.kind = Cur.kind /\ d.root = Cur.root /\ d.avail = Cur.avail
            /\ d.body = Cur.body /\ d.stack = Cur.stack /\ d.index = Cur.index
            /\ g.m = Frame.m /\ g.next = Frame.next /\ g.entered = Frame.entered
            /\ ~g.waiting /\ g.finish = Frame.finish
      BY <1>1, <1>3, <2>8, ExamineForm
    <3>2. Len(ctx') = 1 /\ ctx'[1] = d BY <1>1, <2>1, <3>1, SoleWith
    <3>3. /\ Frame.entered /\ Frame.waiting /\ err[r] = Nil
          /\ anc' = [anc EXCEPT ![Frame.m] = LowLink(Frame.m, q)]
          /\ pend' = [pend EXCEPT ![Frame.m] = IF active[r] THEN @ + 1 ELSE @]
          /\ parents' = (IF active[r] THEN Register(r, Frame.m) ELSE parents)
          /\ UNCHANGED <<status, err, top, active, dfs, root, order, exec, ran, done>>
      BY <1>3, <2>8 DEF Examine, Throw, recVars, hisVars
    <3>4. d.index >= Cur.index
      <4>1. Cur.index \in Nat BY <2>3 DEF Activation
      <4> QED BY <3>1, <4>1
    <3> HIDE DEF q, r
    <3>5. Turned(Cur, d, Frame, g) BY <2>1, <2>2, <3>1, <3>4 DEF Turned
    <3>6. ExamineStep(Cur, d, Frame, g)
      BY <2>1, <2>4, <2>5, <2>6, <3>1, <3>3, <3>5 DEF ExamineStep
    <3> QED BY <2>2, <2>3, <3>2, <3>6 DEF Replaces, Turning
  <2> QED BY <2>7, <2>8
<1>4. CASE Request
  <2>1. ctx # <<>> /\ Cur.frames # <<>> /\ Cur.kind = "dfs" /\ Cur.body = Nil BY <1>1, <1>4, RequestForm
  <2>2. /\ Frame \in FrameType /\ Frame = Cur.frames[n] /\ Frame.m \in Module
        /\ Frame.next \in Nat \ {0}
    BY <1>1, <2>1, FrameTyped
  <2> DEFINE q == Req(Frame.m)[Frame.next]
  <2>3. PICK d \in Activation, g \in FrameType :
          /\ ctx' = With(d)
          /\ d.kind = Cur.kind /\ d.root = Cur.root /\ d.avail = Cur.avail
          /\ d.body = Cur.body /\ d.stack = Cur.stack /\ d.index = Cur.index
          /\ g.m = Frame.m /\ g.next = Frame.next + 1 /\ g.entered = Frame.entered
          /\ g.waiting /\ g.finish = Frame.finish
          /\ \/ FrameSet(Cur, d, g) /\ ~Unvisited(q)
             \/ /\ Unvisited(q)
                /\ Len(d.frames) = n + 1 /\ d.frames[n] = g
                /\ \A k \in 1..n - 1 : d.frames[k] = Cur.frames[k]
                /\ d.frames[n + 1] = NewFrame(q)
    BY <1>1, <1>4, RequestForm
  <2>4. Len(ctx) = 1 /\ Cur = ctx[1] /\ Cur \in Activation /\ Len(ctx') = 1 /\ ctx'[1] = d
    BY <1>1, <2>1, <2>3, Sole, SoleWith
  <2>5. Frame.entered /\ ~Frame.waiting /\ Frame.next <= Len(Req(Frame.m)) BY <1>4 DEF Request
  <2>6. Frame.next \in 1..Len(Req(Frame.m)) BY <1>1, <2>2, <2>5, RequestTyped
  <2>7. q = Asked(graph, g) /\ q \in Module
    <3>1. g.next - 1 = Frame.next BY <2>2, <2>3
    <3> QED BY <1>1, <2>2, <2>3, <2>6, <3>1, RequestTyped DEF Asked, Req
  <2>8. d.index >= Cur.index
    <3>1. Cur.index \in Nat BY <2>4 DEF Activation
    <3> QED BY <2>3, <3>1
  <2>9. UNCHANGED <<recVars, dfsVars, pend, order, parents, exec, ran, done>>
    BY <1>4 DEF Request, asyVars, hisVars
  <2> HIDE DEF q
  <2>10. RequestStep(Cur, d, Frame, g)
    BY <2>1, <2>2, <2>3, <2>5, <2>6, <2>7, <2>8, <2>9 DEF RequestStep, Unvisited
  <2> QED BY <2>2, <2>4, <2>10 DEF Replaces, Turning
<1> QED BY <1>2, <1>3, <1>4

\* Execute, Finish and the end of a walk as steps of the one activation.
LEMMA LeaveSteps ==
  ASSUME IInv, Alone, called = {}, Execute \/ Finish \/ EndWalk
  PROVE  Replaces \/ Ends
<1> DEFINE n == Len(Cur.frames)
<1>1. Types /\ Control /\ Stacks BY DEF IInv
<1>2. CASE Execute
  <2>1. ctx # <<>> /\ Cur.frames # <<>> /\ Cur.kind = "dfs" /\ Cur.body = Nil BY <1>1, <1>2, ExecuteForm
  <2>2. PICK d \in Activation, g \in FrameType :
          /\ ctx' = With(d) /\ FrameSet(Cur, d, g)
          /\ d.kind = Cur.kind /\ d.root = Cur.root /\ d.avail = Cur.avail
          /\ d.body = (IF pend[Frame.m] > 0 THEN Nil ELSE Frame.m)
          /\ d.stack = Cur.stack /\ d.index = Cur.index
          /\ g.m = Frame.m /\ g.next = Frame.next /\ g.entered = Frame.entered
          /\ g.waiting = Frame.waiting /\ g.finish
    BY <1>1, <1>2, ExecuteForm
  <2>3. Len(ctx) = 1 /\ Cur = ctx[1] /\ Cur \in Activation /\ Len(ctx') = 1 /\ ctx'[1] = d
    BY <1>1, <2>1, <2>2, Sole, SoleWith
  <2>4. Frame \in FrameType /\ Frame = Cur.frames[n] BY <1>1, <2>1, FrameTyped
  <2>5. d.index >= Cur.index
    <3>1. Cur.index \in Nat BY <2>3 DEF Activation
    <3> QED BY <2>2, <3>1
  <2>6. Turned(Cur, d, Frame, g) BY <2>1, <2>2, <2>4, <2>5 DEF Turned
  <2>7. /\ Frame.entered /\ ~Frame.waiting /\ ~Frame.finish /\ Frame.next > Len(Req(Frame.m))
        /\ active' = [active EXCEPT ![Frame.m] = @ \/ (pend[Frame.m] > 0 \/ Frame.m \in graph.tla)]
        /\ order' = [order EXCEPT ![Frame.m] =
                       IF pend[Frame.m] > 0 \/ Frame.m \in graph.tla THEN clock ELSE @]
        /\ clock' = (IF pend[Frame.m] > 0 \/ Frame.m \in graph.tla THEN clock + 1 ELSE clock)
        /\ ran' = (IF pend[Frame.m] > 0 THEN ran ELSE Append(ran, Frame.m))
        /\ UNCHANGED <<status, err, top, dfsVars, pend, parents, exec, done>>
    BY <1>2 DEF Execute
  <2>8. ExecuteStep(Cur, d, Frame, g) BY <2>2, <2>6, <2>7 DEF ExecuteStep
  <2> QED BY <2>3, <2>4, <2>8 DEF Replaces, Turning
<1>3. CASE Finish
  <2>1. ctx # <<>> /\ Cur.frames # <<>> /\ Cur.kind = "dfs" /\ Cur.body = Nil BY <1>1, <1>3, FinishForm
  <2>2. PICK d \in Activation, S \in SUBSET Module : FinishParts(d, S) BY <1>1, <1>3, FinishSplits
  <2>3. Len(ctx) = 1 /\ Cur = ctx[1] /\ Cur \in Activation /\ Len(ctx') = 1 /\ ctx'[1] = d
    BY <1>1, <2>1, <2>2, Sole, SoleWith DEF FinishParts
  <2>4. Frame \in FrameType /\ Frame = Cur.frames[n] /\ Frame.m \in Module BY <1>1, <2>1, FrameTyped
  <2>5. /\ Frame.finish /\ UNCHANGED <<err, top, active, dfs, anc, pend, order, parents, exec, ran, done>>
        /\ status' = [x \in Module |-> status'[x]] /\ root' = [x \in Module |-> root'[x]]
    BY <1>3 DEF Finish, asyVars, hisVars
  <2>6. Frame.entered /\ ~Frame.waiting /\ Frame.m \in Members(Cur.stack)
    BY <1>1, <2>1, <2>5, CurOK, FrameAlone DEF FrameOK
  <2>7. Members(d.stack) = Members(Cur.stack) \ S /\ S \subseteq Members(Cur.stack)
    BY <2>2 DEF FinishParts
  <2>8. /\ status' = [x \in Module |-> IF x \notin S THEN status[x]
                                 ELSE IF active[x] THEN "async" ELSE "evaluated"]
        /\ root' = [x \in Module |-> IF x \in S THEN Frame.m ELSE root[x]]
    BY <2>2, <2>5 DEF FinishParts
  <2>9. IF anc[Frame.m] = dfs[Frame.m]
        THEN S = {x \in Members(Cur.stack) : dfs[Frame.m] <= dfs[x]} ELSE S = {}
    <3>1. CASE anc[Frame.m] = dfs[Frame.m]
      <4>1. /\ \A x \in S : x \in Members(Cur.stack) /\ dfs[Frame.m] <= dfs[x]
            /\ \A x \in Members(Cur.stack) \ S : dfs[x] < dfs[Frame.m]
        BY <2>2, <2>7, <3>1 DEF FinishParts
      <4>2. Members(Cur.stack) \subseteq Module BY <2>3, MembersOf DEF Activation
      <4>3. \A x \in Module : dfs[x] \in Nat BY <1>1 DEF Types, TypeOK
      <4> QED BY <2>4, <3>1, <4>1, <4>2, <4>3
    <3> QED BY <2>2, <3>1 DEF FinishParts
  <2>10. d.index >= Cur.index
    <3>1. Cur.index \in Nat BY <2>3 DEF Activation
    <3> QED BY <2>2, <3>1 DEF FinishParts
  <2>11. FinishStep(Cur, d, Frame, S)
    BY <2>1, <2>2, <2>4, <2>5, <2>6, <2>7, <2>8, <2>9, <2>10 DEF FinishStep, FinishParts
  <2> QED BY <2>3, <2>4, <2>11 DEF Replaces, Turning
<1>4. CASE EndWalk
  <2>1. Len(ctx) = 1 /\ Cur = ctx[1] /\ Cur \in Activation /\ ctx' = <<>>
    BY <1>1, <1>4, Sole, SolePop DEF EndWalk
  <2>2. EndWalkStep(Cur) BY <1>4, <2>1 DEF EndWalk, EndWalkStep, asyVars, hisVars
  <2> QED BY <2>1, <2>2 DEF Ends, Working
<1> QED BY <1>2, <1>3, <1>4

\* The end of a body as a step of the one activation.
LEMMA BodySteps ==
  ASSUME IInv, Alone, called = {},
         BodyReturns \/ BodyThrows \/ \E p \in {"pending", "ok", "err"} : BodyAwaits(p)
  PROVE  Replaces \/ Ends
<1>1. Types /\ Control /\ Stacks BY DEF IInv
<1>2. ctx # <<>> /\ Cur.body # Nil BY DEF BodyReturns, BodyThrows, BodyAwaits
<1>3. Len(ctx) = 1 /\ Cur = ctx[1] /\ Cur \in Activation BY <1>1, <1>2, Sole
<1>4. Cur.body \in Module BY <1>1, <1>2, CurBody
<1>5. ASSUME ctx' = With([Cur EXCEPT !.body = Nil]), UNCHANGED <<dfsVars, pend, order, parents, ran>>
      PROVE  \E d \in Activation : Len(ctx') = 1 /\ ctx'[1] = d /\ Left(Cur, d)
  <2>1. PICK d \in Activation :
          /\ ctx' = With(d) /\ d.kind = Cur.kind /\ d.root = Cur.root /\ d.avail = Cur.avail
          /\ d.body = Nil /\ d.stack = Cur.stack /\ d.index = Cur.index /\ d.frames = Cur.frames
    BY <1>1, <1>2, <1>5, BodyForm
  <2>2. Len(ctx') = 1 /\ ctx'[1] = d BY <1>1, <1>2, <2>1, SoleWith
  <2> QED BY <1>4, <1>5, <2>1, <2>2 DEF Left
<1>6. CASE BodyReturns
  <2>1. PICK d \in Activation : Len(ctx') = 1 /\ ctx'[1] = d /\ Left(Cur, d)
    BY <1>5, <1>6 DEF BodyReturns, asyVars
  <2>2. ReturnStep(Cur, d) BY <1>6, <2>1 DEF BodyReturns, ReturnStep, asyVars
  <2> QED BY <1>3, <2>1, <2>2 DEF Replaces, Turning
<1>7. CASE BodyThrows /\ Cur.kind = "dfs"
  <2>1. /\ Cur.frames # <<>> /\ Entered(Cur) /\ SetError(Members(Cur.stack), Cur.body)
        /\ ctx' = Popped
    BY <1>1, <1>7, BodyThrowForm
  <2>2. ctx' = <<>> BY <1>1, <1>2, <2>1, SolePop
  <2>3. Cur.root \in Members(Cur.stack) BY <1>1, <1>3, <2>1, RootStacked
  <2>4. FailStep(Cur, Cur.body)
    BY <1>4, <1>7, <2>1, <2>2, <2>3 DEF FailStep, BodyThrows, dfsVars, asyVars, hisVars
  <2> QED BY <1>3, <1>4, <2>4 DEF Ends, Working
<1>8. CASE BodyThrows /\ Cur.kind # "dfs"
  <2>1. Cur.kind = "list" BY <1>3, <1>8 DEF Activation
  <2>2. PICK d \in Activation : Len(ctx') = 1 /\ ctx'[1] = d /\ Left(Cur, d)
    BY <1>5, <1>8 DEF BodyThrows, asyVars, hisVars
  <2>3. ThrowStep(Cur, d)
    BY <1>8, <2>1, <2>2 DEF BodyThrows, ThrowStep, asyVars, hisVars
  <2> QED BY <1>3, <2>2, <2>3 DEF Replaces, Turning
<1>9. ASSUME NEW p \in {"pending", "ok", "err"}, BodyAwaits(p) PROVE Replaces
  <2>1. PICK d \in Activation : Len(ctx') = 1 /\ ctx'[1] = d /\ Left(Cur, d)
    BY <1>5, <1>9 DEF BodyAwaits
  <2>2. /\ Cur.body \in graph.tla /\ UNCHANGED recVars /\ exec' = [exec EXCEPT ![Cur.body] = p]
        /\ done' = IF p = "ok" THEN done \cup {Cur.body} ELSE done
    BY <1>9 DEF BodyAwaits
  <2>3. /\ done \subseteq done' /\ done' \subseteq done \cup {Cur.body}
        /\ p = "ok" => Cur.body \in done'
    BY <2>2
  <2>4. AwaitStep(Cur, d) BY <2>1, <2>2, <2>3 DEF AwaitStep
  <2> QED BY <1>3, <2>1, <2>4 DEF Replaces, Turning
<1> QED BY <1>6, <1>7, <1>8, <1>9

\* The steps of a completion's list.
LEMMA ListSteps ==
  ASSUME IInv, Alone, called = {}, RunNext \/ EndList
  PROVE  Replaces \/ Ends
<1>1. Types /\ Control /\ Stacks BY DEF IInv
<1>2. ctx # <<>> /\ Cur.kind = "list" /\ Cur.body = Nil BY DEF RunNext, EndList
<1>3. Len(ctx) = 1 /\ Cur = ctx[1] /\ Cur \in Activation BY <1>1, <1>2, Sole
<1>4. CASE RunNext
  <2>1. PICK m \in Cur.avail :
          /\ \A x \in Cur.avail : order[m] <= order[x]
          /\ ctx' = With([Cur EXCEPT !.avail = @ \ {m},
                                     !.body = IF status[m] = "evaluated" THEN Nil ELSE m])
          /\ ran' = IF status[m] = "evaluated" THEN ran ELSE Append(ran, m)
    BY <1>4 DEF RunNext
  <2> DEFINE d == [Cur EXCEPT !.avail = @ \ {m},
                              !.body = IF status[m] = "evaluated" THEN Nil ELSE m]
  <2>2. m \in Module BY <1>3 DEF Activation
  <2>3. /\ d \in Activation /\ d.kind = "list" /\ d.root = Cur.root /\ d.avail = Cur.avail \ {m}
        /\ d.index = Cur.index /\ d.body = (IF status[m] = "evaluated" THEN Nil ELSE m)
        /\ d.frames = Cur.frames /\ d.stack = Cur.stack
    BY <1>2, <1>3, <2>2 DEF Activation
  <2> HIDE DEF d
  <2>4. Len(ctx') = 1 /\ ctx'[1] = d BY <1>1, <1>2, <2>1, <2>3, SoleWith DEF d
  <2>5. UNCHANGED <<recVars, dfsVars, pend, order, parents, exec, done>>
    BY <1>4 DEF RunNext, asyVars
  <2>6. RunStep(Cur, d, m) BY <1>2, <2>1, <2>3, <2>5 DEF RunStep
  <2> QED BY <1>3, <2>2, <2>3, <2>4, <2>6 DEF Replaces, Turning
<1>5. CASE EndList
  <2>1. ctx' = <<>> BY <1>1, <1>2, <1>5, SolePop DEF EndList
  <2>2. EndListStep(Cur) BY <1>2, <1>5, <2>1 DEF EndListStep, EndList, asyVars, hisVars
  <2> QED BY <1>3, <2>2 DEF Ends, Working
<1> QED BY <1>4, <1>5

\* The steps of the job queue and of imports.
LEMMA IdleSteps ==
  ASSUME IInv, called = {},
         Callback \/ \E m \in Module : Import(m) \/ \E p \in {"ok", "err"} : Settle(m, p)
  PROVE  ctx = <<>> /\ Idling
<1>1. Types /\ Control /\ Stacks /\ Fresh BY DEF IInv
<1>2. ctx = <<>> BY DEF Callback, Import, Settle
<1>3. CASE Callback
  <2> DEFINE m == Head(jobs)
  <2>1. m \in Module BY <1>1, <1>3, HeadTailProperties DEF Callback, Types, TypeOK
  <2>2. /\ UNCHANGED <<dfsVars, order, parents, exec, ran, done>>
        /\ Fulfilled(m) \/ Rejected(m)
    BY <1>3 DEF Callback, hisVars
  <2> HIDE DEF m
  <2>3. CASE Fulfilled(m) /\ status[m] = "evaluated"
    <3>1. UNCHANGED <<recVars, pend, ctx>> BY <2>3 DEF Fulfilled
    <3>2. RestStep BY <1>2, <2>2, <3>1 DEF RestStep, recVars
    <3> QED BY <1>2, <3>2 DEF Idling
  <2>4. CASE Fulfilled(m) /\ status[m] # "evaluated"
    <3>1. FulfilStep(m) BY <2>2, <2>4 DEF Fulfilled, FulfilStep
    <3> QED BY <1>2, <2>1, <3>1 DEF Idling
  <2>5. CASE Rejected(m)
    <3>1. RejectStep(m) BY <1>2, <2>2, <2>5 DEF Rejected, RejectStep
    <3> QED BY <1>2, <2>1, <3>1 DEF Idling
  <2> QED BY <2>2, <2>3, <2>4, <2>5
<1>4. ASSUME NEW m \in Module, Import(m) PROVE Idling
  <2>1. /\ Evaluate(m, ctx)
        /\ UNCHANGED <<status, err, active, dfsVars, pend, order, parents, exec, ran, done>>
    BY <1>4 DEF Import, asyVars, hisVars
  <2> DEFINE r == Root(m)
  <2>2. r \in Module BY <1>1 DEF Root, Types, TypeOK
  <2>3. status[r] = "linked" => r = m
    BY <1>1 DEF Root, Fresh
  <2>4. status[r] # "evaluating"
    <3>1. \A i \in 1..Len(ctx) : FALSE BY <1>2
    <3> QED BY <1>1, <2>2, <3>1 DEF Stacks
  <2>5. status[r] \in Statuses BY <1>1, <2>2 DEF Types, TypeOK
  <2>6. CASE UNCHANGED top /\ ctx' = <<>>
    <3>1. RestStep BY <2>1, <2>6 DEF RestStep
    <3> QED BY <3>1 DEF Idling
  <2>7. CASE top[r] = "none" /\ ~(UNCHANGED top /\ ctx' = <<>>)
    <3> DEFINE unlinked == status[r] = "linked" /\ Reach(m) \cap graph.link # {}
    <3>1. /\ top' = [top EXCEPT ![r] =
                IF unlinked \/ (status[r] = "evaluated" /\ err[r] # Nil) THEN "err"
                ELSE IF status[r] = "evaluated" THEN "ok" ELSE "pending"]
          /\ ctx' = IF status[r] = "linked" /\ ~unlinked THEN Append(<<>>, Walk(r)) ELSE <<>>
      BY <1>2, <2>1, <2>7 DEF Evaluate
    <3> HIDE DEF unlinked, r
    <3>2. CASE status[r] = "linked" /\ ~unlinked
      <4>1. ctx' = <<Walk(r)>> BY <3>1, <3>2
      <4>2. top' = [top EXCEPT ![r] = "pending"] BY <3>1, <3>2
      <4>3. Reach(r) \cap graph.link = {} BY <2>3, <3>2 DEF unlinked
      <4>4. WalkStep(r) BY <2>1, <2>7, <3>2, <4>1, <4>2, <4>3 DEF WalkStep
      <4> QED BY <2>2, <4>4 DEF Idling
    <3>3. CASE ~(status[r] = "linked" /\ ~unlinked)
      <4>1. ctx' = <<>> BY <3>1, <3>3
      <4>2. unlinked => status[r] = "linked" BY DEF unlinked
      <4>3. top'[r] = IF status[r] = "async" THEN "pending"
                      ELSE IF status[r] = "evaluated" /\ err[r] = Nil THEN "ok" ELSE "err"
        <5>1. top \in [Module -> Promises] BY <1>1 DEF Types, TypeOK
        <5> QED BY <2>2, <2>4, <2>5, <3>1, <3>3, <4>2, <5>1 DEF Statuses
      <4>4. \A x \in Module : x # r => top'[x] = top[x]
        <5>1. top \in [Module -> Promises] BY <1>1 DEF Types, TypeOK
        <5> QED BY <3>1, <5>1
      <4>5. r = Root(m) /\ (status[r] = "linked" => Reach(r) \cap graph.link # {})
        BY <2>3, <3>3 DEF unlinked, r
      <4>6. RestStep BY <2>1, <2>7, <4>1, <4>3, <4>4, <4>5 DEF RestStep
      <4> QED BY <4>6 DEF Idling
    <3> QED BY <3>2, <3>3
  <2> QED BY <1>2, <2>1, <2>6, <2>7 DEF Evaluate
<1>5. ASSUME NEW m \in Module, NEW p \in {"ok", "err"}, Settle(m, p) PROVE Idling
  <2>1. exec \in [Module -> Promises] BY <1>1 DEF Types, TypeOK
  <2>2. \A x \in Module : exec'[x] = "ok" => exec[x] = "ok" \/ x \in done' BY <1>5, <2>1 DEF Settle
  <2>3. RestStep BY <1>2, <1>5, <2>2 DEF Settle, RestStep, recVars
  <2> QED BY <2>3 DEF Idling
<1> QED BY <1>2, <1>3, <1>4, <1>5

\* Every step without require() is one of those described.
LEMMA ImportSteps ==
  ASSUME IInv, Alone, [Next]_vars, called' = {}
  PROVE  /\ called = {} /\ graph' = graph
         /\ UNCHANGED vars \/ (ctx = <<>> /\ Idling) \/ Replaces \/ Ends
<1>1. CASE UNCHANGED vars BY <1>1 DEF vars, hisVars
<1>2. ASSUME NEW m \in Module, Require(m) PROVE FALSE
  <2>1. <<Cur.body, m>> \in called' BY <1>2 DEF Require
  <2> QED BY <2>1
<1>3. CASE Next
  <2>1. \/ Enter \/ Examine \/ Request \/ Execute \/ Finish \/ EndWalk
        \/ BodyReturns \/ BodyThrows \/ \E p \in {"pending", "ok", "err"} : BodyAwaits(p)
        \/ RunNext \/ EndList
        \/ Callback \/ \E m \in Module : Import(m) \/ \E p \in {"ok", "err"} : Settle(m, p)
    BY <1>2, <1>3 DEF Next, Run
  <2>2. called = {} /\ graph' = graph
    <3>1. CASE Enter \/ Examine \/ Request \/ Execute \/ Finish \/ EndWalk
      BY <3>1 DEF Enter, Examine, Request, Execute, Finish, EndWalk, hisVars
    <3>2. CASE BodyReturns \/ BodyThrows \/ RunNext \/ EndList \/ Callback
      BY <3>2 DEF BodyReturns, BodyThrows, RunNext, EndList, Callback, hisVars
    <3>3. ASSUME NEW p \in {"pending", "ok", "err"}, BodyAwaits(p) PROVE called = {} /\ graph' = graph
      BY <3>3 DEF BodyAwaits
    <3>4. ASSUME NEW m \in Module, Import(m) PROVE called = {} /\ graph' = graph
      BY <3>4 DEF Import, hisVars
    <3>5. ASSUME NEW m \in Module, NEW p \in {"ok", "err"}, Settle(m, p)
          PROVE  called = {} /\ graph' = graph
      BY <3>5 DEF Settle
    <3> QED BY <2>1, <3>1, <3>2, <3>3, <3>4, <3>5
  <2> QED BY <2>1, <2>2, VisitSteps, LeaveSteps, BodySteps, ListSteps, IdleSteps
<1> QED BY <1>1, <1>3

\* An activation is called only when none is in progress.
LEMMA AlonePreserved ==
  ASSUME IInv, Alone, [Next]_vars
  PROVE  Alone'
<1> SUFFICES ASSUME called' = {} PROVE Len(ctx') <= 1 BY DEF Alone
<1>1. called = {} /\ (UNCHANGED vars \/ (ctx = <<>> /\ Idling) \/ Replaces \/ Ends) BY ImportSteps
<1>2. CASE UNCHANGED vars BY <1>1, <1>2 DEF Alone, vars
<1>3. CASE Idling
  <2>1. ctx' = <<>> \/ \E c : ctx' = <<c>>
    BY <1>3 DEF Idling, FulfilStep, RejectStep, WalkStep, RestStep
  <2>2. ASSUME NEW c, ctx' = <<c>> PROVE Len(ctx') <= 1 BY <2>2
  <2> QED BY <2>1, <2>2
<1>4. CASE Replaces BY <1>4 DEF Replaces
<1>5. CASE Ends BY <1>5 DEF Ends, Working, FailStep, EndWalkStep, EndListStep
<1> QED BY <1>1, <1>2, <1>3, <1>4, <1>5
-----------------------------------------------------------------------------
\* What the invariant says of the one activation.
LEMMA SoleFacts ==
  ASSUME IInv, Len(ctx) = 1
  PROVE  /\ ctx[1] \in Activation /\ Shape(graph, ctx[1]) /\ Stacked(status, dfs, ctx[1])
         /\ Reaching(Needing, dfs, anc, ctx[1])
         /\ Unstarted(ran, Idle(status, pend, ran), ctx[1])
         /\ Ongoing(ran, done, exec, status, err, ctx[1])
         /\ Members(ctx[1].stack) \subseteq Module
         /\ \A x \in Members(ctx[1].stack) : status[x] = "evaluating"
         /\ \A x \in Module : status[x] = "evaluating" => x \in Members(ctx[1].stack)
<1>1. ctx[1] \in Activation BY CurTyped DEF IInv
<1>2. Shape(graph, ctx[1]) BY DEF IInv, Control
<1>3. /\ Stacked(status, dfs, ctx[1])
      /\ \A x \in Module : status[x] = "evaluating" => x \in Members(ctx[1].stack)
  BY DEF IInv, Stacks
<1>4. Reaching(Needing, dfs, anc, ctx[1]) BY DEF IInv, Paths
<1>5. Unstarted(ran, Idle(status, pend, ran), ctx[1]) BY DEF IInv, Once
<1>6. Ongoing(ran, done, exec, status, err, ctx[1]) BY DEF IInv, Outcomes
<1>7. Members(ctx[1].stack) \subseteq Module BY <1>1, MembersOf DEF Activation
<1>8. \A x \in Members(ctx[1].stack) : status[x] = "evaluating" BY <1>3 DEF Stacked
<1> QED BY <1>1, <1>2, <1>3, <1>4, <1>5, <1>6, <1>7, <1>8

\* The last frame of a walk.
LEMMA LastFrame ==
  ASSUME NEW c \in Activation, c.frames # <<>>
  PROVE  /\ Len(c.frames) \in Nat \ {0} /\ c.frames[Len(c.frames)] \in FrameType
         /\ c.frames[Len(c.frames)].m \in Module
         /\ \A k \in 1..Len(c.frames) : c.frames[k] \in FrameType /\ c.frames[k].m \in Module
<1>1. c.frames \in Seq(FrameType) BY DEF Activation
<1>2. Len(c.frames) \in Nat \ {0} BY <1>1, EmptySeq
<1>3. \A k \in 1..Len(c.frames) : c.frames[k] \in FrameType BY <1>1, ElementOfSeq
<1> QED BY <1>2, <1>3 DEF FrameType

\* With one activation the invariants that speak of each activation speak of it.
LEMMA SettlingOne ==
  ASSUME called = {}, Settling, Len(ctx) = 1
  PROVE  \A m \in Module : top[m] = "pending" =>
           status[m] = "async" \/ Closing(status, active, ctx[1], m)
BY DEF Settling

\* What a failure and a completion do to the records.
LEMMA RecordSteps ==
  ASSUME Types
  PROVE  /\ \A S, e : SetError(S, e) => \A x \in Module :
              /\ x \in S => status'[x] = "evaluated" /\ ~active'[x] /\ err'[x] = e /\ top'[x] # "pending"
              /\ x \notin S => /\ status'[x] = status[x] /\ active'[x] = active[x]
                               /\ err'[x] = err[x] /\ top'[x] = top[x]
         /\ \A m \in Module : Complete(m) => \A x \in Module :
              /\ x = m => status'[x] = "evaluated" /\ ~active'[x] /\ top'[x] # "pending"
              /\ x # m => status'[x] = status[x] /\ active'[x] = active[x] /\ top'[x] = top[x]
              /\ err'[x] = err[x]
<1>1. /\ status \in [Module -> Statuses] /\ active \in [Module -> BOOLEAN]
      /\ top \in [Module -> Promises]
  BY DEF Types, TypeOK
<1>2. ASSUME NEW S, NEW e, SetError(S, e), NEW x \in Module
      PROVE  /\ x \in S => status'[x] = "evaluated" /\ ~active'[x] /\ err'[x] = e /\ top'[x] # "pending"
             /\ x \notin S => /\ status'[x] = status[x] /\ active'[x] = active[x]
                              /\ err'[x] = err[x] /\ top'[x] = top[x]
  <2>1. active[x] \in BOOLEAN BY <1>1
  <2> QED BY <1>2, <2>1 DEF SetError
<1>3. ASSUME NEW m \in Module, Complete(m), NEW x \in Module
      PROVE  /\ x = m => status'[x] = "evaluated" /\ ~active'[x] /\ top'[x] # "pending"
             /\ x # m => status'[x] = status[x] /\ active'[x] = active[x] /\ top'[x] = top[x]
             /\ err'[x] = err[x]
  BY <1>1, <1>3 DEF Complete
<1> QED BY <1>2, <1>3

\* Promises stay pending only for modules that run on.
LEMMA SettlingPreserved ==
  ASSUME IInv, Alone, Settling, [Next]_vars
  PROVE  Settling'
<1> SUFFICES ASSUME called' = {}, NEW m \in Module, top'[m] = "pending"
             PROVE  \/ status'[m] = "async"
                    \/ \E i \in 1..Len(ctx') : Closing(status', active', ctx'[i], m)
  BY DEF Settling
<1>1. called = {} /\ (UNCHANGED vars \/ (ctx = <<>> /\ Idling) \/ Replaces \/ Ends) BY ImportSteps
<1>2. Types BY DEF IInv
<1>3. CASE UNCHANGED vars BY <1>1, <1>3 DEF Settling, vars, recVars
<1>4. CASE ctx = <<>> /\ Idling
  <2>1. top[m] = "pending" => status[m] = "async" BY <1>1, <1>4 DEF Settling
  <2>2. CASE RestStep BY <2>1, <2>2 DEF RestStep
  <2>3. ASSUME NEW x \in Module, FulfilStep(x) PROVE status'[m] = "async"
    BY <1>2, <2>1, <2>3, RecordSteps DEF FulfilStep
  <2>4. ASSUME NEW x \in Module, RejectStep(x) PROVE status'[m] = "async"
    BY <1>2, <2>1, <2>4, RecordSteps DEF RejectStep
  <2>5. ASSUME NEW x \in Module, WalkStep(x)
        PROVE  status'[m] = "async" \/ \E i \in 1..Len(ctx') : Closing(status', active', ctx'[i], m)
    <3>1. CASE m # x
      <4>1. top'[m] = top[m] /\ status' = status BY <2>5, <3>1 DEF WalkStep
      <4> QED BY <2>1, <4>1
    <3>2. CASE m = x
      <4>1. Len(ctx') = 1 /\ ctx'[1] = Walk(x) BY <2>5 DEF WalkStep
      <4>2. Walk(x).kind = "dfs" /\ Walk(x).root = x /\ Len(Walk(x).frames) = 1
        BY WalkTyped DEF Walk
      <4>3. Walk(x).frames # <<>> BY DEF Walk
      <4>4. Closing(status', active', Walk(x), m) BY <3>2, <4>2, <4>3 DEF Closing
      <4> QED BY <4>1, <4>4
    <3> QED BY <3>1, <3>2
  <2> QED BY <1>4, <2>2, <2>3, <2>4, <2>5 DEF Idling
<1>5. CASE Ends
  <2> DEFINE c == ctx[1]
  <2>1. Len(ctx) = 1 /\ c \in Activation BY <1>5 DEF Ends
  <2>2. top[m] = "pending" => status[m] = "async" \/ Closing(status, active, c, m)
    BY <1>1, <2>1, SettlingOne
  <2> HIDE DEF c
  <2>3. ASSUME NEW e \in Module, FailStep(c, e) PROVE status'[m] = "async"
    <3>1. m \notin Members(c.stack) /\ status'[m] = status[m] /\ top'[m] = top[m]
      BY <1>2, <2>3, RecordSteps DEF FailStep
    <3> QED BY <2>2, <2>3, <3>1 DEF FailStep, Closing
  <2>4. CASE EndWalkStep(c)
    <3>1. top \in [Module -> Promises] BY <1>2 DEF Types, TypeOK
    <3>2. top[m] = "pending" /\ (m = c.root => active[m]) BY <2>4, <3>1 DEF EndWalkStep
    <3> QED BY <2>2, <2>4, <3>2 DEF EndWalkStep, Closing
  <2>5. CASE EndListStep(c) BY <2>2, <2>5 DEF EndListStep, Closing, recVars
  <2> QED BY <1>5, <2>3, <2>4, <2>5 DEF Ends, Working, c
<1>6. CASE Replaces
  <2> DEFINE c == ctx[1]
             d == ctx'[1]
  <2>1. Len(ctx) = 1 /\ c \in Activation /\ Len(ctx') = 1 /\ d \in Activation /\ Turning(c, d)
    BY <1>6 DEF Replaces
  <2>2. top[m] = "pending" => status[m] = "async" \/ Closing(status, active, c, m)
    BY <1>1, <2>1, SettlingOne
  <2>3. /\ Shape(graph, c) /\ Stacked(status, dfs, c) /\ Reaching(Needing, dfs, anc, c)
        /\ Members(c.stack) \subseteq Module
        /\ \A x \in Members(c.stack) : status[x] = "evaluating"
    BY <2>1, SoleFacts
  <2> SUFFICES status'[m] = "async" \/ Closing(status', active', d, m) BY <2>1
  <2> HIDE DEF c, d
  <2>4. ASSUME NEW n \in Nat \ {0}, Len(d.frames) = n PROVE d.frames # <<>>
    BY <2>4
  <2>5. ASSUME NEW f \in FrameType, NEW g \in FrameType, Turned(c, d, f, g), top' = top,
               status[m] = "async" => status'[m] = "async"
        PROVE  status'[m] = "async" \/ Closing(status', active', d, m)
    <3>1. Len(c.frames) \in Nat \ {0} BY <2>1, <2>5, LastFrame DEF Turned
    <3>2. d.frames # <<>> BY <2>4, <2>5, <3>1 DEF Turned, FrameSet
    <3> QED BY <2>2, <2>5, <3>2 DEF Closing, Turned
  <2>6. ASSUME NEW f \in FrameType, NEW g \in FrameType,
               EnterStep(c, d, f, g) \/ ExamineStep(c, d, f, g) \/ ExecuteStep(c, d, f, g)
        PROVE  status'[m] = "async" \/ Closing(status', active', d, m)
    <3>1. Turned(c, d, f, g) /\ top' = top BY <2>6 DEF EnterStep, ExamineStep, ExecuteStep
    <3>2. ASSUME EnterStep(c, d, f, g), status[m] = "async" PROVE status'[m] = "async"
      <4>1. /\ Len(c.frames) \in Nat \ {0} /\ f = c.frames[Len(c.frames)] /\ ~f.entered
        BY <2>1, <3>1, <3>2, LastFrame DEF Turned, EnterStep
      <4>2. status[f.m] = "linked" BY <2>3, <4>1 DEF Stacked
      <4> QED BY <3>2, <4>2 DEF EnterStep
    <3> QED BY <2>5, <2>6, <3>1, <3>2 DEF ExamineStep, ExecuteStep
  <2>7. ASSUME NEW f \in FrameType, NEW g \in FrameType, RequestStep(c, d, f, g)
        PROVE  status'[m] = "async" \/ Closing(status', active', d, m)
    <3>1. Len(c.frames) \in Nat \ {0} BY <2>1, <2>7, LastFrame DEF RequestStep
    <3>2. d.frames # <<>> BY <2>4, <2>7, <3>1 DEF RequestStep, FrameSet
    <3> QED BY <2>2, <2>7, <3>2 DEF Closing, RequestStep, recVars
  <2>8. ASSUME NEW f \in FrameType, NEW S \in SUBSET Module, FinishStep(c, d, f, S)
        PROVE  status'[m] = "async" \/ Closing(status', active', d, m)
    <3>1. /\ Len(c.frames) \in Nat \ {0} /\ f = c.frames[Len(c.frames)] /\ f.entered
          /\ c.frames # <<>> /\ f.m \in Members(c.stack) /\ top' = top /\ active' = active
          /\ d.kind = "dfs" /\ d.root = c.root /\ Len(d.frames) = Len(c.frames) - 1
          /\ S \subseteq Members(c.stack)
      BY <2>1, <2>8, LastFrame DEF FinishStep
    <3>4. Len(d.frames) = 0 => Len(c.frames) = 1
      <4>1. \A a \in Nat \ {0} : a - 1 = 0 => a = 1 OBVIOUS
      <4>2. Len(d.frames) = 0 => Len(c.frames) - 1 = 0 BY <3>1
      <4> QED BY <3>1, <4>1, <4>2
    <3>2. CASE status[m] = "async"
      <4>1. m \notin S BY <2>3, <3>1, <3>2
      <4> QED BY <2>8, <3>2, <4>1 DEF FinishStep
    <3>3. CASE Closing(status, active, c, m)
      <4>1. SUFFICES ASSUME d.frames = <<>>, active[m] PROVE status'[m] = "async"
        BY <3>1, <3>3 DEF Closing
      <4>2. Len(d.frames) = 0 BY <4>1
      <4>3. Len(c.frames) = 1 BY <3>4, <4>2
      <4>4. f.m = m BY <2>3, <3>1, <3>3, <4>3 DEF Shape, Closing
      <4>5. dfs[m] = 0 BY <2>3, <3>1, <4>3, <4>4 DEF Stacked
      <4>6. anc[m] <= dfs[m] BY <2>3, <3>1, <4>4 DEF Reaching
      <4>7. anc[m] \in Nat BY <1>2 DEF Types, TypeOK
      <4>8. anc[m] = dfs[m] BY <4>5, <4>6, <4>7
      <4>9. m \in S BY <2>8, <3>1, <4>4, <4>5, <4>8 DEF FinishStep
      <4> QED BY <2>8, <4>1, <4>9 DEF FinishStep
    <3> QED BY <2>2, <3>1, <3>2, <3>3
  <2>9. CASE ReturnStep(c, d)
    <3>1. CASE c.kind = "list"
      <4>1. Complete(c.body) /\ c.body \in Module BY <2>9, <3>1 DEF ReturnStep, Left
      <4>2. status'[m] = status[m] /\ top'[m] = top[m] BY <1>2, <4>1, RecordSteps
      <4> QED BY <2>2, <3>1, <4>2 DEF Closing
    <3>2. CASE c.kind # "list"
      BY <2>2, <2>9, <3>2 DEF ReturnStep, Left, Closing, recVars
    <3> QED BY <3>1, <3>2
  <2>10. CASE ThrowStep(c, d)
    <3>1. status'[m] = status[m] /\ top'[m] = top[m] BY <1>2, <2>10, RecordSteps DEF ThrowStep
    <3> QED BY <2>2, <2>10, <3>1 DEF ThrowStep, Closing
  <2>11. CASE AwaitStep(c, d) BY <2>2, <2>11 DEF AwaitStep, Left, Closing, recVars
  <2>12. ASSUME NEW x \in Module, RunStep(c, d, x) PROVE status'[m] = "async"
    BY <2>2, <2>12 DEF RunStep, Closing, recVars
  <2> QED BY <2>1, <2>6, <2>7, <2>8, <2>9, <2>10, <2>11, <2>12 DEF Turning
<1> QED BY <1>1, <1>3, <1>4, <1>5, <1>6
-----------------------------------------------------------------------------
\* The same for the parts of Activity, module by module.
Steady(s, a, r, par) == \A m \in Module :
  /\ r[m] # m => {s[m], s[r[m]]} \subseteq {"async", "evaluated"}
  /\ a[m] => s[m] \in {"evaluating", "async"}
  /\ s[m] = "async" => a[m]
  /\ s[m] \in {"linked", "evaluating"} /\ ~a[m] => par[m] = <<>>
  /\ \A p \in Members(par[m]) : s[p] # "linked"

\* A failure or a completion keeps it.
LEMMA SteadyEnd ==
  ASSUME Types, Steady(status, active, root, parents), root' = root, parents' = parents,
         NEW S \in SUBSET Module,
         \A x \in Module : /\ x \in S => status'[x] = "evaluated" /\ ~active'[x]
                           /\ x \notin S => status'[x] = status[x] /\ active'[x] = active[x]
  PROVE  Steady(status', active', root', parents')
<1> SUFFICES ASSUME NEW m \in Module
             PROVE  /\ root[m] # m => {status'[m], status'[root[m]]} \subseteq {"async", "evaluated"}
                    /\ active'[m] => status'[m] \in {"evaluating", "async"}
                    /\ status'[m] = "async" => active'[m]
                    /\ status'[m] \in {"linked", "evaluating"} /\ ~active'[m] => parents[m] = <<>>
                    /\ \A p \in Members(parents[m]) : status'[p] # "linked"
  BY DEF Steady
<1>1. root[m] \in Module /\ parents[m] \in Seq(Module) BY DEF Types, TypeOK
<1>2. Members(parents[m]) \subseteq Module BY <1>1, MembersOf
<1>3. /\ root[m] # m => {status[m], status[root[m]]} \subseteq {"async", "evaluated"}
      /\ active[m] => status[m] \in {"evaluating", "async"}
      /\ status[m] = "async" => active[m]
      /\ status[m] \in {"linked", "evaluating"} /\ ~active[m] => parents[m] = <<>>
      /\ \A p \in Members(parents[m]) : status[p] # "linked"
  BY DEF Steady
<1> QED BY <1>1, <1>2, <1>3

\* Activity holds step by step.
LEMMA ActivityPreserved ==
  ASSUME IInv, Alone, Activity, Dormant, [Next]_vars
  PROVE  Activity' /\ Dormant'
<1> SUFFICES ASSUME called' = {}
             PROVE  /\ Steady(status', active', root', parents')
                    /\ \A i \in 1..Len(ctx') : NotYetActive(active', ctx'[i])
  BY DEF Activity, Steady, Dormant
<1>1. /\ called = {} /\ graph' = graph
      /\ UNCHANGED vars \/ (ctx = <<>> /\ Idling) \/ Replaces \/ Ends
  BY ImportSteps
<1>2. Types BY DEF IInv
<1>3. Steady(status, active, root, parents) BY <1>1 DEF Activity, Steady
<1>4. \A i \in 1..Len(ctx) : NotYetActive(active, ctx[i]) BY <1>1 DEF Dormant
<1>5. /\ status \in [Module -> Statuses] /\ active \in [Module -> BOOLEAN]
      /\ root \in [Module -> Module] /\ parents \in [Module -> Seq(Module)]
  BY <1>2 DEF Types, TypeOK
<1>6. ASSUME NEW c, c.frames = <<>>, NEW a PROVE NotYetActive(a, c)
  BY <1>6 DEF NotYetActive
<1>7. CASE UNCHANGED vars BY <1>3, <1>4, <1>7 DEF vars, recVars, dfsVars, asyVars
<1>8. CASE ctx = <<>> /\ Idling
  <2>1. CASE RestStep
    BY <1>3, <2>1 DEF RestStep, dfsVars
  <2>2. ASSUME NEW m \in Module, FulfilStep(m)
        PROVE  /\ Steady(status', active', root', parents')
               /\ \A i \in 1..Len(ctx') : NotYetActive(active', ctx'[i])
    <3>1. \A x \in Module : /\ x \in {m} => status'[x] = "evaluated" /\ ~active'[x]
                            /\ x \notin {m} => status'[x] = status[x] /\ active'[x] = active[x]
      BY <1>2, <2>2, RecordSteps DEF FulfilStep
    <3>2. Steady(status', active', root', parents')
      BY <1>2, <1>3, <2>2, <3>1, SteadyEnd DEF FulfilStep, dfsVars
    <3>3. Len(ctx') = 1 /\ ctx'[1] = List(Available(m)) BY <2>2 DEF FulfilStep
    <3>4. List(Available(m)).frames = <<>> BY DEF List
    <3> QED BY <1>6, <3>2, <3>3, <3>4
  <2>3. ASSUME NEW m \in Module, RejectStep(m)
        PROVE  /\ Steady(status', active', root', parents') /\ ctx' = <<>>
    <3> DEFINE S == Module \cap Ancestors(m)
    <3>1. \A x \in Module : /\ x \in S => status'[x] = "evaluated" /\ ~active'[x]
                            /\ x \notin S => status'[x] = status[x] /\ active'[x] = active[x]
      BY <1>2, <2>3, RecordSteps DEF RejectStep
    <3> HIDE DEF S
    <3>2. S \subseteq Module BY DEF S
    <3> QED BY <1>2, <1>3, <2>3, <3>1, <3>2, SteadyEnd DEF RejectStep, dfsVars
  <2>4. ASSUME NEW m \in Module, WalkStep(m)
        PROVE  /\ Steady(status', active', root', parents')
               /\ \A i \in 1..Len(ctx') : NotYetActive(active', ctx'[i])
    <3>1. Steady(status', active', root', parents') BY <1>3, <2>4 DEF WalkStep, dfsVars
    <3>2. Len(ctx') = 1 /\ ctx'[1] = Walk(m) /\ active' = active /\ ~active[m]
      BY <1>3, <2>4 DEF WalkStep, Steady
    <3>3. Len(Walk(m).frames) = 1 /\ Walk(m).frames[1] = NewFrame(m) /\ NewFrame(m).m = m
      BY WalkTyped DEF NewFrame
    <3>4. NotYetActive(active, Walk(m)) BY <3>2, <3>3 DEF NotYetActive
    <3> QED BY <3>1, <3>2, <3>4
  <2> QED BY <1>8, <2>1, <2>2, <2>3, <2>4 DEF Idling, RestStep
<1>9. CASE Ends
  <2> DEFINE c == ctx[1]
  <2>1. Len(ctx) = 1 /\ c \in Activation BY <1>9 DEF Ends
  <2>2. Members(c.stack) \subseteq Module BY <2>1, SoleFacts
  <2> HIDE DEF c
  <2>3. ASSUME NEW e \in Module, FailStep(c, e)
        PROVE  Steady(status', active', root', parents') /\ ctx' = <<>>
    <3>1. \A x \in Module :
            /\ x \in Members(c.stack) => status'[x] = "evaluated" /\ ~active'[x]
            /\ x \notin Members(c.stack) => status'[x] = status[x] /\ active'[x] = active[x]
      BY <1>2, <2>3, RecordSteps DEF FailStep
    <3> QED BY <1>2, <1>3, <2>2, <2>3, <3>1, SteadyEnd DEF FailStep
  <2>4. CASE EndWalkStep(c) BY <1>3, <2>4 DEF EndWalkStep, dfsVars
  <2>5. CASE EndListStep(c) BY <1>3, <2>5 DEF EndListStep, dfsVars, recVars
  <2> QED BY <1>9, <2>3, <2>4, <2>5 DEF Ends, Working, c, EndWalkStep, EndListStep
<1>10. CASE Replaces
  <2> DEFINE c == ctx[1]
             d == ctx'[1]
  <2>1. Len(ctx) = 1 /\ c \in Activation /\ Len(ctx') = 1 /\ d \in Activation /\ Turning(c, d)
    BY <1>10 DEF Replaces
  <2>2. NotYetActive(active, c) BY <1>4, <2>1
  <2>3. /\ Shape(graph, c) /\ Stacked(status, dfs, c)
        /\ Members(c.stack) \subseteq Module
        /\ \A x \in Members(c.stack) : status[x] = "evaluating"
    BY <2>1, SoleFacts
  <2> SUFFICES Steady(status', active', root', parents') /\ NotYetActive(active', d) BY <2>1
  <2> HIDE DEF c, d
  <2>4. ASSUME NEW f, NEW g, Turned(c, d, f, g), active' = active, g.finish = f.finish
        PROVE  NotYetActive(active', d)
    <3>1. Len(c.frames) \in Nat \ {0} BY <2>1, <2>4, LastFrame DEF Turned
    <3>2. \A k \in 1..Len(c.frames) : k = Len(c.frames) \/ k \in 1..Len(c.frames) - 1 BY <3>1
    <3>3. Len(c.frames) \in 1..Len(c.frames) BY <3>1
    <3> QED BY <2>2, <2>4, <3>2, <3>3 DEF NotYetActive, Turned, FrameSet
  <2>5. ASSUME NEW f \in FrameType, NEW g \in FrameType, EnterStep(c, d, f, g)
        PROVE  Steady(status', active', root', parents') /\ NotYetActive(active', d)
    <3>1. /\ Turned(c, d, f, g) /\ active' = active /\ g.finish = f.finish /\ root' = root
          /\ parents' = parents /\ status' = [status EXCEPT ![f.m] = "evaluating"]
      BY <2>5 DEF EnterStep
    <3>2. /\ Len(c.frames) \in Nat \ {0} /\ f = c.frames[Len(c.frames)] /\ ~f.entered
          /\ f.m \in Module
      BY <2>1, <2>5, <3>1, LastFrame DEF EnterStep, Turned
    <3>3. status[f.m] = "linked" BY <2>3, <3>2 DEF Stacked
    <3>4. \A x \in Module : /\ x # f.m => status'[x] = status[x]
                            /\ x = f.m => status'[x] = "evaluating"
      BY <1>5, <3>1, <3>2
    <3>5. Steady(status', active, root, parents)
      <4> SUFFICES ASSUME NEW x \in Module
                   PROVE  /\ root[x] # x => {status'[x], status'[root[x]]} \subseteq {"async", "evaluated"}
                          /\ active[x] => status'[x] \in {"evaluating", "async"}
                          /\ status'[x] = "async" => active[x]
                          /\ status'[x] \in {"linked", "evaluating"} /\ ~active[x] => parents[x] = <<>>
                          /\ \A p \in Members(parents[x]) : status'[p] # "linked"
        BY DEF Steady
      <4>1. root[x] \in Module /\ Members(parents[x]) \subseteq Module BY <1>5, MembersOf
      <4>2. /\ root[x] # x => {status[x], status[root[x]]} \subseteq {"async", "evaluated"}
            /\ active[x] => status[x] \in {"evaluating", "async"}
            /\ status[x] = "async" => active[x]
            /\ status[x] \in {"linked", "evaluating"} /\ ~active[x] => parents[x] = <<>>
            /\ \A p \in Members(parents[x]) : status[p] # "linked"
        BY <1>3 DEF Steady
      <4> QED BY <3>3, <3>4, <4>1, <4>2
    <3> QED BY <2>4, <3>1, <3>5
  <2>6. ASSUME NEW f \in FrameType, NEW g \in FrameType, ExamineStep(c, d, f, g)
        PROVE  Steady(status', active', root', parents') /\ NotYetActive(active', d)
    <3> DEFINE r == Awaited(Asked(graph, f))
    <3>1. /\ Turned(c, d, f, g) /\ active' = active /\ g.finish = f.finish /\ root' = root
          /\ status' = status /\ r \in Module
          /\ parents' = (IF active[r] THEN Register(r, f.m) ELSE parents)
      BY <2>6 DEF ExamineStep
    <3> HIDE DEF r
    <3>2. /\ Len(c.frames) \in Nat \ {0} /\ f = c.frames[Len(c.frames)] /\ f.entered
          /\ f.m \in Module
      BY <2>1, <2>6, <3>1, LastFrame DEF ExamineStep, Turned
    <3>3. status[f.m] = "evaluating" BY <2>3, <3>2 DEF Stacked
    <3>4. Steady(status, active, root, parents')
      <4>1. CASE ~active[r] BY <1>3, <3>1, <4>1
      <4>2. CASE active[r]
        <5>1. parents' = [parents EXCEPT ![r] = Append(parents[r], f.m)]
          BY <3>1, <4>2 DEF Register
        <5>2. /\ \A x \in Module : x # r => parents'[x] = parents[x]
              /\ parents'[r] = Append(parents[r], f.m)
          BY <1>5, <3>1, <5>1
        <5>3. parents[r] \in Seq(Module) BY <1>5, <3>1
        <5>4. Members(Append(parents[r], f.m)) = Members(parents[r]) \cup {f.m}
          BY <3>2, <5>3, MembersAppend
        <5>5. Members(parents'[r]) = Members(parents[r]) \cup {f.m} BY <5>2, <5>4
        <5>6. ASSUME NEW x \in Module
              PROVE  /\ status[x] \in {"linked", "evaluating"} /\ ~active[x] => parents'[x] = <<>>
                     /\ \A p \in Members(parents'[x]) : status[p] # "linked"
          <6>1. /\ status[x] \in {"linked", "evaluating"} /\ ~active[x] => parents[x] = <<>>
                /\ \A p \in Members(parents[x]) : status[p] # "linked"
            BY <1>3 DEF Steady
          <6>2. CASE x # r BY <5>2, <6>1, <6>2
          <6>3. CASE x = r BY <3>3, <4>2, <5>5, <6>1, <6>3
          <6> QED BY <6>2, <6>3
        <5> QED BY <1>3, <5>6 DEF Steady
      <4> QED BY <4>1, <4>2
    <3> QED BY <2>4, <3>1, <3>4
  <2>7. ASSUME NEW f \in FrameType, NEW g \in FrameType, RequestStep(c, d, f, g)
        PROVE  Steady(status', active', root', parents') /\ NotYetActive(active', d)
    <3>1. UNCHANGED <<status, active, root, parents>> BY <2>7 DEF RequestStep, recVars, dfsVars
    <3> DEFINE q == Asked(graph, g)
               n == Len(c.frames)
    <3>2. n \in Nat \ {0} /\ f = c.frames[n] BY <2>1, <2>7, LastFrame DEF RequestStep
    <3>3. /\ \A k \in 1..n : k = n \/ k \in 1..n - 1
          /\ \A k \in 1..n + 1 : k = n + 1 \/ k = n \/ k \in 1..n - 1
          /\ n \in 1..n
      BY <3>2
    <3>4. NewFrame(q).m = q BY DEF NewFrame
    <3> HIDE DEF q, n
    <3>5. /\ \A k \in 1..n - 1 : d.frames[k] = c.frames[k]
          /\ d.frames[n] = g /\ g.m = f.m /\ g.finish = f.finish
          /\ \/ Len(d.frames) = n
             \/ Len(d.frames) = n + 1 /\ d.frames[n + 1] = NewFrame(q) /\ status[q] = "linked" /\ q \in Module
      BY <2>7 DEF RequestStep, FrameSet, n, q
    <3>6. status[q] = "linked" /\ q \in Module => ~active[q] BY <1>3 DEF Steady
    <3>7. \A k \in 1..n : ~c.frames[k].finish => ~active[c.frames[k].m] BY <2>2 DEF NotYetActive, n
    <3>8. \A k \in 1..n : ~d.frames[k].finish => ~active[d.frames[k].m] BY <3>2, <3>3, <3>5, <3>7
    <3>9. \A k \in 1..Len(d.frames) : ~d.frames[k].finish => ~active[d.frames[k].m]
      <4>1. CASE Len(d.frames) = n BY <3>8, <4>1
      <4>2. CASE Len(d.frames) = n + 1 /\ d.frames[n + 1] = NewFrame(q) /\ status[q] = "linked" /\ q \in Module
        BY <3>3, <3>4, <3>6, <3>8, <4>2
      <4> QED BY <3>5, <4>1, <4>2
    <3> QED BY <1>3, <3>1, <3>9 DEF NotYetActive
  <2>8. ASSUME NEW f \in FrameType, NEW g \in FrameType, ExecuteStep(c, d, f, g)
        PROVE  Steady(status', active', root', parents') /\ NotYetActive(active', d)
    <3> DEFINE n == Len(c.frames)
    <3>1. /\ Turned(c, d, f, g) /\ g.finish /\ UNCHANGED <<status, root, parents>> /\ f.entered
          /\ active' = [active EXCEPT ![f.m] = @ \/ (pend[f.m] > 0 \/ f.m \in graph.tla)]
      BY <2>8 DEF ExecuteStep, dfsVars
    <3>2. n \in Nat \ {0} /\ f = c.frames[n] /\ f.m \in Module BY <2>1, <3>1, LastFrame DEF Turned
    <3>3. f.m \in Members(c.stack) /\ \A l \in 1..n - 1 : dfs[c.frames[l].m] < dfs[f.m]
      BY <2>3, <3>1, <3>2 DEF Stacked
    <3>4. status[f.m] = "evaluating" BY <2>3, <3>3
    <3>5. \A x \in Module : /\ x # f.m => active'[x] = active[x]
                            /\ x = f.m => (active[x] => active'[x])
      BY <1>5, <3>1
    <3>6. Steady(status, active', root, parents)
      <4>1. \A x \in Module : /\ active'[x] => active[x] \/ x = f.m
                              /\ active[x] => active'[x]
        BY <3>5
      <4> QED BY <1>3, <3>4, <4>1 DEF Steady
    <3>7. \A l \in 1..n - 1 : c.frames[l].m # f.m /\ c.frames[l].m \in Module
      <4>1. dfs[f.m] \in Nat BY <1>2, <3>2 DEF Types, TypeOK
      <4>2. \A l \in 1..n - 1 : l \in 1..n BY <3>2
      <4>3. \A l \in 1..n - 1 : c.frames[l].m \in Module BY <2>1, <3>1, <4>2, LastFrame DEF Turned
      <4> QED BY <3>3, <4>1, <4>3
    <3>8. \A k \in 1..n : k = n \/ (k \in 1..n - 1) BY <3>2
    <3>9. \A k \in 1..n - 1 : ~c.frames[k].finish => ~active'[c.frames[k].m]
      <4>1. \A l \in 1..n - 1 : l \in 1..n BY <3>2
      <4> QED BY <2>2, <3>5, <3>7, <4>1 DEF NotYetActive
    <3>10. NotYetActive(active', d)
      BY <3>1, <3>8, <3>9 DEF NotYetActive, Turned, FrameSet
    <3> QED BY <3>1, <3>6, <3>10
  <2>9. ASSUME NEW f \in FrameType, NEW S \in SUBSET Module, FinishStep(c, d, f, S)
        PROVE  Steady(status', active', root', parents') /\ NotYetActive(active', d)
    <3>1. /\ Len(c.frames) \in Nat \ {0} /\ UNCHANGED <<active, parents>>
          /\ Len(d.frames) = Len(c.frames) - 1
          /\ \A k \in 1..Len(c.frames) - 1 : d.frames[k] = c.frames[k]
          /\ S \subseteq Members(c.stack) /\ f.m \in Members(c.stack)
          /\ status' = [x \in Module |-> IF x \notin S THEN status[x]
                                         ELSE IF active[x] THEN "async" ELSE "evaluated"]
          /\ root' = [x \in Module |-> IF x \in S THEN f.m ELSE root[x]]
      BY <2>1, <2>9, LastFrame DEF FinishStep
    <3>2. \A k \in 1..Len(c.frames) - 1 : k \in 1..Len(c.frames) BY <3>1
    <3>3. NotYetActive(active', d) BY <2>2, <3>1, <3>2 DEF NotYetActive
    <3>4. S # {} => f.m \in S
      <4>1. dfs[f.m] \in Nat BY <1>2, <2>3, <3>1 DEF Types, TypeOK
      <4> QED BY <2>9, <3>1, <4>1 DEF FinishStep
    <3>5. \A x \in S : status[x] = "evaluating" /\ status'[x] = IF active[x] THEN "async" ELSE "evaluated"
      BY <2>3, <3>1
    <3>6. \A x \in Module \ S : status'[x] = status[x] /\ root'[x] = root[x] BY <3>1
    <3>7. \A x \in S : root'[x] = f.m BY <3>1
    <3>8. Steady(status', active, root', parents)
      <4> SUFFICES ASSUME NEW x \in Module
                   PROVE  /\ root'[x] # x => {status'[x], status'[root'[x]]} \subseteq {"async", "evaluated"}
                          /\ active[x] => status'[x] \in {"evaluating", "async"}
                          /\ status'[x] = "async" => active[x]
                          /\ status'[x] \in {"linked", "evaluating"} /\ ~active[x] => parents[x] = <<>>
                          /\ \A p \in Members(parents[x]) : status'[p] # "linked"
        BY DEF Steady
      <4>1. root[x] \in Module /\ Members(parents[x]) \subseteq Module BY <1>5, MembersOf
      <4>2. /\ root[x] # x => {status[x], status[root[x]]} \subseteq {"async", "evaluated"}
            /\ active[x] => status[x] \in {"evaluating", "async"}
            /\ status[x] = "async" => active[x]
            /\ status[x] \in {"linked", "evaluating"} /\ ~active[x] => parents[x] = <<>>
            /\ \A p \in Members(parents[x]) : status[p] # "linked"
        BY <1>3 DEF Steady
      <4>3. root'[x] # x => {status'[x], status'[root'[x]]} \subseteq {"async", "evaluated"}
        <5>1. CASE x \in S BY <3>4, <3>5, <3>7, <5>1
        <5>2. CASE x \notin S BY <3>5, <3>6, <4>1, <4>2, <5>2
        <5> QED BY <5>1, <5>2
      <4>4. \A p \in Members(parents[x]) : status'[p] # "linked" BY <3>5, <3>6, <4>1, <4>2
      <4> QED BY <3>5, <3>6, <4>2, <4>3, <4>4
    <3> QED BY <3>1, <3>3, <3>8
  <2>10. ASSUME c.kind = "list", d.frames = c.frames PROVE NotYetActive(active', d)
    BY <1>6, <2>3, <2>10 DEF Shape
  <2>11. CASE ReturnStep(c, d)
    <3>1. CASE c.kind = "list"
      <4>1. Complete(c.body) /\ c.body \in Module /\ d.frames = c.frames /\ UNCHANGED <<root, parents>>
        BY <2>11, <3>1 DEF ReturnStep, Left, dfsVars
      <4>2. \A x \in Module :
              /\ x \in {c.body} => status'[x] = "evaluated" /\ ~active'[x]
              /\ x \notin {c.body} => status'[x] = status[x] /\ active'[x] = active[x]
        BY <1>2, <4>1, RecordSteps
      <4>3. {c.body} \subseteq Module BY <4>1
      <4> QED BY <1>2, <1>3, <2>10, <3>1, <4>1, <4>2, <4>3, SteadyEnd
    <3>2. CASE c.kind # "list"
      <4>1. UNCHANGED <<status, active, root, parents>> /\ d.frames = c.frames
        BY <2>11, <3>2 DEF ReturnStep, Left, dfsVars, recVars
      <4> QED BY <1>3, <2>2, <4>1 DEF NotYetActive
    <3> QED BY <3>1, <3>2
  <2>12. CASE ThrowStep(c, d)
    <3> DEFINE S == Module \cap Ancestors(c.body)
    <3>1. \A x \in Module : /\ x \in S => status'[x] = "evaluated" /\ ~active'[x]
                            /\ x \notin S => status'[x] = status[x] /\ active'[x] = active[x]
      BY <1>2, <2>12, RecordSteps DEF ThrowStep
    <3> HIDE DEF S
    <3>2. S \subseteq Module BY DEF S
    <3>3. UNCHANGED <<root, parents>> /\ d.frames = c.frames /\ c.kind = "list"
      BY <2>12 DEF ThrowStep, Left, dfsVars
    <3> QED BY <1>2, <1>3, <2>10, <3>1, <3>2, <3>3, SteadyEnd
  <2>13. CASE AwaitStep(c, d)
    <3>1. UNCHANGED <<status, active, root, parents>> /\ d.frames = c.frames
      BY <2>13 DEF AwaitStep, Left, dfsVars, recVars
    <3> QED BY <1>3, <2>2, <3>1 DEF NotYetActive
  <2>14. ASSUME NEW x \in Module, RunStep(c, d, x)
         PROVE  Steady(status', active', root', parents') /\ NotYetActive(active', d)
    <3>1. UNCHANGED <<status, active, root, parents>> /\ d.frames = c.frames
      BY <2>14 DEF RunStep, dfsVars, recVars
    <3> QED BY <1>3, <2>2, <3>1 DEF NotYetActive
  <2> QED BY <2>1, <2>5, <2>6, <2>7, <2>8, <2>9, <2>11, <2>12, <2>13, <2>14 DEF Turning
<1> QED BY <1>1, <1>7, <1>8, <1>9, <1>10
-----------------------------------------------------------------------------
\* The frames of the walk in progress.
LEMMA WalkFrames ==
  ASSUME IInv, Len(ctx) = 1, NEW c, c = ctx[1], c.frames # <<>>,
         NEW n, n = Len(c.frames)
  PROVE  /\ n \in Nat \ {0} /\ Members(c.stack) \subseteq Module
         /\ \A x \in Module : dfs[x] \in Nat /\ anc[x] \in Nat
         /\ \A x \in Members(c.stack) : dfs[x] < c.index /\ anc[x] <= dfs[x]
         /\ \A x \in Module : status[x] = "evaluating" <=> x \in Members(c.stack)
         /\ \A x, y \in Members(c.stack) : dfs[x] = dfs[y] => x = y
         /\ \A k \in 1..n : c.frames[k].m \in Module
         /\ \A k \in 1..n : c.frames[k].entered => c.frames[k].m \in Members(c.stack)
         /\ \A k \in 1..n - 1 : /\ k \in 1..n /\ k + 1 \in 1..n /\ k < n /\ k # n
                                /\ k + 1 = n \/ k + 1 \in 1..n - 1
                                /\ c.frames[k].entered /\ c.frames[k].waiting
         /\ \A k \in 1..n : \A l \in 1..k - 1 : c.frames[k].entered =>
              dfs[c.frames[l].m] < dfs[c.frames[k].m]
<1>1. /\ c \in Activation /\ Shape(graph, c) /\ Stacked(status, dfs, c)
      /\ Reaching(Needing, dfs, anc, c) /\ Members(c.stack) \subseteq Module
      /\ \A x \in Members(c.stack) : status[x] = "evaluating"
      /\ \A x \in Module : status[x] = "evaluating" => x \in Members(c.stack)
  BY SoleFacts
<1>2. n \in Nat \ {0} /\ \A k \in 1..n : c.frames[k].m \in Module BY <1>1, LastFrame
<1>3. \A x \in Module : dfs[x] \in Nat /\ anc[x] \in Nat BY DEF IInv, Types, TypeOK
<1>4. \A x \in Members(c.stack) : dfs[x] < c.index /\ anc[x] <= dfs[x]
  BY <1>1 DEF Stacked, Reaching
<1>5. ASSUME NEW x \in Members(c.stack), NEW y \in Members(c.stack), dfs[x] = dfs[y]
      PROVE  x = y
  <2>1. c.stack \in Seq(Module) BY <1>1 DEF Activation
  <2>2. PICK i \in 1..Len(c.stack) : c.stack[i] = x BY <2>1, MembersOf
  <2>3. PICK j \in 1..Len(c.stack) : c.stack[j] = y BY <2>1, MembersOf
  <2>4. \A p, q \in 1..Len(c.stack) : p < q => dfs[c.stack[p]] < dfs[c.stack[q]]
    BY <1>1 DEF Stacked
  <2>5. ~(i < j) /\ ~(j < i)
    <3>1. dfs[x] \in Nat /\ dfs[y] \in Nat BY <1>1, <1>3
    <3>2. i < j => dfs[x] < dfs[y] BY <2>2, <2>3, <2>4
    <3>3. j < i => dfs[y] < dfs[x] BY <2>2, <2>3, <2>4
    <3> QED BY <1>5, <3>1, <3>2, <3>3
  <2>6. i = j BY <2>1, <2>2, <2>3, <2>5
  <2> QED BY <2>2, <2>3, <2>6
<1>6. \A k \in 1..n - 1 : /\ k \in 1..n /\ k + 1 \in 1..n /\ k < n /\ k # n
                          /\ k + 1 = n \/ k + 1 \in 1..n - 1
  BY <1>2
<1>7. \A k \in 1..n - 1 : c.frames[k].waiting BY <1>1 DEF Shape
<1>8. \A k \in 1..n : c.frames[k].waiting => c.frames[k].entered BY <1>1 DEF Shape, FrameOK
<1>9. \A k \in 1..n : c.frames[k].entered =>
        /\ c.frames[k].m \in Members(c.stack)
        /\ \A l \in 1..k - 1 : dfs[c.frames[l].m] < dfs[c.frames[k].m]
  BY <1>1 DEF Stacked
<1>10. \A x \in Module : status[x] = "evaluating" <=> x \in Members(c.stack) BY <1>1
<1> QED BY <1>1, <1>2, <1>3, <1>4, <1>5, <1>6, <1>7, <1>8, <1>9, <1>10

\* A new module has the greatest depth-first index, and nothing waits for it.
LEMMA EnterLow ==
  ASSUME IInv, called = {}, Activity, LowLinks, Len(ctx) = 1, NEW c, c = ctx[1], NEW d,
         NEW f \in FrameType, NEW g \in FrameType, EnterStep(c, d, f, g)
  PROVE  Covered(graph, dfs', anc', d) /\ Registered(status', dfs', anc', parents')
<1> DEFINE n == Len(c.frames)
<1>1. /\ c.frames # <<>> /\ f = c.frames[n] /\ ~f.entered /\ g.entered /\ g.m = f.m
      /\ Len(d.frames) = n /\ d.frames[n] = g /\ \A k \in 1..n - 1 : d.frames[k] = c.frames[k]
      /\ d.stack = Append(c.stack, f.m)
  BY DEF EnterStep, Turned, FrameSet
<1>2. /\ n \in Nat \ {0} /\ Members(c.stack) \subseteq Module
      /\ \A x \in Module : dfs[x] \in Nat /\ anc[x] \in Nat
      /\ \A x \in Members(c.stack) : dfs[x] < c.index
      /\ \A x \in Module : status[x] = "evaluating" <=> x \in Members(c.stack)
      /\ \A k \in 1..n : c.frames[k].m \in Module
      /\ \A k \in 1..n : c.frames[k].entered => c.frames[k].m \in Members(c.stack)
      /\ \A k \in 1..n - 1 : /\ k \in 1..n /\ k + 1 \in 1..n /\ k < n /\ k # n
                             /\ k + 1 = n \/ k + 1 \in 1..n - 1
                             /\ c.frames[k].entered /\ c.frames[k].waiting
  BY <1>1, WalkFrames
<1>3. /\ c \in Activation /\ Stacked(status, dfs, c) BY SoleFacts
<1>4. Covered(graph, dfs, anc, c) /\ Registered(status, dfs, anc, parents) BY DEF LowLinks
<1> HIDE DEF n
<1>5. n \in 1..n /\ f.m \in Module /\ status[f.m] = "linked"
  <2>1. n \in 1..n BY <1>2
  <2>2. f.m \in Module /\ status[f.m] = "linked" BY <1>1, <1>2, <1>3, <2>1 DEF Stacked, n
  <2> QED BY <2>1, <2>2
<1>6. f.m \notin Members(c.stack) BY <1>2, <1>5
<1>7. Members(d.stack) = Members(c.stack) \cup {f.m}
  BY <1>1, <1>3, <1>5, MembersAppend DEF Activation
<1>8. /\ dfs'[f.m] = c.index /\ anc'[f.m] = c.index /\ status'[f.m] = "evaluating"
      /\ \A x \in Module : x # f.m => dfs'[x] = dfs[x] /\ anc'[x] = anc[x] /\ status'[x] = status[x]
      /\ parents' = parents
  <2>1. /\ dfs \in [Module -> Nat] /\ anc \in [Module -> Nat] /\ status \in [Module -> Statuses]
    BY DEF IInv, Types, TypeOK
  <2> QED BY <1>5, <2>1 DEF EnterStep
<1>9. c.index \in Nat BY <1>3 DEF Activation
<1>10. \A k \in 1..n - 1 : d.frames[k + 1].m = c.frames[k + 1].m /\ d.frames[k + 1].entered
  <2> SUFFICES ASSUME NEW k \in 1..n - 1
               PROVE  d.frames[k + 1].m = c.frames[k + 1].m /\ d.frames[k + 1].entered
    OBVIOUS
  <2>1. CASE k + 1 = n BY <1>1, <2>1
  <2>2. CASE k + 1 \in 1..n - 1 BY <1>1, <1>2, <2>2
  <2> QED BY <1>2, <2>1, <2>2
<1>11. \A k \in 1..n - 1 : d.frames[k + 1].m = Asked(graph, d.frames[k])
  BY <1>1, <1>4, <1>10 DEF Covered, n
<1>12. ASSUME NEW k \in 1..n, NEW x \in Members(d.stack), dfs'[x] > dfs'[d.frames[k].m]
       PROVE  \/ anc'[d.frames[k].m] <= anc'[x]
              \/ k < n /\ d.frames[k + 1].entered /\ dfs'[d.frames[k + 1].m] <= dfs'[x]
  <2>1. \A y \in Members(d.stack) : dfs'[y] \in Nat /\ dfs'[y] <= c.index
    BY <1>2, <1>6, <1>7, <1>8, <1>9
  <2>2. k # n BY <1>1, <1>8, <1>9, <1>12, <2>1
  <2>3. k \in 1..n - 1 BY <1>2, <2>2
  <2>4. /\ d.frames[k] = c.frames[k] /\ c.frames[k].entered /\ k < n
        /\ c.frames[k].m \in Members(c.stack) /\ c.frames[k].m # f.m /\ c.frames[k].m \in Module
    BY <1>1, <1>2, <1>6, <2>3
  <2>5. d.frames[k + 1].entered /\ d.frames[k + 1].m = c.frames[k + 1].m BY <1>10, <2>3
  <2>6. CASE x = f.m
    <3>1. d.frames[k + 1].m \in Members(d.stack)
      <4>1. CASE k + 1 = n BY <1>1, <1>7, <4>1
      <4>2. CASE k + 1 \in 1..n - 1 BY <1>2, <1>7, <2>5, <4>2
      <4> QED BY <1>2, <2>3, <4>1, <4>2
    <3>2. dfs'[d.frames[k + 1].m] <= dfs'[x] BY <1>8, <2>1, <2>6, <3>1
    <3> QED BY <2>4, <2>5, <3>2
  <2>7. CASE x # f.m
    <3>1. x \in Members(c.stack) /\ x \in Module BY <1>2, <1>7, <2>7
    <3>2. dfs[x] > dfs[c.frames[k].m] BY <1>8, <1>12, <2>4, <2>7, <3>1
    <3>3. \/ anc[c.frames[k].m] <= anc[x]
          \/ c.frames[k + 1].entered /\ dfs[c.frames[k + 1].m] <= dfs[x]
      BY <1>2, <1>4, <2>3, <2>4, <3>1, <3>2 DEF Covered, n
    <3>4. CASE anc[c.frames[k].m] <= anc[x] BY <1>8, <2>4, <2>7, <3>1, <3>4
    <3>5. CASE c.frames[k + 1].entered /\ dfs[c.frames[k + 1].m] <= dfs[x]
      <4>1. c.frames[k + 1].m \in Members(c.stack) BY <1>2, <2>3, <3>5
      <4>2. c.frames[k + 1].m # f.m /\ c.frames[k + 1].m \in Module BY <1>2, <1>6, <4>1
      <4> QED BY <1>8, <2>4, <2>5, <2>7, <3>1, <3>5, <4>2
    <3> QED BY <3>3, <3>4, <3>5
  <2> QED BY <2>6, <2>7
<1>13. Covered(graph, dfs', anc', d) BY <1>1, <1>11, <1>12 DEF Covered, n
<1>14. ASSUME NEW x \in Module, status'[x] = "evaluating", NEW p \in Members(parents[x])
       PROVE  status'[p] = "evaluating" /\ anc'[p] <= dfs'[x]
  <2>1. CASE x = f.m
    <3>1. parents[f.m] = <<>> BY <1>5 DEF Activity
    <3> QED BY <1>14, <2>1, <3>1, MembersEmpty
  <2>2. CASE x # f.m
    <3>1. status[x] = "evaluating" BY <1>8, <1>14, <2>2
    <3>2. status[p] = "evaluating" /\ anc[p] <= dfs[x] BY <1>4, <1>14, <3>1 DEF Registered
    <3>3. p \in Module
      <4>1. parents[x] \in Seq(Module) BY DEF IInv, Types, TypeOK
      <4> QED BY <1>14, <4>1, MembersOf
    <3> QED BY <1>5, <1>8, <2>2, <3>2, <3>3
  <2> QED BY <2>1, <2>2
<1> QED BY <1>8, <1>13, <1>14 DEF Registered

\* Folding in what was asked for covers the modules it covers.
LEMMA ExamineLow ==
  ASSUME IInv, called = {}, Activity, LowLinks, Len(ctx) = 1, NEW c, c = ctx[1], NEW d,
         NEW f \in FrameType, NEW g \in FrameType, ExamineStep(c, d, f, g)
  PROVE  Covered(graph, dfs', anc', d) /\ Registered(status', dfs', anc', parents')
<1> DEFINE n == Len(c.frames)
           q == Asked(graph, f)
           r == Awaited(q)
<1>1. /\ c.frames # <<>> /\ f = c.frames[n] /\ f.entered /\ g.m = f.m /\ f.waiting
      /\ g.entered /\ g.next = f.next
      /\ Len(d.frames) = n /\ d.frames[n] = g /\ \A k \in 1..n - 1 : d.frames[k] = c.frames[k]
      /\ d.stack = c.stack /\ UNCHANGED <<dfs, status, active, root>> /\ r \in Module
      /\ anc' = [anc EXCEPT ![f.m] = LowLink(f.m, q)]
      /\ parents' = (IF active[r] THEN Register(r, f.m) ELSE parents)
      /\ q \in Requested(f.m)
  BY DEF ExamineStep, Turned, FrameSet
<1>2. /\ n \in Nat \ {0} /\ Members(c.stack) \subseteq Module
      /\ \A x \in Module : dfs[x] \in Nat /\ anc[x] \in Nat
      /\ \A x \in Members(c.stack) : anc[x] <= dfs[x]
      /\ \A x \in Module : status[x] = "evaluating" <=> x \in Members(c.stack)
      /\ \A k \in 1..n : c.frames[k].m \in Module
      /\ \A k \in 1..n : c.frames[k].entered => c.frames[k].m \in Members(c.stack)
      /\ \A k \in 1..n - 1 : /\ k \in 1..n /\ k + 1 \in 1..n /\ k < n /\ k # n
                             /\ k + 1 = n \/ k + 1 \in 1..n - 1
                             /\ c.frames[k].entered /\ c.frames[k].waiting
      /\ \A k \in 1..n : \A l \in 1..k - 1 : c.frames[k].entered =>
           dfs[c.frames[l].m] < dfs[c.frames[k].m]
  BY <1>1, WalkFrames
<1>3. Covered(graph, dfs, anc, c) /\ Registered(status, dfs, anc, parents) BY DEF LowLinks
<1>4. n \in 1..n /\ f.m \in Module /\ f.m \in Members(c.stack) /\ status[f.m] = "evaluating"
  <2>1. n \in 1..n BY <1>2
  <2> QED BY <1>1, <1>2, <2>1
<1>5. q \in Module BY <1>1, <1>4, RequestTyped DEF IInv
<1>6. Asked(graph, g) = q BY <1>1 DEF Asked
<1>7. r = IF status[q] = "evaluating" THEN q ELSE root[q] BY DEF Awaited
<1> HIDE DEF n, q, r
<1>8. /\ \A x \in Module : x # f.m => anc'[x] = anc[x]
      /\ anc'[f.m] = LowLink(f.m, q) /\ anc'[f.m] <= anc[f.m]
      /\ status[q] = "evaluating" => anc'[f.m] <= anc[q]
      /\ \A x \in Module : anc'[x] <= anc[x] /\ anc'[x] \in Nat
  <2>1. anc \in [Module -> Nat] BY DEF IInv, Types, TypeOK
  <2>2. \A x \in Module : x # f.m => anc'[x] = anc[x] BY <1>1, <2>1
  <2>3. anc'[f.m] = LowLink(f.m, q) BY <1>1, <1>4, <2>1
  <2>4. anc[f.m] \in Nat /\ anc[q] \in Nat BY <1>2, <1>4, <1>5
  <2>5. /\ anc'[f.m] <= anc[f.m] /\ anc'[f.m] \in Nat
        /\ status[q] = "evaluating" => anc'[f.m] <= anc[q]
    BY <2>3, <2>4 DEF LowLink
  <2> QED BY <1>2, <1>4, <2>2, <2>3, <2>5
<1>9. \A k \in 1..n - 1 : d.frames[k + 1].m = c.frames[k + 1].m /\ d.frames[k + 1].entered
  <2> SUFFICES ASSUME NEW k \in 1..n - 1
               PROVE  d.frames[k + 1].m = c.frames[k + 1].m /\ d.frames[k + 1].entered
    OBVIOUS
  <2>1. CASE k + 1 = n BY <1>1, <2>1
  <2>2. CASE k + 1 \in 1..n - 1 BY <1>1, <1>2, <2>2
  <2> QED BY <1>2, <2>1, <2>2
<1>10. \A k \in 1..n - 1 : d.frames[k + 1].m = Asked(graph, d.frames[k])
  BY <1>1, <1>3, <1>9 DEF Covered, n
<1>11. ASSUME NEW k \in 1..n, NEW x \in Members(c.stack), dfs[x] > dfs[d.frames[k].m]
       PROVE  \/ anc'[d.frames[k].m] <= anc'[x]
              \/ k < n /\ d.frames[k + 1].entered /\ dfs[d.frames[k + 1].m] <= dfs[x]
  <2>1. CASE k = n
    <3>1. d.frames[k].m = f.m /\ c.frames[k] = f /\ dfs[x] > dfs[f.m] BY <1>1, <1>11, <2>1
    <3>2. x \in Module /\ x # f.m BY <1>2, <1>4, <3>1
    <3>3. \/ anc[f.m] <= anc[x]
          \/ Asked(graph, f) \in Members(c.stack) /\ anc[Asked(graph, f)] <= anc[x]
      <4>1. c.frames[k].entered /\ k \in 1..n /\ ~(k < n) BY <1>1, <1>2, <2>1, <3>1
      <4>2. \/ anc[c.frames[k].m] <= anc[x] \/ k < n
            \/ /\ Asked(graph, c.frames[k]) \in Members(c.stack)
               /\ anc[Asked(graph, c.frames[k])] <= anc[x]
        BY <1>3, <3>1, <4>1 DEF Covered, n
      <4> QED BY <3>1, <4>1, <4>2
    <3>4. anc'[f.m] <= anc[x]
      <4>1. /\ anc'[f.m] \in Nat /\ anc[f.m] \in Nat /\ anc[x] \in Nat /\ anc[q] \in Nat
        BY <1>2, <1>4, <1>5, <1>8, <3>2
      <4>2. CASE anc[f.m] <= anc[x] BY <1>8, <4>1, <4>2
      <4>3. CASE q \in Members(c.stack) /\ anc[q] <= anc[x] BY <1>2, <1>5, <1>8, <4>1, <4>3
      <4> QED BY <3>3, <4>2, <4>3 DEF q
    <3> QED BY <1>8, <3>1, <3>2, <3>4
  <2>2. CASE k # n
    <3>1. k \in 1..n - 1 BY <1>2, <2>2
    <3>2. /\ d.frames[k] = c.frames[k] /\ c.frames[k].entered /\ k < n
          /\ c.frames[k].m \in Module /\ d.frames[k + 1].entered
          /\ d.frames[k + 1].m = c.frames[k + 1].m /\ k + 1 \in 1..n
      BY <1>1, <1>2, <1>9, <3>1
    <3>3. dfs[c.frames[k].m] < dfs[f.m] BY <1>1, <1>2, <1>4, <3>1
    <3>4. c.frames[k].m # f.m BY <1>2, <1>4, <3>2, <3>3
    <3>5. CASE x = f.m
      <4>1. dfs[c.frames[k + 1].m] <= dfs[f.m]
        <5>1. c.frames[k + 1].m \in Module BY <1>2, <3>2
        <5>2. CASE k + 1 = n BY <1>1, <1>2, <1>4, <5>2
        <5>3. CASE k + 1 \in 1..n - 1
          <6>1. dfs[c.frames[k + 1].m] < dfs[c.frames[n].m]
            <7>1. n \in 1..n /\ c.frames[n].entered BY <1>1, <1>4
            <7> QED BY <1>2, <5>3, <7>1
          <6>2. dfs[c.frames[k + 1].m] \in Nat /\ dfs[f.m] \in Nat BY <1>2, <1>4, <5>1
          <6> QED BY <1>1, <6>1, <6>2
        <5> QED BY <1>2, <3>1, <5>2, <5>3
      <4> QED BY <3>2, <3>5, <4>1
    <3>6. CASE x # f.m
      <4>1. x \in Module BY <1>2
      <4>2. \/ anc[c.frames[k].m] <= anc[x]
            \/ c.frames[k + 1].entered /\ dfs[c.frames[k + 1].m] <= dfs[x]
        BY <1>2, <1>3, <1>11, <3>1, <3>2 DEF Covered, n
      <4> QED BY <1>8, <3>2, <3>4, <3>6, <4>1, <4>2
    <3> QED BY <3>5, <3>6
  <2> QED BY <2>1, <2>2
<1>12. Covered(graph, dfs', anc', d) BY <1>1, <1>10, <1>11 DEF Covered, n
<1>13. ASSUME NEW x \in Module, status[x] = "evaluating", NEW p \in Members(parents'[x])
       PROVE  status[p] = "evaluating" /\ anc'[p] <= dfs[x]
  <2>1. parents \in [Module -> Seq(Module)] BY DEF IInv, Types, TypeOK
  <2>2. CASE p \in Members(parents[x])
    <3>1. status[p] = "evaluating" /\ anc[p] <= dfs[x] BY <1>3, <1>13, <2>2 DEF Registered
    <3>2. p \in Module BY <2>1, <2>2, MembersOf
    <3>3. anc'[p] <= anc[p] /\ anc'[p] \in Nat /\ anc[p] \in Nat /\ dfs[x] \in Nat
      BY <1>2, <1>8, <3>2
    <3> QED BY <3>1, <3>3
  <2>3. CASE p \notin Members(parents[x])
    <3>1. parents' # parents BY <1>13, <2>3
    <3>2. active[r] /\ parents' = [parents EXCEPT ![r] = Append(parents[r], f.m)]
      BY <1>1, <3>1 DEF Register
    <3>3. x = r BY <1>13, <2>1, <2>3, <3>2
    <3>4. parents[r] \in Seq(Module) /\ parents'[r] = Append(parents[r], f.m)
      BY <1>1, <2>1, <3>2
    <3>5. Members(Append(parents[r], f.m)) = Members(parents[r]) \cup {f.m}
      BY <1>4, <3>4, MembersAppend
    <3>6. p = f.m BY <1>13, <2>3, <3>3, <3>4, <3>5
    <3>7. status[q] = "evaluating" /\ r = q
      <4>1. root[q] # q => status[root[q]] \in {"async", "evaluated"} BY <1>5 DEF Activity
      <4> QED BY <1>7, <1>13, <3>3, <4>1
    <3>8. anc[q] <= dfs[q] BY <1>2, <1>5, <3>7
    <3>9. anc'[f.m] <= dfs[q]
      <4>1. anc'[f.m] \in Nat /\ anc[q] \in Nat /\ dfs[q] \in Nat BY <1>2, <1>4, <1>5, <1>8
      <4> QED BY <1>8, <3>7, <3>8, <4>1
    <3> QED BY <1>4, <3>3, <3>6, <3>7, <3>9
  <2> QED BY <2>2, <2>3
<1> QED BY <1>1, <1>12, <1>13 DEF Registered

\* Asking for a module and starting the body change no index.
LEMMA RequestLow ==
  ASSUME IInv, called = {}, LowLinks, Len(ctx) = 1, NEW c, c = ctx[1], NEW d,
         NEW f \in FrameType, NEW g \in FrameType, RequestStep(c, d, f, g) \/ ExecuteStep(c, d, f, g)
  PROVE  Covered(graph, dfs', anc', d) /\ Registered(status', dfs', anc', parents')
<1> DEFINE n == Len(c.frames)
           new == Len(d.frames) = n + 1 /\ d.frames[n + 1] = NewFrame(Asked(graph, g))
<1>1. /\ c.frames # <<>> /\ f = c.frames[n] /\ f.entered /\ g.m = f.m /\ ~f.waiting /\ g.entered
      /\ Len(d.frames) = n \/ new
      /\ d.frames[n] = g /\ \A k \in 1..n - 1 : d.frames[k] = c.frames[k]
      /\ d.stack = c.stack /\ UNCHANGED <<dfs, anc, status, parents>>
  BY DEF RequestStep, ExecuteStep, Turned, FrameSet, recVars, dfsVars
<1>2. /\ n \in Nat \ {0}
      /\ \A k \in 1..n - 1 : /\ k \in 1..n /\ k + 1 \in 1..n /\ k < n /\ k # n
                             /\ k + 1 = n \/ k + 1 \in 1..n - 1
                             /\ c.frames[k].entered /\ c.frames[k].waiting
  BY <1>1, WalkFrames
<1>3. Covered(graph, dfs, anc, c) /\ Registered(status, dfs, anc, parents) BY DEF LowLinks
<1>4. ~NewFrame(Asked(graph, g)).entered /\ NewFrame(Asked(graph, g)).m = Asked(graph, g)
  BY DEF NewFrame
<1> HIDE DEF n
<1>5. \A k \in 1..n - 1 : d.frames[k + 1].m = c.frames[k + 1].m /\ d.frames[k + 1].entered
  <2> SUFFICES ASSUME NEW k \in 1..n - 1
               PROVE  d.frames[k + 1].m = c.frames[k + 1].m /\ d.frames[k + 1].entered
    OBVIOUS
  <2>1. CASE k + 1 = n BY <1>1, <2>1
  <2>2. CASE k + 1 \in 1..n - 1 BY <1>1, <1>2, <2>2
  <2> QED BY <1>2, <2>1, <2>2
<1>6. \A k \in 1..n - 1 : d.frames[k + 1].m = Asked(graph, d.frames[k])
  BY <1>1, <1>3, <1>5 DEF Covered, n
<1>7. ASSUME NEW k \in 1..n, NEW x \in Members(c.stack), dfs[x] > dfs[d.frames[k].m]
      PROVE  \/ anc[d.frames[k].m] <= anc[x]
             \/ k < n /\ d.frames[k + 1].entered /\ dfs[d.frames[k + 1].m] <= dfs[x]
  <2>1. d.frames[k].m = c.frames[k].m /\ c.frames[k].entered
    <3>1. k = n \/ k \in 1..n - 1 BY <1>2
    <3> QED BY <1>1, <1>2, <3>1
  <2>2. \/ anc[c.frames[k].m] <= anc[x]
        \/ k < n /\ c.frames[k + 1].entered /\ dfs[c.frames[k + 1].m] <= dfs[x]
        \/ k = n /\ c.frames[k].waiting
    BY <1>3, <1>7, <2>1 DEF Covered, n
  <2>3. k < n => k \in 1..n - 1 BY <1>2
  <2> QED BY <1>1, <1>5, <2>1, <2>2, <2>3
<1>8. /\ \A k \in 1..Len(d.frames) - 1 : d.frames[k + 1].m = Asked(graph, d.frames[k])
      /\ \A k \in 1..Len(d.frames) : k \in 1..n \/ ~d.frames[k].entered
      /\ n <= Len(d.frames)
  <2>1. CASE Len(d.frames) = n BY <1>2, <1>6, <2>1
  <2>2. CASE new
    <3>1. n + 1 - 1 = n /\ \A k \in 1..n : k \in 1..n - 1 \/ k = n BY <1>2
    <3>2. \A k \in 1..n + 1 : k \in 1..n \/ k = n + 1 BY <1>2
    <3>3. n <= n + 1 BY <1>2
    <3>4. d.frames[n + 1].m = Asked(graph, d.frames[n]) BY <1>1, <1>4, <2>2
    <3>5. \A k \in 1..n : d.frames[k + 1].m = Asked(graph, d.frames[k])
      BY <1>6, <3>1, <3>4
    <3>6. \A k \in 1..n + 1 : k \in 1..n \/ ~d.frames[k].entered BY <1>4, <2>2, <3>2
    <3>7. Len(d.frames) = n + 1 BY <2>2
    <3>8. \A k \in 1..Len(d.frames) - 1 : d.frames[k + 1].m = Asked(graph, d.frames[k])
      <4>1. Len(d.frames) - 1 = n BY <1>2, <3>7
      <4> QED BY <3>5, <4>1
    <3>9. \A k \in 1..Len(d.frames) : k \in 1..n \/ ~d.frames[k].entered BY <3>6, <3>7
    <3> QED BY <3>3, <3>7, <3>8, <3>9
  <2> QED BY <1>1, <2>1, <2>2
<1>9. \A k \in 1..n : k < n => k < Len(d.frames)
  <2>1. Len(d.frames) = n \/ Len(d.frames) = n + 1 BY <1>1
  <2> QED BY <1>2, <2>1
<1>10. Covered(graph, dfs, anc, d)
  <2>1. ASSUME NEW k \in 1..Len(d.frames), d.frames[k].entered,
               NEW x \in Members(d.stack), dfs[x] > dfs[d.frames[k].m]
        PROVE  \/ anc[d.frames[k].m] <= anc[x]
               \/ k < Len(d.frames) /\ d.frames[k + 1].entered /\ dfs[d.frames[k + 1].m] <= dfs[x]
    BY <1>1, <1>7, <1>8, <1>9, <2>1
  <2> QED BY <1>8, <2>1 DEF Covered
<1> QED BY <1>1, <1>3, <1>10 DEF Registered

\* A module that does not end its cycle is covered by the frame before it; one
\* that does is popped with all the modules that wait for it.
LEMMA FinishLow ==
  ASSUME IInv, called = {}, LowLinks, Len(ctx) = 1, NEW c, c = ctx[1], NEW d,
         NEW f \in FrameType, NEW S \in SUBSET Module, FinishStep(c, d, f, S)
  PROVE  Covered(graph, dfs', anc', d) /\ Registered(status', dfs', anc', parents')
<1> DEFINE n == Len(c.frames)
<1>1. /\ c.frames # <<>> /\ f = c.frames[n] /\ f.entered /\ ~f.waiting
      /\ Len(d.frames) = n - 1 /\ \A k \in 1..n - 1 : d.frames[k] = c.frames[k]
      /\ Members(d.stack) = Members(c.stack) \ S /\ f.m \in Members(c.stack)
      /\ S \subseteq Members(c.stack)
      /\ IF anc[f.m] = dfs[f.m] THEN S = {x \in Members(c.stack) : dfs[f.m] <= dfs[x]} ELSE S = {}
      /\ UNCHANGED <<dfs, anc, parents>>
      /\ status' = [x \in Module |-> IF x \notin S THEN status[x]
                                     ELSE IF active[x] THEN "async" ELSE "evaluated"]
  BY DEF FinishStep
<1>2. /\ n \in Nat \ {0} /\ Members(c.stack) \subseteq Module
      /\ \A x \in Module : dfs[x] \in Nat /\ anc[x] \in Nat
      /\ \A x \in Module : status[x] = "evaluating" <=> x \in Members(c.stack)
      /\ \A x, y \in Members(c.stack) : dfs[x] = dfs[y] => x = y
      /\ \A k \in 1..n - 1 : /\ k \in 1..n /\ k + 1 \in 1..n /\ k < n /\ k # n
                             /\ k + 1 = n \/ k + 1 \in 1..n - 1
                             /\ c.frames[k].entered /\ c.frames[k].waiting
  BY <1>1, WalkFrames
<1>3. Covered(graph, dfs, anc, c) /\ Registered(status, dfs, anc, parents) BY DEF LowLinks
<1> HIDE DEF n
<1>4. ASSUME NEW x \in Members(c.stack), dfs[f.m] <= dfs[x] PROVE anc[f.m] <= anc[x]
  <2>1. x \in Module /\ f.m \in Module BY <1>1, <1>2
  <2>2. dfs[x] \in Nat /\ dfs[f.m] \in Nat /\ anc[f.m] \in Nat BY <1>2, <2>1
  <2>3. CASE dfs[x] = dfs[f.m]
    <3>1. x = f.m BY <1>1, <1>2, <2>3
    <3> QED BY <2>2, <3>1
  <2>4. CASE dfs[x] > dfs[f.m]
    <3>1. n \in 1..n /\ ~(n < n) BY <1>2
    <3>2. \/ anc[c.frames[n].m] <= anc[x] \/ n < n \/ c.frames[n].waiting
      BY <1>1, <1>3, <2>4, <3>1 DEF Covered, n
    <3> QED BY <1>1, <3>1, <3>2
  <2> QED BY <1>4, <2>2, <2>3, <2>4
<1>5. \A k \in 1..n - 1 - 1 : /\ k \in 1..n - 1 /\ k + 1 \in 1..n - 1 BY <1>2
<1>6. \A k \in 1..n - 1 - 1 : d.frames[k + 1].m = Asked(graph, d.frames[k])
  BY <1>1, <1>3, <1>5 DEF Covered, n
<1>7. ASSUME NEW k \in 1..n - 1, NEW x \in Members(d.stack), dfs[x] > dfs[d.frames[k].m]
      PROVE  \/ anc[d.frames[k].m] <= anc[x]
             \/ k < n - 1 /\ d.frames[k + 1].entered /\ dfs[d.frames[k + 1].m] <= dfs[x]
             \/ /\ k = n - 1 /\ d.frames[k].waiting
                /\ Asked(graph, d.frames[k]) \in Members(d.stack)
                /\ anc[Asked(graph, d.frames[k])] <= anc[x]
  <2>1. /\ d.frames[k] = c.frames[k] /\ k \in 1..n /\ k # n /\ c.frames[k].entered
        /\ c.frames[k].waiting /\ x \in Members(c.stack) /\ x \notin S /\ x \in Module
    BY <1>1, <1>2
  <2>2. \/ anc[c.frames[k].m] <= anc[x]
        \/ c.frames[k + 1].entered /\ dfs[c.frames[k + 1].m] <= dfs[x]
    BY <1>3, <1>7, <2>1 DEF Covered, n
  <2>3. CASE anc[c.frames[k].m] <= anc[x] BY <2>1, <2>3
  <2>4. CASE /\ c.frames[k + 1].entered /\ dfs[c.frames[k + 1].m] <= dfs[x] /\ k + 1 # n
    <3>1. k + 1 \in 1..n - 1 BY <1>2, <2>4
    <3>2. d.frames[k + 1] = c.frames[k + 1] BY <1>1, <3>1
    <3>3. k < n - 1 BY <1>2, <3>1
    <3> QED BY <2>4, <3>2, <3>3
  <2>5. CASE /\ dfs[c.frames[k + 1].m] <= dfs[x] /\ k + 1 = n
    <3>1. dfs[f.m] <= dfs[x] BY <1>1, <2>5
    <3>2. anc[f.m] # dfs[f.m] BY <1>1, <2>1, <3>1
    <3>3. f.m \in Members(d.stack) BY <1>1, <3>2
    <3>4. c.frames[k + 1].m = Asked(graph, c.frames[k]) BY <1>3 DEF Covered, n
    <3>5. Asked(graph, d.frames[k]) = f.m BY <1>1, <2>1, <2>5, <3>4
    <3>6. anc[f.m] <= anc[x] BY <1>4, <2>1, <3>1
    <3>7. k = n - 1 BY <1>2, <2>5
    <3> QED BY <2>1, <3>3, <3>5, <3>6, <3>7
  <2> QED BY <2>2, <2>3, <2>4, <2>5
<1>8. Covered(graph, dfs, anc, d)
  <2>1. ASSUME NEW k \in 1..Len(d.frames), d.frames[k].entered,
               NEW x \in Members(d.stack), dfs[x] > dfs[d.frames[k].m]
        PROVE  \/ anc[d.frames[k].m] <= anc[x]
               \/ k < Len(d.frames) /\ d.frames[k + 1].entered /\ dfs[d.frames[k + 1].m] <= dfs[x]
               \/ /\ k = Len(d.frames) /\ d.frames[k].waiting
                  /\ Asked(graph, d.frames[k]) \in Members(d.stack)
                  /\ anc[Asked(graph, d.frames[k])] <= anc[x]
    BY <1>1, <1>7, <2>1
  <2>2. \A k \in 1..Len(d.frames) - 1 : d.frames[k + 1].m = Asked(graph, d.frames[k])
    BY <1>1, <1>6
  <2> QED BY <2>1, <2>2 DEF Covered
<1>9. ASSUME NEW x \in Module, status'[x] = "evaluating", NEW p \in Members(parents[x])
      PROVE  status'[p] = "evaluating" /\ anc[p] <= dfs[x]
  <2>1. x \notin S /\ status[x] = "evaluating" BY <1>1, <1>9
  <2>2. status[p] = "evaluating" /\ anc[p] <= dfs[x] BY <1>3, <1>9, <2>1 DEF Registered
  <2>3. p \in Module
    <3>1. parents[x] \in Seq(Module) BY DEF IInv, Types, TypeOK
    <3> QED BY <1>9, <3>1, MembersOf
  <2>4. p \notin S
    <3> SUFFICES ASSUME p \in S PROVE FALSE OBVIOUS
    <3>1. anc[f.m] = dfs[f.m] /\ dfs[f.m] <= dfs[p] /\ p \in Members(c.stack) BY <1>1
    <3>2. anc[f.m] <= anc[p] BY <1>4, <3>1
    <3>3. x \in Members(c.stack) BY <1>2, <2>1
    <3>4. ~(dfs[f.m] <= dfs[x]) BY <1>1, <2>1, <3>1, <3>3
    <3>5. f.m \in Module BY <1>1, <1>2
    <3>6. dfs[f.m] \in Nat /\ dfs[x] \in Nat /\ anc[p] \in Nat /\ anc[f.m] \in Nat
      BY <1>2, <2>3, <3>5
    <3> QED BY <2>2, <3>1, <3>2, <3>4, <3>6
  <2>5. status'[p] = status[p] BY <1>1, <2>3, <2>4
  <2> QED BY <2>2, <2>5
<1> QED BY <1>1, <1>8, <1>9 DEF Registered

\* The low links are kept by every step.
LEMMA LowLinksPreserved ==
  ASSUME IInv, Alone, Activity, LowLinks, [Next]_vars
  PROVE  LowLinks'
<1> SUFFICES ASSUME called' = {}
             PROVE  /\ \A i \in 1..Len(ctx') : Covered(graph', dfs', anc', ctx'[i])
                    /\ Registered(status', dfs', anc', parents')
  BY DEF LowLinks
<1>1. /\ called = {} /\ graph' = graph
      /\ UNCHANGED vars \/ (ctx = <<>> /\ Idling) \/ Replaces \/ Ends
  BY ImportSteps
<1>2. Types BY DEF IInv
<1>3. /\ \A i \in 1..Len(ctx) : Covered(graph, dfs, anc, ctx[i])
      /\ Registered(status, dfs, anc, parents)
  BY <1>1 DEF LowLinks
<1>4. ASSUME NEW c, c.frames = <<>>, NEW d, NEW a PROVE Covered(graph, d, a, c)
  BY <1>4 DEF Covered
<1>5. ASSUME \A x \in Module : status'[x] # "evaluating"
      PROVE  Registered(status', dfs', anc', parents')
  BY <1>5 DEF Registered
<1>6. CASE UNCHANGED vars BY <1>3, <1>6 DEF vars, recVars, dfsVars, asyVars
<1>7. CASE ctx = <<>> /\ Idling
  <2>1. \A x \in Module : status[x] # "evaluating" BY <1>7 DEF IInv, Stacks
  <2>2. CASE RestStep BY <1>5, <2>1, <2>2 DEF RestStep
  <2>3. ASSUME NEW m \in Module, FulfilStep(m)
        PROVE  /\ \A i \in 1..Len(ctx') : Covered(graph', dfs', anc', ctx'[i])
               /\ Registered(status', dfs', anc', parents')
    <3>1. \A x \in Module : status'[x] # "evaluating"
      BY <1>2, <2>1, <2>3, RecordSteps DEF FulfilStep
    <3>2. Len(ctx') = 1 /\ ctx'[1] = List(Available(m)) BY <2>3 DEF FulfilStep
    <3>3. List(Available(m)).frames = <<>> BY DEF List
    <3> QED BY <1>1, <1>4, <1>5, <3>1, <3>2, <3>3
  <2>4. ASSUME NEW m \in Module, RejectStep(m)
        PROVE  ctx' = <<>> /\ Registered(status', dfs', anc', parents')
    <3>1. \A x \in Module : status'[x] # "evaluating"
      BY <1>2, <2>1, <2>4, RecordSteps DEF RejectStep
    <3> QED BY <1>5, <2>4, <3>1 DEF RejectStep
  <2>5. ASSUME NEW m \in Module, WalkStep(m)
        PROVE  /\ \A i \in 1..Len(ctx') : Covered(graph', dfs', anc', ctx'[i])
               /\ Registered(status', dfs', anc', parents')
    <3>1. Len(ctx') = 1 /\ ctx'[1] = Walk(m) /\ status' = status BY <2>5 DEF WalkStep
    <3>2. /\ Len(Walk(m).frames) = 1 /\ Walk(m).frames[1] = NewFrame(m)
          /\ ~NewFrame(m).entered
      BY WalkTyped DEF NewFrame
    <3>3. Covered(graph, dfs', anc', Walk(m)) BY <3>2 DEF Covered
    <3> QED BY <1>1, <1>5, <2>1, <3>1, <3>3
  <2> QED BY <1>7, <2>2, <2>3, <2>4, <2>5 DEF Idling, RestStep
<1>8. CASE Ends
  <2> DEFINE c == ctx[1]
  <2>1. Len(ctx) = 1 /\ c \in Activation BY <1>8 DEF Ends
  <2>2. \A x \in Module : status[x] = "evaluating" => x \in Members(c.stack) BY <2>1, SoleFacts
  <2> HIDE DEF c
  <2>3. ASSUME NEW e \in Module, FailStep(c, e)
        PROVE  ctx' = <<>> /\ Registered(status', dfs', anc', parents')
    <3>1. \A x \in Module : status'[x] # "evaluating"
      BY <1>2, <2>2, <2>3, RecordSteps DEF FailStep
    <3> QED BY <1>5, <2>3, <3>1 DEF FailStep
  <2>4. CASE EndWalkStep(c) BY <1>3, <2>4 DEF EndWalkStep, dfsVars
  <2>5. CASE EndListStep(c) BY <1>3, <2>5 DEF EndListStep, dfsVars, recVars
  <2> QED BY <1>8, <2>3, <2>4, <2>5 DEF Ends, Working, c, EndWalkStep, EndListStep
<1>9. CASE Replaces
  <2> DEFINE c == ctx[1]
             d == ctx'[1]
  <2>1. Len(ctx) = 1 /\ c \in Activation /\ Len(ctx') = 1 /\ d \in Activation /\ Turning(c, d)
    BY <1>9 DEF Replaces
  <2>2. Covered(graph, dfs, anc, c) BY <1>3, <2>1
  <2>3. Shape(graph, c) /\ \A x \in Module : status[x] = "evaluating" => x \in Members(c.stack)
    BY <2>1, SoleFacts
  <2> SUFFICES Covered(graph, dfs', anc', d) /\ Registered(status', dfs', anc', parents')
    BY <1>1, <2>1
  <2>4. ASSUME NEW f \in FrameType, NEW g \in FrameType,
               EnterStep(c, d, f, g) \/ ExamineStep(c, d, f, g) \/ RequestStep(c, d, f, g)
                 \/ ExecuteStep(c, d, f, g)
        PROVE  Covered(graph, dfs', anc', d) /\ Registered(status', dfs', anc', parents')
    BY <1>1, <2>1, <2>4, EnterLow, ExamineLow, RequestLow
  <2>5. ASSUME NEW f \in FrameType, NEW S \in SUBSET Module, FinishStep(c, d, f, S)
        PROVE  Covered(graph, dfs', anc', d) /\ Registered(status', dfs', anc', parents')
    BY <1>1, <2>1, <2>5, FinishLow
  <2> HIDE DEF c, d
  <2>6. ASSUME d.frames = c.frames, d.stack = c.stack, UNCHANGED <<status, dfs, anc, parents>>
        PROVE  Covered(graph, dfs', anc', d) /\ Registered(status', dfs', anc', parents')
    BY <1>3, <2>2, <2>6 DEF Covered
  <2>7. ASSUME c.kind = "list", d.frames = c.frames,
               \A x \in Module : status'[x] = "evaluating" => status[x] = "evaluating"
        PROVE  Covered(graph, dfs', anc', d) /\ Registered(status', dfs', anc', parents')
    <3>1. c.frames = <<>> /\ c.stack = <<>> BY <2>3, <2>7 DEF Shape
    <3>2. \A x \in Module : status'[x] # "evaluating" BY <2>3, <2>7, <3>1, MembersEmpty
    <3> QED BY <1>4, <1>5, <2>7, <3>1, <3>2
  <2>8. CASE ReturnStep(c, d)
    <3>1. CASE c.kind = "list"
      <4>1. Complete(c.body) /\ c.body \in Module /\ d.frames = c.frames
        BY <2>8, <3>1 DEF ReturnStep, Left
      <4>2. \A x \in Module : status'[x] = "evaluating" => status[x] = "evaluating"
        BY <1>2, <4>1, RecordSteps
      <4> QED BY <2>7, <3>1, <4>1, <4>2
    <3>2. CASE c.kind # "list"
      BY <2>6, <2>8, <3>2 DEF ReturnStep, Left, dfsVars, recVars
    <3> QED BY <3>1, <3>2
  <2>9. CASE ThrowStep(c, d)
    <3>1. \A x \in Module : status'[x] = "evaluating" => status[x] = "evaluating"
      BY <1>2, <2>9, RecordSteps DEF ThrowStep
    <3> QED BY <2>7, <2>9, <3>1 DEF ThrowStep, Left
  <2>10. CASE AwaitStep(c, d)
    BY <2>6, <2>10 DEF AwaitStep, Left, dfsVars, recVars
  <2>11. ASSUME NEW x \in Module, RunStep(c, d, x)
         PROVE  Covered(graph, dfs', anc', d) /\ Registered(status', dfs', anc', parents')
    BY <2>6, <2>11 DEF RunStep, dfsVars, recVars
  <2> QED BY <2>1, <2>4, <2>5, <2>8, <2>9, <2>10, <2>11 DEF Turning
<1> QED BY <1>1, <1>6, <1>7, <1>8, <1>9
-----------------------------------------------------------------------------
\* The registrations that Edges counts (par are the asynchronous parents).
Registrations(par, S, p) ==
  UNION {{<<d, i>> : i \in {j \in 1..Len(par[d]) : par[d][j] = p}} : d \in S}

\* A registration names a module of S and a place in its list.
Placed(par, d, j, p) == j \in 1..Len(par[d]) /\ par[d][j] = p
Registration(par, S, p, e) == \E d \in S : \E j : Placed(par, d, j, p) /\ e = <<d, j>>

\* The registrations, one by one.
LEMMA RegistrationsAre ==
  ASSUME NEW par, NEW S, NEW p, NEW e
  PROVE  e \in Registrations(par, S, p) <=> Registration(par, S, p, e)
BY DEF Registrations, Registration, Placed

\* They are finitely many.
LEMMA RegistrationsFinite ==
  ASSUME NEW par \in [Module -> Seq(Module)], NEW S \in SUBSET Module, NEW p
  PROVE  /\ IsFiniteSet(Registrations(par, S, p))
         /\ Cardinality(Registrations(par, S, p)) \in Nat
<1> DEFINE E(d) == {<<d, i>> : i \in {j \in 1..Len(par[d]) : par[d][j] = p}}
           F == {E(d) : d \in S}
<1>1. IsFiniteSet(S) BY FS_Subset, GraphAssumption
<1>2. ASSUME NEW d \in S PROVE IsFiniteSet(E(d))
  <2> DEFINE J == {j \in 1..Len(par[d]) : par[d][j] = p}
  <2>1. Len(par[d]) \in Nat BY LenProperties
  <2>2. IsFiniteSet(1..Len(par[d])) BY <2>1, FS_Interval
  <2>3. IsFiniteSet(J) BY <2>2, FS_Subset
  <2>4. E(d) = {<<d, i>> : i \in J} OBVIOUS
  <2> HIDE DEF J, E
  <2>5. [i \in J |-> <<d, i>>] \in Surjection(J, {<<d, i>> : i \in J}) BY DEF Surjection
  <2> QED BY <2>3, <2>4, <2>5, FS_Surjection
<1>3. Registrations(par, S, p) = UNION F BY DEF Registrations
<1>4. \A T \in F : IsFiniteSet(T) BY <1>2
<1> HIDE DEF E
<1>5. [d \in S |-> E(d)] \in Surjection(S, F) BY DEF Surjection
<1> HIDE DEF F
<1>6. IsFiniteSet(F) BY <1>1, <1>5, FS_Surjection
<1>7. IsFiniteSet(UNION F) BY <1>4, <1>6, FS_UNION
<1> QED BY <1>3, <1>7, FS_CardinalityType

\* Registrations are counted module by module.
LEMMA RegistrationsSplit ==
  ASSUME NEW par \in [Module -> Seq(Module)], NEW S \in SUBSET Module, NEW T \in SUBSET S, NEW p
  PROVE  /\ Cardinality(Registrations(par, S, p)) \in Nat
         /\ Cardinality(Registrations(par, T, p)) \in Nat
         /\ Cardinality(Registrations(par, S \ T, p)) =
              Cardinality(Registrations(par, S, p)) - Cardinality(Registrations(par, T, p))
<1> DEFINE R(U) == Registrations(par, U, p)
<1>1. T \in SUBSET Module /\ S \ T \in SUBSET Module OBVIOUS
<1>2. /\ IsFiniteSet(R(T)) /\ IsFiniteSet(R(S \ T))
      /\ Cardinality(R(S)) \in Nat /\ Cardinality(R(T)) \in Nat /\ Cardinality(R(S \ T)) \in Nat
  BY <1>1, RegistrationsFinite
<1>3. R(S) = R(S \ T) \cup R(T)
  <2>1. \A e : Registration(par, S, p, e) <=> Registration(par, S \ T, p, e) \/ Registration(par, T, p, e)
    BY DEF Registration
  <2> QED BY <2>1, RegistrationsAre
<1>4. R(S \ T) \cap R(T) = {}
  <2>1. \A e : ~(Registration(par, S \ T, p, e) /\ Registration(par, T, p, e))
    <3> SUFFICES ASSUME NEW e, Registration(par, S \ T, p, e), Registration(par, T, p, e)
                 PROVE  FALSE
      OBVIOUS
    <3>1. PICK d \in S \ T : \E j : e = <<d, j>> BY DEF Registration
    <3>2. PICK x \in T : \E j : e = <<x, j>> BY DEF Registration
    <3> QED BY <3>1, <3>2
  <2> QED BY <2>1, RegistrationsAre
<1> HIDE DEF R
<1>5. Cardinality(R(S \ T) \cup R(T)) = Cardinality(R(S \ T)) + Cardinality(R(T)) - Cardinality({})
  BY <1>2, <1>4, FS_Union
<1>6. Cardinality(R(S)) = Cardinality(R(S \ T)) + Cardinality(R(T))
  BY <1>2, <1>3, <1>5, FS_EmptySet
<1>7. Cardinality(R(S \ T)) = Cardinality(R(S)) - Cardinality(R(T)) BY <1>2, <1>6
<1> QED BY <1>2, <1>7 DEF R

\* p waits for none of X.
Apart(par, X, p) == \A x \in X : p \notin Members(par[x])

\* Modules for which p does not wait can be left out.
LEMMA RegistrationsIdle ==
  ASSUME NEW par, NEW S, NEW D \in SUBSET S, NEW p, Apart(par, S \ D, p)
  PROVE  Registrations(par, S, p) = Registrations(par, D, p)
<1>1. \A x \in S : x \notin D => \A j \in 1..Len(par[x]) : par[x][j] # p BY DEF Members, Apart
<1>2. \A e : Registration(par, S, p, e) <=> Registration(par, D, p, e)
  BY <1>1 DEF Registration, Placed
<1> QED BY <1>2, RegistrationsAre

\* m is registered once more, with r.
Added(par, par1, S, r, m) == /\ par1[r] = Append(par[r], m)
                             /\ \A x \in S : x # r => par1[x] = par[x]

\* One more registration.
LEMMA RegistrationsAppend ==
  ASSUME NEW par \in [Module -> Seq(Module)], NEW S \in SUBSET Module, NEW r \in S,
         NEW m \in Module, NEW par1, Added(par, par1, S, r, m)
  PROVE  /\ Cardinality(Registrations(par1, S, m)) = Cardinality(Registrations(par, S, m)) + 1
         /\ \A p \in Module : p # m => Registrations(par1, S, p) = Registrations(par, S, p)
<1> DEFINE n == Len(par[r])
<1>1. n \in Nat /\ par[r] \in Seq(Module) BY LenProperties
<1>2. /\ Len(Append(par[r], m)) = n + 1 /\ Append(par[r], m)[n + 1] = m
      /\ \A j \in 1..n : Append(par[r], m)[j] = par[r][j]
  BY <1>1, AppendProperties
<1>3. par1[r] = Append(par[r], m) /\ \A x \in S : x # r => par1[x] = par[x] BY DEF Added
<1>4. \A j : j \in 1..n + 1 <=> j \in 1..n \/ j = n + 1 BY <1>1
<1>5. n + 1 \notin 1..n BY <1>1
<1> HIDE DEF n
<1>6. ASSUME NEW p, NEW x \in S, NEW j
      PROVE  Placed(par1, x, j, p) <=> Placed(par, x, j, p) \/ (x = r /\ j = n + 1 /\ p = m)
  <2>1. CASE x # r BY <1>3, <2>1 DEF Placed
  <2>2. CASE x = r
    <3>1. Len(par1[x]) = n + 1 /\ Len(par[x]) = n /\ par1[x][n + 1] = m
      BY <1>2, <1>3, <2>2 DEF n
    <3>2. \A i \in 1..n : par1[x][i] = par[x][i] BY <1>2, <1>3, <2>2
    <3> QED BY <1>4, <1>5, <2>2, <3>1, <3>2 DEF Placed
  <2> QED BY <2>1, <2>2
<1>7. \A e : Registration(par1, S, m, e) <=> Registration(par, S, m, e) \/ e = <<r, n + 1>>
  BY <1>6 DEF Registration
<1>8. Registrations(par1, S, m) = Registrations(par, S, m) \cup {<<r, n + 1>>}
  BY <1>7, RegistrationsAre
<1>9. <<r, n + 1>> \notin Registrations(par, S, m)
  <2> SUFFICES ASSUME Registration(par, S, m, <<r, n + 1>>) PROVE FALSE BY RegistrationsAre
  <2>1. PICK x \in S : \E j : Placed(par, x, j, m) /\ <<r, n + 1>> = <<x, j>> BY DEF Registration
  <2>2. x = r /\ Placed(par, r, n + 1, m) BY <2>1
  <2> QED BY <1>5, <2>1, <2>2 DEF n, Placed
<1>10. IsFiniteSet(Registrations(par, S, m)) BY RegistrationsFinite
<1>11. Cardinality(Registrations(par1, S, m)) = Cardinality(Registrations(par, S, m)) + 1
  <2>1. ASSUME NEW X, IsFiniteSet(X), NEW e, e \notin X
        PROVE  Cardinality(X \cup {e}) = Cardinality(X) + 1
    BY <2>1, FS_AddElement
  <2> QED BY <1>8, <1>9, <1>10, <2>1
<1>12. ASSUME NEW p \in Module, p # m PROVE Registrations(par1, S, p) = Registrations(par, S, p)
  <2>1. \A x \in S : \A j : Placed(par1, x, j, p) <=> Placed(par, x, j, p) BY <1>6, <1>12
  <2>2. \A e : Registration(par1, S, p, e) <=> Registration(par, S, p, e)
    BY <2>1 DEF Registration
  <2> QED BY <2>2, RegistrationsAre
<1> QED BY <1>11, <1>12

\* An available ancestor waits for nothing but what completes.
LEMMA AvailableExhausted ==
  ASSUME Types, NEW m \in Module, NEW p \in Available(m)
  PROVE  pend[p] <= Edges(Sources(Available(m), m), p)
<1> DEFINE Closed == {S \in SUBSET Module : \A x \in Module : Exhausted(x, S, m) => x \in S}
           A == Available(m)
           B == A \ {p}
<1>1. A = {x \in Module : \A S \in Closed : x \in S} BY DEF Available
<1>2. A \subseteq Module BY <1>1
<1> SUFFICES ASSUME ~(pend[p] <= Edges(Sources(A, m), p)) PROVE FALSE OBVIOUS
<1>3. B \in Closed
  <2> SUFFICES ASSUME NEW x \in Module, Exhausted(x, B, m) PROVE x \in B BY <1>2
  <2>1. Sources(B, m) \subseteq Sources(A, m) /\ Sources(A, m) \subseteq Module BY <1>2 DEF Sources
  <2>2. Edges(Sources(B, m), x) <= Edges(Sources(A, m), x) BY <2>1, EdgesType
  <2>3. Edges(Sources(A, m), x) \in Nat /\ Edges(Sources(B, m), x) \in Nat /\ pend[x] \in Nat
    BY <2>1, EdgesType DEF Types, TypeOK
  <2>4. x # m /\ Waits(x) /\ pend[x] <= Edges(Sources(B, m), x) BY DEF Exhausted
  <2>5. pend[x] <= Edges(Sources(A, m), x) BY <2>2, <2>3, <2>4
  <2>6. x # p BY <2>5
  <2>7. x \in A
    <3>1. ~(Edges(Sources(A, m), x) < pend[x]) BY <2>3, <2>5
    <3> QED BY <2>4, <3>1, AvailableFacts
  <2> QED BY <2>6, <2>7
<1> QED BY <1>1, <1>3
-----------------------------------------------------------------------------
\* The two parts of Counts for given records (r the bodies started, e the
\* errors, rt the cycle roots, s the status, pn the pending dependencies, D
\* the modules that owe their completion, A the available ones).
Exact(r, e, rt, s, pn, par, D) == \A p \in Module :
  p \notin Members(r) /\ e[rt[p]] = Nil /\ s[p] \in {"evaluating", "async"} =>
    pn[p] = Cardinality(Registrations(par, D, p))
Bound(a, r, pn, A) == \A p \in Module : a[p] /\ p \notin Members(r) => pn[p] > 0 \/ p \in A
Owing(g, a, c) == {x \in Module : a[x] /\ x \notin Spent(g, c)}

\* Counts with no activation and with one.
LEMMA CountsBefore ==
  ASSUME called = {}, Counts
  PROVE  /\ ctx = <<>> =>
              /\ Exact(ran, err, root, status, pend, parents, {x \in Module : active[x]})
              /\ Bound(active, ran, pend, {})
         /\ Len(ctx) = 1 =>
              /\ Exact(ran, err, root, status, pend, parents, Owing(graph, active, ctx[1]))
              /\ Bound(active, ran, pend, ctx[1].avail)
<1>1. \A S, p : Edges(S, p) = Cardinality(Registrations(parents, S, p)) BY DEF Edges, Registrations
<1>2. ctx = <<>> => Debts = {x \in Module : active[x]} BY DEF Debts
<1>3. Len(ctx) = 1 => Debts = Owing(graph, active, ctx[1]) BY DEF Debts, Owing
<1>4. \A p : p \in Waiting(ran) <=> /\ p \in Module /\ p \notin Members(ran) /\ err[root[p]] = Nil
                                    /\ status[p] \in {"evaluating", "async"}
  BY DEF Waiting
<1>5. ctx = <<>> => \A p : ~\E i \in 1..Len(ctx) : p \in ctx[i].avail OBVIOUS
<1>6. Len(ctx) = 1 => \A p : (\E i \in 1..Len(ctx) : p \in ctx[i].avail) <=> p \in ctx[1].avail
  OBVIOUS
<1>7. /\ Exact(ran, err, root, status, pend, parents, Debts)
      /\ \A p \in Module : active[p] /\ p \notin Members(ran) =>
           pend[p] > 0 \/ \E i \in 1..Len(ctx) : p \in ctx[i].avail
  BY <1>1, <1>4 DEF Counts, Exact
<1> QED BY <1>2, <1>3, <1>5, <1>6, <1>7 DEF Bound

\* The same after a step.
LEMMA CountsAfter ==
  ASSUME \/ /\ ctx' = <<>>
            /\ Exact(ran', err', root', status', pend', parents', {x \in Module : active'[x]})
            /\ Bound(active', ran', pend', {})
         \/ /\ Len(ctx') = 1
            /\ Exact(ran', err', root', status', pend', parents', Owing(graph', active', ctx'[1]))
            /\ Bound(active', ran', pend', ctx'[1].avail)
  PROVE  Counts'
<1>1. ASSUME Exact(ran', err', root', status', pend', parents', Debts'),
             \A p \in Module : active'[p] /\ p \notin Members(ran') =>
               pend'[p] > 0 \/ \E i \in 1..Len(ctx') : p \in ctx'[i].avail
      PROVE  Counts'
  <2>1. \A S, p : Cardinality(Registrations(parents', S, p)) =
          Cardinality(UNION {{<<d, i>> : i \in {j \in 1..Len(parents'[d]) : parents'[d][j] = p}} : d \in S})
    BY DEF Registrations
  <2>2. \A p \in Waiting(ran)' : pend'[p] = Edges(Debts, p)'
    BY <1>1, <2>1 DEF Waiting, Edges, Exact
  <2> QED BY <1>1, <2>2 DEF Counts
<1>2. CASE /\ ctx' = <<>>
           /\ Exact(ran', err', root', status', pend', parents', {x \in Module : active'[x]})
           /\ Bound(active', ran', pend', {})
  <2>1. Debts' = {x \in Module : active'[x]} BY <1>2 DEF Debts
  <2> QED BY <1>1, <1>2, <2>1 DEF Bound
<1>3. CASE /\ Len(ctx') = 1
           /\ Exact(ran', err', root', status', pend', parents', Owing(graph', active', ctx'[1]))
           /\ Bound(active', ran', pend', ctx'[1].avail)
  <2>1. Debts' = Owing(graph', active', ctx'[1]) BY <1>3 DEF Debts, Owing
  <2>2. \A p \in Module : p \in ctx'[1].avail => \E i \in 1..Len(ctx') : p \in ctx'[i].avail
    BY <1>3
  <2>3. \A p \in Module : active'[p] /\ p \notin Members(ran') =>
          pend'[p] > 0 \/ \E i \in 1..Len(ctx') : p \in ctx'[i].avail
    BY <1>3, <2>2 DEF Bound
  <2> QED BY <1>1, <1>3, <2>1, <2>3
<1> QED BY <1>2, <1>3

\* A failure spreads to whoever waits for a module that fails.
LEMMA AncestorsClosed ==
  ASSUME Types, NEW m \in Module
  PROVE  /\ Ancestors(m) \subseteq Module
         /\ status[m] # "evaluated" => m \in Ancestors(m)
         /\ \A x \in Ancestors(m) : \A p \in Members(parents[x]) :
              status[p] # "evaluated" => p \in Ancestors(m)
<1> DEFINE Up(d) == {p \in Members(parents[d]) : status[p] # "evaluated"}
           Closed == {U \in SUBSET Module : {m} \subseteq U /\ \A x \in U : Up(x) \subseteq U}
<1>1. CASE status[m] = "evaluated" BY <1>1 DEF Ancestors
<1>2. CASE status[m] # "evaluated"
  <2>1. Ancestors(m) = {x \in Module : \A U \in Closed : x \in U} BY <1>2 DEF Ancestors, Closure
  <2>2. ASSUME NEW x \in Ancestors(m), NEW p \in Members(parents[x]), status[p] # "evaluated"
        PROVE  p \in Ancestors(m)
    <3>1. x \in Module BY <2>1
    <3>2. parents[x] \in Seq(Module) BY <3>1 DEF Types, TypeOK
    <3>3. p \in Module /\ p \in Up(x) BY <2>2, <3>2, MembersOf
    <3>4. ASSUME NEW U \in Closed PROVE p \in U BY <2>1, <3>3
    <3> QED BY <2>1, <3>3, <3>4
  <2>3. m \in Ancestors(m) BY <2>1
  <2> QED BY <2>1, <2>2, <2>3
<1> QED BY <1>1, <1>2

\* A failure leaves the counts of those that do not fail alone.
LEMMA FailureCounts ==
  ASSUME Types, NEW T \in SUBSET Module, NEW e \in Module, NEW D \in SUBSET Module,
         Exact(ran, err, root, status, pend, parents, D),
         UNCHANGED <<ran, root, pend, parents>>,
         \A x \in Module : /\ x \in T => status'[x] = "evaluated" /\ err'[x] = e
                           /\ x \notin T => status'[x] = status[x] /\ err'[x] = err[x],
         \A p \in Module : p \notin T /\ status[p] \in {"evaluating", "async"} =>
           \A x \in D \cap T : p \notin Members(parents[x])
  PROVE  Exact(ran', err', root', status', pend', parents', D \ T)
<1> SUFFICES ASSUME NEW p \in Module, p \notin Members(ran), err'[root[p]] = Nil,
                    status'[p] \in {"evaluating", "async"}
             PROVE  pend[p] = Cardinality(Registrations(parents, D \ T, p))
  BY DEF Exact
<1>1. root[p] \in Module /\ parents \in [Module -> Seq(Module)] BY DEF Types, TypeOK
<1>2. e # Nil BY GraphAssumption
<1>3. p \notin T /\ status[p] = status'[p] BY <1>1
<1>4. root[p] \notin T /\ err[root[p]] = Nil BY <1>1, <1>2
<1>5. pend[p] = Cardinality(Registrations(parents, D, p)) BY <1>3, <1>4 DEF Exact
<1>6. Apart(parents, D \ (D \ T), p) BY <1>3 DEF Apart
<1>7. Registrations(parents, D, p) = Registrations(parents, D \ T, p)
  <2>1. D \ T \in SUBSET D OBVIOUS
  <2> QED BY <1>6, <2>1, RegistrationsIdle
<1> QED BY <1>5, <1>7

\* A walk owes what runs on.
LEMMA WalkOwes ==
  ASSUME NEW g, NEW a, NEW c, c.kind = "dfs"
  PROVE  Owing(g, a, c) = {x \in Module : a[x]}
BY DEF Owing, Spent

\* The visits of a walk keep the counts.
LEMMA VisitCounts ==
  ASSUME IInv, called = {}, graph' = graph, Activity, Counts, Len(ctx) = 1, Len(ctx') = 1,
         NEW f \in FrameType, NEW g \in FrameType,
         \/ EnterStep(ctx[1], ctx'[1], f, g) \/ ExamineStep(ctx[1], ctx'[1], f, g)
         \/ RequestStep(ctx[1], ctx'[1], f, g)
  PROVE  Counts'
<1> DEFINE c == ctx[1]
           d == ctx'[1]
           D == {x \in Module : active[x]}
<1>1. /\ c.kind = "dfs" /\ d.kind = "dfs" /\ d.avail = c.avail /\ c.frames # <<>>
      /\ f = c.frames[Len(c.frames)] /\ UNCHANGED <<active, err, root, ran>>
  BY DEF EnterStep, ExamineStep, RequestStep, Turned, recVars, dfsVars
<1>2. /\ Exact(ran, err, root, status, pend, parents, Owing(graph, active, c))
      /\ Bound(active, ran, pend, c.avail)
  BY CountsBefore
<1>3. Owing(graph, active, c) = D /\ Owing(graph', active', d) = D BY <1>1, WalkOwes
<1>4. c \in Activation /\ Shape(graph, c) /\ Stacked(status, dfs, c) BY SoleFacts
<1>5. Len(c.frames) \in 1..Len(c.frames) /\ f.m \in Module
  <2>1. Len(c.frames) \in Nat \ {0} /\ f.m \in Module BY <1>1, <1>4, LastFrame
  <2> QED BY <2>1
<1>6. /\ status \in [Module -> Statuses] /\ pend \in [Module -> Nat]
      /\ parents \in [Module -> Seq(Module)]
  BY DEF IInv, Types, TypeOK
<1> SUFFICES /\ Exact(ran, err, root, status', pend', parents', D)
             /\ Bound(active, ran, pend', c.avail)
  BY <1>1, <1>3, CountsAfter
<1>7. ASSUME EnterStep(c, d, f, g)
      PROVE  /\ Exact(ran, err, root, status', pend', parents', D)
             /\ Bound(active, ran, pend', c.avail)
  <2>1. status[f.m] = "linked" BY <1>1, <1>4, <1>5, <1>7 DEF EnterStep, Stacked
  <2>2. /\ \A x \in Module : x # f.m => status'[x] = status[x] /\ pend'[x] = pend[x]
        /\ pend'[f.m] = 0 /\ parents' = parents
    BY <1>5, <1>6, <1>7 DEF EnterStep
  <2>3. ~active[f.m] BY <1>5, <2>1 DEF Activity
  <2>4. Apart(parents, D \ {}, f.m) BY <2>1 DEF Activity, Apart
  <2>5. Registrations(parents, D, f.m) = Registrations(parents, {}, f.m)
    <3>1. {} \in SUBSET D OBVIOUS
    <3> HIDE DEF D
    <3> QED BY <2>4, <3>1, RegistrationsIdle
  <2>6. Registrations(parents, {}, f.m) = {} BY DEF Registrations
  <2>7. Cardinality(Registrations(parents, D, f.m)) = 0 BY <2>5, <2>6, FS_EmptySet
  <2>8. Exact(ran, err, root, status', pend', parents', D) BY <1>2, <1>3, <2>2, <2>7 DEF Exact
  <2>9. Bound(active, ran, pend', c.avail) BY <1>2, <2>2, <2>3 DEF Bound
  <2> QED BY <2>8, <2>9
<1>8. ASSUME ExamineStep(c, d, f, g)
      PROVE  /\ Exact(ran, err, root, status', pend', parents', D)
             /\ Bound(active, ran, pend', c.avail)
  <2> DEFINE r == Awaited(Asked(graph, f))
  <2>1. /\ status' = status /\ r \in Module
        /\ pend' = [pend EXCEPT ![f.m] = IF active[r] THEN @ + 1 ELSE @]
        /\ parents' = (IF active[r] THEN Register(r, f.m) ELSE parents)
    BY <1>8 DEF ExamineStep
  <2> HIDE DEF r
  <2>2. CASE ~active[r]
    <3>1. pend' = pend /\ parents' = parents BY <1>6, <2>1, <2>2
    <3> QED BY <1>2, <1>3, <2>1, <3>1
  <2>3. CASE active[r]
    <3>1. /\ pend'[f.m] = pend[f.m] + 1 /\ \A x \in Module : x # f.m => pend'[x] = pend[x]
          /\ pend[f.m] \in Nat
      BY <1>5, <1>6, <2>1, <2>3
    <3>2. parents' = [parents EXCEPT ![r] = Append(parents[r], f.m)] BY <2>1, <2>3 DEF Register
    <3>3. r \in D /\ D \in SUBSET Module BY <2>1, <2>3
    <3> HIDE DEF D
    <3>4. /\ Cardinality(Registrations(parents', D, f.m)) = Cardinality(Registrations(parents, D, f.m)) + 1
          /\ \A p \in Module : p # f.m => Registrations(parents', D, p) = Registrations(parents, D, p)
      <4>1. ASSUME NEW q, q = parents'
            PROVE  /\ Cardinality(Registrations(q, D, f.m)) = Cardinality(Registrations(parents, D, f.m)) + 1
                   /\ \A p \in Module : p # f.m => Registrations(q, D, p) = Registrations(parents, D, p)
        <5>1. q[r] = Append(parents[r], f.m) BY <1>6, <2>1, <3>2, <4>1
        <5>2. \A x \in D : x # r => q[x] = parents[x] BY <1>6, <3>2, <3>3, <4>1
        <5>3. Added(parents, q, D, r, f.m) BY <5>1, <5>2 DEF Added
        <5> QED BY <1>5, <1>6, <3>3, <5>3, RegistrationsAppend
      <4> QED BY <4>1
    <3>5. Exact(ran, err, root, status', pend', parents', D)
      BY <1>2, <1>3, <2>1, <3>1, <3>4 DEF Exact
    <3>6. pend[f.m] + 1 > 0 BY <3>1
    <3>7. Bound(active, ran, pend', c.avail) BY <1>2, <3>1, <3>6 DEF Bound
    <3> QED BY <3>5, <3>7
  <2> QED BY <2>2, <2>3
<1>9. ASSUME RequestStep(c, d, f, g)
      PROVE  /\ Exact(ran, err, root, status', pend', parents', D)
             /\ Bound(active, ran, pend', c.avail)
  BY <1>2, <1>3, <1>9 DEF RequestStep, recVars
<1> QED BY <1>7, <1>8, <1>9

\* The end of a visit keeps the counts: nothing waits yet for a module that
\* begins to run on, and modules join a cycle only while it has not failed.
LEMMA LeaveCounts ==
  ASSUME IInv, called = {}, graph' = graph, Activity, Dormant, Counts, Len(ctx) = 1, Len(ctx') = 1,
         NEW f \in FrameType,
         \/ \E g \in FrameType : ExecuteStep(ctx[1], ctx'[1], f, g)
         \/ \E S \in SUBSET Module : FinishStep(ctx[1], ctx'[1], f, S)
  PROVE  Counts'
<1> DEFINE c == ctx[1]
           d == ctx'[1]
           D == {x \in Module : active[x]}
           E == {x \in Module : active'[x]}
<1>1. /\ c.kind = "dfs" /\ d.kind = "dfs" /\ d.avail = c.avail /\ c.frames # <<>>
      /\ f = c.frames[Len(c.frames)] /\ UNCHANGED <<err, pend, parents>>
  BY DEF ExecuteStep, FinishStep, Turned
<1>2. /\ Exact(ran, err, root, status, pend, parents, Owing(graph, active, c))
      /\ Bound(active, ran, pend, c.avail)
  BY CountsBefore
<1>3. Owing(graph, active, c) = D /\ Owing(graph', active', d) = E BY <1>1, WalkOwes
<1>4. /\ c \in Activation /\ Shape(graph, c) /\ Stacked(status, dfs, c)
      /\ \A x \in Members(c.stack) : status[x] = "evaluating"
      /\ Members(c.stack) \subseteq Module
  BY SoleFacts
<1>5. Len(c.frames) \in 1..Len(c.frames) /\ f.m \in Module
  <2>1. Len(c.frames) \in Nat \ {0} /\ f.m \in Module BY <1>1, <1>4, LastFrame
  <2> QED BY <2>1
<1>6. /\ active \in [Module -> BOOLEAN] /\ pend \in [Module -> Nat] /\ ran \in Seq(Module)
      /\ parents \in [Module -> Seq(Module)] /\ root \in [Module -> Module]
  BY DEF IInv, Types, TypeOK
<1> SUFFICES /\ Exact(ran', err, root', status', pend, parents, E)
             /\ Bound(active', ran', pend, c.avail)
  BY <1>1, <1>3, CountsAfter
<1>7. ASSUME NEW g \in FrameType, ExecuteStep(c, d, f, g)
      PROVE  /\ Exact(ran', err, root', status', pend, parents, E)
             /\ Bound(active', ran', pend, c.avail)
  <2>1. /\ f.entered /\ ~f.finish /\ UNCHANGED <<status, root>>
        /\ active' = [active EXCEPT ![f.m] = @ \/ (pend[f.m] > 0 \/ f.m \in graph.tla)]
        /\ ran' = (IF pend[f.m] > 0 THEN ran ELSE Append(ran, f.m))
    BY <1>7 DEF ExecuteStep, dfsVars
  <2>2. ~active[f.m] BY <1>1, <1>5, <2>1 DEF Dormant, NotYetActive
  <2>3. status[f.m] = "evaluating" BY <1>1, <1>4, <1>5, <2>1 DEF Stacked
  <2>4. parents[f.m] = <<>> BY <1>5, <2>2, <2>3 DEF Activity
  <2>5. \A x \in Module : x # f.m => active'[x] = active[x] BY <1>6, <2>1
  <2>6. /\ Members(ran) \subseteq Members(ran')
        /\ ~(pend[f.m] > 0) => f.m \in Members(ran')
    <3>1. CASE pend[f.m] > 0 BY <2>1, <3>1
    <3>2. CASE ~(pend[f.m] > 0) BY <1>5, <1>6, <2>1, <3>2, MembersAppend
    <3> QED BY <3>1, <3>2
  <2>7. D \subseteq E /\ \A x \in E : x \notin D => x = f.m
    <3>1. \A x \in D : x # f.m BY <2>2
    <3> QED BY <2>5, <3>1
  <2> HIDE DEF D, E
  <2>8. \A p : Apart(parents, E \ D, p) BY <2>4, <2>7, MembersEmpty DEF Apart
  <2>9. D \in SUBSET E BY <2>7
  <2>10. \A p : Registrations(parents, E, p) = Registrations(parents, D, p)
    BY <2>8, <2>9, RegistrationsIdle
  <2>11. Exact(ran', err, root', status', pend, parents, E)
    BY <1>2, <1>3, <2>1, <2>6, <2>10 DEF Exact
  <2>12. Bound(active', ran', pend, c.avail)
    BY <1>2, <2>5, <2>6 DEF Bound
  <2> QED BY <2>11, <2>12
<1>8. ASSUME NEW S \in SUBSET Module, FinishStep(c, d, f, S)
      PROVE  /\ Exact(ran', err, root', status', pend, parents, E)
             /\ Bound(active', ran', pend, c.avail)
  <2>1. /\ UNCHANGED <<active, ran>> /\ S \subseteq Members(c.stack)
        /\ \A x \in Module : x \notin S => status'[x] = status[x] /\ root'[x] = root[x]
    BY <1>8 DEF FinishStep
  <2>2. E = D BY <2>1
  <2>3. ASSUME NEW x \in S PROVE status[x] = "evaluating" /\ root[x] = x /\ err[x] = Nil
    <3>1. status[x] = "evaluating" /\ x \in Module BY <1>4, <2>1
    <3>2. root[x] = x BY <3>1 DEF Activity
    <3>3. err[x] = Nil BY <3>1 DEF IInv, Failures
    <3> QED BY <3>1, <3>2, <3>3
  <2> HIDE DEF D, E
  <2>4. Exact(ran, err, root', status', pend, parents, D)
    BY <1>2, <1>3, <2>1, <2>3 DEF Exact
  <2> QED BY <1>2, <2>1, <2>2, <2>4
<1> QED BY <1>7, <1>8

\* The end of a body keeps the counts: a completion from the list was already
\* accounted for, and one that awaits was not.
LEMMA BodyCounts ==
  ASSUME IInv, called = {}, graph' = graph, Counts, Len(ctx) = 1, Len(ctx') = 1,
         \/ ReturnStep(ctx[1], ctx'[1]) \/ ThrowStep(ctx[1], ctx'[1]) \/ AwaitStep(ctx[1], ctx'[1])
  PROVE  Counts'
<1> DEFINE c == ctx[1]
           d == ctx'[1]
           b == c.body
           D == Owing(graph, active, c)
           E == Owing(graph, active', d)
<1>1. /\ b \in Module /\ d.body = Nil /\ d.kind = c.kind /\ d.avail = c.avail
      /\ UNCHANGED <<root, pend, parents, ran>>
  BY DEF ReturnStep, ThrowStep, AwaitStep, Left, dfsVars
<1>2. Exact(ran, err, root, status, pend, parents, D) /\ Bound(active, ran, pend, c.avail)
  BY CountsBefore
<1>3. Types BY DEF IInv
<1>4. Nil \notin Module /\ D \in SUBSET Module BY GraphAssumption DEF Owing
<1>5. ASSUME UNCHANGED <<status, active, err>>, c.kind = "dfs" \/ b \in graph.tla PROVE E = D
  BY <1>1, <1>4, <1>5 DEF Owing, Spent
<1> SUFFICES Exact(ran, err', root, status', pend, parents, E) /\ Bound(active', ran, pend, c.avail)
  BY <1>1, CountsAfter
<1>6. CASE c.kind = "dfs" /\ ReturnStep(c, d)
  <2>1. UNCHANGED <<status, active, err>> BY <1>6 DEF ReturnStep, recVars
  <2>2. E = D BY <1>5, <1>6, <2>1
  <2> HIDE DEF D, E
  <2> QED BY <1>2, <2>1, <2>2
<1>7. CASE AwaitStep(c, d)
  <2>1. UNCHANGED <<status, active, err>> /\ b \in graph.tla BY <1>7 DEF AwaitStep, recVars
  <2>2. E = D BY <1>5, <2>1
  <2> HIDE DEF D, E
  <2> QED BY <1>2, <2>1, <2>2
<1>8. CASE c.kind = "list" /\ ReturnStep(c, d)
  <2>1. Complete(b) /\ b \notin graph.tla BY <1>8 DEF ReturnStep
  <2>2. \A x \in Module : /\ x = b => status'[x] = "evaluated" /\ ~active'[x]
                          /\ x # b => status'[x] = status[x] /\ active'[x] = active[x]
                          /\ err'[x] = err[x]
    BY <1>1, <1>3, <2>1, RecordSteps
  <2>3. E = D
    <3>1. ASSUME NEW x \in Module PROVE x \in E <=> x \in D
      BY <1>1, <1>4, <1>8, <2>1, <2>2 DEF Owing, Spent
    <3> QED BY <3>1 DEF Owing
  <2>4. \A x \in Module : root[x] \in Module BY <1>3 DEF Types, TypeOK
  <2> HIDE DEF D, E, b
  <2>5. Exact(ran, err', root, status', pend, parents, D) BY <1>2, <2>2, <2>4 DEF Exact
  <2>6. Bound(active', ran, pend, c.avail) BY <1>2, <2>2 DEF Bound
  <2> QED BY <2>3, <2>5, <2>6
<1>9. CASE ThrowStep(c, d)
  <2> DEFINE T == Ancestors(b)
  <2>1. c.kind = "list" /\ SetError(T, b) /\ b \notin graph.tla BY <1>9 DEF ThrowStep
  <2>2. \A x \in Module : /\ x \in T => status'[x] = "evaluated" /\ ~active'[x] /\ err'[x] = b
                          /\ x \notin T => /\ status'[x] = status[x] /\ active'[x] = active[x]
                                           /\ err'[x] = err[x]
    BY <1>3, <2>1, RecordSteps
  <2>3. status[b] = "async"
    <3>1. Ongoing(ran, done, exec, status, err, c) BY SoleFacts
    <3> QED BY <1>1, <1>4, <2>1, <3>1 DEF Ongoing
  <2>4. /\ T \in SUBSET Module /\ b \in T
        /\ \A x \in T : \A p \in Members(parents[x]) : status[p] # "evaluated" => p \in T
    BY <1>1, <1>3, <2>3, AncestorsClosed
  <2>5. E = D \ T
    <3>1. ASSUME NEW x \in Module PROVE x \in E <=> x \in D \ T
      <4> HIDE DEF T
      <4> QED BY <1>1, <1>4, <2>1, <2>2, <2>4 DEF Owing, Spent
    <3> QED BY <3>1 DEF Owing
  <2> HIDE DEF T, D, E
  <2>6. ASSUME NEW p \in Module, p \notin T, status[p] \in {"evaluating", "async"},
               NEW x \in D \cap T
        PROVE  p \notin Members(parents[x])
    BY <2>4, <2>6
  <2>7. Exact(ran', err', root', status', pend', parents', D \ T)
    <3> HIDE DEF b, c, d
    <3> QED BY <1>1, <1>2, <1>3, <1>4, <2>2, <2>4, <2>6, FailureCounts
  <2>8. Bound(active', ran, pend, c.avail) BY <1>2, <2>2 DEF Bound
  <2> QED BY <1>1, <2>5, <2>7, <2>8
<1>10. c.kind \in {"dfs", "list"} BY SoleFacts DEF Activation
<1> QED BY <1>6, <1>7, <1>8, <1>9, <1>10

\* Starting the next available module keeps the counts.
LEMMA RunCounts ==
  ASSUME IInv, called = {}, graph' = graph, Activity, Counts, Len(ctx) = 1, Len(ctx') = 1,
         NEW m \in Module, RunStep(ctx[1], ctx'[1], m)
  PROVE  Counts'
<1> DEFINE c == ctx[1]
           d == ctx'[1]
           D == Owing(graph, active, c)
           E == Owing(graph, active, d)
<1>1. /\ c.kind = "list" /\ c.body = Nil /\ m \in c.avail /\ d.kind = "list"
      /\ d.avail = c.avail \ {m} /\ d.body = (IF status[m] = "evaluated" THEN Nil ELSE m)
      /\ UNCHANGED <<status, err, active, root, pend, parents>>
      /\ ran' = (IF status[m] = "evaluated" THEN ran ELSE Append(ran, m))
  BY DEF RunStep, recVars, dfsVars
<1>2. Exact(ran, err, root, status, pend, parents, D) /\ Bound(active, ran, pend, c.avail)
  BY CountsBefore
<1>3. Nil \notin Module BY GraphAssumption
<1>4. status[m] = "evaluated" => ~active[m] BY DEF Activity
<1>5. E = D
  <2>1. ASSUME NEW x \in Module PROVE x \in E <=> x \in D
    <3>1. CASE status[m] = "evaluated" BY <1>1, <1>3, <1>4, <3>1 DEF Owing, Spent
    <3>2. CASE status[m] # "evaluated" BY <1>1, <1>3, <3>2 DEF Owing, Spent
    <3> QED BY <3>1, <3>2
  <2> QED BY <2>1 DEF Owing
<1>6. Members(ran) \subseteq Members(ran') /\ (status[m] # "evaluated" => m \in Members(ran'))
  <2>1. ran \in Seq(Module) BY DEF IInv, Types, TypeOK
  <2>2. CASE status[m] = "evaluated" BY <1>1, <2>2
  <2>3. CASE status[m] # "evaluated" BY <1>1, <2>1, <2>3, MembersAppend
  <2> QED BY <2>2, <2>3
<1> HIDE DEF D, E
<1>7. Exact(ran', err, root, status, pend, parents, D) BY <1>2, <1>6 DEF Exact
<1>8. Bound(active, ran', pend, d.avail) BY <1>1, <1>2, <1>4, <1>6 DEF Bound
<1> QED BY <1>1, <1>5, <1>7, <1>8, CountsAfter DEF E

\* The end of an activation keeps the counts: whoever waits for a module of a
\* failing walk fails with it.
LEMMA EndCounts ==
  ASSUME IInv, called = {}, Activity, LowLinks, Counts, Ends
  PROVE  Counts'
<1> DEFINE c == ctx[1]
           D == Owing(graph, active, c)
           A == {x \in Module : active[x]}
           E == {x \in Module : active'[x]}
<1>1. Len(ctx) = 1 BY DEF Ends
<1>2. Exact(ran, err, root, status, pend, parents, D) /\ Bound(active, ran, pend, c.avail)
  BY <1>1, CountsBefore
<1>3. /\ Shape(graph, c) /\ Members(c.stack) \subseteq Module
      /\ \A x \in Members(c.stack) : status[x] = "evaluating"
      /\ \A x \in Module : status[x] = "evaluating" => x \in Members(c.stack)
  BY <1>1, SoleFacts
<1>4. Types /\ Nil \notin Module BY GraphAssumption DEF IInv
<1>5. c.kind = "dfs" => D = A /\ c.avail = {} BY <1>3, WalkOwes DEF Shape
<1>6. ASSUME NEW e \in Module, FailStep(c, e) PROVE Counts'
  <2> DEFINE T == Members(c.stack)
  <2>1. c.kind = "dfs" /\ ctx' = <<>> /\ SetError(T, e) /\ UNCHANGED <<root, pend, parents, ran>>
    BY <1>6 DEF FailStep
  <2>2. \A x \in Module : /\ x \in T => status'[x] = "evaluated" /\ ~active'[x] /\ err'[x] = e
                          /\ x \notin T => /\ status'[x] = status[x] /\ active'[x] = active[x]
                                           /\ err'[x] = err[x]
    BY <1>4, <2>1, RecordSteps
  <2>3. E = A \ T BY <2>2
  <2>4. A \in SUBSET Module /\ T \in SUBSET Module BY <1>3
  <2>5. Registered(status, dfs, anc, parents) BY DEF LowLinks
  <2>6. ASSUME NEW p \in Module, p \notin T, status[p] \in {"evaluating", "async"}, NEW x \in A \cap T
        PROVE  p \notin Members(parents[x])
    <3>1. status[x] = "evaluating" /\ x \in Module /\ status[p] # "evaluating" BY <1>3, <2>6
    <3> QED BY <2>5, <3>1 DEF Registered
  <2> HIDE DEF T, A, E, D
  <2>7. Exact(ran', err', root', status', pend', parents', A \ T)
    BY <1>2, <1>4, <1>5, <2>1, <2>2, <2>4, <2>6, FailureCounts
  <2>8. Bound(active', ran', pend', {}) BY <1>2, <1>5, <2>1, <2>2 DEF Bound
  <2> QED BY <2>1, <2>3, <2>7, <2>8, CountsAfter DEF E
<1>7. CASE EndWalkStep(c)
  <2>1. /\ c.kind = "dfs" /\ ctx' = <<>> /\ UNCHANGED <<status, err, active, root, pend, parents, ran>>
    BY <1>7 DEF EndWalkStep, dfsVars
  <2>2. E = A BY <2>1
  <2> HIDE DEF A, E, D
  <2> QED BY <1>2, <1>5, <2>1, <2>2, CountsAfter DEF E
<1>8. CASE EndListStep(c)
  <2>1. /\ c.kind = "list" /\ c.body = Nil /\ c.avail = {} /\ ctx' = <<>>
        /\ UNCHANGED <<status, err, active, root, pend, parents, ran>>
    BY <1>8 DEF EndListStep, dfsVars, recVars
  <2>2. D = E BY <1>4, <2>1 DEF Owing, Spent
  <2> HIDE DEF A, E, D
  <2> QED BY <1>2, <2>1, <2>2, CountsAfter DEF E
<1> QED BY <1>6, <1>7, <1>8 DEF Ends, Working

\* Completing a module takes it, and the available modules that do not await,
\* off the counts of all that wait for them.
LEMMA FulfilCounts ==
  ASSUME IInv, called = {}, graph' = graph, Activity, Counts, ctx = <<>>,
         NEW m \in Module, FulfilStep(m)
  PROVE  Counts'
<1> DEFINE S == Available(m)
           W == Sources(S, m)
           A == {x \in Module : active[x]}
           E == Owing(graph, active', List(S))
<1>1. /\ Exact(ran, err, root, status, pend, parents, A) /\ Bound(active, ran, pend, {})
  BY CountsBefore
<1>2. /\ Types /\ Fresh /\ Outcomes BY DEF IInv
<1>3. \A x \in Module : status[x] # "evaluating" BY DEF IInv, Stacks
<1>4. /\ status \in [Module -> Statuses] /\ pend \in [Module -> Nat]
      /\ parents \in [Module -> Seq(Module)] /\ root \in [Module -> Module]
  BY <1>2 DEF Types, TypeOK
<1>5. /\ exec[m] = "ok" /\ status[m] # "evaluated" /\ Complete(m)
      /\ UNCHANGED <<root, parents, ran>> /\ ctx' = <<List(S)>>
      /\ pend' = [p \in Module |-> IF p \in S THEN 0
                    ELSE IF Waits(p) THEN pend[p] - Edges(W, p) ELSE pend[p]]
  BY DEF FulfilStep, dfsVars
<1>6. \A x \in Module : /\ x = m => status'[x] = "evaluated" /\ ~active'[x]
                        /\ x # m => status'[x] = status[x] /\ active'[x] = active[x]
                        /\ err'[x] = err[x]
  BY <1>2, <1>5, RecordSteps
<1>7. /\ S \subseteq Module /\ \A p \in S : p # m /\ Waits(p)
      /\ \A p \in Module \ S : p # m /\ Waits(p) => Edges(W, p) < pend[p]
  BY <1>2, AvailableFacts
<1>8. \A p \in S : pend[p] <= Edges(W, p) BY <1>2, AvailableExhausted
<1>9. \A x \in Module : status[x] \notin {"linked", "evaluated"} => status[x] = "async" /\ active[x]
  BY <1>3, <1>4 DEF Activity, Statuses
<1>10. m \in A
  <2>1. m \in Members(ran) BY <1>2, <1>5 DEF Outcomes
  <2>2. status[m] # "linked" BY <1>2, <2>1 DEF Fresh
  <2> QED BY <1>5, <1>9, <2>2
<1>11. S \subseteq A
  <2> SUFFICES ASSUME NEW p \in S PROVE p \in A OBVIOUS
  <2>1. p \in Module /\ pend[p] > 0 /\ status[p] # "evaluated" BY <1>7 DEF Waits
  <2>2. status[p] # "linked" BY <1>2, <2>1 DEF Fresh
  <2> QED BY <1>9, <2>1, <2>2
<1>12. W \in SUBSET A /\ A \in SUBSET Module
  <2>1. A \subseteq Module OBVIOUS
  <2> HIDE DEF A, S
  <2> QED BY <1>10, <1>11, <2>1 DEF Sources
<1>13. E = A \ W
  <2>1. List(S).kind = "list" /\ List(S).avail = S /\ List(S).body = Nil BY DEF List
  <2>2. Nil \notin Module BY GraphAssumption
  <2>3. ASSUME NEW x \in Module PROVE x \in E <=> x \in A \ W
    <3> HIDE DEF S
    <3> QED BY <1>6, <2>1, <2>2 DEF Owing, Spent, Sources
  <2> QED BY <2>3 DEF Owing
<1>14. \A p : Edges(W, p) = Cardinality(Registrations(parents, W, p)) BY DEF Edges, Registrations
<1> HIDE DEF S, W, A, E
<1>15. ASSUME NEW p \in Module, active[p], p \notin Members(ran), p # m, p \notin S
       PROVE  pend'[p] > 0
  <2>1. pend[p] > 0 BY <1>1, <1>15 DEF Bound
  <2>2. pend[p] \in Nat BY <1>4
  <2>3. CASE Waits(p)
    <3>1. pend'[p] = pend[p] - Edges(W, p) /\ Edges(W, p) < pend[p] BY <1>5, <1>7, <1>15, <2>3
    <3>2. W \in SUBSET Module BY <1>12
    <3>3. Edges(W, p) \in Nat BY <1>2, <3>2, EdgesType
    <3> QED BY <2>2, <3>1, <3>3
  <2>4. CASE ~Waits(p) BY <1>5, <1>15, <2>1, <2>4
  <2> QED BY <2>3, <2>4
<1>16. ASSUME NEW p \in Module, p \notin Members(ran), err'[root[p]] = Nil,
              status'[p] \in {"evaluating", "async"}
       PROVE  pend'[p] = Cardinality(Registrations(parents, A \ W, p))
  <2>1. root[p] \in Module /\ pend[p] \in Nat BY <1>4
  <2>2. p # m /\ status[p] = status'[p] /\ err[root[p]] = Nil BY <1>6, <1>16, <2>1
  <2>3. status[p] = "async" /\ active[p] BY <1>9, <1>16, <2>2
  <2>4. pend[p] > 0 BY <1>1, <1>16, <2>3 DEF Bound
  <2>5. Waits(p) BY <2>2, <2>3, <2>4 DEF Waits
  <2>6. pend[p] = Cardinality(Registrations(parents, A, p)) BY <1>1, <1>16, <2>2 DEF Exact
  <2>7. /\ Cardinality(Registrations(parents, W, p)) \in Nat
        /\ Cardinality(Registrations(parents, A \ W, p)) = pend[p] - Cardinality(Registrations(parents, W, p))
    BY <1>4, <1>12, <2>6, RegistrationsSplit
  <2>8. CASE p \notin S BY <1>5, <1>14, <2>5, <2>7, <2>8
  <2>9. CASE p \in S
    <3>1. pend'[p] = 0 /\ pend[p] <= Cardinality(Registrations(parents, W, p))
      BY <1>5, <1>8, <1>14, <2>9
    <3>2. Cardinality(Registrations(parents, A \ W, p)) \in Nat
      <4>1. A \ W \in SUBSET Module BY <1>12
      <4> QED BY <1>4, <4>1, RegistrationsFinite
    <3> QED BY <2>1, <2>7, <3>1, <3>2
  <2> QED BY <2>8, <2>9
<1>17. Exact(ran', err', root', status', pend', parents', A \ W) BY <1>5, <1>16 DEF Exact
<1>18. Bound(active', ran', pend', S) BY <1>5, <1>6, <1>15 DEF Bound
<1>19. Len(ctx') = 1 /\ ctx'[1] = List(S) /\ List(S).avail = S BY <1>5 DEF List
<1> QED BY <1>13, <1>17, <1>18, <1>19, CountsAfter DEF E

\* The other steps of the job queue keep the counts.
LEMMA IdleCounts ==
  ASSUME IInv, called = {}, graph' = graph, Activity, Counts, ctx = <<>>, Idling
  PROVE  Counts'
<1> DEFINE A == {x \in Module : active[x]}
           E == {x \in Module : active'[x]}
<1>1. /\ Exact(ran, err, root, status, pend, parents, A) /\ Bound(active, ran, pend, {})
  BY CountsBefore
<1>2. Types BY DEF IInv
<1>3. CASE RestStep
  <2>1. ctx' = <<>> /\ UNCHANGED <<status, err, active, root, pend, parents, ran>>
    BY <1>3 DEF RestStep, dfsVars
  <2> QED BY <1>1, <2>1, CountsAfter
<1>4. ASSUME NEW m \in Module, WalkStep(m) PROVE Counts'
  <2>1. ctx' = <<Walk(m)>> /\ UNCHANGED <<status, err, active, root, pend, parents, ran>>
    BY <1>4 DEF WalkStep, dfsVars
  <2>2. Len(ctx') = 1 /\ ctx'[1] = Walk(m) BY <2>1
  <2>3. Walk(m).kind = "dfs" /\ Walk(m).avail = {} BY DEF Walk
  <2>4. Owing(graph', active', ctx'[1]) = A BY <2>1, <2>2, <2>3, WalkOwes
  <2> HIDE DEF A
  <2> QED BY <1>1, <2>1, <2>2, <2>3, <2>4, CountsAfter
<1>5. ASSUME NEW m \in Module, RejectStep(m) PROVE Counts'
  <2> DEFINE T == Ancestors(m)
  <2>1. ctx' = <<>> /\ SetError(T, m) /\ UNCHANGED <<root, pend, parents, ran>>
    BY <1>5 DEF RejectStep, dfsVars
  <2>2. \A x \in Module : /\ x \in T => status'[x] = "evaluated" /\ ~active'[x] /\ err'[x] = m
                          /\ x \notin T => /\ status'[x] = status[x] /\ active'[x] = active[x]
                                           /\ err'[x] = err[x]
    BY <1>2, <2>1, RecordSteps
  <2>3. /\ T \in SUBSET Module
        /\ \A x \in T : \A p \in Members(parents[x]) : status[p] # "evaluated" => p \in T
    BY <1>2, AncestorsClosed
  <2> HIDE DEF T
  <2>4. E = A \ T BY <2>2
  <2>5. A \in SUBSET Module OBVIOUS
  <2> HIDE DEF A, E
  <2>6. ASSUME NEW p \in Module, p \notin T, status[p] \in {"evaluating", "async"},
               NEW x \in A \cap T
        PROVE  p \notin Members(parents[x])
    BY <2>3, <2>6
  <2>7. Exact(ran', err', root', status', pend', parents', A \ T)
    BY <1>1, <1>2, <2>1, <2>2, <2>3, <2>5, <2>6, FailureCounts
  <2>8. Bound(active', ran', pend', {}) BY <1>1, <2>1, <2>2 DEF Bound
  <2> QED BY <2>1, <2>4, <2>7, <2>8, CountsAfter DEF E
<1> QED BY <1>3, <1>4, <1>5, FulfilCounts DEF Idling

\* The counts are kept by every step.
LEMMA CountsPreserved ==
  ASSUME IInv, Alone, Activity, Dormant, LowLinks, Counts, [Next]_vars
  PROVE  Counts'
<1> SUFFICES ASSUME called' = {} PROVE Counts' BY DEF Counts
<1>1. /\ called = {} /\ graph' = graph
      /\ UNCHANGED vars \/ (ctx = <<>> /\ Idling) \/ Replaces \/ Ends
  BY ImportSteps
<1>2. CASE UNCHANGED vars
  <2>1. UNCHANGED <<graph, status, err, active, root, pend, parents, ran, called, ctx>>
    BY <1>2 DEF vars, recVars, dfsVars, asyVars, hisVars
  <2>2. Debts' = Debts /\ Waiting(ran)' = Waiting(ran) BY <2>1 DEF Debts, Waiting
  <2>3. \A p : Edges(Debts, p)' = Edges(Debts, p) BY <2>1, <2>2 DEF Edges
  <2> QED BY <1>1, <2>1, <2>2, <2>3 DEF Counts
<1>3. CASE ctx = <<>> /\ Idling BY <1>1, <1>3, IdleCounts
<1>4. CASE Ends BY <1>1, <1>4, EndCounts
<1>5. CASE Replaces
  <2>1. Len(ctx) = 1 /\ Len(ctx') = 1 /\ Turning(ctx[1], ctx'[1]) BY <1>5 DEF Replaces
  <2> QED BY <1>1, <2>1, VisitCounts, LeaveCounts, BodyCounts, RunCounts DEF Turning
<1> QED BY <1>1, <1>2, <1>3, <1>4, <1>5
-----------------------------------------------------------------------------
\* Nothing is in progress and nothing waits at first.
LEMMA InitImportInv == Init => ImportInv
<1> SUFFICES ASSUME Init PROVE ImportInv OBVIOUS
<1>1. IInv BY InitIInv
<1>2. ctx = <<>> BY DEF Init
<1>3. \A m \in Module : /\ status[m] = "linked" /\ top[m] = "none" /\ ~active[m]
                        /\ root[m] = m /\ parents[m] = <<>>
  BY DEF Init
<1>4. Alone /\ Settling BY <1>2, <1>3 DEF Alone, Settling
<1>5. Activity /\ Dormant BY <1>2, <1>3, MembersEmpty DEF Activity, Dormant
<1>6. LowLinks BY <1>2, <1>3 DEF LowLinks, Registered
<1>7. Counts BY <1>2, <1>3 DEF Counts, Waiting
<1> QED BY <1>1, <1>4, <1>5, <1>6, <1>7 DEF ImportInv

\* Every step keeps the invariant of imports.
LEMMA NextImportInv == ImportInv /\ [Next]_vars => ImportInv'
<1> SUFFICES ASSUME ImportInv, [Next]_vars PROVE ImportInv' OBVIOUS
<1>1. IInv /\ Alone /\ Settling /\ Activity /\ Dormant /\ LowLinks /\ Counts BY DEF ImportInv
<1>2. IInv' BY <1>1, NextIInv
<1>3. Alone' BY <1>1, AlonePreserved
<1>4. Settling' BY <1>1, SettlingPreserved
<1>5. Activity' /\ Dormant' BY <1>1, ActivityPreserved
<1>6. LowLinks' BY <1>1, LowLinksPreserved
<1>7. Counts' BY <1>1, CountsPreserved
<1> QED BY <1>2, <1>3, <1>4, <1>5, <1>6, <1>7 DEF ImportInv

\* The invariant of imports is kept by every behaviour.
THEOREM ImportInvariant == Spec => []ImportInv
<1>1. Init => ImportInv BY InitImportInv
<1>2. ImportInv /\ [Next]_vars => ImportInv' BY NextImportInv
<1> QED BY <1>1, <1>2, PTL DEF Spec

\* As long as no body calls require(), the promise handed out for a module
\* (capability of tsc_module_evaluate) is settled once the module is evaluated
\* and nothing is in progress.
THEOREM PromisesAreSettled == Spec => []ImportsAreSettled
<1>1. ImportInv => ImportsAreSettled
  BY DEF ImportInv, Settling, ImportsAreSettled, ImportsOnly, EvaluatedIsSettled
<1> QED BY <1>1, ImportInvariant, PTL

\* As long as no body calls require(), a module that waits for asynchronous
\* dependencies counts exactly those still running (pending_dependencies), and
\* at least one, unless its cycle has failed.
THEOREM PendingIsExact == Spec => []PendingExact
<1>1. ImportInv => PendingExact
  <2> SUFFICES ASSUME ImportInv, ctx = <<>>, called = {}, NEW m \in Module,
                      status[m] = "async", m \notin Members(ran), err[root[m]] = Nil
               PROVE  pend[m] > 0 /\ pend[m] = Edges({d \in Module : active[d]}, m)
    BY DEF PendingExact, ImportsOnly
  <2>1. Debts = {d \in Module : active[d]} BY DEF Debts
  <2>2. m \in Waiting(ran) BY DEF Waiting
  <2>3. pend[m] = Edges(Debts, m) BY <2>2 DEF ImportInv, Counts
  <2>4. active[m] BY DEF ImportInv, Activity
  <2>5. pend[m] > 0 BY <2>4 DEF ImportInv, Counts
  <2> QED BY <2>1, <2>3, <2>5
<1> QED BY <1>1, ImportInvariant, PTL
=============================================================================
