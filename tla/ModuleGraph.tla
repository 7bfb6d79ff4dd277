----------------------------- MODULE ModuleGraph -----------------------------
(***************************************************************************)
(* The retained Module Record graph (runtime/tsc_module.c): the iterative  *)
(* depth-first evaluation with its strongly connected components, the      *)
(* asynchronous dependency edges of top-level await, and the completion    *)
(* jobs that resume waiting ancestors.                                     *)
(*                                                                         *)
(* One thread runs everything, but evaluation is re-entrant: a body may    *)
(* call require() on a module of the graph (tsc_module_require_sync),      *)
(* which evaluates it inside the evaluation in progress.  ctx is the stack *)
(* of those activations: depth-first walks, and the list of bodies a       *)
(* completion made available.  Jobs run only when the stack is empty.      *)
(* Error values are identified with the module whose body threw.           *)
(***************************************************************************)
EXTENDS Naturals, Sequences, FiniteSets

CONSTANTS
  Module,       \* the records of the graph
  Graph,        \* the graphs considered: [req, tla, load, link, calls] records
  MaxImports,   \* how many import() jobs and startup roots (a bound)
  MaxRequires,  \* bounds the require() calls made by the bodies of a graph
  Nil           \* no module

ASSUME GraphAssumption ==
  /\ IsFiniteSet(Module) /\ Nil \notin Module
  /\ MaxImports \in Nat /\ MaxRequires \in Nat
  /\ \A g \in Graph : /\ g.req \in [Module -> Seq(Module)]
                      /\ {g.tla, g.load, g.link} \subseteq SUBSET Module
                      /\ g.calls \in 0 .. MaxRequires

VARIABLES
  graph,     \* the definitions: requests, bodies with top-level await, and
             \* the modules with a load error or a link error
  status,    \* "linked", "evaluating", "async" or "evaluated"
  dfs, anc,  \* dfs_index and ancestor_index
  pend,      \* pending_dependencies
  order,     \* async_order
  active,    \* async_active
  err,       \* the error of an evaluated module, or Nil
  root,      \* cycle_root
  parents,   \* async_parents, in order of registration
  top,       \* the top_level promise: "none", "pending", "ok" or "err"
  exec,      \* the promise of an asynchronous body
  jobs,      \* queued module_execution_callback microtasks
  ctx,       \* the activations, innermost last
  clock,     \* the agent's module_async_evaluation_count
  imports, requires,  \* calls made so far
  ran,       \* history: modules whose body has started, in order
  done,      \* history: modules whose body has completed normally
  called     \* history: (body, module) pairs of require() calls

recVars == <<status, err, top, active>>
dfsVars == <<dfs, anc, root>>
asyVars == <<pend, order, parents, exec, jobs, clock>>
cntVars == <<imports, requires>>
hisVars == <<ran, done, called>>
vars == <<graph, recVars, dfsVars, asyVars, cntVars, hisVars, ctx>>
-----------------------------------------------------------------------------
Statuses == {"linked", "evaluating", "async", "evaluated"}
Promises == {"none", "pending", "ok", "err"}
Req(m) == graph.req[m]
Requested(m) == {Req(m)[i] : i \in 1..Len(Req(m))}

\* The least set of modules that contains S and is closed under E.
Closure(S, E(_)) ==
  LET Closed == {T \in SUBSET Module : S \subseteq T /\ \A x \in T : E(x) \subseteq T}
  IN  {m \in Module : \A T \in Closed : m \in T}

Reach(m) == Closure({m}, Requested)

\* The innermost activation, and the stack with it replaced or dropped.
Cur       == ctx[Len(ctx)]
With(c)   == [ctx EXCEPT ![Len(ctx)] = c]
Popped    == SubSeq(ctx, 1, Len(ctx) - 1)
Frame     == Cur.frames[Len(Cur.frames)]
SetFrame(c, f) == [c EXCEPT !.frames[Len(c.frames)] = f]
Members(s) == {s[i] : i \in 1..Len(s)}
NewFrame(m) == [m |-> m, next |-> 1, entered |-> FALSE, waiting |-> FALSE, finish |-> FALSE]
Walk(m)   == [kind |-> "dfs", root |-> m, frames |-> <<NewFrame(m)>>, stack |-> <<>>,
              index |-> 0, avail |-> {}, body |-> Nil]
List(S)   == [kind |-> "list", root |-> Nil, frames |-> <<>>, stack |-> <<>>,
              index |-> 0, avail |-> S, body |-> Nil]

\* module_set_error for every module of S.
SetError(S, e) ==
  /\ status' = [m \in Module |-> IF m \in S THEN "evaluated" ELSE status[m]]
  /\ active' = [m \in Module |-> m \notin S /\ active[m]]
  /\ err'    = [m \in Module |-> IF m \in S THEN e ELSE err[m]]
  /\ top'    = [m \in Module |-> IF m \in S /\ top[m] # "none" THEN "err" ELSE top[m]]

\* Mutant: the promise is left to the caller.
CompleteSilently(m) ==
  /\ status' = [status EXCEPT ![m] = "evaluated"]
  /\ active' = [active EXCEPT ![m] = FALSE]
  /\ UNCHANGED <<err, top>>

\* m completed normally.
Complete(m) ==
  /\ status' = [status EXCEPT ![m] = "evaluated"]
  /\ active' = [active EXCEPT ![m] = FALSE]
  /\ top'    = [top EXCEPT ![m] = IF @ = "none" THEN @ ELSE "ok"]
  /\ UNCHANGED err
-----------------------------------------------------------------------------
Init ==
  /\ graph \in Graph
  /\ status = [m \in Module |-> "linked"] /\ err = [m \in Module |-> Nil]
  /\ top = [m \in Module |-> "none"] /\ active = [m \in Module |-> FALSE]
  /\ dfs = [m \in Module |-> 0] /\ anc = dfs /\ root = [m \in Module |-> m]
  /\ pend = dfs /\ order = dfs /\ parents = [m \in Module |-> <<>>]
  /\ exec = top /\ jobs = <<>> /\ clock = 0 /\ ctx = <<>>
  /\ imports = 0 /\ requires = 0
  /\ ran = <<>> /\ done = {} /\ called = {}

\* tsc_module_evaluate up to its walk: the promise returned is that of the
\* cycle root; a settled or running module answers at once, a module whose
\* graph does not load is rejected afresh, one whose graph does not link is
\* rejected for good, neither being evaluated.
Root(m) == IF status[m] \in {"async", "evaluated"} THEN root[m] ELSE m

Evaluate(m, below) ==
  LET r == Root(m)
      new == status[r] = "linked"
      unlinked == new /\ Reach(m) \cap graph.link # {}
  IN  IF top[r] # "none" \/ (new /\ Reach(m) \cap graph.load # {})
      THEN ctx' = below /\ UNCHANGED top
      ELSE /\ top' = [top EXCEPT ![r] =
                IF unlinked \/ (status[r] = "evaluated" /\ err[r] # Nil) THEN "err"
                ELSE IF status[r] = "evaluated" THEN "ok" ELSE "pending"]
           /\ ctx' = IF new /\ ~unlinked
                     THEN Append(below, Walk(r)) ELSE below

\* A startup root or an import() job.
Import(m) ==
  /\ ctx = <<>> /\ imports < MaxImports
  /\ imports' = imports + 1
  /\ Evaluate(m, ctx)
  /\ UNCHANGED <<graph, status, err, active, dfsVars, asyVars, requires, hisVars>>

\* require() called by the body that runs in the innermost activation.
Require(m) ==
  /\ ctx # <<>> /\ Cur.body # Nil /\ requires < graph.calls
  /\ requires' = requires + 1
  /\ called'   = called \cup {<<Cur.body, m>>}
  /\ Evaluate(m, ctx)
  /\ UNCHANGED <<graph, status, err, active, dfsVars, asyVars, imports, ran, done>>
-----------------------------------------------------------------------------
Walking == ctx # <<>> /\ Cur.kind = "dfs" /\ Cur.body = Nil /\ Cur.frames # <<>>

\* First visit of a module.
Enter ==
  /\ Walking /\ ~Frame.entered
  /\ LET m == Frame.m
     IN  /\ status' = [status EXCEPT ![m] = "evaluating"]
         /\ dfs'    = [dfs EXCEPT ![m] = Cur.index]
         /\ anc'    = [anc EXCEPT ![m] = Cur.index]
         /\ pend'   = [pend EXCEPT ![m] = 0]
         /\ ctx'    = With([SetFrame(Cur, [Frame EXCEPT !.entered = TRUE])
                             EXCEPT !.stack = Append(@, m), !.index = @ + 1])
  /\ UNCHANGED <<graph, err, top, active, root, order, parents, exec, jobs, clock,
                 cntVars, hisVars>>

\* Mutant: the failure is attributed to the root of the walk.
ThrowRoot(c, below, e) == SetError(Members(c.stack) \cup {c.root}, c.root) /\ ctx' = below

\* An error ends the walk: every module on its stack fails with it.
Throw(c, below, e) == SetError(Members(c.stack) \cup {c.root}, e) /\ ctx' = below

\* Mutant: the back edge is not folded in.
NoLowLink(m, q) == anc[m]

\* m's ancestor index after its request q was examined.
LowLink(m, q) == IF status[q] = "evaluating" /\ anc[q] < anc[m] THEN anc[q] ELSE anc[m]

\* m waits for r.
Register(r, m) == [parents EXCEPT ![r] = Append(@, m)]

\* Back from a requested module: fold in its ancestor index, fail with its
\* error, or wait for it if it is still running asynchronously.
Examine ==
  /\ Walking /\ Frame.entered /\ Frame.waiting
  /\ LET m == Frame.m
         q == Req(m)[Frame.next - 1]
         r == IF status[q] = "evaluating" THEN q ELSE root[q]
     IN  /\ anc' = [anc EXCEPT ![m] = LowLink(m, q)]
         /\ IF err[r] # Nil
            THEN Throw(Cur, Popped, err[r]) /\ UNCHANGED <<pend, parents>>
            ELSE /\ pend' = [pend EXCEPT ![m] = IF active[r] THEN @ + 1 ELSE @]
                 /\ parents' = IF active[r] THEN Register(r, m) ELSE parents
                 /\ ctx' = With(SetFrame(Cur, [Frame EXCEPT !.waiting = FALSE]))
                 /\ UNCHANGED recVars
  /\ UNCHANGED <<graph, dfs, root, order, exec, jobs, clock, cntVars, hisVars>>

\* Mutant: a module that awaits is visited again.
UnvisitedOrAwaiting(q) == status[q] \in {"linked", "async"}

Unvisited(q) == status[q] = "linked"

\* The next requested module, visited now if it is new.
Request ==
  /\ Walking /\ Frame.entered /\ ~Frame.waiting /\ Frame.next <= Len(Req(Frame.m))
  /\ LET q == Req(Frame.m)[Frame.next]
         c == SetFrame(Cur, [Frame EXCEPT !.next = @ + 1, !.waiting = TRUE])
     IN  ctx' = With(IF Unvisited(q)
                     THEN [c EXCEPT !.frames = Append(@, NewFrame(q))] ELSE c)
  /\ UNCHANGED <<graph, recVars, dfsVars, asyVars, cntVars, hisVars>>

\* All requests are done: run the body, or wait for asynchronous dependencies.
Execute ==
  /\ Walking /\ Frame.entered /\ ~Frame.waiting /\ ~Frame.finish
  /\ Frame.next > Len(Req(Frame.m))
  /\ LET m == Frame.m
         asynchronous == pend[m] > 0 \/ m \in graph.tla
         c == SetFrame(Cur, [Frame EXCEPT !.finish = TRUE])
     IN  /\ active' = [active EXCEPT ![m] = @ \/ asynchronous]
         /\ order'  = [order EXCEPT ![m] = IF asynchronous THEN clock ELSE @]
         /\ clock'  = IF asynchronous THEN clock + 1 ELSE clock
         /\ IF pend[m] > 0 THEN ctx' = With(c) /\ UNCHANGED ran
            ELSE ctx' = With([c EXCEPT !.body = m]) /\ ran' = Append(ran, m)
  /\ UNCHANGED <<graph, status, err, top, dfsVars, pend, parents, exec, jobs,
                 cntVars, done, called>>

\* Pop the component if the module is its root, and the frame.
Finish ==
  /\ Walking /\ Frame.finish
  /\ LET m == Frame.m
         at == CHOOSE i \in 1..Len(Cur.stack) : Cur.stack[i] = m
         scc == IF anc[m] = dfs[m] THEN {Cur.stack[i] : i \in at..Len(Cur.stack)} ELSE {}
     IN  /\ status' = [x \in Module |-> IF x \notin scc THEN status[x]
                         ELSE IF active[x] THEN "async" ELSE "evaluated"]
         /\ root' = [x \in Module |-> IF x \in scc THEN m ELSE root[x]]
         /\ ctx'  = With([Cur EXCEPT
                       !.frames = SubSeq(@, 1, Len(@) - 1),
                       !.stack  = IF scc = {} THEN @ ELSE SubSeq(@, 1, at - 1)])
  /\ UNCHANGED <<graph, err, top, active, dfs, anc, asyVars, cntVars, hisVars>>

\* Mutant: the promise is settled although the root still waits.
EndWalkEarly ==
  /\ ctx # <<>> /\ Cur.kind = "dfs" /\ Cur.body = Nil /\ Cur.frames = <<>>
  /\ top' = [top EXCEPT ![Cur.root] = "ok"]
  /\ ctx' = Popped
  /\ UNCHANGED <<graph, status, err, active, dfsVars, asyVars, cntVars, hisVars>>

\* The walk is over; its root's promise is settled unless it runs on.
EndWalk ==
  /\ ctx # <<>> /\ Cur.kind = "dfs" /\ Cur.body = Nil /\ Cur.frames = <<>>
  /\ top' = [top EXCEPT ![Cur.root] = IF active[Cur.root] THEN @ ELSE "ok"]
  /\ ctx' = Popped
  /\ UNCHANGED <<graph, status, err, active, dfsVars, asyVars, cntVars, hisVars>>
-----------------------------------------------------------------------------
\* Mutant: the ancestors are not told.
AncestorsNone(m) == IF status[m] = "evaluated" THEN {} ELSE {m}

\* module_execution_rejected: the error spreads to the waiting ancestors.
Ancestors(m) == LET Up(d) == {p \in Members(parents[d]) : status[p] # "evaluated"}
                IN  IF status[m] = "evaluated" THEN {} ELSE Closure({m}, Up)

\* A body without top-level await returns or throws; one with it returns a
\* promise, pending or already settled.
BodyReturns ==
  /\ ctx # <<>> /\ Cur.body # Nil /\ Cur.body \notin graph.tla
  /\ done' = done \cup {Cur.body}
  /\ ctx'  = With([Cur EXCEPT !.body = Nil])
  /\ IF Cur.kind = "list" THEN Complete(Cur.body) ELSE UNCHANGED recVars
  /\ UNCHANGED <<graph, dfsVars, asyVars, cntVars, ran, called>>

BodyThrows ==
  /\ ctx # <<>> /\ Cur.body # Nil /\ Cur.body \notin graph.tla
  /\ IF Cur.kind = "dfs" THEN Throw(Cur, Popped, Cur.body)
     ELSE /\ SetError(Ancestors(Cur.body), Cur.body)
          /\ ctx' = With([Cur EXCEPT !.body = Nil])
  /\ UNCHANGED <<graph, dfsVars, asyVars, cntVars, hisVars>>

BodyAwaits(p) ==
  /\ ctx # <<>> /\ Cur.body # Nil /\ Cur.body \in graph.tla
  /\ exec' = [exec EXCEPT ![Cur.body] = p]
  /\ jobs' = IF p = "pending" THEN jobs ELSE Append(jobs, Cur.body)
  /\ done' = IF p = "ok" THEN done \cup {Cur.body} ELSE done
  /\ ctx'  = With([Cur EXCEPT !.body = Nil])
  /\ UNCHANGED <<graph, recVars, dfsVars, pend, order, parents, clock, cntVars, ran, called>>

\* An awaiting body ends; its callback is queued.
Settle(m, p) ==
  /\ ctx = <<>> /\ exec[m] = "pending"
  /\ exec' = [exec EXCEPT ![m] = p]
  /\ jobs' = Append(jobs, m)
  /\ done' = IF p = "ok" THEN done \cup {m} ELSE done
  /\ UNCHANGED <<graph, recVars, dfsVars, pend, order, parents, clock, ctx, cntVars,
                 ran, called>>

\* Registrations of p with the modules of S.
Edges(S, p) ==
  Cardinality(UNION {{<<d, i>> : i \in {j \in 1..Len(parents[d]) : parents[d][j] = p}} : d \in S})

\* Mutants: awaiting ancestors count as complete; synchronous ones do not.
SourcesAll(S, m) == {m} \cup S
SourcesDirect(S, m) == {m}

\* If m and the modules of S complete, a module p that waits for them alone is
\* exhausted; those of S that await do not complete yet.
Sources(S, m) == {m} \cup (S \ graph.tla)
Waits(p) == pend[p] > 0 /\ err[root[p]] = Nil /\ status[p] # "evaluated"
Exhausted(p, S, m) == p # m /\ Waits(p) /\ pend[p] <= Edges(Sources(S, m), p)

\* The ancestors that m's completion makes available: those with no other
\* unfinished dependency, through ancestors that run without awaiting.
Available(m) ==
  LET Closed == {S \in SUBSET Module : \A p \in Module : Exhausted(p, S, m) => p \in S}
  IN  {p \in Module : \A S \in Closed : p \in S}

\* module_execution_callback of a fulfilled body: complete it and collect the
\* available ancestors.
Fulfilled(m) ==
  /\ exec[m] = "ok"
  /\ IF status[m] = "evaluated" THEN UNCHANGED <<recVars, pend, ctx>>
     ELSE /\ Complete(m)
          /\ LET S == Available(m)
             IN  /\ pend' = [p \in Module |-> IF p \in S THEN 0
                               ELSE IF Waits(p) THEN pend[p] - Edges(Sources(S, m), p)
                               ELSE pend[p]]
                 /\ ctx'  = <<List(S)>>

\* ... and of a rejected one.
Rejected(m) ==
  /\ exec[m] = "err"
  /\ SetError(Ancestors(m), m)
  /\ UNCHANGED <<pend, ctx>>

Callback ==
  /\ ctx = <<>> /\ jobs # <<>>
  /\ Fulfilled(Head(jobs)) \/ Rejected(Head(jobs))
  /\ jobs' = Tail(jobs)
  /\ UNCHANGED <<graph, dfsVars, order, parents, exec, clock, cntVars, hisVars>>

\* The available ancestors run in async_order; one that failed meanwhile is
\* skipped.
RunNext ==
  /\ ctx # <<>> /\ Cur.kind = "list" /\ Cur.body = Nil
  /\ \E m \in Cur.avail :
       /\ \A x \in Cur.avail : order[m] <= order[x]
       /\ ctx' = With([Cur EXCEPT !.avail = @ \ {m},
                                  !.body = IF status[m] = "evaluated" THEN Nil ELSE m])
       /\ ran' = IF status[m] = "evaluated" THEN ran ELSE Append(ran, m)
  /\ UNCHANGED <<graph, recVars, dfsVars, asyVars, cntVars, done, called>>

EndList ==
  /\ ctx # <<>> /\ Cur.kind = "list" /\ Cur.body = Nil /\ Cur.avail = {}
  /\ ctx' = Popped
  /\ UNCHANGED <<graph, recVars, dfsVars, asyVars, cntVars, hisVars>>
-----------------------------------------------------------------------------
Run == \/ Enter \/ Examine \/ Request \/ Execute \/ Finish \/ EndWalk
       \/ BodyReturns \/ BodyThrows \/ \E p \in {"pending", "ok", "err"} : BodyAwaits(p)
       \/ Callback \/ RunNext \/ EndList

Next == \/ Run
        \/ \E m \in Module : \/ Import(m) \/ Require(m)
                             \/ \E p \in {"ok", "err"} : Settle(m, p)

Spec == Init /\ [][Next]_vars
-----------------------------------------------------------------------------
TypeOK ==
  /\ graph.req \in [Module -> Seq(Module)] /\ graph.tla \subseteq Module
  /\ status \in [Module -> Statuses] /\ err \in [Module -> Module \cup {Nil}]
  /\ top \in [Module -> Promises] /\ exec \in [Module -> Promises]
  /\ active \in [Module -> BOOLEAN] /\ root \in [Module -> Module]
  /\ dfs \in [Module -> Nat] /\ anc \in [Module -> Nat]
  /\ pend \in [Module -> Nat] /\ order \in [Module -> Nat]
  /\ parents \in [Module -> Seq(Module)]
  /\ jobs \in Seq(Module) /\ ran \in Seq(Module) /\ done \subseteq Module
  /\ \A i \in 1..Len(ctx) : ctx[i].body \in Module \cup {Nil} /\ ctx[i].avail \subseteq Module

\* What m needs, counting the modules that bodies have asked for with require().
Needs(m) == LET Uses(x) == Requested(x) \cup {y \in Module : <<x, y>> \in called}
            IN  Closure({m}, Uses)

\* No body runs twice, however roots, imports, awaits and re-entrant
\* require() calls interleave.
BodyRunsOnce == Len(ran) = Cardinality(Members(ran))

\* No body has called require() so far: the walks are those of imports.
ImportsOnly == called = {}

\* A body starts only after every module it requests has completed normally
\* with all that this module depends on, unless the two depend on each other.
DependenciesFirst ==
  [][\A m \in Module : ran' = Append(ran, m) /\ ImportsOnly =>
       \A d \in Requested(m) : m \in Needs(d) \/ Reach(d) \subseteq done]_vars

\* Modules share a cycle root exactly if they depend on each other.
CyclesFound ==
  ctx = <<>> /\ ImportsOnly => \A m, n \in {x \in Module : status[x] \in {"async", "evaluated"} /\ err[x] = Nil} :
    root[m] = root[n] <=> m \in Reach(n) /\ n \in Reach(m)

\* A module's evaluation is reported as complete only when every body it
\* depends on, in its own cycle too, has completed.
CompletionCoversGraph ==
  ImportsOnly => \A m \in Module :
    (top[m] = "ok" \/ (ctx = <<>> /\ status[root[m]] = "evaluated" /\ err[root[m]] = Nil))
      => Reach(m) \subseteq done

\* A failure is reported with the error of a module that was needed, and a
\* module that failed never completes.
FailureFromDependency ==
  \A m \in Module : err[m] # Nil => /\ err[m] \in Needs(m) \ done
                                    /\ top[m] # "ok"

\* A module that waits for asynchronous dependencies counts exactly those
\* still running, so its body is started when the last one completes (in a
\* cycle that has failed nothing is counted any more).
PendingExact ==
  ctx = <<>> /\ ImportsOnly => \A m \in Module :
    status[m] = "async" /\ m \notin Members(ran) /\ err[root[m]] = Nil =>
      pend[m] > 0 /\ pend[m] = Edges({d \in Module : active[d]}, m)

\* Once a module is evaluated, the promise handed out for it is settled: a
\* later import() of it resolves.
EvaluatedIsSettled ==
  ctx = <<>> => \A m \in Module : status[m] = "evaluated" => top[m] # "pending"

\* The same as long as only imports evaluate modules.
ImportsAreSettled == ImportsOnly => EvaluatedIsSettled

Fairness == WF_vars(Run) /\ \A m \in Module : WF_vars(\E p \in {"ok", "err"} : Settle(m, p))
FairSpec == Spec /\ Fairness

\* If every awaiting body ends, every evaluation ends.
EvaluationSettles == \A m \in Module : top[m] = "pending" ~> top[m] \in {"ok", "err"}
=============================================================================
