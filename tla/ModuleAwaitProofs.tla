-------------------------- MODULE ModuleAwaitProofs --------------------------
(***************************************************************************)
(* Proofs about ModuleGraph for the behaviours in which modules are        *)
(* evaluated by imports only: dependencies complete first, and a module's  *)
(* promise is fulfilled only when all that it needs has completed.         *)
(***************************************************************************)
EXTENDS ModuleCycleProofs, WellFoundedInduction

\* A body whose promise is fulfilled has completed; a module is evaluated
\* without error only when its body has completed.
Concluded(x, s, e, dn) == \A m \in Module :
  /\ x[m] = "ok" => m \in dn
  /\ s[m] = "evaluated" /\ e[m] = Nil => m \in dn

\* Asynchronous modules are numbered in the order of their execution, which a
\* module that waits follows (o is async_order, t the agent's counter).
Numbered(o, t, a, par) == \A d \in Module :
  /\ a[d] => o[d] < t
  /\ \A p \in Members(par[d]) : o[d] < t /\ (a[p] => o[d] < o[p])

\* Who waits for d starts only when d has completed, and fails with it.
Obeyed(par, r, dn, a, e) == \A d \in Module : \A p \in Members(par[d]) :
  /\ p \in Members(r) => d \in dn
  /\ d \notin dn /\ ~a[d] => e[p] # Nil

\* What a module of a completion's list waits for has completed or comes first.
Due(par, s, dn, c) == \A p \in c.avail : s[p] # "evaluated" =>
  \A d \in Module : p \in Members(par[d]) => d \in dn \/ d \in Spent(graph, c)

\* A visited module has completed or runs on, unless its body is running; a
\* body that awaits runs on.
Done(c, dn, a) ==
  /\ c.kind = "dfs" /\ c.body \in graph.tla => a[c.body]
  /\ \A x \in Members(c.stack) :
       (\A k \in 1..Len(c.frames) : c.frames[k].m = x => c.frames[k].finish) /\ c.body # x =>
         x \in dn \/ a[x]

\* A module on the stack whose visit is over and whose body is not has a
\* module that waits for it, below it but in its component, or is about to.
Above(d, c, p, x) ==
  /\ p \in Members(c.stack) /\ d[p] < d[x]
  /\ \A k \in 1..Len(c.frames) :
       c.frames[k].entered /\ d[c.frames[k].m] < d[x] => d[c.frames[k].m] <= d[p]
Chained(d, par, dn, c) == \A x \in Members(c.stack) :
  (\A k \in 1..Len(c.frames) : c.frames[k].m # x) /\ x \notin dn =>
    \/ \E p \in Members(par[x]) : Above(d, c, p, x)
    \/ \E k \in 1..Len(c.frames) : /\ k = Len(c.frames) /\ c.frames[k].waiting
                                   /\ Asked(graph, c.frames[k]) = x /\ d[c.frames[k].m] < d[x]

\* The same for popped modules.
Tied(T, d, par, dn, r) == \A x \in T : x \notin dn /\ r[x] # x =>
  \E p \in Members(par[x]) : p \in T /\ r[p] = r[x] /\ d[p] < d[x]

\* x does not need q to complete, or waits for it.
Held(par, dn, r, x, q) == r[q] \in dn \/ x \in Members(par[r[q]])

\* A module waits for the components it asks for that have not completed.
Holding(T, par, dn, r) == \A x \in T : \A q \in Requested(x) :
  r[q] # r[x] => Held(par, dn, r, x, q)
HoldingOpen(T, par, dn, r, c) == \A x \in Members(c.stack) : \A i \in 1..Len(Req(x)) :
  Seen(c, x, i) /\ Req(x)[i] \in T => Held(par, dn, r, x, Req(x)[i])

\* A fulfilled promise is that of a component's root that has completed; a
\* pending one is that of a root.
Linkable(m) == Needs(m) \cap graph.link = {}
Promised(T, t, s, r, dn) == \A m \in Module :
  /\ t[m] = "ok" => m \in T /\ r[m] = m /\ m \in dn
  /\ t[m] = "pending" => r[m] = m
  /\ t[m] = "err" => s[m] = "evaluated" \/ ~Linkable(m)
  /\ s[m] # "linked" => Linkable(m)
Rooted(s, r, c) == c.kind = "dfs" =>
  /\ r[c.root] = c.root /\ Linkable(c.root)
  /\ c.frames = <<>> => s[c.root] \in Over

\* What holds of the records, and of an activation c.
Records(T) ==
  /\ Concluded(exec, status, err, done) /\ Numbered(order, clock, active, parents)
  /\ Obeyed(parents, ran, done, active, err)
  /\ Tied(T, dfs, parents, done, root) /\ Holding(T, parents, done, root)
  /\ Promised(T, top, status, root, done)
Course(T, c) ==
  /\ Due(parents, status, done, c) /\ Done(c, done, active) /\ Chained(dfs, parents, done, c)
  /\ HoldingOpen(T, parents, done, root, c) /\ Rooted(status, root, c)

Awaits(T) == Records(T) /\ \A i \in 1..Len(ctx) : Course(T, ctx[i])

AwaitInv == ImportInv /\ (called = {} => \E T \in SUBSET Module : Settled(T) /\ Awaits(T))
-----------------------------------------------------------------------------
\* The same in the next state, over the definitions of this one.
RecordsKept(T) ==
  /\ Concluded(exec', status', err', done') /\ Numbered(order', clock', active', parents')
  /\ Obeyed(parents', ran', done', active', err')
  /\ Tied(T, dfs', parents', done', root') /\ Holding(T, parents', done', root')
  /\ Promised(T, top', status', root', done')
CourseKept(T, d) ==
  /\ Due(parents', status', done', d) /\ Done(d, done', active') /\ Chained(dfs', parents', done', d)
  /\ HoldingOpen(T, parents', done', root', d) /\ Rooted(status', root', d)

\* The invariant in the next state.
LEMMA AwaitsNext ==
  ASSUME called = {}, called' = {}, graph' = graph, NEW T, RecordsKept(T),
         \A i \in 1..Len(ctx') : CourseKept(T, ctx'[i])
  PROVE  Awaits(T)'
<1>1. \A m : Requested(m)' = Requested(m) /\ Req(m)' = Req(m) /\ Needs(m)' = Needs(m)
  BY NeedingStands
<1>2. \A m : Linkable(m)' <=> Linkable(m) BY <1>1 DEF Linkable
<1>3. /\ Concluded(exec, status, err, done)' /\ Numbered(order, clock, active, parents)'
      /\ Obeyed(parents, ran, done, active, err)' /\ Tied(T, dfs, parents, done, root)'
  BY DEF RecordsKept
<1>4. Holding(T, parents, done, root)' BY <1>1 DEF RecordsKept, Holding
<1>5. Promised(T, top, status, root, done)' BY <1>2 DEF RecordsKept, Promised
<1>6. Records(T)' BY <1>3, <1>4, <1>5 DEF Records
<1>7. ASSUME NEW i \in 1..Len(ctx') PROVE Course(T, ctx[i])'
  <2>1. CourseKept(T, ctx'[i]) OBVIOUS
  <2>2. Due(parents, status, done, ctx[i])' BY <2>1 DEF CourseKept, Due
  <2>3. Done(ctx[i], done, active)' BY <2>1 DEF CourseKept, Done
  <2>4. Chained(dfs, parents, done, ctx[i])' BY <2>1 DEF CourseKept, Chained
  <2>5. HoldingOpen(T, parents, done, root, ctx[i])' BY <1>1, <2>1 DEF CourseKept, HoldingOpen
  <2>6. Rooted(status, root, ctx[i])' BY <1>2, <2>1 DEF CourseKept, Rooted
  <2> QED BY <2>2, <2>3, <2>4, <2>5, <2>6 DEF Course
<1> QED BY <1>6, <1>7 DEF Awaits

\* The state before a step, with the one activation c.
Ready(T) == /\ ImportInv /\ called = {} /\ T \in SUBSET Module /\ Settled(T) /\ Awaits(T)
            /\ clock' \in Nat /\ clock <= clock'
ReadyIn(T, c) == Ready(T) /\ Len(ctx) = 1 /\ c = ctx[1]

\* What the invariants say then.
LEMMA ReadyFacts ==
  ASSUME NEW T, Ready(T)
  PROVE  /\ IInv /\ Types /\ Activity /\ LowLinks /\ Counts /\ called = {} /\ T \subseteq Module
         /\ Fresh /\ Outcomes /\ Failures /\ Once
         /\ Sorted(T, status, root, err) /\ Records(T) /\ clock \in Nat /\ clock' \in Nat
         /\ clock <= clock'
         /\ \A x \in Module : /\ root[x] \in Module /\ parents[x] \in Seq(Module)
                              /\ Members(parents[x]) \subseteq Module
                              /\ dfs[x] \in Nat /\ order[x] \in Nat /\ active[x] \in BOOLEAN
                              /\ status[x] \in Statuses
         /\ \A x \in T : root[x] \in T
<1>1. /\ IInv /\ Types /\ Activity /\ LowLinks /\ Counts /\ called = {} /\ T \subseteq Module
      /\ Fresh /\ Outcomes /\ Failures /\ Once
  BY DEF Ready, ImportInv, IInv
<1>2. Sorted(T, status, root, err) /\ Records(T) BY DEF Ready, Settled, Awaits
<1>3. clock \in Nat /\ clock' \in Nat /\ clock <= clock' BY <1>1 DEF Types, Ready
<1>4. \A x \in Module : /\ root[x] \in Module /\ parents[x] \in Seq(Module)
                        /\ dfs[x] \in Nat /\ order[x] \in Nat /\ active[x] \in BOOLEAN
                        /\ status[x] \in Statuses
  BY <1>1 DEF Types, TypeOK
<1>5. \A x \in Module : Members(parents[x]) \subseteq Module BY <1>4, MembersOf
<1>6. \A x \in T : root[x] \in T BY <1>2 DEF Sorted
<1> QED BY <1>1, <1>2, <1>3, <1>4, <1>5, <1>6

\* What they say of the one activation.
LEMMA ReadyActivation ==
  ASSUME NEW T, NEW c, ReadyIn(T, c)
  PROVE  /\ Explored(T, status, dfs, anc, c) /\ Course(T, c) /\ NotYetActive(active, c)
         /\ Covered(graph, dfs, anc, c) /\ Registered(status, dfs, anc, parents)
         /\ c \in Activation /\ Shape(graph, c) /\ Stacked(status, dfs, c)
         /\ Reaching(Needing, dfs, anc, c) /\ Unstarted(ran, Idle(status, pend, ran), c)
         /\ Ongoing(ran, done, exec, status, err, c) /\ Members(c.stack) \subseteq Module
         /\ \A x \in Module : status[x] = "evaluating" <=> x \in Members(c.stack)
<1>1. /\ IInv /\ Dormant /\ LowLinks /\ called = {} /\ Len(ctx) = 1 /\ c = ctx[1]
      /\ \A i \in 1..Len(ctx) : Course(T, ctx[i]) /\ Explored(T, status, dfs, anc, ctx[i])
  BY DEF ReadyIn, Ready, ImportInv, Awaits, Settled
<1>2. /\ Explored(T, status, dfs, anc, c) /\ Course(T, c) BY <1>1
<1>3. NotYetActive(active, c) BY <1>1 DEF Dormant
<1>4. Covered(graph, dfs, anc, c) /\ Registered(status, dfs, anc, parents) BY <1>1 DEF LowLinks
<1> QED BY <1>1, <1>2, <1>3, <1>4, SoleFacts
-----------------------------------------------------------------------------
\* A set whose members have a rank has one of least rank.
LEMMA LeastOf ==
  ASSUME NEW B, NEW h, \A x \in B : h[x] \in Nat, B # {}
  PROVE  \E x \in B : \A y \in B : ~(h[y] < h[x])
<1> DEFINE R == {ss \in Nat \X Nat : ss[1] < ss[2]}
           H == {h[x] : x \in B}
<1>1. IsWellFoundedOn(R, Nat) BY NatLessThanWellFounded DEF OpToRel
<1>2. H \subseteq Nat /\ H # {} OBVIOUS
<1> HIDE DEF R, H
<1>3. PICK v \in H : \A w \in H : ~(<<w, v>> \in R) BY <1>1, <1>2, WFMin
<1>4. PICK x \in B : v = h[x] BY DEF H
<1>5. ASSUME NEW y \in B PROVE ~(h[y] < h[x])
  <2>1. h[y] \in H /\ h[y] \in Nat /\ h[x] \in Nat BY DEF H
  <2>2. ~(<<h[y], h[x]>> \in R) BY <1>3, <1>4, <2>1
  <2> QED BY <2>1, <2>2 DEF R
<1> QED BY <1>5

\* When nothing is counted, nothing is waited for.
LEMMA NoRegistration ==
  ASSUME NEW par \in [Module -> Seq(Module)], NEW S \in SUBSET Module, NEW p,
         Cardinality(Registrations(par, S, p)) = 0, NEW d \in S
  PROVE  p \notin Members(par[d])
<1> SUFFICES ASSUME p \in Members(par[d]) PROVE FALSE OBVIOUS
<1>1. IsFiniteSet(Registrations(par, S, p)) BY RegistrationsFinite
<1>2. Registrations(par, S, p) = {} BY <1>1, FS_EmptySet
<1>3. PICK j \in 1..Len(par[d]) : par[d][j] = p BY DEF Members
<1>4. Registration(par, S, p, <<d, j>>) BY <1>3 DEF Registration, Placed
<1>5. <<d, j>> \in Registrations(par, S, p) BY <1>4, RegistrationsAre
<1> QED BY <1>2, <1>5

\* The agent's counter does not run backwards.
LEMMA ClockGrows ==
  ASSUME Types, Types', [Next]_vars
  PROVE  clock' \in Nat /\ clock <= clock'
<1>1. clock \in Nat /\ clock' \in Nat BY DEF Types
<1>2. clock' = clock \/ clock' = clock + 1
  <2>1. CASE UNCHANGED vars BY <2>1 DEF vars, asyVars
  <2>2. CASE Enter \/ Examine \/ Request \/ Execute \/ Finish \/ EndWalk
    BY <2>2 DEF Enter, Examine, Request, Execute, Finish, EndWalk, asyVars
  <2>3. CASE BodyReturns \/ BodyThrows \/ RunNext \/ EndList \/ Callback
    BY <2>3 DEF BodyReturns, BodyThrows, RunNext, EndList, Callback, asyVars
  <2>4. ASSUME NEW p \in {"pending", "ok", "err"}, BodyAwaits(p) PROVE clock' = clock
    BY <2>4 DEF BodyAwaits
  <2>5. ASSUME NEW m \in Module, Import(m) \/ Require(m) PROVE clock' = clock
    BY <2>5 DEF Import, Require, asyVars
  <2>6. ASSUME NEW m \in Module, NEW p \in {"ok", "err"}, Settle(m, p) PROVE clock' = clock
    BY <2>6 DEF Settle
  <2> QED BY <2>1, <2>2, <2>3, <2>4, <2>5, <2>6 DEF Next, Run
<1> QED BY <1>1, <1>2

\* Whoever waits and whatever has completed keeps doing so.
LEMMA TiesStay ==
  ASSUME NEW T, Ready(T), root' = root, done \subseteq done', \A x \in T : dfs'[x] = dfs[x],
         \A x \in Module : Members(parents[x]) \subseteq Members(parents'[x])
  PROVE  Tied(T, dfs', parents', done', root') /\ Holding(T, parents', done', root')
<1>1. /\ T \subseteq Module /\ Records(T) /\ \A x \in Module : root[x] \in Module
      /\ \A x \in T : Requested(x) \subseteq T
  BY ReadyFacts DEF Sorted
<1>2. Tied(T, dfs, parents, done, root) /\ Holding(T, parents, done, root) BY <1>1 DEF Records
<1>3. Tied(T, dfs', parents', done', root') BY <1>1, <1>2 DEF Tied
<1>4. ASSUME NEW x \in T, NEW q \in Requested(x), root'[q] # root'[x]
      PROVE  Held(parents', done', root', x, q)
  <2>1. q \in Module /\ root[q] \in Module BY <1>1
  <2>2. Held(parents, done, root, x, q) BY <1>2, <1>4 DEF Holding
  <2> QED BY <2>1, <2>2 DEF Held
<1> QED BY <1>3, <1>4 DEF Holding

\* Records that do not change stay in order.
LEMMA RecordsStay ==
  ASSUME NEW T, Ready(T), done \subseteq done',
         UNCHANGED <<exec, status, err, order, active, parents, ran, root, top, dfs>>
  PROVE  RecordsKept(T)
<1>1. /\ T \subseteq Module /\ Records(T) /\ clock \in Nat /\ clock' \in Nat /\ clock <= clock'
      /\ \A x \in Module : order[x] \in Nat
  BY ReadyFacts
<1>2. /\ Concluded(exec, status, err, done) /\ Numbered(order, clock, active, parents)
      /\ Obeyed(parents, ran, done, active, err) /\ Promised(T, top, status, root, done)
  BY <1>1 DEF Records
<1>3. Tied(T, dfs', parents', done', root') /\ Holding(T, parents', done', root') BY TiesStay
<1>4. Concluded(exec', status', err', done') BY <1>2 DEF Concluded
<1>5. Numbered(order', clock', active', parents') BY <1>1, <1>2 DEF Numbered
<1>6. Obeyed(parents', ran', done', active', err') BY <1>2 DEF Obeyed
<1>7. Promised(T, top', status', root', done') BY <1>2 DEF Promised
<1> QED BY <1>3, <1>4, <1>5, <1>6, <1>7 DEF RecordsKept

\* A failure is passed on to whoever waits.
LEMMA FailureRecords ==
  ASSUME NEW T, Ready(T), NEW E \in SUBSET Module, NEW e \in Module, SetError(E, e),
         \A x \in E : status[x] # "linked",
         \A x \in E : \A p \in Members(parents[x]) :
           active[x] /\ x \notin done => p \in E \/ err[p] # Nil,
         UNCHANGED <<exec, order, parents, ran, root, dfs, done>>
  PROVE  RecordsKept(T)
<1>1. /\ Types /\ T \subseteq Module /\ Records(T) /\ clock \in Nat /\ clock' \in Nat
      /\ clock <= clock' /\ \A x \in Module : order[x] \in Nat
      /\ \A x \in Module : Members(parents[x]) \subseteq Module
  BY ReadyFacts
<1>2. /\ Concluded(exec, status, err, done) /\ Numbered(order, clock, active, parents)
      /\ Obeyed(parents, ran, done, active, err) /\ Promised(T, top, status, root, done)
  BY <1>1 DEF Records
<1>3. \A x \in Module :
        /\ x \in E => /\ status'[x] = "evaluated" /\ ~active'[x] /\ err'[x] = e /\ e # Nil
                      /\ top'[x] # "pending" /\ top'[x] # "ok"
        /\ x \notin E => /\ status'[x] = status[x] /\ active'[x] = active[x]
                         /\ err'[x] = err[x] /\ top'[x] = top[x]
  <2>1. e # Nil BY GraphAssumption
  <2>2. \A x \in Module : x \in E => top'[x] # "ok" BY DEF SetError
  <2> QED BY <1>1, <2>1, <2>2, RecordSteps
<1>4. Tied(T, dfs', parents', done', root') /\ Holding(T, parents', done', root') BY TiesStay
<1>5. Concluded(exec', status', err', done') BY <1>2, <1>3 DEF Concluded
<1>6. Numbered(order', clock', active', parents')
  <2> SUFFICES ASSUME NEW x \in Module
               PROVE  /\ active'[x] => order[x] < clock'
                      /\ \A p \in Members(parents[x]) : order[x] < clock' /\ (active'[p] => order[x] < order[p])
    BY DEF Numbered
  <2>1. \A y \in Module : active'[y] => active[y] BY <1>3
  <2>2. /\ active[x] => order[x] < clock
        /\ \A p \in Members(parents[x]) : order[x] < clock /\ (active[p] => order[x] < order[p])
    BY <1>2 DEF Numbered
  <2> QED BY <1>1, <2>1, <2>2
<1>7. Obeyed(parents', ran', done', active', err')
  <2> SUFFICES ASSUME NEW x \in Module, NEW p \in Members(parents[x])
               PROVE  /\ p \in Members(ran) => x \in done
                      /\ x \notin done /\ ~active'[x] => err'[p] # Nil
    BY DEF Obeyed
  <2>1. /\ p \in Members(ran) => x \in done
        /\ x \notin done /\ ~active[x] => err[p] # Nil
    BY <1>2 DEF Obeyed
  <2>2. p \in Module BY <1>1
  <2>3. p \in E \/ err[p] # Nil => err'[p] # Nil BY <1>3, <2>2
  <2> QED BY <1>3, <2>1, <2>3
<1>8. Promised(T, top', status', root', done')
  <2> SUFFICES ASSUME NEW m \in Module
               PROVE  /\ top'[m] = "ok" => m \in T /\ root[m] = m /\ m \in done
                      /\ top'[m] = "pending" => root[m] = m
                      /\ top'[m] = "err" => status'[m] = "evaluated" \/ ~Linkable(m)
                      /\ status'[m] # "linked" => Linkable(m)
    BY DEF Promised
  <2>1. /\ top[m] = "ok" => m \in T /\ root[m] = m /\ m \in done
        /\ top[m] = "pending" => root[m] = m
        /\ top[m] = "err" => status[m] = "evaluated" \/ ~Linkable(m)
        /\ status[m] # "linked" => Linkable(m)
    BY <1>2 DEF Promised
  <2> QED BY <1>3, <2>1
<1> QED BY <1>4, <1>5, <1>6, <1>7, <1>8 DEF RecordsKept

\* A completion fulfils the promise of a root only.
LEMMA CompletionRecords ==
  ASSUME NEW T, Ready(T), NEW m \in Module, Complete(m), status[m] = "async", m \in done',
         done \subseteq done', UNCHANGED <<exec, order, parents, ran, root, dfs>>
  PROVE  RecordsKept(T)
<1>1. /\ Types /\ Failures /\ T \subseteq Module /\ Records(T) /\ clock \in Nat /\ clock' \in Nat
      /\ clock <= clock' /\ Sorted(T, status, root, err) /\ \A x \in Module : order[x] \in Nat
      /\ \A x \in Module : Members(parents[x]) \subseteq Module
  BY ReadyFacts
<1>2. /\ Concluded(exec, status, err, done) /\ Numbered(order, clock, active, parents)
      /\ Obeyed(parents, ran, done, active, err) /\ Promised(T, top, status, root, done)
  BY <1>1 DEF Records
<1>3. \A x \in Module :
        /\ x = m => status'[x] = "evaluated" /\ ~active'[x] /\ top'[x] # "pending"
        /\ x # m => status'[x] = status[x] /\ active'[x] = active[x] /\ top'[x] = top[x]
        /\ err'[x] = err[x]
  BY <1>1, RecordSteps
<1>4. Tied(T, dfs', parents', done', root') /\ Holding(T, parents', done', root') BY TiesStay
<1>5. Concluded(exec', status', err', done') BY <1>2, <1>3 DEF Concluded
<1>6. Numbered(order', clock', active', parents')
  <2> SUFFICES ASSUME NEW x \in Module
               PROVE  /\ active'[x] => order[x] < clock'
                      /\ \A p \in Members(parents[x]) : order[x] < clock' /\ (active'[p] => order[x] < order[p])
    BY DEF Numbered
  <2>1. \A y \in Module : active'[y] => active[y] BY <1>3
  <2>2. /\ active[x] => order[x] < clock
        /\ \A p \in Members(parents[x]) : order[x] < clock /\ (active[p] => order[x] < order[p])
    BY <1>2 DEF Numbered
  <2> QED BY <1>1, <2>1, <2>2
<1>7. Obeyed(parents', ran', done', active', err')
  <2> SUFFICES ASSUME NEW x \in Module, NEW p \in Members(parents[x])
               PROVE  /\ p \in Members(ran) => x \in done'
                      /\ x \notin done' /\ ~active'[x] => err'[p] # Nil
    BY DEF Obeyed
  <2>1. /\ p \in Members(ran) => x \in done
        /\ x \notin done /\ ~active[x] => err[p] # Nil
    BY <1>2 DEF Obeyed
  <2>2. p \in Module BY <1>1
  <2> QED BY <1>3, <2>1, <2>2
<1>8. Promised(T, top', status', root', done')
  <2>1. m \in T BY <1>1 DEF Sorted, Over, Failures
  <2> SUFFICES ASSUME NEW x \in Module
               PROVE  /\ top'[x] = "ok" => x \in T /\ root[x] = x /\ x \in done'
                      /\ top'[x] = "pending" => root[x] = x
                      /\ top'[x] = "err" => status'[x] = "evaluated" \/ ~Linkable(x)
                      /\ status'[x] # "linked" => Linkable(x)
    BY DEF Promised
  <2>2. /\ top[x] = "ok" => x \in T /\ root[x] = x /\ x \in done
        /\ top[x] = "pending" => root[x] = x
        /\ top[x] = "err" => status[x] = "evaluated" \/ ~Linkable(x)
        /\ status[x] # "linked" => Linkable(x)
    BY <1>2 DEF Promised
  <2>3. CASE x # m BY <1>3, <2>2, <2>3
  <2>4. CASE x = m
    <3>1. top[m] \in Promises /\ top \in [Module -> Promises] BY <1>1 DEF Types, TypeOK
    <3>2. top'[m] = IF top[m] = "none" THEN "none" ELSE "ok" BY <3>1 DEF Complete
    <3>3. top[m] # "err" BY <2>2, <2>4
    <3> QED BY <1>3, <2>1, <2>2, <2>4, <3>1, <3>2, <3>3 DEF Promises
  <2> QED BY <2>3, <2>4
<1> QED BY <1>4, <1>5, <1>6, <1>7, <1>8 DEF RecordsKept

\* A walk has no list.
LEMMA WalkDue ==
  ASSUME NEW d, d.avail = {}, NEW par, NEW s, NEW dn
  PROVE  Due(par, s, dn, d)
BY DEF Due

\* Nothing is on the stack of a list.
LEMMA ListCourse ==
  ASSUME NEW T, NEW d, d.kind = "list", d.stack = <<>>, Due(parents', status', done', d)
  PROVE  CourseKept(T, d)
<1>1. Members(d.stack) = {} BY MembersEmpty
<1> QED BY <1>1 DEF CourseKept, Done, Chained, HoldingOpen, Rooted
-----------------------------------------------------------------------------
\* A module's frame is opened: it has asked for nothing.
LEMMA EnterAwaits ==
  ASSUME NEW T, NEW c, ReadyIn(T, c), NEW d \in Activation,
         NEW f \in FrameType, NEW g \in FrameType, EnterStep(c, d, f, g)
  PROVE  RecordsKept(T) /\ CourseKept(T, d)
<1> DEFINE n == Len(c.frames)
<1>0. n = Len(c.frames) OBVIOUS
<1>b. Ready(T) /\ IInv /\ Len(ctx) = 1 /\ c = ctx[1] BY DEF ReadyIn, Ready, ImportInv
<1>a. Entering(c, d, f, g, n) BY <1>b, EnterFacts
<1> HIDE DEF n
<1>1. /\ c.frames # <<>> /\ f = c.frames[n] /\ ~f.entered /\ ~f.waiting /\ ~f.finish
      /\ g.entered /\ ~g.waiting /\ g.m = f.m /\ g.next = f.next /\ ~g.finish
      /\ Len(d.frames) = n /\ d.frames[n] = g /\ \A k \in 1..n - 1 : d.frames[k] = c.frames[k]
      /\ n \in 1..n /\ f.m \in Module /\ status[f.m] = "linked" /\ f.m \notin Members(c.stack)
      /\ Members(d.stack) = Members(c.stack) \cup {f.m}
      /\ c.index \in Nat /\ dfs'[f.m] = c.index /\ status'[f.m] = "evaluating"
      /\ \A x \in Module : x # f.m => dfs'[x] = dfs[x] /\ status'[x] = status[x]
  BY <1>a DEF Entering
<1>2. /\ UNCHANGED <<err, top, active, root, order, parents, exec, ran, done>>
      /\ d.kind = "dfs" /\ d.root = c.root /\ d.avail = c.avail /\ d.body = Nil
      /\ c.kind = "dfs" /\ c.body = Nil
  BY DEF EnterStep, Turned
<1>3. /\ Records(T) /\ T \subseteq Module /\ Sorted(T, status, root, err)
      /\ clock \in Nat /\ clock' \in Nat /\ clock <= clock' /\ Types
      /\ \A x \in Module : order[x] \in Nat /\ Members(parents[x]) \subseteq Module
      /\ \A x \in Module : dfs[x] \in Nat
  BY <1>b, ReadyFacts
<1>4. /\ Explored(T, status, dfs, anc, c) /\ Course(T, c) /\ Shape(graph, c)
      /\ Reaching(Needing, dfs, anc, c)
  BY ReadyActivation
<1>e. c.frames # <<>> BY <1>1
<1>5. /\ n \in Nat \ {0} /\ Members(c.stack) \subseteq Module
      /\ \A x \in Members(c.stack) : dfs[x] < c.index
      /\ \A k \in 1..n : c.frames[k].m \in Module
      /\ \A k \in 1..n - 1 : k \in 1..n /\ k # n /\ c.frames[k].entered
      /\ \A k \in 1..n : c.frames[k].entered => c.frames[k].m \in Members(c.stack)
  BY <1>0, <1>b, <1>e, WalkFrames
<1>6. \A k \in 1..n : k = n \/ k \in 1..n - 1 BY <1>5
<1>7. f.m \notin T BY <1>1, <1>3 DEF Sorted, Over
<1>8. Linkable(f.m)
  <2>1. Rooted(status, root, c) BY <1>4 DEF Course
  <2>2. Linkable(c.root) /\ c.frames[1].m = c.root BY <1>1, <1>2, <1>4, <2>1 DEF Rooted, Shape
  <2>3. 1 \in 1..n /\ n \in 1..n BY <1>5
  <2>4. <<c.frames[1].m, c.frames[n].m>> \in Needing BY <1>0, <1>4, <2>3 DEF Reaching
  <2>5. c.root \in Module BY <1>5, <2>2, <2>3
  <2>6. Needs(f.m) \subseteq Needs(c.root)
    <3> SUFFICES ASSUME NEW y \in Needs(f.m) PROVE y \in Needs(c.root) OBVIOUS
    <3>1. y \in Module BY DEF Needs, Closure
    <3>2. <<f.m, y>> \in Needing BY <1>1, <3>1 DEF Needing
    <3>3. <<c.root, y>> \in Needing BY <1>1, <1>3, <2>2, <2>4, <2>5, <3>1, <3>2, NeedsClosed
    <3> QED BY <3>3 DEF Needing
  <2> QED BY <2>2, <2>6 DEF Linkable
<1>9. RecordsKept(T)
  <2>1. /\ Concluded(exec, status, err, done) /\ Numbered(order, clock, active, parents)
        /\ Obeyed(parents, ran, done, active, err) /\ Promised(T, top, status, root, done)
    BY <1>3 DEF Records
  <2>2. \A x \in T : dfs'[x] = dfs[x] BY <1>1, <1>3, <1>7
  <2>3. Tied(T, dfs', parents', done', root') /\ Holding(T, parents', done', root')
    BY <1>2, <1>b, <2>2, TiesStay
  <2>4. Concluded(exec', status', err', done') BY <1>1, <1>2, <2>1 DEF Concluded
  <2>5. Numbered(order', clock', active', parents') BY <1>2, <1>3, <2>1 DEF Numbered
  <2>6. Obeyed(parents', ran', done', active', err') BY <1>2, <2>1 DEF Obeyed
  <2>7. Promised(T, top', status', root', done') BY <1>1, <1>2, <1>8, <2>1 DEF Promised
  <2> QED BY <2>3, <2>4, <2>5, <2>6, <2>7 DEF RecordsKept
<1>10. \A k \in 1..n : /\ d.frames[k].m = c.frames[k].m /\ d.frames[k].finish = c.frames[k].finish
                       /\ k # n => d.frames[k] = c.frames[k]
  <2> SUFFICES ASSUME NEW k \in 1..n
               PROVE  /\ d.frames[k].m = c.frames[k].m /\ d.frames[k].finish = c.frames[k].finish
                      /\ k # n => d.frames[k] = c.frames[k]
    OBVIOUS
  <2>1. g.finish = f.finish BY <1>1 DEF FrameType
  <2>2. CASE k = n BY <1>1, <2>1, <2>2
  <2>3. CASE k \in 1..n - 1 BY <1>1, <2>3
  <2> QED BY <1>6, <2>2, <2>3
<1>11. \A x \in Members(c.stack) : x # f.m /\ x \in Module /\ dfs'[x] = dfs[x] /\ dfs[x] \in Nat
  BY <1>1, <1>3, <1>5
<1>12. Due(parents', status', done', d) BY <1>2, <1>4, WalkDue DEF Shape
<1>13. Done(d, done', active')
  <2>1. Nil \notin graph.tla BY <1>3, GraphAssumption DEF Types, TypeOK
  <2>2. ASSUME NEW x \in Members(d.stack), \A k \in 1..n : d.frames[k].m = x => d.frames[k].finish
        PROVE  x \in done \/ active[x]
    <3>1. x # f.m BY <1>1, <2>2
    <3>2. x \in Members(c.stack) /\ x # Nil BY <1>1, <1>5, <3>1, GraphAssumption
    <3>3. \A k \in 1..n : c.frames[k].m = x => c.frames[k].finish BY <1>10, <2>2
    <3> QED BY <1>0, <1>2, <1>4, <3>2, <3>3 DEF Course, Done
  <2> QED BY <1>1, <1>2, <2>1, <2>2 DEF Done
<1>14. Chained(dfs', parents', done', d)
  <2> SUFFICES ASSUME NEW x \in Members(d.stack), \A k \in 1..n : d.frames[k].m # x, x \notin done
               PROVE  \E p \in Members(parents[x]) : Above(dfs', d, p, x)
    BY <1>1, <1>2 DEF Chained
  <2>1. x # f.m /\ \A k \in 1..n : c.frames[k].m # x BY <1>1, <1>10
  <2>2. x \in Members(c.stack) BY <1>1, <2>1
  <2>3. PICK p \in Members(parents[x]) : Above(dfs, c, p, x)
    BY <1>0, <1>1, <1>4, <2>1, <2>2 DEF Course, Chained
  <2>4. /\ p \in Members(c.stack) /\ dfs[p] < dfs[x]
        /\ \A k \in 1..n : c.frames[k].entered /\ dfs[c.frames[k].m] < dfs[x] => dfs[c.frames[k].m] <= dfs[p]
    BY <1>0, <2>3 DEF Above
  <2>5. ASSUME NEW k \in 1..n, dfs'[d.frames[k].m] < dfs'[x] PROVE dfs'[d.frames[k].m] <= dfs'[p]
    <3>1. CASE k = n
      <4>1. dfs'[d.frames[k].m] = c.index BY <1>1, <3>1
      <4>2. dfs'[x] < c.index /\ dfs'[x] \in Nat BY <1>5, <1>11, <2>2
      <4> QED BY <1>1, <2>5, <4>1, <4>2
    <3>2. CASE k \in 1..n - 1
      <4>1. d.frames[k] = c.frames[k] /\ c.frames[k].entered /\ c.frames[k].m \in Members(c.stack)
        BY <1>1, <1>5, <3>2
      <4> QED BY <1>11, <2>2, <2>4, <2>5, <4>1
    <3> QED BY <1>6, <3>1, <3>2
  <2>6. Above(dfs', d, p, x) BY <1>1, <1>11, <2>2, <2>4, <2>5 DEF Above
  <2> QED BY <2>6
<1>15. HoldingOpen(T, parents', done', root', d)
  <2> SUFFICES ASSUME NEW x \in Members(d.stack), NEW i \in 1..Len(Req(x)), Seen(d, x, i), Req(x)[i] \in T
               PROVE  Held(parents, done, root, x, Req(x)[i])
    BY <1>2 DEF HoldingOpen
  <2>1. x # f.m
    <3> SUFFICES ASSUME x = f.m PROVE FALSE OBVIOUS
    <3>1. f.next = 1 BY <1>0, <1>1, <1>4 DEF Explored
    <3>2. i < 1 BY <1>1, <3>1 DEF Seen
    <3>3. Len(Req(x)) \in Nat BY <1>1, <1>3, RequestTyped
    <3> QED BY <3>2, <3>3
  <2>2. x \in Members(c.stack) BY <1>1, <2>1
  <2>3. \A k \in 1..n : c.frames[k].m = x => d.frames[k] = c.frames[k] BY <1>1, <1>6, <2>1
  <2>4. Seen(c, x, i) BY <1>0, <1>1, <2>3 DEF Seen
  <2> QED BY <1>4, <2>2, <2>4 DEF Course, HoldingOpen
<1>16. Rooted(status', root', d)
  <2>1. d.frames # <<>> BY <1>1, <1>5
  <2> QED BY <1>2, <1>4, <2>1 DEF Course, Rooted
<1> QED BY <1>9, <1>12, <1>13, <1>14, <1>15, <1>16 DEF CourseKept

\* A module that asks for a component waits for its root, if that runs on.
LEMMA ExamineAwaits ==
  ASSUME NEW T, NEW c, ReadyIn(T, c), NEW d \in Activation,
         NEW f \in FrameType, NEW g \in FrameType, ExamineStep(c, d, f, g)
  PROVE  RecordsKept(T) /\ CourseKept(T, d)
<1> DEFINE n == Len(c.frames)
           q == Asked(graph, f)
           r == Awaited(q)
<1>0. n = Len(c.frames) /\ q = Asked(graph, f) /\ r = Awaited(q) OBVIOUS
<1>b. Ready(T) /\ IInv /\ Len(ctx) = 1 /\ c = ctx[1] BY DEF ReadyIn, Ready, ImportInv
<1>a. Examining(c, d, f, g, n, q) BY <1>b, ExamineFacts
<1>2. /\ UNCHANGED <<status, err, top, active, dfs, root, order, exec, ran, done>>
      /\ d.kind = "dfs" /\ d.root = c.root /\ d.avail = c.avail /\ d.body = Nil
      /\ c.kind = "dfs" /\ c.body = Nil /\ r \in Module /\ err[r] = Nil
      /\ parents' = (IF active[r] THEN Register(r, f.m) ELSE parents)
  BY DEF ExamineStep, Turned
<1> HIDE DEF n, q, r
<1>1. /\ c.frames # <<>> /\ f = c.frames[n] /\ f.entered /\ g.m = f.m /\ f.waiting
      /\ g.entered /\ g.next = f.next /\ ~g.waiting /\ ~f.finish /\ ~g.finish
      /\ Len(d.frames) = n /\ d.frames[n] = g /\ \A k \in 1..n - 1 : d.frames[k] = c.frames[k]
      /\ d.stack = c.stack /\ n \in 1..n /\ f.m \in Module /\ f.m \in Members(c.stack)
      /\ q \in Module /\ \A k \in 1..n : c.frames[k].m = f.m => k = n
  BY <1>a DEF Examining
<1>3. /\ Records(T) /\ T \subseteq Module /\ Sorted(T, status, root, err) /\ Activity
      /\ clock \in Nat /\ clock' \in Nat /\ clock <= clock' /\ Types /\ called = {}
      /\ \A x \in Module : order[x] \in Nat /\ Members(parents[x]) \subseteq Module
      /\ \A x \in Module : dfs[x] \in Nat /\ parents[x] \in Seq(Module)
  BY <1>b, ReadyFacts
<1>4. /\ Course(T, c) /\ Shape(graph, c) /\ NotYetActive(active, c)
      /\ Unstarted(ran, Idle(status, pend, ran), c)
      /\ \A x \in Module : status[x] = "evaluating" <=> x \in Members(c.stack)
  BY ReadyActivation
<1>e. c.frames # <<>> BY <1>1
<1>5. /\ n \in Nat \ {0} /\ Members(c.stack) \subseteq Module
      /\ \A k \in 1..n : c.frames[k].m \in Module
      /\ \A k \in 1..n - 1 : k \in 1..n /\ k # n
      /\ \A k \in 1..n : \A l \in 1..k - 1 : c.frames[k].entered =>
           dfs[c.frames[l].m] < dfs[c.frames[k].m]
  BY <1>0, <1>b, <1>e, WalkFrames
<1>6. \A k \in 1..n : k = n \/ k \in 1..n - 1 BY <1>5
<1>7. ~active[f.m] /\ f.m \notin Members(ran)
  BY <1>0, <1>1, <1>4 DEF NotYetActive, Unstarted
<1>8. /\ \A x \in Module : x # r \/ ~active[r] => parents'[x] = parents[x]
      /\ active[r] => Members(parents'[r]) = Members(parents[r]) \cup {f.m}
  <2>1. parents \in [Module -> Seq(Module)] BY <1>3 DEF Types, TypeOK
  <2>2. active[r] => parents'[r] = Append(parents[r], f.m) BY <1>2, <2>1 DEF Register
  <2>3. active[r] => Members(parents'[r]) = Members(parents[r]) \cup {f.m}
    <3>1. parents[r] \in Seq(Module) BY <1>2, <2>1
    <3>2. Members(Append(parents[r], f.m)) = Members(parents[r]) \cup {f.m}
      BY <1>1, <3>1, MembersAppend
    <3> QED BY <2>2, <3>2
  <2> QED BY <1>2, <2>1, <2>3 DEF Register
<1>9. \A x \in Module : /\ Members(parents[x]) \subseteq Members(parents'[x])
                        /\ \A p \in Members(parents'[x]) :
                             p \in Members(parents[x]) \/ (p = f.m /\ x = r /\ active[r])
  BY <1>2, <1>8
<1>10. RecordsKept(T)
  <2>1. /\ Concluded(exec, status, err, done) /\ Numbered(order, clock, active, parents)
        /\ Obeyed(parents, ran, done, active, err) /\ Promised(T, top, status, root, done)
    BY <1>3 DEF Records
  <2>2. Tied(T, dfs', parents', done', root') /\ Holding(T, parents', done', root')
    BY <1>2, <1>9, <1>b, TiesStay
  <2>3. Concluded(exec', status', err', done') BY <1>2, <2>1 DEF Concluded
  <2>4. Numbered(order', clock', active', parents')
    <3> SUFFICES ASSUME NEW x \in Module
                 PROVE  /\ active[x] => order[x] < clock'
                        /\ \A p \in Members(parents'[x]) : order[x] < clock' /\ (active[p] => order[x] < order[p])
      BY <1>2 DEF Numbered
    <3>1. /\ active[x] => order[x] < clock
          /\ \A p \in Members(parents[x]) : order[x] < clock /\ (active[p] => order[x] < order[p])
      BY <2>1 DEF Numbered
    <3>2. order[x] \in Nat BY <1>3
    <3> QED BY <1>3, <1>7, <1>9, <3>1, <3>2
  <2>5. Obeyed(parents', ran', done', active', err') BY <1>2, <1>7, <1>9, <2>1 DEF Obeyed
  <2>6. Promised(T, top', status', root', done') BY <1>2, <2>1 DEF Promised
  <2> QED BY <2>2, <2>3, <2>4, <2>5, <2>6 DEF RecordsKept
<1>11. \A k \in 1..n : /\ d.frames[k].m = c.frames[k].m /\ d.frames[k].finish = c.frames[k].finish
                       /\ d.frames[k].entered = c.frames[k].entered
                       /\ d.frames[k].next = c.frames[k].next
                       /\ k # n => d.frames[k] = c.frames[k]
  <2> SUFFICES ASSUME NEW k \in 1..n
               PROVE  /\ d.frames[k].m = c.frames[k].m /\ d.frames[k].finish = c.frames[k].finish
                      /\ d.frames[k].entered = c.frames[k].entered
                      /\ d.frames[k].next = c.frames[k].next
                      /\ k # n => d.frames[k] = c.frames[k]
    OBVIOUS
  <2>1. g.finish = f.finish /\ g.entered = f.entered BY <1>1 DEF FrameType
  <2>2. CASE k = n BY <1>1, <2>1, <2>2
  <2>3. CASE k \in 1..n - 1 BY <1>1, <2>3
  <2> QED BY <1>6, <2>2, <2>3
<1>12. Due(parents', status', done', d) BY <1>2, <1>4, WalkDue DEF Shape
<1>13. Done(d, done', active') BY <1>0, <1>1, <1>2, <1>4, <1>11 DEF Course, Done
<1>14. Chained(dfs', parents', done', d)
  <2> SUFFICES ASSUME NEW x \in Members(c.stack), \A k \in 1..n : d.frames[k].m # x, x \notin done
               PROVE  \E p \in Members(parents'[x]) : Above(dfs, d, p, x)
    BY <1>1, <1>2 DEF Chained
  <2>1. \A k \in 1..n : c.frames[k].m # x BY <1>11
  <2>2. \A p : Above(dfs, c, p, x) => Above(dfs, d, p, x)
    BY <1>0, <1>1, <1>11 DEF Above
  <2>3. x \in Module BY <1>5
  <2>4. CASE \E p \in Members(parents[x]) : Above(dfs, c, p, x) BY <1>9, <2>2, <2>3, <2>4
  <2>5. CASE x = q /\ dfs[f.m] < dfs[x]
    <3>1. r = x BY <1>0, <1>4, <2>3, <2>5 DEF Awaited
    <3>2. x \in done \/ active[x]
      <4>1. x # Nil BY <2>3, GraphAssumption
      <4> QED BY <1>0, <1>2, <1>4, <2>1, <4>1 DEF Course, Done
    <3>3. f.m \in Members(parents'[x]) BY <1>8, <3>1, <3>2
    <3>4. ASSUME NEW k \in 1..n PROVE dfs[d.frames[k].m] <= dfs[f.m]
      <4>1. dfs[f.m] \in Nat /\ dfs[c.frames[k].m] \in Nat BY <1>1, <1>3, <1>5
      <4>2. CASE k = n BY <1>1, <4>1, <4>2
      <4>3. CASE k \in 1..n - 1
        <5>1. dfs[c.frames[k].m] < dfs[f.m] BY <1>1, <1>5, <4>3
        <5> QED BY <1>11, <4>1, <5>1
      <4> QED BY <1>6, <4>2, <4>3
    <3>5. Above(dfs, d, f.m, x) BY <1>1, <2>5, <3>4 DEF Above
    <3> QED BY <3>3, <3>5
  <2>6. \/ \E p \in Members(parents[x]) : Above(dfs, c, p, x)
        \/ x = q /\ dfs[f.m] < dfs[x]
    BY <1>0, <1>1, <1>4, <2>1 DEF Course, Chained
  <2> QED BY <2>4, <2>5, <2>6
<1>15. HoldingOpen(T, parents', done', root', d)
  <2> SUFFICES ASSUME NEW x \in Members(c.stack), NEW i \in 1..Len(Req(x)), Seen(d, x, i), Req(x)[i] \in T
               PROVE  Held(parents', done, root, x, Req(x)[i])
    BY <1>1, <1>2 DEF HoldingOpen
  <2>1. Req(x)[i] \in Module /\ root[Req(x)[i]] \in T /\ root[Req(x)[i]] \in Module
    BY <1>3, <1>b, ReadyFacts
  <2>2. CASE Seen(c, x, i)
    <3>1. Held(parents, done, root, x, Req(x)[i]) BY <1>4, <2>2 DEF Course, HoldingOpen
    <3> QED BY <1>9, <2>1, <3>1 DEF Held
  <2>3. CASE ~Seen(c, x, i)
    <3>1. PICK k \in 1..n : c.frames[k].m = x /\ ~(i < c.frames[k].next
                              /\ (c.frames[k].waiting => i # c.frames[k].next - 1))
      BY <1>0, <2>3 DEF Seen
    <3>2. i < d.frames[k].next /\ (d.frames[k].waiting => i # d.frames[k].next - 1)
      BY <1>1, <1>11, <3>1 DEF Seen
    <3>3. k = n BY <1>11, <3>1, <3>2
    <3>4. x = f.m /\ i = f.next - 1 BY <1>1, <1>11, <3>1, <3>2, <3>3
    <3>5. Req(x)[i] = q BY <1>0, <3>4 DEF Asked, Req
    <3>6. status[q] \in Over BY <1>3, <3>5 DEF Sorted
    <3>7. r = root[q] BY <1>0, <3>6 DEF Awaited, Over
    <3>8. CASE active[r] BY <1>8, <3>4, <3>5, <3>7, <3>8 DEF Held
    <3>9. CASE ~active[r]
      <4>1. status[r] \in Over BY <1>3, <2>1, <3>5, <3>7 DEF Sorted
      <4>2. status[r] = "evaluated" BY <1>2, <1>3, <3>9, <4>1 DEF Activity, Over
      <4>3. r \in done BY <1>2, <1>3, <4>2 DEF Records, Concluded
      <4> QED BY <3>5, <3>7, <4>3 DEF Held
    <3> QED BY <3>8, <3>9
  <2> QED BY <2>2, <2>3
<1>16. Rooted(status', root', d)
  <2>1. d.frames # <<>> BY <1>1, <1>5
  <2> QED BY <1>2, <1>4, <2>1 DEF Course, Rooted
<1> QED BY <1>10, <1>12, <1>13, <1>14, <1>15, <1>16 DEF CourseKept

\* Asking for a module examines nothing.
LEMMA RequestSeen ==
  ASSUME NEW c, NEW d, NEW f, NEW g, NEW n, n = Len(c.frames), n \in Nat \ {0}, NEW q,
         Requesting(c, d, f, g, n, q), NEW x, NEW i \in Int, Seen(d, x, i)
  PROVE  Seen(c, x, i)
<1>1. /\ f = c.frames[n] /\ ~f.waiting /\ f.next \in Nat /\ g.m = f.m /\ g.waiting /\ g.next = f.next + 1
      /\ d.frames[n] = g /\ \A k \in 1..n - 1 : d.frames[k] = c.frames[k]
      /\ Len(d.frames) = n \/ Len(d.frames) = n + 1
  BY DEF Requesting
<1>2. \A k \in 1..n : k \in 1..Len(d.frames) /\ (k = n \/ k \in 1..n - 1) BY <1>1
<1> SUFFICES ASSUME NEW k \in 1..n, c.frames[k].m = x
             PROVE  i < c.frames[k].next /\ (c.frames[k].waiting => i # c.frames[k].next - 1)
  BY DEF Seen
<1>3. k \in 1..Len(d.frames) /\ d.frames[k].m = x BY <1>1, <1>2
<1>4. i < d.frames[k].next /\ (d.frames[k].waiting => i # d.frames[k].next - 1) BY <1>3 DEF Seen
<1>5. CASE k \in 1..n - 1 BY <1>1, <1>4, <1>5
<1>6. CASE k = n
  <2>1. i < f.next + 1 /\ i # f.next + 1 - 1 BY <1>1, <1>4, <1>6
  <2>2. i < f.next BY <1>1, <2>1
  <2> QED BY <1>1, <1>6, <2>2
<1> QED BY <1>2, <1>5, <1>6

\* A module asked for is on no stack before it is entered.
LEMMA RequestAwaits ==
  ASSUME NEW T, NEW c, ReadyIn(T, c), NEW d \in Activation,
         NEW f \in FrameType, NEW g \in FrameType, RequestStep(c, d, f, g)
  PROVE  RecordsKept(T) /\ CourseKept(T, d)
<1> DEFINE n == Len(c.frames)
           q == Asked(graph, g)
<1>0. n = Len(c.frames) /\ q = Asked(graph, g) OBVIOUS
<1>b. Ready(T) /\ IInv /\ Len(ctx) = 1 /\ c = ctx[1] BY DEF ReadyIn, Ready, ImportInv
<1>a. Requesting(c, d, f, g, n, q) BY <1>b, RequestFacts
<1> HIDE DEF n, q
<1>1. /\ c.frames # <<>> /\ f = c.frames[n] /\ f.entered /\ ~f.waiting
      /\ g.m = f.m /\ g.entered /\ g.finish = f.finish
      /\ n \in 1..n /\ d.frames[n] = g /\ \A k \in 1..n - 1 : d.frames[k] = c.frames[k]
      /\ d.stack = c.stack
      /\ \/ Len(d.frames) = n
         \/ /\ Len(d.frames) = n + 1 /\ q \notin Members(c.stack)
            /\ d.frames[n + 1].m = q /\ ~d.frames[n + 1].entered
  BY <1>a DEF Requesting
<1>2. /\ UNCHANGED <<status, err, top, active, dfs, root, order, parents, exec, ran, done>>
      /\ d.kind = "dfs" /\ d.root = c.root /\ d.avail = c.avail /\ d.body = Nil
      /\ c.kind = "dfs" /\ c.body = Nil
  BY DEF RequestStep, recVars, dfsVars
<1>3. RecordsKept(T) BY <1>2, <1>b, RecordsStay
<1>4. Course(T, c) /\ Shape(graph, c) BY ReadyActivation
<1>5. n \in Nat \ {0} BY <1>0, <1>1, <1>b, WalkFrames
<1>6. \A k \in 1..n : k \in 1..Len(d.frames) /\ (k = n \/ k \in 1..n - 1) BY <1>1, <1>5
<1>7. \A k \in 1..n : d.frames[k].m = c.frames[k].m /\ d.frames[k].entered = c.frames[k].entered
                      /\ d.frames[k].finish = c.frames[k].finish
  <2> SUFFICES ASSUME NEW k \in 1..n
               PROVE  d.frames[k].m = c.frames[k].m /\ d.frames[k].entered = c.frames[k].entered
                      /\ d.frames[k].finish = c.frames[k].finish
    OBVIOUS
  <2>1. g.entered = f.entered BY <1>1 DEF FrameType
  <2>2. CASE k = n BY <1>1, <2>1, <2>2
  <2>3. CASE k \in 1..n - 1 BY <1>1, <2>3
  <2> QED BY <1>6, <2>2, <2>3
<1>8. Due(parents', status', done', d) BY <1>2, <1>4, WalkDue DEF Shape
<1>9. Done(d, done', active')
  <2>1. Done(c, done, active) BY <1>4 DEF Course
  <2>2. ASSUME NEW x \in Members(c.stack),
               \A k \in 1..Len(d.frames) : d.frames[k].m = x => d.frames[k].finish
        PROVE  \A k \in 1..Len(c.frames) : c.frames[k].m = x => c.frames[k].finish
    BY <1>0, <1>6, <1>7, <2>2
  <2> QED BY <1>1, <1>2, <2>1, <2>2 DEF Done
<1>10. Chained(dfs', parents', done', d)
  <2> SUFFICES ASSUME NEW x \in Members(c.stack), \A k \in 1..Len(d.frames) : d.frames[k].m # x,
                      x \notin done
               PROVE  \E p \in Members(parents[x]) : Above(dfs, d, p, x)
    BY <1>1, <1>2 DEF Chained
  <2>1. \A k \in 1..n : c.frames[k].m # x BY <1>6, <1>7
  <2>2. PICK p \in Members(parents[x]) : Above(dfs, c, p, x)
    BY <1>0, <1>1, <1>4, <2>1 DEF Course, Chained
  <2>3. ASSUME NEW k \in 1..Len(d.frames), d.frames[k].entered, dfs[d.frames[k].m] < dfs[x]
        PROVE  dfs[d.frames[k].m] <= dfs[p]
    <3>1. k \in 1..n BY <1>1, <1>5, <2>3
    <3> QED BY <1>0, <1>7, <2>2, <2>3, <3>1 DEF Above
  <2> QED BY <1>1, <2>2, <2>3 DEF Above
<1>11. HoldingOpen(T, parents', done', root', d)
  <2>1. HoldingOpen(T, parents, done, root, c) BY <1>4 DEF Course
  <2>2. \A x : \A i \in Int : Seen(d, x, i) => Seen(c, x, i) BY <1>0, <1>a, <1>5, RequestSeen
  <2> QED BY <1>1, <1>2, <2>1, <2>2 DEF HoldingOpen
<1>12. Rooted(status', root', d)
  <2>1. d.frames # <<>> BY <1>1, <1>5
  <2> QED BY <1>2, <1>4, <2>1 DEF Course, Rooted
<1> QED BY <1>3, <1>8, <1>9, <1>10, <1>11, <1>12 DEF CourseKept

\* A body starts in its walk only when all that its module waits for has
\* completed; otherwise the module is numbered after what it waits for.
LEMMA ExecuteAwaits ==
  ASSUME NEW T, NEW c, ReadyIn(T, c), NEW d \in Activation,
         NEW f \in FrameType, NEW g \in FrameType, ExecuteStep(c, d, f, g)
  PROVE  RecordsKept(T) /\ CourseKept(T, d)
<1> DEFINE n == Len(c.frames)
           late == pend[f.m] > 0 \/ f.m \in graph.tla
<1>0. n = Len(c.frames) OBVIOUS
<1>b. Ready(T) /\ IInv /\ Len(ctx) = 1 /\ c = ctx[1] BY DEF ReadyIn, Ready, ImportInv
<1>1. /\ c.frames # <<>> /\ f = c.frames[n] /\ f.entered /\ ~f.waiting /\ ~f.finish
      /\ g.m = f.m /\ g.entered /\ ~g.waiting /\ g.finish /\ g.next = f.next
      /\ Len(d.frames) = n /\ d.frames[n] = g /\ \A k \in 1..n - 1 : d.frames[k] = c.frames[k]
      /\ d.stack = c.stack
  BY DEF ExecuteStep, Turned, FrameSet
<1>2. /\ UNCHANGED <<status, err, top, dfs, root, parents, exec, done>>
      /\ d.kind = "dfs" /\ d.root = c.root /\ d.avail = c.avail
      /\ c.kind = "dfs" /\ c.body = Nil /\ d.body = (IF pend[f.m] > 0 THEN Nil ELSE f.m)
      /\ active' = [active EXCEPT ![f.m] = @ \/ late]
      /\ order' = [order EXCEPT ![f.m] = IF late THEN clock ELSE @]
      /\ clock' = (IF late THEN clock + 1 ELSE clock)
      /\ ran' = (IF pend[f.m] > 0 THEN ran ELSE Append(ran, f.m))
  BY DEF ExecuteStep, Turned, dfsVars
<1> HIDE DEF n
<1>3. /\ Records(T) /\ T \subseteq Module /\ Activity /\ Counts /\ Types /\ called = {} /\ Failures
      /\ clock \in Nat
      /\ \A x \in Module : order[x] \in Nat /\ Members(parents[x]) \subseteq Module
      /\ \A x \in Module : parents[x] \in Seq(Module) /\ active[x] \in BOOLEAN
  BY <1>b, ReadyFacts
<1>4. /\ Course(T, c) /\ Shape(graph, c) /\ NotYetActive(active, c)
      /\ Unstarted(ran, Idle(status, pend, ran), c)
      /\ \A x \in Module : status[x] = "evaluating" <=> x \in Members(c.stack)
  BY ReadyActivation
<1>e. c.frames # <<>> BY <1>1
<1>5. /\ n \in Nat \ {0} /\ Members(c.stack) \subseteq Module
      /\ \A k \in 1..n : c.frames[k].m \in Module
      /\ \A k \in 1..n : c.frames[k].entered => c.frames[k].m \in Members(c.stack)
  BY <1>0, <1>b, <1>e, WalkFrames
<1>6. n \in 1..n /\ f.m \in Module /\ f.m \in Members(c.stack) /\ status[f.m] = "evaluating"
  <2>1. n \in 1..n BY <1>5
  <2> QED BY <1>1, <1>4, <1>5, <2>1
<1>7. ~active[f.m] /\ f.m \notin Members(ran) /\ parents[f.m] = <<>>
  <2>1. ~active[f.m] /\ f.m \notin Members(ran)
    BY <1>0, <1>1, <1>4, <1>6 DEF NotYetActive, Unstarted
  <2> QED BY <1>3, <1>6, <2>1 DEF Activity
<1>8. /\ \A x \in Module : x # f.m => active'[x] = active[x] /\ order'[x] = order[x]
      /\ active'[f.m] <=> late
      /\ late => order'[f.m] = clock
  <2>1. active \in [Module -> BOOLEAN] /\ order \in [Module -> Nat] BY <1>3 DEF Types, TypeOK
  <2> QED BY <1>2, <1>6, <1>7, <2>1
<1>9. \A x \in Members(ran') : x \in Members(ran) \/ (x = f.m /\ ~(pend[f.m] > 0))
  <2>1. ran \in Seq(Module) BY <1>3 DEF Types, TypeOK
  <2> QED BY <1>2, <1>6, <2>1, MembersAppend
<1>10. ASSUME ~(pend[f.m] > 0), NEW x \in Module, f.m \in Members(parents[x]) PROVE x \in done
  <2>1. Exact(ran, err, root, status, pend, parents, Owing(graph, active, c))
    BY <1>3, <1>b, CountsBefore
  <2>2. root[f.m] = f.m BY <1>3, <1>6 DEF Activity
  <2>3. err[f.m] = Nil BY <1>3, <1>6 DEF Failures
  <2>4. pend[f.m] = Cardinality(Registrations(parents, Owing(graph, active, c), f.m))
    BY <1>6, <1>7, <2>1, <2>2, <2>3 DEF Exact
  <2>5. pend[f.m] = 0 /\ parents \in [Module -> Seq(Module)]
    <3>1. pend[f.m] \in Nat /\ parents \in [Module -> Seq(Module)] BY <1>3, <1>6 DEF Types, TypeOK
    <3> QED BY <1>10, <3>1
  <2>6. Owing(graph, active, c) \in SUBSET Module BY DEF Owing
  <2>7. x \notin Owing(graph, active, c) BY <1>10, <2>4, <2>5, <2>6, NoRegistration
  <2>8. ~active[x] BY <1>2, <2>7 DEF Owing, Spent
  <2> QED BY <1>3, <1>10, <2>3, <2>8 DEF Records, Obeyed
<1>11. RecordsKept(T)
  <2>1. /\ Concluded(exec, status, err, done) /\ Numbered(order, clock, active, parents)
        /\ Obeyed(parents, ran, done, active, err) /\ Promised(T, top, status, root, done)
    BY <1>3 DEF Records
  <2>2. Tied(T, dfs', parents', done', root') /\ Holding(T, parents', done', root')
    BY <1>2, <1>b, TiesStay
  <2>3. Concluded(exec', status', err', done') BY <1>2, <2>1 DEF Concluded
  <2>4. Numbered(order', clock', active', parents')
    <3> SUFFICES ASSUME NEW x \in Module
                 PROVE  /\ active'[x] => order'[x] < clock'
                        /\ \A p \in Members(parents[x]) : order'[x] < clock' /\ (active'[p] => order'[x] < order'[p])
      BY <1>2 DEF Numbered
    <3>1. /\ active[x] => order[x] < clock
          /\ \A p \in Members(parents[x]) : order[x] < clock /\ (active[p] => order[x] < order[p])
      BY <2>1 DEF Numbered
    <3>2. order[x] \in Nat /\ Members(parents[x]) \subseteq Module BY <1>3
    <3>3. clock' \in Nat /\ clock <= clock' /\ (late => clock' = clock + 1) BY <1>2, <1>3
    <3> HIDE DEF late
    <3>4. CASE x = f.m
      <4>1. Members(parents[x]) = {} BY <1>7, <3>4, MembersEmpty
      <4>2. active'[x] => order'[x] < clock' BY <1>3, <1>8, <3>3, <3>4
      <4> QED BY <4>1, <4>2
    <3>5. CASE x # f.m
      <4>1. active'[x] = active[x] /\ order'[x] = order[x] BY <1>8, <3>5
      <4>2. active'[x] => order'[x] < clock' BY <1>3, <3>1, <3>2, <3>3, <4>1
      <4>3. ASSUME NEW p \in Members(parents[x]) PROVE order'[x] < clock' /\ (active'[p] => order'[x] < order'[p])
        <5>1. order[x] < clock /\ (active[p] => order[x] < order[p]) /\ p \in Module BY <3>1, <3>2
        <5>2. order'[x] < clock' BY <1>3, <3>2, <3>3, <4>1, <5>1
        <5>3. CASE p = f.m BY <1>8, <4>1, <5>1, <5>2, <5>3
        <5>4. CASE p # f.m BY <1>8, <4>1, <5>1, <5>2, <5>4
        <5> QED BY <5>3, <5>4
      <4> QED BY <4>2, <4>3
    <3> QED BY <3>4, <3>5
  <2>5. Obeyed(parents', ran', done', active', err')
    <3> SUFFICES ASSUME NEW x \in Module, NEW p \in Members(parents[x])
                 PROVE  /\ p \in Members(ran') => x \in done
                        /\ x \notin done /\ ~active'[x] => err[p] # Nil
      BY <1>2 DEF Obeyed
    <3>1. /\ p \in Members(ran) => x \in done
          /\ x \notin done /\ ~active[x] => err[p] # Nil
      BY <2>1 DEF Obeyed
    <3>2. ~active'[x] => ~active[x] BY <1>7, <1>8
    <3>3. p \in Members(ran') => x \in done BY <1>9, <1>10, <3>1
    <3> QED BY <3>1, <3>2, <3>3
  <2>6. Promised(T, top', status', root', done') BY <1>2, <2>1 DEF Promised
  <2> QED BY <2>2, <2>3, <2>4, <2>5, <2>6 DEF RecordsKept
<1>12. \A k \in 1..n : /\ d.frames[k].m = c.frames[k].m /\ d.frames[k].entered = c.frames[k].entered
                       /\ d.frames[k].next = c.frames[k].next
                       /\ d.frames[k].waiting = c.frames[k].waiting
                       /\ d.frames[k].m # f.m => d.frames[k].finish = c.frames[k].finish
  <2> SUFFICES ASSUME NEW k \in 1..n
               PROVE  /\ d.frames[k].m = c.frames[k].m /\ d.frames[k].entered = c.frames[k].entered
                      /\ d.frames[k].next = c.frames[k].next
                      /\ d.frames[k].waiting = c.frames[k].waiting
                      /\ d.frames[k].m # f.m => d.frames[k].finish = c.frames[k].finish
    OBVIOUS
  <2>1. g.entered = f.entered /\ g.waiting = f.waiting BY <1>1 DEF FrameType
  <2>2. CASE k = n BY <1>1, <2>1, <2>2
  <2>3. CASE k \in 1..n - 1 BY <1>1, <2>3
  <2> QED BY <1>5, <2>2, <2>3
<1>13. Due(parents', status', done', d) BY <1>2, <1>4, WalkDue DEF Shape
<1>14. Done(d, done', active')
  <2>1. Nil \notin graph.tla /\ Nil \notin Module BY <1>3, GraphAssumption DEF Types, TypeOK
  <2>2. d.body \in graph.tla => active'[d.body] BY <1>2, <1>8, <2>1
  <2>3. ASSUME NEW x \in Members(c.stack), d.body # x,
               \A k \in 1..n : d.frames[k].m = x => d.frames[k].finish
        PROVE  x \in done \/ active'[x]
    <3>1. CASE x = f.m
      <4>1. pend[f.m] > 0 BY <1>2, <2>3, <3>1
      <4> QED BY <1>8, <3>1, <4>1
    <3>2. CASE x # f.m
      <4>1. \A k \in 1..n : c.frames[k].m = x => c.frames[k].finish BY <1>12, <2>3, <3>2
      <4>2. x \in Module /\ x # Nil BY <1>5, <2>1
      <4>3. x \in done \/ active[x] BY <1>0, <1>2, <1>4, <4>1, <4>2 DEF Course, Done
      <4> QED BY <1>8, <3>2, <4>2, <4>3
    <3> QED BY <3>1, <3>2
  <2> QED BY <1>1, <1>2, <2>2, <2>3 DEF Done
<1>15. Chained(dfs', parents', done', d)
  <2> SUFFICES ASSUME NEW x \in Members(c.stack), \A k \in 1..n : d.frames[k].m # x, x \notin done
               PROVE  \E p \in Members(parents[x]) : Above(dfs, d, p, x)
    BY <1>1, <1>2 DEF Chained
  <2>1. \A k \in 1..n : c.frames[k].m # x BY <1>12
  <2>2. PICK p \in Members(parents[x]) : Above(dfs, c, p, x)
    BY <1>0, <1>1, <1>4, <2>1 DEF Course, Chained
  <2>3. Above(dfs, d, p, x) BY <1>0, <1>1, <1>12, <2>2 DEF Above
  <2> QED BY <2>3
<1>16. HoldingOpen(T, parents', done', root', d)
  <2>1. HoldingOpen(T, parents, done, root, c) BY <1>4 DEF Course
  <2>2. \A x, i : Seen(d, x, i) => Seen(c, x, i) BY <1>0, <1>1, <1>12 DEF Seen
  <2> QED BY <1>1, <1>2, <2>1, <2>2 DEF HoldingOpen
<1>17. Rooted(status', root', d)
  <2>1. d.frames # <<>> BY <1>1, <1>5
  <2> QED BY <1>2, <1>4, <2>1 DEF Course, Rooted
<1> QED BY <1>11, <1>13, <1>14, <1>15, <1>16, <1>17 DEF CourseKept
-----------------------------------------------------------------------------
\* A component is popped: its modules are held by their roots, and the root of
\* the walk is the root of its component.
LEMMA FinishAwaits ==
  ASSUME NEW T, NEW c, ReadyIn(T, c), NEW d \in Activation,
         NEW f \in FrameType, NEW S \in SUBSET Module, FinishStep(c, d, f, S)
  PROVE  RecordsKept(T \cup S) /\ CourseKept(T \cup S, d)
<1> DEFINE n == Len(c.frames)
<1>0. n = Len(c.frames) OBVIOUS
<1>b. /\ Ready(T) /\ IInv /\ Len(ctx) = 1 /\ c = ctx[1] /\ called = {} /\ LowLinks /\ Settling
      /\ T \in SUBSET Module
  BY DEF ReadyIn, Ready, ImportInv
<1>3. /\ Records(T) /\ T \subseteq Module /\ Types /\ Sorted(T, status, root, err)
      /\ clock \in Nat /\ clock' \in Nat /\ clock <= clock'
      /\ \A x \in Module : order[x] \in Nat /\ Members(parents[x]) \subseteq Module
      /\ \A x \in Module : dfs[x] \in Nat /\ root[x] \in Module
      /\ \A x \in T : root[x] \in T
  BY <1>b, ReadyFacts
<1>4. /\ Explored(T, status, dfs, anc, c) /\ Course(T, c) /\ Shape(graph, c)
      /\ Stacked(status, dfs, c) /\ Covered(graph, dfs, anc, c)
      /\ \A x \in Module : status[x] = "evaluating" <=> x \in Members(c.stack)
  BY ReadyActivation
<1>a. Finishing(c, d, f, S, n) BY <1>b, FinishFacts
<1>c. Sorted(T \cup S, status', root', err') BY <1>b, <1>3, <1>4, FinishSorted
<1>d. Unpopped(T, S, c, d) BY <1>b, <1>3, <1>4, FinishExplored
<1> HIDE DEF n
<1>1. /\ c.frames # <<>> /\ f = c.frames[n] /\ f.entered /\ ~f.waiting /\ f.finish
      /\ n \in 1..n /\ Len(d.frames) = n - 1 /\ \A k \in 1..n - 1 : d.frames[k] = c.frames[k]
      /\ Members(d.stack) = Members(c.stack) \ S /\ f.m \in Members(c.stack) /\ f.m \in Module
      /\ S \subseteq Members(c.stack)
      /\ S = {} \/ (anc[f.m] = dfs[f.m] /\ S = {x \in Members(c.stack) : dfs[f.m] <= dfs[x]} /\ f.m \in S)
      /\ anc[f.m] = dfs[f.m] => f.m \in S
      /\ \A x \in S : status[x] = "evaluating" /\ err[x] = Nil
      /\ \A x \in S : status'[x] = (IF active[x] THEN "async" ELSE "evaluated") /\ root'[x] = f.m
      /\ \A x \in Module : x \notin S => status'[x] = status[x] /\ root'[x] = root[x]
      /\ f.next > Len(Req(f.m)) /\ \A k \in 1..n : c.frames[k].m = f.m => k = n
      /\ \A k \in 1..n - 1 : c.frames[k].m \notin S
  BY <1>a DEF Finishing
<1>2. /\ UNCHANGED <<err, top, active, dfs, order, parents, exec, ran, done>>
      /\ d.kind = "dfs" /\ d.root = c.root /\ d.avail = c.avail /\ d.body = Nil
      /\ c.kind = "dfs" /\ c.body = Nil
  BY DEF FinishStep
<1>e. c.frames # <<>> BY <1>1
<1>5. /\ n \in Nat \ {0} /\ Members(c.stack) \subseteq Module
      /\ \A x \in Module : dfs[x] \in Nat /\ anc[x] \in Nat
      /\ \A x \in Members(c.stack) : dfs[x] < c.index /\ anc[x] <= dfs[x]
      /\ \A x \in Module : status[x] = "evaluating" <=> x \in Members(c.stack)
      /\ \A x, y \in Members(c.stack) : dfs[x] = dfs[y] => x = y
      /\ \A k \in 1..n : c.frames[k].m \in Module
      /\ \A k \in 1..n : c.frames[k].entered => c.frames[k].m \in Members(c.stack)
      /\ \A k \in 1..n - 1 : /\ k \in 1..n /\ k + 1 \in 1..n /\ k < n /\ k # n
                             /\ k + 1 = n \/ k + 1 \in 1..n - 1
                             /\ c.frames[k].entered /\ c.frames[k].waiting
      /\ \A k \in 1..n : \A l \in 1..k - 1 : c.frames[k].entered =>
           dfs[c.frames[l].m] < dfs[c.frames[k].m]
  BY <1>0, <1>b, <1>e, WalkFrames
<1>6. \A k \in 1..n : k = n \/ k \in 1..n - 1 BY <1>5
<1>7. \A x \in T : x \notin S /\ root'[x] = root[x] BY <1>1, <1>3 DEF Sorted, Over
<1>8. c.frames[1].m = c.root /\ (n = 1 => f.m = c.root /\ f.m \in S)
  <2>1. c.frames[1].m = c.root BY <1>1, <1>4 DEF Shape
  <2>2. ASSUME n = 1 PROVE f.m = c.root /\ f.m \in S
    <3>1. dfs[f.m] = 0 BY <1>0, <1>1, <1>4, <2>2 DEF Stacked
    <3>2. anc[f.m] \in Nat /\ anc[f.m] <= dfs[f.m] BY <1>1, <1>5
    <3>3. anc[f.m] = dfs[f.m] BY <3>1, <3>2
    <3> QED BY <1>1, <2>1, <2>2, <3>3
  <2> QED BY <2>1, <2>2
<1>9. c.root \in S => n = 1 /\ f.m = c.root
  <2> SUFFICES ASSUME c.root \in S, n # 1 PROVE FALSE BY <1>8
  <2>1. 1 \in 1..n - 1 BY <1>5
  <2> QED BY <1>1, <1>8, <2>1
<1>10. root'[c.root] = c.root
  <2>1. root[c.root] = c.root /\ c.root \in Module BY <1>2, <1>4 DEF Course, Rooted, Shape
  <2> QED BY <1>1, <1>9, <2>1
<1>11. ASSUME NEW x \in Members(c.stack), \A k \in 1..n : c.frames[k].m # x, x \notin done
       PROVE  \E p \in Members(parents[x]) : Above(dfs, c, p, x)
  BY <1>0, <1>1, <1>4, <1>11 DEF Course, Chained
<1>12. ASSUME NEW x \in S, x # f.m, NEW k \in 1..n PROVE c.frames[k].m # x
  <2>1. CASE k = n BY <1>1, <1>12, <2>1
  <2>2. CASE k \in 1..n - 1
    <3>1. c.frames[k].m \notin S BY <1>1, <2>2
    <3> QED BY <3>1
  <2> QED BY <1>6, <2>1, <2>2
<1>13. Concluded(exec', status', err', done')
  <2>1. Concluded(exec, status, err, done) BY <1>3 DEF Records
  <2>2. ASSUME NEW x \in S, status'[x] = "evaluated" PROVE x \in done
    <3>1. ~active[x] /\ x \in Members(c.stack) /\ x # Nil BY <1>1, <2>2, GraphAssumption
    <3>2. \A k \in 1..n : c.frames[k].m = x => c.frames[k].finish BY <1>1, <1>12
    <3> QED BY <1>0, <1>2, <1>4, <3>1, <3>2 DEF Course, Done
  <2> QED BY <1>1, <1>2, <2>1, <2>2 DEF Concluded
<1>14. Numbered(order', clock', active', parents')
  <2>1. Numbered(order, clock, active, parents) BY <1>3 DEF Records
  <2> QED BY <1>2, <1>3, <2>1 DEF Numbered
<1>15. Obeyed(parents', ran', done', active', err') BY <1>2, <1>3 DEF Records, Obeyed
<1>16. Tied(T \cup S, dfs', parents', done', root')
  <2> SUFFICES ASSUME NEW x \in T \cup S, x \notin done, root'[x] # x
               PROVE  \E p \in Members(parents[x]) : p \in T \cup S /\ root'[p] = root'[x] /\ dfs[p] < dfs[x]
    BY <1>2 DEF Tied
  <2>1. CASE x \in T
    <3>1. PICK p \in Members(parents[x]) : p \in T /\ root[p] = root[x] /\ dfs[p] < dfs[x]
      BY <1>3, <1>7, <2>1 DEF Records, Tied
    <3> QED BY <1>7, <2>1, <3>1
  <2>2. CASE x \in S
    <3>1. x # f.m /\ x \in Members(c.stack) BY <1>1, <2>2
    <3>2. PICK p \in Members(parents[x]) : Above(dfs, c, p, x) BY <1>11, <1>12, <2>2, <3>1
    <3>3. /\ p \in Members(c.stack) /\ dfs[p] < dfs[x]
          /\ dfs[f.m] < dfs[x] => dfs[f.m] <= dfs[p]
      BY <1>0, <1>1, <3>2 DEF Above
    <3>4. dfs[f.m] < dfs[x]
      <4>1. dfs[f.m] <= dfs[x] BY <1>1, <2>2
      <4>2. dfs[f.m] # dfs[x] BY <1>1, <1>5, <3>1
      <4>3. dfs[f.m] \in Nat /\ dfs[x] \in Nat BY <1>1, <1>3, <2>2
      <4> QED BY <4>1, <4>2, <4>3
    <3>5. p \in S BY <1>1, <2>2, <3>3, <3>4
    <3> QED BY <1>1, <2>2, <3>3, <3>5
  <2> QED BY <2>1, <2>2
<1>17. Holding(T \cup S, parents', done', root')
  <2> SUFFICES ASSUME NEW x \in T \cup S, NEW q \in Requested(x), root'[q] # root'[x]
               PROVE  Held(parents, done, root', x, q)
    BY <1>2 DEF Holding
  <2>1. CASE x \in T
    <3>1. q \in T BY <1>3, <2>1 DEF Sorted
    <3>2. root'[q] = root[q] /\ root'[x] = root[x] BY <1>7, <2>1, <3>1
    <3>3. Held(parents, done, root, x, q) BY <1>3, <2>1, <3>2 DEF Records, Holding
    <3> QED BY <3>2, <3>3 DEF Held
  <2>2. CASE x \in S
    <3>1. q \in T \cup S BY <1>c, <2>2 DEF Sorted
    <3>2. q \in T BY <1>1, <2>2, <3>1
    <3>3. PICK i \in 1..Len(Req(x)) : q = Req(x)[i] BY DEF Requested
    <3>4. Seen(c, x, i)
      <4> SUFFICES ASSUME NEW k \in 1..n, c.frames[k].m = x
                   PROVE  i < c.frames[k].next /\ ~c.frames[k].waiting
        BY <1>0 DEF Seen
      <4>1. k = n /\ x = f.m BY <1>1, <1>6, <2>2
      <4>2. f.next \in Nat BY DEF FrameType
      <4>3. Len(Req(x)) \in Nat BY <1>3, <2>2, RequestTyped
      <4> QED BY <1>1, <4>1, <4>2, <4>3
    <3>5. Held(parents, done, root, x, q)
      BY <1>1, <1>4, <2>2, <3>2, <3>3, <3>4 DEF Course, HoldingOpen
    <3> QED BY <1>7, <3>2, <3>5 DEF Held
  <2> QED BY <2>1, <2>2
<1>18. Promised(T \cup S, top', status', root', done')
  <2> SUFFICES ASSUME NEW m \in Module
               PROVE  /\ top[m] = "ok" => m \in T \cup S /\ root'[m] = m /\ m \in done
                      /\ top[m] = "pending" => root'[m] = m
                      /\ top[m] = "err" => status'[m] = "evaluated" \/ ~Linkable(m)
                      /\ status'[m] # "linked" => Linkable(m)
    BY <1>2 DEF Promised
  <2>1. /\ top[m] = "ok" => m \in T /\ root[m] = m /\ m \in done
        /\ top[m] = "pending" => root[m] = m
        /\ top[m] = "err" => status[m] = "evaluated" \/ ~Linkable(m)
        /\ status[m] # "linked" => Linkable(m)
    BY <1>3 DEF Records, Promised
  <2>2. CASE m \notin S BY <1>1, <1>7, <2>1, <2>2
  <2>3. CASE m \in S
    <3>1. status[m] = "evaluating" /\ m \notin T BY <1>1, <1>7, <2>3
    <3>2. ASSUME top[m] = "pending" PROVE root'[m] = m
      <4>1. Closing(status, active, c, m) BY <1>b, <3>1, <3>2, SettlingOne
      <4>2. m = c.root BY <4>1 DEF Closing
      <4> QED BY <1>10, <4>2
    <3> QED BY <2>1, <3>1, <3>2
  <2> QED BY <2>2, <2>3
<1>19. RecordsKept(T \cup S) BY <1>13, <1>14, <1>15, <1>16, <1>17, <1>18 DEF RecordsKept
<1>20. Due(parents', status', done', d) BY <1>2, <1>4, WalkDue DEF Shape
<1>21. Done(d, done', active')
  <2>1. Nil \notin graph.tla BY <1>3, GraphAssumption DEF Types, TypeOK
  <2>2. ASSUME NEW x \in Members(d.stack), \A k \in 1..n - 1 : d.frames[k].m = x => d.frames[k].finish
        PROVE  x \in done \/ active[x]
    <3>1. x \in Members(c.stack) /\ x # Nil BY <1>1, <1>5, GraphAssumption
    <3>2. \A k \in 1..n : c.frames[k].m = x => c.frames[k].finish BY <1>1, <1>6, <2>2
    <3> QED BY <1>0, <1>2, <1>4, <3>1, <3>2 DEF Course, Done
  <2> QED BY <1>1, <1>2, <2>1, <2>2 DEF Done
<1>22. Chained(dfs', parents', done', d)
  <2> SUFFICES ASSUME NEW x \in Members(d.stack), \A k \in 1..n - 1 : d.frames[k].m # x, x \notin done
               PROVE  \/ \E p \in Members(parents[x]) : Above(dfs, d, p, x)
                      \/ \E k \in 1..n - 1 : /\ k = n - 1 /\ d.frames[k].waiting
                                             /\ Asked(graph, d.frames[k]) = x
                                             /\ dfs[d.frames[k].m] < dfs[x]
    BY <1>1, <1>2 DEF Chained
  <2>1. x \in Members(c.stack) /\ x \notin S BY <1>1
  <2>2. CASE x = f.m
    <3>1. n # 1 BY <1>8, <2>1, <2>2
    <3>2. n - 1 \in 1..n - 1 /\ (n - 1) + 1 = n BY <1>5, <3>1
    <3>3. c.frames[n].m = Asked(graph, c.frames[n - 1]) BY <1>0, <1>4, <3>2 DEF Covered
    <3>4. dfs[c.frames[n - 1].m] < dfs[f.m]
      <4>1. n \in 1..n /\ c.frames[n].entered /\ c.frames[n].m = f.m BY <1>1
      <4> QED BY <1>5, <3>2, <4>1
    <3>5. d.frames[n - 1] = c.frames[n - 1] /\ c.frames[n - 1].waiting BY <1>1, <1>5, <3>2
    <3> QED BY <1>1, <2>2, <3>2, <3>3, <3>4, <3>5
  <2>3. CASE x # f.m
    <3>a. c.frames[n].m = f.m BY <1>1
    <3>b. \A k \in 1..n - 1 : d.frames[k] = c.frames[k] BY <1>1, <1>5
    <3>c. \A k \in 1..n : k = n \/ k \in 1..n - 1 BY <1>5
    <3>1. \A k \in 1..n : c.frames[k].m # x BY <2>3, <3>a, <3>b, <3>c
    <3>2. PICK p \in Members(parents[x]) : Above(dfs, c, p, x) BY <1>11, <2>1, <3>1
    <3>3. /\ p \in Members(c.stack) /\ dfs[p] < dfs[x]
          /\ \A k \in 1..n : c.frames[k].entered /\ dfs[c.frames[k].m] < dfs[x] => dfs[c.frames[k].m] <= dfs[p]
      BY <1>0, <3>2 DEF Above
    <3>4. p \notin S
      <4> SUFFICES ASSUME p \in S PROVE FALSE OBVIOUS
      <4>1. ~(dfs[f.m] <= dfs[x]) /\ dfs[f.m] <= dfs[p] BY <1>1, <2>1
      <4>2. dfs[f.m] \in Nat /\ dfs[x] \in Nat /\ dfs[p] \in Nat BY <1>1, <1>3, <1>5, <2>1, <3>3
      <4> QED BY <3>3, <4>1, <4>2
    <3>5. p \in Members(d.stack) /\ Len(d.frames) = n - 1 BY <1>1, <3>3, <3>4
    <3>6. \A k \in 1..n - 1 : d.frames[k] = c.frames[k] /\ k \in 1..n BY <1>1, <1>5
    <3>7. Above(dfs, d, p, x) BY <3>3, <3>5, <3>6 DEF Above
    <3> QED BY <3>7
  <2> QED BY <2>2, <2>3
<1>23. HoldingOpen(T \cup S, parents', done', root', d)
  <2> SUFFICES ASSUME NEW x \in Members(d.stack), NEW i \in 1..Len(Req(x)), Seen(d, x, i),
                      Req(x)[i] \in T \cup S
               PROVE  Held(parents, done, root', x, Req(x)[i])
    BY <1>2 DEF HoldingOpen
  <2>1. Seen(c, x, i) /\ x \in Members(c.stack) /\ Req(x)[i] \in T BY <1>d DEF Unpopped
  <2>2. Held(parents, done, root, x, Req(x)[i]) BY <1>4, <2>1 DEF Course, HoldingOpen
  <2> QED BY <1>7, <2>1, <2>2 DEF Held
<1>24. Rooted(status', root', d)
  <2>1. Linkable(c.root) BY <1>2, <1>4 DEF Course, Rooted
  <2>2. ASSUME d.frames = <<>> PROVE status'[c.root] \in Over
    <3>1. n = 1 BY <1>1, <1>5, <2>2
    <3> QED BY <1>1, <1>8, <3>1 DEF Over
  <2> QED BY <1>2, <1>10, <2>1, <2>2 DEF Rooted
<1> QED BY <1>19, <1>20, <1>21, <1>22, <1>23, <1>24 DEF CourseKept
-----------------------------------------------------------------------------
\* Steps that change no more than promises and completions.
LEMMA PromisesStep ==
  ASSUME NEW T, Ready(T), done \subseteq done',
         \A x \in Module : exec'[x] = "ok" => exec[x] = "ok" \/ x \in done',
         UNCHANGED <<status, err, order, active, parents, ran, root, dfs>>,
         Promised(T, top', status', root', done')
  PROVE  RecordsKept(T)
<1>1. /\ T \subseteq Module /\ Records(T) /\ clock \in Nat /\ clock' \in Nat /\ clock <= clock'
      /\ \A x \in Module : order[x] \in Nat
  BY ReadyFacts
<1>2. /\ Concluded(exec, status, err, done) /\ Numbered(order, clock, active, parents)
      /\ Obeyed(parents, ran, done, active, err)
  BY <1>1 DEF Records
<1>3. Tied(T, dfs', parents', done', root') /\ Holding(T, parents', done', root') BY TiesStay
<1>4. Concluded(exec', status', err', done') BY <1>2 DEF Concluded
<1>5. Numbered(order', clock', active', parents') BY <1>1, <1>2 DEF Numbered
<1>6. Obeyed(parents', ran', done', active', err') BY <1>2 DEF Obeyed
<1> QED BY <1>3, <1>4, <1>5, <1>6 DEF RecordsKept

\* Whoever waits for a module of E that runs on is in E or has failed.
Whole(E) == /\ \A x \in E : status[x] # "linked"
            /\ \A x \in E : \A p \in Members(parents[x]) :
                 active[x] /\ x \notin done => p \in E \/ err[p] # Nil

\* The ancestors that a rejection reaches are such modules.
LEMMA AncestorsWhole ==
  ASSUME NEW T, Ready(T), NEW m \in Module, status[m] # "linked"
  PROVE  Whole(Ancestors(m))
<1> DEFINE E == Ancestors(m)
           Up(d) == {p \in Members(parents[d]) : status[p] # "evaluated"}
           V == {x \in Module : status[x] # "linked"}
           Closed == {U \in SUBSET Module : {m} \subseteq U /\ \A x \in U : Up(x) \subseteq U}
<1>1. /\ Types /\ Activity /\ Outcomes /\ called = {} /\ Records(T)
      /\ \A x \in Module : Members(parents[x]) \subseteq Module
  BY ReadyFacts
<1>2. /\ E \subseteq Module
      /\ \A x \in E : \A p \in Members(parents[x]) : status[p] # "evaluated" => p \in E
  BY <1>1, AncestorsClosed
<1>3. E \subseteq V
  <2>1. CASE status[m] = "evaluated" BY <2>1 DEF Ancestors
  <2>2. CASE status[m] # "evaluated"
    <3>1. E = {x \in Module : \A U \in Closed : x \in U} BY <2>2 DEF Ancestors, Closure
    <3>2. \A x \in V : \A p \in Members(parents[x]) : p \in Module /\ status[p] # "linked"
      BY <1>1 DEF Activity
    <3>3. \A x \in V : Up(x) \subseteq V BY <3>2
    <3>4. V \in Closed
      <4> HIDE DEF Up
      <4> QED BY <3>3
    <3> HIDE DEF Closed
    <3> QED BY <3>1, <3>4
  <2> QED BY <2>1, <2>2
<1>4. ASSUME NEW x \in E, NEW p \in Members(parents[x]), x \notin done, err[p] = Nil, p \notin E
      PROVE  FALSE
  <2>1. x \in Module /\ p \in Module BY <1>1, <1>2
  <2>2. status[p] = "evaluated" BY <1>2, <1>4
  <2>3. p \in done BY <1>1, <1>4, <2>1, <2>2 DEF Records, Concluded
  <2>4. p \in Members(ran) BY <1>1, <2>3 DEF Outcomes
  <2> QED BY <1>1, <1>4, <2>1, <2>4 DEF Records, Obeyed
<1> HIDE DEF E
<1>5. \A x \in E : status[x] # "linked" BY <1>3
<1>6. Whole(E) BY <1>4, <1>5 DEF Whole
<1> QED BY <1>6 DEF E

\* A module that is over without an error has completed, once it does not run on.
LEMMA OverDone ==
  ASSUME NEW T, Ready(T), NEW x \in Module, status[x] \in Over, err[x] = Nil
  PROVE  x \in T /\ (~active[x] => x \in done)
<1>1. /\ Activity /\ called = {} /\ Records(T) /\ Sorted(T, status, root, err) BY ReadyFacts
<1>2. x \in T BY <1>1 DEF Sorted
<1>3. ASSUME ~active[x] PROVE x \in done
  <2>1. status[x] = "evaluated" BY <1>1, <1>3 DEF Activity, Over
  <2> QED BY <1>1, <2>1 DEF Records, Concluded
<1> QED BY <1>2, <1>3
-----------------------------------------------------------------------------
\* The end of an activation.
LEMMA EndAwaits ==
  ASSUME NEW T, NEW c, ReadyIn(T, c), Working(c)
  PROVE  RecordsKept(T) /\ ctx' = <<>>
<1>b. Ready(T) /\ IInv /\ Len(ctx) = 1 /\ c = ctx[1] /\ called = {}
  BY DEF ReadyIn, Ready, ImportInv
<1>1. /\ Registered(status, dfs, anc, parents) /\ Ongoing(ran, done, exec, status, err, c)
      /\ Course(T, c) /\ Shape(graph, c) /\ Members(c.stack) \subseteq Module
      /\ \A x \in Module : status[x] = "evaluating" <=> x \in Members(c.stack)
  BY ReadyActivation
<1>2. /\ Records(T) /\ T \subseteq Module /\ Types
      /\ \A x \in Module : root[x] \in Module /\ Members(parents[x]) \subseteq Module
  BY <1>b, ReadyFacts
<1>3. ASSUME NEW e \in Module, FailStep(c, e) PROVE RecordsKept(T) /\ ctx' = <<>>
  <2>1. /\ ctx' = <<>> /\ SetError(Members(c.stack), e)
        /\ UNCHANGED <<exec, order, parents, ran, root, dfs, done>>
    BY <1>3 DEF FailStep
  <2>2. \A x \in Members(c.stack) : status[x] # "linked" BY <1>1
  <2>3. \A x \in Members(c.stack) : \A p \in Members(parents[x]) : p \in Members(c.stack)
    BY <1>1, <1>2 DEF Registered
  <2> QED BY <1>b, <1>1, <2>1, <2>2, <2>3, FailureRecords
<1>4. CASE EndListStep(c)
  <2>1. /\ ctx' = <<>> /\ UNCHANGED <<exec, status, err, order, active, parents, ran, root, top, dfs, done>>
    BY <1>4 DEF EndListStep, recVars, dfsVars
  <2> QED BY <1>b, <2>1, RecordsStay
<1>5. CASE EndWalkStep(c)
  <2>1. /\ c.kind = "dfs" /\ c.frames = <<>> /\ ctx' = <<>>
        /\ top' = [top EXCEPT ![c.root] = IF active[c.root] THEN @ ELSE "ok"]
        /\ UNCHANGED <<exec, status, err, order, active, parents, ran, root, dfs, done>>
    BY <1>5 DEF EndWalkStep, recVars, dfsVars
  <2>2. /\ c.root \in Module /\ root[c.root] = c.root /\ status[c.root] \in Over /\ err[c.root] = Nil
    BY <1>1, <2>1 DEF Course, Rooted, Ongoing, Shape
  <2>3. c.root \in T /\ (~active[c.root] => c.root \in done) BY <1>b, <2>2, OverDone
  <2>4. Promised(T, top', status', root', done')
    <3> SUFFICES ASSUME NEW x \in Module
                 PROVE  /\ top'[x] = "ok" => x \in T /\ root[x] = x /\ x \in done
                        /\ top'[x] = "pending" => root[x] = x
                        /\ top'[x] = "err" => status[x] = "evaluated" \/ ~Linkable(x)
                        /\ status[x] # "linked" => Linkable(x)
      BY <2>1 DEF Promised
    <3>1. /\ top[x] = "ok" => x \in T /\ root[x] = x /\ x \in done
          /\ top[x] = "pending" => root[x] = x
          /\ top[x] = "err" => status[x] = "evaluated" \/ ~Linkable(x)
          /\ status[x] # "linked" => Linkable(x)
      BY <1>2 DEF Records, Promised
    <3>2. top'[x] = top[x] \/ (x = c.root /\ ~active[c.root] /\ top'[x] = "ok")
      <4>1. top \in [Module -> Promises] BY <1>2 DEF Types, TypeOK
      <4> QED BY <2>1, <2>2, <4>1
    <3> QED BY <2>2, <2>3, <3>1, <3>2
  <2> QED BY <1>b, <2>1, <2>4, PromisesStep
<1> QED BY <1>3, <1>4, <1>5 DEF Working
-----------------------------------------------------------------------------
\* The list of a completion holds what waits for nothing else.
LEMMA FulfilDue ==
  ASSUME NEW T, Ready(T), ctx = <<>>, graph' = graph, called' = {}, NEW m \in Module, FulfilStep(m),
         m \in done
  PROVE  Due(parents', status', done', List(Available(m)))
<1> DEFINE S == Available(m)
           D == Debts'
<1>1. /\ IInv /\ Types /\ Activity /\ Counts /\ called = {} /\ Fresh /\ Failures /\ Once /\ Records(T)
      /\ \A x \in Module : root[x] \in Module /\ parents[x] \in Seq(Module) /\ status[x] \in Statuses
      /\ \A x \in Module : Members(parents[x]) \subseteq Module
  BY ReadyFacts
<1>2. /\ Complete(m) /\ ctx' = <<List(S)>> /\ UNCHANGED <<root, parents, ran, done>>
      /\ \A p \in S : p \in Module => pend'[p] = 0
  BY DEF FulfilStep, dfsVars
<1>3. \A x \in Module : /\ x = m => status'[x] = "evaluated" /\ ~active'[x]
                        /\ x # m => status'[x] = status[x] /\ active'[x] = active[x]
                        /\ err'[x] = err[x]
  BY <1>1, <1>2, RecordSteps
<1>4. S \subseteq Module /\ \A p \in S : p # m /\ Waits(p) BY <1>1, AvailableFacts
<1>5. Counts' BY <1>1, FulfilCounts
<1>6. D = {x \in Module : active'[x] /\ x \notin Spent(graph, List(S))}
  <2>1. Len(ctx') = 1 /\ ctx'[1] = List(S) BY <1>2
  <2> QED BY <2>1 DEF Debts
<1>7. Spent(graph, List(S)) = (S \cup {Nil}) \ graph.tla /\ List(S).avail = S BY DEF Spent, List
<1> HIDE DEF S, D
<1> SUFFICES ASSUME NEW p \in S, status'[p] # "evaluated", NEW x \in Module, p \in Members(parents[x])
             PROVE  x \in done \/ x \in Spent(graph, List(S))
  BY <1>2, <1>7 DEF Due, S
<1>8. /\ p \in Module /\ p # m /\ pend[p] > 0 /\ err[root[p]] = Nil /\ status[p] # "evaluated"
      /\ pend'[p] = 0
  BY <1>2, <1>4 DEF Waits
<1>9. p \notin Members(ran) BY <1>1, <1>8 DEF Once
<1>10. status[p] # "linked" BY <1>1, <1>8 DEF Fresh
<1>11. status[p] \in {"evaluating", "async"} BY <1>1, <1>8, <1>10 DEF Statuses
<1>12. p \in Waiting(ran)'
  <2>1. status'[p] = status[p] /\ err'[root'[p]] = Nil BY <1>1, <1>2, <1>3, <1>8
  <2> QED BY <1>2, <1>8, <1>9, <1>11, <2>1 DEF Waiting
<1>13. pend'[p] = Cardinality(Registrations(parents', D, p))
  BY <1>5, <1>12 DEF Counts, Edges, Registrations, D
<1>14. ASSUME x \in D PROVE FALSE
  <2>1. parents' \in [Module -> Seq(Module)] BY <1>1, <1>2 DEF Types, TypeOK
  <2>2. D \in SUBSET Module BY <1>6
  <2>3. p \notin Members(parents'[x]) BY <1>8, <1>13, <1>14, <2>1, <2>2, NoRegistration
  <2> QED BY <1>2, <2>3
<1>15. ~active'[x] \/ x \in Spent(graph, List(S)) BY <1>6, <1>14
<1>16. ASSUME ~active'[x], x # m PROVE x \in done
  <2>1. ~active[x] BY <1>3, <1>16
  <2>2. err[p] = Nil BY <1>1, <1>8 DEF Failures
  <2> QED BY <1>1, <2>1, <2>2 DEF Records, Obeyed
<1> QED BY <1>15, <1>16

\* A module's cycle root is its own, whatever is asked for.
LEMMA RootOfRoot ==
  ASSUME NEW T, Ready(T), NEW m \in Module
  PROVE  Root(m) \in Module /\ root[Root(m)] = Root(m)
<1>1. /\ Activity /\ called = {} /\ Sorted(T, status, root, err)
      /\ \A x \in Module : root[x] \in Module
  BY ReadyFacts
<1>2. CASE status[m] \notin Over
  <2>1. root[m] = m BY <1>1, <1>2 DEF Activity, Over
  <2> QED BY <1>2, <2>1 DEF Root, Over
<1>3. CASE status[m] \in Over
  <2>1. Root(m) = root[m] BY <1>3 DEF Root, Over
  <2>2. root[root[m]] = root[m] BY <1>1, <1>3 DEF Sorted
  <2> QED BY <1>1, <2>1, <2>2
<1> QED BY <1>2, <1>3

\* The steps of the job queue and of imports.
LEMMA IdleAwaits ==
  ASSUME NEW T, Ready(T), ctx = <<>>, graph' = graph, called' = {}, Idling
  PROVE  RecordsKept(T) /\ \A i \in 1..Len(ctx') : CourseKept(T, ctx'[i])
<1>1. /\ IInv /\ Types /\ Activity /\ called = {} /\ Fresh /\ Outcomes /\ Records(T)
      /\ \A x \in Module : root[x] \in Module /\ status[x] \in Statuses
  BY ReadyFacts
<1>2. \A x \in Module : status[x] # "evaluating" BY <1>1 DEF IInv, Stacks
<1>3. \A x \in Module :
        /\ top[x] = "ok" => x \in T /\ root[x] = x /\ x \in done
        /\ top[x] = "pending" => root[x] = x
        /\ top[x] = "err" => status[x] = "evaluated" \/ ~Linkable(x)
        /\ status[x] # "linked" => Linkable(x)
  BY <1>1 DEF Records, Promised
<1>a. Nil \notin graph.tla BY <1>1, GraphAssumption DEF Types, TypeOK
<1>4. ASSUME ctx' = <<>> PROVE \A i \in 1..Len(ctx') : CourseKept(T, ctx'[i]) BY <1>4
<1>5. ASSUME NEW d, ctx' = <<d>>, CourseKept(T, d) PROVE \A i \in 1..Len(ctx') : CourseKept(T, ctx'[i])
  BY <1>5
<1>6. CASE RestStep
  <2>1. /\ ctx' = <<>> /\ done \subseteq done'
        /\ \A x \in Module : exec'[x] = "ok" => exec[x] = "ok" \/ x \in done'
        /\ UNCHANGED <<status, err, active, root, dfs, order, parents, ran>>
    BY <1>6 DEF RestStep, dfsVars
  <2>2. ASSUME NEW x \in Module
        PROVE  /\ top'[x] = "ok" => x \in T /\ root[x] = x /\ x \in done'
               /\ top'[x] = "pending" => root[x] = x
               /\ top'[x] = "err" => status[x] = "evaluated" \/ ~Linkable(x)
    <3>1. CASE top'[x] = top[x] BY <1>3, <2>1, <3>1
    <3>2. CASE top'[x] # top[x]
      <4>1. /\ top'[x] = (IF status[x] = "async" THEN "pending"
                          ELSE IF status[x] = "evaluated" /\ err[x] = Nil THEN "ok" ELSE "err")
            /\ \E m \in Module : x = Root(m)
            /\ status[x] = "linked" => Reach(x) \cap graph.link # {}
        BY <1>6, <3>2 DEF RestStep
      <4>2. root[x] = x BY <4>1, RootOfRoot
      <4>3. ASSUME status[x] = "evaluated", err[x] = Nil PROVE x \in T /\ x \in done
        <5>1. x \in T BY <4>3, OverDone DEF Over
        <5>2. x \in done BY <1>1, <4>3 DEF Records, Concluded
        <5> QED BY <5>1, <5>2
      <4>4. status[x] = "linked" => ~Linkable(x)
        <5>1. Reach(x) = Needs(x) BY <1>1, NeedsAreReached
        <5> QED BY <4>1, <5>1 DEF Linkable
      <4> QED BY <1>1, <1>2, <2>1, <4>1, <4>2, <4>3, <4>4 DEF Statuses
    <3> QED BY <3>1, <3>2
  <2>3. Promised(T, top', status', root', done') BY <1>3, <2>1, <2>2 DEF Promised
  <2>4. RecordsKept(T) BY <2>1, <2>3, PromisesStep
  <2> QED BY <1>4, <2>1, <2>4
<1>7. ASSUME NEW m \in Module, WalkStep(m)
      PROVE  RecordsKept(T) /\ \A i \in 1..Len(ctx') : CourseKept(T, ctx'[i])
  <2>1. /\ status[m] = "linked" /\ ctx' = <<Walk(m)>> /\ Reach(m) \cap graph.link = {}
        /\ top' = [top EXCEPT ![m] = "pending"]
        /\ UNCHANGED <<status, err, active, root, dfs, order, parents, exec, ran, done>>
    BY <1>7 DEF WalkStep, dfsVars
  <2>2. root[m] = m BY <1>1, <2>1 DEF Fresh
  <2>3. Linkable(m)
    <3>1. Reach(m) = Needs(m) BY <1>1, NeedsAreReached
    <3> QED BY <2>1, <3>1 DEF Linkable
  <2>4. top \in [Module -> Promises] BY <1>1 DEF Types, TypeOK
  <2>5. \A x \in Module : (x = m /\ top'[x] = "pending") \/ top'[x] = top[x] BY <2>1, <2>4
  <2>6. Promised(T, top', status', root', done') BY <1>3, <2>1, <2>2, <2>5 DEF Promised
  <2>7. RecordsKept(T) BY <2>1, <2>6, PromisesStep
  <2> DEFINE d == Walk(m)
  <2>8. /\ d.kind = "dfs" /\ d.root = m /\ d.frames # <<>> /\ d.stack = <<>> /\ d.avail = {} /\ d.body = Nil
    BY DEF Walk
  <2> HIDE DEF d
  <2>9. Members(d.stack) = {} BY <2>8, MembersEmpty
  <2>10. Due(parents', status', done', d) BY <2>8, WalkDue
  <2>11. Done(d, done', active') BY <1>a, <2>8, <2>9 DEF Done
  <2>12. Chained(dfs', parents', done', d) /\ HoldingOpen(T, parents', done', root', d)
    BY <2>9 DEF Chained, HoldingOpen
  <2>13. Rooted(status', root', d) BY <2>1, <2>2, <2>3, <2>8 DEF Rooted
  <2>14. CourseKept(T, d) BY <2>10, <2>11, <2>12, <2>13 DEF CourseKept
  <2> QED BY <1>5, <2>1, <2>7, <2>14 DEF d
<1>8. ASSUME NEW m \in Module, RejectStep(m)
      PROVE  RecordsKept(T) /\ \A i \in 1..Len(ctx') : CourseKept(T, ctx'[i])
  <2> DEFINE E == Ancestors(m)
  <2>1. /\ exec[m] = "err" /\ ctx' = <<>> /\ SetError(E, m)
        /\ UNCHANGED <<exec, order, parents, ran, root, dfs, done>>
    BY <1>8 DEF RejectStep, dfsVars
  <2>2. status[m] # "linked" BY <1>1, <2>1 DEF Outcomes, Fresh
  <2>3. Whole(E) /\ E \in SUBSET Module BY <1>1, <2>2, AncestorsWhole, AncestorsClosed
  <2> HIDE DEF E
  <2>4. /\ \A x \in E : status[x] # "linked"
        /\ \A x \in E : \A p \in Members(parents[x]) :
             active[x] /\ x \notin done => p \in E \/ err[p] # Nil
    BY <2>3 DEF Whole
  <2>5. RecordsKept(T) BY <2>1, <2>3, <2>4, FailureRecords
  <2> QED BY <1>4, <2>1, <2>5
<1>9. ASSUME NEW m \in Module, FulfilStep(m)
      PROVE  RecordsKept(T) /\ \A i \in 1..Len(ctx') : CourseKept(T, ctx'[i])
  <2> DEFINE d == List(Available(m))
  <2>1. /\ exec[m] = "ok" /\ status[m] # "evaluated" /\ Complete(m) /\ ctx' = <<d>>
        /\ UNCHANGED <<exec, order, parents, ran, root, dfs, done>>
    BY <1>9 DEF FulfilStep, dfsVars
  <2>2. status[m] # "linked" BY <1>1, <2>1 DEF Outcomes, Fresh
  <2>3. status[m] = "async" BY <1>1, <1>2, <2>1, <2>2 DEF Statuses
  <2>4. m \in done BY <1>1, <2>1 DEF Records, Concluded
  <2>5. RecordsKept(T) BY <2>1, <2>3, <2>4, CompletionRecords
  <2>6. d.kind = "list" /\ d.stack = <<>> BY DEF List
  <2>7. Due(parents', status', done', d) BY <1>9, <2>4, FulfilDue
  <2> HIDE DEF d
  <2>8. CourseKept(T, d) BY <2>6, <2>7, ListCourse
  <2> QED BY <1>5, <2>1, <2>5, <2>8
<1> QED BY <1>6, <1>7, <1>8, <1>9 DEF Idling
-----------------------------------------------------------------------------
\* A body of a walk hands control back.
LEMMA LeftCourse ==
  ASSUME NEW T, NEW c, ReadyIn(T, c), NEW d, c.kind = "dfs", d.kind = "dfs", d.root = c.root,
         d.avail = c.avail, d.frames = c.frames, d.stack = c.stack, d.body = Nil,
         done \subseteq done', UNCHANGED <<status, active, root, dfs, parents>>,
         c.body \in done' \/ active[c.body]
  PROVE  CourseKept(T, d)
<1>b. Ready(T) BY DEF ReadyIn
<1>1. /\ Course(T, c) /\ Shape(graph, c) BY ReadyActivation
<1>2. Types BY <1>b, ReadyFacts
<1>3. Due(parents', status', done', d) BY <1>1, WalkDue DEF Shape
<1>4. Nil \notin graph.tla BY <1>2, GraphAssumption DEF Types, TypeOK
<1>5. Done(d, done', active') BY <1>1, <1>4 DEF Course, Done
<1>6. Chained(dfs', parents', done', d)
  <2>1. Chained(dfs, parents, done, c) BY <1>1 DEF Course
  <2>2. \A p, x : Above(dfs, c, p, x) => Above(dfs', d, p, x) BY DEF Above
  <2> SUFFICES ASSUME NEW x \in Members(c.stack), \A k \in 1..Len(c.frames) : c.frames[k].m # x, x \notin done
               PROVE  \/ \E p \in Members(parents[x]) : Above(dfs', d, p, x)
                      \/ \E k \in 1..Len(c.frames) : /\ k = Len(c.frames) /\ c.frames[k].waiting
                                                     /\ Asked(graph, c.frames[k]) = x
                                                     /\ dfs[c.frames[k].m] < dfs[x]
    BY DEF Chained
  <2> QED BY <2>1, <2>2 DEF Chained
<1>7. HoldingOpen(T, parents', done', root', d)
  <2>1. HoldingOpen(T, parents, done, root, c) BY <1>1 DEF Course
  <2>2. \A x, i : Seen(d, x, i) => Seen(c, x, i) BY DEF Seen
  <2>3. \A x, q : Held(parents, done, root, x, q) => Held(parents', done', root', x, q) BY DEF Held
  <2> QED BY <2>1, <2>2, <2>3 DEF HoldingOpen
<1>8. Rooted(status', root', d) BY <1>1 DEF Course, Rooted
<1> QED BY <1>3, <1>5, <1>6, <1>7, <1>8 DEF CourseKept

\* A body returns.
LEMMA ReturnAwaits ==
  ASSUME NEW T, NEW c, ReadyIn(T, c), NEW d, ReturnStep(c, d)
  PROVE  RecordsKept(T) /\ CourseKept(T, d)
<1>b. Ready(T) BY DEF ReadyIn
<1>1. /\ c.body \in Module /\ d.body = Nil /\ d.kind = c.kind /\ d.root = c.root /\ d.avail = c.avail
      /\ d.frames = c.frames /\ d.stack = c.stack /\ c.body \notin graph.tla
      /\ done' = done \cup {c.body} /\ UNCHANGED <<root, dfs, order, parents, ran, exec>>
      /\ c.kind = "list" => Complete(c.body)
      /\ c.kind # "list" => UNCHANGED <<status, err, top, active>>
  BY DEF ReturnStep, Left, dfsVars, recVars
<1>2. /\ Course(T, c) /\ Shape(graph, c) /\ Ongoing(ran, done, exec, status, err, c) /\ c \in Activation
  BY ReadyActivation
<1>3. Types BY <1>b, ReadyFacts
<1>4. done \subseteq done' /\ c.body \in done' /\ c.body # Nil BY <1>1, GraphAssumption
<1>5. CASE c.kind = "dfs"
  <2>1. UNCHANGED <<status, err, top, active>> BY <1>1, <1>5
  <2>2. RecordsKept(T) BY <1>b, <1>1, <1>4, <2>1, RecordsStay
  <2>3. CourseKept(T, d) BY <1>1, <1>4, <1>5, <2>1, LeftCourse
  <2> QED BY <2>2, <2>3
<1>6. CASE c.kind = "list"
  <2>1. Complete(c.body) /\ status[c.body] = "async" BY <1>1, <1>2, <1>4, <1>6 DEF Ongoing
  <2>2. RecordsKept(T) BY <1>b, <1>1, <1>4, <2>1, CompletionRecords
  <2>3. \A x \in Module : /\ x = c.body => status'[x] = "evaluated"
                          /\ x # c.body => status'[x] = status[x]
    BY <1>1, <1>3, <2>1, RecordSteps
  <2>4. Spent(graph, c) = (c.avail \cup {c.body}) \ graph.tla /\ Spent(graph, d) = (c.avail \cup {Nil}) \ graph.tla
    BY <1>1, <1>6 DEF Spent
  <2>5. c.avail \subseteq Module BY <1>2 DEF Activation
  <2>6. Due(parents', status', done', d)
    <3> SUFFICES ASSUME NEW p \in c.avail, status'[p] # "evaluated", NEW x \in Module,
                        p \in Members(parents[x])
                 PROVE  x \in done' \/ x \in Spent(graph, d)
      BY <1>1 DEF Due
    <3>1. status[p] # "evaluated" BY <2>3, <2>5
    <3>2. x \in done \/ x \in Spent(graph, c) BY <1>2, <3>1 DEF Course, Due
    <3> QED BY <1>4, <2>4, <3>2
  <2>7. d.kind = "list" /\ d.stack = <<>> BY <1>1, <1>2, <1>6 DEF Shape
  <2>8. CourseKept(T, d) BY <2>6, <2>7, ListCourse
  <2> QED BY <2>2, <2>8
<1> QED BY <1>2, <1>5, <1>6 DEF Activation

\* A body of a completion's list throws.
LEMMA ThrowAwaits ==
  ASSUME NEW T, NEW c, ReadyIn(T, c), NEW d, ThrowStep(c, d)
  PROVE  RecordsKept(T) /\ CourseKept(T, d)
<1> DEFINE E == Ancestors(c.body)
<1>b. Ready(T) BY DEF ReadyIn
<1>1. /\ c.body \in Module /\ d.body = Nil /\ d.kind = "list" /\ c.kind = "list" /\ d.avail = c.avail
      /\ d.stack = c.stack /\ c.body \notin graph.tla /\ SetError(E, c.body)
      /\ UNCHANGED <<root, dfs, order, parents, ran, exec, done>>
  BY DEF ThrowStep, Left, dfsVars
<1>2. /\ Course(T, c) /\ Shape(graph, c) /\ Ongoing(ran, done, exec, status, err, c) /\ c \in Activation
  BY ReadyActivation
<1>3. Types BY <1>b, ReadyFacts
<1>4. status[c.body] = "async" BY <1>1, <1>2, GraphAssumption DEF Ongoing
<1>5. /\ E \in SUBSET Module /\ c.body \in E
      /\ \A x \in E : \A p \in Members(parents[x]) : status[p] # "evaluated" => p \in E
  BY <1>1, <1>3, <1>4, AncestorsClosed
<1>6. Whole(E) BY <1>b, <1>1, <1>4, AncestorsWhole
<1> HIDE DEF E
<1>7. /\ \A x \in E : status[x] # "linked"
      /\ \A x \in E : \A p \in Members(parents[x]) :
           active[x] /\ x \notin done => p \in E \/ err[p] # Nil
  BY <1>6 DEF Whole
<1>8. RecordsKept(T) BY <1>b, <1>1, <1>5, <1>7, FailureRecords
<1>9. \A x \in Module : /\ x \in E => status'[x] = "evaluated"
                        /\ x \notin E => status'[x] = status[x]
  BY <1>1, <1>3, RecordSteps
<1>10. Spent(graph, c) = (c.avail \cup {c.body}) \ graph.tla /\ Spent(graph, d) = (c.avail \cup {Nil}) \ graph.tla
  BY <1>1 DEF Spent
<1>11. c.avail \subseteq Module BY <1>2 DEF Activation
<1>12. Due(parents', status', done', d)
  <2> SUFFICES ASSUME NEW p \in c.avail, status'[p] # "evaluated", NEW x \in Module,
                      p \in Members(parents[x])
               PROVE  x \in done \/ x \in Spent(graph, d)
    BY <1>1 DEF Due
  <2>1. p \notin E /\ status[p] # "evaluated" BY <1>9, <1>11
  <2>2. x \in done \/ x \in Spent(graph, c) BY <1>2, <2>1 DEF Course, Due
  <2>3. x # c.body BY <1>5, <2>1
  <2> QED BY <1>10, <2>2, <2>3
<1>13. d.stack = <<>> BY <1>1, <1>2 DEF Shape
<1>14. CourseKept(T, d) BY <1>1, <1>12, <1>13, ListCourse
<1> QED BY <1>8, <1>14

\* A body awaits.
LEMMA PauseAwaits ==
  ASSUME NEW T, NEW c, ReadyIn(T, c), NEW d, AwaitStep(c, d)
  PROVE  RecordsKept(T) /\ CourseKept(T, d)
<1>b. Ready(T) BY DEF ReadyIn
<1>1. /\ c.body \in Module /\ d.body = Nil /\ d.kind = c.kind /\ d.root = c.root /\ d.avail = c.avail
      /\ d.frames = c.frames /\ d.stack = c.stack /\ c.body \in graph.tla /\ done \subseteq done'
      /\ UNCHANGED <<root, dfs, order, parents, ran, status, err, top, active>>
  BY DEF AwaitStep, Left, dfsVars, recVars
<1>2. /\ Course(T, c) /\ Shape(graph, c) /\ c \in Activation BY ReadyActivation
<1>3. Types /\ Records(T) BY <1>b, ReadyFacts
<1>4. \A x \in Module : exec'[x] = "ok" => exec[x] = "ok" \/ x \in done'
  <2>1. exec \in [Module -> Promises] BY <1>3 DEF Types, TypeOK
  <2>2. PICK p \in {"pending", "ok", "err"} :
          exec' = [exec EXCEPT ![c.body] = p] /\ (p = "ok" => c.body \in done')
    BY DEF AwaitStep
  <2> QED BY <2>1, <2>2
<1>5. Promised(T, top', status', root', done')
  <2>1. Promised(T, top, status, root, done) BY <1>3 DEF Records
  <2> QED BY <1>1, <2>1 DEF Promised
<1>6. RecordsKept(T) BY <1>b, <1>1, <1>4, <1>5, PromisesStep
<1>7. CASE c.kind = "dfs"
  <2>1. active[c.body] BY <1>1, <1>2, <1>7 DEF Course, Done
  <2>2. CourseKept(T, d) BY <1>1, <1>7, <2>1, LeftCourse
  <2> QED BY <1>6, <2>2
<1>8. CASE c.kind = "list"
  <2>1. Spent(graph, c) = (c.avail \cup {c.body}) \ graph.tla /\ Spent(graph, d) = (c.avail \cup {Nil}) \ graph.tla
    BY <1>1, <1>8 DEF Spent
  <2>2. Spent(graph, c) \subseteq Spent(graph, d) BY <1>1, <2>1
  <2>3. Due(parents', status', done', d) BY <1>1, <1>2, <2>2 DEF Course, Due
  <2>4. d.kind = "list" /\ d.stack = <<>> BY <1>1, <1>2, <1>8 DEF Shape
  <2>5. CourseKept(T, d) BY <2>3, <2>4, ListCourse
  <2> QED BY <1>6, <2>5
<1> QED BY <1>2, <1>7, <1>8 DEF Activation

\* The next module of a completion's list starts: what it waits for has
\* completed, for it comes later in the order.
LEMMA RunAwaits ==
  ASSUME NEW T, NEW c, ReadyIn(T, c), NEW d, NEW m \in Module, RunStep(c, d, m)
  PROVE  RecordsKept(T) /\ CourseKept(T, d)
<1>b. Ready(T) BY DEF ReadyIn
<1>1. /\ c.kind = "list" /\ c.body = Nil /\ m \in c.avail /\ \A x \in c.avail : order[m] <= order[x]
      /\ d.kind = "list" /\ d.avail = c.avail \ {m} /\ d.stack = c.stack
      /\ d.body = (IF status[m] = "evaluated" THEN Nil ELSE m)
      /\ ran' = (IF status[m] = "evaluated" THEN ran ELSE Append(ran, m))
      /\ UNCHANGED <<root, dfs, order, parents, exec, done, status, err, top, active>>
  BY DEF RunStep, dfsVars, recVars
<1>2. /\ Course(T, c) /\ Shape(graph, c) /\ c \in Activation /\ Unstarted(ran, Idle(status, pend, ran), c)
  BY ReadyActivation
<1>3. /\ Types /\ Records(T) /\ Activity /\ Failures /\ called = {} /\ T \subseteq Module
      /\ clock \in Nat /\ clock' \in Nat /\ clock <= clock'
      /\ \A x \in Module : order[x] \in Nat /\ Members(parents[x]) \subseteq Module
  BY <1>b, ReadyFacts
<1>4. /\ Concluded(exec, status, err, done) /\ Numbered(order, clock, active, parents)
      /\ Obeyed(parents, ran, done, active, err) /\ Promised(T, top, status, root, done)
  BY <1>3 DEF Records
<1>5. status[m] # "evaluated" => active[m]
  <2>1. m \in Idle(status, pend, ran) BY <1>1, <1>2 DEF Unstarted
  <2> QED BY <1>3, <2>1 DEF Idle, Activity
<1>6. Spent(graph, c) = (c.avail \cup {Nil}) \ graph.tla /\ Spent(graph, d) = (d.avail \cup {d.body}) \ graph.tla
  BY <1>1 DEF Spent
<1>7. Nil \notin Module BY GraphAssumption
<1>8. ASSUME status[m] # "evaluated", NEW x \in Module, m \in Members(parents[x]) PROVE x \in done
  <2>1. x \in done \/ x \in Spent(graph, c) BY <1>1, <1>2, <1>8 DEF Course, Due
  <2>2. ASSUME x \in c.avail PROVE FALSE
    <3>1. order[x] < order[m] BY <1>4, <1>5, <1>8 DEF Numbered
    <3>2. order[m] <= order[x] /\ order[m] \in Nat /\ order[x] \in Nat BY <1>1, <1>3, <2>2
    <3> QED BY <3>1, <3>2
  <2> QED BY <1>6, <1>7, <2>1, <2>2
<1>9. \A p : p \in Members(ran') => p \in Members(ran) \/ (p = m /\ status[m] # "evaluated")
  <2>1. ran \in Seq(Module) BY <1>3 DEF Types, TypeOK
  <2>2. CASE status[m] = "evaluated" BY <1>1, <2>2
  <2>3. CASE status[m] # "evaluated"
    <3>1. Members(ran') = Members(ran) \cup {m} BY <1>1, <2>1, <2>3, MembersAppend
    <3> QED BY <2>3, <3>1
  <2> QED BY <2>2, <2>3
<1>10. Obeyed(parents', ran', done', active', err')
  <2> SUFFICES ASSUME NEW x \in Module, NEW p \in Members(parents[x])
               PROVE  /\ p \in Members(ran') => x \in done
                      /\ x \notin done /\ ~active[x] => err[p] # Nil
    BY <1>1 DEF Obeyed
  <2>1. /\ p \in Members(ran) => x \in done
        /\ x \notin done /\ ~active[x] => err[p] # Nil
    BY <1>4 DEF Obeyed
  <2>2. ASSUME p \in Members(ran') PROVE x \in done BY <1>8, <1>9, <2>1, <2>2
  <2> QED BY <2>1, <2>2
<1>11. Concluded(exec', status', err', done') BY <1>1, <1>4 DEF Concluded
<1>12. Numbered(order', clock', active', parents') BY <1>1, <1>3, <1>4 DEF Numbered
<1>13. Promised(T, top', status', root', done') BY <1>1, <1>4 DEF Promised
<1>14. Tied(T, dfs', parents', done', root') /\ Holding(T, parents', done', root')
  BY <1>b, <1>1, TiesStay
<1>15. RecordsKept(T) BY <1>10, <1>11, <1>12, <1>13, <1>14 DEF RecordsKept
<1>16. c.avail \subseteq Module BY <1>2 DEF Activation
<1>17. Due(parents', status', done', d)
  <2> SUFFICES ASSUME NEW p \in c.avail, status[p] # "evaluated", NEW x \in Module,
                      p \in Members(parents[x])
               PROVE  x \in done \/ x \in Spent(graph, d)
    BY <1>1 DEF Due
  <2>1. x \in done \/ x \in Spent(graph, c) BY <1>2 DEF Course, Due
  <2>2. CASE x # m BY <1>1, <1>6, <1>7, <2>1, <2>2
  <2>3. CASE x = m /\ status[m] # "evaluated" BY <1>1, <1>6, <2>1, <2>3
  <2>4. CASE x = m /\ status[m] = "evaluated"
    <3> SUFFICES ASSUME m \notin done PROVE FALSE BY <2>4
    <3>1. ~active[m] BY <1>3, <2>4 DEF Activity
    <3>2. err[p] # Nil BY <1>4, <2>4, <3>1 DEF Obeyed
    <3> QED BY <1>3, <1>16, <3>2 DEF Failures
  <2> QED BY <2>2, <2>3, <2>4
<1>18. d.stack = <<>> BY <1>1, <1>2 DEF Shape
<1>19. CourseKept(T, d) BY <1>1, <1>17, <1>18, ListCourse
<1> QED BY <1>15, <1>19
-----------------------------------------------------------------------------
\* A step of a walk, by what it adds to the modules popped.
LEMMA TurnAwaits ==
  ASSUME NEW T, NEW c, ReadyIn(T, c), NEW d \in Activation, Turning(c, d),
         NEW U, U = T \cup Clean(status', err')
  PROVE  RecordsKept(U) /\ CourseKept(U, d)
<1>b. /\ Ready(T) /\ IInv /\ Len(ctx) = 1 /\ c = ctx[1] /\ called = {} /\ LowLinks /\ T \in SUBSET Module
  BY DEF ReadyIn, Ready, ImportInv
<1>1. Sorted(T, status, root, err) /\ Types /\ T \subseteq Module BY <1>b, ReadyFacts
<1>2. Explored(T, status, dfs, anc, c) BY ReadyActivation
<1>3. ASSUME \A x \in Module : status'[x] \in Over /\ err'[x] = Nil => status[x] \in Over /\ err[x] = Nil
      PROVE  U = T
  <2>1. Clean(status', err') \subseteq T BY <1>1, <1>3 DEF Clean, Sorted
  <2> QED BY <2>1
<1>4. ASSUME NEW f \in FrameType, NEW g \in FrameType, EnterStep(c, d, f, g)
      PROVE  RecordsKept(U) /\ CourseKept(U, d)
  <2>1. status \in [Module -> Statuses] BY <1>1 DEF Types, TypeOK
  <2>2. err' = err /\ status' = [status EXCEPT ![f.m] = "evaluating"] BY <1>4 DEF EnterStep
  <2>3. U = T BY <1>3, <2>1, <2>2 DEF Over
  <2> QED BY <1>4, <2>3, EnterAwaits
<1>5. ASSUME NEW f \in FrameType, NEW g \in FrameType, ExamineStep(c, d, f, g)
      PROVE  RecordsKept(U) /\ CourseKept(U, d)
  <2>1. UNCHANGED <<status, err>> BY <1>5 DEF ExamineStep
  <2>2. U = T BY <1>3, <2>1
  <2> QED BY <1>5, <2>2, ExamineAwaits
<1>6. ASSUME NEW f \in FrameType, NEW g \in FrameType, RequestStep(c, d, f, g)
      PROVE  RecordsKept(U) /\ CourseKept(U, d)
  <2>1. UNCHANGED <<status, err>> BY <1>6 DEF RequestStep, recVars
  <2>2. U = T BY <1>3, <2>1
  <2> QED BY <1>6, <2>2, RequestAwaits
<1>7. ASSUME NEW f \in FrameType, NEW g \in FrameType, ExecuteStep(c, d, f, g)
      PROVE  RecordsKept(U) /\ CourseKept(U, d)
  <2>1. UNCHANGED <<status, err>> BY <1>7 DEF ExecuteStep
  <2>2. U = T BY <1>3, <2>1
  <2> QED BY <1>7, <2>2, ExecuteAwaits
<1>8. ASSUME NEW f \in FrameType, NEW S \in SUBSET Module, FinishStep(c, d, f, S)
      PROVE  RecordsKept(U) /\ CourseKept(U, d)
  <2>1. Sorted(T \cup S, status', root', err') /\ T \cup Clean(status', err') = T \cup S
    BY <1>b, <1>1, <1>2, <1>8, FinishSorted
  <2>2. U = T \cup S BY <2>1
  <2> QED BY <1>8, <2>2, FinishAwaits
<1> DEFINE Steps == \/ ReturnStep(c, d) \/ ThrowStep(c, d) \/ AwaitStep(c, d)
                    \/ \E m \in Module : RunStep(c, d, m)
<1>9. ASSUME Steps, U = T PROVE RecordsKept(U) /\ CourseKept(U, d)
  BY <1>9, ReturnAwaits, ThrowAwaits, PauseAwaits, RunAwaits
<1>10. ASSUME Steps PROVE U = T
  <2>1. Activity /\ Ongoing(ran, done, exec, status, err, c) BY <1>b, ReadyFacts, ReadyActivation
  <2>2. CASE UNCHANGED <<status, err>> BY <1>3, <2>2
  <2>3. CASE c.kind = "list" /\ ReturnStep(c, d)
    <3>1. Complete(c.body) /\ c.body \in Module BY <2>3 DEF ReturnStep, Left
    <3>2. status[c.body] \in Over BY <2>1, <2>3, <3>1, GraphAssumption DEF Ongoing, Over
    <3>3. \A x \in Module : /\ x # c.body => status'[x] = status[x]
                            /\ err'[x] = err[x]
      BY <1>1, <3>1, RecordSteps
    <3> QED BY <1>3, <3>2, <3>3
  <2>4. CASE ThrowStep(c, d)
    <3>1. SetError(Ancestors(c.body), c.body) /\ c.body \in Module /\ c.body # Nil
      BY <2>4, GraphAssumption DEF ThrowStep, Left
    <3>2. \A x \in Module : /\ x \in Ancestors(c.body) => err'[x] # Nil
                            /\ x \notin Ancestors(c.body) => status'[x] = status[x] /\ err'[x] = err[x]
      BY <1>1, <3>1, RecordSteps
    <3> QED BY <1>3, <3>2
  <2> QED BY <1>10, <2>2, <2>3, <2>4 DEF ReturnStep, AwaitStep, RunStep, recVars
<1> QED BY <1>4, <1>5, <1>6, <1>7, <1>8, <1>9, <1>10 DEF Turning

\* Every step keeps what is awaited.
LEMMA StepAwaits ==
  ASSUME ImportInv, ImportInv', [Next]_vars, called' = {}, NEW T \in SUBSET Module, Settled(T), Awaits(T),
         NEW U, U = T \cup Clean(status', err')
  PROVE  Awaits(U)'
<1>1. /\ called = {} /\ graph' = graph
      /\ UNCHANGED vars \/ (ctx = <<>> /\ Idling) \/ Replaces \/ Ends
  BY ImportSteps DEF ImportInv
<1>2. Types /\ Types' BY DEF ImportInv, IInv
<1>3. clock' \in Nat /\ clock <= clock' BY <1>2, ClockGrows
<1>4. Ready(T) BY <1>1, <1>3 DEF Ready
<1>5. CASE UNCHANGED vars
  <2>1. UNCHANGED <<exec, status, err, order, active, parents, ran, root, top, dfs, done, ctx>>
    BY <1>5 DEF vars, recVars, dfsVars, asyVars, hisVars
  <2>2. RecordsKept(T) BY <1>4, <2>1, RecordsStay
  <2>3. \A i \in 1..Len(ctx') : CourseKept(T, ctx'[i]) BY <2>1 DEF Awaits, Course, CourseKept
  <2>4. U = T
    <3>1. Sorted(T, status, root, err) BY DEF Settled
    <3>2. Clean(status', err') \subseteq T BY <2>1, <3>1 DEF Clean, Sorted
    <3> QED BY <3>2
  <2> QED BY <1>1, <2>2, <2>3, <2>4, AwaitsNext
<1>6. CASE ctx = <<>> /\ Idling
  <2>1. U = T BY <1>1, <1>6, IdleSettled
  <2>2. RecordsKept(T) /\ \A i \in 1..Len(ctx') : CourseKept(T, ctx'[i]) BY <1>1, <1>4, <1>6, IdleAwaits
  <2> QED BY <1>1, <2>1, <2>2, AwaitsNext
<1>7. CASE Ends
  <2>1. U = T BY <1>1, <1>7, EndSettled
  <2>2. ReadyIn(T, ctx[1]) /\ Working(ctx[1]) BY <1>4, <1>7 DEF ReadyIn, Ends
  <2>3. RecordsKept(T) /\ ctx' = <<>> BY <2>2, EndAwaits
  <2>4. \A i \in 1..Len(ctx') : CourseKept(T, ctx'[i]) BY <2>3
  <2> QED BY <1>1, <2>1, <2>3, <2>4, AwaitsNext
<1>8. CASE Replaces
  <2>1. /\ ReadyIn(T, ctx[1]) /\ Len(ctx') = 1 /\ ctx'[1] \in Activation /\ Turning(ctx[1], ctx'[1])
    BY <1>4, <1>8 DEF ReadyIn, Replaces
  <2>2. RecordsKept(U) /\ CourseKept(U, ctx'[1]) BY <2>1, TurnAwaits
  <2>3. \A i \in 1..Len(ctx') : CourseKept(U, ctx'[i]) BY <2>1, <2>2
  <2> QED BY <1>1, <2>2, <2>3, AwaitsNext
<1> QED BY <1>1, <1>5, <1>6, <1>7, <1>8

\* Nobody waits at first.
LEMMA InitAwaits ==
  ASSUME Init
  PROVE  Awaits({})
<1>1. /\ ctx = <<>> /\ done = {} /\ Members(ran) = {}
      /\ \A m \in Module : /\ status[m] = "linked" /\ exec[m] = "none" /\ top[m] = "none"
                           /\ ~active[m] /\ Members(parents[m]) = {}
  BY MembersEmpty DEF Init
<1>2. Concluded(exec, status, err, done) BY <1>1 DEF Concluded
<1>3. Numbered(order, clock, active, parents) /\ Obeyed(parents, ran, done, active, err)
  BY <1>1 DEF Numbered, Obeyed
<1>4. Tied({}, dfs, parents, done, root) /\ Holding({}, parents, done, root) BY DEF Tied, Holding
<1>5. Promised({}, top, status, root, done) BY <1>1 DEF Promised
<1> QED BY <1>1, <1>2, <1>3, <1>4, <1>5 DEF Awaits, Records

\* Every step keeps the invariant.
LEMMA NextAwaitInv == AwaitInv /\ [Next]_vars => AwaitInv'
<1> SUFFICES ASSUME AwaitInv, [Next]_vars PROVE AwaitInv' OBVIOUS
<1>1. ImportInv /\ ImportInv' BY NextImportInv DEF AwaitInv
<1>2. ASSUME called' = {} PROVE \E T \in SUBSET Module : Settled(T)' /\ Awaits(T)'
  <2>1. called = {} BY <1>1, <1>2, ImportSteps DEF ImportInv
  <2>2. PICK T \in SUBSET Module : Settled(T) /\ Awaits(T) BY <2>1 DEF AwaitInv
  <2>3. PICK U : U = T \cup Clean(status', err') OBVIOUS
  <2>4. Settled(U)' BY <1>1, <1>2, <2>2, <2>3, StepSettled
  <2>5. Awaits(U)' BY <1>1, <1>2, <2>2, <2>3, StepAwaits
  <2>6. U \in SUBSET Module BY <2>3 DEF Clean
  <2> QED BY <2>4, <2>5, <2>6
<1> QED BY <1>1, <1>2 DEF AwaitInv

\* Without require() a module waits for every component that it asks for and
\* that has not completed, bodies of a list start in an order that respects
\* who waits for whom, and a failure reaches everyone who waits
\* (module_evaluate, module_execution_fulfilled, module_execution_rejected).
THEOREM AwaitInvariant == Spec => []AwaitInv
<1>1. Init => AwaitInv BY InitImportInv, InitSettled, InitAwaits DEF AwaitInv
<1> QED BY <1>1, NextAwaitInv, PTL DEF Spec
-----------------------------------------------------------------------------
\* When the root of a component has completed, so has everything that the
\* component needs.
LEMMA Cover ==
  ASSUME Types, Outcomes, called = {}, NEW T \in SUBSET Module, Sorted(T, status, root, err), Records(T),
         NEW x \in T, root[x] \in done
  PROVE  Reach(x) \subseteq done
<1> DEFINE X == {z \in T : root[z] \in done}
<1>1. /\ Obeyed(parents, ran, done, active, err) /\ Tied(T, dfs, parents, done, root)
      /\ Holding(T, parents, done, root)
  BY DEF Records
<1>2. /\ done \subseteq Members(ran) /\ \A z \in Module : dfs[z] \in Nat /\ root[z] \in Module
  BY DEF Outcomes, Types, TypeOK
<1>3. ASSUME NEW v \in X PROVE v \in done
  <2> SUFFICES ASSUME v \notin done PROVE FALSE OBVIOUS
  <2> DEFINE B == {z \in T : root[z] = root[v] /\ z \notin done}
  <2>1. v \in B /\ B \subseteq T BY <1>3
  <2>2. \A z \in B : dfs[z] \in Nat BY <1>2, <2>1
  <2>3. PICK z \in B : \A y \in B : ~(dfs[y] < dfs[z])
    <3> HIDE DEF B
    <3> QED BY <2>1, <2>2, LeastOf
  <2>4. z \in T /\ z \in Module /\ root[z] = root[v] /\ z \notin done /\ root[v] \in done BY <1>3
  <2>5. PICK p \in Members(parents[z]) : p \in T /\ root[p] = root[z] /\ dfs[p] < dfs[z]
    BY <1>1, <2>4 DEF Tied
  <2>6. p \in done BY <2>3, <2>4, <2>5
  <2> QED BY <1>1, <1>2, <2>4, <2>6 DEF Obeyed
<1>4. ASSUME NEW z \in X, NEW q \in Requested(z) PROVE q \in X
  <2>1. q \in T /\ z \in T /\ root[z] \in done /\ z \in done BY <1>3, <1>4 DEF Sorted
  <2>2. CASE root[q] = root[z] BY <2>1, <2>2
  <2>3. CASE root[q] # root[z]
    <3>1. root[q] \in done \/ z \in Members(parents[root[q]]) BY <1>1, <2>1, <2>3 DEF Holding, Held
    <3>2. z \in Members(ran) /\ root[q] \in Module BY <1>2, <2>1
    <3>3. root[q] \in done BY <1>1, <3>1, <3>2 DEF Obeyed
    <3> QED BY <2>1, <3>3
  <2> QED BY <2>2, <2>3
<1>5. X \in SUBSET Module /\ x \in X /\ \A z \in X : Requested(z) \subseteq X BY <1>4
<1> SUFFICES ASSUME NEW y \in Reach(x) PROVE y \in done OBVIOUS
<1>6. Reach(x) = Needs(x) /\ Needs(x) \subseteq Module BY NeedsAreReached DEF Needs, Closure
<1>7. <<x, y>> \in Needing BY <1>6 DEF Needing
<1> HIDE DEF X
<1>8. y \in X BY <1>5, <1>7, ClosedHolds
<1> QED BY <1>3, <1>8

\* As long as no body calls require(), a module's promise is fulfilled, and a
\* later import() of it is, only when every body that it depends on has
\* completed, in its own cycle too (module_complete, module_evaluate).
THEOREM CompletionIsCovered == Spec => []CompletionCoversGraph
<1>1. AwaitInv => CompletionCoversGraph
  <2> SUFFICES ASSUME AwaitInv, called = {}, NEW m \in Module,
                      top[m] = "ok" \/ (status[root[m]] = "evaluated" /\ err[root[m]] = Nil)
               PROVE  Reach(m) \subseteq done
    BY DEF CompletionCoversGraph, ImportsOnly
  <2>1. PICK T \in SUBSET Module : Settled(T) /\ Awaits(T) BY DEF AwaitInv
  <2>2. Sorted(T, status, root, err) /\ Records(T) BY <2>1 DEF Settled, Awaits
  <2>3. Types /\ Outcomes /\ Activity BY DEF AwaitInv, ImportInv, IInv
  <2>4. root[m] \in Module BY <2>3 DEF Types, TypeOK
  <2>5. m \in T /\ root[m] \in done
    <3>1. CASE top[m] = "ok" BY <2>2, <3>1 DEF Records, Promised
    <3>2. CASE status[root[m]] = "evaluated" /\ err[root[m]] = Nil
      <4>1. root[m] \in done BY <2>2, <2>4, <3>2 DEF Records, Concluded
      <4>2. root[m] \in T BY <2>2, <2>4, <3>2 DEF Sorted, Over
      <4>3. root[m] # m => status[m] \in Over BY <2>3 DEF Activity, Over
      <4>4. m \in T BY <2>2, <4>2, <4>3 DEF Sorted
      <4> QED BY <4>1, <4>4
    <3> QED BY <3>1, <3>2
  <2> QED BY <2>2, <2>3, <2>5, Cover
<1> QED BY <1>1, AwaitInvariant, PTL
-----------------------------------------------------------------------------
\* A body is started by no call of require().
LEMMA StartCallsNothing ==
  ASSUME Types, [Next]_vars, NEW m, ran' = Append(ran, m)
  PROVE  called' = called
<1>1. ran' # ran
  <2>1. ran \in Seq(Module) BY DEF Types, TypeOK
  <2>2. Len(ran) \in Nat /\ Len(Append(ran, m)) = Len(ran) + 1 BY <2>1
  <2>3. Len(ran') # Len(ran) BY <2>2
  <2> QED BY <2>3
<1>2. ~UNCHANGED vars BY <1>1 DEF vars, hisVars
<1>3. CASE Enter \/ Examine \/ Request \/ Execute \/ Finish \/ EndWalk
  BY <1>3 DEF Enter, Examine, Request, Execute, Finish, EndWalk, hisVars
<1>4. CASE BodyReturns \/ BodyThrows \/ RunNext \/ EndList \/ Callback
  BY <1>4 DEF BodyReturns, BodyThrows, RunNext, EndList, Callback, hisVars
<1>5. ASSUME NEW p \in {"pending", "ok", "err"}, BodyAwaits(p) PROVE called' = called
  BY <1>5 DEF BodyAwaits
<1>6. ASSUME NEW x \in Module, Import(x) PROVE called' = called BY <1>6 DEF Import, hisVars
<1>7. ASSUME NEW x \in Module, Require(x) PROVE FALSE BY <1>1, <1>7 DEF Require
<1>8. ASSUME NEW x \in Module, NEW p \in {"ok", "err"}, Settle(x, p) PROVE called' = called
  BY <1>8 DEF Settle
<1> QED BY <1>2, <1>3, <1>4, <1>5, <1>6, <1>7, <1>8 DEF Next, Run

\* What x holds has completed with all that it needs when x starts.
LEMMA HeldIsCovered ==
  ASSUME NEW T, Ready(T), NEW x \in Module, x \in Members(ran'), NEW q \in T,
         Held(parents, done, root, x, q), RecordsKept(T), UNCHANGED <<parents, done>>
  PROVE  Reach(q) \subseteq done
<1>1. /\ Types /\ Outcomes /\ called = {} /\ T \in SUBSET Module /\ Sorted(T, status, root, err) /\ Records(T)
      /\ \A z \in Module : root[z] \in Module
  BY ReadyFacts
<1>2. Obeyed(parents, ran', done, active', err') BY DEF RecordsKept
<1>3. root[q] \in Module BY <1>1
<1>4. root[q] \in done BY <1>2, <1>3 DEF Held, Obeyed
<1> QED BY <1>1, <1>4, Cover

\* A body started by its walk.
LEMMA ExecuteFirst ==
  ASSUME NEW T, NEW c, ReadyIn(T, c), NEW d \in Activation, NEW f \in FrameType, NEW g \in FrameType,
         ExecuteStep(c, d, f, g), ran' = Append(ran, f.m), NEW q \in Requested(f.m)
  PROVE  f.m \in Needs(q) \/ Reach(q) \subseteq done
<1> DEFINE n == Len(c.frames)
           m == f.m
<1>0. n = Len(c.frames) OBVIOUS
<1>b. Ready(T) /\ IInv /\ Len(ctx) = 1 /\ c = ctx[1] BY DEF ReadyIn, Ready, ImportInv
<1>1. /\ c.frames # <<>> /\ f = c.frames[n] /\ f.entered /\ ~f.waiting /\ f.next > Len(Req(m))
      /\ UNCHANGED <<parents, done>>
  BY DEF ExecuteStep, Turned
<1>2. /\ Explored(T, status, dfs, anc, c) /\ Course(T, c) /\ Reaching(Needing, dfs, anc, c) /\ c \in Activation
  BY ReadyActivation
<1>3. Types BY <1>b, ReadyFacts
<1>4. RecordsKept(T) BY ExecuteAwaits
<1>5. /\ n \in Nat \ {0} /\ \A k \in 1..n : c.frames[k].m \in Module
      /\ \A k \in 1..n : c.frames[k].entered => c.frames[k].m \in Members(c.stack)
      /\ Members(c.stack) \subseteq Module
  BY <1>b, <1>1, WalkFrames
<1>6. \A k \in 1..n : c.frames[k].m = c.frames[n].m => k = n BY <1>b, <1>1, FramesDiffer
<1> HIDE DEF n
<1>7. n \in 1..n /\ m \in Module /\ m \in Members(c.stack)
  <2>1. n \in 1..n BY <1>5
  <2> QED BY <1>1, <1>5, <2>1
<1>8. PICK i \in 1..Len(Req(m)) : q = Req(m)[i] BY DEF Requested
<1>9. Seen(c, m, i)
  <2>1. f.next \in Nat /\ Len(Req(m)) \in Nat BY <1>3, <1>7, RequestTyped DEF FrameType
  <2>2. i < f.next BY <1>1, <2>1
  <2> QED BY <1>0, <1>1, <1>6, <2>2 DEF Seen
<1>10. CASE q \in T
  <2>1. Held(parents, done, root, m, q) BY <1>2, <1>7, <1>8, <1>9, <1>10 DEF Course, HoldingOpen
  <2>2. ran \in Seq(Module) BY <1>3 DEF Types, TypeOK
  <2>3. m \in Members(ran') BY <1>7, <2>2, MembersAppend
  <2> QED BY <1>b, <1>1, <1>4, <1>7, <1>10, <2>1, <2>3, HeldIsCovered
<1>11. CASE q \notin T
  <2>1. q \in Members(c.stack) BY <1>2, <1>7, <1>8, <1>9, <1>11 DEF Explored, Behind
  <2>2. PICK k \in 1..n : <<q, c.frames[k].m>> \in Needing BY <1>0, <1>2, <2>1 DEF Reaching
  <2>3. n \in k..n BY <1>5
  <2>4. <<c.frames[k].m, m>> \in Needing BY <1>0, <1>1, <1>2, <2>3 DEF Reaching
  <2>5. <<q, m>> \in Needing BY <1>3, <1>5, <1>7, <2>1, <2>2, <2>4, NeedsClosed
  <2> QED BY <2>5 DEF Needing
<1> QED BY <1>10, <1>11

\* A body started by the completion of what it waited for.
LEMMA RunFirst ==
  ASSUME NEW T, NEW c, ReadyIn(T, c), NEW d, NEW m \in Module, RunStep(c, d, m), status[m] # "evaluated",
         NEW q \in Requested(m)
  PROVE  m \in Needs(q) \/ Reach(q) \subseteq done
<1>b. Ready(T) /\ IInv BY DEF ReadyIn, Ready, ImportInv
<1>1. /\ m \in c.avail /\ ran' = Append(ran, m) /\ UNCHANGED <<parents, done>> BY DEF RunStep
<1>2. /\ Unstarted(ran, Idle(status, pend, ran), c) BY ReadyActivation
<1>3. /\ Types /\ Failures /\ Records(T) /\ Sorted(T, status, root, err) /\ T \subseteq Module
      /\ \A z \in Module : root[z] \in Module
  BY <1>b, ReadyFacts
<1>4. RecordsKept(T) BY RunAwaits
<1>5. m \in T /\ q \in T
  <2>1. status[m] \in Over BY <1>1, <1>2 DEF Unstarted, Idle, Over
  <2>2. err[m] = Nil BY <1>3 DEF Failures
  <2>3. m \in T BY <1>3, <2>1, <2>2 DEF Sorted
  <2> QED BY <1>3, <2>3 DEF Sorted
<1>6. CASE root[q] = root[m]
  <2>1. <<q, root[q]>> \in Needing BY <1>b, <1>3, <1>5 DEF IInv, Links
  <2>2. <<root[m], m>> \in Needing BY <1>3 DEF Sorted
  <2>3. <<q, m>> \in Needing BY <1>3, <1>5, <1>6, <2>1, <2>2, NeedsClosed
  <2> QED BY <2>3 DEF Needing
<1>7. CASE root[q] # root[m]
  <2>1. Held(parents, done, root, m, q) BY <1>3, <1>5, <1>7 DEF Records, Holding
  <2>2. ran \in Seq(Module) BY <1>3 DEF Types, TypeOK
  <2>3. m \in Members(ran') BY <1>1, <2>2, MembersAppend
  <2> QED BY <1>b, <1>1, <1>4, <1>5, <2>1, <2>3, HeldIsCovered
<1> QED BY <1>6, <1>7

\* Whatever starts a body, what it requests comes first.
LEMMA StartFirst ==
  ASSUME AwaitInv, AwaitInv', [Next]_vars, NEW m \in Module, ran' = Append(ran, m), called = {},
         NEW q \in Requested(m)
  PROVE  m \in Needs(q) \/ Reach(q) \subseteq done
<1>1. ImportInv /\ ImportInv' BY DEF AwaitInv
<1>2. Types /\ Types' /\ IInv /\ Alone BY <1>1 DEF ImportInv, IInv
<1>3. called' = {} BY <1>2, StartCallsNothing
<1>4. PICK T \in SUBSET Module : Settled(T) /\ Awaits(T) BY DEF AwaitInv
<1>5. Ready(T) BY <1>1, <1>2, <1>4, ClockGrows DEF Ready
<1>6. /\ ran \in Seq(Module) /\ Len(ran) \in Nat /\ Len(ran') = Len(ran) + 1
      /\ \A e \in Module : ran' = Append(ran, e) => e = m
  <2>1. ran \in Seq(Module) BY <1>2 DEF Types, TypeOK
  <2>2. \A e \in Module : Append(ran, e)[Len(ran) + 1] = e BY <2>1
  <2> QED BY <2>1, <2>2
<1>7. ran' # ran BY <1>6
<1>8. UNCHANGED vars \/ (ctx = <<>> /\ Idling) \/ Replaces \/ Ends BY <1>2, <1>3, ImportSteps
<1>9. Replaces
  <2>1. ~UNCHANGED vars BY <1>7 DEF vars, hisVars
  <2>2. ~Idling BY <1>7 DEF Idling, FulfilStep, RejectStep, WalkStep, RestStep
  <2>3. ~Ends BY <1>7 DEF Ends, Working, FailStep, EndWalkStep, EndListStep
  <2> QED BY <1>8, <2>1, <2>2, <2>3
<1> DEFINE c == ctx[1]
           d == ctx'[1]
<1>10. ReadyIn(T, c) /\ d \in Activation /\ Turning(c, d) BY <1>5, <1>9 DEF ReadyIn, Replaces
<1> HIDE DEF c, d
<1>11. ASSUME NEW f \in FrameType, NEW g \in FrameType, ExecuteStep(c, d, f, g)
       PROVE  m \in Needs(q) \/ Reach(q) \subseteq done
  <2>1. ran' = Append(ran, f.m) /\ f.m \in Module BY <1>7, <1>11 DEF ExecuteStep, FrameType
  <2>2. f.m = m BY <1>6, <2>1
  <2> QED BY <1>10, <1>11, <2>1, <2>2, ExecuteFirst
<1>12. ASSUME NEW x \in Module, RunStep(c, d, x) PROVE m \in Needs(q) \/ Reach(q) \subseteq done
  <2>1. ran' = Append(ran, x) /\ status[x] # "evaluated" BY <1>7, <1>12 DEF RunStep
  <2>2. x = m BY <1>6, <2>1
  <2> QED BY <1>10, <1>12, <2>1, <2>2, RunFirst
<1>13. ASSUME NEW f \in FrameType, NEW g \in FrameType
       PROVE  ~EnterStep(c, d, f, g) /\ ~ExamineStep(c, d, f, g) /\ ~RequestStep(c, d, f, g)
  BY <1>7 DEF EnterStep, ExamineStep, RequestStep
<1>14. ASSUME NEW f \in FrameType, NEW S \in SUBSET Module PROVE ~FinishStep(c, d, f, S)
  BY <1>7 DEF FinishStep
<1>15. ~ReturnStep(c, d) /\ ~ThrowStep(c, d) /\ ~AwaitStep(c, d)
  BY <1>7 DEF ReturnStep, ThrowStep, AwaitStep, Left
<1> QED BY <1>10, <1>11, <1>12, <1>13, <1>14, <1>15 DEF Turning

\* As long as no body calls require(), a body starts only after every module
\* that it requests has completed with all that this module depends on, unless
\* the two depend on each other (module_evaluate, module_execution_fulfilled).
THEOREM DependenciesComeFirst == Spec => DependenciesFirst
<1>1. AwaitInv /\ AwaitInv' /\ [Next]_vars =>
        [\A m \in Module : ran' = Append(ran, m) /\ ImportsOnly =>
           \A d \in Requested(m) : m \in Needs(d) \/ Reach(d) \subseteq done]_vars
  BY StartFirst DEF ImportsOnly
<1> QED BY <1>1, AwaitInvariant, PTL DEF Spec, DependenciesFirst
=============================================================================
