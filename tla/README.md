# TLA+ models of the TypeScript-to-C transpiler

The repository compiles TypeScript and JavaScript ahead of time to C and links
the result with a runtime written in C (`runtime/`). This directory holds TLA+
specifications of its core: the parts of the runtime in which order,
concurrency and failure matter, and the parts of the compiler whose decisions
change what a program does: the lowering of suspending functions and
expressions, the evaluation of expressions at compile time, and the linking of
modules. TLC configurations check them on small instances, and TLAPS proves
the central results about the waiters, the event loop, module evaluation and
the order in which modules start. Paths below are relative to the repository.

## 1. The system

### Parts

| Part | State | Operations | Talks to |
| --- | --- | --- | --- |
| Compiler driver (`src/compile.ts`, `program.ts`, `cli.ts`, `link/cc.ts`) | files of one compilation | find files, check, emit, call the C compiler | everything below, once, in sequence |
| Module specifiers (`src/module-specifiers.ts`) | none | the texts an expression may have; the argument of a require call | discovery, resolution, emitter |
| Resolution and linking (`src/program.ts`, `resolve.ts`, `module-source-record.ts`, `module-export-resolution.ts`, `module-request.ts`) | queue of files, link records, module graph, failed modules, order | discover, choose formats, ResolveExport, fail, order | specifiers, emitter |
| Static semantics and value flow (`src/*-static-semantics.ts`, `source-value-flow.ts`) | syntax trees, work lists | early errors, value flow | emitter |
| Static evaluation (`src/emit/index.ts`) | none: recursive questions about an expression | truth value, number, text, typeof, length, size, promise state, purity | emitter, which drops code on the answers |
| Resumable lowering (`src/emit/async-cfg.ts`, `resumable-expression.ts`, and their emission in `index.ts`) | a graph of states; at run time the activation frame | plan, prune, run the dispatch loop | promises, iterators, environments |
| Other emission (`src/emit/`) | C text | one C function per source function; `main` | runtime entry points |
| Module evaluation (`runtime/tsc_module.c`) | one record per module: status, DFS indices, cycle root, waiting parents, promise | evaluate (startup, `import()`), `require()`, fulfilment and rejection callbacks | promises, job queue |
| Event loop and timers (`runtime/tsc_core.c`) | next ticks, microtasks, immediates, timers, cross-thread queue, cached clock | schedule, clear, ref/unref, drain, idle wait | every asynchronous part |
| Dispatch workers (`runtime/tsc_dispatch.c`) | outstanding count, registry of task envelopes, queues | async, after, barrier, sync | event loop, through the cross-thread queue only |
| Atomics and their waiters (`runtime/tsc_atomics.c`, `tsc_atomics_wait.c`) | pending list, ready list, one mutex, one condition | wait, waitAsync, notify, timeout, abandon | every agent's event loop |
| Test262 agent group (`runtime/tsc_test262_agent.c`) | workers, mailboxes, reports, hold counts | start, broadcast, receive, sleep, leave, teardown | atomics, event loop |
| Promises, async iterators (`runtime/tsc_promise.c`) | promise states, reactions, combinator counters | settle, adopt, combine, iterate events and timers | job queue |
| Iterators and helpers, Map/Set, buffers, weak collections, environments, objects | heap structures | ECMAScript abstract operations | value library |
| Values, strings, arrays, RegExp, Node surface | none shared | library functions | - |

Agents are threads. Script of all agents runs under one runtime mutex that an
agent gives up at every access to shared storage, between jobs and whenever it
blocks; the waiter lists, the cross-thread queue and the loop's condition have
locks of their own. Dispatched tasks run on libdispatch threads. The compiler
is one sequential program; what makes it hard is the number of ways in which
syntax combines, and that its answers are trusted by later passes.

### What is hard

* The word compared by `Atomics.wait` is written without the waiter mutex.
* One waiter record can be completed by a notifier, by its own thread's
  deadline, by a timer in its agent's loop and by teardown.
* Two conditions are used (waiters, loops); a completion must reach both.
* The idle wait decides to sleep under a lock that does not protect everything
  it looks at.
* Module evaluation interleaves a depth-first walk, completions of awaiting
  bodies, failures that spread upwards, overlapping imports and `require()`
  calls that re-enter it.
* Timer and immediate phases run user callbacks that change the queues being
  drained; cancellation, re-arming and posts from workers arrive in between.
* The process must exit exactly when nothing is left to do.
* A suspending function is cut into states; a `break`, a `return` or an
  exception leaves through finalizers, iterators, resources and environments
  that may suspend on their own, and states are pruned by an analysis that has
  to foresee where finalizers go on to.
* Hundreds of mutually recursive recognisers decide that an expression has a
  known value or no effect; each trusts the others' meaning exactly.
* Which files a program consists of depends on the texts the compiler foresees
  for computed requires, and the scan for require calls exists twice.

`PROJECT.json` lists these as hazards with their lines and the properties that
guard them.

### What makes each part correct

* Atomics waiters: every wait ends once, for a reason that really occurred, and
  the program hears of it once and on its own agent; waiters are served first
  in, first out per location; no wake-up is lost.
* Module evaluation: no body twice; dependencies first; a cycle completes as
  one; a failure reaches exactly the modules that need the failed one; every
  promise that was handed out is settled.
* Event loop: no callback lost, doubled or run after it was cleared; jobs
  before the next timer or immediate; timers by deadline and age; tasks counted
  exactly; no early exit, no endless sleep.
* Resumable lowering: the observable steps of the source in its order, under
  its environments, on its values, whatever suspends.
* Static evaluation: a known value is the value; a dropped expression had no
  effect.
* Linking: what a module asks for at run time was found and linked at compile
  time, and exactly the unloadable modules are left out.

## 2. Modules and their correspondence to the code

### The runtime

**WaiterList** is the abstract specification of the waiters: a queue per
location, a state and an outcome per record. AtomicsWait keeps one list for
all locations; `QueueAt(l)` reads off it the queue of `l`: the list without
repetitions that holds the records pending at `l` in the order of the shared
list.

**AtomicsWait** models `tsc_atomics_wait.c`, its caller in `tsc_atomics.c`, the
part of each agent's loop that delivers completions, and the teardown of
workers. `waiting` and `ready` are the two linked lists as sequences; `rec` is
the struct; `wmutex` and `rlock` are the owners of `waiter_mutex` and
`g_runtime_mutex`; `pc[a]` is where a thread is. A critical section that
changes one record is one action; `tsc_atomic_waiter_notify`,
`tsc_atomics_schedule_completions` and `tsc_atomics_abandon_agent` change
several and are one action per record while `wmutex` is held. Blocking calls
are split where the code unlocks: `BeginWait`, then `SuspendSleeps`,
`SuspendTimesOut` or `SuspendReturns`, then `Resume`. `CondReturns` is the
spurious or timed return of a condition wait. `Checkpoint` is the yield that
precedes each access to shared storage. Clocks are abstracted: a finite
deadline may be found expired at any time. `published` is a history variable:
the last change of a word was followed by a completed notify of all. Loading,
exchanging and the other read-modify-write operations appear as the one `Store`
that the waiters can tell apart.

**ModuleGraph** models `tsc_module.c`: `Import` and `Require` enter
`tsc_module_evaluate`, whose explicit-stack walk is `Enter`, `Request`,
`Examine`, `Execute`, `Finish`, `EndWalk`; a body ends by `BodyReturns`,
`BodyThrows` or `BodyAwaits`; `Settle` ends an awaiting body and `Callback`,
`RunNext`, `EndList` are `module_execution_fulfilled` and `_rejected`. `ctx` is
the C stack of activations, because a body may `require()` and so start a walk
inside a walk or inside a completion's list. The graph is chosen in the initial
state: requests, awaiting bodies, modules that fail to load or to link, and how
many `require()` calls bodies may make. A promise is `none`, `pending`, `ok` or
`err`; namespaces and error values are reduced to the module an error came
from. Properties that `require()` is known to break are stated for the
behaviours without it (`ImportsOnly`).

**EventLoop** models `tsc_run_event_loop`, its queues, and dispatched tasks. A
callback `c` is an identity scheduled at most once (an interval re-arms
itself). `place` is the position in the loop, `cont` where a microtask drain
returns to, `running` the callback in progress; while one runs, the program may
schedule, clear, ref or unref anything. Workers move through `counted`,
`queued`, `running`, `leaving`, `over`, and post under `g_loop_mutex`. Time is
relative to `g_timer_now`: `at` is a deadline counted from the cached clock and
`lag` how far real time is ahead of it, so that the state stays finite while
intervals run for ever. The cap of 5000 ms on an idle wait is a spurious
`Wake`.

### Suspending functions and expressions

**StructuredControl** is the abstract specification of a resumable body: a
statement tree executed with a continuation stack. Only observable steps are
steps (an evaluation, a suspension, an iterator call, a disposal, a branch, the
settlement), and a value is the name of the step that made it.

**AsyncCfg** is the planner of `emit/async-cfg.ts`: every statement, pattern
and resource form becomes states of a flat graph, from the end backwards, under
a `BuildContext`; `Plan` ends with the reachability pruning and its fixed point
over finalization exits. Where the code numbers states and slots, the model
names them by the path of the syntax they are for.

**ResumeDispatch** is the resume function the emitter writes
(`emitAsyncControlFlowGraphContinuation` of `emit/index.ts`): a loop over
`state->pc` with one action per kind of state. The variables are the fields of
the activation frame. `graph` is the plan of the body. The planner and the
reference are parameters (`Lowered`, `Following`), so that a run evaluates them
once. `Structured` says that the machine implements StructuredControl; its
variables `ref` and `last` are shared rather than mapped: an observable step
advances `ref` if the source prescribes that step and loses it otherwise.

**ResumableExpr** models `planResumableExpression` of
`emit/resumable-expression.ts` and the emission of its operations. The planned
graph is run over value slots and logs each operation with its operands; `Eval`
is the direct reading of the expression. Slots keep what an earlier evaluation
left in them, since the frame outlives a loop iteration. The outcome of tests
is an oracle chosen on the way.

### Values known at compile time

**JsSyntax** holds the expressions, their values and the host operations the
compiler itself calls on them. **StaticFold** (truth values, numbers, bigints,
texts, typeof, nullish states), **StaticObjects** (own keys, entries,
descriptors, property reads), **StaticCollections** (array lengths and
elements, Set and Map sizes), **PromiseStates** (the state of a promise chain
and which reactions run), **HostPurity** (os, path, net, process, events,
errors) and **Purity** (`isSideEffectFreeTopLevelConstInitializer` and the rest
of the recognisers) are the analyses of `emit/index.ts`, operator by method.
Each answers `No` where the code answers null. The analyses call one another in
a circle; each module takes what lies above it as a constant, and
`FrontEnd_exact.cfg` ties the knot. **JsReference** is the language: a value and
whether getting it ran user code or threw, in a world that fixes what unknown
variables hold. What it does not describe counts as an effect, so an analysis
cannot be right by accident. **FrontEnd** asks each question as an action and
states that the answer is true. Behind the gate `Canonical` (an expression the
value-flow graph keeps as a tagged value is never pure) the recognisers are
also asked one by one, as the code asks them.

### Specifiers and linking

**SpecifierOperands**, **SpecifierBuffers**, **SpecifierValues**,
**SpecifierHost**, **SpecifierCollections** and **Specifiers** are
`module-specifiers.ts`: the set of texts an expression may have, empty when
nothing is known. **HostBuffers** and **HostValues** are the library it calls
(Buffer, URL, Date, Math, RegExp, path), which the running program calls too
and which is therefore external here. **SpecifierReference** evaluates the same
expressions as the language does and shares only syntax and library with them.

**RequireScan** is `commonJsRequireSpecifierArgument` and the walk for require
calls through aliases, bindings and factory wrappers, which `resolve.ts` and
`program.ts` hold in two copies. **ModuleRecords** is the link record, the
lookup of an export and the choice of a format. **ModuleLinking** is the way
from the entries to the order: `Discover` (`collectStaticRequireRoots`),
`Preflight` and `Build` (the two graphs of `buildProgram` and
`buildModuleGraph`, the first without requires), and `Walk`, a step of
**StartOrder**: the depth-first walk with explicit frames that ends
`buildModuleGraph` (`EnterRoot`, `Advance`, `Leave`, `Finish`), in a module of
its own because it alone is free of syntax and can be proved about.
**LinkingReference** says of the same
files, without aliases, records or work lists, what they ask for, what a name
denotes and which modules cannot load.

### Instances and proofs

The **MC_** modules add symmetry sets, graphs, programs and expressions.
**AtomicsWaitProofs** and **WaiterListProofs**, **EventLoopProofs**,
**ModuleGraphProofs** with **ModuleImportProofs**, **ModuleCycleProofs** and
**ModuleAwaitProofs**, and **StartOrderProofs** hold the theorems and the
inductive invariants they rest on.

Definitions marked as a mutant in their comment are not used by the
specifications. Each is a plausible slip in the definition it precedes;
substituted for it, it makes a run fail, as `PROJECT.json` records. They show
that each property depends on the code it is about.

## 3. Runs

| Run | Instance | Distinct states | Shows |
| --- | --- | --- | --- |
| `waiters_safety` | main + worker, 2 locations sharing the list, 2 values, 2 records | 1,652,174 | the pending list is exact, completions are neither lost nor doubled, no lost wake-up, no wait survives a published store, FIFO per location; the whole implements `WaiterList` |
| `waiters_live` | 1 location, 1 record | 26,378 | completions are delivered, deadlines expire, a notified wait returns |
| `waiters_teardown` (violated) | 1 record | 26,378 | finding 1 |
| `modules_safety` | 3 modules: every list of up to 2 requests with any awaiting set or one unloadable and one unlinkable module; chains whose bodies make up to 2 `require()` calls; 2 imports | 1,483,812 | no body twice, failures come from needed modules; without `require()` also cycles, dependency counts, order, completion, settled promises |
| `modules_live` | 4-module diamonds, alone and closed into cycles, a cycle with two dependencies, any awaiting set, 2 imports | 63,199 | every evaluation settles |
| `modules_cycle` (violated) | chains of 3 modules, 1 `require()` | - | finding 2 |
| `loop_safety` | 3 callbacks of any kind, timeouts of 0 and 1, intervals of 0, clock lag 1 | 695,768 | conservation, counting, rooting, exit and sleep safety, cancellation, job and timer order |
| `loop_live` | 2 callbacks, timeouts and intervals of 0 and 1 | 55,027 | tasks complete and timers run, unless an interval of delay zero that is never cleared holds the loop |
| `async_control` | thousands of bodies: every statement form in every other around every way to leave, owners of finalizers nested three deep, patterns with suspending defaults; async, generator, async generator; environments kept or not | 711,083 | the emitted machine implements the source's control; pruned states are never reached, slots and environments are right |
| `expressions` | every expression form around every form with a suspension or an optional chain in each operand, pairs of them | 494,781 | source order, right values, no stale slot |
| `static_values` | families of expressions per analysis, 4 worlds | 1,378,101 | a claimed value is the value; what is dropped has no effect |
| `linking` | 38,164 programs of 2 to 5 files, about 24,000 of them one computed specifier each | 476,343 | what is asked for at run time is linked and starts in time; failures are exact |

Why these bounds. Two records at one location are the least that can overtake
each other, and at two locations the least with which a notification must pass
over a foreign record; one blocking and one non-blocking agent cover every pair
of roles (waiter, notifier, loop, teardown). `MaxCount = 1` separates a counted
notify from an unlimited one. Three modules give every pair of overlapping
cycles with a third party and every shape of dependency up to two requests; the
diamonds with four modules are the smallest in which one completion releases
several ancestors that release a further one. Two imports overlap in every
state of the first. With three callbacks one can clear a second while a third
is queued or posted; delays 0 and 1 with a lag of 1 give due, tied and future
timers. In the lowering, the interesting case is one construct's exit through
another's finalizer: two levels inside a labelled loop give every pair, three
levels of owners every chain of finalizers with an inner and an outer
neighbour. In expressions, order and slot
reuse concern an operand, its siblings and the operation above: two levels. The
operands of the static analyses are chosen per method: each limit of its
arguments, a wrong kind, an unknown, an alias, an object with user code. A
specifier has up to two alternatives per operand, enough to tell a set of texts
from one text (the code's cap on their number is infinite). Names pass through at most three
files, and diamonds have four below the importer, the least in which two star
exports meet again, in the same binding or in two.

Deadlock is not checked in the runtime runs (`CHECK_DEADLOCK FALSE`): programs
end, and a program that waits for a notification nobody sends waits for ever.
Progress is stated by the liveness properties instead. The compiler's runs
check it: they end in a state that stutters by a named action (`Idle`,
`Complete`, `Ended`), so a graph that stops anywhere else is an error.

Symmetry is used only in runs without liveness properties.

The constants that name analyses (`Texts`, `Scan`, `Requests`, `IsPure` and
their like) are bound in the configurations to operators of the modules that
define them. They cut a circle of definitions across modules, and let TLC's
statistics treat an analysis as one expression; the bodies of the analyses are
what is checked.

### Fairness

* AtomicsWait: weak fairness of each thread's own steps (the scheduler runs
  threads that can run); strong fairness of `Resume` (a contended mutex is
  eventually obtained: pthreads do not promise it formally, but the runtime
  yields with `sched_yield` around it for this purpose); strong fairness of the
  steps that find a deadline expired (time passes), and of the end of a script
  (programs that loop for ever are not the runtime's concern).
* ModuleGraph: the job queue runs; awaiting bodies end.
* EventLoop: the main thread and workers run, callbacks and tasks end, time
  passes, timed waits end. An untimed wait has no fairness: only a post or a
  spurious return ends it, which is what makes `TaskCompletes` worth checking.
* The compiler's modules state none: a pass is a terminating computation, and
  a machine that stops early fails `CompletesWithItsValue`, `Structured` or the
  deadlock check.

### Findings

1. `waiters_teardown`: `docs/architecture.md` says "normal/abrupt teardown
   interrupts sleeping or blocked agents before joining". `cleanup_agents`
   abandons a worker's records once; a worker that is between two statements at
   that moment can begin another unbounded `Atomics.wait`, which nothing ends,
   and the join does not return.
2. `modules_cycle`: "dynamic import waits for evaluation and resolves the actual
   namespace". A `require()` that meets a module in the middle of its
   evaluation gives it a promise; if the module completes as a non-root member
   of a walk, that promise is not settled, and an `import()` that gets it later
   stays pending.

Interactions modelled and documented without a run: `require()` from a body
that runs out of a completion's list can register a module with a dependency
whose parents were already collected, so `PendingExact`,
`CompletionCoversGraph` and `DependenciesFirst` are stated without `require()`.
`setInterval` called from a dispatched task does not post to the main loop as
its siblings do; the interval is armed in a queue no loop drains
(`SetIntervalOffMain`). A zero-delay interval is due again as soon as it was
appended, and the second pass of `tsc_drain_timeouts` never ends. `loop_live`
includes such intervals, and its properties name that pass (`Overrun`) as the
one thing that may keep a task from completing or a timer from running; without
the exception both are violated.

### Forms left out of the compiler's instances

Comparing the analyses with the language showed forms for which they differ.
The instances leave these out, so the runs say nothing about them. They are
listed with what the code does; most need unusual source text.

Static evaluation (`emit/index.ts`):

* lengths: `[...[1, 2]].length` is folded to 1 (a spread counts as one
  element), `Object.keys([, 1]).length` to 2, `[1].keys().length` to 1 although
  an iterator has no length; `Array.from(text).length` counts UTF-16 units
  where the language counts code points;
* aliases: `const a = [1]; a.push(2);` leaves `a.length` known as 1, and a
  mutated `Date` alias keeps its text;
* primitive values: unary plus of a bigint counts as primitive though it
  throws; `Object.getOwnPropertyDescriptor(Object.create({a: 1}), "a")` as
  present; `Object.values` of a text constant as absent; the index of
  `Object.entries(x)[i][j]` may be out of range;
* reads of an element of an array-method call or a literal whose other
  operands run user code: the recogniser looks at the element only. Under
  `void` the canonical gate keeps them, and the run checks that;
* callbacks that are not callable, sets over sliced arrays with effects, and
  `process.stdin.resume()`, `pause()` and `on()`;
* a `do { continue } while (c)` is taken to leave its surroundings always
  (`statementAlwaysExits`), so what follows it counts as unreachable.

Specifiers (`module-specifiers.ts`):

* `+` of numbers or of null is folded as concatenation; `-0n`; `String(-0)`;
  an unknown index of a known array gives all its elements; non-numeric keys
  of arrays; the inherited and the absent under `Reflect.get`;
* `String.raw` with fewer substitutions than gaps writes `undefined` into
  them; `Object.isFrozen(Object.freeze(x))` is false; `Number.isInteger("1")`
  is true; `path.basename("", "b")` is `b`; `Array.from(undefined)` is empty;
  `isEncoding("ucs2")`; `split(undefined, limit)`; `$` in replacements;
* `Object.keys`, `values` and `entries` of `fromEntries`, or a literal, with a
  repeated key; Map and Set keys of mixed types;
* a conditional with one unresolvable branch, as in `require(c ? "a" : f())`,
  counts as the other branch; names are looked up without regard to shadowing
  by parameters and locals; optional parameters;
* texts outside the small alphabet, sorting of texts with punctuation, dates
  built from computed texts. A call of `Source` is not modelled.

Linking:

* a require call in the outer body of a factory wrapper, `require.bind(module,
  "a")()` and `require(...unknown)` collect nothing (the last even with a
  manifest, and without a diagnostic), nor does an alias called with an unknown
  text when there is no manifest;
* of the patterns over `module` the scan takes `{ require: r }`; one with a
  default (`{ require: r = f }`), a rest element (`{ ...m }`) or a computed key
  gives no alias;
* `export *` of a module that is not found makes every star-exported name of
  the file unresolved;
* a file exports and declares a name once, and broken files are modules of the
  Module goal; anything else is an error of the source reported earlier.

## 4. Proofs

Each proof module states an inductive invariant `IInv` as a conjunction of
named parts, shows `Init => IInv` and `IInv /\ [Next]_vars => IInv'`, and
derives the properties from it. Every theorem holds for every value of the
constants that satisfies the assumptions named below, at most two, which the
runs evaluate.

### Waiters

`AtomicsWaitProofs` proves, for any sets of agents, locations, values and
records and any bound on counts, under `AgentAssumption` and `CountAssumption`
of AtomicsWait only:

* `InductiveInvariant`: `Spec => []IInv`;
* `TypeCorrect`, `WaitListIsExact`, `CompletionsAreConserved`,
  `WakeupsAreNotLost`, `StoresAreNotMissed`: the invariants of
  `waiters_safety`;
* `NotifyFIFO`: its action property.

`IInv` is `TypeOK`, the four safety invariants and two more parts without which
they are not inductive. `RecordShape` ties a record's payload to its status (a
pending record has an agent, a location and an expected value; a free one was
told nothing), which the lists need to know that `Oldest(waiting, At(l))` is
pending and that a released record is nobody's. `WaitsOnOwnRecord` says that
exactly the threads inside `Atomics.wait` have a current record, that it is
synchronous, and that no two threads share one; without it a thread leaving
could release a record that is still listed. The argument: facts about the
list operators first (`OldestProperties`, `UnlinkProperties`,
`AppendProperty`); then every step is classified as quiet or as one of a few
kinds of record step (`QuietOrRecordStep`) and the list invariants are proved
once per kind; the invariants about program counters (`NoLostWakeup`,
`WaitsOnOwnRecord`, `NoMissedStore`) are proved action by action. `NotifyFIFO`
follows from `IInv` because a record becomes "ok" only as the oldest of its
location.

`WaiterListProofs` proves, under the same assumptions:

* `WaitersImplementQueues`: `ImplementsWaiterList`, the refinement that
  `waiters_safety` checks;
* `OutcomesAreFinal`: an outcome the program was told of a record never
  changes.

The mapping is the difficulty: the abstract queue of a location is chosen by
what it must satisfy, so the proof first shows that there is exactly one such
list. It exists for every list without repetitions (a shortest list without one
would have one as soon as its last record is put back), and two of them would
differ at a first place, whose records the shared list would have in both
orders. Then each operation on the shared list is one on the queues: appending
a record extends the queue of its location, unlinking removes it from there,
and the oldest record of a location is its queue's head. By `IInv` each step of
AtomicsWait that touches a record maps to `Refuse`, `Enqueue`, `Notify`,
`Expire` or `Tell`, and all others to a stutter. `OutcomesAreFinal` is proved
of WaiterList's steps and carried over by the refinement.

### Event loop

`EventLoopProofs` proves, for any set of callbacks, any delays and any bound on
the clock, under `LoopAssumption` only, every safety property of `loop_safety`:

* `LoopInvariant`: `Spec => []IInv`;
* `LoopTypeCorrect`, `CallbacksConserved`, `OutstandingIsExact`,
  `TasksStayRooted`, `ExitIsClean`, `SleepNeverMissesWork`: the invariants;
* `ClearedStaysSilent`, `JobsRunFirst`, `TimersRunInOrder`: the action
  properties.

Most of them are not inductive. `Control` says where the main thread can be
while a callback runs and where a drain returns to. `Tracked` says of each
callback that it has at most one holder, whatever its life, and that the
holder fits its kind: `WorkConserved` alone says nothing of cancelled
callbacks, which may linger in a queue, and would not exclude a task in the
immediate queue. `Counted` adds to `OutstandingExact` that the set counted is
finite, without which a cardinality means nothing (the set of callbacks may be
infinite). `Drained` carries the emptiness of the job queues from the end of a
drain to the next callback, which `JobsFirst` and `ExitIsQuiescent` need;
`IdleIsSafe` carries the decision to wait without a deadline across the gap
between it and the wait, in which workers post and tasks end. `Phase` says of
the timer phase that what it selected has expired and that an expired timer it
did not select was appended since, from which `TimersInOrder` follows. The
argument starts from facts about how often a callback occurs in a queue as the
queue is built and consumed (`CountAppend` and its neighbours); steps that
treat one callback alike are classified once (`StepCases`).

### Module evaluation

`ModuleGraphProofs` proves, for any finite set of modules, any graphs and any
number of imports and `require()` calls, under `GraphAssumption` only:

* `GraphInvariant`: `Spec => []IInv`;
* `GraphTypeCorrect`: in particular a completion never subtracts more from
  `pending_dependencies` than is there;
* `BodiesRunOnce` and `FailuresComeFromDependencies`: the two invariants of
  `modules_safety` that hold with `require()` too.

`IInv` has nine layers, each used by the later ones. `Types` adds to `TypeOK`
the shape of activations and frames. `Control` describes the C stack: only the
innermost activation is without a body, only the first can be a list, only the
last frame of a walk is not waiting. `Stacks` is Tarjan's stack: its members
are exactly the modules being evaluated, each on one stack, in the order of
their indexes, those of the entered frames among them. `Paths` is what makes
the stack mean something: a module on it needs a module on it whose index its
ancestor index covers, and one whose frame is still open; without it one cannot
know that modules that fail together need the one that threw. `Links` says the
same of cycle roots and of waiting parents. `Fresh` says that a module not
visited has no history and is its own cycle root, which is what makes the
branch of `Evaluate` on the cycle root's status safe. `Once` strengthens
`BodyRunsOnce` by what is about to run: the module of a frame that has not
finished and the modules of a completion's list have not run, and what has run
waits for nothing. `Outcomes` says that a body is running, awaiting or ended,
one at a time. `Failures` strengthens `FailureFromDependency`: the module an
error names has started and ended abruptly, so it can never complete later.
The order of the proof is that of the layers; each has a lemma per action, and
the actions are first brought into a form without `EXCEPT` on nested records
(`EnterForm`, `RequestForm`, `FinishForm` and so on). `Needs` and `Available`
are least sets given by what they are closed under; the proofs use only that
they are closed and least, never how they are computed. TLC checks this `IInv`
on the instance of `modules_safety` as well.

`ModuleImportProofs` goes on, under the same assumption, for the behaviours in
which nothing was required (`called = {}`), the condition of the properties
themselves:

* `ImportInvariant`: `Spec => []ImportInv`;
* `PromisesAreSettled`: `ImportsAreSettled`;
* `PendingIsExact`: `PendingExact`.

`ImportInv` adds six layers to `IInv`. `Alone` says that there is at most one
activation, since only `require()` re-enters the evaluation; the steps are then
restated as predicates of that activation and its successor (`ImportSteps`).
`Settling` says that a pending promise belongs to an asynchronous module or to
the root of the walk in progress. `Activity` and `Dormant` say that a module is
active exactly while it is asynchronous, from the end of its visit, that
nothing waits for it before, and that its cycle root becomes another module
only when both are popped.
`LowLinks` is the part of Tarjan's argument the counts need: the ancestor index
of a frame covers every module above it on the stack unless that was still to
be told to it, so a module that others of the stack wait for is popped together
with them. Without it a synchronous module could be popped while a waiting
module is registered with it, and nothing would ever complete it. `Counts` says
that `pending_dependencies` is the number of registrations with the modules
that still owe a completion (`Debts`); the synchronous modules of a
completion's list have run but are settled with their importers only as the
list goes on, and a list's modules are those whose count has reached zero. The
counting itself is in lemmas about how the set of registrations changes when a
parent is appended, a module completes or a cycle fails.

The proof attempt corrected the property. `PendingExact` was first stated of
every module that has not started. Let 1 and 2 form a cycle with root 1, let 1
also need 3 and 2 also need 4, all asynchronous. When 3 fails the root 1 has an
error, and the completion of 4 then skips 2 because of `cycle_root->has_error`:
2 keeps a count that no completion will lower. Its body is never started, as
the cycle has failed, and its count is read no more; so the property now speaks
of modules whose cycle root has no error, and this graph is part of the
`modules_safety` instance.

`ModuleCycleProofs` and `ModuleAwaitProofs` complete the argument for these
behaviours:

* `CycleInvariant`: `Spec => []CycleInv`, and from it `CyclesAreFound`:
  `CyclesFound`;
* `AwaitInvariant`: `Spec => []AwaitInv`, and from it `CompletionIsCovered`
  (`CompletionCoversGraph`) and `DependenciesComeFirst` (`DependenciesFirst`).

Both invariants speak of a set `T`, the modules that were popped at the end of
their component rather than with a walk that failed. No variable records it:
the invariants say that there is such a set, and each step is given the set of
the state before it, with what it pops added. `CycleInv` says that `T` is
closed under requests and that its members which need each other share a cycle
root (`Sorted`), and that whatever a module on the stack has examined is in `T`
or on the stack, where its ancestor index covers it and it was entered before
any frame opened after that module (`Explored`). This is the completeness of
Tarjan's walk, of which `LowLinks` above is the part about waiting modules: a
component that is popped has examined everything, so nothing it needs is left
out.

`AwaitInv` adds how completions travel. Of the records: a fulfilled promise and
an evaluated module mean a completed body (`Concluded`); who waits is numbered
after what it waits for (`Numbered`), starts only after it has completed and
fails with it (`Obeyed`); a member of a popped component that has not completed
is waited for by one of lower index in the component (`Tied`); a popped module
waits for every other component it asks for that has not completed
(`Holding`); a promise belongs to a cycle root (`Promised`). Of an activation:
the modules of a completion's list wait for nothing that is not done or earlier
in the list (`Due`), and `Done`, `Chained`, `HoldingOpen` and `Rooted` say of
the stack what the parts above say of `T`. `DependenciesFirst` follows where a
body starts: a synchronous body has its dependencies popped and complete or
would have been registered with them, and a list runs the least `async_order`
first, so by `Numbered` and `Due` nothing it waits for is left. For
`CompletionCoversGraph`, suppose a component's root has completed and a member
has not: take the one of least index; by `Tied` a member below it waits for it
and so has not completed either, by `Obeyed`; hence the whole component has
completed, by `Holding` so have the components it asks for, and what is
complete is closed under requests. TLC checked `AwaitInv` on small graphs and
on the diamonds before it was proved; its existential over sets of modules is
too costly to keep in a run.

### Start order

`StartOrderProofs` proves, for any import graph, of finitely many modules or
not, and any list of entries, under no assumption:

* `OrderInvariant`: `Spec => []IInv`;
* `ImportsAreFirst`: when the walk is done, an import of a placed module is
  placed, and before the module unless it needs the module in turn;
* `OrderIsExact`: what is placed is the least set closed under imports that
  holds the entries, and nothing is placed twice.

`IInv` has six parts: the types, and that the entries left are the last ones
(`Types`); that no module is both open and placed, or either of them twice
(`Places`), by which the second test of `visited` in the code, after a frame is
popped, never holds; that each frame's module is the import its predecessor is
at (`Chain`); that an import a frame has got past is placed, or open and in
need of the module, or is the next frame (`Examined`); the same of placed
modules, with placed meaning earlier (`Sorted`); and that exactly what the
entries walked from depend on is entered (`Rooted`). "Needs" is again a least
set. TLC checked this invariant on every graph of three modules with up to two
imports and two entries. The walk of `ModuleLinking` is this module by
`INSTANCE`, on the graph that was built; that the graph itself is right is what
`linking` checks.

### Only model-checked

* All liveness: the prover does not support fairness and `ENABLED`.
* The compiler's modules other than StartOrder (`ControlSound`, `SlotsLive`,
  `CopiesOwnScope`, `EnvironmentExact`, `Structured`, `InSourceOrder`,
  `CompletesWithItsValue`, `NoStaleValue`, `StaticValueExact`,
  `NothingIsLost`, `RequestsAreLinked`, `FailuresExact`): their statements are
  about recursive operators over syntax trees, of which the prover's backends
  know nothing and for which they have no induction.

## 5. Plan

Done: AtomicsWait with WaiterList and their proofs; ModuleGraph and EventLoop
with theirs; StructuredControl, AsyncCfg, ResumeDispatch; ResumableExpr; the
static analyses; specifiers, scanning and linking, with the start order and its
proofs.

Every safety property of the runtime's runs that the code satisfies is now also
a theorem. What is left there is liveness, which stays with TLC.

To model next, if the set of checked properties is extended:

1. AgentGroup: start, broadcast with its acknowledgement count, receive, sleep,
   reports, failure, leave and join, composed with the hold of AtomicsWait.
2. PromiseJobs: settlement, thenable adoption, combinators, `events.on`/`once`
   and the timers iterators of `tsc_promise.c`.
3. DispatchQueues: serial, concurrent and barrier queues and `dispatch.sync`
   with its deadlock test.
4. Live iteration of Map and Set; iterator helpers and the close protocol; weak
   collections; array buffers; environments; property descriptors.

An abstract job queue ("scheduled work runs once, in order") is worth stating
above EventLoop and PromiseJobs once both exist.

## 6. Not modelled

* libuv's filesystem turn in the loop, which is compiled in only with libuv.
* The single-threaded build (`tsc_atomics_idle_wait`, empty locks).
* Out-of-memory panics: they end the process.
* Garbage collection, except as reachability of dispatched tasks.
* Exceptions thrown out of timer, immediate and job callbacks: they end the
  process.
* Promises, iterators, Map and Set, weak collections, environments and object
  operations of the runtime: see the plan.
* Value library, strings, RegExp, Node surface of the runtime: sequential code
  over unbounded data, for which tests are the better tool.
* How a specifier names a file: TypeScript's resolution and package maps
  (`commonjs-resolve.ts`) are an oracle (`names`), and the roots the Test262
  host adds are left out. The files one scan finds enter the queue in any
  order. Dynamic imports are discovered but do not order the start.
* The choice of C types and text in the emitter, destructuring assignments
  whose targets suspend, the older single-suspension plans of `async-ir.ts`,
  regular expressions, typed arrays, dates and URLs in the static analyses of
  `emit/index.ts`.
* Early errors and the value-flow solver: sequential passes over syntax trees.
