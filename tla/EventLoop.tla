------------------------------ MODULE EventLoop ------------------------------
(***************************************************************************)
(* The main agent's event loop (tsc_run_event_loop and the queues of       *)
(* runtime/tsc_core.c) together with the worker threads that run           *)
(* dispatched tasks (runtime/tsc_dispatch.c) and talk to it only through   *)
(* the cross-thread queue.                                                 *)
(*                                                                         *)
(* A callback is an identity that is scheduled at most once.  While one    *)
(* runs on the main thread, running names it and the program may call the  *)
(* scheduling operations; in between, place says where the loop is and     *)
(* cont where the microtask drain it is in returns to.  A critical section *)
(* of g_loop_mutex is one action.                                          *)
(*                                                                         *)
(* Time is relative: deadlines are counted from g_timer_now, the clock     *)
(* cached by the last timer phase, and lag is how far real time is ahead   *)
(* of it.                                                                  *)
(***************************************************************************)
EXTENDS Integers, Sequences, FiniteSets

CONSTANTS
  Cb,             \* callbacks and dispatched tasks
  Kind,           \* what the program schedules, a subset of Kinds
  TimeoutDelay,   \* delays given to setTimeout, in clock units
  IntervalDelay,  \* delays given to setInterval
  MaxLag,         \* how far the clock moves between two timer phases (a bound)
  Nil             \* no callback; as the author of a call, the main thread

Kinds == {"tick", "micro", "imm", "timeout", "interval", "task"}

ASSUME LoopAssumption ==
  /\ Nil \notin Cb /\ Kind \subseteq Kinds /\ MaxLag \in Nat
  /\ TimeoutDelay \subseteq Nat /\ IntervalDelay \subseteq Nat

VARIABLES
  work,         \* per callback: kind, who scheduled it, delay, timer id, refed
  life,         \* "free", "live", "done", "cancelled" or "stranded"
  ticks, micros, imms,  \* the next-tick, microtask and immediate queues
  batch,        \* immediates left of the snapshot being drained
  armed,        \* the live entries of the timer queue
  at,           \* their deadlines
  due,          \* entries still to run in this timer phase
  fresh,        \* entries appended since the phase began, not yet examined
  lag,          \* real time minus g_timer_now
  clocked,      \* g_timer_now_set: the clock was read once
  ids,          \* g_next_timer_id
  cross,        \* g_cross_queue: callbacks, and tasks to settle
  outstanding,  \* g_dispatch_outstanding
  inflight,     \* the registry that keeps task envelopes alive
  task,         \* where each dispatched task is
  place, cont, running, \* where the main thread is
  untimed       \* the idle wait has no deadline

jobVars   == <<ticks, micros>>
timerVars == <<armed, at, due, fresh, lag, clocked, ids>>
immVars   == <<imms, batch>>
taskVars  == <<cross, outstanding, inflight, task>>
mainVars  == <<place, cont, running, untimed>>
vars == <<work, life, jobVars, timerVars, immVars, taskVars, mainVars>>
-----------------------------------------------------------------------------
Unused == [kind |-> "none", by |-> Nil, delay |-> 0, id |-> 0, refed |-> FALSE]
Drains == {"drain", "tick", "micro"}
Places == Drains \cup {"script", "head", "cross", "check", "ready", "late", "imms",
                       "imm", "bottom", "idle", "sleep", "exit"}

\* The program runs on the main thread: the initial script or a callback.
Calling == running # Nil \/ place = "script"

\* The loop itself is at p.
At(p) == running = Nil /\ place = p

\* tsc_drain_timeouts is active: entries appended now are examined by it.
InPhase == {place, cont} \cap {"ready", "late"} # {}

\* Mutant: dispatched tasks do not keep the loop alive.
ReferencedLocally ==
  \/ \E c \in armed : work[c].refed
  \/ \E i \in 1..Len(imms) : life[imms[i]] = "live" /\ work[imms[i]].refed

\* tsc_has_referenced_event_source.
Referenced ==
  \/ \E c \in armed : work[c].refed
  \/ \E i \in 1..Len(imms) : life[imms[i]] = "live" /\ work[imms[i]].refed
  \/ outstanding > 0 \/ cross # <<>>

\* Mutant: the loop is not signalled.
Asleep == place

\* tsc_cross_post broadcasts g_loop_cond.
Woken == IF place = "sleep" THEN "head" ELSE place
-----------------------------------------------------------------------------
Init ==
  /\ work = [c \in Cb |-> Unused] /\ life = [c \in Cb |-> "free"]
  /\ ticks = <<>> /\ micros = <<>> /\ imms = <<>> /\ batch = 0
  /\ armed = {} /\ at = [c \in Cb |-> 0] /\ due = {} /\ fresh = <<>>
  /\ lag = 0 /\ clocked = FALSE /\ ids = 1
  /\ cross = <<>> /\ outstanding = 0 /\ inflight = {}
  /\ task = [c \in Cb |-> "none"]
  /\ place = "script" /\ cont = "none" /\ running = Nil /\ untimed = FALSE

\* c becomes a scheduled callback of kind k, requested by a.
New(c, k, a, d) ==
  /\ life[c] = "free"
  /\ life' = [life EXCEPT ![c] = "live"]
  /\ work' = [work EXCEPT ![c] = [Unused EXCEPT !.kind = k, !.by = a, !.delay = d]]

\* What tsc_set_immediate and tsc_make_timeout / tsc_set_interval add to a
\* record when the main thread takes it in.
Numbered(r) == [r EXCEPT !.id = ids, !.refed = TRUE]

Arm(c, d) ==
  /\ armed' = armed \cup {c}
  /\ at'    = [at EXCEPT ![c] = d]
  /\ fresh' = IF InPhase THEN Append(fresh, c) ELSE fresh
  /\ clocked' = TRUE
  /\ UNCHANGED <<due, lag>>

\* process.nextTick and queueMicrotask on the main thread.
Enqueue(c, k) ==
  /\ Calling /\ New(c, k, Nil, 0)
  /\ IF k = "tick" THEN ticks' = Append(ticks, c) /\ UNCHANGED micros
                   ELSE micros' = Append(micros, c) /\ UNCHANGED ticks
  /\ UNCHANGED <<timerVars, immVars, taskVars, mainVars>>

\* setImmediate.
SetImmediate(c) ==
  /\ Calling /\ life[c] = "free"
  /\ life' = [life EXCEPT ![c] = "live"]
  /\ work' = [work EXCEPT ![c] = Numbered([Unused EXCEPT !.kind = "imm"])]
  /\ imms' = Append(imms, c) /\ ids' = ids + 1
  /\ UNCHANGED <<jobVars, armed, at, due, fresh, lag, clocked, batch, taskVars, mainVars>>

\* setTimeout and setInterval.
SetTimer(c, k, d) ==
  /\ Calling /\ life[c] = "free"
  /\ life' = [life EXCEPT ![c] = "live"]
  /\ work' = [work EXCEPT ![c] = Numbered([Unused EXCEPT !.kind = k, !.delay = d])]
  /\ Arm(c, d) /\ ids' = ids + 1
  /\ UNCHANGED <<jobVars, immVars, taskVars, mainVars>>

\* The main thread holds a handle of the timer or immediate c.
HasHandle(c) == Calling /\ work[c].by = Nil /\ work[c].id > 0

\* clearTimeout / clearInterval.  A one-shot timer that is running only
\* loses its slot; a running interval will not be appended again.
ClearTimeout(c) ==
  /\ HasHandle(c) /\ c \in armed
  /\ armed' = armed \ {c}
  /\ at'    = [at EXCEPT ![c] = 0]
  /\ life'  = IF running = c /\ work[c].kind = "timeout" THEN life
              ELSE [life EXCEPT ![c] = "cancelled"]
  /\ UNCHANGED <<work, jobVars, due, fresh, lag, clocked, ids, immVars, taskVars, mainVars>>

\* clearImmediate: the slot stays, its callback is dropped.
ClearImmediate(c) ==
  /\ HasHandle(c) /\ \E i \in 1..Len(imms) : imms[i] = c
  /\ life[c] = "live"
  /\ life' = [life EXCEPT ![c] = "cancelled"]
  /\ UNCHANGED <<work, jobVars, timerVars, immVars, taskVars, mainVars>>

\* ref() and unref() of a timer, unref() of an immediate.
SetRefed(c, refed) ==
  /\ HasHandle(c) /\ work[c].refed # refed
  /\ c \in armed \/ (~refed /\ \E i \in 1..Len(imms) : imms[i] = c)
  /\ work' = [work EXCEPT ![c].refed = refed]
  /\ UNCHANGED <<life, jobVars, timerVars, immVars, taskVars, mainVars>>
-----------------------------------------------------------------------------
\* a can call dispatch.async: the main thread, or a running task, that is not
\* already inside such a call.
MayDispatch(a) ==
  /\ IF a = Nil THEN Calling ELSE task[a] = "running"
  /\ \A t \in Cb : ~(task[t] = "counted" /\ work[t].by = a)

\* dispatch.async / after / barrier: count the task and keep its envelope
\* alive; only then give it to libdispatch.
DispatchAsync(a, t) ==
  /\ MayDispatch(a) /\ New(t, "task", a, 0)
  /\ outstanding' = outstanding + 1
  /\ inflight' = inflight \cup {t}
  /\ task' = [task EXCEPT ![t] = "counted"]
  /\ UNCHANGED <<jobVars, timerVars, immVars, cross, mainVars>>

DispatchEnqueue(t) ==
  /\ task[t] = "counted"
  /\ task' = [task EXCEPT ![t] = "queued"]
  /\ UNCHANGED <<work, life, jobVars, timerVars, immVars, cross, outstanding, inflight,
                 mainVars>>

\* Mutant: the envelope is released when the task starts.
TaskUnrooted(t) ==
  /\ task[t] = "queued"
  /\ task' = [task EXCEPT ![t] = "running"]
  /\ inflight' = inflight \ {t}
  /\ UNCHANGED <<work, life, jobVars, timerVars, immVars, cross, outstanding, mainVars>>

\* libdispatch starts the task on a worker thread.
TaskStarts(t) ==
  /\ task[t] = "queued"
  /\ task' = [task EXCEPT ![t] = "running"]
  /\ UNCHANGED <<work, life, jobVars, timerVars, immVars, cross, outstanding, inflight,
                 mainVars>>

\* A task schedules a callback: off the main thread it is posted.
Post(t, c, k, d) ==
  /\ task[t] = "running" /\ New(c, k, t, d)
  /\ \A x \in Cb : ~(task[x] = "counted" /\ work[x].by = t)
  /\ cross' = Append(cross, c) /\ place' = Woken
  /\ UNCHANGED <<jobVars, timerVars, immVars, outstanding, inflight, task, cont, running,
                 untimed>>

\* ... except setInterval, which is not posted: it arms a timer of the worker
\* thread's own agent, whose queues no loop drains.
SetIntervalOffMain(t, c) ==
  /\ task[t] = "running" /\ life[c] = "free"
  /\ \A x \in Cb : ~(task[x] = "counted" /\ work[x].by = t)
  /\ life' = [life EXCEPT ![c] = "stranded"]
  /\ UNCHANGED <<work, jobVars, timerVars, immVars, taskVars, mainVars>>

\* The trampoline posts the completion, then forgets the envelope.
TaskSettles(t) ==
  /\ task[t] = "running"
  /\ \A x \in Cb : ~(task[x] = "counted" /\ work[x].by = t)
  /\ task'  = [task EXCEPT ![t] = "leaving"]
  /\ cross' = Append(cross, t) /\ place' = Woken
  /\ UNCHANGED <<work, life, jobVars, timerVars, immVars, outstanding, inflight, cont,
                 running, untimed>>

TaskLeaves(t) ==
  /\ task[t] = "leaving"
  /\ task' = [task EXCEPT ![t] = "over"]
  /\ inflight' = inflight \ {t}
  /\ UNCHANGED <<work, life, jobVars, timerVars, immVars, cross, outstanding, mainVars>>
-----------------------------------------------------------------------------
Go(p)   == place' = p /\ UNCHANGED <<cont, running, untimed>>
DrainThen(p) == place' = "drain" /\ cont' = p /\ UNCHANGED <<running, untimed>>
Start(c) == running' = c /\ UNCHANGED <<cont, untimed>>

\* The top of the loop.
LoopTop ==
  /\ At("head")
  /\ Go(IF ticks # <<>> \/ micros # <<>> \/ Referenced THEN "cross" ELSE "exit")
  /\ UNCHANGED <<work, life, jobVars, timerVars, immVars, taskVars>>

\* Mutant: every entry counts as a settlement.
CountedDownAlways(c) == IF outstanding > 0 THEN outstanding - 1 ELSE 0

CountedDown(c) ==
  IF work[c].kind = "task" /\ outstanding > 0 THEN outstanding - 1 ELSE outstanding

\* tsc_drain_cross_queue, one entry: settle the task's promise, whose
\* reaction becomes a microtask, or hand the callback to its own queue.
TakeCross ==
  /\ At("cross") /\ cross # <<>>
  /\ LET c == Head(cross)
         k == work[c].kind
     IN  /\ outstanding' = CountedDown(c)
         /\ ticks'  = IF k = "tick" THEN Append(ticks, c) ELSE ticks
         /\ micros' = IF k \in {"micro", "task"} THEN Append(micros, c) ELSE micros
         /\ imms'   = IF k = "imm" THEN Append(imms, c) ELSE imms
         /\ IF k \in {"imm", "timeout"}
            THEN work' = [work EXCEPT ![c] = Numbered(@)] /\ ids' = ids + 1
            ELSE UNCHANGED <<work, ids>>
         /\ IF k = "timeout" THEN Arm(c, work[c].delay)
            ELSE UNCHANGED <<armed, at, due, fresh, lag, clocked>>
  /\ cross' = Tail(cross)
  /\ UNCHANGED <<life, batch, inflight, task, mainVars>>

CrossEmpty ==
  /\ At("cross") /\ cross = <<>>
  /\ DrainThen("check")
  /\ UNCHANGED <<work, life, jobVars, timerVars, immVars, taskVars>>

\* tsc_drain_microtasks_and_next_ticks: a queue once begun is emptied, with
\* whatever is appended meanwhile; next ticks are preferred.
RunTick ==
  /\ running = Nil /\ place \in Drains
  /\ ticks # <<>> /\ (place = "micro" => micros = <<>>)
  /\ Start(Head(ticks)) /\ ticks' = Tail(ticks) /\ place' = "tick"
  /\ UNCHANGED <<work, life, micros, timerVars, immVars, taskVars>>

RunMicrotask ==
  /\ running = Nil /\ place \in Drains
  /\ micros # <<>> /\ (ticks = <<>> \/ place = "micro")
  /\ Start(Head(micros)) /\ micros' = Tail(micros) /\ place' = "micro"
  /\ UNCHANGED <<work, life, ticks, timerVars, immVars, taskVars>>

DrainEnds ==
  /\ running = Nil /\ place \in Drains /\ ticks = <<>> /\ micros = <<>>
  /\ place' = cont /\ cont' = "none"
  /\ UNCHANGED <<work, life, jobVars, timerVars, immVars, taskVars, running, untimed>>

\* After the drain: leave, begin a timer phase, or go on to the immediates.
\* The phase takes the entries that are due by a fresh reading of the clock.
Check ==
  /\ At("check")
  /\ IF ~Referenced THEN Go("exit") /\ UNCHANGED timerVars
     ELSE IF \A c \in armed : at[c] > lag THEN Go("imms") /\ UNCHANGED timerVars
     ELSE /\ Go("ready")
          /\ at' = [c \in Cb |-> IF c \in armed THEN at[c] - lag ELSE 0]
          /\ due' = {c \in armed : at[c] <= lag}
          /\ fresh' = <<>> /\ lag' = 0
          /\ UNCHANGED <<armed, clocked, ids>>
  /\ UNCHANGED <<work, life, jobVars, immVars, taskVars>>

\* Mutant: ties are broken the other way round.
SoonerOrNewer(c, x) == at[c] < at[x] \/ (at[c] = at[x] /\ work[c].id >= work[x].id)

\* The order of a timer phase: by deadline, then by creation.
Sooner(c, x) == at[c] < at[x] \/ (at[c] = at[x] /\ work[c].id <= work[x].id)

RunTimer ==
  /\ At("ready")
  /\ \E c \in due \cap armed :
       /\ \A x \in due \cap armed : Sooner(c, x)
       /\ Start(c) /\ due' = due \ {c}
  /\ UNCHANGED <<work, life, jobVars, armed, at, fresh, lag, clocked, ids, immVars, taskVars, place>>

TimersEnd ==
  /\ At("ready") /\ due \cap armed = {}
  /\ DrainThen("late") /\ due' = {}
  /\ UNCHANGED <<work, life, jobVars, armed, at, fresh, lag, clocked, ids, immVars, taskVars>>

\* The second pass of the phase: intervals appended during it that are due
\* again at once.
LateInterval ==
  /\ At("late") /\ fresh # <<>>
  /\ LET c == Head(fresh)
     IN  IF c \in armed /\ work[c].kind = "interval" /\ at[c] <= 0
         THEN Start(c) /\ UNCHANGED place ELSE UNCHANGED mainVars
  /\ fresh' = Tail(fresh)
  /\ UNCHANGED <<work, life, jobVars, armed, at, due, lag, clocked, ids, immVars, taskVars>>

LateEnds ==
  /\ At("late") /\ fresh = <<>>
  /\ DrainThen("imms")
  /\ UNCHANGED <<work, life, jobVars, timerVars, immVars, taskVars>>

\* tsc_drain_immediates runs a snapshot; later ones wait for the next turn.
Immediates ==
  /\ At("imms")
  /\ batch' = Len(imms)
  /\ Go(IF imms = <<>> THEN "bottom" ELSE "imm")
  /\ UNCHANGED <<work, life, jobVars, timerVars, imms, taskVars>>

RunImmediate ==
  /\ At("imm") /\ batch > 0
  /\ imms' = Tail(imms) /\ batch' = batch - 1
  /\ IF life[Head(imms)] = "live" THEN Start(Head(imms)) /\ UNCHANGED place
     ELSE DrainThen("imm")
  /\ UNCHANGED <<work, life, jobVars, timerVars, taskVars>>

\* Mutant: the appended suffix is cleared with the drained prefix.
ImmediatesForgotten ==
  /\ At("imm") /\ batch = 0
  /\ imms' = <<>>
  /\ DrainThen("bottom")
  /\ UNCHANGED <<work, life, jobVars, timerVars, batch, taskVars>>

ImmediatesEnd ==
  /\ At("imm") /\ batch = 0
  /\ DrainThen("bottom")
  /\ UNCHANGED <<work, life, jobVars, timerVars, immVars, taskVars>>

\* Mutant: the wait has no deadline.
BottomForever ==
  /\ At("bottom")
  /\ IF imms = <<>> /\ (armed # {} \/ outstanding > 0 \/ cross # <<>>)
     THEN place' = "idle" /\ untimed' = TRUE /\ UNCHANGED <<cont, running>>
     ELSE Go("head")
  /\ UNCHANGED <<work, life, jobVars, timerVars, immVars, taskVars>>

\* Nothing is queued: wait for a post or for the next deadline.
Bottom ==
  /\ At("bottom")
  /\ IF imms = <<>> /\ (armed # {} \/ outstanding > 0 \/ cross # <<>>)
     THEN place' = "idle" /\ untimed' = (armed = {}) /\ UNCHANGED <<cont, running>>
     ELSE Go("head")
  /\ UNCHANGED <<work, life, jobVars, timerVars, immVars, taskVars>>

\* Mutant: the queue was looked at before the mutex was taken.
IdleUnchecked ==
  /\ At("idle") /\ Go("sleep")
  /\ UNCHANGED <<work, life, jobVars, timerVars, immVars, taskVars>>

\* tsc_loop_idle_wait, under g_loop_mutex.
Idle ==
  /\ At("idle")
  /\ \/ cross = <<>> /\ Go("sleep")
     \/ (cross # <<>> \/ \E c \in armed : at[c] <= lag) /\ Go("head")
  /\ UNCHANGED <<work, life, jobVars, timerVars, immVars, taskVars>>

\* The wait ends: at its deadline, or spuriously.
Wake ==
  /\ At("sleep") /\ Go("head")
  /\ UNCHANGED <<work, life, jobVars, timerVars, immVars, taskVars>>
-----------------------------------------------------------------------------
\* Mutant: an interval is appended again although its callback cleared it.
StillOnAnyway(c) == work[c].kind = "interval"

\* The interval c goes on after its callback.
StillOn(c) == work[c].kind = "interval" /\ c \in armed

\* Mutant: the jobs of an immediate wait for the end of the phase.
AfterCallbackLazy == IF place = "imm" THEN "imm" ELSE "drain"

AfterCallback == "drain"

\* A callback of the main thread ends.  An interval that was not cleared is
\* appended again; timers and immediates are followed by a drain.
CallbackEnds ==
  /\ running # Nil
  /\ \A t \in Cb : ~(task[t] = "counted" /\ work[t].by = Nil)
  /\ LET c == running
     IN  IF place \in {"ready", "late"} /\ StillOn(c)
         THEN Arm(c, work[c].delay) /\ UNCHANGED <<life, ids>>
         ELSE /\ life' = [life EXCEPT ![c] = IF @ = "live" THEN "done" ELSE @]
              /\ armed' = armed \ {c} /\ at' = [at EXCEPT ![c] = 0]
              /\ UNCHANGED <<due, fresh, lag, clocked, ids>>
  /\ running' = Nil
  /\ IF place \in {"tick", "micro"} THEN UNCHANGED <<place, cont>>
     ELSE /\ place' = AfterCallback
          /\ cont' = IF AfterCallback = "drain" THEN place ELSE cont
  /\ UNCHANGED <<work, jobVars, immVars, taskVars, untimed>>

ScriptEnds ==
  /\ At("script") /\ Go("head")
  /\ \A t \in Cb : ~(task[t] = "counted" /\ work[t].by = Nil)
  /\ UNCHANGED <<work, life, jobVars, timerVars, immVars, taskVars>>

\* Real time passes.
Elapse ==
  /\ clocked /\ lag < MaxLag /\ lag' = lag + 1
  /\ UNCHANGED <<work, life, jobVars, armed, at, due, fresh, clocked, ids, immVars, taskVars, mainVars>>
-----------------------------------------------------------------------------
Loop == \/ LoopTop \/ TakeCross \/ CrossEmpty \/ RunTick \/ RunMicrotask \/ DrainEnds
        \/ Check \/ RunTimer \/ TimersEnd \/ LateInterval \/ LateEnds
        \/ Immediates \/ RunImmediate \/ ImmediatesEnd \/ Bottom \/ Idle

\* The steps of the thread that runs, or was asked to run, the task t.
Worker(t) == DispatchEnqueue(t) \/ TaskStarts(t) \/ TaskSettles(t) \/ TaskLeaves(t)

MainProgram ==
  \E c \in Cb :
    \/ \E k \in Kind \cap {"tick", "micro"} : Enqueue(c, k)
    \/ "imm" \in Kind /\ SetImmediate(c)
    \/ "timeout" \in Kind /\ \E d \in TimeoutDelay : SetTimer(c, "timeout", d)
    \/ "interval" \in Kind /\ \E d \in IntervalDelay : SetTimer(c, "interval", d)
    \/ "task" \in Kind /\ DispatchAsync(Nil, c)
    \/ ClearTimeout(c) \/ ClearImmediate(c) \/ \E r \in BOOLEAN : SetRefed(c, r)

TaskProgram ==
  \E t, c \in Cb :
    \/ \E k \in Kind \cap {"tick", "micro", "imm"} : Post(t, c, k, 0)
    \/ "timeout" \in Kind /\ \E d \in TimeoutDelay : Post(t, c, "timeout", d)
    \/ "interval" \in Kind /\ SetIntervalOffMain(t, c)
    \/ DispatchAsync(t, c)

Next == \/ Loop \/ CallbackEnds \/ ScriptEnds \/ Wake \/ Elapse
        \/ MainProgram \/ TaskProgram \/ \E t \in Cb : Worker(t)

Spec == Init /\ [][Next]_vars
-----------------------------------------------------------------------------
Record == [kind : Kinds \cup {"none"}, by : Cb \cup {Nil}, delay : Nat, id : Nat,
           refed : BOOLEAN]

TypeOK ==
  /\ work \in [Cb -> Record]
  /\ life \in [Cb -> {"free", "live", "done", "cancelled", "stranded"}]
  /\ ticks \in Seq(Cb) /\ micros \in Seq(Cb) /\ imms \in Seq(Cb) /\ cross \in Seq(Cb)
  /\ batch \in 0..Len(imms)
  /\ armed \subseteq Cb /\ due \subseteq Cb /\ fresh \in Seq(Cb)
  /\ at \in [Cb -> Int] /\ lag \in 0..MaxLag /\ clocked \in BOOLEAN /\ ids \in Nat
  /\ outstanding \in Nat /\ inflight \subseteq Cb
  /\ task \in [Cb -> {"none", "counted", "queued", "running", "leaving", "over"}]
  /\ place \in Places /\ cont \in Places \cup {"none"}
  /\ running \in Cb \cup {Nil} /\ untimed \in BOOLEAN

Count(s, c) == Cardinality({i \in 1..Len(s) : s[i] = c})
One(b) == IF b THEN 1 ELSE 0

\* How often c is held by a queue, by libdispatch or by the main thread.
Holders(c) ==
  Count(cross, c) + Count(ticks, c) + Count(micros, c) + Count(imms, c)
    + One(c \in armed \/ running = c) + One(task[c] \in {"counted", "queued", "running"})

\* Nothing that was scheduled, on the main thread or from a worker, is lost,
\* doubled or left in two queues on its way to its one run (intervals set by
\* a worker apart, which SetIntervalOffMain strands).
WorkConserved ==
  \A c \in Cb : /\ life[c] = "live" => Holders(c) = 1
                /\ life[c] \in {"free", "done", "stranded"} => Holders(c) = 0

\* g_dispatch_outstanding counts exactly the tasks whose promise the main
\* thread has still to settle.
OutstandingExact ==
  outstanding = Cardinality({t \in Cb : \/ task[t] \in {"counted", "queued", "running"}
                                        \/ work[t].kind = "task" /\ Count(cross, t) > 0})

\* From its dispatch to its reaction a task is always reachable for the
\* collector: through the registry, the cross-thread queue or the job queue.
TaskRooted ==
  \A t \in Cb : work[t].kind = "task" /\ life[t] = "live" =>
    t \in inflight \/ Count(cross, t) + Count(micros, t) > 0 \/ running = t

\* The process exits only when no task, post, job or referenced timer or
\* immediate is left.
ExitIsQuiescent ==
  place = "exit" =>
    /\ cross = <<>> /\ ticks = <<>> /\ micros = <<>>
    /\ \A c \in Cb : /\ task[c] \in {"none", "leaving", "over"}
                     /\ life[c] = "live" => ~work[c].refed

\* The loop never sleeps on a post it has not seen, and sleeps without a
\* deadline only while a task will still post.
SleepIsSafe ==
  place = "sleep" => cross = <<>> /\ (untimed => armed = {} /\ outstanding > 0)

\* The callback that starts in this step, on the main thread.
Starts(c) == running # c /\ running' = c

\* A cleared timer, interval or immediate never runs again, even when it is
\* cleared by its own callback, or in the phase that already selected it.
CancelledStaysSilent == [][\A c \in Cb : Starts(c) => life[c] = "live"]_vars

\* A timer or immediate callback starts only when the jobs queued by the
\* callbacks before it have all run.
JobsFirst ==
  [][\A c \in Cb : Starts(c) /\ work[c].kind \in {"imm", "timeout", "interval"}
       => ticks = <<>> /\ micros = <<>>]_vars

\* A timer never runs before its deadline, and among the timers that were
\* set before the phase the earlier deadline, then the older timer, is first.
TimersInOrder ==
  [][\A c \in Cb : Starts(c) /\ c \in armed =>
       /\ at[c] <= 0
       /\ place = "ready" => \A x \in armed : ~(\E i \in 1..Len(fresh) : fresh[i] = x) =>
            at[c] < at[x] \/ (at[c] = at[x] /\ work[c].id <= work[x].id)]_vars
-----------------------------------------------------------------------------
\* Fairness: the main thread and the workers keep running, callbacks, scripts
\* and tasks end, time passes, and a wait with a deadline ends.
Fairness ==
  /\ WF_vars(Loop) /\ WF_vars(CallbackEnds) /\ WF_vars(ScriptEnds)
  /\ WF_vars(Elapse) /\ WF_vars(~untimed /\ Wake)
  /\ \A t \in Cb : WF_vars(Worker(t))

FairSpec == Spec /\ Fairness

\* The loop is in the second pass of a timer phase, over an interval of delay
\* zero that was not cleared.
Overrun ==
  /\ "late" \in {place, cont}
  /\ \E i \in armed : work[i].kind = "interval" /\ work[i].delay = 0 /\ life[i] = "live"

\* The promise of a dispatched task is settled and its reaction runs, unless
\* an interval of delay zero keeps the loop in one timer phase for ever.
TaskCompletes == <>[]Overrun \/ \A t \in Cb : task[t] = "counted" ~> life[t] = "done"

\* An armed timer runs or is cleared, unless the process ends first.  Nothing
\* starves it except an interval of delay zero that is never cleared.
TimersRun ==
  <>[]Overrun \/ \A c \in Cb : c \in armed ~> running = c \/ c \notin armed \/ place = "exit"
=============================================================================
