----------------------------- MODULE AtomicsWait -----------------------------
(***************************************************************************)
(* The waiter records behind Atomics.wait, Atomics.waitAsync and           *)
(* Atomics.notify (runtime/tsc_atomics_wait.c), the operation that calls   *)
(* them (runtime/tsc_atomics.c) and the part of every agent's event loop   *)
(* that delivers asynchronous completions (runtime/tsc_core.c).            *)
(*                                                                         *)
(* Several agents (threads) share one list of pending records, waiting,    *)
(* and one list of completed asynchronous records, ready, both guarded by  *)
(* waiter_mutex.  Script runs only while its agent owns the runtime mutex. *)
(* A critical section that changes one record is one action; one that      *)
(* changes several (notify, schedule_completions, abandon) is one action   *)
(* per record, taken while wmutex names the agent.  Clocks are abstracted: *)
(* a finite timeout may be found expired at any time.                      *)
(***************************************************************************)
EXTENDS Integers, Sequences, FiniteSets

CONSTANTS
  Agent,     \* the main agent and the workers
  Main,      \* the agent that owns the workers and tears them down
  CanBlock,  \* the agents whose policy admits Atomics.wait
  Loc,       \* (shared block, byte offset) pairs
  Value,     \* contents of a shared word
  Waiter,    \* identities of waiter records; each is allocated at most once
  MaxCount,  \* largest finite count given to Atomics.notify (a bound)
  Nil        \* the null pointer: no owner, no record, released payload

ASSUME AgentAssumption ==
  /\ Main \in Agent
  /\ CanBlock \subseteq Agent
  /\ Nil \notin Agent \cup Waiter \cup Loc \cup Value
ASSUME CountAssumption == MaxCount \in Nat

VARIABLES
  word,      \* shared memory
  rec,       \* waiter records
  waiting,   \* waiting_head .. waiting_tail: pending records, oldest first
  ready,     \* ready_head .. ready_tail: completed asynchronous records
  wmutex,    \* owner of waiter_mutex between the steps of a long section
  rlock,     \* owner of g_runtime_mutex
  pc,        \* where each agent is
  ret,       \* where a nested call of the agent returns to
  cur,       \* the record the agent waits on (Atomics.wait)
  call,      \* arguments of the agent's Atomics.notify in progress
  jobs,      \* resolve_waiter microtasks queued on each agent, oldest first
  timers,    \* records whose timeout timer is armed, per agent
  held,      \* agent->held (or another referenced event source)
  torn,      \* workers that teardown has already abandoned
  tgt,       \* the worker Main is abandoning
  outcome,   \* what the program sees of each record
  published  \* history: the last change of the word was followed by a
             \* completed Atomics.notify of every waiter

memVars  == <<word, published>>
listVars == <<waiting, ready, rec>>
ctlVars  == <<wmutex, rlock, pc, ret>>
loopVars == <<jobs, timers, held>>
tearVars == <<torn, tgt>>
vars == <<memVars, listVars, ctlVars, loopVars, tearVars, cur, call, outcome>>
-----------------------------------------------------------------------------
Timeouts == {"zero", "finite", "inf"}
Terminal == {"ok", "timed-out"}
Statuses == {"free", "pending", "not-equal"} \cup Terminal
Records  == [status : Statuses, async : BOOLEAN, agent : Agent \cup {Nil},
             loc : Loc \cup {Nil}, expected : Value \cup {Nil}, timeout : Timeouts]
NoCall   == [loc |-> Nil, left |-> 0, all |-> FALSE, any |-> FALSE]
Outcomes == {"none", "promise", "not-equal"} \cup Terminal
Script   == {"js", "job"}
Places   == Script \cup {"wait", "asleep", "notify", "wake", "unheld", "abandon",
              "sched", "loop", "drain", "idle", "sleep", "resume", "cleanup", "done"}

\* The records on a list.
Members(s) == {s[i] : i \in 1..Len(s)}

\* Mutant: the walk keeps the last match.
Newest(s, S) == s[CHOOSE i \in 1..Len(s) :
                    s[i] \in S /\ \A j \in (i + 1)..Len(s) : s[j] \notin S]

\* The oldest record of s that is in S (the forward walk of every loop).
Oldest(s, S) == s[CHOOSE i \in 1..Len(s) :
                    s[i] \in S /\ \A j \in 1..(i - 1) : s[j] \notin S]

\* s without the record w: the link of the predecessor is redirected.
Unlink(s, w) ==
  LET at == CHOOSE i \in 1..Len(s) : s[i] = w
  IN  [i \in 1..(Len(s) - 1) |-> IF i < at THEN s[i] ELSE s[i + 1]]

\* Mutant: records are taken whatever agent they belong to.
OfAnyone(a) == Waiter

At(l)  == {w \in Waiter : rec[w].loc = l}
Of(a)  == {w \in Waiter : rec[w].agent = a}

\* release_payload: a record keeps nothing but its status.
Released(st) == [status |-> st, async |-> FALSE, agent |-> Nil, loc |-> Nil,
                 expected |-> Nil, timeout |-> "inf"]

\* The agents inside pthread_cond_wait(p) continue at q after a broadcast.
Broadcast(p, q) == [b \in Agent |-> IF pc[b] = p THEN q ELSE pc[b]]

\* Mutant: the record gets its status and stays linked.
CompleteLinked(w, st) ==
  /\ rec' = [rec EXCEPT ![w] = [Released(st) EXCEPT !.async = rec[w].async,
                                                    !.agent = rec[w].agent]]
  /\ ready' = IF rec[w].async THEN Append(ready, w) ELSE ready
  /\ UNCHANGED waiting

\* complete_locked: the only transition out of "pending".  It unlinks the
\* record, publishes an asynchronous one on ready and broadcasts.
CompleteLocked(w, st) ==
  /\ waiting' = Unlink(waiting, w)
  /\ rec'     = [rec EXCEPT ![w] = [Released(st) EXCEPT !.async = rec[w].async,
                                                        !.agent = rec[w].agent]]
  /\ ready'   = IF rec[w].async THEN Append(ready, w) ELSE ready

\* Mutant: no broadcast.
NoBroadcast == pc

Woken == Broadcast("asleep", "wait")

\* A script operation of a: the agent owns the runtime mutex.
Running(a) == rlock = a /\ pc[a] \in Script
-----------------------------------------------------------------------------
Init ==
  /\ word    \in [Loc -> Value]
  /\ rec     = [w \in Waiter |-> Released("free")]
  /\ waiting = <<>> /\ ready = <<>>
  /\ wmutex  = Nil /\ rlock = Nil
  /\ pc      = [a \in Agent |-> "resume"]
  /\ ret     = [a \in Agent |-> "js"]
  /\ cur     = [a \in Agent |-> Nil]
  /\ call    = [a \in Agent |-> NoCall]
  /\ jobs    = [a \in Agent |-> <<>>]
  /\ timers  = [a \in Agent |-> {}]
  /\ held    = [a \in Agent |-> TRUE]
  /\ torn    = {} /\ tgt = Main
  /\ outcome = [w \in Waiter |-> "none"]
  /\ published = [l \in Loc |-> TRUE]
-----------------------------------------------------------------------------
\* tsc_runtime_resume / tsc_runtime_lock: continue at ret once the mutex is free.
Resume(a) ==
  /\ pc[a] = "resume" /\ rlock = Nil
  /\ rlock' = a
  /\ pc'    = [pc EXCEPT ![a] = ret[a]]
  /\ ret'   = [ret EXCEPT ![a] = "js"]
  /\ UNCHANGED <<memVars, listVars, wmutex, loopVars, tearVars, cur, call, outcome>>

\* Every access to shared storage first gives up the runtime mutex
\* (tsc_agent_checkpoint), so other agents run in the middle of a script.
Checkpoint(a) ==
  /\ Running(a)
  /\ ret'   = [ret EXCEPT ![a] = pc[a]]
  /\ pc'    = [pc EXCEPT ![a] = "resume"]
  /\ rlock' = Nil
  /\ UNCHANGED <<memVars, listVars, wmutex, loopVars, tearVars, cur, call, outcome>>

\* A store to a shared word by script, after its checkpoint.
Store(a, l, v) ==
  /\ Running(a) /\ v # word[l]
  /\ word'      = [word EXCEPT ![l] = v]
  /\ published' = [published EXCEPT ![l] = FALSE]
  /\ UNCHANGED <<listVars, ctlVars, loopVars, tearVars, cur, call, outcome>>

\* Mutant: the comparison is left to the caller, outside waiter_mutex.
BeginUnchecked(read, expected, async, t) ==
  IF async /\ t = "zero" THEN "timed-out" ELSE "pending"

\* The status tsc_atomic_waiter_begin gives a record.
BeginStatus(read, expected, async, t) ==
  IF read # expected THEN "not-equal"
  ELSE IF async /\ t = "zero" THEN "timed-out" ELSE "pending"

\* tsc_atomic_waiter_begin: compare under waiter_mutex, then fail, time out
\* (asynchronous, zero) or enqueue; the caller suspends or schedules.
BeginWait(a, w, async, l, v, t) ==
  /\ Running(a) /\ wmutex = Nil
  /\ rec[w].status = "free"
  /\ async \/ a \in CanBlock
  /\ LET status == BeginStatus(word[l], v, async, t)
     IN  /\ rec' = [rec EXCEPT ![w] = IF status # "pending" THEN Released(status) ELSE
                      [status |-> status, async |-> async, agent |-> a,
                       loc |-> l, expected |-> v, timeout |-> t]]
         /\ waiting' = IF status = "pending" THEN Append(waiting, w) ELSE waiting
         /\ outcome' = [outcome EXCEPT ![w] = IF status # "pending" THEN status
                                              ELSE IF async THEN "promise" ELSE "none"]
         /\ timers'  = IF status = "pending" /\ async /\ t = "finite"
                       THEN [timers EXCEPT ![a] = @ \cup {w}] ELSE timers
         /\ IF status # "pending" THEN UNCHANGED <<pc, rlock, ret, cur>>
            ELSE /\ ret' = [ret EXCEPT ![a] = pc[a]]
                 /\ pc'  = [pc EXCEPT ![a] = IF async THEN "sched" ELSE "wait"]
                 /\ rlock' = IF async THEN rlock ELSE Nil
                 /\ cur' = IF async THEN cur ELSE [cur EXCEPT ![a] = w]
  /\ UNCHANGED <<memVars, ready, wmutex, jobs, held, tearVars, call>>

\* Mutant: a wait that was notified reports a timeout.
ReturnsTimedOut(a) ==
  /\ pc[a] = "wait" /\ wmutex = Nil /\ rec[cur[a]].status # "pending"
  /\ outcome' = [outcome EXCEPT ![cur[a]] = "timed-out"]
  /\ rec'     = [rec EXCEPT ![cur[a]] = Released(@.status)]
  /\ cur'     = [cur EXCEPT ![a] = Nil]
  /\ pc'      = [pc EXCEPT ![a] = "resume"]
  /\ UNCHANGED <<memVars, waiting, ready, wmutex, rlock, ret, loopVars, tearVars, call>>

\* tsc_atomic_waiter_suspend, one turn of its loop: leave with the final
\* status, or time out, or sleep on waiter_condition.
SuspendReturns(a) ==
  /\ pc[a] = "wait" /\ wmutex = Nil /\ rec[cur[a]].status # "pending"
  /\ outcome' = [outcome EXCEPT ![cur[a]] = rec[cur[a]].status]
  /\ rec'     = [rec EXCEPT ![cur[a]] = Released(@.status)]
  /\ cur'     = [cur EXCEPT ![a] = Nil]
  /\ pc'      = [pc EXCEPT ![a] = "resume"]
  /\ UNCHANGED <<memVars, waiting, ready, wmutex, rlock, ret, loopVars, tearVars, call>>

SuspendTimesOut(a) ==
  /\ pc[a] = "wait" /\ wmutex = Nil /\ rec[cur[a]].status = "pending"
  /\ rec[cur[a]].timeout # "inf"
  /\ CompleteLocked(cur[a], "timed-out")
  /\ pc' = Woken
  /\ UNCHANGED <<memVars, wmutex, rlock, ret, loopVars, tearVars, cur, call, outcome>>

SuspendSleeps(a) ==
  /\ pc[a] = "wait" /\ wmutex = Nil /\ rec[cur[a]].status = "pending"
  /\ rec[cur[a]].timeout # "zero"
  /\ pc' = [pc EXCEPT ![a] = "asleep"]
  /\ UNCHANGED <<memVars, listVars, wmutex, rlock, ret, loopVars, tearVars, cur, call, outcome>>

\* pthread_cond_wait may return without a broadcast; a timed wait does so
\* when its slice ends.
CondReturns(a) ==
  /\ pc[a] \in {"asleep", "sleep"}
  /\ IF pc[a] = "asleep"
     THEN pc' = [pc EXCEPT ![a] = "wait"] /\ UNCHANGED ret
     ELSE pc' = [pc EXCEPT ![a] = "resume"] /\ ret' = [ret EXCEPT ![a] = "loop"]
  /\ UNCHANGED <<memVars, listVars, wmutex, rlock, loopVars, tearVars, cur, call, outcome>>
-----------------------------------------------------------------------------
\* tsc_atomic_waiter_notify: lock, wake the oldest matching records one by
\* one, unlock, wake the event loops if any record was completed.
NotifyBegin(a, l, n, all) ==
  /\ Running(a) /\ wmutex = Nil
  /\ wmutex' = a
  /\ ret'    = [ret EXCEPT ![a] = pc[a]]
  /\ pc'     = [pc EXCEPT ![a] = "notify"]
  /\ call'   = [call EXCEPT ![a] = [loc |-> l, left |-> n, all |-> all, any |-> FALSE]]
  /\ UNCHANGED <<memVars, listVars, rlock, loopVars, tearVars, cur, outcome>>

NotifyMore(a) == /\ call[a].all \/ call[a].left > 0
                 /\ Members(waiting) \cap At(call[a].loc) # {}

\* Mutant: an unlimited count is counted down too.
CountedDown(c) == [loc |-> c.loc, left |-> c.left - 1, all |-> c.all, any |-> TRUE]

\* One more record notified.
Counted(c) == [loc |-> c.loc, left |-> IF c.all THEN c.left ELSE c.left - 1,
               all |-> c.all, any |-> TRUE]

NotifyStep(a) ==
  /\ pc[a] = "notify" /\ NotifyMore(a)
  /\ CompleteLocked(Oldest(waiting, At(call[a].loc)), "ok")
  /\ pc'   = Woken
  /\ call' = [call EXCEPT ![a] = Counted(@)]
  /\ UNCHANGED <<memVars, wmutex, rlock, ret, loopVars, tearVars, cur, outcome>>

\* Mutant: the event loops are not woken.
NotifyEndsSilently(a) ==
  /\ pc[a] = "notify" /\ ~NotifyMore(a)
  /\ wmutex' = Nil
  /\ pc'     = [pc EXCEPT ![a] = "sched"]
  /\ call'   = [call EXCEPT ![a] = NoCall]
  /\ published' = IF call[a].all THEN [published EXCEPT ![call[a].loc] = TRUE]
                  ELSE published
  /\ UNCHANGED <<word, listVars, rlock, ret, loopVars, tearVars, cur, outcome>>

NotifyEnd(a) ==
  /\ pc[a] = "notify" /\ ~NotifyMore(a)
  /\ wmutex' = Nil
  /\ pc'     = [pc EXCEPT ![a] = IF call[a].any THEN "wake" ELSE "sched"]
  /\ call'   = [call EXCEPT ![a] = NoCall]
  /\ published' = IF call[a].all THEN [published EXCEPT ![call[a].loc] = TRUE]
                  ELSE published
  /\ UNCHANGED <<word, listVars, rlock, ret, loopVars, tearVars, cur, outcome>>

\* Mutant: nobody is signalled.
WakeNobody(a, next, back) ==
  pc' = [pc EXCEPT ![a] = next] /\ ret' = [ret EXCEPT ![a] = back]

\* tsc_runtime_wake_event_loop: every event loop asleep on g_loop_cond
\* returns from its idle wait.
WakeLoops(a, next, back) ==
  /\ pc'  = [Broadcast("sleep", "resume") EXCEPT ![a] = next]
  /\ ret' = [[b \in Agent |-> IF pc[b] = "sleep" THEN "loop" ELSE ret[b]]
               EXCEPT ![a] = back]

NotifyWakes(a) ==
  /\ pc[a] = "wake"
  /\ WakeLoops(a, "sched", ret[a])
  /\ UNCHANGED <<memVars, listVars, wmutex, rlock, loopVars, tearVars, cur, call, outcome>>

\* tsc_atomics_schedule_completions: the agent's own records move from ready
\* to its microtask queue, oldest first, and their timers are cleared.
SchedStep(a) ==
  /\ pc[a] = "sched" /\ wmutex \in {Nil, a}
  /\ Members(ready) \cap Of(a) # {}
  /\ LET w == Oldest(ready, Of(a))
     IN  /\ ready'  = Unlink(ready, w)
         /\ jobs'   = [jobs EXCEPT ![a] = Append(@, w)]
         /\ timers' = [timers EXCEPT ![a] = @ \ {w}]
  /\ wmutex' = a
  /\ UNCHANGED <<memVars, waiting, rec, rlock, pc, ret, held, tearVars, cur, call, outcome>>

\* Back to the caller; a drain gives up the runtime mutex first
\* (tsc_job_checkpoint).
SchedEnd(a) ==
  /\ pc[a] = "sched" /\ wmutex \in {Nil, a}
  /\ Members(ready) \cap Of(a) = {}
  /\ wmutex' = Nil
  /\ IF ret[a] = "drain"
     THEN pc' = [pc EXCEPT ![a] = "resume"] /\ rlock' = Nil /\ UNCHANGED ret
     ELSE /\ pc' = [pc EXCEPT ![a] = ret[a]] /\ UNCHANGED rlock
          /\ ret' = [ret EXCEPT ![a] = "js"]
  /\ UNCHANGED <<memVars, listVars, loopVars, tearVars, cur, call, outcome>>
-----------------------------------------------------------------------------
\* End of the initial script or of a job: tsc_job_checkpoint yields.
FinishScript(a) ==
  /\ Running(a)
  /\ ret'   = [ret EXCEPT ![a] = IF pc[a] = "js" THEN "loop" ELSE "drain"]
  /\ pc'    = [pc EXCEPT ![a] = "resume"]
  /\ rlock' = Nil
  /\ UNCHANGED <<memVars, listVars, wmutex, loopVars, tearVars, cur, call, outcome>>

\* agent.leaving: tsc_agent_hold(agent, false), whose wake is a step of its own.
Leave(a) ==
  /\ Running(a) /\ held[a]
  /\ held' = [held EXCEPT ![a] = FALSE]
  /\ ret'  = [ret EXCEPT ![a] = pc[a]]
  /\ pc'   = [pc EXCEPT ![a] = "unheld"]
  /\ UNCHANGED <<memVars, listVars, wmutex, rlock, jobs, timers, tearVars, cur, call, outcome>>

UnheldWakes(a) ==
  /\ pc[a] = "unheld"
  /\ WakeLoops(a, ret[a], "js")
  /\ UNCHANGED <<memVars, listVars, wmutex, rlock, loopVars, tearVars, cur, call, outcome>>

\* run_event_loop: the loop ends when nothing is queued and nothing is
\* referenced; Main then tears the workers down, a worker's thread ends.
Exit(a) ==
  /\ IF a = Main THEN pc' = [pc EXCEPT ![a] = "cleanup"] /\ UNCHANGED rlock
     ELSE pc' = [pc EXCEPT ![a] = "done"] /\ rlock' = Nil
  /\ UNCHANGED <<memVars, listVars, wmutex, ret, loopVars, tearVars, cur, call, outcome>>

LoopExit(a) ==
  /\ pc[a] \in {"loop", "drain"} /\ jobs[a] = <<>> /\ ~held[a]
  /\ Exit(a)

LoopTurn(a) ==
  /\ pc[a] = "loop" /\ (jobs[a] # <<>> \/ held[a])
  /\ pc'  = [pc EXCEPT ![a] = "sched"]
  /\ ret' = [ret EXCEPT ![a] = "drain"]
  /\ UNCHANGED <<memVars, listVars, wmutex, rlock, loopVars, tearVars, cur, call, outcome>>

\* resolve_waiter, run as a microtask: the promise is settled and its
\* reactions may run script.
ResolveWaiter(a) ==
  /\ pc[a] = "drain" /\ jobs[a] # <<>>
  /\ outcome' = [outcome EXCEPT ![Head(jobs[a])] = rec[Head(jobs[a])].status]
  /\ rec'     = [rec EXCEPT ![Head(jobs[a])] = Released(@.status)]
  /\ jobs'    = [jobs EXCEPT ![a] = Tail(@)]
  /\ pc'      = [pc EXCEPT ![a] = "job"]
  /\ UNCHANGED <<memVars, waiting, ready, wmutex, rlock, ret, timers, held, tearVars, cur, call>>

\* Mutant: the timer fires and leaves the record pending.
FireTimerIgnored(a, w) ==
  /\ pc[a] = "drain" /\ jobs[a] = <<>> /\ held[a]
  /\ w \in timers[a] /\ wmutex = Nil
  /\ timers' = [timers EXCEPT ![a] = @ \ {w}]
  /\ pc' = [pc EXCEPT ![a] = "sched"] /\ ret' = [ret EXCEPT ![a] = "drain"]
  /\ UNCHANGED <<memVars, listVars, wmutex, rlock, jobs, held, tearVars, cur, call, outcome>>

\* timeout_waiter, run in the timer phase: complete the record unless a
\* notification came first, then schedule.
FireTimer(a, w) ==
  /\ pc[a] = "drain" /\ jobs[a] = <<>> /\ held[a]
  /\ w \in timers[a] /\ wmutex = Nil
  /\ timers' = [timers EXCEPT ![a] = @ \ {w}]
  /\ IF rec[w].status = "pending"
     THEN CompleteLocked(w, "timed-out") /\ pc' = [Woken EXCEPT ![a] = "sched"]
     ELSE UNCHANGED listVars /\ pc' = [pc EXCEPT ![a] = "sched"]
  /\ ret' = [ret EXCEPT ![a] = "drain"]
  /\ UNCHANGED <<memVars, wmutex, rlock, jobs, held, tearVars, cur, call, outcome>>

\* tsc_loop_idle_wait: give up the runtime mutex, then decide under
\* g_loop_mutex whether to sleep.
Idle(a) ==
  /\ pc[a] = "drain" /\ jobs[a] = <<>> /\ held[a]
  /\ pc'    = [pc EXCEPT ![a] = "idle"]
  /\ rlock' = Nil
  /\ UNCHANGED <<memVars, listVars, wmutex, ret, loopVars, tearVars, cur, call, outcome>>

IdleCheck(a) ==
  /\ pc[a] = "idle" /\ wmutex = Nil
  /\ IF Members(ready) \cap Of(a) = {} /\ (timers[a] # {} \/ held[a])
     THEN pc' = [pc EXCEPT ![a] = "sleep"] /\ UNCHANGED ret
     ELSE pc' = [pc EXCEPT ![a] = "resume"] /\ ret' = [ret EXCEPT ![a] = "loop"]
  /\ UNCHANGED <<memVars, listVars, wmutex, rlock, loopVars, tearVars, cur, call, outcome>>
-----------------------------------------------------------------------------
\* cleanup_agents, one worker: release its hold and abandon its records.
Teardown(b) ==
  /\ pc[Main] = "cleanup" /\ b \in Agent \ (torn \cup {Main})
  /\ tgt'  = b
  /\ torn' = torn \cup {b}
  /\ held' = [held EXCEPT ![b] = FALSE]
  /\ ret'  = [ret EXCEPT ![Main] = "abandon"]
  /\ pc'   = [pc EXCEPT ![Main] = "unheld"]
  /\ UNCHANGED <<memVars, listVars, wmutex, rlock, jobs, timers, cur, call, outcome>>

\* tsc_atomics_abandon_agent: every pending record of the worker times out,
\* then its completed asynchronous records are dropped.
AbandonWaiting ==
  /\ pc[Main] = "abandon" /\ wmutex \in {Nil, Main}
  /\ Members(waiting) \cap Of(tgt) # {}
  /\ CompleteLocked(Oldest(waiting, Of(tgt)), "timed-out")
  /\ pc'     = Woken
  /\ wmutex' = Main
  /\ UNCHANGED <<memVars, rlock, ret, loopVars, tearVars, cur, call, outcome>>

AbandonReady ==
  /\ pc[Main] = "abandon" /\ wmutex \in {Nil, Main}
  /\ Members(waiting) \cap Of(tgt) = {} /\ Members(ready) \cap Of(tgt) # {}
  /\ LET w == Oldest(ready, Of(tgt))
     IN  ready' = Unlink(ready, w) /\ rec' = [rec EXCEPT ![w] = Released(@.status)]
  /\ wmutex' = Main
  /\ UNCHANGED <<memVars, waiting, rlock, pc, ret, loopVars, tearVars, cur, call, outcome>>

AbandonEnd ==
  /\ pc[Main] = "abandon" /\ wmutex \in {Nil, Main}
  /\ Members(waiting) \cap Of(tgt) = {} /\ Members(ready) \cap Of(tgt) = {}
  /\ wmutex' = Nil
  /\ pc'     = [pc EXCEPT ![Main] = "cleanup"]
  /\ UNCHANGED <<memVars, listVars, rlock, ret, loopVars, tearVars, cur, call, outcome>>

\* Every worker is abandoned: give up the runtime mutex and join them.
TeardownEnds ==
  /\ pc[Main] = "cleanup" /\ torn = Agent \ {Main}
  /\ pc'    = [pc EXCEPT ![Main] = "done"]
  /\ rlock' = Nil
  /\ UNCHANGED <<memVars, listVars, wmutex, ret, loopVars, tearVars, cur, call, outcome>>
-----------------------------------------------------------------------------
\* Everything an agent does without being told to by the program.
System(a) ==
  \/ Resume(a)
  \/ SuspendReturns(a) \/ SuspendTimesOut(a) \/ SuspendSleeps(a)
  \/ NotifyStep(a) \/ NotifyEnd(a) \/ NotifyWakes(a) \/ UnheldWakes(a)
  \/ SchedStep(a) \/ SchedEnd(a)
  \/ LoopExit(a) \/ LoopTurn(a) \/ ResolveWaiter(a)
  \/ \E w \in Waiter : FireTimer(a, w)
  \/ Idle(a) \/ IdleCheck(a)

\* What the program asks for.
Program(a) ==
  \/ \E l \in Loc, v \in Value : Store(a, l, v)
  \/ \E w \in Waiter, async \in BOOLEAN, l \in Loc, v \in Value, t \in Timeouts :
        BeginWait(a, w, async, l, v, t)
  \/ \E l \in Loc, n \in 0..MaxCount : NotifyBegin(a, l, n, FALSE)
  \/ \E l \in Loc : NotifyBegin(a, l, 0, TRUE)
  \/ Leave(a)
  \/ Checkpoint(a) \/ FinishScript(a)

Cleanup == \/ \E b \in Agent : Teardown(b)
           \/ AbandonWaiting \/ AbandonReady \/ AbandonEnd \/ TeardownEnds

Next == \/ \E a \in Agent : System(a) \/ Program(a) \/ CondReturns(a)
        \/ Cleanup

Spec == Init /\ [][Next]_vars
-----------------------------------------------------------------------------
TypeOK ==
  /\ word \in [Loc -> Value] /\ published \in [Loc -> BOOLEAN]
  /\ rec \in [Waiter -> Records]
  /\ waiting \in Seq(Waiter) /\ ready \in Seq(Waiter)
  /\ wmutex \in Agent \cup {Nil} /\ rlock \in Agent \cup {Nil}
  /\ pc \in [Agent -> Places]
  /\ ret \in [Agent -> Script \cup {"loop", "drain", "abandon"}]
  /\ cur \in [Agent -> Waiter \cup {Nil}]
  /\ call \in [Agent -> [loc : Loc \cup {Nil}, left : Nat, all : BOOLEAN, any : BOOLEAN]]
  /\ jobs \in [Agent -> Seq(Waiter)]
  /\ timers \in [Agent -> SUBSET Waiter] /\ held \in [Agent -> BOOLEAN]
  /\ torn \in SUBSET Agent /\ tgt \in Agent
  /\ outcome \in [Waiter -> Outcomes]
\* No record twice on a list.
NoDup(s) == \A i, j \in 1..Len(s) : s[i] = s[j] => i = j

\* The waiting list holds exactly the pending records, each once, whatever
\* notifications, timeouts and teardowns interleave: complete_locked unlinks
\* a record in the step that gives it its status.
WaitListExact ==
  /\ NoDup(waiting)
  /\ \A w \in Waiter : w \in Members(waiting) <=> rec[w].status = "pending"

\* Where a completed promise record can be until its promise is settled.
Pending(w) == rec[w].async /\ rec[w].status \in Terminal /\ outcome[w] = "promise"

\* A completed asynchronous record is on the ready list or in its own agent's
\* microtask queue, once, until its promise is settled: scheduling never
\* drops, doubles or misroutes a completion (only teardown discards one).
CompletionConserved ==
  /\ NoDup(ready) /\ \A a \in Agent : NoDup(jobs[a])
  /\ \A a \in Agent : \A w \in Members(jobs[a]) :
        Pending(w) /\ rec[w].agent = a /\ w \notin Members(ready)
  /\ \A w \in Members(ready) : Pending(w)
  /\ \A w \in Waiter : Pending(w) =>
        w \in Members(ready) \cup Members(jobs[rec[w].agent])

\* An agent that will wake the event loops after it completed a record of a.
WakePending(a) ==
  \/ \E b \in Agent : pc[b] = "wake" \/ (pc[b] = "notify" /\ call[b].any)
  \/ pc[Main] = "abandon" /\ tgt = a

\* No wakeup is lost: a thread inside Atomics.wait sleeps only while its
\* record is pending; an event loop sleeps on g_loop_cond with a deliverable
\* completion, or with its hold released and no timer, only while another
\* agent is still about to broadcast.
NoLostWakeup ==
  \A a \in Agent :
    /\ pc[a] = "asleep" => rec[cur[a]].status = "pending"
    /\ pc[a] = "sleep" /\ Members(ready) \cap Of(a) # {} => WakePending(a)
    /\ pc[a] = "sleep" /\ ~held[a] /\ timers[a] = {} =>
         \E b \in Agent : pc[b] = "unheld"

\* Compare-and-enqueue is atomic: once a store has been followed by a notify
\* of every waiter, nobody waits any more for the overwritten value.
NoMissedStore ==
  \A w \in Waiter : rec[w].status = "pending" /\ published[rec[w].loc] =>
                       rec[w].expected = word[rec[w].loc]

\* What a record and its timer look like in each stage of its life.
RecordShape ==
  \A w \in Waiter :
    /\ rec[w].status = "free" => ~rec[w].async /\ outcome[w] = "none"
    /\ rec[w].status = "pending" =>
         /\ rec[w].agent \in Agent /\ rec[w].loc \in Loc /\ rec[w].expected \in Value
         /\ outcome[w] = IF rec[w].async THEN "promise" ELSE "none"
    /\ rec[w].async => rec[w].agent \in Agent
    /\ \A a \in Agent : w \in timers[a] =>
         /\ rec[w].status # "free"
         /\ rec[w].status = "pending" => rec[w].agent = a /\ rec[w].async

\* A thread inside Atomics.wait has a synchronous record of its own.
WaitsOnOwnRecord ==
  \A a \in Agent :
    /\ pc[a] \in {"wait", "asleep"} <=> cur[a] # Nil
    /\ cur[a] # Nil => /\ ~rec[cur[a]].async /\ outcome[cur[a]] = "none"
                       /\ rec[cur[a]].status \in Terminal \cup {"pending"}
                       /\ \A b \in Agent : cur[b] = cur[a] => b = a

\* The inductive invariant.
IInv == /\ TypeOK /\ WaitListExact /\ RecordShape /\ WaitsOnOwnRecord
        /\ CompletionConserved /\ NoLostWakeup /\ NoMissedStore

Before(v, w) == \E i, j \in 1..Len(waiting) : i < j /\ waiting[i] = v /\ waiting[j] = w

\* Notification is first in, first out per location: a record is not woken
\* while an older pending record of its location keeps waiting.
NotifyIsFIFO ==
  [][\A v, w \in Waiter :
       /\ rec[w].status = "pending" /\ rec'[w].status = "ok"
       /\ rec[v].loc = rec[w].loc /\ Before(v, w)
       => rec'[v].status # "pending"]_vars

\* q holds the records of s that are in S, each once, in the order of s.
Ordered(q, s, S) ==
  /\ Members(q) = Members(s) \cap S /\ NoDup(q)
  /\ \A i, j \in 1..Len(q) :
       i < j => \E k, m \in 1..Len(s) : k < m /\ s[k] = q[i] /\ s[m] = q[j]

\* The records of s that are in S; the queue of location l inside the one list.
InOrder(s, S) == LET M == Members(s) \cap S
                 IN  CHOOSE q \in [1..Cardinality(M) -> M] : Ordered(q, s, S)
QueueAt(l) == InOrder(waiting, At(l))

Abstract == INSTANCE WaiterList WITH
  queue <- [l \in Loc |-> QueueAt(l)],
  state <- [w \in Waiter |-> rec[w].status],
  told  <- [w \in Waiter |-> IF outcome[w] \in {"none", "promise"} THEN "no" ELSE outcome[w]]

\* The threads, the shared list, the ready list and the event loops together
\* implement one first-in-first-out queue per location in which every wait
\* ends once and the program is told once, and told what really happened.
ImplementsWaiterList == Abstract!Spec
-----------------------------------------------------------------------------
\* Fairness.  Threads keep running (WF); a thread blocked on the runtime
\* mutex gets it eventually (SF on Resume); deadlines pass (SF on the steps
\* that need an expired timeout, WF on a timed wait's return); the program's
\* scripts and jobs end (SF on FinishScript).
TimedReturn(a) ==
  /\ \/ pc[a] = "asleep" /\ rec[cur[a]].timeout = "finite"
     \/ pc[a] = "sleep" /\ timers[a] # {}
  /\ CondReturns(a)

Fairness ==
  /\ \A a \in Agent : /\ WF_vars(System(a)) /\ SF_vars(Resume(a))
                       /\ SF_vars(SuspendTimesOut(a)) /\ WF_vars(TimedReturn(a))
                       /\ SF_vars(\E w \in Waiter : FireTimer(a, w))
                       /\ SF_vars(FinishScript(a))
  /\ WF_vars(Cleanup)

FairSpec == Spec /\ Fairness

\* The agent's loop is over or being torn down.
Left(a) == pc[a] \in {"cleanup", "done"} \/ a \in torn

\* A completed waitAsync record has its promise settled, unless its agent
\* leaves first.
CompletionDelivered ==
  \A w \in Waiter, a \in Agent :
    (Pending(w) /\ rec[w].agent = a) ~> (outcome[w] \in Terminal \/ Left(a))

\* A record with a finite deadline does not stay pending for ever.
DeadlineExpires ==
  \A w \in Waiter, a \in Agent :
    (rec[w].status = "pending" /\ rec[w].timeout # "inf" /\ rec[w].agent = a)
      ~> (rec[w].status # "pending" \/ Left(a))

\* A thread in Atomics.wait whose record ended returns to its script.
WaitReturns ==
  \A a \in Agent :
    (cur[a] # Nil /\ cur[a] \notin Members(waiting)) ~> Running(a)

\* "Normal/abrupt teardown interrupts sleeping or blocked agents before
\* joining": once Main has abandoned every worker and joins, every worker
\* thread ends.
TeardownEndsWorkers == pc[Main] = "done" ~> \A a \in Agent : pc[a] = "done"
=============================================================================
