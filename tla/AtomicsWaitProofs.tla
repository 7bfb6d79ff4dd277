-------------------------- MODULE AtomicsWaitProofs --------------------------
(***************************************************************************)
(* Proofs about AtomicsWait for any agents, locations, values and records. *)
(***************************************************************************)
EXTENDS AtomicsWait, SequenceTheorems, WellFoundedInduction, TLAPS

\* A non-empty set of naturals has a least element.
LEMMA LeastNat ==
  ASSUME NEW T \in SUBSET Nat, T # {}
  PROVE  \E x \in T : \A y \in T : x <= y
<1> DEFINE R == OpToRel(<, Nat)
<1>1. \E x \in T : \A y \in T : ~(<<y, x>> \in R)
  <2> HIDE DEF R
  <2> QED BY WFMin, NatLessThanWellFounded DEF R
<1>2. \A x, y \in Nat : <<y, x>> \in R <=> y < x
  BY DEF OpToRel
<1> HIDE DEF R
<1>3. PICK x \in T : \A y \in T : ~(<<y, x>> \in R)
  BY <1>1
<1>4. \A y \in T : x <= y
  <2> TAKE y \in T
  <2>1. x \in Nat /\ y \in Nat OBVIOUS
  <2>2. ~(<<y, x>> \in R) BY <1>3
  <2>3. ~(y < x) BY <1>2, <2>1, <2>2
  <2> QED BY <2>1, <2>3
<1> QED BY <1>4

\* The walk for the oldest record of a set finds one, and no older one exists.
LEMMA OldestProperties ==
  ASSUME NEW W, NEW s \in Seq(W), NEW S, Members(s) \cap S # {}
  PROVE  /\ Oldest(s, S) \in Members(s) \cap S
         /\ \E i \in 1..Len(s) : /\ s[i] = Oldest(s, S)
                                 /\ \A j \in 1..(i - 1) : s[j] \notin S
<1> DEFINE T == {i \in 1..Len(s) : s[i] \in S}
<1>1. T \in SUBSET Nat /\ T # {}
  BY DEF Members
<1>2. PICK x \in T : \A y \in T : x <= y
  BY <1>1, LeastNat
<1>3. x \in 1..Len(s) /\ s[x] \in S /\ \A j \in 1..(x - 1) : s[j] \notin S
  BY <1>2
<1> QED BY <1>3 DEF Oldest, Members

\* Unlinking a record removes it and nothing else, and keeps the order.
LEMMA UnlinkProperties ==
  ASSUME NEW W, NEW s \in Seq(W), NoDup(s), NEW w \in Members(s)
  PROVE  /\ Unlink(s, w) \in Seq(W)
         /\ NoDup(Unlink(s, w))
         /\ Members(Unlink(s, w)) = Members(s) \ {w}
<1> DEFINE at == CHOOSE i \in 1..Len(s) : s[i] = w
           u == Unlink(s, w)
<1>1. at \in 1..Len(s) /\ s[at] = w
  BY DEF Members
<1>2. Len(s) \in Nat /\ Len(s) - 1 \in Nat /\ \A i \in 1..Len(s) : s[i] \in W
  BY <1>1
<1> HIDE DEF at
<1>3. u = [i \in 1..(Len(s) - 1) |-> IF i < at THEN s[i] ELSE s[i + 1]]
  BY DEF Unlink, at
<1>4. u \in Seq(W) /\ Len(u) = Len(s) - 1
  BY <1>1, <1>2, <1>3, IsASeq, LenProperties
<1>5. \A i \in 1..Len(u) : u[i] = IF i < at THEN s[i] ELSE s[i + 1]
  BY <1>3, <1>4
<1> HIDE DEF u
<1>6. NoDup(u)
  <2> DEFINE f(i) == IF i < at THEN i ELSE i + 1
  <2>1. \A i \in 1..Len(u) : f(i) \in 1..Len(s) /\ u[i] = s[f(i)]
    BY <1>1, <1>2, <1>4, <1>5
  <2>2. \A i, j \in 1..Len(u) : f(i) = f(j) => i = j
    BY <1>1, <1>2, <1>4
  <2> HIDE DEF f
  <2> QED BY <2>1, <2>2 DEF NoDup
<1>7. ASSUME NEW v \in Members(u) PROVE v \in Members(s) \ {w}
  BY <1>1, <1>2, <1>4, <1>5 DEF NoDup, Members
<1>8. ASSUME NEW v \in Members(s) \ {w} PROVE v \in Members(u)
  <2>1. PICK i \in 1..Len(s) : s[i] = v /\ i # at
    BY <1>1 DEF Members
  <2>2. CASE i < at
    BY <2>1, <2>2, <1>1, <1>2, <1>4, <1>5 DEF Members
  <2>3. CASE i > at
    <3>1. i - 1 \in 1..Len(u) /\ u[i - 1] = s[i]
      BY <2>3, <2>1, <1>1, <1>2, <1>4, <1>5
    <3> QED BY <3>1, <2>1 DEF Members
  <2> QED BY <2>1, <2>2, <2>3, <1>1, <1>2
<1> QED BY <1>4, <1>6, <1>7, <1>8 DEF u

\* Appending a new record.
LEMMA AppendProperty ==
  ASSUME NEW W, NEW s \in Seq(W), NEW w \in W
  PROVE  /\ Append(s, w) \in Seq(W)
         /\ Members(Append(s, w)) = Members(s) \cup {w}
         /\ NoDup(s) /\ w \notin Members(s) => NoDup(Append(s, w))
<1>1. /\ Append(s, w) \in Seq(W) /\ Len(Append(s, w)) = Len(s) + 1 /\ Len(s) \in Nat
      /\ \A i \in 1..Len(s) : Append(s, w)[i] = s[i]
      /\ Append(s, w)[Len(s) + 1] = w
  BY AppendProperties
<1> DEFINE t == Append(s, w)
<1> HIDE DEF t
<1>2. Members(t) = Members(s) \cup {w}
  BY <1>1 DEF Members, t
<1>3. NoDup(s) /\ w \notin Members(s) => NoDup(t)
  BY <1>1 DEF Members, NoDup, t
<1> QED BY <1>1, <1>2, <1>3 DEF t
-----------------------------------------------------------------------------
\* The steps that touch a record, a list, a timer or an outcome; every other
\* step of the system leaves them all alone.
quiet == <<listVars, jobs, timers, outcome>>

RecordStep ==
  \E a \in Agent :
    \/ \E w \in Waiter, async \in BOOLEAN, l \in Loc, v \in Value, t \in Timeouts :
          BeginWait(a, w, async, l, v, t)
    \/ SuspendReturns(a) \/ SuspendTimesOut(a)
    \/ NotifyStep(a) \/ SchedStep(a) \/ ResolveWaiter(a)
    \/ \E w \in Waiter : FireTimer(a, w)
    \/ AbandonWaiting \/ AbandonReady

\* Every step is quiet or one of the record steps.
LEMMA QuietOrRecordStep ==
  ASSUME [Next]_vars
  PROVE  UNCHANGED quiet \/ RecordStep
<1>1. CASE UNCHANGED vars
  BY <1>1 DEF vars, quiet, loopVars
<1>2. ASSUME NEW a \in Agent, System(a) PROVE UNCHANGED quiet \/ RecordStep
  <2> USE DEF quiet, loopVars
  <2>1. CASE Resume(a) BY <2>1 DEF Resume
  <2>2. CASE SuspendReturns(a) \/ SuspendTimesOut(a) \/ NotifyStep(a) \/ SchedStep(a)
             \/ ResolveWaiter(a) \/ (\E w \in Waiter : FireTimer(a, w))
    BY <2>2 DEF RecordStep
  <2>3. CASE SuspendSleeps(a) BY <2>3 DEF SuspendSleeps
  <2>4. CASE NotifyEnd(a) BY <2>4 DEF NotifyEnd
  <2>5. CASE NotifyWakes(a) BY <2>5 DEF NotifyWakes
  <2>6. CASE UnheldWakes(a) BY <2>6 DEF UnheldWakes
  <2>7. CASE SchedEnd(a) BY <2>7 DEF SchedEnd
  <2>8. CASE LoopExit(a) BY <2>8 DEF LoopExit, Exit
  <2>9. CASE LoopTurn(a) BY <2>9 DEF LoopTurn
  <2>10. CASE Idle(a) BY <2>10 DEF Idle
  <2>11. CASE IdleCheck(a) BY <2>11 DEF IdleCheck
  <2> QED BY <1>2, <2>1, <2>2, <2>3, <2>4, <2>5, <2>6, <2>7, <2>8, <2>9, <2>10, <2>11 DEF System
<1>3. ASSUME NEW a \in Agent, Program(a) PROVE UNCHANGED quiet \/ RecordStep
  <2> USE DEF quiet, loopVars
  <2>1. CASE \E l \in Loc, v \in Value : Store(a, l, v) BY <2>1 DEF Store
  <2>2. CASE \E w \in Waiter, async \in BOOLEAN, l \in Loc, v \in Value, t \in Timeouts :
               BeginWait(a, w, async, l, v, t)
    BY <2>2 DEF RecordStep
  <2>3. CASE \E l \in Loc, n \in 0..MaxCount : NotifyBegin(a, l, n, FALSE)
    BY <2>3 DEF NotifyBegin
  <2>4. CASE \E l \in Loc : NotifyBegin(a, l, 0, TRUE) BY <2>4 DEF NotifyBegin
  <2>5. CASE Leave(a) BY <2>5 DEF Leave
  <2>6. CASE FinishScript(a) BY <2>6 DEF FinishScript
  <2>7. CASE Checkpoint(a) BY <2>7 DEF Checkpoint
  <2> QED BY <1>3, <2>1, <2>2, <2>3, <2>4, <2>5, <2>6, <2>7 DEF Program
<1>4. ASSUME NEW a \in Agent, CondReturns(a) PROVE UNCHANGED quiet
  BY <1>4 DEF CondReturns, quiet, loopVars
<1>5. CASE Cleanup
  <2> USE DEF quiet, loopVars
  <2>1. CASE \E b \in Agent : Teardown(b) BY <2>1 DEF Teardown
  <2>2. CASE AbandonWaiting \/ AbandonReady BY <2>2, AgentAssumption DEF RecordStep
  <2>3. CASE AbandonEnd BY <2>3 DEF AbandonEnd
  <2>4. CASE TeardownEnds BY <2>4 DEF TeardownEnds
  <2> QED BY <1>5, <2>1, <2>2, <2>3, <2>4 DEF Cleanup
<1> QED BY <1>1, <1>2, <1>3, <1>4, <1>5 DEF Next

\* complete_locked on a pending record: it leaves the waiting list, an
\* asynchronous one joins the ready list.
LEMMA CompleteLockedEffect ==
  ASSUME TypeOK, WaitListExact, RecordShape, CompletionConserved,
         NEW w \in Waiter, rec[w].status = "pending", NEW st \in Terminal,
         CompleteLocked(w, st), UNCHANGED <<jobs, outcome>>
  PROVE  /\ rec' \in [Waiter -> Records]
         /\ waiting' \in Seq(Waiter) /\ ready' \in Seq(Waiter)
         /\ WaitListExact' /\ CompletionConserved'
         /\ rec'[w].status = st /\ rec'[w].async = rec[w].async /\ rec'[w].agent = rec[w].agent
         /\ \A v \in Waiter \ {w} : rec'[v] = rec[v]
         /\ Members(ready') = Members(ready) \cup (IF rec[w].async THEN {w} ELSE {})
<1>1. w \in Members(waiting) /\ NoDup(waiting) /\ waiting \in Seq(Waiter)
  BY DEF WaitListExact, TypeOK
<1>2. /\ waiting' \in Seq(Waiter) /\ NoDup(waiting') /\ Members(waiting') = Members(waiting) \ {w}
  BY <1>1, UnlinkProperties DEF CompleteLocked
<1>3. /\ rec' \in [Waiter -> Records]
      /\ rec'[w].status = st /\ rec'[w].async = rec[w].async /\ rec'[w].agent = rec[w].agent
      /\ \A v \in Waiter \ {w} : rec'[v] = rec[v]
  BY DEF CompleteLocked, Released, TypeOK, Records, Statuses, Terminal, Timeouts
<1>4. WaitListExact'
  BY <1>2, <1>3 DEF WaitListExact, Terminal
<1>5. w \notin Members(ready) /\ \A a \in Agent : w \notin Members(jobs[a])
  BY DEF CompletionConserved, Pending, Terminal
<1>6. /\ ready' \in Seq(Waiter) /\ NoDup(ready')
      /\ Members(ready') = Members(ready) \cup (IF rec[w].async THEN {w} ELSE {})
  <2>1. ready \in Seq(Waiter) /\ NoDup(ready)
    BY DEF TypeOK, CompletionConserved
  <2>2. CASE rec[w].async
    BY <2>1, <2>2, <1>5, AppendProperty DEF CompleteLocked
  <2>3. CASE ~rec[w].async
    BY <2>1, <2>3 DEF CompleteLocked
  <2> QED BY <2>2, <2>3
<1>7. CompletionConserved'
  <2>1. \A v \in Waiter \ {w} : Pending(v)' <=> Pending(v)
    BY <1>3 DEF Pending
  <2>2. rec[w].async => Pending(w)'
    BY <1>3 DEF Pending, RecordShape
  <2>3. ~rec[w].async => ~Pending(w)'
    BY <1>3 DEF Pending
  <2>4. \A a \in Agent : Members(jobs[a]) \subseteq Waiter \ {w}
    BY <1>5, ElementOfSeq DEF TypeOK, Members
  <2>5. Members(ready) \subseteq Waiter \ {w}
    BY <1>5, ElementOfSeq DEF TypeOK, Members
  <2>6. NoDup(ready') /\ \A a \in Agent : NoDup(jobs'[a])
    BY <1>6 DEF CompletionConserved
  <2>7. \A a \in Agent : \A v \in Members(jobs'[a]) :
            Pending(v)' /\ rec'[v].agent = a /\ v \notin Members(ready')
    BY <1>3, <1>6, <2>1, <2>4 DEF CompletionConserved
  <2>8. \A v \in Members(ready') : Pending(v)'
    BY <1>6, <2>1, <2>2, <2>5 DEF CompletionConserved
  <2>9. \A v \in Waiter : Pending(v)' => v \in Members(ready') \cup Members(jobs'[rec'[v].agent])
    BY <1>3, <1>6, <2>1, <2>3 DEF CompletionConserved
  <2> QED BY <2>6, <2>7, <2>8, <2>9 DEF CompletionConserved
<1> QED BY <1>2, <1>3, <1>4, <1>6, <1>7

\* The record part of the inductive invariant and the types it needs.
RecordInv == /\ rec \in [Waiter -> Records]
             /\ waiting \in Seq(Waiter) /\ ready \in Seq(Waiter)
             /\ jobs \in [Agent -> Seq(Waiter)]
             /\ timers \in [Agent -> SUBSET Waiter]
             /\ outcome \in [Waiter -> Outcomes]
             /\ WaitListExact /\ RecordShape /\ CompletionConserved

\* A step that completes a pending record and disarms at most timers.
LEMMA CompletionStep ==
  ASSUME IInv, NEW w \in Waiter, rec[w].status = "pending", NEW st \in Terminal,
         CompleteLocked(w, st), UNCHANGED <<jobs, outcome>>,
         timers' \in [Agent -> SUBSET Waiter],
         \A a \in Agent : timers'[a] \subseteq timers[a]
  PROVE  RecordInv'
<1>1. /\ rec' \in [Waiter -> Records]
      /\ waiting' \in Seq(Waiter) /\ ready' \in Seq(Waiter)
      /\ WaitListExact' /\ CompletionConserved'
      /\ rec'[w].status = st /\ rec'[w].async = rec[w].async /\ rec'[w].agent = rec[w].agent
      /\ \A v \in Waiter \ {w} : rec'[v] = rec[v]
  BY CompleteLockedEffect DEF IInv
<1>2. RecordShape'
  BY <1>1 DEF IInv, RecordShape, Terminal
<1> QED BY <1>1, <1>2 DEF RecordInv, IInv, TypeOK

\* Forgetting the payload of a record that has ended and that no list holds.
LEMMA ReleaseStep ==
  ASSUME IInv, NEW w \in Waiter, rec[w].status \in Terminal,
         rec' = [rec EXCEPT ![w] = Released(@.status)],
         UNCHANGED <<waiting, timers>>, outcome' \in [Waiter -> Outcomes],
         \A v \in Waiter \ {w} : outcome'[v] = outcome[v],
         ready' \in Seq(Waiter), jobs' \in [Agent -> Seq(Waiter)],
         NoDup(ready'), \A a \in Agent : NoDup(jobs'[a]),
         Members(ready') = Members(ready) \ {w},
         \A a \in Agent : Members(jobs'[a]) = Members(jobs[a]) \ {w}
  PROVE  RecordInv'
<1>1. /\ rec' \in [Waiter -> Records]
      /\ rec'[w].status = rec[w].status /\ rec'[w].async = FALSE
      /\ \A v \in Waiter \ {w} : rec'[v] = rec[v]
  BY DEF Released, IInv, TypeOK, Records, Statuses, Terminal, Timeouts
<1>2. WaitListExact'
  BY <1>1 DEF WaitListExact, IInv
<1>3. RecordShape'
  BY <1>1 DEF RecordShape, IInv, Terminal
<1>4. \A v \in Waiter \ {w} : Pending(v)' <=> Pending(v)
  BY <1>1 DEF Pending
<1>5. ~Pending(w)'
  BY <1>1 DEF Pending
<1>6. Members(ready) \subseteq Waiter /\ \A a \in Agent : Members(jobs[a]) \subseteq Waiter
  <2>1. ready \in Seq(Waiter) /\ \A a \in Agent : jobs[a] \in Seq(Waiter) BY DEF IInv, TypeOK
  <2> QED BY <2>1, ElementOfSeq DEF Members
<1>7. \A v \in Waiter : Pending(v) => rec[v].agent \in Agent
  BY DEF Pending, IInv, RecordShape
<1>8. \A a \in Agent : \A v \in Members(jobs'[a]) :
            Pending(v)' /\ rec'[v].agent = a /\ v \notin Members(ready')
  BY <1>1, <1>4, <1>6 DEF CompletionConserved, IInv
<1>9. \A v \in Members(ready') : Pending(v)'
  BY <1>4, <1>6 DEF CompletionConserved, IInv
<1>10. \A v \in Waiter : Pending(v)' => v \in Members(ready') \cup Members(jobs'[rec'[v].agent])
  BY <1>1, <1>4, <1>5, <1>7 DEF CompletionConserved, IInv
<1>11. CompletionConserved'
  BY <1>8, <1>9, <1>10 DEF CompletionConserved
<1> QED BY <1>1, <1>2, <1>3, <1>11 DEF RecordInv, IInv, TypeOK

\* A new record: refused records are never linked, a pending one is appended.
LEMMA BeginWaitPreserves ==
  ASSUME IInv, NEW a \in Agent, NEW w \in Waiter, NEW async \in BOOLEAN, NEW l \in Loc,
         NEW v \in Value, NEW t \in Timeouts, BeginWait(a, w, async, l, v, t)
  PROVE  RecordInv'
<1>1. rec[w].status = "free" /\ w \notin Members(waiting) /\ ~rec[w].async
  BY DEF BeginWait, IInv, WaitListExact, RecordShape
<1>2. w \notin Members(ready) /\ \A b \in Agent : w \notin Members(jobs[b])
  BY <1>1 DEF IInv, CompletionConserved, Pending
<1>3. ready' = ready /\ jobs' = jobs
  BY DEF BeginWait
<1> DEFINE r == [status |-> "pending", async |-> async, agent |-> a,
                 loc |-> l, expected |-> v, timeout |-> t]
<1>4. CASE word[l] # v \/ (async /\ t = "zero")
  <2>1. PICK st \in {"not-equal", "timed-out"} :
             /\ rec' = [rec EXCEPT ![w] = Released(st)] /\ waiting' = waiting
             /\ outcome' = [outcome EXCEPT ![w] = st] /\ timers' = timers
    BY <1>4 DEF BeginWait, BeginStatus
  <2>2. /\ rec' \in [Waiter -> Records] /\ rec'[w].status = st /\ ~rec'[w].async
        /\ \A u \in Waiter \ {w} : rec'[u] = rec[u]
    BY <2>1 DEF IInv, TypeOK, Records, Released, Statuses, Terminal, Timeouts
  <2>3. outcome' \in [Waiter -> Outcomes] /\ \A u \in Waiter \ {w} : outcome'[u] = outcome[u]
    BY <2>1 DEF IInv, TypeOK, Outcomes, Terminal
  <2>4. \A u \in Waiter : Pending(u)' <=> Pending(u)
    BY <1>1, <2>2, <2>3 DEF Pending
  <2>5. WaitListExact'
    BY <1>1, <2>1, <2>2 DEF IInv, WaitListExact
  <2>6. RecordShape'
    BY <1>1, <2>1, <2>2, <2>3 DEF IInv, RecordShape
  <2>7. Members(ready) \subseteq Waiter \ {w}
        /\ \A b \in Agent : Members(jobs[b]) \subseteq Waiter \ {w}
    BY <1>2, ElementOfSeq DEF IInv, TypeOK, Members
  <2>8. CompletionConserved'
    BY <1>1, <1>3, <2>2, <2>4, <2>7 DEF IInv, CompletionConserved, Pending
  <2> QED BY <1>3, <2>1, <2>2, <2>3, <2>5, <2>6, <2>8 DEF RecordInv, IInv, TypeOK
<1>5. CASE word[l] = v /\ ~(async /\ t = "zero")
  <2>1. /\ rec' = [rec EXCEPT ![w] = r] /\ waiting' = Append(waiting, w)
        /\ outcome' = [outcome EXCEPT ![w] = IF async THEN "promise" ELSE "none"]
        /\ timers' = timers \/ (async /\ timers' = [timers EXCEPT ![a] = @ \cup {w}])
    BY <1>5 DEF BeginWait, BeginStatus
  <2>2. /\ rec' \in [Waiter -> Records] /\ rec'[w] = r
        /\ \A u \in Waiter \ {w} : rec'[u] = rec[u]
    BY <2>1 DEF IInv, TypeOK, Records, Statuses
  <2>3. outcome' \in [Waiter -> Outcomes] /\ \A u \in Waiter \ {w} : outcome'[u] = outcome[u]
    BY <2>1 DEF IInv, TypeOK, Outcomes
  <2>4. \A u \in Waiter : Pending(u)' <=> Pending(u)
    BY <1>1, <2>2, <2>3 DEF Pending, Terminal
  <2>5. waiting' \in Seq(Waiter) /\ WaitListExact'
    <3>1. waiting \in Seq(Waiter) /\ NoDup(waiting)
      BY DEF IInv, TypeOK, WaitListExact
    <3>2. /\ waiting' \in Seq(Waiter) /\ NoDup(waiting')
          /\ Members(waiting') = Members(waiting) \cup {w}
      BY <1>1, <2>1, <3>1, AppendProperty
    <3> QED BY <2>2, <3>2 DEF IInv, WaitListExact
  <2>6. timers' \in [Agent -> SUBSET Waiter]
        /\ \A b \in Agent : \A u \in timers'[b] : u \in timers[b] \/ (u = w /\ b = a /\ async)
    <3>1. timers \in [Agent -> SUBSET Waiter]
      BY DEF IInv, TypeOK
    <3>2. CASE timers' = timers
      BY <3>1, <3>2
    <3>3. CASE async /\ timers' = [timers EXCEPT ![a] = @ \cup {w}]
      BY <3>1, <3>3
    <3> QED BY <2>1, <3>2, <3>3
  <2>7. RecordShape'
    <3>1. \A b \in Agent : w \notin timers[b]
      BY <1>1 DEF IInv, RecordShape
    <3> QED BY <2>1, <2>2, <2>3, <2>6, <3>1 DEF IInv, RecordShape, TypeOK
  <2>8. Members(ready) \subseteq Waiter \ {w}
        /\ \A b \in Agent : Members(jobs[b]) \subseteq Waiter \ {w}
    BY <1>2, ElementOfSeq DEF IInv, TypeOK, Members
  <2>9. CompletionConserved'
    <3>1. ~Pending(w)
      BY <1>1 DEF Pending
    <3> QED BY <1>3, <2>2, <2>4, <2>8, <3>1 DEF IInv, CompletionConserved
  <2> QED BY <1>3, <2>2, <2>3, <2>5, <2>6, <2>7, <2>9 DEF RecordInv, IInv, TypeOK
<1> QED BY <1>4, <1>5

\* schedule_completions moves the oldest own record from ready to the jobs.
LEMMA SchedStepPreserves ==
  ASSUME IInv, NEW a \in Agent, SchedStep(a)
  PROVE  RecordInv'
<1> DEFINE w == Oldest(ready, Of(a))
<1>1. ready \in Seq(Waiter) /\ NoDup(ready) /\ jobs \in [Agent -> Seq(Waiter)]
  BY DEF IInv, TypeOK, CompletionConserved
<1>2. w \in Members(ready) /\ w \in Of(a)
  BY <1>1, OldestProperties DEF SchedStep
<1>3. w \in Waiter /\ Pending(w) /\ rec[w].agent = a /\ \A b \in Agent : w \notin Members(jobs[b])
  BY <1>2 DEF IInv, CompletionConserved, Of
<1> HIDE DEF w
<1>4. /\ ready' = Unlink(ready, w)
      /\ jobs'   = [jobs EXCEPT ![a] = Append(@, w)]
      /\ timers' = [timers EXCEPT ![a] = @ \ {w}]
      /\ UNCHANGED <<waiting, rec, outcome>>
  BY DEF SchedStep, w
<1>5. ready' \in Seq(Waiter) /\ NoDup(ready') /\ Members(ready') = Members(ready) \ {w}
  BY <1>1, <1>2, <1>4, UnlinkProperties
<1>6. /\ jobs' \in [Agent -> Seq(Waiter)] /\ \A b \in Agent : NoDup(jobs'[b])
      /\ \A b \in Agent : Members(jobs'[b]) = IF b = a THEN Members(jobs[b]) \cup {w}
                                              ELSE Members(jobs[b])
  <2>1. /\ Append(jobs[a], w) \in Seq(Waiter) /\ NoDup(Append(jobs[a], w))
        /\ Members(Append(jobs[a], w)) = Members(jobs[a]) \cup {w}
    BY <1>1, <1>3, AppendProperty DEF IInv, CompletionConserved
  <2> QED BY <1>1, <1>4, <2>1 DEF IInv, CompletionConserved
<1>7. timers' \in [Agent -> SUBSET Waiter] /\ \A b \in Agent : timers'[b] \subseteq timers[b]
  BY <1>4 DEF IInv, TypeOK
<1>8. \A u : Pending(u)' <=> Pending(u)
  BY <1>4 DEF Pending
<1>9. CompletionConserved'
  <2>1. \A b \in Agent : \A u \in Members(jobs'[b]) :
            Pending(u)' /\ rec'[u].agent = b /\ u \notin Members(ready')
    <3> SUFFICES ASSUME NEW b \in Agent, NEW u \in Members(jobs'[b])
                 PROVE  Pending(u) /\ rec[u].agent = b /\ u \notin Members(ready')
      BY <1>4, <1>8
    <3>1. CASE u = w
      <4>1. b = a
        BY <1>3, <1>6, <3>1
      <4> QED BY <1>3, <1>5, <3>1, <4>1
    <3>2. CASE u # w
      <4>1. u \in Members(jobs[b])
        BY <1>6, <3>2
      <4> QED BY <1>5, <4>1 DEF IInv, CompletionConserved
    <3> QED BY <3>1, <3>2
  <2>2. \A u \in Members(ready') : Pending(u)'
    BY <1>5, <1>8 DEF IInv, CompletionConserved
  <2>3. \A u \in Waiter : Pending(u)' => u \in Members(ready') \cup Members(jobs'[rec'[u].agent])
    <3> SUFFICES ASSUME NEW u \in Waiter, Pending(u)
                 PROVE  u \in Members(ready') \cup Members(jobs'[rec[u].agent])
      BY <1>4, <1>8
    <3>1. rec[u].agent \in Agent /\ u \in Members(ready) \cup Members(jobs[rec[u].agent])
      BY DEF IInv, CompletionConserved, RecordShape, Pending
    <3> QED BY <1>3, <1>5, <1>6, <3>1
  <2> QED BY <1>5, <1>6, <2>1, <2>2, <2>3 DEF CompletionConserved
<1>10. WaitListExact' /\ RecordShape'
  BY <1>4, <1>7 DEF IInv, WaitListExact, RecordShape
<1> QED BY <1>4, <1>5, <1>6, <1>7, <1>9, <1>10 DEF RecordInv, IInv, TypeOK

\* resolve_waiter takes the head of the agent's own jobs.
LEMMA ResolveWaiterPreserves ==
  ASSUME IInv, NEW a \in Agent, ResolveWaiter(a)
  PROVE  RecordInv'
<1> DEFINE w == Head(jobs[a])
<1>1. jobs \in [Agent -> Seq(Waiter)] /\ jobs[a] # <<>> /\ NoDup(jobs[a])
  BY DEF IInv, TypeOK, CompletionConserved, ResolveWaiter
<1>2. /\ Len(jobs[a]) \in Nat \ {0} /\ w = jobs[a][1] /\ w \in Waiter
      /\ Tail(jobs[a]) \in Seq(Waiter) /\ Len(Tail(jobs[a])) = Len(jobs[a]) - 1
      /\ \A i \in 1..Len(Tail(jobs[a])) : Tail(jobs[a])[i] = jobs[a][i + 1]
  BY <1>1, HeadTailProperties
<1> HIDE DEF w
<1>3. NoDup(Tail(jobs[a])) /\ Members(Tail(jobs[a])) = Members(jobs[a]) \ {w}
  <2>1. NoDup(Tail(jobs[a]))
    BY <1>1, <1>2 DEF NoDup
  <2>2. ASSUME NEW u \in Members(Tail(jobs[a])) PROVE u \in Members(jobs[a]) \ {w}
    BY <1>1, <1>2, <2>2 DEF NoDup, Members
  <2>3. ASSUME NEW u \in Members(jobs[a]) \ {w} PROVE u \in Members(Tail(jobs[a]))
    <3>1. PICK i \in 1..Len(jobs[a]) : jobs[a][i] = u
      BY <2>3 DEF Members
    <3>2. i # 1 /\ i - 1 \in 1..Len(Tail(jobs[a])) /\ Tail(jobs[a])[i - 1] = u
      BY <1>2, <2>3, <3>1
    <3> QED BY <3>2 DEF Members
  <2> QED BY <2>1, <2>2, <2>3
<1>4. w \in Members(jobs[a])
  BY <1>2 DEF Members
<1>5. Pending(w) /\ rec[w].agent = a /\ w \notin Members(ready)
  BY <1>4 DEF IInv, CompletionConserved
<1>6. \A b \in Agent \ {a} : w \notin Members(jobs[b])
  BY <1>5 DEF IInv, CompletionConserved
<1>7. /\ outcome' = [outcome EXCEPT ![w] = rec[w].status]
      /\ rec' = [rec EXCEPT ![w] = Released(@.status)]
      /\ jobs' = [jobs EXCEPT ![a] = Tail(@)]
      /\ UNCHANGED <<waiting, ready, timers>>
  BY DEF ResolveWaiter, w
<1>8. rec[w].status \in Terminal /\ outcome' \in [Waiter -> Outcomes]
      /\ \A v \in Waiter \ {w} : outcome'[v] = outcome[v]
  BY <1>2, <1>5, <1>7 DEF Pending, IInv, TypeOK, Outcomes
<1>9. /\ jobs' \in [Agent -> Seq(Waiter)] /\ \A b \in Agent : NoDup(jobs'[b])
      /\ \A b \in Agent : Members(jobs'[b]) = Members(jobs[b]) \ {w}
  BY <1>1, <1>2, <1>3, <1>6, <1>7 DEF IInv, CompletionConserved
<1>10. ready' \in Seq(Waiter) /\ NoDup(ready') /\ Members(ready') = Members(ready) \ {w}
  BY <1>5, <1>7 DEF IInv, CompletionConserved, TypeOK
<1> QED BY <1>2, <1>7, <1>8, <1>9, <1>10, ReleaseStep

\* The oldest waiting record of a set is a pending record of that set.
LEMMA OldestIsPending ==
  ASSUME IInv, NEW S, Members(waiting) \cap S # {}
  PROVE  /\ Oldest(waiting, S) \in Waiter \cap S
         /\ rec[Oldest(waiting, S)].status = "pending"
<1>1. waiting \in Seq(Waiter) /\ Members(waiting) \subseteq Waiter
  BY ElementOfSeq DEF IInv, TypeOK, Members
<1>2. Oldest(waiting, S) \in Members(waiting) \cap S
  BY <1>1, OldestProperties
<1> QED BY <1>1, <1>2 DEF IInv, WaitListExact

\* Every record step keeps the record part of the invariant.
LEMMA RecordStepPreserves ==
  ASSUME IInv, RecordStep
  PROVE  RecordInv'
<1>0. PICK a \in Agent :
    \/ \E w \in Waiter, async \in BOOLEAN, l \in Loc, v \in Value, t \in Timeouts :
          BeginWait(a, w, async, l, v, t)
    \/ SuspendReturns(a) \/ SuspendTimesOut(a)
    \/ NotifyStep(a) \/ SchedStep(a) \/ ResolveWaiter(a)
    \/ \E w \in Waiter : FireTimer(a, w)
    \/ AbandonWaiting \/ AbandonReady
  BY DEF RecordStep
<1>1. CASE \E w \in Waiter, async \in BOOLEAN, l \in Loc, v \in Value, t \in Timeouts :
             BeginWait(a, w, async, l, v, t)
  BY <1>1, BeginWaitPreserves
<1>2. CASE SuspendReturns(a)
  <2>1. /\ cur[a] \in Waiter /\ rec[cur[a]].status \in Terminal /\ ~rec[cur[a]].async
    BY <1>2 DEF SuspendReturns, IInv, WaitsOnOwnRecord, TypeOK
  <2>2. /\ rec' = [rec EXCEPT ![cur[a]] = Released(@.status)]
        /\ outcome' = [outcome EXCEPT ![cur[a]] = rec[cur[a]].status]
        /\ UNCHANGED <<waiting, ready, jobs, timers>>
    BY <1>2 DEF SuspendReturns, loopVars
  <2>3. outcome' \in [Waiter -> Outcomes] /\ \A v \in Waiter \ {cur[a]} : outcome'[v] = outcome[v]
    BY <2>1, <2>2 DEF IInv, TypeOK, Outcomes
  <2>4. cur[a] \notin Members(ready) /\ \A b \in Agent : cur[a] \notin Members(jobs[b])
    BY <2>1 DEF IInv, CompletionConserved, Pending
  <2>5. /\ ready' \in Seq(Waiter) /\ jobs' \in [Agent -> Seq(Waiter)]
        /\ NoDup(ready') /\ (\A b \in Agent : NoDup(jobs'[b]))
        /\ Members(ready') = Members(ready) \ {cur[a]}
        /\ \A b \in Agent : Members(jobs'[b]) = Members(jobs[b]) \ {cur[a]}
    BY <2>2, <2>4 DEF IInv, CompletionConserved, TypeOK
  <2> QED BY <2>1, <2>2, <2>3, <2>5, ReleaseStep
<1>3. CASE SuspendTimesOut(a)
  <2>1. cur[a] \in Waiter
    BY <1>3 DEF SuspendTimesOut, IInv, WaitsOnOwnRecord, TypeOK
  <2>2. timers' \in [Agent -> SUBSET Waiter] /\ \A b \in Agent : timers'[b] \subseteq timers[b]
    BY <1>3 DEF SuspendTimesOut, loopVars, IInv, TypeOK
  <2> QED BY <1>3, <2>1, <2>2, CompletionStep DEF SuspendTimesOut, Terminal, loopVars
<1>4. CASE NotifyStep(a)
  <2>1. /\ Oldest(waiting, At(call[a].loc)) \in Waiter
        /\ rec[Oldest(waiting, At(call[a].loc))].status = "pending"
    BY <1>4, OldestIsPending DEF NotifyStep, NotifyMore
  <2>2. timers' \in [Agent -> SUBSET Waiter] /\ \A b \in Agent : timers'[b] \subseteq timers[b]
    BY <1>4 DEF NotifyStep, loopVars, IInv, TypeOK
  <2> QED BY <1>4, <2>1, <2>2, CompletionStep DEF NotifyStep, Terminal, loopVars
<1>5. CASE SchedStep(a)
  BY <1>5, SchedStepPreserves
<1>6. CASE ResolveWaiter(a)
  BY <1>6, ResolveWaiterPreserves
<1>7. ASSUME NEW w \in Waiter, FireTimer(a, w) PROVE RecordInv'
  <2>1. /\ timers' = [timers EXCEPT ![a] = @ \ {w}] /\ UNCHANGED <<jobs, outcome>>
    BY <1>7 DEF FireTimer
  <2>2. timers' \in [Agent -> SUBSET Waiter] /\ \A b \in Agent : timers'[b] \subseteq timers[b]
    BY <2>1 DEF IInv, TypeOK
  <2>3. CASE rec[w].status = "pending"
    BY <1>7, <2>1, <2>2, <2>3, CompletionStep DEF FireTimer, Terminal
  <2>4. CASE rec[w].status # "pending"
    <3>1. UNCHANGED <<waiting, ready, rec>>
      BY <1>7, <2>4 DEF FireTimer, listVars
    <3>2. WaitListExact' /\ CompletionConserved'
      BY <2>1, <3>1 DEF IInv, WaitListExact, CompletionConserved, Pending
    <3>3. RecordShape'
      BY <2>1, <2>2, <3>1 DEF IInv, RecordShape
    <3> QED BY <2>1, <2>2, <3>1, <3>2, <3>3 DEF RecordInv, IInv, TypeOK
  <2> QED BY <2>3, <2>4
<1>8. CASE AbandonWaiting
  <2>1. /\ Oldest(waiting, Of(tgt)) \in Waiter
        /\ rec[Oldest(waiting, Of(tgt))].status = "pending"
    BY <1>8, OldestIsPending DEF AbandonWaiting
  <2>2. timers' \in [Agent -> SUBSET Waiter] /\ \A b \in Agent : timers'[b] \subseteq timers[b]
    BY <1>8 DEF AbandonWaiting, loopVars, IInv, TypeOK
  <2> QED BY <1>8, <2>1, <2>2, CompletionStep DEF AbandonWaiting, Terminal, loopVars
<1>9. CASE AbandonReady
  <2> DEFINE w == Oldest(ready, Of(tgt))
  <2>1. ready \in Seq(Waiter) /\ NoDup(ready)
    BY DEF IInv, TypeOK, CompletionConserved
  <2>2. w \in Members(ready) /\ w \in Waiter
    BY <1>9, <2>1, OldestProperties DEF AbandonReady, Of
  <2> HIDE DEF w
  <2>3. Pending(w) /\ \A b \in Agent : w \notin Members(jobs[b])
    BY <2>2 DEF IInv, CompletionConserved
  <2>4. /\ ready' = Unlink(ready, w) /\ rec' = [rec EXCEPT ![w] = Released(@.status)]
        /\ UNCHANGED <<waiting, jobs, timers, outcome>>
    BY <1>9 DEF AbandonReady, loopVars, w
  <2>5. ready' \in Seq(Waiter) /\ NoDup(ready') /\ Members(ready') = Members(ready) \ {w}
    BY <2>1, <2>2, <2>4, UnlinkProperties
  <2>6. /\ rec[w].status \in Terminal /\ outcome' \in [Waiter -> Outcomes]
        /\ \A v \in Waiter \ {w} : outcome'[v] = outcome[v]
        /\ jobs' \in [Agent -> Seq(Waiter)] /\ (\A b \in Agent : NoDup(jobs'[b]))
        /\ \A b \in Agent : Members(jobs'[b]) = Members(jobs[b]) \ {w}
    BY <2>3, <2>4 DEF IInv, TypeOK, CompletionConserved, Pending
  <2> QED BY <2>2, <2>4, <2>5, <2>6, ReleaseStep
<1> QED BY <1>0, <1>1, <1>2, <1>3, <1>4, <1>5, <1>6, <1>7, <1>8, <1>9

\* A quiet step keeps it too.
LEMMA QuietPreserves ==
  ASSUME IInv, UNCHANGED quiet
  PROVE  RecordInv'
<1>1. UNCHANGED <<waiting, ready, rec, jobs, timers, outcome>>
  BY DEF quiet, listVars
<1>2. WaitListExact' /\ CompletionConserved' /\ RecordShape'
  BY <1>1 DEF IInv, WaitListExact, CompletionConserved, Pending, RecordShape
<1> QED BY <1>1, <1>2 DEF RecordInv, IInv, TypeOK
-----------------------------------------------------------------------------
\* The types of memory and of control.
ControlType ==
  /\ word \in [Loc -> Value] /\ published \in [Loc -> BOOLEAN]
  /\ wmutex \in Agent \cup {Nil} /\ rlock \in Agent \cup {Nil}
  /\ pc \in [Agent -> Places]
  /\ ret \in [Agent -> Script \cup {"loop", "drain", "abandon"}]
  /\ cur \in [Agent -> Waiter \cup {Nil}]
  /\ call \in [Agent -> [loc : Loc \cup {Nil}, left : Nat, all : BOOLEAN, any : BOOLEAN]]
  /\ held \in [Agent -> BOOLEAN]
  /\ torn \in SUBSET Agent /\ tgt \in Agent

\* Every step keeps the types of memory and of control.
LEMMA ControlTypeStep ==
  ASSUME IInv, [Next]_vars
  PROVE  ControlType'
<1>0. ControlType
  BY DEF IInv, TypeOK, ControlType
<1> USE AgentAssumption, CountAssumption
<1>1. CASE UNCHANGED vars
  BY <1>1, <1>0 DEF vars, memVars, ctlVars, loopVars, tearVars, ControlType
<1>2. ASSUME NEW a \in Agent, System(a) PROVE ControlType'
  <2> USE DEF memVars, listVars, ctlVars, loopVars, tearVars, Places, Script
  <2>1. CASE Resume(a)
    BY <2>1, <1>0 DEF Resume, ControlType
  <2>2. CASE SuspendReturns(a)
    BY <2>2, <1>0 DEF SuspendReturns, ControlType
  <2>3. CASE SuspendTimesOut(a)
    BY <2>3, <1>0 DEF SuspendTimesOut, CompleteLocked, Woken, Broadcast, ControlType
  <2>4. CASE SuspendSleeps(a)
    BY <2>4, <1>0 DEF SuspendSleeps, ControlType
  <2>5. CASE NotifyStep(a)
    <3>1. /\ pc' = Woken /\ UNCHANGED <<word, published, wmutex, rlock, ret, cur, held, torn, tgt>>
          /\ call' = [call EXCEPT ![a] = Counted(@)]
      BY <2>5 DEF NotifyStep
    <3>2. pc' \in [Agent -> Places]
      BY <3>1, <1>0 DEF Woken, Broadcast, ControlType
    <3>3. call[a].all \/ call[a].left > 0
      BY <2>5 DEF NotifyStep, NotifyMore
    <3>4. Counted(call[a]) \in [loc : Loc \cup {Nil}, left : Nat, all : BOOLEAN, any : BOOLEAN]
      BY <3>3, <1>0 DEF ControlType, Counted
    <3> QED BY <3>1, <3>2, <3>4, <1>0 DEF ControlType
  <2>6. CASE NotifyEnd(a)
    BY <2>6, <1>0 DEF NotifyEnd, NoCall, ControlType
  <2>7. CASE NotifyWakes(a)
    BY <2>7, <1>0 DEF NotifyWakes, WakeLoops, Broadcast, ControlType
  <2>8. CASE UnheldWakes(a)
    BY <2>8, <1>0 DEF UnheldWakes, WakeLoops, Broadcast, ControlType
  <2>9. CASE SchedStep(a)
    BY <2>9, <1>0 DEF SchedStep, ControlType
  <2>10. CASE SchedEnd(a)
    <3>1. CASE ret[a] = "drain"
      BY <3>1, <2>10, <1>0 DEF SchedEnd, ControlType
    <3>2. CASE ret[a] # "drain"
      BY <3>2, <2>10, <1>0 DEF SchedEnd, ControlType
    <3> QED BY <3>1, <3>2
  <2>11. CASE LoopExit(a)
    BY <2>11, <1>0 DEF LoopExit, Exit, ControlType
  <2>12. CASE LoopTurn(a)
    BY <2>12, <1>0 DEF LoopTurn, ControlType
  <2>13. CASE ResolveWaiter(a)
    BY <2>13, <1>0 DEF ResolveWaiter, ControlType
  <2>14. CASE \E w \in Waiter : FireTimer(a, w)
    <3>1. PICK w \in Waiter : FireTimer(a, w)
      BY <2>14
    <3>2. /\ UNCHANGED <<word, published, wmutex, rlock, held, torn, tgt, cur, call>>
          /\ ret' = [ret EXCEPT ![a] = "drain"]
          /\ pc' = [Woken EXCEPT ![a] = "sched"] \/ pc' = [pc EXCEPT ![a] = "sched"]
      BY <3>1 DEF FireTimer
    <3>3. pc' \in [Agent -> Places]
      BY <3>2, <1>0 DEF Woken, Broadcast, ControlType
    <3> QED BY <3>2, <3>3, <1>0 DEF ControlType
  <2>15. CASE Idle(a)
    BY <2>15, <1>0 DEF Idle, ControlType
  <2>16. CASE IdleCheck(a)
    <3>1. \/ pc' = [pc EXCEPT ![a] = "sleep"] /\ UNCHANGED ret
          \/ pc' = [pc EXCEPT ![a] = "resume"] /\ ret' = [ret EXCEPT ![a] = "loop"]
      BY <2>16 DEF IdleCheck
    <3>2. UNCHANGED <<word, published, wmutex, rlock, held, torn, tgt, cur, call>>
      BY <2>16 DEF IdleCheck
    <3> QED BY <3>1, <3>2, <1>0 DEF ControlType
  <2> QED BY <1>2, <2>1, <2>2, <2>3, <2>4, <2>5, <2>6, <2>7, <2>8, <2>9, <2>10, <2>11, <2>12, <2>13, <2>14, <2>15, <2>16 DEF System
<1>3. ASSUME NEW a \in Agent, Program(a) PROVE ControlType'
  <2> USE DEF memVars, listVars, ctlVars, loopVars, tearVars, Places, Script
  <2>1. CASE \E l \in Loc, v \in Value : Store(a, l, v)
    BY <2>1, <1>0 DEF Store, ControlType
  <2>2. CASE \E w \in Waiter, async \in BOOLEAN, l \in Loc, v \in Value, t \in Timeouts :
               BeginWait(a, w, async, l, v, t)
    <3>1. PICK w \in Waiter, async \in BOOLEAN, l \in Loc, v \in Value, t \in Timeouts :
            BeginWait(a, w, async, l, v, t)
      BY <2>2
    <3>2. /\ UNCHANGED <<word, published, wmutex, held, torn, tgt, call>>
          /\ pc[a] \in Script /\ rlock = a
          /\ \/ UNCHANGED <<pc, rlock, ret, cur>>
             \/ /\ ret' = [ret EXCEPT ![a] = pc[a]]
                /\ pc'  = [pc EXCEPT ![a] = IF async THEN "sched" ELSE "wait"]
                /\ rlock' = IF async THEN rlock ELSE Nil
                /\ cur' = IF async THEN cur ELSE [cur EXCEPT ![a] = w]
      BY <3>1 DEF BeginWait, Running
    <3>3. pc' \in [Agent -> Places] /\ rlock' \in Agent \cup {Nil}
      BY <3>2, <1>0 DEF ControlType
    <3>4. ret' \in [Agent -> Script \cup {"loop", "drain", "abandon"}]
      BY <3>2, <1>0 DEF ControlType
    <3>5. cur' \in [Agent -> Waiter \cup {Nil}]
      BY <3>2, <1>0 DEF ControlType
    <3> QED BY <3>2, <3>3, <3>4, <3>5, <1>0 DEF ControlType
  <2>3. CASE \E l \in Loc, n \in 0..MaxCount : NotifyBegin(a, l, n, FALSE)
    BY <2>3, <1>0 DEF NotifyBegin, Running, ControlType
  <2>4. CASE \E l \in Loc : NotifyBegin(a, l, 0, TRUE)
    BY <2>4, <1>0 DEF NotifyBegin, Running, ControlType
  <2>5. CASE Leave(a)
    BY <2>5, <1>0 DEF Leave, Running, ControlType
  <2>6. CASE FinishScript(a)
    BY <2>6, <1>0 DEF FinishScript, Running, ControlType
  <2>7. CASE Checkpoint(a)
    BY <2>7, <1>0 DEF Checkpoint, Running, ControlType
  <2> QED BY <1>3, <2>1, <2>2, <2>3, <2>4, <2>5, <2>6, <2>7 DEF Program
<1>4. ASSUME NEW a \in Agent, CondReturns(a) PROVE ControlType'
  BY <1>4, <1>0 DEF CondReturns, memVars, listVars, ctlVars, loopVars, tearVars, Places, Script, ControlType
<1>5. CASE Cleanup
  <2> USE DEF memVars, listVars, ctlVars, loopVars, tearVars, Places, Script
  <2>1. CASE \E b \in Agent : Teardown(b)
    BY <2>1, <1>0 DEF Teardown, ControlType
  <2>2. CASE AbandonWaiting
    BY <2>2, <1>0 DEF AbandonWaiting, CompleteLocked, Woken, Broadcast, ControlType
  <2>3. CASE AbandonReady
    BY <2>3, <1>0 DEF AbandonReady, ControlType
  <2>4. CASE AbandonEnd
    BY <2>4, <1>0 DEF AbandonEnd, ControlType
  <2>5. CASE TeardownEnds
    BY <2>5, <1>0 DEF TeardownEnds, ControlType
  <2> QED BY <1>5, <2>1, <2>2, <2>3, <2>4, <2>5 DEF Cleanup
<1> QED BY <1>1, <1>2, <1>3, <1>4, <1>5 DEF Next
-----------------------------------------------------------------------------
InWait == {"wait", "asleep"}

\* What keeps WaitsOnOwnRecord: no thread enters or leaves Atomics.wait, and
\* synchronous records in use change only by being completed.
LEMMA WaitsStable ==
  ASSUME IInv, UNCHANGED cur,
         \A b \in Agent : pc'[b] \in InWait <=> pc[b] \in InWait,
         \A w \in Waiter : rec[w].status # "free" /\ ~rec[w].async =>
            /\ rec'[w].async = rec[w].async /\ outcome'[w] = outcome[w]
            /\ rec'[w].status = rec[w].status \/ rec'[w].status \in Terminal
  PROVE  WaitsOnOwnRecord'
<1>1. WaitsOnOwnRecord /\ cur \in [Agent -> Waiter \cup {Nil}]
  BY DEF IInv, TypeOK
<1> QED BY <1>1 DEF WaitsOnOwnRecord, InWait, Terminal

\* The same, for a step that completes the pending record w.
LEMMA WaitsStableCompletion ==
  ASSUME IInv, UNCHANGED <<cur, outcome>>,
         \A b \in Agent : pc'[b] \in InWait <=> pc[b] \in InWait,
         NEW w \in Waiter, NEW st \in Terminal, CompleteLocked(w, st)
  PROVE  WaitsOnOwnRecord'
<1>1. /\ rec'[w].status = st /\ rec'[w].async = rec[w].async
      /\ \A v \in Waiter \ {w} : rec'[v] = rec[v]
  BY DEF CompleteLocked, Released, IInv, TypeOK, Records
<1> QED BY <1>1, WaitsStable

\* Every step keeps WaitsOnOwnRecord.
LEMMA WaitsOnOwnRecordStep ==
  ASSUME IInv, [Next]_vars
  PROVE  WaitsOnOwnRecord'
<1>0. /\ pc \in [Agent -> Places] /\ rec \in [Waiter -> Records]
      /\ ret \in [Agent -> Script \cup {"loop", "drain", "abandon"}]
  BY DEF IInv, TypeOK
<1> USE AgentAssumption
<1>1. CASE UNCHANGED vars
  BY <1>1, <1>0, WaitsStable DEF vars, listVars, ctlVars, InWait
<1>2. ASSUME NEW a \in Agent, System(a) PROVE WaitsOnOwnRecord'
  <2> USE DEF listVars, ctlVars, Script
  <2>1. CASE Resume(a)
    BY <2>1, <1>0, WaitsStable DEF Resume, InWait
  <2>2. CASE SuspendReturns(a)
    <3>1. /\ cur' = [cur EXCEPT ![a] = Nil] /\ pc' = [pc EXCEPT ![a] = "resume"]
          /\ rec' = [rec EXCEPT ![cur[a]] = Released(@.status)]
          /\ outcome' = [outcome EXCEPT ![cur[a]] = rec[cur[a]].status]
      BY <2>2 DEF SuspendReturns
    <3>2. /\ cur \in [Agent -> Waiter \cup {Nil}] /\ WaitsOnOwnRecord
          /\ outcome \in [Waiter -> Outcomes]
      BY DEF IInv, TypeOK
    <3>3. cur[a] # Nil /\ cur[a] \in Waiter
      BY <2>2, <3>2 DEF SuspendReturns, WaitsOnOwnRecord
    <3>4. \A b \in Agent \ {a} : cur[b] # Nil =>
            cur'[b] = cur[b] /\ rec'[cur[b]] = rec[cur[b]] /\ outcome'[cur[b]] = outcome[cur[b]]
      BY <1>0, <3>1, <3>2, <3>3 DEF WaitsOnOwnRecord
    <3> QED BY <1>0, <3>1, <3>2, <3>3, <3>4 DEF WaitsOnOwnRecord
  <2>3. CASE SuspendTimesOut(a)
    <3>1. /\ \A b \in Agent : pc'[b] \in InWait <=> pc[b] \in InWait
          /\ UNCHANGED <<cur, outcome>>
      BY <2>3, <1>0 DEF SuspendTimesOut, Woken, Broadcast, InWait
    <3>2. cur[a] \in Waiter
      BY <2>3 DEF SuspendTimesOut, IInv, WaitsOnOwnRecord, TypeOK
    <3> QED BY <2>3, <3>1, <3>2, WaitsStableCompletion DEF SuspendTimesOut, Terminal
  <2>4. CASE SuspendSleeps(a)
    BY <2>4, <1>0, WaitsStable DEF SuspendSleeps, InWait
  <2>5. CASE NotifyStep(a)
    <3>1. /\ \A b \in Agent : pc'[b] \in InWait <=> pc[b] \in InWait
          /\ UNCHANGED <<cur, outcome>>
      BY <2>5, <1>0 DEF NotifyStep, Woken, Broadcast, InWait
    <3>2. Oldest(waiting, At(call[a].loc)) \in Waiter
      BY <2>5, OldestIsPending DEF NotifyStep, NotifyMore
    <3> QED BY <2>5, <3>1, <3>2, WaitsStableCompletion DEF NotifyStep, Terminal
  <2>6. CASE NotifyEnd(a)
    BY <2>6, <1>0, WaitsStable DEF NotifyEnd, NoCall, InWait
  <2>7. CASE NotifyWakes(a)
    BY <2>7, <1>0, WaitsStable DEF NotifyWakes, WakeLoops, Broadcast, InWait
  <2>8. CASE UnheldWakes(a)
    BY <2>8, <1>0, WaitsStable DEF UnheldWakes, WakeLoops, Broadcast, InWait
  <2>9. CASE SchedStep(a)
    BY <2>9, <1>0, WaitsStable DEF SchedStep, InWait
  <2>10. CASE SchedEnd(a)
    BY <2>10, <1>0, WaitsStable DEF SchedEnd, InWait
  <2>11. CASE LoopExit(a)
    BY <2>11, <1>0, WaitsStable DEF LoopExit, Exit, InWait
  <2>12. CASE LoopTurn(a)
    BY <2>12, <1>0, WaitsStable DEF LoopTurn, InWait
  <2>13. CASE ResolveWaiter(a)
    <3>1. PICK w \in Waiter : /\ rec' = [rec EXCEPT ![w] = Released(@.status)]
                              /\ outcome' = [outcome EXCEPT ![w] = rec[w].status]
                              /\ rec[w].async
      <4>1. Head(jobs[a]) \in Members(jobs[a]) /\ Head(jobs[a]) \in Waiter
        BY <2>13, HeadTailProperties, ElementOfSeq DEF ResolveWaiter, IInv, TypeOK, Members
      <4> QED BY <2>13, <4>1 DEF ResolveWaiter, IInv, CompletionConserved, Pending
    <3>2. /\ \A b \in Agent : pc'[b] \in InWait <=> pc[b] \in InWait
          /\ UNCHANGED cur
      BY <2>13, <1>0 DEF ResolveWaiter, InWait
    <3>3. outcome \in [Waiter -> Outcomes]
      BY DEF IInv, TypeOK
    <3> QED BY <1>0, <3>1, <3>2, <3>3, WaitsStable
  <2>14. CASE \E w \in Waiter : FireTimer(a, w)
    <3>0. PICK w \in Waiter : FireTimer(a, w)
      BY <2>14
    <3>1. /\ \A b \in Agent : pc'[b] \in InWait <=> pc[b] \in InWait
          /\ UNCHANGED <<cur, outcome>>
      BY <3>0, <1>0 DEF FireTimer, Woken, Broadcast, InWait
    <3>2. UNCHANGED rec \/ CompleteLocked(w, "timed-out")
      BY <3>0 DEF FireTimer, listVars
    <3> QED BY <3>1, <3>2, WaitsStable, WaitsStableCompletion DEF Terminal
  <2>15. CASE Idle(a)
    BY <2>15, <1>0, WaitsStable DEF Idle, InWait
  <2>16. CASE IdleCheck(a)
    BY <2>16, <1>0, WaitsStable DEF IdleCheck, InWait
  <2> QED BY <1>2, <2>1, <2>2, <2>3, <2>4, <2>5, <2>6, <2>7, <2>8, <2>9, <2>10, <2>11, <2>12, <2>13, <2>14, <2>15, <2>16 DEF System
<1>3. ASSUME NEW a \in Agent, Program(a) PROVE WaitsOnOwnRecord'
  <2> USE DEF listVars, ctlVars, Script
  <2>1. CASE \E l \in Loc, v \in Value : Store(a, l, v)
    BY <2>1, <1>0, WaitsStable DEF Store, InWait
  <2>2. CASE \E w \in Waiter, async \in BOOLEAN, l \in Loc, v \in Value, t \in Timeouts :
               BeginWait(a, w, async, l, v, t)
    <3>1. PICK w \in Waiter, async \in BOOLEAN, l \in Loc, v \in Value, t \in Timeouts :
            BeginWait(a, w, async, l, v, t)
      BY <2>2
    <3>2. /\ rec[w].status = "free" /\ pc[a] \in Script
          /\ \A u \in Waiter \ {w} : rec'[u] = rec[u] /\ outcome'[u] = outcome[u]
      BY <1>0, <3>1 DEF BeginWait, Running, IInv, TypeOK
    <3>3. CASE UNCHANGED <<pc, cur>>
      BY <3>2, <3>3, WaitsStable
    <3>4. CASE pc' = [pc EXCEPT ![a] = "sched"] /\ UNCHANGED cur
      BY <1>0, <3>2, <3>4, WaitsStable DEF InWait, Script
    <3>5. CASE /\ pc' = [pc EXCEPT ![a] = "wait"] /\ cur' = [cur EXCEPT ![a] = w]
               /\ ~async /\ rec'[w].status = "pending"
      <4>1. outcome'[w] = "none" /\ ~rec'[w].async
        BY <1>0, <3>1, <3>5 DEF BeginWait, Released, IInv, TypeOK
      <4>2. WaitsOnOwnRecord /\ cur \in [Agent -> Waiter \cup {Nil}]
        BY DEF IInv, TypeOK
      <4>3. \A b \in Agent : cur[b] # w
        BY <3>2, <4>2 DEF WaitsOnOwnRecord, Terminal
      <4> QED BY <1>0, <3>2, <3>5, <4>1, <4>2, <4>3 DEF WaitsOnOwnRecord, Script
    <3> QED BY <1>0, <3>1, <3>3, <3>4, <3>5 DEF BeginWait, BeginStatus, Released
  <2>3. CASE \E l \in Loc, n \in 0..MaxCount : NotifyBegin(a, l, n, FALSE)
    BY <2>3, <1>0, WaitsStable DEF NotifyBegin, Running, InWait
  <2>4. CASE \E l \in Loc : NotifyBegin(a, l, 0, TRUE)
    BY <2>4, <1>0, WaitsStable DEF NotifyBegin, Running, InWait
  <2>5. CASE Leave(a)
    BY <2>5, <1>0, WaitsStable DEF Leave, Running, InWait
  <2>6. CASE FinishScript(a)
    BY <2>6, <1>0, WaitsStable DEF FinishScript, Running, InWait
  <2>7. CASE Checkpoint(a)
    BY <2>7, <1>0, WaitsStable DEF Checkpoint, Running, InWait
  <2> QED BY <1>3, <2>1, <2>2, <2>3, <2>4, <2>5, <2>6, <2>7 DEF Program
<1>4. ASSUME NEW a \in Agent, CondReturns(a) PROVE WaitsOnOwnRecord'
  BY <1>4, <1>0, WaitsStable DEF CondReturns, listVars, ctlVars, Script, InWait
<1>5. CASE Cleanup
  <2> USE DEF listVars, ctlVars, Script
  <2>1. CASE \E b \in Agent : Teardown(b)
    BY <2>1, <1>0, WaitsStable DEF Teardown, InWait
  <2>2. CASE AbandonWaiting
    <3>1. /\ \A b \in Agent : pc'[b] \in InWait <=> pc[b] \in InWait
          /\ UNCHANGED <<cur, outcome>>
      BY <2>2, <1>0 DEF AbandonWaiting, Woken, Broadcast, InWait
    <3>2. Oldest(waiting, Of(tgt)) \in Waiter
      BY <2>2, OldestIsPending DEF AbandonWaiting
    <3> QED BY <2>2, <3>1, <3>2, WaitsStableCompletion DEF AbandonWaiting, Terminal
  <2>3. CASE AbandonReady
    <3> DEFINE w == Oldest(ready, Of(tgt))
    <3>1. w \in Members(ready) /\ w \in Waiter
      BY <2>3, OldestProperties DEF AbandonReady, Of, IInv, TypeOK
    <3>2. rec[w].async
      BY <3>1 DEF IInv, CompletionConserved, Pending
    <3>3. /\ rec' = [rec EXCEPT ![w] = Released(@.status)] /\ UNCHANGED <<pc, cur, outcome>>
      BY <2>3 DEF AbandonReady
    <3> HIDE DEF w
    <3> QED BY <1>0, <3>1, <3>2, <3>3, WaitsStable
  <2>4. CASE AbandonEnd
    BY <2>4, <1>0, WaitsStable DEF AbandonEnd, InWait
  <2>5. CASE TeardownEnds
    BY <2>5, <1>0, WaitsStable DEF TeardownEnds, InWait
  <2> QED BY <1>5, <2>1, <2>2, <2>3, <2>4, <2>5 DEF Cleanup
<1> QED BY <1>1, <1>2, <1>3, <1>4, <1>5 DEF Next
-----------------------------------------------------------------------------
\* A pending record keeps its location and expected value, so NoMissedStore is
\* kept by every step that touches no word and enqueues nothing.
LEMMA NoMissedStoreStable ==
  ASSUME IInv, UNCHANGED <<word, published>>,
         \A w \in Waiter : rec'[w].status = "pending" => rec'[w] = rec[w]
  PROVE  NoMissedStore'
BY DEF IInv, NoMissedStore

\* Every step keeps NoMissedStore.
LEMMA NoMissedStoreStep ==
  ASSUME IInv, [Next]_vars
  PROVE  NoMissedStore'
<1>0. /\ rec \in [Waiter -> Records] /\ word \in [Loc -> Value]
      /\ published \in [Loc -> BOOLEAN] /\ NoMissedStore
      /\ \A w \in Waiter : rec[w].status = "pending" => rec[w].loc \in Loc
  BY DEF IInv, TypeOK, RecordShape
<1>1. CASE UNCHANGED vars
  BY <1>1, NoMissedStoreStable DEF vars, memVars, listVars, ctlVars
<1>2. ASSUME NEW a \in Agent, System(a) PROVE NoMissedStore'
  <2> USE DEF memVars, listVars, ctlVars
  <2>1. CASE Resume(a)
    BY <2>1, NoMissedStoreStable DEF Resume
  <2>2. CASE SuspendReturns(a)
    <3>1. PICK w \in Waiter : /\ rec' = [rec EXCEPT ![w] = Released(@.status)]
                              /\ rec[w].status # "pending"
      <4>1. cur[a] \in Waiter
        BY <2>2 DEF SuspendReturns, IInv, TypeOK, WaitsOnOwnRecord
      <4> QED BY <2>2, <4>1 DEF SuspendReturns
    <3> QED BY <1>0, <3>1, <2>2, NoMissedStoreStable DEF SuspendReturns, Released
  <2>3. CASE SuspendTimesOut(a)
    <3>1. cur[a] \in Waiter
      BY <2>3 DEF SuspendTimesOut, IInv, WaitsOnOwnRecord, TypeOK
    <3>2. \A v \in Waiter : rec'[v].status = "pending" => rec'[v] = rec[v]
      BY <1>0, <3>1, <2>3 DEF SuspendTimesOut, CompleteLocked, Released, Terminal
    <3> QED BY <3>2, <2>3, NoMissedStoreStable DEF SuspendTimesOut
  <2>4. CASE SuspendSleeps(a)
    BY <2>4, NoMissedStoreStable DEF SuspendSleeps
  <2>5. CASE NotifyStep(a)
    <3>1. Oldest(waiting, At(call[a].loc)) \in Waiter
      BY <2>5, OldestIsPending DEF NotifyStep, NotifyMore
    <3>2. \A v \in Waiter : rec'[v].status = "pending" => rec'[v] = rec[v]
      BY <1>0, <3>1, <2>5 DEF NotifyStep, CompleteLocked, Released, Terminal
    <3> QED BY <3>2, <2>5, NoMissedStoreStable DEF NotifyStep
  <2>6. CASE NotifyEnd(a)
    <3>1. UNCHANGED <<word, rec>>
      BY <2>6 DEF NotifyEnd
    <3>2. CASE call[a].all
      <4>1. \A w \in Waiter : rec[w].status = "pending" => rec[w].loc # call[a].loc
        BY <2>6, <3>2 DEF NotifyEnd, NotifyMore, At, IInv, WaitListExact
      <4> QED BY <2>6, <1>0, <3>1, <3>2, <4>1 DEF NotifyEnd, NoMissedStore
    <3>3. CASE ~call[a].all
      BY <2>6, <3>1, <3>3, NoMissedStoreStable DEF NotifyEnd
    <3> QED BY <3>2, <3>3
  <2>7. CASE NotifyWakes(a)
    BY <2>7, NoMissedStoreStable DEF NotifyWakes, WakeLoops, Broadcast
  <2>8. CASE UnheldWakes(a)
    BY <2>8, NoMissedStoreStable DEF UnheldWakes, WakeLoops, Broadcast
  <2>9. CASE SchedStep(a)
    BY <2>9, NoMissedStoreStable DEF SchedStep
  <2>10. CASE SchedEnd(a)
    BY <2>10, NoMissedStoreStable DEF SchedEnd
  <2>11. CASE LoopExit(a)
    BY <2>11, NoMissedStoreStable DEF LoopExit, Exit
  <2>12. CASE LoopTurn(a)
    BY <2>12, NoMissedStoreStable DEF LoopTurn
  <2>13. CASE ResolveWaiter(a)
    <3>1. PICK w \in Waiter : /\ rec' = [rec EXCEPT ![w] = Released(@.status)]
                              /\ rec[w].status # "pending"
      <4>1. Head(jobs[a]) \in Members(jobs[a]) /\ Head(jobs[a]) \in Waiter
        BY <2>13, HeadTailProperties, ElementOfSeq DEF ResolveWaiter, IInv, TypeOK, Members
      <4> QED BY <2>13, <4>1 DEF ResolveWaiter, IInv, CompletionConserved, Pending, Terminal
    <3> QED BY <1>0, <3>1, <2>13, NoMissedStoreStable DEF ResolveWaiter, Released
  <2>14. CASE \E w \in Waiter : FireTimer(a, w)
    <3>0. PICK w \in Waiter : FireTimer(a, w)
      BY <2>14
    <3>1. UNCHANGED rec \/ CompleteLocked(w, "timed-out")
      BY <3>0 DEF FireTimer
    <3>2. \A v \in Waiter : rec'[v].status = "pending" => rec'[v] = rec[v]
      BY <1>0, <3>1 DEF CompleteLocked, Released
    <3> QED BY <3>0, <3>2, NoMissedStoreStable DEF FireTimer
  <2>15. CASE Idle(a)
    BY <2>15, NoMissedStoreStable DEF Idle
  <2>16. CASE IdleCheck(a)
    BY <2>16, NoMissedStoreStable DEF IdleCheck
  <2> QED BY <1>2, <2>1, <2>2, <2>3, <2>4, <2>5, <2>6, <2>7, <2>8, <2>9, <2>10, <2>11, <2>12, <2>13, <2>14, <2>15, <2>16 DEF System
<1>3. ASSUME NEW a \in Agent, Program(a) PROVE NoMissedStore'
  <2> USE DEF memVars, listVars, ctlVars
  <2>1. CASE \E l \in Loc, v \in Value : Store(a, l, v)
    <3>1. PICK l \in Loc : /\ published' = [published EXCEPT ![l] = FALSE] /\ UNCHANGED rec
                           /\ \E v \in Value : word' = [word EXCEPT ![l] = v]
      BY <2>1 DEF Store
    <3> QED BY <1>0, <3>1 DEF NoMissedStore
  <2>2. CASE \E w \in Waiter, async \in BOOLEAN, l \in Loc, v \in Value, t \in Timeouts :
               BeginWait(a, w, async, l, v, t)
    <3>1. PICK w \in Waiter, async \in BOOLEAN, l \in Loc, v \in Value, t \in Timeouts :
            BeginWait(a, w, async, l, v, t)
      BY <2>2
    <3>2. /\ \A u \in Waiter \ {w} : rec'[u] = rec[u]
          /\ UNCHANGED <<word, published>>
          /\ rec'[w].status = "pending" => rec'[w].loc = l /\ rec'[w].expected = word[l]
      BY <1>0, <3>1 DEF BeginWait, BeginStatus, Released
    <3> QED BY <1>0, <3>2 DEF NoMissedStore
  <2>3. CASE \E l \in Loc, n \in 0..MaxCount : NotifyBegin(a, l, n, FALSE)
    BY <2>3, NoMissedStoreStable DEF NotifyBegin, Running
  <2>4. CASE \E l \in Loc : NotifyBegin(a, l, 0, TRUE)
    BY <2>4, NoMissedStoreStable DEF NotifyBegin, Running
  <2>5. CASE Leave(a)
    BY <2>5, NoMissedStoreStable DEF Leave, Running
  <2>6. CASE FinishScript(a)
    BY <2>6, NoMissedStoreStable DEF FinishScript, Running
  <2>7. CASE Checkpoint(a)
    BY <2>7, NoMissedStoreStable DEF Checkpoint, Running
  <2> QED BY <1>3, <2>1, <2>2, <2>3, <2>4, <2>5, <2>6, <2>7 DEF Program
<1>4. ASSUME NEW a \in Agent, CondReturns(a) PROVE NoMissedStore'
  BY <1>4, NoMissedStoreStable DEF CondReturns, memVars, listVars, ctlVars
<1>5. CASE Cleanup
  <2> USE DEF memVars, listVars, ctlVars
  <2>1. CASE \E b \in Agent : Teardown(b)
    BY <2>1, NoMissedStoreStable DEF Teardown
  <2>2. CASE AbandonWaiting
    <3>1. Oldest(waiting, Of(tgt)) \in Waiter
      BY <2>2, OldestIsPending DEF AbandonWaiting
    <3>2. \A v \in Waiter : rec'[v].status = "pending" => rec'[v] = rec[v]
      BY <1>0, <3>1, <2>2 DEF AbandonWaiting, CompleteLocked, Released, Terminal
    <3> QED BY <3>2, <2>2, NoMissedStoreStable DEF AbandonWaiting
  <2>3. CASE AbandonReady
    <3>1. PICK w \in Waiter : /\ rec' = [rec EXCEPT ![w] = Released(@.status)]
                              /\ rec[w].status # "pending"
      <4>1. Oldest(ready, Of(tgt)) \in Members(ready) /\ Oldest(ready, Of(tgt)) \in Waiter
        BY <2>3, OldestProperties DEF AbandonReady, Of, IInv, TypeOK
      <4> QED BY <2>3, <4>1 DEF AbandonReady, IInv, CompletionConserved, Pending, Terminal
    <3> QED BY <1>0, <3>1, <2>3, NoMissedStoreStable DEF AbandonReady, Released
  <2>4. CASE AbandonEnd
    BY <2>4, NoMissedStoreStable DEF AbandonEnd
  <2>5. CASE TeardownEnds
    BY <2>5, NoMissedStoreStable DEF TeardownEnds
  <2> QED BY <1>5, <2>1, <2>2, <2>3, <2>4, <2>5 DEF Cleanup
<1> QED BY <1>1, <1>2, <1>3, <1>4, <1>5 DEF Next
-----------------------------------------------------------------------------
\* The three parts of NoLostWakeup.
SleepsPending ==
  \A a \in Agent : pc[a] = "asleep" => rec[cur[a]].status = "pending"

CompletionWakes ==
  \A a \in Agent : pc[a] = "sleep" /\ Members(ready) \cap Of(a) # {} => WakePending(a)

HoldWakes ==
  \A a \in Agent : pc[a] = "sleep" /\ ~held[a] /\ timers[a] = {} =>
                      \E b \in Agent : pc[b] = "unheld"

LEMMA NoLostWakeupParts ==
  NoLostWakeup <=> SleepsPending /\ CompletionWakes /\ HoldWakes
BY DEF NoLostWakeup, SleepsPending, CompletionWakes, HoldWakes

\* A step that completes no record and puts nobody to sleep keeps SleepsPending.
LEMMA SleepsPendingStable ==
  ASSUME IInv,
         \A b \in Agent : pc'[b] = "asleep" => pc[b] = "asleep" /\ cur'[b] = cur[b],
         \A w \in Waiter : rec[w].status = "pending" => rec'[w].status = "pending"
  PROVE  SleepsPending'
<1>1. SleepsPending /\ WaitsOnOwnRecord /\ cur \in [Agent -> Waiter \cup {Nil}]
  BY NoLostWakeupParts DEF IInv, TypeOK
<1> QED BY <1>1 DEF SleepsPending, WaitsOnOwnRecord

\* Every step keeps SleepsPending: a completion wakes every sleeping thread.
LEMMA SleepsPendingStep ==
  ASSUME IInv, [Next]_vars
  PROVE  SleepsPending'
<1>0. /\ pc \in [Agent -> Places] /\ rec \in [Waiter -> Records]
      /\ cur \in [Agent -> Waiter \cup {Nil}] /\ SleepsPending
      /\ ret \in [Agent -> Script \cup {"loop", "drain", "abandon"}]
  BY NoLostWakeupParts DEF IInv, TypeOK
<1> USE AgentAssumption
<1>1. CASE UNCHANGED vars
  BY <1>1, <1>0, SleepsPendingStable DEF vars, listVars, ctlVars
<1>2. ASSUME NEW a \in Agent, System(a) PROVE SleepsPending'
  <2> USE DEF listVars, ctlVars, Script
  <2>1. CASE Resume(a)
    BY <2>1, <1>0, SleepsPendingStable DEF Resume
  <2>2. CASE SuspendReturns(a)
    <3>1. /\ cur' = [cur EXCEPT ![a] = Nil] /\ pc' = [pc EXCEPT ![a] = "resume"]
          /\ rec' = [rec EXCEPT ![cur[a]] = Released(@.status)]
      BY <2>2 DEF SuspendReturns
    <3>2. \A w \in Waiter : rec[w].status = "pending" => rec'[w].status = "pending"
      BY <1>0, <3>1 DEF Released
    <3> QED BY <1>0, <3>1, <3>2, SleepsPendingStable
  <2>3. CASE SuspendTimesOut(a)
    <3>1. \A b \in Agent : pc'[b] # "asleep"
      BY <2>3, <1>0 DEF SuspendTimesOut, Woken, Broadcast
    <3> QED BY <3>1 DEF SleepsPending
  <2>4. CASE SuspendSleeps(a)
    BY <2>4, <1>0 DEF SuspendSleeps, SleepsPending
  <2>5. CASE NotifyStep(a)
    <3>1. \A b \in Agent : pc'[b] # "asleep"
      BY <2>5, <1>0 DEF NotifyStep, Woken, Broadcast
    <3> QED BY <3>1 DEF SleepsPending
  <2>6. CASE NotifyEnd(a)
    BY <2>6, <1>0, SleepsPendingStable DEF NotifyEnd, NoCall
  <2>7. CASE NotifyWakes(a)
    BY <2>7, <1>0, SleepsPendingStable DEF NotifyWakes, WakeLoops, Broadcast
  <2>8. CASE UnheldWakes(a)
    BY <2>8, <1>0, SleepsPendingStable DEF UnheldWakes, WakeLoops, Broadcast
  <2>9. CASE SchedStep(a)
    BY <2>9, <1>0, SleepsPendingStable DEF SchedStep
  <2>10. CASE SchedEnd(a)
    BY <2>10, <1>0, SleepsPendingStable DEF SchedEnd
  <2>11. CASE LoopExit(a)
    BY <2>11, <1>0, SleepsPendingStable DEF LoopExit, Exit
  <2>12. CASE LoopTurn(a)
    BY <2>12, <1>0, SleepsPendingStable DEF LoopTurn
  <2>13. CASE ResolveWaiter(a)
    <3>1. /\ rec' = [rec EXCEPT ![Head(jobs[a])] = Released(@.status)]
          /\ pc' = [pc EXCEPT ![a] = "job"] /\ UNCHANGED cur
      BY <2>13 DEF ResolveWaiter
    <3>2. \A w \in Waiter : rec[w].status = "pending" => rec'[w].status = "pending"
      BY <1>0, <3>1 DEF Released
    <3> QED BY <1>0, <3>1, <3>2, SleepsPendingStable
  <2>14. CASE \E w \in Waiter : FireTimer(a, w)
    <3>1. PICK w \in Waiter : FireTimer(a, w)
      BY <2>14
    <3>2. CASE rec[w].status = "pending"
      <4>1. \A b \in Agent : pc'[b] # "asleep"
        BY <3>1, <3>2, <1>0 DEF FireTimer, Woken, Broadcast
      <4> QED BY <4>1 DEF SleepsPending
    <3>3. CASE rec[w].status # "pending"
      BY <3>1, <3>3, <1>0, SleepsPendingStable DEF FireTimer
    <3> QED BY <3>2, <3>3
  <2>15. CASE Idle(a)
    BY <2>15, <1>0, SleepsPendingStable DEF Idle
  <2>16. CASE IdleCheck(a)
    BY <2>16, <1>0, SleepsPendingStable DEF IdleCheck
  <2> QED BY <1>2, <2>1, <2>2, <2>3, <2>4, <2>5, <2>6, <2>7, <2>8, <2>9, <2>10, <2>11, <2>12, <2>13, <2>14, <2>15, <2>16 DEF System
<1>3. ASSUME NEW a \in Agent, Program(a) PROVE SleepsPending'
  <2> USE DEF listVars, ctlVars, Script
  <2>1. CASE \E l \in Loc, v \in Value : Store(a, l, v)
    BY <2>1, <1>0, SleepsPendingStable DEF Store
  <2>2. CASE \E w \in Waiter, async \in BOOLEAN, l \in Loc, v \in Value, t \in Timeouts :
               BeginWait(a, w, async, l, v, t)
    <3>1. PICK w \in Waiter, async \in BOOLEAN, l \in Loc, v \in Value, t \in Timeouts :
            BeginWait(a, w, async, l, v, t)
      BY <2>2
    <3>2. /\ rec[w].status = "free" /\ pc[a] \in Script
          /\ \A u \in Waiter \ {w} : rec'[u] = rec[u]
      BY <1>0, <3>1 DEF BeginWait, Running
    <3>3. \/ UNCHANGED <<pc, cur>>
          \/ pc' = [pc EXCEPT ![a] = "sched"] /\ UNCHANGED cur
          \/ pc' = [pc EXCEPT ![a] = "wait"] /\ cur' = [cur EXCEPT ![a] = w]
      BY <3>1 DEF BeginWait
    <3>4. \A b \in Agent : pc'[b] = "asleep" => pc[b] = "asleep" /\ cur'[b] = cur[b]
      BY <1>0, <3>2, <3>3
    <3> QED BY <3>2, <3>4, SleepsPendingStable
  <2>3. CASE \E l \in Loc, n \in 0..MaxCount : NotifyBegin(a, l, n, FALSE)
    BY <2>3, <1>0, SleepsPendingStable DEF NotifyBegin, Running
  <2>4. CASE \E l \in Loc : NotifyBegin(a, l, 0, TRUE)
    BY <2>4, <1>0, SleepsPendingStable DEF NotifyBegin, Running
  <2>5. CASE Leave(a)
    BY <2>5, <1>0, SleepsPendingStable DEF Leave, Running
  <2>6. CASE FinishScript(a)
    BY <2>6, <1>0, SleepsPendingStable DEF FinishScript, Running
  <2>7. CASE Checkpoint(a)
    BY <2>7, <1>0, SleepsPendingStable DEF Checkpoint, Running
  <2> QED BY <1>3, <2>1, <2>2, <2>3, <2>4, <2>5, <2>6, <2>7 DEF Program
<1>4. ASSUME NEW a \in Agent, CondReturns(a) PROVE SleepsPending'
  BY <1>4, <1>0, SleepsPendingStable DEF CondReturns, listVars, ctlVars, Script
<1>5. CASE Cleanup
  <2> USE DEF listVars, ctlVars, Script
  <2>1. CASE \E b \in Agent : Teardown(b)
    BY <2>1, <1>0, SleepsPendingStable DEF Teardown
  <2>2. CASE AbandonWaiting
    <3>1. \A b \in Agent : pc'[b] # "asleep"
      BY <2>2, <1>0 DEF AbandonWaiting, Woken, Broadcast
    <3> QED BY <3>1 DEF SleepsPending
  <2>3. CASE AbandonReady
    <3> DEFINE w == Oldest(ready, Of(tgt))
    <3>1. rec' = [rec EXCEPT ![w] = Released(@.status)] /\ UNCHANGED <<pc, cur>>
      BY <2>3 DEF AbandonReady
    <3> HIDE DEF w
    <3>2. \A u \in Waiter : rec[u].status = "pending" => rec'[u].status = "pending"
      BY <1>0, <3>1 DEF Released
    <3> QED BY <1>0, <3>1, <3>2, SleepsPendingStable
  <2>4. CASE AbandonEnd
    BY <2>4, <1>0, SleepsPendingStable DEF AbandonEnd
  <2>5. CASE TeardownEnds
    BY <2>5, <1>0, SleepsPendingStable DEF TeardownEnds
  <2> QED BY <1>5, <2>1, <2>2, <2>3, <2>4, <2>5 DEF Cleanup
<1> QED BY <1>1, <1>2, <1>3, <1>4, <1>5 DEF Next

\* A step that puts no loop to sleep and publishes no completion keeps HoldWakes.
LEMMA HoldWakesStable ==
  ASSUME IInv,
         \A b \in Agent : pc'[b] = "sleep" => pc[b] = "sleep",
         \A b \in Agent : pc[b] = "sleep" => held'[b] = held[b] /\ timers'[b] = timers[b],
         \A b \in Agent : pc[b] = "unheld" => pc'[b] = "unheld"
  PROVE  HoldWakes'
<1>1. HoldWakes
  BY NoLostWakeupParts DEF IInv
<1> QED BY <1>1 DEF HoldWakes

\* Every step keeps HoldWakes: the agent that releases a hold still has its
\* broadcast to make.
LEMMA HoldWakesStep ==
  ASSUME IInv, [Next]_vars
  PROVE  HoldWakes'
<1>0. /\ pc \in [Agent -> Places] /\ held \in [Agent -> BOOLEAN]
      /\ timers \in [Agent -> SUBSET Waiter] /\ HoldWakes
      /\ ret \in [Agent -> Script \cup {"loop", "drain", "abandon"}]
  BY NoLostWakeupParts DEF IInv, TypeOK
<1> USE AgentAssumption
<1>1. CASE UNCHANGED vars
  BY <1>1, <1>0, HoldWakesStable DEF vars, loopVars, ctlVars
<1>2. ASSUME NEW a \in Agent, System(a) PROVE HoldWakes'
  <2> USE DEF loopVars, ctlVars, Script
  <2>1. CASE Resume(a)
    BY <2>1, <1>0, HoldWakesStable DEF Resume
  <2>2. CASE SuspendReturns(a)
    BY <2>2, <1>0, HoldWakesStable DEF SuspendReturns
  <2>3. CASE SuspendTimesOut(a)
    BY <2>3, <1>0, HoldWakesStable DEF SuspendTimesOut, CompleteLocked, Woken, Broadcast
  <2>4. CASE SuspendSleeps(a)
    BY <2>4, <1>0, HoldWakesStable DEF SuspendSleeps
  <2>5. CASE NotifyStep(a)
    BY <2>5, <1>0, HoldWakesStable DEF NotifyStep, NotifyMore, CompleteLocked, Woken, Broadcast
  <2>6. CASE NotifyEnd(a)
    BY <2>6, <1>0, HoldWakesStable DEF NotifyEnd, NoCall
  <2>7. CASE NotifyWakes(a)
    BY <2>7, <1>0, HoldWakesStable DEF NotifyWakes, WakeLoops, Broadcast
  <2>8. CASE UnheldWakes(a)
    <3>1. \A b \in Agent : pc'[b] # "sleep"
      BY <2>8, <1>0 DEF UnheldWakes, WakeLoops, Broadcast
    <3> QED BY <3>1 DEF HoldWakes
  <2>9. CASE SchedStep(a)
    BY <2>9, <1>0, HoldWakesStable DEF SchedStep
  <2>10. CASE SchedEnd(a)
    BY <2>10, <1>0, HoldWakesStable DEF SchedEnd
  <2>11. CASE LoopExit(a)
    BY <2>11, <1>0, HoldWakesStable DEF LoopExit, Exit
  <2>12. CASE LoopTurn(a)
    BY <2>12, <1>0, HoldWakesStable DEF LoopTurn
  <2>13. CASE ResolveWaiter(a)
    BY <2>13, <1>0, HoldWakesStable DEF ResolveWaiter
  <2>14. CASE \E w \in Waiter : FireTimer(a, w)
    <3>1. PICK w \in Waiter : FireTimer(a, w)
      BY <2>14
    <3>2. /\ pc[a] = "drain" /\ UNCHANGED held /\ timers' = [timers EXCEPT ![a] = @ \ {w}]
          /\ pc' = [Woken EXCEPT ![a] = "sched"] \/ pc' = [pc EXCEPT ![a] = "sched"]
      BY <3>1 DEF FireTimer
    <3> QED BY <1>0, <3>2, HoldWakesStable DEF Woken, Broadcast
  <2>15. CASE Idle(a)
    BY <2>15, <1>0, HoldWakesStable DEF Idle
  <2>16. CASE IdleCheck(a)
    BY <2>16, <1>0 DEF IdleCheck, HoldWakes
  <2> QED BY <1>2, <2>1, <2>2, <2>3, <2>4, <2>5, <2>6, <2>7, <2>8, <2>9, <2>10, <2>11, <2>12, <2>13, <2>14, <2>15, <2>16 DEF System
<1>3. ASSUME NEW a \in Agent, Program(a) PROVE HoldWakes'
  <2> USE DEF loopVars, ctlVars, Script
  <2>1. CASE \E l \in Loc, v \in Value : Store(a, l, v)
    BY <2>1, <1>0, HoldWakesStable DEF Store
  <2>2. CASE \E w \in Waiter, async \in BOOLEAN, l \in Loc, v \in Value, t \in Timeouts :
               BeginWait(a, w, async, l, v, t)
    <3>1. PICK w \in Waiter, async \in BOOLEAN, l \in Loc, v \in Value, t \in Timeouts :
            BeginWait(a, w, async, l, v, t)
      BY <2>2
    <3>2. /\ pc[a] \in Script /\ UNCHANGED held
          /\ timers' = timers \/ timers' = [timers EXCEPT ![a] = @ \cup {w}]
          /\ pc' = pc \/ pc' = [pc EXCEPT ![a] = IF async THEN "sched" ELSE "wait"]
      BY <3>1 DEF BeginWait, Running
    <3> QED BY <1>0, <3>2, HoldWakesStable
  <2>3. CASE \E l \in Loc, n \in 0..MaxCount : NotifyBegin(a, l, n, FALSE)
    BY <2>3, <1>0, HoldWakesStable DEF NotifyBegin, Running
  <2>4. CASE \E l \in Loc : NotifyBegin(a, l, 0, TRUE)
    BY <2>4, <1>0, HoldWakesStable DEF NotifyBegin, Running
  <2>5. CASE Leave(a)
    <3>1. pc'[a] = "unheld"
      BY <2>5, <1>0 DEF Leave
    <3> QED BY <3>1 DEF HoldWakes
  <2>6. CASE FinishScript(a)
    BY <2>6, <1>0, HoldWakesStable DEF FinishScript, Running
  <2>7. CASE Checkpoint(a)
    BY <2>7, <1>0, HoldWakesStable DEF Checkpoint, Running
  <2> QED BY <1>3, <2>1, <2>2, <2>3, <2>4, <2>5, <2>6, <2>7 DEF Program
<1>4. ASSUME NEW a \in Agent, CondReturns(a) PROVE HoldWakes'
  BY <1>4, <1>0, HoldWakesStable DEF CondReturns, loopVars, ctlVars, Script
<1>5. CASE Cleanup
  <2> USE DEF loopVars, ctlVars, Script
  <2>1. CASE \E b \in Agent : Teardown(b)
    <3>1. pc'[Main] = "unheld"
      BY <2>1, <1>0 DEF Teardown
    <3> QED BY <3>1 DEF HoldWakes
  <2>2. CASE AbandonWaiting
    BY <2>2, <1>0, HoldWakesStable DEF AbandonWaiting, CompleteLocked, Woken, Broadcast
  <2>3. CASE AbandonReady
    BY <2>3, <1>0, HoldWakesStable DEF AbandonReady
  <2>4. CASE AbandonEnd
    BY <2>4, <1>0, HoldWakesStable DEF AbandonEnd
  <2>5. CASE TeardownEnds
    BY <2>5, <1>0, HoldWakesStable DEF TeardownEnds
  <2> QED BY <1>5, <2>1, <2>2, <2>3, <2>4, <2>5 DEF Cleanup
<1> QED BY <1>1, <1>2, <1>3, <1>4, <1>5 DEF Next

\* Agents other than a, and a too when it stays where it is, keep their
\* pending broadcasts.
LEMMA WakePendingStable ==
  ASSUME \A b \in Agent : pc[b] \in {"wake", "notify", "abandon"} =>
            pc'[b] = pc[b] /\ call'[b] = call[b],
         UNCHANGED tgt \/ pc[Main] # "abandon"
  PROVE  \A c \in Agent : WakePending(c) => WakePending(c)'
BY AgentAssumption DEF WakePending

\* A step that puts no loop to sleep, gives no sleeping loop a completion and
\* keeps the pending broadcasts keeps CompletionWakes.
LEMMA CompletionWakesStable ==
  ASSUME IInv,
         \A b \in Agent : pc'[b] = "sleep" => pc[b] = "sleep",
         \A b \in Agent : pc[b] = "sleep" => Members(ready') \cap Of(b)' \subseteq Members(ready) \cap Of(b),
         \A b \in Agent : WakePending(b) => WakePending(b)'
  PROVE  CompletionWakes'
<1>1. CompletionWakes
  BY NoLostWakeupParts DEF IInv
<1> QED BY <1>1 DEF CompletionWakes

\* The case of a step that touches neither the ready list nor the records.
LEMMA CompletionWakesQuiet ==
  ASSUME IInv, UNCHANGED <<ready, rec>>,
         \A b \in Agent : pc'[b] = "sleep" => pc[b] = "sleep",
         \A b \in Agent : pc[b] \in {"wake", "notify", "abandon"} =>
            pc'[b] = pc[b] /\ call'[b] = call[b],
         UNCHANGED tgt \/ pc[Main] # "abandon"
  PROVE  CompletionWakes'
<1>1. \A b \in Agent : Members(ready') \cap Of(b)' \subseteq Members(ready) \cap Of(b)
  BY DEF Members, Of
<1> QED BY <1>1, WakePendingStable, CompletionWakesStable

\* Every step keeps CompletionWakes: whoever completes a record of a sleeping
\* loop has its broadcast still to make.
LEMMA CompletionWakesStep ==
  ASSUME IInv, [Next]_vars
  PROVE  CompletionWakes'
<1>0. /\ pc \in [Agent -> Places] /\ rec \in [Waiter -> Records]
      /\ ret \in [Agent -> Script \cup {"loop", "drain", "abandon"}]
      /\ ready \in Seq(Waiter) /\ CompletionWakes /\ NoDup(ready)
      /\ call \in [Agent -> [loc : Loc \cup {Nil}, left : Nat, all : BOOLEAN, any : BOOLEAN]]
  BY NoLostWakeupParts DEF IInv, TypeOK, CompletionConserved
<1> USE AgentAssumption
<1>1. CASE UNCHANGED vars
  BY <1>1, <1>0, CompletionWakesQuiet DEF vars, listVars, ctlVars, tearVars
<1>2. ASSUME NEW a \in Agent, System(a) PROVE CompletionWakes'
  <2> USE DEF listVars, loopVars, ctlVars, tearVars, Script
  <2>1. CASE Resume(a)
    BY <2>1, <1>0, CompletionWakesQuiet DEF Resume
  <2>2. CASE SuspendReturns(a)
    <3>1. PICK w : rec' = [rec EXCEPT ![w] = Released(@.status)]
      BY <2>2 DEF SuspendReturns
    <3>2. \A b \in Agent : Of(b)' \subseteq Of(b)
      BY <1>0, <3>1 DEF Of, Released
    <3>3. Members(ready') \subseteq Members(ready)
      BY <2>2 DEF SuspendReturns, Members
    <3>4. \A b \in Agent : WakePending(b) => WakePending(b)'
      BY <1>0, <2>2, WakePendingStable DEF SuspendReturns
    <3>5. \A b \in Agent : pc'[b] = "sleep" => pc[b] = "sleep"
      BY <1>0, <2>2 DEF SuspendReturns
    <3> QED BY <3>2, <3>3, <3>4, <3>5, CompletionWakesStable
  <2>3. CASE SuspendTimesOut(a)
    <3> DEFINE w == cur[a]
    <3>1. w \in Waiter /\ rec[w].status = "pending"
      BY <2>3 DEF SuspendTimesOut, IInv, WaitsOnOwnRecord, TypeOK
    <3>2. \E st \in Terminal : CompleteLocked(w, st)
      BY <2>3 DEF SuspendTimesOut, Terminal
    <3>3. UNCHANGED <<jobs, outcome>>
      BY <2>3 DEF SuspendTimesOut
    <3> HIDE DEF w
    <3>4. /\ \A b \in Agent : Of(b)' = Of(b)
          /\ Members(ready') = Members(ready) \cup (IF rec[w].async THEN {w} ELSE {})
      BY <3>1, <3>2, <3>3, CompleteLockedEffect DEF Of, IInv
    <3>5. \A b \in Agent : pc'[b] = "sleep" => pc[b] = "sleep"
      BY <2>3, <1>0 DEF SuspendTimesOut, Woken, Broadcast
    <3>6. ~rec[w].async
      BY <2>3 DEF w, SuspendTimesOut, IInv, WaitsOnOwnRecord
    <3>7. \A b \in Agent : WakePending(b) => WakePending(b)'
      BY <1>0, <2>3, WakePendingStable DEF SuspendTimesOut, Woken, Broadcast
    <3> QED BY <3>4, <3>5, <3>6, <3>7, CompletionWakesStable
  <2>4. CASE SuspendSleeps(a)
    BY <2>4, <1>0, CompletionWakesQuiet DEF SuspendSleeps
  <2>5. CASE NotifyStep(a)
    <3>1. pc'[a] = "notify" /\ call'[a].any
      BY <2>5, <1>0 DEF NotifyStep, Woken, Broadcast, Counted
    <3>2. \A c \in Agent : WakePending(c)'
      BY <3>1 DEF WakePending
    <3> QED BY <3>2 DEF CompletionWakes
  <2>6. CASE NotifyEnd(a)
    <3>1. \A c \in Agent : WakePending(c) => WakePending(c)'
      <4>1. CASE call[a].any
        <5>1. pc'[a] = "wake"
          BY <2>6, <4>1, <1>0 DEF NotifyEnd
        <5> QED BY <5>1 DEF WakePending
      <4>2. CASE ~call[a].any
        BY <2>6, <4>2, <1>0 DEF NotifyEnd, WakePending
      <4> QED BY <4>1, <4>2
    <3>2. \A b \in Agent : Members(ready') \cap Of(b)' = Members(ready) \cap Of(b)
      BY <2>6 DEF NotifyEnd, Of
    <3>3. \A b \in Agent : pc'[b] = "sleep" => pc[b] = "sleep"
      BY <2>6, <1>0 DEF NotifyEnd
    <3> QED BY <3>1, <3>2, <3>3, CompletionWakesStable
  <2>7. CASE NotifyWakes(a)
    <3>1. \A b \in Agent : pc'[b] # "sleep"
      BY <2>7, <1>0 DEF NotifyWakes, WakeLoops, Broadcast
    <3> QED BY <3>1 DEF CompletionWakes
  <2>8. CASE UnheldWakes(a)
    <3>1. \A b \in Agent : pc'[b] # "sleep"
      BY <2>8, <1>0 DEF UnheldWakes, WakeLoops, Broadcast
    <3> QED BY <3>1 DEF CompletionWakes
  <2>9. CASE SchedStep(a)
    <3>1. PICK w \in Members(ready) : ready' = Unlink(ready, w)
      BY <2>9, <1>0, OldestProperties DEF SchedStep
    <3>2. Members(ready') \subseteq Members(ready)
      BY <3>1, <1>0, UnlinkProperties
    <3>3. \A b \in Agent : Of(b)' = Of(b)
      BY <2>9 DEF SchedStep, Of
    <3> QED BY <2>9, <3>2, <3>3, WakePendingStable, CompletionWakesStable DEF SchedStep
  <2>10. CASE SchedEnd(a)
    BY <2>10, <1>0, CompletionWakesQuiet DEF SchedEnd
  <2>11. CASE LoopExit(a)
    BY <2>11, <1>0, CompletionWakesQuiet DEF LoopExit, Exit
  <2>12. CASE LoopTurn(a)
    BY <2>12, <1>0, CompletionWakesQuiet DEF LoopTurn
  <2>13. CASE ResolveWaiter(a)
    <3>1. PICK w : rec' = [rec EXCEPT ![w] = Released(@.status)]
      BY <2>13 DEF ResolveWaiter
    <3>2. \A b \in Agent : Of(b)' \subseteq Of(b)
      BY <1>0, <3>1 DEF Of, Released
    <3>3. Members(ready') \subseteq Members(ready)
      BY <2>13 DEF ResolveWaiter, Members
    <3>4. \A b \in Agent : WakePending(b) => WakePending(b)'
      BY <1>0, <2>13, WakePendingStable DEF ResolveWaiter
    <3>5. \A b \in Agent : pc'[b] = "sleep" => pc[b] = "sleep"
      BY <1>0, <2>13 DEF ResolveWaiter
    <3> QED BY <3>2, <3>3, <3>4, <3>5, CompletionWakesStable
  <2>14. CASE \E w \in Waiter : FireTimer(a, w)
    <3>1. PICK w \in Waiter : FireTimer(a, w)
      BY <2>14
    <3>2. /\ pc[a] = "drain" /\ UNCHANGED <<tgt, call, jobs, outcome>>
          /\ pc' = [Woken EXCEPT ![a] = "sched"] \/ pc' = [pc EXCEPT ![a] = "sched"]
      BY <3>1 DEF FireTimer
    <3>3. \A b \in Agent : pc'[b] = "sleep" => pc[b] = "sleep"
      BY <1>0, <3>2 DEF Woken, Broadcast
    <3>4. \A b \in Agent : WakePending(b) => WakePending(b)'
      BY <1>0, <3>2, WakePendingStable DEF Woken, Broadcast
    <3>5. CASE rec[w].status = "pending"
      <4>1. CompleteLocked(w, "timed-out") /\ rec[w].agent = a
        BY <3>1, <3>5 DEF FireTimer, IInv, RecordShape
      <4>2. /\ \A b \in Agent : Of(b)' = Of(b)
            /\ Members(ready') = Members(ready) \cup (IF rec[w].async THEN {w} ELSE {})
        BY <3>2, <3>5, <4>1, CompleteLockedEffect DEF Of, IInv, Terminal
      <4>3. \A b \in Agent : pc[b] = "sleep" =>
               Members(ready') \cap Of(b)' \subseteq Members(ready) \cap Of(b)
        BY <3>2, <4>1, <4>2 DEF Of
      <4> QED BY <3>3, <3>4, <4>3, CompletionWakesStable
    <3>6. CASE rec[w].status # "pending"
      <4>1. \A b \in Agent : Members(ready') \cap Of(b)' = Members(ready) \cap Of(b)
        BY <3>1, <3>6 DEF FireTimer, Of
      <4> QED BY <3>3, <3>4, <4>1, CompletionWakesStable
    <3> QED BY <3>5, <3>6
  <2>15. CASE Idle(a)
    BY <2>15, <1>0, CompletionWakesQuiet DEF Idle
  <2>16. CASE IdleCheck(a)
    <3>1. \A b \in Agent \ {a} : pc'[b] = pc[b]
      BY <2>16, <1>0 DEF IdleCheck
    <3>2. \A b \in Agent : Members(ready') \cap Of(b)' = Members(ready) \cap Of(b)
      BY <2>16 DEF IdleCheck, Of
    <3>3. pc'[a] = "sleep" => Members(ready) \cap Of(a) = {}
      BY <2>16, <1>0 DEF IdleCheck
    <3>4. \A b \in Agent : WakePending(b) => WakePending(b)'
      BY <2>16, <1>0, WakePendingStable DEF IdleCheck
    <3> QED BY <1>0, <3>1, <3>2, <3>3, <3>4 DEF CompletionWakes
  <2> QED BY <1>2, <2>1, <2>2, <2>3, <2>4, <2>5, <2>6, <2>7, <2>8, <2>9, <2>10, <2>11, <2>12, <2>13, <2>14, <2>15, <2>16 DEF System
<1>3. ASSUME NEW a \in Agent, Program(a) PROVE CompletionWakes'
  <2> USE DEF listVars, loopVars, ctlVars, tearVars, Script
  <2>1. CASE \E l \in Loc, v \in Value : Store(a, l, v)
    BY <2>1, <1>0, CompletionWakesQuiet DEF Store
  <2>2. CASE \E w \in Waiter, async \in BOOLEAN, l \in Loc, v \in Value, t \in Timeouts :
               BeginWait(a, w, async, l, v, t)
    <3>1. PICK w \in Waiter, async \in BOOLEAN, l \in Loc, v \in Value, t \in Timeouts :
            BeginWait(a, w, async, l, v, t)
      BY <2>2
    <3>2. /\ pc[a] \in Script /\ UNCHANGED <<ready, tgt, call>> /\ rec[w].status = "free"
          /\ \A u \in Waiter \ {w} : rec'[u] = rec[u]
          /\ pc' = pc \/ pc' = [pc EXCEPT ![a] = IF async THEN "sched" ELSE "wait"]
      BY <1>0, <3>1 DEF BeginWait, Running
    <3>3. w \notin Members(ready)
      BY <3>2 DEF IInv, CompletionConserved, Pending, Terminal
    <3>4. \A b \in Agent : Members(ready') \cap Of(b)' \subseteq Members(ready) \cap Of(b)
      BY <3>2, <3>3 DEF Of
    <3>5. /\ \A b \in Agent : WakePending(b) => WakePending(b)'
          /\ \A b \in Agent : pc'[b] = "sleep" => pc[b] = "sleep"
      BY <1>0, <3>2, WakePendingStable
    <3> QED BY <3>4, <3>5, CompletionWakesStable
  <2>3. CASE \E l \in Loc, n \in 0..MaxCount : NotifyBegin(a, l, n, FALSE)
    BY <2>3, <1>0, CompletionWakesQuiet DEF NotifyBegin, Running
  <2>4. CASE \E l \in Loc : NotifyBegin(a, l, 0, TRUE)
    BY <2>4, <1>0, CompletionWakesQuiet DEF NotifyBegin, Running
  <2>5. CASE Leave(a)
    BY <2>5, <1>0, CompletionWakesQuiet DEF Leave, Running
  <2>6. CASE FinishScript(a)
    BY <2>6, <1>0, CompletionWakesQuiet DEF FinishScript, Running
  <2>7. CASE Checkpoint(a)
    BY <2>7, <1>0, CompletionWakesQuiet DEF Checkpoint, Running
  <2> QED BY <1>3, <2>1, <2>2, <2>3, <2>4, <2>5, <2>6, <2>7 DEF Program
<1>4. ASSUME NEW a \in Agent, CondReturns(a) PROVE CompletionWakes'
  BY <1>4, <1>0, CompletionWakesQuiet DEF CondReturns, listVars, loopVars, ctlVars, tearVars, Script
<1>5. CASE Cleanup
  <2> USE DEF listVars, loopVars, ctlVars, tearVars, Script
  <2>1. CASE \E b \in Agent : Teardown(b)
    BY <2>1, <1>0, CompletionWakesQuiet DEF Teardown
  <2>2. CASE AbandonWaiting
    <3> DEFINE w == Oldest(waiting, Of(tgt))
    <3>1. w \in Waiter /\ rec[w].status = "pending"
      BY <2>2, OldestIsPending DEF AbandonWaiting
    <3>2. \E st \in Terminal : CompleteLocked(w, st)
      BY <2>2 DEF AbandonWaiting, Terminal
    <3>3. UNCHANGED <<jobs, outcome>>
      BY <2>2 DEF AbandonWaiting
    <3> HIDE DEF w
    <3>4. /\ \A b \in Agent : Of(b)' = Of(b)
          /\ Members(ready') = Members(ready) \cup (IF rec[w].async THEN {w} ELSE {})
      BY <3>1, <3>2, <3>3, CompleteLockedEffect DEF Of, IInv
    <3>5. \A b \in Agent : pc'[b] = "sleep" => pc[b] = "sleep"
      BY <2>2, <1>0 DEF AbandonWaiting, Woken, Broadcast
    <3>6. rec[w].agent = tgt
      BY <2>2, OldestIsPending DEF w, AbandonWaiting, Of
    <3>7. \A b \in Agent : WakePending(b) => WakePending(b)'
      BY <1>0, <2>2, WakePendingStable DEF AbandonWaiting, Woken, Broadcast
    <3>8. WakePending(tgt)'
      BY <1>0, <2>2 DEF AbandonWaiting, Woken, Broadcast, WakePending
    <3>9. \A b \in Agent \ {tgt} : Members(ready') \cap Of(b)' = Members(ready) \cap Of(b)
      BY <3>4, <3>6 DEF Of
    <3> QED BY <1>0, <2>2, <3>5, <3>7, <3>8, <3>9 DEF CompletionWakes, AbandonWaiting
  <2>3. CASE AbandonReady
    <3>1. PICK w \in Members(ready) : /\ rec' = [rec EXCEPT ![w] = Released(@.status)]
                                      /\ ready' = Unlink(ready, w)
      BY <2>3, <1>0, OldestProperties DEF AbandonReady
    <3>2. \A b \in Agent : Of(b)' \subseteq Of(b)
      BY <1>0, <3>1 DEF Of, Released
    <3>3. Members(ready') \subseteq Members(ready)
      BY <3>1, <1>0, UnlinkProperties
    <3>4. \A b \in Agent : WakePending(b) => WakePending(b)'
      BY <1>0, <2>3, WakePendingStable DEF AbandonReady
    <3>5. \A b \in Agent : pc'[b] = "sleep" => pc[b] = "sleep"
      BY <1>0, <2>3 DEF AbandonReady
    <3> QED BY <3>2, <3>3, <3>4, <3>5, CompletionWakesStable
  <2>4. CASE AbandonEnd
    <3>1. \A b \in Agent : Members(ready') \cap Of(b)' = Members(ready) \cap Of(b)
      BY <2>4 DEF AbandonEnd, Of
    <3>2. Members(ready) \cap Of(tgt) = {}
      BY <2>4 DEF AbandonEnd
    <3>3. \A b \in Agent \ {tgt} : WakePending(b) => WakePending(b)'
      BY <2>4, <1>0 DEF AbandonEnd, WakePending
    <3>4. \A b \in Agent : pc'[b] = "sleep" => pc[b] = "sleep"
      BY <2>4, <1>0 DEF AbandonEnd
    <3> QED BY <1>0, <3>1, <3>2, <3>3, <3>4 DEF CompletionWakes
  <2>5. CASE TeardownEnds
    BY <2>5, <1>0, CompletionWakesQuiet DEF TeardownEnds
  <2> QED BY <1>5, <2>1, <2>2, <2>3, <2>4, <2>5 DEF Cleanup
<1> QED BY <1>1, <1>2, <1>3, <1>4, <1>5 DEF Next
-----------------------------------------------------------------------------
\* The initial state satisfies the inductive invariant.
LEMMA InitInv == Init => IInv
<1> SUFFICES ASSUME Init PROVE IInv
  OBVIOUS
<1> USE AgentAssumption
<1>1. TypeOK
  <2>1. rec \in [Waiter -> Records]
    BY DEF Init, Released, Records, Statuses, Timeouts
  <2>2. call \in [Agent -> [loc : Loc \cup {Nil}, left : Nat, all : BOOLEAN, any : BOOLEAN]]
    BY DEF Init, NoCall
  <2> QED BY <2>1, <2>2, EmptySeq DEF Init, TypeOK, Places, Script, Outcomes
<1>2. Members(<<>>) = {} /\ NoDup(<<>>)
  BY DEF Members, NoDup
<1>3. \A w \in Waiter : rec[w].status = "free" /\ ~rec[w].async /\ outcome[w] = "none"
  BY DEF Init, Released
<1>4. WaitListExact /\ CompletionConserved
  BY <1>2, <1>3 DEF Init, WaitListExact, CompletionConserved, Pending, Terminal
<1>5. RecordShape /\ WaitsOnOwnRecord /\ NoLostWakeup /\ NoMissedStore
  BY <1>3 DEF Init, RecordShape, WaitsOnOwnRecord, NoLostWakeup, NoMissedStore
<1> QED BY <1>1, <1>4, <1>5 DEF IInv

\* Every step preserves it.
LEMMA NextInv == IInv /\ [Next]_vars => IInv'
<1> SUFFICES ASSUME IInv, [Next]_vars PROVE IInv'
  OBVIOUS
<1>1. RecordInv'
  BY QuietOrRecordStep, QuietPreserves, RecordStepPreserves
<1>2. ControlType' /\ WaitsOnOwnRecord' /\ NoMissedStore'
  BY ControlTypeStep, WaitsOnOwnRecordStep, NoMissedStoreStep
<1>3. NoLostWakeup'
  BY SleepsPendingStep, CompletionWakesStep, HoldWakesStep, NoLostWakeupParts
     DEF NoLostWakeup, SleepsPending, CompletionWakes, HoldWakes
<1>4. TypeOK'
  BY <1>1, <1>2 DEF RecordInv, ControlType, TypeOK
<1> QED BY <1>1, <1>2, <1>3, <1>4 DEF RecordInv, IInv

\* The inductive invariant holds of every behaviour of the waiter protocol,
\* whatever the agents, locations, values and records.
THEOREM InductiveInvariant == Spec => []IInv
<1> QED BY InitInv, NextInv, PTL DEF Spec

\* Every state has the types the code gives its variables.
THEOREM TypeCorrect == Spec => []TypeOK
<1>1. IInv => TypeOK
  BY DEF IInv
<1> QED BY <1>1, InductiveInvariant, PTL

\* complete_locked keeps the waiting list exact: it holds the pending records,
\* each once.
THEOREM WaitListIsExact == Spec => []WaitListExact
<1>1. IInv => WaitListExact
  BY DEF IInv
<1> QED BY <1>1, InductiveInvariant, PTL

\* Scheduling neither drops nor doubles nor misroutes a completed promise.
THEOREM CompletionsAreConserved == Spec => []CompletionConserved
<1>1. IInv => CompletionConserved
  BY DEF IInv
<1> QED BY <1>1, InductiveInvariant, PTL

\* No thread or event loop sleeps through a completion or a released hold.
THEOREM WakeupsAreNotLost == Spec => []NoLostWakeup
<1>1. IInv => NoLostWakeup
  BY DEF IInv
<1> QED BY <1>1, InductiveInvariant, PTL

\* tsc_atomic_waiter_begin compares and enqueues atomically.
THEOREM StoresAreNotMissed == Spec => []NoMissedStore
<1>1. IInv => NoMissedStore
  BY DEF IInv
<1> QED BY <1>1, InductiveInvariant, PTL
-----------------------------------------------------------------------------
\* Only Atomics.notify completes a record with "ok", and it takes the oldest
\* pending record of its location.
LEMMA OkIsOldest ==
  ASSUME IInv, [Next]_vars, NEW w \in Waiter,
         rec[w].status = "pending", rec'[w].status = "ok"
  PROVE  \E i \in 1..Len(waiting) :
           /\ waiting[i] = w
           /\ \A j \in 1..(i - 1) : rec[waiting[j]].loc # rec[w].loc
<1>0. /\ rec \in [Waiter -> Records] /\ waiting \in Seq(Waiter)
      /\ \A v \in Waiter : v \in Members(waiting) <=> rec[v].status = "pending"
  BY DEF IInv, TypeOK, WaitListExact
<1>1. rec' # rec
  OBVIOUS
<1>2. RecordStep
  BY <1>1, QuietOrRecordStep DEF quiet, listVars
<1>3. PICK a \in Agent : NotifyStep(a)
  <2>0. PICK a \in Agent :
      \/ \E u \in Waiter, async \in BOOLEAN, l \in Loc, v \in Value, t \in Timeouts :
            BeginWait(a, u, async, l, v, t)
      \/ SuspendReturns(a) \/ SuspendTimesOut(a)
      \/ NotifyStep(a) \/ SchedStep(a) \/ ResolveWaiter(a)
      \/ \E u \in Waiter : FireTimer(a, u)
      \/ AbandonWaiting \/ AbandonReady
    BY <1>2 DEF RecordStep
  <2>1. ASSUME NEW u \in Waiter, NEW async \in BOOLEAN, NEW l \in Loc, NEW v \in Value,
               NEW t \in Timeouts, BeginWait(a, u, async, l, v, t)
        PROVE FALSE
    BY <1>0, <2>1 DEF BeginWait
  <2>2. ASSUME NEW u, rec' = [rec EXCEPT ![u] = Released(@.status)]
        PROVE  FALSE
    BY <1>0, <2>2 DEF Released
  <2>3. ASSUME NEW u, CompleteLocked(u, "timed-out")
        PROVE  FALSE
    BY <1>0, <2>3 DEF CompleteLocked, Released
  <2>4. ~SuspendReturns(a) /\ ~ResolveWaiter(a) /\ ~AbandonReady
    BY <2>2 DEF SuspendReturns, ResolveWaiter, AbandonReady
  <2>5. ~SuspendTimesOut(a) /\ ~AbandonWaiting
    BY <2>3 DEF SuspendTimesOut, AbandonWaiting
  <2>6. ~SchedStep(a)
    BY <1>1 DEF SchedStep
  <2>7. ASSUME NEW u \in Waiter, FireTimer(a, u) PROVE FALSE
    BY <1>1, <2>3, <2>7 DEF FireTimer, listVars
  <2> QED BY <2>0, <2>1, <2>4, <2>5, <2>6, <2>7
<1> DEFINE S == At(call[a].loc)
           o == Oldest(waiting, S)
<1>4. Members(waiting) \cap S # {} /\ CompleteLocked(o, "ok")
  BY <1>3 DEF NotifyStep, NotifyMore
<1>5. PICK i \in 1..Len(waiting) : waiting[i] = o /\ \A j \in 1..(i - 1) : waiting[j] \notin S
  BY <1>0, <1>4, OldestProperties
<1>6. o \in Waiter \cap S
  BY <1>4, OldestIsPending
<1> HIDE DEF o
<1>7. w = o
  BY <1>0, <1>4, <1>6 DEF CompleteLocked
<1>8. rec[w].loc = call[a].loc
  BY <1>6, <1>7 DEF At
<1>9. \A j \in 1..(i - 1) : waiting[j] \in Waiter
  BY <1>0, <1>5, ElementOfSeq
<1>10. \A j \in 1..(i - 1) : rec[waiting[j]].loc # rec[w].loc
  BY <1>5, <1>8, <1>9 DEF At
<1> QED BY <1>5, <1>7, <1>10

\* Atomics.notify is first in, first out per location.
THEOREM NotifyFIFO == Spec => NotifyIsFIFO
<1> DEFINE P == \A v, w \in Waiter :
                  /\ rec[w].status = "pending" /\ rec'[w].status = "ok"
                  /\ rec[v].loc = rec[w].loc /\ Before(v, w)
                  => rec'[v].status # "pending"
<1>1. ASSUME IInv, [Next]_vars PROVE [P]_vars
  <2> SUFFICES ASSUME NEW v \in Waiter, NEW w \in Waiter,
                      rec[w].status = "pending", rec'[w].status = "ok",
                      rec[v].loc = rec[w].loc, Before(v, w)
               PROVE  FALSE
    OBVIOUS
  <2>1. PICK i \in 1..Len(waiting) :
          waiting[i] = w /\ \A j \in 1..(i - 1) : rec[waiting[j]].loc # rec[w].loc
    BY <1>1, OkIsOldest
  <2>2. PICK j, k \in 1..Len(waiting) : j < k /\ waiting[j] = v /\ waiting[k] = w
    BY DEF Before
  <2>3. k = i
    BY <1>1, <2>1, <2>2 DEF IInv, WaitListExact, NoDup
  <2>4. j \in 1..(i - 1)
    BY <2>1, <2>2, <2>3
  <2> QED BY <2>1, <2>2, <2>4
<1>2. IInv /\ [Next]_vars => [P]_vars
  BY <1>1
<1> QED BY <1>2, InductiveInvariant, PTL DEF Spec, NotifyIsFIFO
=============================================================================
