--------------------------- MODULE EventLoopProofs ---------------------------
(***************************************************************************)
(* Proofs about EventLoop for any callbacks, delays and clock bound.       *)
(***************************************************************************)
EXTENDS EventLoop, SequenceTheorems, FiniteSetTheorems, TLAPS

Active == {"counted", "queued", "running"}

\* Where the main thread can be while a callback runs, and where a drain of
\* the job queues returns to.
Control ==
  /\ running # Nil => place \in {"tick", "micro", "ready", "late", "imm"}
  /\ place \in Drains => cont \in {"check", "ready", "late", "imms", "imm", "bottom"}
  /\ place \notin Drains => cont = "none"

\* What holds of one callback: it is in at most one place, in one that fits
\* its kind, and on its way to a run only while it is live.
Tracked(c) ==
  /\ Holders(c) <= 1
  /\ life[c] = "live" => Holders(c) = 1
  /\ life[c] \in {"free", "done", "stranded"} => Holders(c) = 0
  /\ Count(cross, c) > 0 => life[c] = "live" /\ work[c].kind \in {"tick", "micro", "imm", "timeout", "task"}
  /\ Count(ticks, c) > 0 => life[c] = "live" /\ work[c].kind = "tick"
  /\ Count(micros, c) > 0 => life[c] = "live" /\ work[c].kind \in {"micro", "task"}
  /\ Count(imms, c) > 0 => work[c].kind = "imm"
  /\ c \in armed => life[c] = "live" /\ work[c].kind \in {"timeout", "interval"}
  /\ task[c] \in Active => life[c] = "live" /\ work[c].kind = "task" /\ c \in inflight

AllTracked == \A c \in Cb : Tracked(c)

\* The tasks whose promise the main thread has still to settle.
Unsettled == {t \in Cb : \/ task[t] \in Active
                         \/ work[t].kind = "task" /\ Count(cross, t) > 0}
Counted == IsFiniteSet(Unsettled) /\ outstanding = Cardinality(Unsettled)

\* Once a drain has ended no job is queued until the next callback runs.
Drained ==
  running = Nil /\ place \in {"check", "ready", "late", "imms", "imm", "bottom", "idle", "sleep", "exit"}
    => ticks = <<>> /\ micros = <<>>

\* The decision to wait without a deadline stays right until the wait.
IdleIsSafe ==
  place = "idle" /\ untimed => armed = {} /\ (outstanding > 0 \/ cross # <<>>)

InFresh(c) == \E i \in 1..Len(fresh) : fresh[i] = c

\* The timer phase: due holds expired timers only, and a timer outside it
\* that the phase could have run was appended since.
Phase ==
  /\ due # {} => "ready" \in {place, cont}
  /\ \A c \in due : /\ life[c] # "free" /\ work[c].kind \in {"timeout", "interval"}
                     /\ running # c /\ (c \in armed => at[c] <= 0)
  /\ "ready" \in {place, cont} =>
       \A c \in armed : c \in due \/ InFresh(c) \/ running = c \/ at[c] > 0

IInv == /\ TypeOK /\ Control /\ AllTracked /\ Counted /\ Drained /\ IdleIsSafe
        /\ Phase /\ SleepIsSafe /\ ExitIsQuiescent
-----------------------------------------------------------------------------
\* How often a callback occurs in a queue, as the queue is built and consumed.
LEMMA CountType ==
  ASSUME NEW s \in Seq(Cb), NEW c
  PROVE  Count(s, c) \in Nat /\ IsFiniteSet({i \in 1..Len(s) : s[i] = c})
<1>1. Len(s) \in Nat BY LenProperties
<1>2. IsFiniteSet(1..Len(s)) BY <1>1, FS_Interval
<1>3. IsFiniteSet({i \in 1..Len(s) : s[i] = c}) BY <1>2, FS_Subset
<1> QED BY <1>3, FS_CardinalityType DEF Count

LEMMA CountEmpty ==
  ASSUME NEW c
  PROVE  Count(<<>>, c) = 0
<1>1. {i \in 1..Len(<<>>) : <<>>[i] = c} = {} OBVIOUS
<1> QED BY <1>1, FS_EmptySet DEF Count

LEMMA CountPositive ==
  ASSUME NEW s \in Seq(Cb), NEW c
  PROVE  Count(s, c) > 0 <=> \E i \in 1..Len(s) : s[i] = c
<1> DEFINE S == {i \in 1..Len(s) : s[i] = c}
<1>1. IsFiniteSet(S) /\ Cardinality(S) \in Nat BY CountType DEF Count
<1>2. Cardinality(S) = 0 <=> S = {} BY <1>1, FS_EmptySet
<1>3. S = {} <=> ~(\E i \in 1..Len(s) : s[i] = c) OBVIOUS
<1>4. Count(s, c) = Cardinality(S) BY DEF Count
<1> HIDE DEF S
<1> QED BY <1>1, <1>2, <1>3, <1>4

LEMMA CountAppend ==
  ASSUME NEW s \in Seq(Cb), NEW e \in Cb, NEW c
  PROVE  Count(Append(s, e), c) = Count(s, c) + (IF e = c THEN 1 ELSE 0)
<1> DEFINE S == {i \in 1..Len(s) : s[i] = c}
           t == Append(s, e)
           T == {i \in 1..Len(t) : t[i] = c}
<1>1. /\ Len(t) = Len(s) + 1 /\ Len(s) \in Nat /\ t[Len(s) + 1] = e
      /\ \A i \in 1..Len(s) : t[i] = s[i]
  BY AppendProperties, LenProperties
<1>2. IsFiniteSet(S) /\ Cardinality(S) \in Nat BY CountType DEF Count
<1>5. Count(s, c) = Cardinality(S) /\ Count(Append(s, e), c) = Cardinality(T) BY DEF Count
<1> HIDE DEF t
<1>3. CASE e = c
  <2>1. T = S \cup {Len(s) + 1} BY <1>1, <1>3
  <2>2. Len(s) + 1 \notin S BY <1>1
  <2>3. Cardinality(T) = Cardinality(S) + 1
    <3> HIDE DEF S, T
    <3> QED BY <2>1, <2>2, <1>2, FS_AddElement
  <2> HIDE DEF S, T
  <2> QED BY <2>3, <1>3, <1>5
<1>4. CASE e # c
  <2>1. T = S BY <1>1, <1>4
  <2> HIDE DEF S, T
  <2> QED BY <2>1, <1>2, <1>4, <1>5
<1> QED BY <1>3, <1>4

LEMMA CountTail ==
  ASSUME NEW s \in Seq(Cb), s # <<>>, NEW c
  PROVE  Count(s, c) = Count(Tail(s), c) + (IF Head(s) = c THEN 1 ELSE 0)
<1> DEFINE t == Tail(s)
           S == {i \in 1..Len(s) : s[i] = c}
           T == {i \in 1..Len(t) : t[i] = c}
           f == [i \in T |-> i + 1]
<1>1. /\ Len(t) = Len(s) - 1 /\ Len(s) \in Nat /\ Len(s) > 0 /\ Head(s) = s[1]
      /\ t \in Seq(Cb) /\ \A i \in 1..Len(t) : t[i] = s[i + 1]
  BY HeadTailProperties, LenProperties, EmptySeq
<1>7. Count(s, c) = Cardinality(S) /\ Count(Tail(s), c) = Cardinality(T) BY DEF Count
<1> HIDE DEF t
<1>2. IsFiniteSet(T) /\ Cardinality(T) \in Nat BY <1>1, CountType DEF Count
<1>3. f \in Bijection(T, S \ {1})
  <2>1. \A i \in T : i \in Int /\ f[i] = i + 1 /\ f[i] \in S \ {1} BY <1>1
  <2>2. \A j \in S \ {1} : j - 1 \in T /\ f[j - 1] = j BY <1>1
  <2> HIDE DEF S, T
  <2>3. f \in [T -> S \ {1}] BY <2>1
  <2> HIDE DEF f
  <2>4. \A a, b \in T : f[a] = f[b] => a = b BY <2>1
  <2>5. \A j \in S \ {1} : \E i \in T : f[i] = j BY <2>2
  <2> QED BY <2>3, <2>4, <2>5 DEF Bijection, Injection, Surjection, IsInjective
<1>4. IsFiniteSet(S \ {1}) /\ Cardinality(S \ {1}) = Cardinality(T)
  <2> HIDE DEF S, T, f
  <2> QED BY <1>2, <1>3, FS_Bijection DEF ExistsBijection
<1>5. CASE Head(s) = c
  <2>1. S = (S \ {1}) \cup {1} /\ 1 \notin S \ {1} BY <1>1, <1>5
  <2>2. Cardinality(S) = Cardinality(T) + 1
    <3> HIDE DEF S, T
    <3> QED BY <2>1, <1>4, FS_AddElement
  <2> HIDE DEF S, T
  <2> QED BY <2>2, <1>5, <1>7
<1>6. CASE Head(s) # c
  <2>1. S = S \ {1} BY <1>1, <1>6
  <2>2. Cardinality(S) = Cardinality(T) BY <2>1, <1>4
  <2> HIDE DEF S, T
  <2> QED BY <2>2, <1>2, <1>6, <1>7
<1> QED BY <1>5, <1>6
-----------------------------------------------------------------------------
\* The steps, one by one.
Steps ==
  \/ LoopTop \/ TakeCross \/ CrossEmpty \/ RunTick \/ RunMicrotask \/ DrainEnds
  \/ Check \/ RunTimer \/ TimersEnd \/ LateInterval \/ LateEnds
  \/ Immediates \/ RunImmediate \/ ImmediatesEnd \/ Bottom \/ Idle
  \/ CallbackEnds \/ ScriptEnds \/ Wake \/ Elapse
  \/ \E c \in Cb, k \in {"tick", "micro"} : Enqueue(c, k)
  \/ \E c \in Cb : SetImmediate(c) \/ ClearTimeout(c) \/ ClearImmediate(c)
  \/ \E c \in Cb, k \in {"timeout", "interval"}, d \in Nat : SetTimer(c, k, d)
  \/ \E c \in Cb, r \in BOOLEAN : SetRefed(c, r)
  \/ \E a \in Cb \cup {Nil}, t \in Cb : DispatchAsync(a, t)
  \/ \E t, c \in Cb, k \in {"tick", "micro", "imm", "timeout"}, d \in Nat : Post(t, c, k, d)
  \/ \E t, c \in Cb : SetIntervalOffMain(t, c)
  \/ \E t \in Cb : DispatchEnqueue(t) \/ TaskStarts(t) \/ TaskSettles(t) \/ TaskLeaves(t)

LEMMA StepCases ==
  ASSUME Next PROVE Steps
<1>1. ASSUME MainProgram PROVE Steps
  <2>1. PICK c \in Cb :
          \/ \E k \in Kind \cap {"tick", "micro"} : Enqueue(c, k)
          \/ SetImmediate(c)
          \/ \E d \in TimeoutDelay : SetTimer(c, "timeout", d)
          \/ \E d \in IntervalDelay : SetTimer(c, "interval", d)
          \/ DispatchAsync(Nil, c)
          \/ ClearTimeout(c) \/ ClearImmediate(c) \/ \E r \in BOOLEAN : SetRefed(c, r)
    BY <1>1, Zenon DEF MainProgram
  <2> QED BY <2>1, LoopAssumption DEF Steps
<1>2. ASSUME TaskProgram PROVE Steps
  <2>1. PICK t \in Cb, c \in Cb :
          \/ \E k \in Kind \cap {"tick", "micro", "imm"} : Post(t, c, k, 0)
          \/ \E d \in TimeoutDelay : Post(t, c, "timeout", d)
          \/ SetIntervalOffMain(t, c)
          \/ DispatchAsync(t, c)
    BY <1>2, Zenon DEF TaskProgram
  <2> QED BY <2>1, LoopAssumption DEF Steps
<1>3. ASSUME NEW t \in Cb, Worker(t) PROVE Steps
  BY <1>3 DEF Worker, Steps
<1>4. ASSUME Loop PROVE Steps
  BY <1>4 DEF Loop, Steps
<1> QED BY <1>1, <1>2, <1>3, <1>4 DEF Next, Steps
-----------------------------------------------------------------------------
\* Types and control: every step keeps them.
LEMMA NumberedRecord ==
  ASSUME NEW r \in Record, ids \in Nat
  PROVE  /\ Numbered(r) \in Record /\ Numbered(r).kind = r.kind /\ Numbered(r).by = r.by
         /\ Numbered(r).delay = r.delay /\ Numbered(r).id = ids /\ Numbered(r).refed = TRUE
BY DEF Record, Numbered

LEMMA TimerRecord ==
  ASSUME NEW k \in Kinds, NEW d \in Nat
  PROVE  LET r == [Unused EXCEPT !.kind = k, !.delay = d]
         IN  r \in Record /\ r.kind = k /\ r.by = Nil /\ r.delay = d
BY DEF Record, Unused

LEMMA ImmediateRecord ==
  LET r == [Unused EXCEPT !.kind = "imm"]
  IN  r \in Record /\ r.kind = "imm" /\ r.by = Nil
BY DEF Record, Unused, Kinds

LEMMA RefedRecord ==
  ASSUME NEW r \in Record, NEW b \in BOOLEAN
  PROVE  LET q == [r EXCEPT !.refed = b]
         IN  q \in Record /\ q.kind = r.kind /\ q.by = r.by /\ q.id = r.id
             /\ q.delay = r.delay /\ q.refed = b
BY DEF Record

LEMMA RecordFields ==
  ASSUME NEW r \in Record
  PROVE  /\ r.kind \in Kinds \cup {"none"} /\ r.by \in Cb \cup {Nil} /\ r.delay \in Nat
         /\ r.id \in Nat /\ r.refed \in BOOLEAN
BY DEF Record

LEMMA AppendTyped ==
  ASSUME NEW s \in Seq(Cb), NEW c \in Cb, NEW t, t = s \/ t = Append(s, c)
  PROVE  t \in Seq(Cb) /\ Len(t) >= Len(s)
<1>1. CASE t = s BY <1>1, LenProperties
<1>2. CASE t = Append(s, c) BY <1>2, AppendProperties, LenProperties
<1> QED BY <1>1, <1>2

LEMMA ArmTyped ==
  ASSUME armed \subseteq Cb, at \in [Cb -> Int], fresh \in Seq(Cb),
         NEW c \in Cb, NEW d \in Int, Arm(c, d)
  PROVE  /\ armed' \subseteq Cb /\ at' \in [Cb -> Int] /\ fresh' \in Seq(Cb) /\ clocked' = TRUE
         /\ due' = due /\ lag' = lag
<1>1. fresh' = fresh \/ fresh' = Append(fresh, c) BY Zenon DEF Arm
<1>2. fresh' \in Seq(Cb) BY <1>1, AppendTyped
<1> QED BY <1>2 DEF Arm

LEMMA NewTyped ==
  ASSUME work \in [Cb -> Record], life \in [Cb -> {"free", "live", "done", "cancelled", "stranded"}],
         NEW c \in Cb, NEW k \in Kinds, NEW a \in Cb \cup {Nil}, NEW d \in Nat, New(c, k, a, d)
  PROVE  /\ work' \in [Cb -> Record]
         /\ life' \in [Cb -> {"free", "live", "done", "cancelled", "stranded"}]
<1> DEFINE r == [Unused EXCEPT !.kind = k, !.by = a, !.delay = d]
<1>1. r \in Record BY DEF Unused, Record
<1>2. work' = [work EXCEPT ![c] = r] BY DEF New
<1> HIDE DEF r
<1> QED BY <1>1, <1>2 DEF New

LEMMA TypePreserved ==
  ASSUME TypeOK, Control, [Next]_vars PROVE TypeOK' /\ Control'
<1> USE LoopAssumption DEF TypeOK, Control, At, Places, Drains,
        jobVars, timerVars, immVars, taskVars, mainVars
<1>1. CASE LoopTop
  BY <1>1 DEF LoopTop, Go
<1>2. CASE TakeCross
  <2> DEFINE c == Head(cross)
  <2>1. c \in Cb /\ Tail(cross) \in Seq(Cb) /\ work[c] \in Record /\ work[c].delay \in Nat
    BY <1>2, RecordFields DEF TakeCross
  <2> HIDE DEF c
  <2>2. work' = work \/ work' = [work EXCEPT ![c] = Numbered(@)]
    BY <1>2, Zenon DEF TakeCross, c
  <2>3. work' \in [Cb -> Record]
    <3>1. Numbered(work[c]) \in Record BY <2>1, NumberedRecord
    <3>2. CASE work' = [work EXCEPT ![c] = Numbered(@)] BY <2>1, <3>1, <3>2
    <3>3. CASE work' = work BY <3>3
    <3> QED BY <2>2, <3>2, <3>3
  <2>4. ids' = ids \/ ids' = ids + 1 BY <1>2 DEF TakeCross
  <2>5. /\ ticks' = ticks \/ ticks' = Append(ticks, c)
        /\ micros' = micros \/ micros' = Append(micros, c)
        /\ imms' = imms \/ imms' = Append(imms, c)
        /\ outstanding' = outstanding \/ (outstanding > 0 /\ outstanding' = outstanding - 1)
    BY <1>2, Zenon DEF TakeCross, CountedDown, c
  <2>6. ticks' \in Seq(Cb) /\ micros' \in Seq(Cb) /\ imms' \in Seq(Cb) /\ Len(imms') >= Len(imms)
    BY <2>1, <2>5, AppendTyped
  <2>7. UNCHANGED <<armed, at, due, fresh, lag, clocked>> \/ Arm(c, work[c].delay)
    BY <1>2, Zenon DEF TakeCross, c
  <2>8. armed' \subseteq Cb /\ at' \in [Cb -> Int] /\ fresh' \in Seq(Cb) /\ clocked' \in BOOLEAN
        /\ UNCHANGED <<due, lag>>
    <3>1. CASE Arm(c, work[c].delay)
      <4>1. work[c].delay \in Int BY <2>1
      <4> QED BY <2>1, <3>1, <4>1, ArmTyped
    <3>2. CASE UNCHANGED <<armed, at, due, fresh, lag, clocked>> BY <3>2
    <3> QED BY <2>7, <3>1, <3>2
  <2>9. cross' \in Seq(Cb) /\ UNCHANGED <<life, batch, inflight, task, mainVars>>
    BY <1>2, <2>1 DEF TakeCross
  <2>10. batch' \in 0..Len(imms') BY <2>6, <2>9, LenProperties
  <2>11. outstanding' \in Nat /\ ids' \in Nat BY <2>4, <2>5
  <2> QED BY <2>3, <2>6, <2>8, <2>9, <2>10, <2>11
<1>3. CASE CrossEmpty
  BY <1>3 DEF CrossEmpty, DrainThen
<1>4. CASE RunTick
  <2>1. Head(ticks) \in Cb /\ Tail(ticks) \in Seq(Cb) BY <1>4 DEF RunTick
  <2> QED BY <1>4, <2>1 DEF RunTick, Start
<1>5. CASE RunMicrotask
  BY <1>5 DEF RunMicrotask, Start, Drains
<1>6. CASE DrainEnds
  BY <1>6 DEF DrainEnds, Drains
<1>7. CASE Check
  <2>1. \/ at' = at /\ lag' = lag /\ due' = due /\ fresh' = fresh
        \/ /\ at' = [c \in Cb |-> IF c \in armed THEN at[c] - lag ELSE 0]
           /\ due' = {c \in armed : at[c] <= lag} /\ fresh' = <<>> /\ lag' = 0
    BY <1>7, Zenon DEF Check
  <2>2. at' \in [Cb -> Int] /\ lag' \in 0..MaxLag /\ due' \subseteq Cb /\ fresh' \in Seq(Cb)
    <3>1. CASE at' = at /\ lag' = lag /\ due' = due /\ fresh' = fresh BY <3>1
    <3>2. CASE /\ at' = [c \in Cb |-> IF c \in armed THEN at[c] - lag ELSE 0]
               /\ due' = {c \in armed : at[c] <= lag} /\ fresh' = <<>> /\ lag' = 0
      BY <3>2
    <3> QED BY <2>1, <3>1, <3>2
  <2>3. UNCHANGED <<armed, clocked, ids>> BY <1>7 DEF Check
  <2> QED BY <1>7, <2>2, <2>3 DEF Check, Go
<1>8. CASE RunTimer
  BY <1>8 DEF RunTimer, Start
<1>9. CASE TimersEnd
  BY <1>9 DEF TimersEnd, DrainThen
<1>10. CASE LateInterval
  BY <1>10 DEF LateInterval, Start, mainVars
<1>11. CASE LateEnds
  BY <1>11 DEF LateEnds, DrainThen
<1>12. CASE Immediates
  BY <1>12 DEF Immediates, Go
<1>13. CASE RunImmediate
  <2>1. imms # <<>> /\ imms' = Tail(imms) /\ batch' = batch - 1 /\ batch > 0
    BY <1>13 DEF RunImmediate
  <2>2. imms' \in Seq(Cb) /\ batch' \in 0..Len(imms') /\ Head(imms) \in Cb BY <2>1
  <2> QED BY <1>13, <2>2 DEF RunImmediate, Start, DrainThen
<1>14. CASE ImmediatesEnd
  BY <1>14 DEF ImmediatesEnd, DrainThen
<1>15. CASE Bottom
  BY <1>15 DEF Bottom, Go
<1>16. CASE Idle
  BY <1>16 DEF Idle, Go
<1>17. CASE CallbackEnds
  <2>1. running \in Cb /\ work[running].delay \in Nat
    BY <1>17, RecordFields DEF CallbackEnds
  <2>2. \/ Arm(running, work[running].delay) /\ life' = life
        \/ /\ life' = [life EXCEPT ![running] = IF @ = "live" THEN "done" ELSE @]
           /\ armed' = armed \ {running} /\ at' = [at EXCEPT ![running] = 0]
           /\ UNCHANGED <<due, fresh, lag, clocked>>
    BY <1>17, Zenon DEF CallbackEnds
  <2>3. /\ armed' \subseteq Cb /\ at' \in [Cb -> Int] /\ fresh' \in Seq(Cb) /\ clocked' \in BOOLEAN
        /\ UNCHANGED <<due, lag>>
        /\ life' \in [Cb -> {"free", "live", "done", "cancelled", "stranded"}]
    <3>1. CASE Arm(running, work[running].delay) /\ life' = life
      <4>1. work[running].delay \in Int BY <2>1
      <4> QED BY <2>1, <3>1, <4>1, ArmTyped
    <3>2. CASE /\ life' = [life EXCEPT ![running] = IF @ = "live" THEN "done" ELSE @]
               /\ armed' = armed \ {running} /\ at' = [at EXCEPT ![running] = 0]
               /\ UNCHANGED <<due, fresh, lag, clocked>>
      BY <2>1, <3>2
    <3> QED BY <2>2, <3>1, <3>2
  <2>4. running' = Nil /\ ids' = ids /\ UNCHANGED <<work, jobVars, immVars, taskVars, untimed>>
    BY <1>17 DEF CallbackEnds
  <2>5. \/ place \in {"tick", "micro"} /\ UNCHANGED <<place, cont>>
        \/ place \notin {"tick", "micro"} /\ place' = "drain" /\ cont' = place
    BY <1>17 DEF CallbackEnds, AfterCallback
  <2> QED BY <1>17, <2>3, <2>4, <2>5 DEF CallbackEnds
<1>18. CASE ScriptEnds
  BY <1>18 DEF ScriptEnds, Go
<1>19. CASE Wake
  BY <1>19 DEF Wake, Go
<1>20. CASE Elapse
  BY <1>20 DEF Elapse
<1>21. ASSUME NEW c \in Cb, NEW k \in {"tick", "micro"}, Enqueue(c, k) PROVE TypeOK' /\ Control'
  <2>1. New(c, k, Nil, 0) /\ k \in Kinds BY <1>21 DEF Enqueue, Kinds
  <2>2. work' \in [Cb -> Record] /\ life' \in [Cb -> {"free", "live", "done", "cancelled", "stranded"}]
    BY <2>1, NewTyped
  <2>3. \/ ticks' = Append(ticks, c) /\ micros' = micros
        \/ micros' = Append(micros, c) /\ ticks' = ticks
    BY <1>21, Zenon DEF Enqueue
  <2>4. ticks' \in Seq(Cb) /\ micros' \in Seq(Cb) BY <2>3, AppendTyped
  <2>5. UNCHANGED <<timerVars, immVars, taskVars, mainVars>> BY <1>21 DEF Enqueue
  <2> QED BY <2>2, <2>4, <2>5
<1>22. ASSUME NEW c \in Cb, SetImmediate(c) PROVE TypeOK' /\ Control'
  <2>1. work' \in [Cb -> Record] BY <1>22, ImmediateRecord, NumberedRecord DEF SetImmediate
  <2>2. life' \in [Cb -> {"free", "live", "done", "cancelled", "stranded"}]
    BY <1>22 DEF SetImmediate
  <2>3. imms' = Append(imms, c) /\ batch' = batch /\ ids' = ids + 1 BY <1>22 DEF SetImmediate
  <2>4. imms' \in Seq(Cb) /\ batch' \in 0..Len(imms') BY <2>3, AppendProperties, LenProperties
  <2>5. UNCHANGED <<jobVars, armed, at, due, fresh, lag, clocked, taskVars, mainVars>>
    BY <1>22 DEF SetImmediate
  <2> QED BY <2>1, <2>2, <2>3, <2>4, <2>5
<1>23. ASSUME NEW c \in Cb, ClearTimeout(c) PROVE TypeOK' /\ Control'
  BY <1>23 DEF ClearTimeout
<1>24. ASSUME NEW c \in Cb, ClearImmediate(c) PROVE TypeOK' /\ Control'
  BY <1>24 DEF ClearImmediate
<1>25. ASSUME NEW c \in Cb, NEW k \in {"timeout", "interval"}, NEW d \in Nat, SetTimer(c, k, d)
       PROVE  TypeOK' /\ Control'
  <2>1. work' \in [Cb -> Record] BY <1>25, TimerRecord, NumberedRecord DEF SetTimer, Kinds
  <2>2. armed' \subseteq Cb /\ at' \in [Cb -> Int] /\ fresh' \in Seq(Cb) /\ clocked' = TRUE
    BY <1>25 DEF SetTimer, Arm
  <2>3. UNCHANGED <<due, lag>> /\ ids' = ids + 1 BY <1>25 DEF SetTimer, Arm
  <2>4. life' \in [Cb -> {"free", "live", "done", "cancelled", "stranded"}] BY <1>25 DEF SetTimer
  <2>5. UNCHANGED <<jobVars, immVars, taskVars, mainVars>> BY <1>25 DEF SetTimer
  <2> QED BY <2>1, <2>2, <2>3, <2>4, <2>5
<1>26. ASSUME NEW c \in Cb, NEW r \in BOOLEAN, SetRefed(c, r) PROVE TypeOK' /\ Control'
  BY <1>26, RefedRecord DEF SetRefed
<1>27. ASSUME NEW a \in Cb \cup {Nil}, NEW t \in Cb, DispatchAsync(a, t) PROVE TypeOK' /\ Control'
  <2>1. New(t, "task", a, 0) /\ "task" \in Kinds BY <1>27 DEF DispatchAsync, Kinds
  <2>2. work' \in [Cb -> Record] /\ life' \in [Cb -> {"free", "live", "done", "cancelled", "stranded"}]
    BY <2>1, NewTyped
  <2>3. outstanding' = outstanding + 1 /\ inflight' = inflight \cup {t}
        /\ task' = [task EXCEPT ![t] = "counted"]
        /\ UNCHANGED <<jobVars, timerVars, immVars, cross, mainVars>>
    BY <1>27 DEF DispatchAsync
  <2> QED BY <2>2, <2>3
<1>28. ASSUME NEW t \in Cb, NEW c \in Cb, NEW k \in {"tick", "micro", "imm", "timeout"}, NEW d \in Nat,
              Post(t, c, k, d)
       PROVE  TypeOK' /\ Control'
  <2>1. New(c, k, t, d) /\ k \in Kinds /\ t \in Cb \cup {Nil} BY <1>28 DEF Post, Kinds
  <2>2. work' \in [Cb -> Record] /\ life' \in [Cb -> {"free", "live", "done", "cancelled", "stranded"}]
    BY <2>1, NewTyped
  <2>3. cross' = Append(cross, c) /\ place' = Woken
        /\ UNCHANGED <<jobVars, timerVars, immVars, outstanding, inflight, task, cont, running, untimed>>
    BY <1>28 DEF Post
  <2> QED BY <2>2, <2>3 DEF Woken
<1>29. ASSUME NEW t \in Cb, NEW c \in Cb, SetIntervalOffMain(t, c) PROVE TypeOK' /\ Control'
  BY <1>29 DEF SetIntervalOffMain
<1>30. ASSUME NEW t \in Cb, DispatchEnqueue(t) PROVE TypeOK' /\ Control'
  BY <1>30 DEF DispatchEnqueue
<1>31. ASSUME NEW t \in Cb, TaskStarts(t) PROVE TypeOK' /\ Control'
  BY <1>31 DEF TaskStarts
<1>32. ASSUME NEW t \in Cb, TaskSettles(t) PROVE TypeOK' /\ Control'
  BY <1>32 DEF TaskSettles, Woken
<1>33. ASSUME NEW t \in Cb, TaskLeaves(t) PROVE TypeOK' /\ Control'
  BY <1>33 DEF TaskLeaves
<1>34. CASE UNCHANGED vars
  BY <1>34 DEF vars
<1> QED
  <2> HIDE LoopAssumption DEF TypeOK, Control
  <2> QED BY StepCases, <1>1, <1>2, <1>3, <1>4, <1>5, <1>6, <1>7, <1>8, <1>9, <1>10, <1>11, <1>12,
             <1>13, <1>14, <1>15, <1>16, <1>17, <1>18, <1>19, <1>20, <1>21, <1>22, <1>23, <1>24,
             <1>25, <1>26, <1>27, <1>28, <1>29, <1>30, <1>31, <1>32, <1>33, <1>34 DEF Steps
-----------------------------------------------------------------------------
\* Where each callback is.
queueVars == <<work, life, ticks, micros, imms, cross, armed, running, task, inflight>>

\* The steps that move no callback.
LEMMA QuietSteps ==
  ASSUME \/ LoopTop \/ CrossEmpty \/ DrainEnds \/ Check \/ TimersEnd \/ LateEnds \/ Immediates
         \/ ImmediatesEnd \/ Bottom \/ Idle \/ ScriptEnds \/ Wake \/ Elapse \/ UNCHANGED vars
  PROVE  UNCHANGED queueVars
<1> USE DEF queueVars, jobVars, timerVars, immVars, taskVars, mainVars
<1>1. CASE LoopTop BY <1>1 DEF LoopTop, Go
<1>2. CASE CrossEmpty BY <1>2 DEF CrossEmpty, DrainThen
<1>3. CASE DrainEnds BY <1>3 DEF DrainEnds
<1>4. CASE Check BY <1>4 DEF Check, Go
<1>5. CASE TimersEnd BY <1>5 DEF TimersEnd, DrainThen
<1>6. CASE LateEnds BY <1>6 DEF LateEnds, DrainThen
<1>7. CASE Immediates BY <1>7 DEF Immediates, Go
<1>8. CASE ImmediatesEnd BY <1>8 DEF ImmediatesEnd, DrainThen
<1>9. CASE Bottom BY <1>9 DEF Bottom, Go
<1>10. CASE Idle BY <1>10 DEF Idle, Go
<1>11. CASE ScriptEnds BY <1>11 DEF ScriptEnds, Go
<1>12. CASE Wake BY <1>12 DEF Wake, Go
<1>13. CASE Elapse BY <1>13 DEF Elapse
<1>14. CASE UNCHANGED vars BY <1>14 DEF vars
<1> QED BY <1>1, <1>2, <1>3, <1>4, <1>5, <1>6, <1>7, <1>8, <1>9, <1>10, <1>11, <1>12, <1>13, <1>14

\* Nothing that Tracked(x) speaks of is changed by the step.
Unmoved(x) ==
  /\ Count(cross', x) = Count(cross, x) /\ Count(ticks', x) = Count(ticks, x)
  /\ Count(micros', x) = Count(micros, x) /\ Count(imms', x) = Count(imms, x)
  /\ x \in armed' <=> x \in armed
  /\ running' = x <=> running = x
  /\ life'[x] = life[x] /\ work'[x].kind = work[x].kind
  /\ task'[x] = task[x] /\ (x \in inflight => x \in inflight')

LEMMA UnmovedTracked ==
  ASSUME NEW x \in Cb, Tracked(x), Unmoved(x) PROVE Tracked(x)'
<1>1. Holders(x)' = Holders(x)
  <2>1. (x \in armed \/ running = x)' <=> (x \in armed \/ running = x) BY DEF Unmoved
  <2>2. One(x \in armed \/ running = x)' = One(x \in armed \/ running = x) BY <2>1 DEF One
  <2>3. One(task[x] \in {"counted", "queued", "running"})' = One(task[x] \in {"counted", "queued", "running"})
    BY DEF One, Unmoved
  <2> QED BY <2>2, <2>3 DEF Unmoved, Holders
<1> QED BY <1>1 DEF Unmoved, Tracked, Active

LEMMA CountOther ==
  ASSUME NEW s \in Seq(Cb), NEW e \in Cb, NEW c
  PROVE  /\ c # e => Count(Append(s, e), c) = Count(s, c)
         /\ Count(Append(s, e), e) = Count(s, e) + 1
<1>1. Count(Append(s, e), c) = Count(s, c) + (IF e = c THEN 1 ELSE 0) BY CountAppend
<1>2. Count(Append(s, e), e) = Count(s, e) + (IF e = e THEN 1 ELSE 0) BY CountAppend
<1>3. Count(s, c) \in Nat BY CountType
<1> QED BY <1>1, <1>2, <1>3

LEMMA CountRest ==
  ASSUME NEW s \in Seq(Cb), s # <<>>, NEW c
  PROVE  /\ c # Head(s) => Count(Tail(s), c) = Count(s, c)
         /\ Count(s, Head(s)) = Count(Tail(s), Head(s)) + 1
         /\ Tail(s) \in Seq(Cb) /\ Head(s) \in Cb
<1>1. Tail(s) \in Seq(Cb) /\ Head(s) \in Cb BY HeadTailProperties
<1>2. Count(Tail(s), c) \in Nat BY <1>1, CountType
<1> QED BY <1>1, <1>2, CountTail

LEMMA CountsNat ==
  ASSUME TypeOK, NEW c
  PROVE  Count(cross, c) \in Nat /\ Count(ticks, c) \in Nat /\ Count(micros, c) \in Nat /\ Count(imms, c) \in Nat
BY CountType DEF TypeOK

LEMMA NewWork ==
  ASSUME TypeOK, NEW c \in Cb, NEW k \in Kinds, NEW a \in Cb \cup {Nil}, NEW d \in Nat, New(c, k, a, d)
  PROVE  /\ work'[c].kind = k /\ work'[c].by = a /\ work'[c].refed = FALSE
         /\ \A x \in Cb : x # c => work'[x] = work[x]
<1> DEFINE r == [Unused EXCEPT !.kind = k, !.by = a, !.delay = d]
<1>1. r.kind = k /\ r.by = a /\ r.refed = FALSE BY DEF Unused
<1>2. work' = [work EXCEPT ![c] = r] BY DEF New
<1> HIDE DEF r
<1> QED BY <1>1, <1>2 DEF TypeOK

LEMMA TimerWork ==
  ASSUME TypeOK, NEW c \in Cb, NEW k \in {"timeout", "interval"}, NEW d \in Nat, SetTimer(c, k, d)
  PROVE  /\ work'[c].kind = k /\ work'[c].by = Nil
         /\ \A x \in Cb : x # c => work'[x] = work[x]
<1> DEFINE q == [Unused EXCEPT !.kind = k, !.delay = d]
           r == Numbered(q)
<1>1. q \in Record /\ q.kind = k /\ q.by = Nil BY DEF Unused, Record, Kinds
<1>2. work' = [work EXCEPT ![c] = r] BY DEF SetTimer
<1> HIDE DEF q
<1>3. r.kind = k /\ r.by = Nil BY <1>1, NumberedRecord DEF TypeOK
<1> HIDE DEF r
<1> QED BY <1>2, <1>3 DEF TypeOK

LEMMA TrackedPreserved ==
  ASSUME TypeOK, Control, AllTracked, [Next]_vars PROVE AllTracked'
<1> SUFFICES ASSUME NEW x \in Cb PROVE Tracked(x)'
  BY DEF AllTracked
<1>t. Tracked(x) BY DEF AllTracked
<1>n. /\ Count(cross, x) \in Nat /\ Count(ticks, x) \in Nat
      /\ Count(micros, x) \in Nat /\ Count(imms, x) \in Nat
  BY CountsNat
<1> DEFINE here == IF x \in armed \/ running = x THEN 1 ELSE 0
           away == IF task[x] \in Active THEN 1 ELSE 0
<1>h. /\ Holders(x) = Count(cross, x) + Count(ticks, x) + Count(micros, x) + Count(imms, x) + here + away
      /\ Holders(x)' = Count(cross', x) + Count(ticks', x) + Count(micros', x) + Count(imms', x) + here' + away'
  BY DEF Holders, One, Active
<1>b. /\ here \in {0, 1} /\ (here = 1 <=> x \in armed \/ running = x)
      /\ away \in {0, 1} /\ (away = 1 <=> task[x] \in Active)
      /\ here' \in {0, 1} /\ (here' = 1 <=> x \in armed' \/ running' = x)
      /\ away' \in {0, 1} /\ (away' = 1 <=> task'[x] \in Active)
  OBVIOUS
<1> HIDE DEF here, away
<1>m. Holders(x) <= 1 BY <1>t DEF Tracked
<1>e. /\ Count(cross, x) > 0 => Count(ticks, x) = 0 /\ Count(micros, x) = 0 /\ Count(imms, x) = 0
                                /\ here = 0 /\ away = 0 /\ Holders(x) = 1 /\ Count(cross, x) = 1
      /\ Count(ticks, x) > 0 => Count(cross, x) = 0 /\ Count(micros, x) = 0 /\ Count(imms, x) = 0
                                /\ here = 0 /\ away = 0 /\ Holders(x) = 1 /\ Count(ticks, x) = 1
      /\ Count(micros, x) > 0 => Count(cross, x) = 0 /\ Count(ticks, x) = 0 /\ Count(imms, x) = 0
                                /\ here = 0 /\ away = 0 /\ Holders(x) = 1 /\ Count(micros, x) = 1
      /\ Count(imms, x) > 0 => Count(cross, x) = 0 /\ Count(ticks, x) = 0 /\ Count(micros, x) = 0
                                /\ here = 0 /\ away = 0 /\ Holders(x) = 1 /\ Count(imms, x) = 1
      /\ here = 1 => Count(cross, x) = 0 /\ Count(ticks, x) = 0 /\ Count(micros, x) = 0
                     /\ Count(imms, x) = 0 /\ away = 0 /\ Holders(x) = 1
      /\ away = 1 => Count(cross, x) = 0 /\ Count(ticks, x) = 0 /\ Count(micros, x) = 0
                     /\ Count(imms, x) = 0 /\ here = 0 /\ Holders(x) = 1
      /\ Holders(x) = 0 => Count(cross, x) = 0 /\ Count(ticks, x) = 0 /\ Count(micros, x) = 0
                           /\ Count(imms, x) = 0 /\ here = 0 /\ away = 0
  BY <1>n, <1>h, <1>b, <1>m
<1>u. Unmoved(x) => Tracked(x)' BY <1>t, UnmovedTracked
<1> USE DEF jobVars, timerVars, immVars, taskVars, mainVars
<1>1. CASE UNCHANGED queueVars
  <2>1. Unmoved(x) BY <1>1 DEF queueVars, Unmoved
  <2> QED BY <2>1, <1>u
<1>2. CASE RunTick
  <2>1. ticks \in Seq(Cb) /\ ticks # <<>> /\ running = Nil BY <1>2 DEF RunTick, TypeOK
  <2>2. /\ ticks' = Tail(ticks) /\ running' = Head(ticks)
        /\ UNCHANGED <<work, life, micros, imms, cross, armed, task, inflight>>
    BY <1>2 DEF RunTick, Start
  <2>3. CASE x # Head(ticks)
    <3>1. Unmoved(x) BY <2>1, <2>2, <2>3, CountRest, LoopAssumption DEF Unmoved
    <3> QED BY <3>1, <1>u
  <2>4. CASE x = Head(ticks)
    <3>1. Count(ticks, x) = Count(ticks', x) + 1 /\ Count(ticks', x) \in Nat
      BY <2>1, <2>2, <2>4, CountRest, CountType
    <3>2. Holders(x)' = Holders(x) /\ x \notin armed
      BY <3>1, <2>1, <2>2, <2>4, <1>h, <1>b, <1>e
    <3> QED BY <3>1, <3>2, <2>2, <1>n, <1>t DEF Tracked
  <2> QED BY <2>3, <2>4
<1>3. CASE RunMicrotask
  <2>1. micros \in Seq(Cb) /\ micros # <<>> /\ running = Nil BY <1>3 DEF RunMicrotask, TypeOK
  <2>2. /\ micros' = Tail(micros) /\ running' = Head(micros)
        /\ UNCHANGED <<work, life, ticks, imms, cross, armed, task, inflight>>
    BY <1>3 DEF RunMicrotask, Start
  <2>3. CASE x # Head(micros)
    <3>1. Unmoved(x) BY <2>1, <2>2, <2>3, CountRest, LoopAssumption DEF Unmoved
    <3> QED BY <3>1, <1>u
  <2>4. CASE x = Head(micros)
    <3>1. Count(micros, x) = Count(micros', x) + 1 /\ Count(micros', x) \in Nat
      BY <2>1, <2>2, <2>4, CountRest, CountType
    <3>2. Holders(x)' = Holders(x) /\ x \notin armed
      BY <3>1, <2>1, <2>2, <2>4, <1>h, <1>b, <1>e
    <3> QED BY <3>1, <3>2, <2>2, <1>n, <1>t DEF Tracked
  <2> QED BY <2>3, <2>4
<1>4. CASE RunImmediate
  <2>1. imms \in Seq(Cb) /\ imms # <<>> /\ running = Nil BY <1>4 DEF RunImmediate, TypeOK, At
  <2>2. /\ imms' = Tail(imms)
        /\ IF life[Head(imms)] = "live" THEN running' = Head(imms) ELSE running' = Nil
        /\ UNCHANGED <<work, life, ticks, micros, cross, armed, task, inflight>>
    BY <1>4, <2>1 DEF RunImmediate, Start, DrainThen
  <2>3. CASE x # Head(imms)
    <3>1. Unmoved(x) BY <2>1, <2>2, <2>3, CountRest, LoopAssumption DEF Unmoved
    <3> QED BY <3>1, <1>u
  <2>4. CASE x = Head(imms)
    <3>1. Count(imms, x) = Count(imms', x) + 1 /\ Count(imms', x) \in Nat
      BY <2>1, <2>2, <2>4, CountRest, CountType
    <3>2. CASE life[x] = "live"
      <4>1. Holders(x)' = Holders(x) /\ x \notin armed
        BY <3>1, <3>2, <2>1, <2>2, <2>4, <1>h, <1>b, <1>e
      <4> QED BY <3>1, <3>2, <4>1, <2>2, <1>n, <1>t DEF Tracked
    <3>3. CASE life[x] # "live"
      <4>1. Holders(x)' = 0 /\ Holders(x) = 1
        BY <3>1, <3>3, <2>1, <2>2, <2>4, <1>h, <1>b, <1>e
      <4> QED BY <3>1, <3>3, <4>1, <2>2, <1>n, <1>t DEF Tracked, TypeOK
    <3> QED BY <3>2, <3>3
  <2> QED BY <2>3, <2>4
<1>5. CASE RunTimer \/ LateInterval
  <2>1. running = Nil /\ UNCHANGED <<work, life, ticks, micros, imms, cross, armed, task, inflight>>
    BY <1>5 DEF RunTimer, LateInterval, At
  <2>2. running' = Nil \/ running' \in armed
    BY <1>5, <2>1 DEF RunTimer, LateInterval, Start
  <2>3. Holders(x)' = Holders(x) BY <2>1, <2>2, <1>h, <1>b, <1>e, LoopAssumption
  <2> QED BY <2>1, <2>3, <1>t DEF Tracked
<1>6. CASE CallbackEnds
  <2>1. /\ running # Nil /\ running' = Nil
        /\ UNCHANGED <<work, ticks, micros, imms, cross, task, inflight>>
    BY <1>6 DEF CallbackEnds
  <2>2. CASE StillOn(running) /\ armed' = armed \cup {running} /\ life' = life
    <3>1. running \in armed BY <2>2 DEF StillOn
    <3>2. armed' = armed BY <2>2, <3>1
    <3>3. Holders(x)' = Holders(x) BY <2>1, <3>1, <3>2, <1>h, <1>b, <1>e, LoopAssumption
    <3> QED BY <2>1, <2>2, <3>2, <3>3, <1>t DEF Tracked
  <2>3. CASE /\ life' = [life EXCEPT ![running] = IF @ = "live" THEN "done" ELSE @]
             /\ armed' = armed \ {running}
    <3>1. CASE x # running
      <4>1. Unmoved(x) BY <2>1, <2>3, <3>1, LoopAssumption DEF Unmoved, TypeOK
      <4> QED BY <4>1, <1>u
    <3>2. CASE x = running
      <4>1. Holders(x) = 1 /\ Holders(x)' = 0 /\ task'[x] \notin Active
        <5>1. here = 1 /\ here' = 0 /\ away' = away
          BY <2>1, <2>3, <3>2, <1>b, LoopAssumption
        <5> QED BY <2>1, <5>1, <1>h, <1>b, <1>e
      <4>2. life'[x] \notin {"live", "free"} BY <2>3, <3>2, <1>t, <4>1 DEF TypeOK, Tracked
      <4>3. Count(cross', x) = 0 /\ Count(ticks', x) = 0 /\ Count(micros', x) = 0 /\ Count(imms', x) = 0
        BY <2>1, <3>2, <4>1, <1>b, <1>e
      <4> QED BY <2>1, <2>3, <3>2, <4>1, <4>2, <4>3 DEF Tracked
    <3> QED BY <3>1, <3>2
  <2> QED BY <1>6, <2>2, <2>3 DEF CallbackEnds, Arm
<1>7. ASSUME NEW c \in Cb, ClearTimeout(c) PROVE Tracked(x)'
  <2>1. /\ c \in armed /\ armed' = armed \ {c}
        /\ life' = IF running = c /\ work[c].kind = "timeout" THEN life ELSE [life EXCEPT ![c] = "cancelled"]
        /\ UNCHANGED <<work, ticks, micros, imms, cross, task, inflight, running>>
    BY <1>7 DEF ClearTimeout
  <2>2. CASE x # c
    <3>1. Unmoved(x) BY <2>1, <2>2 DEF Unmoved, TypeOK
    <3> QED BY <3>1, <1>u
  <2>3. CASE x = c
    <3>1. /\ Holders(x) = 1 /\ task[x] \notin Active
          /\ Count(cross, x) = 0 /\ Count(ticks, x) = 0 /\ Count(micros, x) = 0 /\ Count(imms, x) = 0
      BY <2>1, <2>3, <1>b, <1>e DEF Tracked
    <3>2. Holders(x)' = IF running = x THEN 1 ELSE 0
      <4>1. here' = (IF running = x THEN 1 ELSE 0) /\ away' = 0
        BY <2>1, <2>3, <3>1, <1>b
      <4> QED BY <2>1, <3>1, <4>1, <1>h, <1>b
    <3>3. life'[x] = (IF running = x /\ work[c].kind = "timeout" THEN "live" ELSE "cancelled")
      BY <2>1, <2>3, <1>t DEF Tracked, TypeOK
    <3> QED BY <2>1, <2>3, <3>1, <3>2, <3>3 DEF Tracked
  <2> QED BY <2>2, <2>3
<1>8. ASSUME NEW c \in Cb, ClearImmediate(c) PROVE Tracked(x)'
  <2>1. /\ \E i \in 1..Len(imms) : imms[i] = c
        /\ life' = [life EXCEPT ![c] = "cancelled"] /\ life[c] = "live"
        /\ UNCHANGED <<work, armed, ticks, micros, imms, cross, task, inflight, running>>
    BY <1>8 DEF ClearImmediate
  <2>2. CASE x # c
    <3>1. Unmoved(x) BY <2>1, <2>2 DEF Unmoved, TypeOK
    <3> QED BY <3>1, <1>u
  <2>3. CASE x = c
    <3>1. Count(imms, x) > 0 BY <2>1, <2>3, CountPositive DEF TypeOK
    <3>2. /\ Holders(x) = 1 /\ task[x] \notin Active /\ x \notin armed
          /\ Count(cross, x) = 0 /\ Count(ticks, x) = 0 /\ Count(micros, x) = 0
      BY <2>1, <2>3, <3>1, <1>b, <1>e DEF Tracked
    <3>3. Holders(x)' = 1 /\ life'[x] = "cancelled" BY <2>1, <2>3, <3>2, <1>h, <1>b, <1>e DEF TypeOK
    <3> QED BY <2>1, <2>3, <3>2, <3>3, <1>t DEF Tracked
  <2> QED BY <2>2, <2>3
<1>9. ASSUME NEW c \in Cb, NEW r \in BOOLEAN, SetRefed(c, r) PROVE Tracked(x)'
  <2>1. work'[x].kind = work[x].kind
    BY <1>9, RefedRecord DEF SetRefed, TypeOK
  <2>2. UNCHANGED <<life, armed, ticks, micros, imms, cross, task, inflight, running>>
    BY <1>9 DEF SetRefed
  <2>3. Unmoved(x) BY <2>1, <2>2 DEF Unmoved
  <2> QED BY <2>3, <1>u
<1>10. ASSUME NEW t \in Cb, DispatchEnqueue(t) \/ TaskStarts(t) PROVE Tracked(x)'
  <2>1. UNCHANGED <<work, life, armed, ticks, micros, imms, cross, inflight, running>>
    BY <1>10 DEF DispatchEnqueue, TaskStarts
  <2>2. task[x] \in Active <=> task'[x] \in Active
    BY <1>10 DEF DispatchEnqueue, TaskStarts, TypeOK, Active
  <2>3. Holders(x)' = Holders(x) BY <2>1, <2>2, <1>h, <1>b, <1>e
  <2> QED BY <2>1, <2>2, <2>3, <1>t DEF Tracked
<1>11. ASSUME NEW t \in Cb, TaskSettles(t) PROVE Tracked(x)'
  <2>1. /\ task[t] = "running" /\ task' = [task EXCEPT ![t] = "leaving"]
        /\ cross' = Append(cross, t) /\ cross \in Seq(Cb)
        /\ UNCHANGED <<work, life, armed, ticks, micros, imms, inflight, running>>
    BY <1>11 DEF TaskSettles, TypeOK
  <2>2. CASE x # t
    <3>1. Unmoved(x) BY <2>1, <2>2, CountOther DEF Unmoved, TypeOK
    <3> QED BY <3>1, <1>u
  <2>3. CASE x = t
    <3>1. Count(cross', x) = Count(cross, x) + 1 BY <2>1, <2>3, CountOther
    <3>2. task[x] \in Active /\ task'[x] \notin Active BY <2>1, <2>3 DEF TypeOK, Active
    <3>3. Holders(x)' = Holders(x)
      <4>1. here' = here /\ away = 1 /\ away' = 0 BY <2>1, <3>2, <1>b
      <4> QED BY <2>1, <3>1, <4>1, <1>h, <1>b, <1>e
    <3> QED BY <2>1, <3>1, <3>2, <3>3, <1>n, <1>t DEF Tracked
  <2> QED BY <2>2, <2>3
<1>12. ASSUME NEW t \in Cb, TaskLeaves(t) PROVE Tracked(x)'
  <2>1. task[x] \in Active <=> task'[x] \in Active
    BY <1>12 DEF TaskLeaves, TypeOK, Active
  <2>2. UNCHANGED <<work, life, armed, ticks, micros, imms, cross, running>>
    BY <1>12 DEF TaskLeaves
  <2>3. task[x] \in Active /\ x \in inflight => x \in inflight'
    BY <1>12 DEF TaskLeaves, TypeOK, Active
  <2>4. Holders(x)' = Holders(x) BY <2>1, <2>2, <1>h, <1>b, <1>e
  <2> QED BY <2>1, <2>2, <2>3, <2>4, <1>t DEF Tracked
<1>13. ASSUME NEW t \in Cb, NEW c \in Cb, SetIntervalOffMain(t, c) PROVE Tracked(x)'
  <2>1. /\ life[c] = "free" /\ life' = [life EXCEPT ![c] = "stranded"]
        /\ UNCHANGED <<work, armed, ticks, micros, imms, cross, task, inflight, running>>
    BY <1>13 DEF SetIntervalOffMain
  <2>2. Holders(x)' = Holders(x) BY <2>1, <1>h, <1>b, <1>e
  <2>3. CASE x # c BY <2>1, <2>2, <2>3, <1>t DEF Tracked, TypeOK
  <2>4. CASE x = c
    <3>1. Holders(x) = 0 /\ life'[x] = "stranded" BY <2>1, <2>4, <1>t DEF Tracked, TypeOK
    <3> QED BY <2>1, <2>2, <2>4, <3>1, <1>t DEF Tracked
  <2> QED BY <2>3, <2>4
<1>14. ASSUME NEW c \in Cb,
             Enqueue(c, "tick")
      PROVE  Tracked(x)'
  <2>1. /\ life[c] = "free" /\ life' = [life EXCEPT ![c] = "live"]
        /\ ticks' = Append(ticks, c)
        /\ UNCHANGED <<micros, imms, cross, armed, running, task, inflight>>
    BY <1>14 DEF Enqueue, New
  <2>2. /\ c # x => work'[x].kind = work[x].kind
        /\ work'[c].kind = "tick"
    <3>1. New(c, "tick", Nil, 0) BY <1>14 DEF Enqueue
    <3> QED BY <3>1, NewWork DEF Kinds
  <2>3. CASE x # c
    <3>1. Unmoved(x) BY <2>1, <2>2, <2>3, CountOther DEF Unmoved, TypeOK
    <3> QED BY <3>1, <1>u
  <2>4. CASE x = c
    <3>1. Holders(x) = 0 /\ life'[x] = "live" BY <2>1, <2>4, <1>t DEF Tracked, TypeOK
    <3>2. /\ Count(cross', x) = 0 /\ Count(ticks', x) = 1 /\ Count(micros', x) = 0 /\ Count(imms', x) = 0
          /\ here' = 0 /\ away' = 0
      BY <2>1, <2>4, <3>1, <1>b, <1>e, CountOther DEF TypeOK
    <3>3. Holders(x)' = 1 BY <3>2, <1>h, <1>b
    <3> QED BY <2>2, <2>4, <3>1, <3>2, <3>3, <1>b DEF Tracked
  <2> QED BY <2>3, <2>4
<1>15. ASSUME NEW c \in Cb,
             Enqueue(c, "micro")
      PROVE  Tracked(x)'
  <2>1. /\ life[c] = "free" /\ life' = [life EXCEPT ![c] = "live"]
        /\ micros' = Append(micros, c)
        /\ UNCHANGED <<ticks, imms, cross, armed, running, task, inflight>>
    BY <1>15 DEF Enqueue, New
  <2>2. /\ c # x => work'[x].kind = work[x].kind
        /\ work'[c].kind = "micro"
    <3>1. New(c, "micro", Nil, 0) BY <1>15 DEF Enqueue
    <3> QED BY <3>1, NewWork DEF Kinds
  <2>3. CASE x # c
    <3>1. Unmoved(x) BY <2>1, <2>2, <2>3, CountOther DEF Unmoved, TypeOK
    <3> QED BY <3>1, <1>u
  <2>4. CASE x = c
    <3>1. Holders(x) = 0 /\ life'[x] = "live" BY <2>1, <2>4, <1>t DEF Tracked, TypeOK
    <3>2. /\ Count(cross', x) = 0 /\ Count(ticks', x) = 0 /\ Count(micros', x) = 1 /\ Count(imms', x) = 0
          /\ here' = 0 /\ away' = 0
      BY <2>1, <2>4, <3>1, <1>b, <1>e, CountOther DEF TypeOK
    <3>3. Holders(x)' = 1 BY <3>2, <1>h, <1>b
    <3> QED BY <2>2, <2>4, <3>1, <3>2, <3>3, <1>b DEF Tracked
  <2> QED BY <2>3, <2>4
<1>16. ASSUME NEW c \in Cb,
             SetImmediate(c)
      PROVE  Tracked(x)'
  <2>1. /\ life[c] = "free" /\ life' = [life EXCEPT ![c] = "live"]
        /\ imms' = Append(imms, c)
        /\ UNCHANGED <<ticks, micros, cross, armed, running, task, inflight>>
    BY <1>16 DEF SetImmediate
  <2>2. /\ c # x => work'[x].kind = work[x].kind
        /\ work'[c].kind = "imm"
    BY <1>16, ImmediateRecord, NumberedRecord DEF SetImmediate, TypeOK, Kinds
  <2>3. CASE x # c
    <3>1. Unmoved(x) BY <2>1, <2>2, <2>3, CountOther DEF Unmoved, TypeOK
    <3> QED BY <3>1, <1>u
  <2>4. CASE x = c
    <3>1. Holders(x) = 0 /\ life'[x] = "live" BY <2>1, <2>4, <1>t DEF Tracked, TypeOK
    <3>2. /\ Count(cross', x) = 0 /\ Count(ticks', x) = 0 /\ Count(micros', x) = 0 /\ Count(imms', x) = 1
          /\ here' = 0 /\ away' = 0
      BY <2>1, <2>4, <3>1, <1>b, <1>e, CountOther DEF TypeOK
    <3>3. Holders(x)' = 1 BY <3>2, <1>h, <1>b
    <3> QED BY <2>2, <2>4, <3>1, <3>2, <3>3, <1>b DEF Tracked
  <2> QED BY <2>3, <2>4
<1>17. ASSUME NEW c \in Cb, NEW k \in {"timeout", "interval"}, NEW d \in Nat,
             SetTimer(c, k, d)
      PROVE  Tracked(x)'
  <2>1. /\ life[c] = "free" /\ life' = [life EXCEPT ![c] = "live"]
        /\ armed' = armed \cup {c}
        /\ UNCHANGED <<ticks, micros, imms, cross, running, task, inflight>>
    BY <1>17 DEF SetTimer, Arm
  <2>2. /\ c # x => work'[x].kind = work[x].kind
        /\ work'[c].kind = k
    BY <1>17, TimerWork
  <2>3. CASE x # c
    <3>1. Unmoved(x) BY <2>1, <2>2, <2>3, CountOther DEF Unmoved, TypeOK
    <3> QED BY <3>1, <1>u
  <2>4. CASE x = c
    <3>1. Holders(x) = 0 /\ life'[x] = "live" BY <2>1, <2>4, <1>t DEF Tracked, TypeOK
    <3>2. /\ Count(cross', x) = 0 /\ Count(ticks', x) = 0 /\ Count(micros', x) = 0 /\ Count(imms', x) = 0
          /\ here' = 1 /\ away' = 0
      BY <2>1, <2>4, <3>1, <1>b, <1>e, CountOther DEF TypeOK
    <3>3. Holders(x)' = 1 BY <3>2, <1>h, <1>b
    <3> QED BY <2>2, <2>4, <3>1, <3>2, <3>3, <1>b DEF Tracked
  <2> QED BY <2>3, <2>4
<1>18. ASSUME NEW a \in Cb \cup {Nil}, NEW c \in Cb,
             DispatchAsync(a, c)
      PROVE  Tracked(x)'
  <2>1. /\ life[c] = "free" /\ life' = [life EXCEPT ![c] = "live"]
        /\ task' = [task EXCEPT ![c] = "counted"] /\ inflight' = inflight \cup {c}
        /\ UNCHANGED <<ticks, micros, imms, cross, armed, running>>
    BY <1>18 DEF DispatchAsync, New
  <2>2. /\ c # x => work'[x].kind = work[x].kind
        /\ work'[c].kind = "task"
    <3>1. New(c, "task", a, 0) BY <1>18 DEF DispatchAsync
    <3> QED BY <3>1, NewWork DEF Kinds
  <2>3. CASE x # c
    <3>1. Unmoved(x) BY <2>1, <2>2, <2>3, CountOther DEF Unmoved, TypeOK
    <3> QED BY <3>1, <1>u
  <2>4. CASE x = c
    <3>1. Holders(x) = 0 /\ life'[x] = "live" BY <2>1, <2>4, <1>t DEF Tracked, TypeOK
    <3>2. /\ Count(cross', x) = 0 /\ Count(ticks', x) = 0 /\ Count(micros', x) = 0 /\ Count(imms', x) = 0
          /\ here' = 0 /\ away' = 1 /\ x \in inflight'
      BY <2>1, <2>4, <3>1, <1>b, <1>e, CountOther DEF TypeOK, Active
    <3>3. Holders(x)' = 1 BY <3>2, <1>h, <1>b
    <3> QED BY <2>2, <2>4, <3>1, <3>2, <3>3, <1>b DEF Tracked
  <2> QED BY <2>3, <2>4
<1>19. ASSUME NEW t \in Cb, NEW c \in Cb, NEW k \in {"tick", "micro", "imm", "timeout"}, NEW d \in Nat,
             Post(t, c, k, d)
      PROVE  Tracked(x)'
  <2>1. /\ life[c] = "free" /\ life' = [life EXCEPT ![c] = "live"]
        /\ cross' = Append(cross, c)
        /\ UNCHANGED <<ticks, micros, imms, armed, running, task, inflight>>
    BY <1>19 DEF Post, New
  <2>2. /\ c # x => work'[x].kind = work[x].kind
        /\ work'[c].kind = k
    <3>1. New(c, k, t, d) BY <1>19 DEF Post
    <3>2. k \in Kinds /\ t \in Cb \cup {Nil} BY DEF Kinds
    <3> QED BY <3>1, <3>2, NewWork
  <2>3. CASE x # c
    <3>1. Unmoved(x) BY <2>1, <2>2, <2>3, CountOther DEF Unmoved, TypeOK
    <3> QED BY <3>1, <1>u
  <2>4. CASE x = c
    <3>1. Holders(x) = 0 /\ life'[x] = "live" BY <2>1, <2>4, <1>t DEF Tracked, TypeOK
    <3>2. /\ Count(cross', x) = 1 /\ Count(ticks', x) = 0 /\ Count(micros', x) = 0 /\ Count(imms', x) = 0
          /\ here' = 0 /\ away' = 0
      BY <2>1, <2>4, <3>1, <1>b, <1>e, CountOther DEF TypeOK
    <3>3. Holders(x)' = 1 BY <3>2, <1>h, <1>b
    <3> QED BY <2>2, <2>4, <3>1, <3>2, <3>3, <1>b DEF Tracked
  <2> QED BY <2>3, <2>4
<1>20. CASE TakeCross
  <2> DEFINE c == Head(cross)
             k == work[c].kind
  <2>1. cross \in Seq(Cb) /\ cross # <<>> /\ c \in Cb /\ cross' = Tail(cross)
        /\ UNCHANGED <<life, inflight, task, running>>
    BY <1>20, HeadTailProperties DEF TakeCross, TypeOK
  <2>2. Count(cross, c) = Count(cross', c) + 1 /\ Count(cross', c) \in Nat
    BY <2>1, CountRest, CountType
  <2>3. life[c] = "live" /\ k \in {"tick", "micro", "imm", "timeout", "task"}
    <3>1. Count(cross, c) > 0 BY <2>2
    <3> QED BY <2>1, <3>1 DEF AllTracked, Tracked
  <2>4. /\ ticks' = (IF k = "tick" THEN Append(ticks, c) ELSE ticks)
        /\ micros' = (IF k \in {"micro", "task"} THEN Append(micros, c) ELSE micros)
        /\ imms' = (IF k = "imm" THEN Append(imms, c) ELSE imms)
        /\ armed' = (IF k = "timeout" THEN armed \cup {c} ELSE armed)
    BY <1>20 DEF TakeCross, Arm
  <2>5. work' = work \/ work' = [work EXCEPT ![c] = Numbered(@)]
    BY <1>20, Zenon DEF TakeCross
  <2>6. work'[x].kind = work[x].kind
    <3>1. CASE work' = work BY <3>1
    <3>2. CASE work' = [work EXCEPT ![c] = Numbered(@)]
      <4>1. Numbered(work[c]).kind = k BY <2>1, NumberedRecord DEF TypeOK
      <4> QED BY <3>2, <4>1, <2>1 DEF TypeOK
    <3> QED BY <2>5, <3>1, <3>2
  <2> HIDE DEF c, k
  <2>7. CASE x # c
    <3>1. Count(ticks', x) = Count(ticks, x) /\ Count(micros', x) = Count(micros, x)
          /\ Count(imms', x) = Count(imms, x) /\ (x \in armed' <=> x \in armed)
      <4>1. ticks \in Seq(Cb) /\ micros \in Seq(Cb) /\ imms \in Seq(Cb) BY DEF TypeOK
      <4>2. Count(ticks', x) = Count(ticks, x) BY <2>1, <2>4, <2>7, <4>1, CountOther
      <4>3. Count(micros', x) = Count(micros, x) BY <2>1, <2>4, <2>7, <4>1, CountOther
      <4>4. Count(imms', x) = Count(imms, x) BY <2>1, <2>4, <2>7, <4>1, CountOther
      <4>5. x \in armed' <=> x \in armed BY <2>4, <2>7
      <4> QED BY <4>2, <4>3, <4>4, <4>5
    <3>2. Count(cross', x) = Count(cross, x) BY <2>1, <2>7, CountRest DEF c
    <3>3. Unmoved(x) BY <2>1, <2>6, <3>1, <3>2 DEF Unmoved
    <3> QED BY <3>3, <1>u
  <2>8. CASE x = c
    <3>1. Count(cross, x) = 1 /\ Count(cross', x) = 0 /\ Count(ticks, x) = 0 /\ Count(micros, x) = 0
          /\ Count(imms, x) = 0 /\ here = 0 /\ away = 0 /\ Holders(x) = 1
      BY <2>2, <2>8, <1>e
    <3>2. /\ Count(ticks', x) = (IF k = "tick" THEN 1 ELSE 0)
          /\ Count(micros', x) = (IF k \in {"micro", "task"} THEN 1 ELSE 0)
          /\ Count(imms', x) = (IF k = "imm" THEN 1 ELSE 0)
      BY <2>1, <2>4, <2>8, <3>1, CountOther DEF TypeOK
    <3>3. (x \in armed' <=> k = "timeout") /\ running' # x /\ task'[x] \notin Active
      BY <2>1, <2>4, <2>8, <3>1, <1>b
    <3>4. here' = (IF k = "timeout" THEN 1 ELSE 0) /\ away' = 0 BY <3>3, <1>b
    <3>5. Holders(x)' = 1 BY <2>3, <3>1, <3>2, <3>4, <1>h
    <3>6. life'[x] = "live" /\ work'[x].kind = k BY <2>1, <2>3, <2>6, <2>8 DEF k
    <3> QED BY <2>3, <3>1, <3>2, <3>3, <3>5, <3>6 DEF Tracked
  <2> QED BY <2>7, <2>8
<1>21. CASE UNCHANGED vars BY <1>21, <1>1, QuietSteps
<1>22. CASE Next
  <2>1. CASE \/ LoopTop \/ CrossEmpty \/ DrainEnds \/ Check \/ TimersEnd \/ LateEnds \/ Immediates
             \/ ImmediatesEnd \/ Bottom \/ Idle \/ ScriptEnds \/ Wake \/ Elapse
    BY <2>1, <1>1, QuietSteps
  <2>2. ASSUME NEW c \in Cb, NEW k \in {"tick", "micro"}, Enqueue(c, k) PROVE Tracked(x)'
    BY <2>2, <1>14, <1>15
  <2> HIDE DEF jobVars, timerVars, immVars, taskVars, mainVars
  <2> QED BY <1>22, StepCases, <2>1, <2>2, <1>2, <1>3, <1>4, <1>5, <1>6, <1>7, <1>8, <1>9, <1>10,
             <1>11,
             <1>12, <1>13, <1>16, <1>17, <1>18, <1>19, <1>20 DEF Steps
<1> QED BY <1>21, <1>22
-----------------------------------------------------------------------------
\* A callback is in one place: being in one, it is in no other.
LEMMA OnePlace ==
  ASSUME TypeOK, NEW x \in Cb, Tracked(x)
  PROVE  /\ Count(cross, x) > 0 => x \notin armed /\ running # x /\ task[x] \notin Active
         /\ x \in armed \/ running = x => Count(cross, x) = 0 /\ Count(ticks, x) = 0 /\ Count(micros, x) = 0
                                         /\ Count(imms, x) = 0 /\ task[x] \notin Active
         /\ task[x] \in Active => Count(cross, x) = 0
         /\ life[x] = "free" => Count(cross, x) = 0 /\ x \notin armed /\ running # x /\ task[x] \notin Active
<1> DEFINE here == IF x \in armed \/ running = x THEN 1 ELSE 0
           away == IF task[x] \in Active THEN 1 ELSE 0
<1>1. Holders(x) = Count(cross, x) + Count(ticks, x) + Count(micros, x) + Count(imms, x) + here + away
  BY DEF Holders, One, Active
<1>2. /\ here \in {0, 1} /\ (here = 1 <=> x \in armed \/ running = x)
      /\ away \in {0, 1} /\ (away = 1 <=> task[x] \in Active)
  OBVIOUS
<1> HIDE DEF here, away
<1>3. /\ Count(cross, x) \in Nat /\ Count(ticks, x) \in Nat
      /\ Count(micros, x) \in Nat /\ Count(imms, x) \in Nat
  BY CountsNat
<1>4. Holders(x) <= 1 /\ (life[x] = "free" => Holders(x) = 0) BY DEF Tracked
<1>5. Holders(x) = 0 => Count(cross, x) = 0 /\ here = 0 /\ away = 0 BY <1>1, <1>2, <1>3
<1>6. Count(cross, x) > 0 => here = 0 /\ away = 0 BY <1>1, <1>2, <1>3, <1>4
<1>7. here = 1 => Count(cross, x) = 0 /\ Count(ticks, x) = 0 /\ Count(micros, x) = 0
                 /\ Count(imms, x) = 0 /\ away = 0
  BY <1>1, <1>2, <1>3, <1>4
<1>8. away = 1 => Count(cross, x) = 0 BY <1>3, <1>2, <1>6
<1> QED BY <1>2, <1>4, <1>5, <1>6, <1>7, <1>8

\* The tasks still to be settled, counted.
LEMMA SameUnsettled ==
  ASSUME Counted, outstanding' = outstanding,
         \A x \in Cb : (task'[x] \in Active \/ (work'[x].kind = "task" /\ Count(cross', x) > 0))
                     <=> (task[x] \in Active \/ (work[x].kind = "task" /\ Count(cross, x) > 0))
  PROVE  Counted'
<1>1. Unsettled' = Unsettled BY DEF Unsettled
<1> QED BY <1>1 DEF Counted

LEMMA CountedPreserved ==
  ASSUME TypeOK, AllTracked, Counted, [Next]_vars PROVE Counted'
<1> DEFINE Open(x) == task[x] \in Active \/ (work[x].kind = "task" /\ Count(cross, x) > 0)
<1>s. outstanding' = outstanding /\ (\A x \in Cb : Open(x)' <=> Open(x)) => Counted'
  BY SameUnsettled
<1>u. Unsettled = {x \in Cb : Open(x)} /\ Unsettled' = {x \in Cb : Open(x)'}
  BY DEF Unsettled
<1>f. \A x \in Cb : life[x] = "free" => ~Open(x)
  <2> SUFFICES ASSUME NEW x \in Cb, life[x] = "free" PROVE ~Open(x) OBVIOUS
  <2>1. Count(cross, x) = 0 /\ task[x] \notin Active BY OnePlace DEF AllTracked
  <2> QED BY <2>1
<1>c. IsFiniteSet(Unsettled) /\ outstanding = Cardinality(Unsettled) /\ outstanding \in Nat
  BY DEF Counted, TypeOK
<1> USE DEF jobVars, timerVars, immVars, taskVars, mainVars
<1>1. CASE UNCHANGED <<work, cross, task, outstanding>>
  <2>1. \A x \in Cb : Open(x)' <=> Open(x) BY <1>1
  <2> HIDE DEF Open
  <2> QED BY <1>1, <2>1, <1>s
<1>2. ASSUME NEW c \in Cb, NEW r \in BOOLEAN, SetRefed(c, r) PROVE Counted'
  <2>1. \A x \in Cb : work'[x].kind = work[x].kind
    BY <1>2, RefedRecord DEF SetRefed, TypeOK
  <2>2. UNCHANGED <<cross, task, outstanding>> BY <1>2 DEF SetRefed
  <2>3. \A x \in Cb : Open(x)' <=> Open(x) BY <2>1, <2>2
  <2> HIDE DEF Open
  <2> QED BY <2>2, <2>3, <1>s
<1>3. ASSUME NEW c \in Cb, life[c] = "free", UNCHANGED <<cross, task, outstanding>>,
             \A x \in Cb : x # c => work'[x] = work[x]
      PROVE  Counted'
  <2>1. Count(cross, c) = 0 /\ task[c] \notin Active BY <1>3, OnePlace DEF AllTracked
  <2>2. \A x \in Cb : Open(x)' <=> Open(x) BY <2>1, <1>3
  <2> HIDE DEF Open
  <2> QED BY <2>2, <1>3, <1>s
<1>4. ASSUME NEW c \in Cb, NEW k \in {"tick", "micro"}, Enqueue(c, k) PROVE Counted'
  <2>1. New(c, k, Nil, 0) BY <1>4 DEF Enqueue
  <2>2. \A x \in Cb : x # c => work'[x] = work[x]
    <3>1. k \in Kinds /\ Nil \in Cb \cup {Nil} BY DEF Kinds
    <3> QED BY <2>1, <3>1, NewWork
  <2>3. life[c] = "free" /\ UNCHANGED <<cross, task, outstanding>> BY <1>4, <2>1 DEF Enqueue, New
  <2> QED BY <2>2, <2>3, <1>3
<1>5. ASSUME NEW c \in Cb, SetImmediate(c) PROVE Counted'
  <2>1. life[c] = "free" /\ UNCHANGED <<cross, task, outstanding>>
        /\ \A x \in Cb : x # c => work'[x] = work[x]
    BY <1>5 DEF SetImmediate, TypeOK
  <2> QED BY <2>1, <1>3
<1>6. ASSUME NEW c \in Cb, NEW k \in {"timeout", "interval"}, NEW d \in Nat, SetTimer(c, k, d)
      PROVE  Counted'
  <2>1. life[c] = "free" /\ UNCHANGED <<cross, task, outstanding>>
        /\ \A x \in Cb : x # c => work'[x] = work[x]
    BY <1>6, TimerWork DEF SetTimer
  <2> QED BY <2>1, <1>3
<1>7. ASSUME NEW a \in Cb \cup {Nil}, NEW t \in Cb, DispatchAsync(a, t) PROVE Counted'
  <2>1. New(t, "task", a, 0) /\ outstanding' = outstanding + 1 /\ cross' = cross
        /\ task' = [task EXCEPT ![t] = "counted"]
    BY <1>7 DEF DispatchAsync
  <2>2. life[t] = "free" /\ \A x \in Cb : x # t => work'[x] = work[x]
    BY <2>1, NewWork DEF New, Kinds
  <2>3. t \notin Unsettled BY <2>2, <1>f, <1>u
  <2>4. \A x \in Cb : Open(x)' <=> Open(x) \/ x = t BY <2>1, <2>2 DEF TypeOK, Active
  <2> HIDE DEF Open
  <2>5. Unsettled' = Unsettled \cup {t} BY <2>4, <1>u
  <2>6. IsFiniteSet(Unsettled') /\ Cardinality(Unsettled') = Cardinality(Unsettled) + 1
    BY <2>3, <2>5, <1>c, FS_AddElement
  <2> QED BY <2>1, <2>6, <1>c DEF Counted
<1>8. ASSUME NEW t \in Cb, DispatchEnqueue(t) \/ TaskStarts(t) \/ TaskLeaves(t) PROVE Counted'
  <2>1. UNCHANGED <<work, cross, outstanding>> BY <1>8 DEF DispatchEnqueue, TaskStarts, TaskLeaves
  <2>2. \A x \in Cb : task'[x] \in Active <=> task[x] \in Active
    BY <1>8 DEF DispatchEnqueue, TaskStarts, TaskLeaves, TypeOK, Active
  <2>3. \A x \in Cb : Open(x)' <=> Open(x) BY <2>1, <2>2
  <2> HIDE DEF Open
  <2> QED BY <2>1, <2>3, <1>s
<1>9. ASSUME NEW t \in Cb, TaskSettles(t) PROVE Counted'
  <2>1. /\ task[t] = "running" /\ task' = [task EXCEPT ![t] = "leaving"]
        /\ cross' = Append(cross, t) /\ cross \in Seq(Cb) /\ UNCHANGED <<work, outstanding>>
    BY <1>9 DEF TaskSettles, TypeOK
  <2>2. \A x \in Cb : x # t => (Open(x)' <=> Open(x)) BY <2>1, CountOther DEF TypeOK
  <2>3. Open(t)
    BY <2>1 DEF Active
  <2>4. Open(t)'
    <3>1. work[t].kind = "task" BY <2>1 DEF AllTracked, Tracked, Active
    <3>2. Count(cross', t) = Count(cross, t) + 1 /\ Count(cross, t) \in Nat
      BY <2>1, CountOther, CountType
    <3> QED BY <3>1, <3>2, <2>1
  <2> HIDE DEF Open
  <2> QED BY <2>1, <2>2, <2>3, <2>4, <1>s
<1>10. ASSUME NEW t \in Cb, NEW c \in Cb, NEW k \in {"tick", "micro", "imm", "timeout"},
              NEW d \in Nat, Post(t, c, k, d)
       PROVE  Counted'
  <2>1. /\ New(c, k, t, d) /\ cross' = Append(cross, c) /\ cross \in Seq(Cb)
        /\ UNCHANGED <<task, outstanding>>
    BY <1>10 DEF Post, TypeOK
  <2>2. k \in Kinds /\ t \in Cb \cup {Nil} BY DEF Kinds
  <2>3. life[c] = "free" /\ work'[c].kind = k /\ \A x \in Cb : x # c => work'[x] = work[x]
    BY <2>1, <2>2, NewWork DEF New
  <2>4. Count(cross, c) = 0 /\ task[c] \notin Active BY <2>3, OnePlace DEF AllTracked
  <2>5. \A x \in Cb : x # c => (Open(x)' <=> Open(x)) BY <2>1, <2>3, CountOther
  <2>6. ~Open(c) /\ ~Open(c)' BY <2>1, <2>3, <2>4
  <2> HIDE DEF Open
  <2> QED BY <2>1, <2>5, <2>6, <1>s
<1>11. CASE TakeCross
  <2>h. Head(cross) \in Cb BY <1>11, HeadTailProperties DEF TakeCross, TypeOK
  <2>4. PICK c \in Cb : c = Head(cross) BY <2>h
  <2> DEFINE k == work[c].kind
  <2>1. cross \in Seq(Cb) /\ cross # <<>> /\ c \in Cb /\ cross' = Tail(cross) /\ task' = task
        /\ outstanding' = CountedDown(c)
    BY <1>11, <2>4 DEF TakeCross, TypeOK
  <2>2. Count(cross, c) = Count(cross', c) + 1 /\ Count(cross', c) \in Nat
    BY <2>1, <2>4, CountRest, CountType
  <2>3. Count(cross', c) = 0 /\ task[c] \notin Active
    <3>1. Count(cross, c) > 0 BY <2>2
    <3>2. Holders(c) <= 1 BY <2>1 DEF AllTracked, Tracked
    <3>3. Holders(c) >= Count(cross, c) BY CountsNat DEF Holders, One
    <3>4. Holders(c) \in Int BY CountsNat DEF Holders, One
    <3> QED BY <2>1, <2>2, <3>1, <3>2, <3>3, <3>4, OnePlace DEF AllTracked
  <2>5. work' = work \/ work' = [work EXCEPT ![c] = Numbered(@)]
    BY <1>11, <2>4, Zenon DEF TakeCross
  <2>6. \A x \in Cb : work'[x].kind = work[x].kind
    <3>1. CASE work' = work BY <3>1
    <3>2. CASE work' = [work EXCEPT ![c] = Numbered(@)]
      <4>1. Numbered(work[c]).kind = k BY <2>1, NumberedRecord DEF TypeOK
      <4> QED BY <3>2, <4>1, <2>1 DEF TypeOK
    <3> QED BY <2>5, <3>1, <3>2
  <2>7. \A x \in Cb : x # c => (Open(x)' <=> Open(x)) BY <2>1, <2>4, <2>6, CountRest
  <2>8. ~Open(c)' BY <2>1, <2>3
  <2>9. CASE k = "task"
    <3>1. Open(c) BY <2>2, <2>9
    <3> HIDE DEF Open, k
    <3>2. Unsettled' = Unsettled \ {c} /\ c \in Unsettled BY <2>1, <2>7, <2>8, <3>1, <1>u
    <3>3. IsFiniteSet(Unsettled') /\ Cardinality(Unsettled') = Cardinality(Unsettled) - 1
      BY <3>2, <1>c, FS_RemoveElement
    <3>4. outstanding # 0 BY <3>2, <1>c, FS_EmptySet
    <3>5. outstanding' = outstanding - 1 BY <2>1, <2>9, <3>4, <1>c DEF CountedDown, k
    <3> QED BY <3>3, <3>5, <1>c DEF Counted
  <2>10. CASE k # "task"
    <3>1. ~Open(c) BY <2>3, <2>10
    <3>2. outstanding' = outstanding BY <2>1, <2>10 DEF CountedDown
    <3> HIDE DEF Open, k
    <3> QED BY <2>1, <2>7, <2>8, <3>1, <3>2, <1>s
  <2> QED BY <2>9, <2>10
<1>12. CASE \/ LoopTop \/ CrossEmpty \/ RunTick \/ RunMicrotask \/ DrainEnds \/ Check \/ RunTimer
            \/ TimersEnd \/ LateInterval \/ LateEnds \/ Immediates \/ RunImmediate \/ ImmediatesEnd
            \/ Bottom \/ Idle \/ CallbackEnds \/ ScriptEnds \/ Wake \/ Elapse
            \/ (\E c \in Cb : ClearTimeout(c) \/ ClearImmediate(c))
            \/ (\E t, c \in Cb : SetIntervalOffMain(t, c)) \/ UNCHANGED vars
  <2>1. UNCHANGED <<work, cross, task, outstanding>>
    BY <1>12 DEF LoopTop, CrossEmpty, RunTick, RunMicrotask, DrainEnds, Check, RunTimer, TimersEnd,
       LateInterval, LateEnds, Immediates, RunImmediate, ImmediatesEnd, Bottom, Idle, CallbackEnds,
       ScriptEnds, Wake, Elapse, ClearTimeout, ClearImmediate, SetIntervalOffMain, vars
  <2> QED BY <2>1, <1>1
<1> QED
  <2> HIDE DEF jobVars, timerVars, immVars, taskVars, mainVars
  <2> QED BY StepCases, <1>2, <1>4, <1>5, <1>6, <1>7, <1>8, <1>9, <1>10, <1>11, <1>12 DEF Steps
-----------------------------------------------------------------------------
\* The job queues stay empty from the end of a drain to the next callback.
LEMMA DrainedPreserved ==
  ASSUME TypeOK, Control, Drained, [Next]_vars PROVE Drained'
<1> USE LoopAssumption DEF Control, Drained, At, Drains, jobVars, timerVars, immVars, taskVars, mainVars
<1>1. CASE LoopTop
  BY <1>1 DEF LoopTop, Go, Referenced
<1>2. CASE TakeCross
  BY <1>2 DEF TakeCross
<1>3. CASE CrossEmpty
  BY <1>3 DEF CrossEmpty, DrainThen
<1>4. CASE RunTick
  BY <1>4 DEF RunTick, Start, TypeOK
<1>5. CASE RunMicrotask
  BY <1>5 DEF RunMicrotask, Start, TypeOK
<1>6. CASE DrainEnds
  BY <1>6 DEF DrainEnds
<1>7. CASE Check
  BY <1>7 DEF Check, Go
<1>8. CASE RunTimer
  BY <1>8 DEF RunTimer, Start, TypeOK
<1>9. CASE TimersEnd
  BY <1>9 DEF TimersEnd, DrainThen
<1>10. CASE LateInterval
  BY <1>10 DEF LateInterval, Start
<1>11. CASE LateEnds
  BY <1>11 DEF LateEnds, DrainThen
<1>12. CASE Immediates
  BY <1>12 DEF Immediates, Go
<1>13. CASE RunImmediate
  BY <1>13 DEF RunImmediate, Start, DrainThen, TypeOK
<1>14. CASE ImmediatesEnd
  BY <1>14 DEF ImmediatesEnd, DrainThen
<1>15. CASE Bottom
  BY <1>15 DEF Bottom, Go
<1>16. CASE Idle
  BY <1>16 DEF Idle, Go
<1>17. CASE CallbackEnds
  BY <1>17 DEF CallbackEnds, AfterCallback
<1>18. CASE ScriptEnds
  BY <1>18 DEF ScriptEnds, Go
<1>19. CASE Wake
  BY <1>19 DEF Wake, Go
<1>20. ASSUME NEW c \in Cb, NEW k \in {"tick", "micro"}, Enqueue(c, k) PROVE Drained'
  BY <1>20 DEF Enqueue, Calling
<1>21. ASSUME NEW t \in Cb, NEW c \in Cb, NEW k \in {"tick", "micro", "imm", "timeout"}, NEW d \in Nat,
              Post(t, c, k, d)
       PROVE  Drained'
  BY <1>21 DEF Post, Woken
<1>22. ASSUME NEW t \in Cb, TaskSettles(t) PROVE Drained'
  BY <1>22 DEF TaskSettles, Woken
<1>23. CASE \/ Elapse
            \/ (\E c \in Cb : ClearTimeout(c) \/ ClearImmediate(c) \/ SetImmediate(c))
            \/ (\E c \in Cb, r \in BOOLEAN : SetRefed(c, r))
            \/ (\E c \in Cb, k \in {"timeout", "interval"}, d \in Nat : SetTimer(c, k, d))
            \/ (\E a \in Cb \cup {Nil}, t \in Cb : DispatchAsync(a, t))
            \/ (\E t, c \in Cb : SetIntervalOffMain(t, c))
            \/ (\E t \in Cb : DispatchEnqueue(t) \/ TaskStarts(t) \/ TaskLeaves(t))
            \/ UNCHANGED vars
  <2>1. UNCHANGED <<ticks, micros, place, running>>
    BY <1>23 DEF Elapse, ClearTimeout, ClearImmediate, SetRefed, SetImmediate, SetTimer,
       DispatchAsync, SetIntervalOffMain, DispatchEnqueue, TaskStarts, TaskLeaves, vars
  <2> QED BY <2>1
<1> QED BY StepCases, <1>1, <1>2, <1>3, <1>4, <1>5, <1>6, <1>7, <1>8, <1>9, <1>10, <1>11, <1>12,
           <1>13, <1>14, <1>15, <1>16, <1>17, <1>18, <1>19, <1>20, <1>21, <1>22, <1>23 DEF Steps
\* The loop goes to sleep, and stays asleep, only when that is safe.
LEMMA IdlePreserved ==
  ASSUME TypeOK, Control, IdleIsSafe, SleepIsSafe, [Next]_vars PROVE IdleIsSafe' /\ SleepIsSafe'
<1> USE DEF Control, At, Drains, IdleIsSafe, SleepIsSafe, jobVars, timerVars, immVars, taskVars, mainVars
<1>1. CASE LoopTop
  BY <1>1 DEF LoopTop, Go
<1>2. CASE TakeCross
  BY <1>2 DEF TakeCross
<1>3. CASE CrossEmpty
  BY <1>3 DEF CrossEmpty, DrainThen
<1>4. CASE RunTick
  BY <1>4 DEF RunTick, Start
<1>5. CASE RunMicrotask
  BY <1>5 DEF RunMicrotask, Start
<1>6. CASE DrainEnds
  BY <1>6 DEF DrainEnds
<1>7. CASE Check
  BY <1>7 DEF Check, Go
<1>8. CASE RunTimer
  BY <1>8 DEF RunTimer, Start
<1>9. CASE TimersEnd
  BY <1>9 DEF TimersEnd, DrainThen
<1>10. CASE LateInterval
  BY <1>10 DEF LateInterval, Start
<1>11. CASE LateEnds
  BY <1>11 DEF LateEnds, DrainThen
<1>12. CASE Immediates
  BY <1>12 DEF Immediates, Go
<1>13. CASE RunImmediate
  BY <1>13 DEF RunImmediate, Start, DrainThen
<1>14. CASE ImmediatesEnd
  BY <1>14 DEF ImmediatesEnd, DrainThen
<1>15. CASE Bottom
  BY <1>15 DEF Bottom, Go
<1>16. CASE Idle
  BY <1>16 DEF Idle, Go
<1>17. CASE CallbackEnds
  BY <1>17 DEF CallbackEnds, AfterCallback
<1>18. CASE ScriptEnds
  BY <1>18 DEF ScriptEnds, Go
<1>19. CASE Wake
  BY <1>19 DEF Wake, Go
<1>20. ASSUME NEW c \in Cb, NEW k \in {"tick", "micro"}, Enqueue(c, k)
       PROVE  IdleIsSafe' /\ SleepIsSafe'
  BY <1>20 DEF Enqueue, Calling
<1>21. ASSUME NEW t \in Cb, NEW c \in Cb, NEW k \in {"tick", "micro", "imm", "timeout"}, NEW d \in Nat,
              Post(t, c, k, d)
       PROVE  IdleIsSafe' /\ SleepIsSafe'
  <2>1. cross' = Append(cross, c) /\ cross \in Seq(Cb) /\ place' = Woken
        /\ UNCHANGED <<armed, untimed, outstanding>>
    BY <1>21 DEF Post, TypeOK
  <2>2. cross' # <<>> BY <2>1, AppendProperties
  <2>3. place' # "sleep" /\ (place' = "idle" => place = "idle") BY <2>1 DEF Woken
  <2> QED BY <2>1, <2>2, <2>3
<1>22. ASSUME NEW t \in Cb, TaskSettles(t) PROVE IdleIsSafe' /\ SleepIsSafe'
  <2>1. cross' = Append(cross, t) /\ cross \in Seq(Cb) /\ place' = Woken
        /\ UNCHANGED <<armed, untimed, outstanding>>
    BY <1>22 DEF TaskSettles, TypeOK
  <2>2. cross' # <<>> BY <2>1, AppendProperties
  <2>3. place' # "sleep" /\ (place' = "idle" => place = "idle") BY <2>1 DEF Woken
  <2> QED BY <2>1, <2>2, <2>3
<1>23. ASSUME NEW c \in Cb, SetImmediate(c) PROVE IdleIsSafe' /\ SleepIsSafe'
  BY <1>23 DEF SetImmediate, Calling
<1>24. ASSUME NEW c \in Cb, NEW k \in {"timeout", "interval"}, NEW d \in Nat, SetTimer(c, k, d)
       PROVE  IdleIsSafe' /\ SleepIsSafe'
  BY <1>24 DEF SetTimer, Calling
<1>25. ASSUME NEW c \in Cb, ClearTimeout(c) PROVE IdleIsSafe' /\ SleepIsSafe'
  BY <1>25 DEF ClearTimeout, HasHandle, Calling
<1>26. ASSUME NEW c \in Cb, ClearImmediate(c) PROVE IdleIsSafe' /\ SleepIsSafe'
  BY <1>26 DEF ClearImmediate, HasHandle, Calling
<1>27. ASSUME NEW c \in Cb, NEW r \in BOOLEAN, SetRefed(c, r) PROVE IdleIsSafe' /\ SleepIsSafe'
  BY <1>27 DEF SetRefed, HasHandle, Calling
<1>28. ASSUME NEW a \in Cb \cup {Nil}, NEW t \in Cb, DispatchAsync(a, t)
       PROVE  IdleIsSafe' /\ SleepIsSafe'
  BY <1>28 DEF DispatchAsync, TypeOK
<1>29. CASE \/ Elapse \/ (\E t, c \in Cb : SetIntervalOffMain(t, c))
            \/ (\E t \in Cb : DispatchEnqueue(t) \/ TaskStarts(t) \/ TaskLeaves(t)) \/ UNCHANGED vars
  <2>1. UNCHANGED <<place, untimed, armed, outstanding, cross>>
    BY <1>29 DEF Elapse, SetIntervalOffMain, DispatchEnqueue, TaskStarts, TaskLeaves, vars
  <2> QED BY <2>1
<1> QED
  <2> HIDE DEF IdleIsSafe, SleepIsSafe, Control
  <2> QED BY StepCases, <1>1, <1>2, <1>3, <1>4, <1>5, <1>6, <1>7, <1>8, <1>9, <1>10, <1>11, <1>12,
             <1>13, <1>14, <1>15, <1>16, <1>17, <1>18, <1>19, <1>20, <1>21, <1>22, <1>23, <1>24,
             <1>25, <1>26, <1>27, <1>28, <1>29 DEF Steps

\* What the loop finds when it decides to leave.
LEMMA LeavingIsQuiescent ==
  ASSUME TypeOK, AllTracked, Counted, ~Referenced, ticks = <<>>, micros = <<>>, running = Nil
  PROVE  /\ cross = <<>>
         /\ \A c \in Cb : /\ task[c] \in {"none", "leaving", "over"}
                          /\ life[c] = "live" => ~work[c].refed
<1>1. cross = <<>> /\ outstanding = 0 BY DEF Referenced, TypeOK
<1>2. Unsettled = {} BY <1>1, FS_EmptySet DEF Counted
<1>3. ASSUME NEW c \in Cb PROVE task[c] \notin Active
  BY <1>2 DEF Unsettled
<1>4. ASSUME NEW c \in Cb, life[c] = "live" PROVE ~work[c].refed
  <2>1. Count(cross, c) = 0 /\ Count(ticks, c) = 0 /\ Count(micros, c) = 0 BY <1>1, CountEmpty
  <2>2. task[c] \notin {"counted", "queued", "running"} BY <1>3 DEF Active
  <2>3. running # c BY LoopAssumption
  <2>4. Holders(c) = 1 BY <1>4 DEF AllTracked, Tracked
  <2>5. Count(imms, c) \in Nat BY CountsNat
  <2>6. c \in armed \/ Count(imms, c) > 0 BY <2>1, <2>2, <2>3, <2>4, <2>5 DEF Holders, One
  <2>7. c \in armed \/ \E i \in 1..Len(imms) : imms[i] = c BY <2>6, CountPositive DEF TypeOK
  <2> QED BY <1>4, <2>7 DEF Referenced
<1> QED BY <1>1, <1>3, <1>4 DEF TypeOK, Active

\* The process stays quiescent once the loop was left.
LEMMA ExitPreserved ==
  ASSUME TypeOK, Control, AllTracked, Counted, Drained, ExitIsQuiescent, [Next]_vars
  PROVE  ExitIsQuiescent'
<1>q. (place' # "exit") => ExitIsQuiescent' BY DEF ExitIsQuiescent
<1>l. ASSUME ~Referenced, ticks = <<>>, micros = <<>>, running = Nil,
             UNCHANGED <<work, life, cross, ticks, micros, task>>
      PROVE  ExitIsQuiescent'
  BY <1>l, LeavingIsQuiescent DEF ExitIsQuiescent
<1> USE DEF At, Drains, jobVars, timerVars, immVars, taskVars, mainVars
<1>1. CASE TakeCross
  BY <1>1, <1>q DEF TakeCross
<1>2. CASE CrossEmpty
  BY <1>2, <1>q DEF CrossEmpty, DrainThen
<1>3. CASE RunTick
  BY <1>3, <1>q DEF RunTick, Start, Control
<1>4. CASE RunMicrotask
  BY <1>4, <1>q DEF RunMicrotask, Start, Control
<1>5. CASE DrainEnds
  BY <1>5, <1>q DEF DrainEnds, Control
<1>6. CASE RunTimer
  BY <1>6, <1>q DEF RunTimer, Start
<1>7. CASE TimersEnd
  BY <1>7, <1>q DEF TimersEnd, DrainThen
<1>8. CASE LateInterval
  BY <1>8, <1>q DEF LateInterval, Start
<1>9. CASE LateEnds
  BY <1>9, <1>q DEF LateEnds, DrainThen
<1>10. CASE Immediates
  BY <1>10, <1>q DEF Immediates, Go
<1>11. CASE RunImmediate
  BY <1>11, <1>q DEF RunImmediate, Start, DrainThen
<1>12. CASE ImmediatesEnd
  BY <1>12, <1>q DEF ImmediatesEnd, DrainThen
<1>13. CASE Bottom
  BY <1>13, <1>q DEF Bottom, Go
<1>14. CASE Idle
  BY <1>14, <1>q DEF Idle, Go
<1>15. CASE CallbackEnds
  BY <1>15, <1>q DEF CallbackEnds, AfterCallback, Control
<1>16. CASE ScriptEnds
  BY <1>16, <1>q DEF ScriptEnds, Go
<1>17. CASE Wake
  BY <1>17, <1>q DEF Wake, Go
<1>18. ASSUME NEW c \in Cb, NEW k \in {"tick", "micro"}, Enqueue(c, k) PROVE ExitIsQuiescent'
  BY <1>18, <1>q DEF Enqueue, Calling, Control
<1>19. ASSUME NEW c \in Cb, SetImmediate(c) PROVE ExitIsQuiescent'
  BY <1>19, <1>q DEF SetImmediate, Calling, Control
<1>20. ASSUME NEW c \in Cb, NEW k \in {"timeout", "interval"}, NEW d \in Nat, SetTimer(c, k, d)
       PROVE  ExitIsQuiescent'
  BY <1>20, <1>q DEF SetTimer, Calling, Control
<1>21. ASSUME NEW c \in Cb, ClearTimeout(c) PROVE ExitIsQuiescent'
  BY <1>21, <1>q DEF ClearTimeout, HasHandle, Calling, Control
<1>22. ASSUME NEW c \in Cb, ClearImmediate(c) PROVE ExitIsQuiescent'
  BY <1>22, <1>q DEF ClearImmediate, HasHandle, Calling, Control
<1>23. ASSUME NEW c \in Cb, NEW r \in BOOLEAN, SetRefed(c, r) PROVE ExitIsQuiescent'
  BY <1>23, <1>q DEF SetRefed, HasHandle, Calling, Control
<1>24. CASE LoopTop
  <2>1. CASE place' = "exit"
    <3>1. ~Referenced /\ ticks = <<>> /\ micros = <<>> /\ running = Nil
      BY <1>24, <2>1 DEF LoopTop, Go
    <3>2. UNCHANGED <<work, life, cross, ticks, micros, task>> BY <1>24 DEF LoopTop
    <3> QED BY <3>1, <3>2, <1>l
  <2> QED BY <2>1, <1>q
<1>25. CASE Check
  <2>1. CASE place' = "exit"
    <3>1. ~Referenced /\ running = Nil /\ place = "check" BY <1>25, <2>1 DEF Check, Go
    <3>2. UNCHANGED <<work, life, cross, ticks, micros, task>> BY <1>25 DEF Check
    <3>3. ticks = <<>> /\ micros = <<>> BY <3>1 DEF Drained
    <3> QED BY <3>1, <3>2, <3>3, <1>l
  <2> QED BY <2>1, <1>q
<1>26. ASSUME NEW a \in Cb \cup {Nil}, NEW t \in Cb, DispatchAsync(a, t) PROVE ExitIsQuiescent'
  <2>1. place' = place /\ (IF a = Nil THEN Calling ELSE task[a] = "running")
    BY <1>26 DEF DispatchAsync, MayDispatch
  <2>2. place # "exit" BY <2>1 DEF ExitIsQuiescent, Calling, Control
  <2> QED BY <2>1, <2>2, <1>q
<1>27. ASSUME NEW t \in Cb, task[t] \in Active, place' = place \/ place' = Woken
       PROVE  ExitIsQuiescent'
  BY <1>27, <1>q DEF ExitIsQuiescent, Active, Woken
<1>28. ASSUME NEW t \in Cb, NEW c \in Cb, NEW k \in {"tick", "micro", "imm", "timeout"}, NEW d \in Nat,
              Post(t, c, k, d)
       PROVE  ExitIsQuiescent'
  BY <1>27, <1>28 DEF Post, Active
<1>29. ASSUME NEW t \in Cb, DispatchEnqueue(t) \/ TaskStarts(t) \/ TaskSettles(t)
       PROVE  ExitIsQuiescent'
  BY <1>27, <1>29 DEF DispatchEnqueue, TaskStarts, TaskSettles, Active
<1>30. ASSUME NEW t \in Cb, TaskLeaves(t) PROVE ExitIsQuiescent'
  BY <1>30 DEF TaskLeaves, ExitIsQuiescent, TypeOK
<1>31. CASE Elapse \/ UNCHANGED vars
  BY <1>31 DEF Elapse, vars, ExitIsQuiescent
<1>32. ASSUME NEW t \in Cb, NEW c \in Cb, SetIntervalOffMain(t, c) PROVE ExitIsQuiescent'
  BY <1>27, <1>32 DEF SetIntervalOffMain, Active
<1> QED
  <2> HIDE DEF jobVars, timerVars, immVars, taskVars, mainVars
  <2> QED BY StepCases, <1>1, <1>2, <1>3, <1>4, <1>5, <1>6, <1>7, <1>8, <1>9, <1>10, <1>11, <1>12,
             <1>13, <1>14, <1>15, <1>16, <1>17, <1>18, <1>19, <1>20, <1>21, <1>22, <1>23, <1>24,
             <1>25, <1>26, <1>28, <1>29, <1>30, <1>31, <1>32 DEF Steps
-----------------------------------------------------------------------------
\* The timer phase.
LEMMA InFreshAppend ==
  ASSUME fresh \in Seq(Cb), NEW c \in Cb, fresh' = Append(fresh, c)
  PROVE  InFresh(c)' /\ \A x : InFresh(x) => InFresh(x)'
<1>1. /\ Len(fresh') = Len(fresh) + 1 /\ Len(fresh) \in Nat /\ fresh'[Len(fresh) + 1] = c
      /\ \A i \in 1..Len(fresh) : fresh'[i] = fresh[i]
  BY AppendProperties, LenProperties
<1>2. InFresh(c)'
  <2>1. Len(fresh) + 1 \in 1..Len(fresh') BY <1>1
  <2> QED BY <1>1, <2>1 DEF InFresh
<1>3. ASSUME NEW x, InFresh(x) PROVE InFresh(x)'
  <2>1. PICK i \in 1..Len(fresh) : fresh[i] = x BY <1>3 DEF InFresh
  <2>2. i \in 1..Len(fresh') /\ fresh'[i] = x BY <1>1, <2>1
  <2> QED BY <2>2 DEF InFresh
<1> QED BY <1>2, <1>3

\* The head of a queue occurs in it.
LEMMA HeadCounted ==
  ASSUME NEW s \in Seq(Cb), s # <<>>
  PROVE  Head(s) \in Cb /\ Count(s, Head(s)) > 0
<1>1. Tail(s) \in Seq(Cb) /\ Head(s) \in Cb BY HeadTailProperties
<1>2. Count(Tail(s), Head(s)) \in Nat BY <1>1, CountType
<1>3. Count(s, Head(s)) = Count(Tail(s), Head(s)) + 1 BY CountRest
<1> QED BY <1>1, <1>2, <1>3

\* Outside the timer phase nothing is due.
LEMMA NoPhase ==
  ASSUME Phase, place # "ready", cont # "ready" PROVE due = {}
BY DEF Phase

LEMMA PhasePreserved ==
  ASSUME TypeOK, Control, AllTracked, Phase, [Next]_vars PROVE Phase'
<1> USE DEF At, jobVars, timerVars, immVars, taskVars, mainVars
<1>d. due \subseteq Cb /\ armed \subseteq Cb /\ Nil \notin Cb BY LoopAssumption DEF TypeOK
<1>1. ASSUME due = {}, due' = due, place' # "ready", cont' # "ready" PROVE Phase'
  BY <1>1 DEF Phase
<1>2. CASE UNCHANGED <<armed, at, due, fresh, running, place, cont>>
           /\ \A c \in Cb : /\ life[c] # "free" => life'[c] # "free" /\ work'[c].kind = work[c].kind
  BY <1>2, <1>d DEF Phase, InFresh
<1>3. CASE LoopTop \/ CrossEmpty \/ LateEnds \/ Immediates \/ RunImmediate \/ ImmediatesEnd \/ Bottom
           \/ Idle \/ Wake \/ ScriptEnds \/ TakeCross \/ LateInterval
  <2>1. place \notin Drains \cup {"ready"} /\ place' # "ready" /\ cont' # "ready" /\ due' = due
    BY <1>3 DEF LoopTop, CrossEmpty, LateEnds, Immediates, RunImmediate, ImmediatesEnd, Bottom,
       Idle, Wake,
       ScriptEnds, TakeCross, LateInterval, Go, DrainThen, Start, Arm, Control, Drains
  <2>2. due = {} BY <2>1, NoPhase DEF Control
  <2> QED BY <2>1, <2>2, <1>1
<1>4. CASE RunTick \/ RunMicrotask
  <2>1. /\ running = Nil /\ place \in Drains /\ place' \in Drains
        /\ UNCHANGED <<cont, work, life, armed, at, due, fresh>>
    BY <1>4 DEF RunTick, RunMicrotask, Start, Drains
  <2>2. running' \in Cb /\ work[running'].kind \in {"tick", "micro", "task"}
    <3>1. CASE RunTick
      <4>1. running' = Head(ticks) /\ ticks # <<>> /\ ticks \in Seq(Cb)
        BY <3>1 DEF RunTick, Start, TypeOK
      <4>2. running' \in Cb /\ Count(ticks, running') > 0 BY <4>1, HeadCounted
      <4> QED BY <4>2 DEF AllTracked, Tracked
    <3>2. CASE RunMicrotask
      <4>1. running' = Head(micros) /\ micros # <<>> /\ micros \in Seq(Cb)
        BY <3>2 DEF RunMicrotask, Start, TypeOK
      <4>2. running' \in Cb /\ Count(micros, running') > 0 BY <4>1, HeadCounted
      <4> QED BY <4>2 DEF AllTracked, Tracked
    <3> QED BY <1>4, <3>1, <3>2
  <2>3. "ready" \in {place, cont} <=> "ready" \in {place', cont'} BY <2>1 DEF Drains
  <2> QED BY <2>1, <2>2, <2>3, <1>d DEF Phase, InFresh
<1>5. CASE DrainEnds
  <2>1. /\ place \in Drains /\ place' = cont /\ cont' = "none"
        /\ UNCHANGED <<work, life, armed, at, due, fresh, running>>
    BY <1>5 DEF DrainEnds
  <2>2. "ready" \in {place, cont} <=> "ready" \in {place', cont'} BY <2>1 DEF Drains
  <2> QED BY <2>1, <2>2 DEF Phase, InFresh
<1>6. CASE Check
  <2>1. running = Nil /\ place = "check" /\ cont = "none" /\ due = {}
        /\ UNCHANGED <<work, life, armed, running, cont>>
    BY <1>6, NoPhase DEF Check, Go, Control, Drains
  <2>2. CASE UNCHANGED timerVars /\ place' \in {"exit", "imms"}
    BY <2>1, <2>2, <1>1
  <2>3. CASE /\ place' = "ready" /\ at' = [c \in Cb |-> IF c \in armed THEN at[c] - lag ELSE 0]
             /\ due' = {c \in armed : at[c] <= lag}
    <3>1. \A c \in armed : at[c] \in Int /\ lag \in Int /\ at'[c] = at[c] - lag
      BY <2>3, <1>d DEF TypeOK
    <3>2. \A c \in due' : c \in armed /\ at'[c] <= 0 BY <2>3, <3>1
    <3>3. \A c \in armed : c \in due' \/ at'[c] > 0 BY <2>3, <3>1
    <3>4. \A c \in armed : life[c] = "live" /\ work[c].kind \in {"timeout", "interval"}
      BY <1>d DEF AllTracked, Tracked
    <3> QED BY <2>1, <2>3, <3>2, <3>3, <3>4, <1>d DEF Phase
  <2> QED BY <1>6, <2>2, <2>3 DEF Check, Go
<1>7. CASE RunTimer
  <2>1. PICK c \in due \cap armed : running' = c /\ due' = due \ {c}
    BY <1>7 DEF RunTimer, Start
  <2>2. /\ running = Nil /\ place = "ready"
        /\ UNCHANGED <<work, life, armed, at, fresh, place, cont>>
    BY <1>7 DEF RunTimer, Start
  <2> QED BY <2>1, <2>2, <1>d DEF Phase, InFresh
<1>8. CASE TimersEnd
  BY <1>8 DEF TimersEnd, DrainThen, Phase
<1>9. CASE CallbackEnds
  <2>1. running \in Cb /\ running' = Nil /\ running \notin due /\ work' = work /\ due' = due
    BY <1>9 DEF CallbackEnds, TypeOK, Phase, Arm
  <2>2. \A c \in Cb : c # running => life'[c] = life[c] /\ at'[c] = at[c] /\ (c \in armed' <=> c \in armed)
    BY <1>9, <2>1 DEF CallbackEnds, Arm, TypeOK
  <2>3. "ready" \in {place, cont} <=> "ready" \in {place', cont'}
    BY <1>9 DEF CallbackEnds, AfterCallback, Control, Drains
  <2>4. \A x : InFresh(x) => InFresh(x)'
    <3>1. fresh' = fresh \/ fresh' = Append(fresh, running) BY <1>9 DEF CallbackEnds, Arm
    <3>2. CASE fresh' = fresh BY <3>2 DEF InFresh
    <3>3. CASE fresh' = Append(fresh, running) BY <3>3, <2>1, InFreshAppend DEF TypeOK
    <3> QED BY <3>1, <3>2, <3>3
  <2>r. PICK r \in Cb : r = running BY <2>1
  <2>5. "ready" \in {place, cont} /\ r \in armed' => InFresh(r)'
    <3>1. CASE r \in armed' /\ "ready" \in {place, cont}
      <4>1. Arm(running, work[running].delay) /\ place \in {"ready", "late"}
        BY <1>9, <2>r, <3>1, Zenon DEF CallbackEnds
      <4>2. fresh' = Append(fresh, r) BY <4>1, <2>r DEF Arm, InPhase
      <4> QED BY <4>2, InFreshAppend DEF TypeOK
    <3> QED BY <3>1
  <2>6. (due' # {}) => "ready" \in {place', cont'} BY <2>1, <2>3 DEF Phase
  <2>7. \A c \in due' : /\ life'[c] # "free" /\ work'[c].kind \in {"timeout", "interval"}
                        /\ running' # c /\ (c \in armed' => at'[c] <= 0)
    BY <2>1, <2>2, <1>d DEF Phase
  <2>8. "ready" \in {place', cont'} => \A c \in armed' : c \in due' \/ InFresh(c)' \/ running' = c \/ at'[c] > 0
    <3> SUFFICES ASSUME "ready" \in {place, cont}, NEW c \in armed', c # running
                 PROVE  c \in due \/ InFresh(c)' \/ at'[c] > 0
      BY <2>1, <2>3, <2>5, <2>r
    <3>1. c \in Cb BY <1>9, <2>1, <1>d DEF CallbackEnds, Arm
    <3>2. c \in armed /\ at'[c] = at[c] BY <2>2, <3>1
    <3> QED BY <2>4, <3>2 DEF Phase
  <2> QED BY <2>6, <2>7, <2>8 DEF Phase
<1>10. ASSUME NEW c \in Cb, NEW k \in {"timeout", "interval"}, NEW d \in Nat, SetTimer(c, k, d)
       PROVE  Phase'
  <2>1. /\ life[c] = "free" /\ c \notin due /\ armed' = armed \cup {c}
        /\ UNCHANGED <<due, place, cont, running>>
    BY <1>10 DEF SetTimer, Arm, Phase
  <2>2. \A x \in Cb : x # c => life'[x] = life[x] /\ at'[x] = at[x] /\ work'[x] = work[x]
    BY <1>10, TimerWork DEF SetTimer, Arm, TypeOK
  <2>3. "ready" \in {place, cont} => InFresh(c)' /\ \A x : InFresh(x) => InFresh(x)'
    <3>1. CASE "ready" \in {place, cont}
      <4>1. fresh' = Append(fresh, c) BY <1>10, <3>1 DEF SetTimer, Arm, InPhase
      <4> QED BY <4>1, InFreshAppend DEF TypeOK
    <3> QED BY <3>1
  <2>4. \A x \in due : x # c /\ x \in Cb BY <2>1, <1>d
  <2>5. \A x \in due' : /\ life'[x] # "free" /\ work'[x].kind \in {"timeout", "interval"}
                        /\ running' # x /\ (x \in armed' => at'[x] <= 0)
    BY <2>1, <2>2, <2>4 DEF Phase
  <2>6. "ready" \in {place', cont'} => \A x \in armed' : x \in due' \/ InFresh(x)' \/ running' = x \/ at'[x] > 0
    BY <2>1, <2>2, <2>3, <1>d DEF Phase
  <2> QED BY <2>1, <2>5, <2>6 DEF Phase
<1>11. ASSUME NEW c \in Cb, ClearTimeout(c) PROVE Phase'
  <2>1. /\ armed' = armed \ {c} /\ at' = [at EXCEPT ![c] = 0]
        /\ UNCHANGED <<work, due, fresh, place, cont, running>>
    BY <1>11 DEF ClearTimeout
  <2>2. \A x \in Cb : life[x] # "free" => life'[x] # "free" BY <1>11 DEF ClearTimeout, TypeOK
  <2>3. \A x \in armed' : x \in armed /\ at'[x] = at[x] BY <2>1, <1>d DEF TypeOK
  <2> QED BY <2>1, <2>2, <2>3, <1>d DEF Phase, InFresh
<1>12. ASSUME NEW c \in Cb, life[c] = "free", \A x \in Cb : x # c => work'[x] = work[x] /\ life'[x] = life[x],
              UNCHANGED <<armed, at, due, fresh, running>>,
              ("ready" \in {place', cont'} <=> "ready" \in {place, cont})
       PROVE  Phase'
  <2>1. \A x \in due : x # c /\ x \in Cb BY <1>12, <1>d DEF Phase
  <2> QED BY <1>12, <2>1, <1>d DEF Phase, InFresh
<1>13. ASSUME NEW c \in Cb, NEW k \in {"tick", "micro"}, Enqueue(c, k) PROVE Phase'
  <2>1. New(c, k, Nil, 0) /\ UNCHANGED <<armed, at, due, fresh, running, place, cont>>
    BY <1>13 DEF Enqueue
  <2>2. \A x \in Cb : x # c => work'[x] = work[x]
    <3>1. k \in Kinds /\ Nil \in Cb \cup {Nil} BY DEF Kinds
    <3> QED BY <2>1, <3>1, NewWork
  <2>3. life[c] = "free" /\ \A x \in Cb : x # c => life'[x] = life[x] BY <2>1 DEF New, TypeOK
  <2> QED BY <2>1, <2>2, <2>3, <1>12
<1>14. ASSUME NEW c \in Cb, SetImmediate(c) PROVE Phase'
  <2>1. UNCHANGED <<armed, at, due, fresh, running, place, cont>> BY <1>14 DEF SetImmediate
  <2>2. life[c] = "free" /\ \A x \in Cb : x # c => work'[x] = work[x] /\ life'[x] = life[x]
    BY <1>14 DEF SetImmediate, TypeOK
  <2> QED BY <2>1, <2>2, <1>12
<1>15. ASSUME NEW a \in Cb \cup {Nil}, NEW t \in Cb, DispatchAsync(a, t) PROVE Phase'
  <2>1. New(t, "task", a, 0) /\ UNCHANGED <<armed, at, due, fresh, running, place, cont>>
    BY <1>15 DEF DispatchAsync
  <2>2. \A x \in Cb : x # t => work'[x] = work[x] BY <2>1, NewWork DEF Kinds
  <2>3. life[t] = "free" /\ \A x \in Cb : x # t => life'[x] = life[x] BY <2>1 DEF New, TypeOK
  <2> QED BY <2>1, <2>2, <2>3, <1>12
<1>16. ASSUME NEW t \in Cb, NEW c \in Cb, NEW k \in {"tick", "micro", "imm", "timeout"},
              NEW d \in Nat, Post(t, c, k, d)
       PROVE  Phase'
  <2>1. New(c, k, t, d) /\ UNCHANGED <<armed, at, due, fresh, running, cont>> /\ place' = Woken
    BY <1>16 DEF Post
  <2>2. k \in Kinds /\ t \in Cb \cup {Nil} BY DEF Kinds
  <2>3. \A x \in Cb : x # c => work'[x] = work[x] BY <2>1, <2>2, NewWork
  <2>4. life[c] = "free" /\ \A x \in Cb : x # c => life'[x] = life[x] BY <2>1 DEF New, TypeOK
  <2>5. "ready" \in {place', cont'} <=> "ready" \in {place, cont} BY <2>1 DEF Woken
  <2> QED BY <2>1, <2>3, <2>4, <2>5, <1>12
<1>17. ASSUME NEW t \in Cb, NEW c \in Cb, SetIntervalOffMain(t, c) PROVE Phase'
  <2>1. UNCHANGED <<work, armed, at, due, fresh, running, place, cont>>
    BY <1>17 DEF SetIntervalOffMain
  <2>2. life[c] = "free" /\ \A x \in Cb : x # c => life'[x] = life[x]
    BY <1>17 DEF SetIntervalOffMain, TypeOK
  <2> QED BY <2>1, <2>2, <1>12
<1>18. ASSUME NEW t \in Cb, TaskSettles(t) PROVE Phase'
  <2>1. UNCHANGED <<work, life, armed, at, due, fresh, running, cont>> /\ place' = Woken
    BY <1>18 DEF TaskSettles
  <2>2. "ready" \in {place', cont'} <=> "ready" \in {place, cont} BY <2>1 DEF Woken
  <2> QED BY <2>1, <2>2 DEF Phase, InFresh
<1>19. ASSUME NEW t \in Cb, DispatchEnqueue(t) \/ TaskStarts(t) \/ TaskLeaves(t) PROVE Phase'
  BY <1>2, <1>19 DEF DispatchEnqueue, TaskStarts, TaskLeaves
<1>20. CASE Elapse \/ UNCHANGED vars BY <1>2, <1>20 DEF Elapse, vars
<1>21. ASSUME NEW c \in Cb, ClearImmediate(c) PROVE Phase'
  <2>1. \A x \in Cb : life[x] # "free" => life'[x] # "free" BY <1>21 DEF ClearImmediate, TypeOK
  <2> QED BY <2>1, <1>21, <1>2 DEF ClearImmediate
<1>22. ASSUME NEW c \in Cb, NEW r \in BOOLEAN, SetRefed(c, r) PROVE Phase'
  <2>1. \A x \in Cb : work'[x].kind = work[x].kind BY <1>22, RefedRecord DEF SetRefed, TypeOK
  <2> QED BY <2>1, <1>22, <1>2 DEF SetRefed
<1> QED
  <2> HIDE DEF jobVars, timerVars, immVars, taskVars, mainVars
  <2> QED BY StepCases, <1>3, <1>4, <1>5, <1>6, <1>7, <1>8, <1>9, <1>10, <1>11, <1>13, <1>14, <1>15,
             <1>16, <1>17, <1>18, <1>19, <1>20, <1>21, <1>22 DEF Steps
-----------------------------------------------------------------------------
LEMMA InitIInv ==
  ASSUME Init PROVE IInv
<1>1. TypeOK
  <2>1. Unused \in Record BY DEF Unused, Record
  <2>2. <<>> \in Seq(Cb) /\ Len(<<>>) = 0 BY EmptySeq
  <2>3. work \in [Cb -> Record] BY <2>1 DEF Init
  <2>4. lag \in 0..MaxLag /\ batch \in 0..Len(imms) BY <2>2, LoopAssumption DEF Init
  <2>5. /\ life \in [Cb -> {"free", "live", "done", "cancelled", "stranded"}] /\ at \in [Cb -> Int]
        /\ task \in [Cb -> {"none", "counted", "queued", "running", "leaving", "over"}]
    BY DEF Init
  <2>6. /\ ticks \in Seq(Cb) /\ micros \in Seq(Cb) /\ imms \in Seq(Cb) /\ cross \in Seq(Cb)
        /\ fresh \in Seq(Cb)
    BY <2>2 DEF Init
  <2>7. /\ armed \subseteq Cb /\ due \subseteq Cb /\ clocked \in BOOLEAN /\ ids \in Nat /\ outstanding \in Nat
        /\ inflight \subseteq Cb /\ place \in Places /\ cont \in Places \cup {"none"}
        /\ running \in Cb \cup {Nil} /\ untimed \in BOOLEAN
    BY DEF Init, Places
  <2> QED BY <2>3, <2>4, <2>5, <2>6, <2>7 DEF TypeOK
<1>2. \A c : Count(<<>>, c) = 0 BY CountEmpty
<1>3. AllTracked
  <2> SUFFICES ASSUME NEW c \in Cb PROVE Tracked(c) BY DEF AllTracked
  <2>1. /\ Count(cross, c) = 0 /\ Count(ticks, c) = 0 /\ Count(micros, c) = 0 /\ Count(imms, c) = 0
        /\ c \notin armed /\ running # c /\ task[c] = "none" /\ life[c] = "free"
    BY <1>2, LoopAssumption DEF Init
  <2>2. Holders(c) = 0 BY <2>1 DEF Holders, One
  <2> QED BY <2>1, <2>2 DEF Tracked, Active
<1>4. Counted
  <2>1. Unsettled = {} BY <1>2 DEF Init, Unsettled, Active
  <2> QED BY <2>1, FS_EmptySet DEF Counted, Init
<1> QED BY <1>1, <1>3, <1>4 DEF Init, IInv, Control, Drains, Drained, IdleIsSafe, Phase,
           SleepIsSafe,
                                ExitIsQuiescent

LEMMA NextIInv ==
  ASSUME IInv, [Next]_vars PROVE IInv'
<1> USE DEF IInv
<1>1. TypeOK' /\ Control' BY TypePreserved
<1>2. AllTracked' BY TrackedPreserved
<1>3. Counted' BY CountedPreserved
<1>4. Drained' BY DrainedPreserved
<1>5. IdleIsSafe' /\ SleepIsSafe' BY IdlePreserved
<1>6. Phase' BY PhasePreserved
<1>7. ExitIsQuiescent' BY ExitPreserved
<1> QED BY <1>1, <1>2, <1>3, <1>4, <1>5, <1>6, <1>7

\* The inductive invariant of the event loop: every action of the loop, the
\* program and the workers keeps it.
THEOREM LoopInvariant == Spec => []IInv
<1>1. Init => IInv BY InitIInv
<1>2. IInv /\ [Next]_vars => IInv' BY NextIInv
<1> QED BY <1>1, <1>2, PTL DEF Spec

\* Every variable keeps its type: no queue ever holds anything but callbacks,
\* the snapshot of tsc_drain_immediates is never longer than the queue, and
\* the clock is never further ahead than the bound.
THEOREM LoopTypeCorrect == Spec => []TypeOK
<1>1. IInv => TypeOK BY DEF IInv
<1> QED BY <1>1, LoopInvariant, PTL

\* No callback is lost, doubled or in two queues on its way from the call
\* that schedules it (enqueue, tsc_cross_post, dispatch.async) to its one run.
THEOREM CallbacksConserved == Spec => []WorkConserved
<1>1. IInv => WorkConserved BY DEF IInv, AllTracked, Tracked, WorkConserved
<1> QED BY <1>1, LoopInvariant, PTL

\* g_dispatch_outstanding is exactly the number of tasks whose promise is
\* still to be settled, so that the decrement in tsc_drain_cross_queue never
\* meets zero and the loop neither leaves early nor waits for nothing.
THEOREM OutstandingIsExact == Spec => []OutstandingExact
<1>1. IInv => OutstandingExact
  BY DEF IInv, Counted, Unsettled, OutstandingExact, Active
<1> QED BY <1>1, LoopInvariant, PTL

\* The collector reaches a dispatched task from the registry of envelopes,
\* the cross-thread queue or the job queue until its reaction has run.
THEOREM TasksStayRooted == Spec => []TaskRooted
<1>1. IInv => TaskRooted
  <2> SUFFICES ASSUME IInv, NEW t \in Cb, work[t].kind = "task", life[t] = "live"
               PROVE  t \in inflight \/ Count(cross, t) + Count(micros, t) > 0 \/ running = t
    BY DEF TaskRooted
  <2>1. TypeOK /\ Tracked(t) BY DEF IInv, AllTracked
  <2>2. /\ Count(cross, t) \in Nat /\ Count(ticks, t) \in Nat
        /\ Count(micros, t) \in Nat /\ Count(imms, t) \in Nat
    BY <2>1, CountsNat
  <2>3. Count(ticks, t) = 0 /\ Count(imms, t) = 0 /\ t \notin armed BY <2>1, <2>2 DEF Tracked
  <2>4. Holders(t) = 1 /\ (task[t] \in {"counted", "queued", "running"} => t \in inflight)
    BY <2>1 DEF Tracked, Active
  <2> QED BY <2>2, <2>3, <2>4 DEF Holders, One
<1> QED BY <1>1, LoopInvariant, PTL

\* tsc_run_event_loop returns only when no task, post, job, referenced timer
\* or referenced immediate is left, and nothing can appear afterwards.
THEOREM ExitIsClean == Spec => []ExitIsQuiescent
<1>1. IInv => ExitIsQuiescent BY DEF IInv
<1> QED BY <1>1, LoopInvariant, PTL

\* tsc_loop_idle_wait never sleeps on a post it has not seen, and without a
\* deadline only while a task will still post.
THEOREM SleepNeverMissesWork == Spec => []SleepIsSafe
<1>1. IInv => SleepIsSafe BY DEF IInv
<1> QED BY <1>1, LoopInvariant, PTL
-----------------------------------------------------------------------------
\* The steps that start a callback on the main thread, and what they start.
LEMMA StartingSteps ==
  ASSUME IInv, Next, NEW c \in Cb, Starts(c)
  PROVE  /\ life[c] = "live"
         /\ \/ c \notin armed /\ work[c].kind \in {"tick", "micro", "task"}
            \/ c \notin armed /\ ticks = <<>> /\ micros = <<>> /\ place = "imm"
            \/ c \in armed /\ ticks = <<>> /\ micros = <<>> /\ at[c] <= 0 /\ place = "late"
            \/ /\ c \in armed /\ ticks = <<>> /\ micros = <<>> /\ at[c] <= 0 /\ place = "ready"
               /\ running = Nil /\ \A x \in due \cap armed : Sooner(c, x)
<1> USE DEF At, Starts, jobVars, timerVars, immVars, taskVars, mainVars
<1>t. TypeOK /\ Tracked(c) BY DEF IInv, AllTracked
<1>o. Count(ticks, c) > 0 \/ Count(micros, c) > 0 \/ Count(imms, c) > 0 => c \notin armed
  <2>1. c \in armed => Count(ticks, c) = 0 /\ Count(micros, c) = 0 /\ Count(imms, c) = 0
    BY <1>t, OnePlace
  <2>2. Count(ticks, c) \in Nat /\ Count(micros, c) \in Nat /\ Count(imms, c) \in Nat
    BY <1>t, CountsNat
  <2> QED BY <2>1, <2>2
<1>d. running = Nil /\ place \in {"imm", "late", "ready"} => ticks = <<>> /\ micros = <<>>
  BY DEF IInv, Drained
<1>1. CASE RunTick
  <2>1. c = Head(ticks) /\ ticks # <<>> BY <1>1 DEF RunTick, Start
  <2>2. Count(ticks, c) > 0 BY <2>1, <1>t, HeadCounted DEF TypeOK
  <2> QED BY <2>2, <1>t, <1>o DEF Tracked
<1>2. CASE RunMicrotask
  <2>1. c = Head(micros) /\ micros # <<>> BY <1>2 DEF RunMicrotask, Start
  <2>2. Count(micros, c) > 0 BY <2>1, <1>t, HeadCounted DEF TypeOK
  <2> QED BY <2>2, <1>t, <1>o DEF Tracked
<1>3. CASE RunTimer
  <2>1. c \in due \cap armed /\ running = Nil /\ place = "ready" /\ \A x \in due \cap armed : Sooner(c, x)
    BY <1>3 DEF RunTimer, Start
  <2>2. at[c] <= 0 BY <2>1 DEF IInv, Phase
  <2> QED BY <2>1, <2>2, <1>d, <1>t DEF Tracked
<1>4. CASE LateInterval
  <2>1. c \in armed /\ at[c] <= 0 /\ running = Nil /\ place = "late" BY <1>4 DEF LateInterval, Start
  <2> QED BY <2>1, <1>d, <1>t DEF Tracked
<1>5. CASE RunImmediate
  <2>1. c = Head(imms) /\ imms # <<>> /\ life[c] = "live" /\ running = Nil /\ place = "imm"
    BY <1>5, <1>t DEF RunImmediate, Start, DrainThen, TypeOK
  <2>2. Count(imms, c) > 0 BY <2>1, <1>t, HeadCounted DEF TypeOK
  <2> QED BY <2>1, <2>2, <1>o, <1>d
<1>6. CASE CallbackEnds BY <1>6, LoopAssumption DEF CallbackEnds
<1>7. CASE \/ LoopTop \/ TakeCross \/ CrossEmpty \/ DrainEnds \/ Check \/ TimersEnd \/ LateEnds
           \/ Immediates \/ ImmediatesEnd \/ Bottom \/ Idle \/ ScriptEnds \/ Wake \/ Elapse
  BY <1>7 DEF LoopTop, TakeCross, CrossEmpty, DrainEnds, Check, TimersEnd, LateEnds, Immediates,
              ImmediatesEnd, Bottom, Idle, ScriptEnds, Wake, Elapse, Go, DrainThen
<1>8. CASE \/ \E x \in Cb, k \in {"tick", "micro"} : Enqueue(x, k)
           \/ \E x \in Cb : SetImmediate(x) \/ ClearTimeout(x) \/ ClearImmediate(x)
           \/ \E x \in Cb, k \in {"timeout", "interval"}, d \in Nat : SetTimer(x, k, d)
           \/ \E x \in Cb, r \in BOOLEAN : SetRefed(x, r)
           \/ \E a \in Cb \cup {Nil}, t \in Cb : DispatchAsync(a, t)
  BY <1>8 DEF Enqueue, SetImmediate, ClearTimeout, ClearImmediate, SetTimer, SetRefed, DispatchAsync
<1>9. CASE \/ \E t, x \in Cb, k \in {"tick", "micro", "imm", "timeout"}, d \in Nat : Post(t, x, k, d)
           \/ \E t, x \in Cb : SetIntervalOffMain(t, x)
           \/ \E t \in Cb : DispatchEnqueue(t) \/ TaskStarts(t) \/ TaskSettles(t) \/ TaskLeaves(t)
  BY <1>9 DEF Post, SetIntervalOffMain, DispatchEnqueue, TaskStarts, TaskSettles, TaskLeaves
<1> QED
  <2> HIDE DEF Starts, jobVars, timerVars, immVars, taskVars, mainVars
  <2> QED BY StepCases, <1>1, <1>2, <1>3, <1>4, <1>5, <1>6, <1>7, <1>8, <1>9 DEF Steps

\* A cleared timer, interval or immediate never starts again, even when it is
\* cleared in the phase that already selected it.
THEOREM ClearedStaysSilent == Spec => CancelledStaysSilent
<1>1. ASSUME IInv, [Next]_vars PROVE [\A c \in Cb : Starts(c) => life[c] = "live"]_vars
  BY <1>1, StartingSteps
<1> QED BY <1>1, LoopInvariant, PTL DEF Spec, CancelledStaysSilent

\* A timer or immediate starts only after tsc_drain_microtasks_and_next_ticks
\* has emptied both job queues.
THEOREM JobsRunFirst == Spec => JobsFirst
<1>1. ASSUME IInv, [Next]_vars
      PROVE  [\A c \in Cb : Starts(c) /\ work[c].kind \in {"imm", "timeout", "interval"}
                => ticks = <<>> /\ micros = <<>>]_vars
  BY <1>1, StartingSteps
<1> QED BY <1>1, LoopInvariant, PTL DEF Spec, JobsFirst

\* tsc_drain_timeouts starts no timer before its deadline, and the timers set
\* before the phase in the order of deadline, then creation.
THEOREM TimersRunInOrder == Spec => TimersInOrder
<1>1. ASSUME IInv, [Next]_vars
      PROVE  [\A c \in Cb : Starts(c) /\ c \in armed =>
                /\ at[c] <= 0
                /\ place = "ready" => \A x \in armed : ~(\E i \in 1..Len(fresh) : fresh[i] = x) =>
                     at[c] < at[x] \/ (at[c] = at[x] /\ work[c].id <= work[x].id)]_vars
  <2>1. SUFFICES ASSUME Next, NEW c \in Cb, Starts(c), c \in armed
                 PROVE  /\ at[c] <= 0
                        /\ place = "ready" => \A x \in armed : ~(\E i \in 1..Len(fresh) : fresh[i] = x) =>
                             at[c] < at[x] \/ (at[c] = at[x] /\ work[c].id <= work[x].id)
    BY <1>1
  <2>2. at[c] <= 0 BY <1>1, <2>1, StartingSteps
  <2>3. ASSUME place = "ready", NEW x \in armed, ~(\E i \in 1..Len(fresh) : fresh[i] = x)
        PROVE  at[c] < at[x] \/ (at[c] = at[x] /\ work[c].id <= work[x].id)
    <3>1. running = Nil /\ \A y \in due \cap armed : Sooner(c, y) BY <1>1, <2>1, <2>3, StartingSteps
    <3>2. x \in Cb /\ at[x] \in Int /\ at[c] \in Int BY <1>1 DEF IInv, TypeOK
    <3>3. x \in due \/ at[x] > 0 BY <1>1, <2>3, <3>1, <3>2, LoopAssumption DEF IInv, Phase, InFresh
    <3>4. CASE x \in due BY <3>1, <3>4 DEF Sooner
    <3>5. CASE at[x] > 0 BY <2>2, <3>2, <3>5
    <3> QED BY <3>3, <3>4, <3>5
  <2> QED BY <2>2, <2>3
<1> QED BY <1>1, LoopInvariant, PTL DEF Spec, TimersInOrder
=============================================================================
