----------------------------- MODULE WaiterList -----------------------------
(***************************************************************************)
(* What Atomics.wait, waitAsync and notify promise a program, with no      *)
(* threads, mutexes, event loops or shared list in sight: every location   *)
(* has a queue of its own, a notification takes its oldest record, a       *)
(* timeout takes any record, and the program is told how its wait ended    *)
(* exactly once.                                                           *)
(***************************************************************************)
EXTENDS Sequences, Naturals

CONSTANTS Waiter, Loc

VARIABLES
  queue,  \* queue[l]: the records waiting at l, oldest first
  state,  \* state[w]: "free", "pending" or how the wait ended
  told    \* told[w]: how the program was told the wait ended

vars == <<queue, state, told>>

Init == /\ queue = [l \in Loc |-> <<>>]
        /\ state = [w \in Waiter |-> "free"]
        /\ told  = [w \in Waiter |-> "no"]

\* The value differs, or an asynchronous wait has a zero timeout.
Refuse(w) == /\ state[w] = "free"
             /\ \E st \in {"not-equal", "timed-out"} :
                  state' = [state EXCEPT ![w] = st] /\ told' = [told EXCEPT ![w] = st]
             /\ UNCHANGED queue

Enqueue(w, l) == /\ state[w] = "free"
                 /\ state' = [state EXCEPT ![w] = "pending"]
                 /\ queue' = [queue EXCEPT ![l] = Append(@, w)]
                 /\ UNCHANGED told

\* The oldest record of a location is woken.
Notify(w, l) == /\ state[w] = "pending"
                /\ state' = [state EXCEPT ![w] = "ok"]
                /\ queue[l] # <<>> /\ Head(queue[l]) = w
                /\ queue' = [queue EXCEPT ![l] = Tail(@)]
                /\ UNCHANGED told

\* s without its i-th record.
Without(s, i) == [j \in 1..(Len(s) - 1) |-> IF j < i THEN s[j] ELSE s[j + 1]]

\* A deadline passed, or the agent is being torn down: a record leaves its place.
Expire(w, l) == /\ state[w] = "pending"
                /\ state' = [state EXCEPT ![w] = "timed-out"]
                /\ \E i \in 1..Len(queue[l]) :
                     queue[l][i] = w /\ queue' = [queue EXCEPT ![l] = Without(@, i)]
                /\ UNCHANGED told

Tell(w) == /\ state[w] \in {"ok", "timed-out"} /\ told[w] = "no"
           /\ told' = [told EXCEPT ![w] = state[w]]
           /\ UNCHANGED <<queue, state>>

Next == \E w \in Waiter : \/ Refuse(w) \/ Tell(w)
                          \/ \E l \in Loc : Enqueue(w, l) \/ Notify(w, l) \/ Expire(w, l)

Spec == Init /\ [][Next]_vars
=============================================================================
