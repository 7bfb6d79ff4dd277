---------------------------- MODULE ResumeDispatch ----------------------------
(***************************************************************************)
(* The resume function the emitter writes for a planned body: one switch   *)
(* over state->pc in a loop, that runs until it suspends or settles the    *)
(* result (emitAsyncControlFlowGraphContinuation of emit/index.ts).  The   *)
(* activation frame is the state; each kind of graph state is an action.   *)
(*                                                                         *)
(* ref and last belong to StructuredControl: every observable step of the  *)
(* machine is matched with the step the source prescribes, and a step that *)
(* does not match leaves ref where the specification cannot follow.        *)
(***************************************************************************)
EXTENDS AsyncCfg

CONSTANTS
  Lowered(_),         \* the planner the emitter calls: Plan of AsyncCfg
  Following(_, _, _)  \* what the source does after a step: After of StructuredControl

VARIABLES
  graph,         \* the emitted cases: the graph planned for the body
  pc,            \* state->pc
  awaiting,      \* state->awaiting
  exception,     \* state->exception_value
  pending,       \* state->pending_return
  finalizations, \* completion record of each finalization region
  done,          \* the done flag of each iterator record
  env,           \* the current environment: the scopes entered, outermost first
  lexical,       \* state->lexical_environment, installed when the body resumes
  saved,         \* environment_scope_<slot>.previous
  slots,         \* the live expression results, staged and binding values
  resources,     \* resource_scope_<slot>: resources to dispose, oldest first
  outcome,       \* what the body has come to, about to be settled
  quiet          \* the states passed since the last observable step

frame == <<pending, finalizations, done, env, lexical, saved, slots, resources>>
vars == <<prog, graph, ref, last, pc, awaiting, exception, outcome, quiet, frame>>

Finishing == <<"finish">>
Finished == <<"finished">>
Caller == <<"caller">>         \* the environment of whoever resumed the body

here == graph[pc]
At(kinds) == pc \notin {Finishing, Finished} /\ here.kind \in kinds
Parent(p) == SubSeq(p, 1, Len(p) - 1)

Set(f, x, v) == (x :> v) @@ f
Drop(f, S) == [x \in DOMAIN f \ S |-> f[x]]

Start_ ==
  /\ prog \in DOMAIN Bodies
  /\ LET plan == Lowered(Bodies[prog]) IN plan.e # None /\ pc = plan.e /\ graph = plan.g
  /\ ref = Begin(Bodies[prog])
  /\ last = NoStep
  /\ awaiting = FALSE
  /\ exception = None /\ pending = None /\ outcome = Normal
  /\ finalizations = <<>> /\ done = <<>> /\ saved = <<>> /\ slots = <<>> /\ resources = <<>>
  /\ env = <<>> /\ lexical = <<>>
  /\ quiet = {}

(* ------------------------------ steps ---------------------------------- *)

Silent == UNCHANGED <<prog, graph, ref, last>> /\ quiet' = quiet \cup {pc}

Lost == [ref EXCEPT !.a = "lost"]

Emit(a, p, o) ==
  /\ last' = [a |-> a, p |-> p, o |-> o]
  /\ ref' = IF ref.a = a /\ ref.p = p /\ o \in Choices(ref) THEN Following(Bodies[prog], ref, o) ELSE Lost
  /\ quiet' = {}
  /\ UNCHANGED <<prog, graph>>

Goto(t) == pc' = t /\ UNCHANGED <<exception, outcome>>

Finish_(c) == pc' = Finishing /\ outcome' = c /\ UNCHANGED exception

(* emitExceptionTransition, and the landing of a C-level throw.            *)
Raise(v) ==
  IF here.exc = None THEN Finish_(Thr(v))
  ELSE pc' = here.exc /\ exception' = v /\ UNCHANGED outcome

(* A return completion: to the enclosing region, or settled.               *)
ReturnTo(t, v) ==
  IF t = None THEN Finish_(Ret(v)) /\ pending' = None
  ELSE Goto(t) /\ pending' = v

(* An operation that evaluates or calls something: it may throw.           *)
Attempt(a, p) ==
  \E o \in Outcomes(a) :
    /\ Emit(a, p, o)
    /\ IF o = "throw" THEN Raise(<<a>> \o p) ELSE Goto(here.next)

Evaluate ==
  /\ \/ At({"operate", "expression-sync", "binding-init"})
     \/ At({"sync"})
     \/ At({"expression-complete"}) /\ here.x = "evaluate"
  /\ Attempt("eval", here.p)
  /\ slots' = IF last'.o = "throw" THEN slots
              ELSE CASE here.kind \in {"expression-sync", "expression-complete"} -> Set(slots, here.p, "item")
                     [] here.kind = "binding-init" -> Drop(slots, {Parent(here.p)})
                     [] OTHER -> slots
  /\ resources' = IF here.kind = "sync" /\ here.x # None /\ last'.o = "ok"
                  THEN [resources EXCEPT ![here.x] = Append(@, here.p)] ELSE resources
  /\ UNCHANGED <<awaiting, pending, finalizations, done, env, lexical, saved>>

Complete ==
  /\ At({"expression-complete"})
  /\ \/ /\ here.x \in {"result", "assign", "discard"}
        /\ Silent /\ Goto(here.next)
        /\ slots' = IF here.x = "result" THEN Set(slots, here.p, "item") ELSE slots
        /\ UNCHANGED pending
     \/ /\ here.x = "branch"
        /\ \E o \in Outcomes("test") :
             Emit("test", here.p, o) /\ Goto(IF o = "true" THEN here.next ELSE here.alt)
        /\ UNCHANGED <<pending, slots>>
     \/ here.x = "return" /\ Silent /\ ReturnTo(here.alt, <<"return">> \o here.p) /\ UNCHANGED slots
     \/ here.x = "throw" /\ Silent /\ Raise(<<"throw">> \o here.p) /\ UNCHANGED <<pending, slots>>
  /\ UNCHANGED <<awaiting, finalizations, done, env, lexical, saved, resources>>

Empty ==
  /\ At({"empty", "scope-clone"})
  /\ Silent /\ Goto(here.next)
  /\ UNCHANGED <<awaiting, frame>>

(* ---------------------------- suspensions ------------------------------ *)

Waits == \/ At({"suspend", "async-iterator-next"})
         \/ At({"async-iterator-close"}) /\ ~done[here.p]
         \/ At({"resource-dispose"}) /\ here.x = TRUE /\ resources[here.p] # <<>>

(* The resume function returns to its caller; the next call of it installs *)
(* the lexical environment of the body.                                    *)
Suspend ==
  /\ Waits /\ ~awaiting
  /\ awaiting' = TRUE /\ env' = Caller
  /\ UNCHANGED <<prog, graph, ref, last, quiet, pc, exception, outcome,
                 pending, finalizations, done, lexical, saved, slots, resources>>

Ready == (awaiting \/ ~Waits)
Running == env' = (IF awaiting THEN lexical ELSE env) /\ UNCHANGED lexical

Resume_ ==
  /\ At({"suspend"}) /\ awaiting
  /\ \E o \in Outcomes(here.x) :
       /\ Emit(here.x, here.p, o)
       /\ awaiting' = (o = "more")
       /\ env' = IF o = "more" THEN env ELSE lexical
       /\ CASE o = "throw"  -> Raise(<<here.x>> \o here.p) /\ UNCHANGED pending
            [] o = "return" -> ReturnTo(here.alt, <<"resume">> \o here.p)
            [] o = "more"   -> UNCHANGED <<pc, exception, outcome, pending>>
            [] OTHER        -> Goto(here.next) /\ UNCHANGED pending
  /\ UNCHANGED <<finalizations, done, lexical, saved, slots, resources>>

(* ---------------------------- environments ----------------------------- *)

ScopeEnter ==
  /\ At({"scope-enter"})
  /\ Silent /\ Goto(here.next)
  /\ IF here.x THEN /\ saved' = Set(saved, here.p, env)
                    /\ env' = Append(env, here.p) /\ lexical' = env'
     ELSE UNCHANGED <<saved, env, lexical>>
  /\ UNCHANGED <<awaiting, pending, finalizations, done, slots, resources>>

ObjectScopeEnter ==
  /\ At({"object-scope-enter"})
  /\ Attempt("with", here.p)
  /\ IF last'.o = "throw" THEN UNCHANGED <<saved, env, lexical, slots>>
     ELSE /\ saved' = Set(saved, here.p, env)
          /\ env' = Append(env, here.p) /\ lexical' = env'
          /\ slots' = Drop(slots, {here.p})
  /\ UNCHANGED <<awaiting, pending, finalizations, done, resources>>

EnvironmentExit ==
  /\ At({"environment-exit"})
  /\ Silent /\ Goto(here.next)
  /\ env' = saved[here.p] /\ lexical' = env'
  /\ UNCHANGED <<awaiting, pending, finalizations, done, saved, slots, resources>>

(* ------------------------------ iterators ------------------------------ *)

IteratorInit ==
  /\ At({"iterator-init", "async-iterator-init", "iterator-open"})
  /\ Attempt("open", here.p)
  /\ done' = IF last'.o = "ok" THEN Set(done, here.p, FALSE) ELSE done
  /\ slots' = IF last'.o = "ok" /\ here.kind # "iterator-open" THEN Drop(slots, {here.p}) ELSE slots
  /\ UNCHANGED <<awaiting, pending, finalizations, env, lexical, saved, resources>>

IteratorNext ==
  /\ At({"iterator-next", "async-iterator-next"}) /\ Ready
  /\ \E o \in Outcomes("next") :
       /\ Emit("next", here.p, o)
       /\ CASE o = "item" -> Goto(here.next)
            [] o = "done" -> Goto(here.alt)
            [] OTHER      -> Raise(<<"next">> \o here.p)
       /\ done' = IF o = "done" \/ (o = "throw" /\ here.kind = "iterator-next") THEN [done EXCEPT ![here.p] = TRUE] ELSE done
       /\ slots' = IF o = "item" THEN Set(slots, Sub(here.p, "bind"), "item") ELSE slots
  /\ awaiting' = FALSE /\ Running
  /\ UNCHANGED <<pending, finalizations, saved, resources>>

(* Closing keeps a pending exception: what the close itself throws is lost *)
(* then, and wins otherwise.                                               *)
Closed_ == /\ CASE here.next # None   -> Goto(here.next) /\ UNCHANGED pending
                [] here.x = "return"  -> ReturnTo(None, pending)
                [] OTHER              -> Finish_(Thr(exception)) /\ UNCHANGED pending

IteratorClose ==
  /\ At({"iterator-close", "async-iterator-close"}) /\ Ready
  /\ \/ done[here.p] /\ Silent /\ Closed_
     \/ /\ ~done[here.p]
        /\ \E o \in Outcomes("close") :
             /\ Emit("close", here.p, o)
             /\ IF o = "throw" /\ here.x # "throw" THEN Raise(<<"close">> \o here.p) /\ UNCHANGED pending ELSE Closed_
  /\ done' = [done EXCEPT ![here.p] = TRUE]
  /\ awaiting' = FALSE /\ Running
  /\ UNCHANGED <<finalizations, saved, slots, resources>>

(* --------------------------- binding operations ------------------------ *)

BindingSource ==
  /\ At({"source"})
  /\ Silent
  /\ pc' = here.next /\ UNCHANGED outcome
  /\ IF here.x = "exception"
     THEN exception' = None /\ slots' = Set(slots, here.p, "item")
     ELSE UNCHANGED exception /\ slots' = Set(Drop(slots, {Parent(here.p)}), here.p, "item")
  /\ UNCHANGED <<awaiting, pending, finalizations, done, env, lexical, saved, resources>>

Check ==
  /\ At({"check"})
  /\ Attempt("check", here.p)
  /\ UNCHANGED <<awaiting, frame>>

PropertyKey ==
  /\ At({"property-key"})
  /\ Attempt("key", here.p)
  /\ slots' = IF last'.o = "throw" THEN slots
              ELSE Set(Drop(slots, {Sub(here.p, "key")}), Sub(here.p, "name"), "item")
  /\ UNCHANGED <<awaiting, pending, finalizations, done, env, lexical, saved, resources>>

Property ==
  /\ At({"property"})
  /\ \E o \in Outcomes("get") :
       /\ Emit("get", here.p, o)
       /\ IF o = "throw" THEN Raise(<<"get">> \o here.p) /\ UNCHANGED slots
          ELSE Goto(here.next) /\ slots' = Set(IF here.x.keep THEN slots ELSE Drop(slots, here.x.keys), here.p, o)
  /\ UNCHANGED <<awaiting, pending, finalizations, done, env, lexical, saved, resources>>

ObjectRest ==
  /\ At({"object-rest"})
  /\ Attempt("rest", here.p)
  /\ slots' = IF last'.o = "throw" THEN slots ELSE Set(Drop(slots, here.x.keys), here.p, "item")
  /\ UNCHANGED <<awaiting, pending, finalizations, done, env, lexical, saved, resources>>

(* A step of an exhausted iterator calls nothing and yields undefined.     *)
IteratorStep ==
  /\ At({"iterator-step"})
  /\ \/ /\ done[here.x.from]
        /\ Silent /\ Goto(here.next)
        /\ slots' = Set(slots, here.p, "undefined") /\ UNCHANGED done
     \/ /\ ~done[here.x.from]
        /\ \E o \in Outcomes("step") :
             /\ Emit("step", here.p, o)
             /\ IF o = "throw" THEN Raise(<<"step">> \o here.p) /\ UNCHANGED slots
                ELSE Goto(here.next) /\ slots' = Set(slots, here.p, IF o = "item" THEN "item" ELSE "undefined")
             /\ done' = IF o \in {"done", "throw"} THEN [done EXCEPT ![here.x.from] = TRUE] ELSE done
  /\ UNCHANGED <<awaiting, pending, finalizations, env, lexical, saved, resources>>

IteratorRest ==
  /\ At({"iterator-rest"})
  /\ IF done[here.x.from] THEN Silent /\ Goto(here.next) ELSE Attempt("rest", here.p)
  /\ slots' = IF ~done[here.x.from] /\ last'.o = "throw" THEN slots ELSE Set(slots, here.p, "item")
  /\ done' = [done EXCEPT ![here.x.from] = TRUE]
  /\ UNCHANGED <<awaiting, pending, finalizations, env, lexical, saved, resources>>

DefaultTest ==
  /\ At({"default-test"})
  /\ Silent /\ Goto(IF slots[here.p] = "undefined" THEN here.alt ELSE here.next)
  /\ UNCHANGED <<awaiting, frame>>

DefaultApply ==
  /\ At({"default-apply"})
  /\ Silent /\ Goto(here.next)
  /\ slots' = Set(Drop(slots, {Sub(here.p, "default")}), here.p, "item")
  /\ UNCHANGED <<awaiting, pending, finalizations, done, env, lexical, saved, resources>>

Assign ==
  /\ At({"assign"})
  /\ IF here.x.target = "prop" THEN Attempt("put", here.p) ELSE Silent /\ Goto(here.next)
  /\ slots' = IF here.x.target = "prop" /\ last'.o = "throw" THEN slots ELSE Drop(slots, {Sub(here.p, "target")})
  /\ resources' = IF here.x.scope = None THEN resources
                  ELSE [resources EXCEPT ![here.x.scope] = Append(@, here.p)]
  /\ UNCHANGED <<awaiting, pending, finalizations, done, env, lexical, saved>>

Release ==
  /\ At({"release"})
  /\ Silent /\ Goto(here.next)
  /\ slots' = Drop(slots, {here.p})
  /\ UNCHANGED <<awaiting, pending, finalizations, done, env, lexical, saved, resources>>

CatchBind ==
  /\ At({"catch-bind"})
  /\ IF here.x \in {Absent, Id} THEN Silent /\ pc' = here.next /\ exception' = None /\ UNCHANGED outcome
     ELSE \E o \in Outcomes("eval") :
            /\ Emit("eval", here.p, o)
            /\ IF o = "throw" THEN Raise(<<"eval">> \o here.p)
               ELSE pc' = here.next /\ exception' = None /\ UNCHANGED outcome
  /\ UNCHANGED <<awaiting, frame>>

(* ------------------------------ branches ------------------------------- *)

Branch ==
  /\ At({"branch"})
  /\ \E o \in Outcomes("branch") :
       /\ Emit("branch", here.p, o)
       /\ CASE o = "true"  -> Goto(here.next)
            [] o = "false" -> Goto(here.alt)
            [] OTHER       -> Raise(<<"branch">> \o here.p)
  /\ UNCHANGED <<awaiting, frame>>

SwitchDispatch ==
  /\ At({"switch-dispatch"})
  /\ \/ Emit("dispatch", here.p, "throw") /\ Raise(<<"dispatch">> \o here.p) /\ UNCHANGED slots
     \/ \E i \in here.x.cases :
          Emit("dispatch", here.p, ToString(i)) /\ Goto(here.x.at[i]) /\ slots' = Drop(slots, {here.p})
     \/ /\ Emit("dispatch", here.p, ToString(here.x.default))
        /\ Goto(here.next) /\ slots' = Drop(slots, {here.p})
  /\ UNCHANGED <<awaiting, pending, finalizations, done, env, lexical, saved, resources>>

(* The discriminator is released by a match and by the last miss.          *)
SwitchCompare ==
  LET a == IF here.x.waits THEN "test" ELSE "branch"
      spent == IF here.x.waits THEN {here.p} ELSE {}
  IN  /\ At({"switch-compare"})
      /\ \E o \in Outcomes(a) :
           /\ Emit(a, here.p, o)
           /\ CASE o = "true"  -> Goto(here.next) /\ slots' = Drop(slots, spent \cup {here.x.slot})
                [] o = "false" -> /\ Goto(here.alt)
                                  /\ slots' = Drop(slots, spent \cup (IF here.x.final THEN {here.x.slot} ELSE {}))
                [] OTHER       -> Raise(<<a>> \o here.p) /\ UNCHANGED slots
      /\ UNCHANGED <<awaiting, pending, finalizations, done, env, lexical, saved, resources>>

ModuleExport ==
  /\ At({"module-export"})
  /\ Emit("export", here.p, "ok") /\ Goto(here.next)
  /\ UNCHANGED <<awaiting, frame>>

(* ------------------------------ resources ------------------------------ *)

ResourceEnter ==
  /\ At({"resource-enter", "resource-complete"})
  /\ Silent /\ Goto(here.next)
  /\ resources' = IF here.kind = "resource-enter" THEN Set(resources, here.p, <<>>)
                  ELSE [resources EXCEPT ![here.x] = Append(@, here.p)]
  /\ UNCHANGED <<awaiting, pending, finalizations, done, env, lexical, saved, slots>>

(* Last resource first; an error of a disposer joins the completion record *)
(* of the region, and the others are disposed all the same.                *)
ResourceDispose ==
  LET stack == resources[here.p]
      record == finalizations[here.p]
      error == <<"dispose">> \o stack[Len(stack)]
  IN  /\ At({"resource-dispose"}) /\ Ready
      /\ \/ /\ stack = <<>>
            /\ Silent /\ Goto(here.next)
            /\ resources' = Drop(resources, {here.p}) /\ UNCHANGED finalizations
         \/ /\ stack # <<>>
            /\ \E o \in Outcomes("dispose") :
                 /\ Emit("dispose", stack[Len(stack)], o)
                 /\ finalizations' = IF o = "ok" THEN finalizations
                                     ELSE [finalizations EXCEPT ![here.p] =
                                             IF record.t = "throw" THEN Suppressed(Thr(error), record) ELSE Thr(error)]
            /\ Goto(pc)
            /\ resources' = [resources EXCEPT ![here.p] = SubSeq(stack, 1, Len(stack) - 1)]
      /\ awaiting' = FALSE /\ Running
      /\ UNCHANGED <<pending, done, saved, slots>>

(* ----------------------------- completions ----------------------------- *)

FinallyEnter_ ==
  /\ \/ /\ At({"finally-enter"})
        /\ finalizations' = Set(finalizations, here.p, [t |-> "normal", v |-> here.x])
        /\ UNCHANGED <<exception, pending>>
     \/ /\ At({"finally-throw-enter"})
        /\ finalizations' = Set(finalizations, here.p, Thr(exception))
        /\ exception' = None /\ UNCHANGED pending
     \/ /\ At({"finally-return-enter"})
        /\ finalizations' = Set(finalizations, here.p, Ret(pending))
        /\ pending' = None /\ UNCHANGED exception
  /\ Silent
  /\ pc' = here.next
  /\ UNCHANGED <<awaiting, outcome, done, env, lexical, saved, slots, resources>>

FinallyExit_ ==
  /\ At({"finally-exit"})
  /\ Silent
  /\ LET record == finalizations[here.p]
     IN  CASE record.t = "normal" -> Goto(record.v) /\ UNCHANGED pending
           [] record.t = "return" -> ReturnTo(here.alt, record.v)
           [] OTHER               -> Raise(record.v) /\ UNCHANGED pending
  /\ finalizations' = Drop(finalizations, {here.p})
  /\ UNCHANGED <<awaiting, done, env, lexical, saved, slots, resources>>

Route ==
  /\ At({"return-route", "throw-route"})
  /\ \E o \in Outcomes("eval") :
       /\ Emit("eval", here.p, o)
       /\ CASE o = "throw" -> Raise(<<"eval">> \o here.p) /\ UNCHANGED pending
            [] o = "ok" /\ here.kind = "return-route" -> ReturnTo(here.next, <<"return">> \o here.p)
            [] OTHER -> /\ pc' = here.next /\ exception' = <<"throw">> \o here.p
                        /\ UNCHANGED <<outcome, pending>>
  /\ UNCHANGED <<awaiting, finalizations, done, env, lexical, saved, slots, resources>>

Completion ==
  /\ At({"completion"})
  /\ \/ here.x = "end" /\ Silent /\ Finish_(Ret(<<"undefined">>))
     \/ /\ here.x # "end"
        /\ \E o \in Outcomes("eval") :
             /\ Emit("eval", here.p, o)
             /\ CASE o = "throw"      -> Raise(<<"eval">> \o here.p)
                  [] here.x = "throw" -> Finish_(Thr(<<"throw">> \o here.p))
                  [] OTHER            -> Finish_(Ret(<<"return">> \o here.p))
  /\ UNCHANGED <<awaiting, frame>>

(* The promise or the generator is settled, once.                          *)
SettleResult ==
  /\ pc = Finishing
  /\ last' = [a |-> "settle", p |-> outcome.v, o |-> outcome.t]
  /\ ref' = IF ref.a = "end" /\ Result(ref.c) = outcome THEN [ref EXCEPT !.a = "settled"] ELSE Lost
  /\ pc' = Finished /\ quiet' = {}
  /\ UNCHANGED <<prog, graph, awaiting, exception, outcome, frame>>

Idle == pc = Finished /\ UNCHANGED vars

Next ==
  \/ Evaluate \/ Complete \/ Empty \/ Suspend \/ Resume_
  \/ ScopeEnter \/ ObjectScopeEnter \/ EnvironmentExit
  \/ IteratorInit \/ IteratorNext \/ IteratorClose
  \/ BindingSource \/ Check \/ PropertyKey \/ Property \/ ObjectRest \/ IteratorStep \/ IteratorRest
  \/ DefaultTest \/ DefaultApply \/ Assign \/ Release \/ CatchBind
  \/ Branch \/ SwitchDispatch \/ SwitchCompare \/ ModuleExport
  \/ ResourceEnter \/ ResourceDispose
  \/ FinallyEnter_ \/ FinallyExit_ \/ Route \/ Completion \/ SettleResult \/ Idle

Machine == Start_ /\ [][Next]_vars

(* ----------------------------- properties ------------------------------ *)

(* The emitted machine takes the observable steps the statement structure  *)
(* of the body prescribes, in its order, and settles with the same result: *)
(* planAsyncControlFlowGraph loses, repeats and reorders nothing.          *)
Structured == Spec

(* Control only reaches states that survived the reachability pruning of   *)
(* planAsyncControlFlowGraph (a pruned one would be "invalid resumable CFG *)
(* state"), and never comes back to a state without an observable step.    *)
ControlSound ==
  /\ pc \in DOMAIN graph \cup {Finishing, Finished}
  /\ pc \notin quiet

(* Slots a state reads.                                                    *)
Reads(s) ==
  CASE s.kind \in {"iterator-open", "check", "default-test", "switch-dispatch", "object-scope-enter", "module-export"} -> {s.p}
    [] s.kind \in {"property", "object-rest"} -> {s.x.from} \cup s.x.keys
    [] s.kind = "property-key"   -> {Sub(s.p, "key")}
    [] s.kind = "default-apply"  -> {Sub(s.p, "default")}
    [] s.kind = "assign"         -> {s.p} \cup (IF s.x.target = "prop" THEN {Sub(s.p, "target")} ELSE {})
    [] s.kind = "switch-compare" -> {s.x.slot} \cup (IF s.x.waits THEN {s.p} ELSE {})
    [] s.kind \in {"iterator-init", "async-iterator-init"} -> IF s.x = "no" THEN {} ELSE {s.p}
    [] s.kind = "binding-init"   -> {Parent(s.p)}
    [] s.kind = "source"         -> IF s.x = "result" THEN {Parent(s.p)} ELSE {}
    [] OTHER -> {}

(* A value kept across suspensions is still there when it is used: no      *)
(* state reads a slot that was never filled or that was already released.  *)
SlotsLive == pc \in DOMAIN graph => Reads(here) \subseteq DOMAIN slots

(* At every observable step the environment is the one of the statements   *)
(* being executed, on every path out of a scope and across suspensions.    *)
EnvironmentExact ==
  [][ref' # ref => (IF awaiting THEN lexical ELSE env) = Environments(ref)]_vars

(* A loop copies its own iteration environment, never the one of an        *)
(* enclosing or of an abandoned scope.                                     *)
CopiesOwnScope ==
  pc \in DOMAIN graph /\ Bodies[prog].retained
    /\ \/ here.kind = "scope-clone"
       \/ here.kind \in {"iterator-next", "async-iterator-next"} /\ here.x \in {"let", "using"}
  => LET e == IF awaiting THEN lexical ELSE env IN e # <<>> /\ e[Len(e)] = here.p

================================================================================
