----------------------------- MODULE LinkingReference -----------------------------
(***************************************************************************)
(* What the language says of a program of several modules: the texts the   *)
(* require calls of a file ask for when it runs, the binding a name        *)
(* exported by a module denotes, and the modules that cannot be loaded.    *)
(* Stated over the statements themselves, without aliases, link records or *)
(* worklists.                                                              *)
(***************************************************************************)
EXTENDS JsSyntax

R == INSTANCE SpecifierReference

(* ------------------------------- requests -------------------------------- *)

Inside(x) == IF x.k = "paren" THEN x.x ELSE x
Thing(name) == [k |-> "thing", name |-> name]        \* what require and module are bound to
Closure1(f, env) == [k |-> "closure", f |-> f, env |-> env]
RECURSIVE Value(_, _), Asks(_, _), Listing(_)
Value(x, env) ==               \* of names and functions; everything else is of no interest
  LET u == Inside(x)
      bound == Inside(u.f)
  IN CASE u \in {Global("require"), Global("module")} -> Thing(u.name)
       [] u.k = "get" /\ u.name = "require" -> IF Value(u.x, env) = Thing("module") THEN Thing("require") ELSE No
       [] u.k = "const" -> Value(u.x, <<>>)
       [] u.k = "param" -> IF u.name \in DOMAIN env THEN env[u.name] ELSE No
       [] u.k = "fn" -> Closure1(u, env)
       [] u.k = "call" -> IF bound.k = "get" /\ bound.name = "bind" /\ Len(u.as) <= 1 THEN Value(bound.x, env) ELSE No
       [] OTHER -> No
Listing(xs) ==                 \* the arguments a list of expressions passes
  FlattenSeq([i \in DOMAIN xs |-> IF xs[i].k # "spread" THEN <<xs[i]>>
                                  ELSE LET list == IF xs[i].x.k = "const" THEN xs[i].x.x ELSE xs[i].x
                                       IN  IF list.k = "arr" THEN Listing(list.es) ELSE <<Let>>])
ListOf(x) == Listing(<<Spread(x)>>)
Apply(v, xs, env) ==           \* the texts asked for by a call of v with these arguments
  CASE v = Thing("require") -> IF xs = <<>> THEN {} ELSE IF xs[1].k = "hole" THEN {} ELSE R!Requested(xs[1])
    [] v.k = "closure" -> LET n == {i \in 1 .. Len(v.f.params) : i <= Len(xs)}
                              args == [p \in {v.f.params[i] : i \in n} |-> Value(xs[CHOOSE i \in n : v.f.params[i] = p], env)]
                          IN  IF v.f.body.how = "many" THEN {} ELSE Asks(v.f.body.x, args @@ v.env)
    [] OTHER -> {}
Parts(x) ==                    \* the operands evaluated where x is; the texts of require calls stand in none of them
  CASE x.k \in {"paren", "un", "void", "spread", "get"} -> {x.x} [] x.k \in {"bin", "at"} -> {x.x, x.y} [] x.k = "cond" -> {x.c, x.x, x.y}
    [] x.k = "arr" -> ToSet(x.es) [] x.k = "call" -> {x.f} \union ToSet(x.as) [] OTHER -> {}
Asks(x, env) ==
  LET f == Inside(x.f)
      xs == Listing(x.as)
      target == Value(f.x, env)
      called == CASE f = Get(Global("Reflect"), "apply") -> Apply(Value(xs[1], env), ListOf(xs[3]), env)
                  [] f.k = "get" /\ f.name = "call" -> IF xs = <<>> THEN Apply(target, <<>>, env) ELSE Apply(target, Tail(xs), env)
                  [] f.k = "get" /\ f.name = "apply" -> Apply(target, ListOf(xs[2]), env)
                  [] OTHER -> Apply(Value(f, env), xs, env)
  IN  (IF x.k = "call" THEN called ELSE {}) \union UNION {Asks(y, env) : y \in Parts(x)}
Asked(body) == UNION {Asks(st.x, <<>>) : st \in {e \in ToSet(body) : e.s \in {"eval", "declare", "destructure"}}}

(* -------------------------------- bindings ------------------------------- *)

Stated(p, m) == ToSet(p.files[m].body)
Kinds(p, m, kinds) == {st \in Stated(p, m) : IF st.s \in kinds THEN ~st.erased ELSE FALSE}
At1(p, spec) == IF spec \in DOMAIN p.names THEN p.names[spec] ELSE ""
IsCommonJs(f) ==               \* Node's rule for a JavaScript file
  \/ f.ext = "cjs" \/ (f.ext = "js" /\ f.type = "commonjs")
  \/ f.ext = "js" /\ f.type = "" /\ \A i \in DOMAIN f.body : f.body[i].s \notin {"import", "export", "star", "local"}
(* Where the name n of module m may come from: itself, or a name of another module. *)
Sources(p, m, n) ==
  LET f == p.files[m]
      locals == {st.local : st \in {l \in Stated(p, m) : IF l.s = "local" THEN l.name = n ELSE FALSE}}
      imported(l) == UNION {{<<At1(p, st.req.spec), st.pairs[i][1]>> : i \in {j \in DOMAIN st.pairs : st.pairs[j][2] = l}} : st \in Kinds(p, m, {"import"})}
      own == UNION {IF imported(l) = {} THEN {<<m, "=" \o l>>} ELSE imported(l) : l \in locals}
      named == UNION {{<<At1(p, st.req.spec), st.pairs[i][1]>> : i \in {j \in DOMAIN st.pairs : st.pairs[j][2] = n}} : st \in Kinds(p, m, {"export"})}
      stars == {<<At1(p, st.req.spec), n>> : st \in Kinds(p, m, {"star"})}
  IN CASE IsCommonJs(f) -> {<<m, "=" \o n>>}
       [] f.ext = "json" -> IF n = "default" THEN {<<m, "=default">>} ELSE {}
       [] own \union named # {} -> own \union named
       [] n = "default" -> {}
       [] OTHER -> stars
Final(b) == b[1] = "" \/ SubSeq(b[2], 1, 1) = "=" \/ b[2] = "*"           \* a binding, a namespace, or a file that is missing
RECURSIVE From1(_, _)
From1(p, S) == LET T == S \union UNION {Sources(p, b[1], b[2]) : b \in {c \in S : ~Final(c)}} IN IF T = S THEN S ELSE From1(p, T)
(* Every path that looks n up in m ends in one and the same binding.       *)
Bound1(p, m, n) ==
  LET ends == {b \in From1(p, {<<m, n>>}) : Final(b)} IN Cardinality(ends) = 1 /\ \A b \in ends : b[1] # ""
Absent1(p, spec) == At1(p, spec) = "" /\ SubSeq(spec, 1, 1) # "."         \* a module of the host
Unlinkable(p, m) ==
  \/ \E st \in Kinds(p, m, {"import"}) : \E i \in DOMAIN st.pairs :
       /\ st.pairs[i][1] # "*" /\ ~Absent1(p, st.req.spec)
       /\ At1(p, st.req.spec) = "" \/ ~Bound1(p, At1(p, st.req.spec), st.pairs[i][1])
  \/ \E st \in Kinds(p, m, {"export"}) : \E i \in DOMAIN st.pairs :
       ~Absent1(p, st.req.spec) /\ ~Bound1(p, m, st.pairs[i][2])
  \/ \E st \in {l \in Stated(p, m) : l.s = "local"} : \E via \in Sources(p, m, st.name) : via[1] # m /\ via[1] # "" /\ ~Bound1(p, m, st.name)
Needs(p, m) == {At1(p, st.req.spec) : st \in Kinds(p, m, {"import", "export", "star"})} \ {""}
RECURSIVE Upward(_, _, _)
Upward(p, ms, S) == LET T == S \union {m \in ms : Needs(p, m) \intersect S # {}} IN IF T = S THEN S ELSE Upward(p, ms, T)
Unloadable(p, ms) ==           \* of the modules ms
  LET broken == {m \in ms : p.files[m].broken} IN Upward(p, ms, broken \union {m \in ms \ broken : Unlinkable(p, m)})

===============================================================================
