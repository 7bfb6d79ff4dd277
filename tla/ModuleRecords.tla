------------------------------ MODULE ModuleRecords ------------------------------
(***************************************************************************)
(* The link record of a source file (module-source-record.ts), the lookup  *)
(* of an export through it (module-export-resolution.ts), the requests a   *)
(* declaration makes (module-request.ts) and the format a file is read in  *)
(* (buildProgram of program.ts).                                           *)
(*                                                                         *)
(* A file is a record: its statements (body), its extension (ext), the     *)
(* "type" of its package, and whether its source fails to parse (broken).  *)
(***************************************************************************)
EXTENDS Sequences, SequencesExt, FiniteSets, TLC

Namespace == "*"               \* moduleNamespaceBinding: no name of the source
Request(spec, type) == [spec |-> spec, type |-> type]        \* type: the import attribute, "" without one
ImportFrom(req, pairs, erased) == [s |-> "import", req |-> req, pairs |-> pairs, erased |-> erased]   \* <<name, local name>>
ExportFrom(req, pairs, erased) == [s |-> "export", req |-> req, pairs |-> pairs, erased |-> erased]   \* <<name, exported name>>
ExportAll(req) == [s |-> "star", req |-> req, erased |-> FALSE]
ExportLocal(name, local) == [s |-> "local", name |-> name, local |-> local]
Edges(body) == SelectSeq(body, LAMBDA st : st.s \in {"import", "export", "star"} /\ ~st.erased)      \* type-only edges are erased
RequestError(req, f) ==        \* staticModuleRequestResolutionError
  IF f.ext = "json" THEN req.type # "json" ELSE req.type \notin {"", "javascript"}

(* ------------------------------ link records ----------------------------- *)

Entry(req, name) == [req |-> req, name |-> name]
Imports(body) ==
  LET of(st) == [i \in DOMAIN st.pairs |-> Entry(st.req, st.pairs[i][1])]
      sts == SelectSeq(Edges(body), LAMBDA st : st.s = "import")
  IN  FlattenSeq([i \in DOMAIN sts |-> of(sts[i])])
ImportOf(body, local) ==       \* the entries that import this local name
  UNION {{Entry(st.req, st.pairs[i][1]) : i \in {j \in DOMAIN st.pairs : st.pairs[j][2] = local}} :
           st \in {e \in ToSet(Edges(body)) : e.s = "import"}}
Locals(body) == {st \in ToSet(body) : st.s = "local"}
(* Exporting an imported name exports the binding it was imported from.    *)
LocalExports(body) ==
  LET own == {st \in Locals(body) : ImportOf(body, st.local) = {}}
  IN  [n \in {st.name : st \in own} |-> (CHOOSE st \in own : st.name = n).local]
IndirectExports(body) ==
  LET passed == {[name |-> st.name, to |-> CHOOSE e \in ImportOf(body, st.local) : TRUE] :
                   st \in {l \in Locals(body) : ImportOf(body, l.local) # {}}}
      named == UNION {{[name |-> st.pairs[i][2], to |-> Entry(st.req, st.pairs[i][1])] : i \in DOMAIN st.pairs} :
                        st \in {e \in ToSet(Edges(body)) : e.s = "export"}}
  IN  [n \in {p.name : p \in passed \union named} |-> (CHOOSE p \in passed \union named : p.name = n).to]
StarExports(body) ==
  LET sts == SelectSeq(body, LAMBDA st : st.s = "star") IN [i \in DOMAIN sts |-> sts[i].req]
LinkRecord(f, commonjs, to) == \* moduleLinkRecord; to: the file that answers each resolved request
  LET body == f.body
      json == f.ext = "json"
  IN  [host |-> commonjs, to |-> to, imports |-> IF json THEN <<>> ELSE Imports(body),
       locals |-> IF json THEN ("default" :> "default") ELSE LocalExports(body),
       indirect |-> IF json THEN <<>> ELSE IndirectExports(body), stars |-> IF json THEN <<>> ELSE StarExports(body)]

(* --------------------------- resolveModuleExport ------------------------- *)

NoBinding == [k |-> "null"]
Ambiguous == [k |-> "ambiguous"]
Binding(m, name) == [k |-> "binding", m |-> m, name |-> name]
Answer(to, seen) == [to |-> to, seen |-> seen]
Target(r, req) == IF req \in DOMAIN r.to THEN r.to[req] ELSE ""
(* records: the record of each module; seen: the resolveSet of the whole   *)
(* query, which a record and a name enter once.                            *)
RECURSIVE Resolve(_, _, _, _), ResolveStars(_, _, _, _, _, _)
ResolveFirstStar(records, m, name, i, candidate, seen) ==      \* mutant: the first module that has the name gives it
  LET target == Target(records[m], records[m].stars[i])
      found == Resolve(records, target, name, seen)
  IN CASE i > Len(records[m].stars) -> Answer(candidate, seen)
       [] target = "" -> Answer(NoBinding, seen)
       [] found.to = NoBinding -> ResolveStars(records, m, name, i + 1, candidate, found.seen)
       [] OTHER -> found
Resolve(records, m, name, seen) ==
  LET r == records[m]
      now == seen \union {<<m, name>>}
      via == r.indirect[name]
      target == Target(r, via.req)
  IN CASE <<m, name>> \in seen -> Answer(NoBinding, seen)
       [] r.host -> Answer(Binding(m, name), now)
       [] name \in DOMAIN r.locals -> Answer(Binding(m, r.locals[name]), now)
       [] name \in DOMAIN r.indirect ->
            IF target = "" THEN Answer(NoBinding, now)
            ELSE IF via.name = Namespace THEN Answer(Binding(target, Namespace), now) ELSE Resolve(records, target, via.name, now)
       [] name = "default" -> Answer(NoBinding, now)
       [] OTHER -> ResolveStars(records, m, name, 1, NoBinding, now)
ResolveStars(records, m, name, i, candidate, seen) ==
  LET target == Target(records[m], records[m].stars[i])
      found == Resolve(records, target, name, seen)
      next(b) == ResolveStars(records, m, name, i + 1, b, found.seen)
  IN CASE i > Len(records[m].stars) -> Answer(candidate, seen)
       [] target = "" -> Answer(NoBinding, seen)
       [] found.to = Ambiguous -> found
       [] found.to = NoBinding -> next(candidate)
       [] candidate \in {NoBinding, found.to} -> next(found.to)
       [] OTHER -> Answer(Ambiguous, found.seen)
ResolveExport(records, m, name) == Resolve(records, m, name, {}).to

(* --------------------------------- formats ------------------------------- *)

External(f) == Edges(f.body) # <<>> \/ \E st \in ToSet(f.body) : st.s = "local"     \* ts.isExternalModule
Script(f) == f.ext \in {"js", "mjs", "cjs"}
(* The files read as Modules, from those an import reaches and the roots.  *)
ModuleTargets(files, reached, roots) ==
  reached \union {m \in roots : files[m].ext = "mjs" \/ (files[m].ext \in {"ts", "js"} /\ files[m].type = "module")}
CommonJs(f) == f.ext = "cjs" \/ (f.ext = "js" /\ (f.type = "commonjs" \/ (f.type # "module" /\ ~External(f))))
CommonJsTargets(files, targets) == {m \in targets : Script(files[m]) /\ CommonJs(files[m])}

===============================================================================
