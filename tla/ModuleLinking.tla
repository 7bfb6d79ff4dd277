------------------------------ MODULE ModuleLinking ------------------------------
(***************************************************************************)
(* From an entry file to the modules of a program, what each of them may   *)
(* ask for, which of them cannot be loaded and the order they start in:    *)
(* collectStaticRequireRoots and buildProgram of program.ts and            *)
(* buildModuleGraph of resolve.ts.                                         *)
(*                                                                         *)
(* program.files are the files of the disk and program.names the file each *)
(* specifier denotes: every file of the model lies in one directory.       *)
(***************************************************************************)
EXTENDS RequireScan, ModuleRecords

CONSTANTS Families,            \* the programs, in sets
          Scan(_, _),          \* FileSpecifiers of RequireScan
          Requests(_)          \* Asked of LinkingReference: the texts a file asks for when it runs

VARIABLES program,             \* the input: files, names, entries, manifest
          asked,               \* the texts each file asks for when it runs: of the language, no part of the compiler reads it
          stage,               \* discover, preflight, build, order, done, refused or error
          queue, seen, reached,                \* the files to scan, known, and reached by an import
          inert,               \* modules whose body is left out: they cannot be loaded
          graph,               \* the module graph
          roots, frames, visited, active, order
discovery == <<queue, seen, reached>>
walk == <<roots, frames, visited, active, order>>
vars == <<program, asked, stage, discovery, inert, graph, walk>>

Append1(s, x) == IF x \in ToSet(s) THEN s ELSE Append(s, x)
AppendNew(s, t) == FoldLeft(Append1, s, t)
NoGraph == [modules |-> {}, to |-> <<>>, requires |-> <<>>, imports |-> <<>>, records |-> <<>>, linkFailed |-> {}, failed |-> {}, error |-> FALSE]
(* A family gives the files, the entries, the names of some files, the file *)
(* that every other text asked for denotes (rest, "" for none) and whether  *)
(* the manifest lists those texts (listed).                                 *)
Init ==
  /\ \E F \in Families : program \in F
  /\ asked = <<>> /\ stage = "start" /\ queue = <<>> /\ seen = {} /\ reached = {}
  /\ inert = {} /\ graph = NoGraph
  /\ roots = <<>> /\ frames = <<>> /\ visited = {} /\ active = {} /\ order = <<>>
L == INSTANCE LinkingReference
(* The program is on disk and the compiler is started on its entries.      *)
Start(p) ==
  /\ stage = "start" /\ stage' = "discover"
  /\ asked' = [m \in DOMAIN p.files |-> Requests(p.files[m].body)]
  /\ LET texts == UNION Range(asked') \ {""}
     IN  program' = [files |-> p.files, entries |-> p.entries,
                     names |-> IF p.rest = "" THEN p.names ELSE p.names @@ [t \in texts |-> p.rest],
                     manifest |-> IF p.listed THEN [p.manifest EXCEPT !.all = texts] ELSE p.manifest]
  /\ queue' = AppendNew(<<>>, p.entries) /\ seen' = ToSet(p.entries) /\ roots' = p.entries
  /\ UNCHANGED <<reached, inert, graph, frames, visited, active, order>>

Files == program.files
Denotes(spec) == IF spec \in DOMAIN program.names THEN program.names[spec] ELSE ""     \* ts.resolveModuleName, on one directory
Relative(spec) == SubSeq(spec, 1, 1) = "."
ManifestFor(m) ==              \* dynamicRequireSpecifiersForFile, nothing without a manifest
  IF program.manifest.byFile THEN (IF m \in DOMAIN program.manifest.files THEN program.manifest.files[m] ELSE {}) ELSE program.manifest.all

(* ------------------------------- discovery ------------------------------- *)

RequiredTexts(m) == Scan(Files[m].body, ManifestFor(m))
Targets(specs) == {Denotes(s) : s \in specs} \ {""}
DynamicTexts(m) == UNION {st.specs : st \in {d \in ToSet(Files[m].body) : d.s = "dynamic"}}      \* dynamicImportSpecifiersFromCall
Dynamic(specs) == [s |-> "dynamic", specs |-> specs]
ImportTargets(m) == Targets({st.req.spec : st \in ToSet(Edges(Files[m].body))} \union DynamicTexts(m))
(* One turn of collectStaticRequireRoots; the files a scan finds enter the queue in any order. *)
Discover(m) ==
  /\ stage = "discover" /\ queue # <<>> /\ m = Head(queue)
  /\ LET found == (ImportTargets(m) \union Targets(RequiredTexts(m))) \ seen
     IN  /\ queue' = Tail(queue) \o SetToSeq(found)
         /\ seen' = seen \union found
         /\ reached' = reached \union ImportTargets(m)
  /\ UNCHANGED <<program, asked, stage, inert, graph, walk>>
Discovered == stage = "discover" /\ queue = <<>> /\ stage' = "preflight" /\ UNCHANGED <<program, asked, discovery, inert, graph, walk>>

(* ------------------------------- the graph ------------------------------- *)

ModuleFiles == ModuleTargets(Files, reached, seen)
CommonJsFiles == CommonJsTargets(Files, ModuleFiles)
SourceFailed == {m \in ModuleFiles \ CommonJsFiles : Files[m].broken}          \* retainModuleParseFailure
(* program.getSourceFiles: the compiler follows imports, type-only ones too, of what is not inert. *)
RECURSIVE Closure(_, _), Spread1(_, _, _)
Followed(m, gone) == IF m \in gone THEN {} ELSE Targets({st.req.spec : st \in {e \in ToSet(Files[m].body) : e.s \in {"import", "export", "star"}}})
Closure(S, gone) == LET T == S \union UNION {Followed(m, gone) : m \in S} IN IF T = S THEN S ELSE Closure(T, gone)
StaticTargets(m, mods) ==      \* resolvedModuleRequests
  LET reqs == IF m \in SourceFailed THEN {} ELSE {st.req : st \in {e \in ToSet(Edges(Files[m].body)) : Denotes(e.req.spec) \in mods}}
  IN  [r \in reqs |-> Denotes(r.spec)]
StaticImports(m, mods) ==
  LET sts == IF m \in SourceFailed THEN <<>> ELSE Edges(Files[m].body)
      known == SelectSeq([i \in DOMAIN sts |-> Denotes(sts[i].req.spec)], LAMBDA d : d \in mods \ {m})
  IN  AppendNew(<<>>, known)
(* moduleLoadFailures: pending is the worklist, failed its result.         *)
Spread1(pending, failed, to) ==
  LET m == Head(pending)
      parents == {n \in DOMAIN to : m \in Range(to[n])} \ failed
  IN  IF pending = <<>> THEN failed ELSE Spread1(SetToSeq(parents) \o Tail(pending), failed \union parents, to)
LoadFailures(bad, to) == Spread1(SetToSeq(bad), bad, to)
Unbound(b) == b \in {NoBinding, Ambiguous}
LinkFails(m, records) ==
  LET r == records[m]
      checked(req) == Target(r, req) # "" \/ Relative(req.spec)
      missing(e) == Target(r, e.req) = "" \/ Unbound(ResolveExport(records, Target(r, e.req), e.name))
  IN  \/ \E n \in DOMAIN r.indirect : checked(r.indirect[n].req) /\ Unbound(ResolveExport(records, m, n))
      \/ \E i \in DOMAIN r.imports : /\ r.imports[i].name # Namespace /\ checked(r.imports[i].req)
                                     /\ missing(r.imports[i])
RequiredIn(m, mods) == LET texts == RequiredTexts(m) IN [t \in {s \in texts : Denotes(s) \in mods} |-> Denotes(t)]
(* buildModuleGraph up to the order; static: staticRequestsOnly.           *)
Graph(mods, static) ==
  LET to == [m \in mods |-> StaticTargets(m, mods)]
      records == [m \in mods |-> LinkRecord(Files[m], m \in CommonJsFiles, to[m])]
      first == LoadFailures(SourceFailed \intersect mods, to)
      linkFailed == {m \in mods \ first : LinkFails(m, records)}
      failed == LoadFailures((SourceFailed \intersect mods) \union linkFailed, to)
      requires == [m \in mods |-> IF static \/ m \in failed THEN <<>> ELSE RequiredIn(m, mods)]
      required(m) == SetToSeq(Range(requires[m]) \ {m})
  IN  [modules |-> mods, to |-> to, requires |-> requires, records |-> records, linkFailed |-> linkFailed, failed |-> failed,
       imports |-> [m \in mods |-> AppendNew(StaticImports(m, mods), required(m))],
       error |-> \E m \in mods : \E r \in DOMAIN to[m] : RequestError(r, Files[to[m][r]])]
(* DYNAMIC_REQUIRE_AOT_MESSAGE: a require whose text is not known and that the manifest does not cover. *)
RECURSIVE Uncovered(_, _)
Uncovered(x, M) ==
  \/ x.k = "call" /\ (Bare(x.f) = Global("require") \/ IsModuleRequire(x.f, [req |-> {}, mod |-> {}])) /\ M = {}
     /\ LET arg == SpecifierArgument(x, [req |-> {}, mod |-> {}]) IN IF Known(arg) THEN Texts(arg) = {} ELSE TRUE
  \/ \E i \in DOMAIN Children(x) : Uncovered(Children(x)[i], M)
Refused(mods) == \E m \in mods \ inert : \E st \in ToSet(Files[m].body) : st.s \in CodeKinds /\ Uncovered(st.x, ManifestFor(m))
Preflight(mods) ==             \* the first graph of buildProgram: what cannot be loaded loses its body
  /\ stage = "preflight"
  /\ LET g == Graph(mods, TRUE)
     IN  IF g.error THEN stage' = "error" /\ UNCHANGED inert ELSE stage' = "build" /\ inert' = g.failed
  /\ UNCHANGED <<program, asked, discovery, graph, walk>>
Build(mods) ==
  /\ stage = "build"
  /\ IF Refused(mods) THEN stage' = "refused" /\ UNCHANGED graph ELSE stage' = "order" /\ graph' = Graph(mods, FALSE)
  /\ UNCHANGED <<program, asked, discovery, inert, walk>>

(* --------------------------------- the order ----------------------------- *)

Ordering == INSTANCE StartOrder WITH imports <- graph.imports, entries <- program.entries
Walk ==
  /\ UNCHANGED <<program, asked, discovery, inert, graph>>
  /\ Ordering!EnterRoot \/ Ordering!Advance \/ Ordering!Leave \/ Ordering!Finish
Ended == stage \in {"done", "refused", "error"} /\ UNCHANGED vars

Spec ==
  /\ Init
  /\ [][\/ Start(program) \/ (\E m \in ToSet(queue) : Discover(m)) \/ Discovered
        \/ Preflight(Closure(seen, SourceFailed)) \/ Build(Closure(seen, inert))
        \/ Walk \/ Ended]_vars

(* ------------------------------- properties ------------------------------ *)

(* Whatever a module that can be loaded asks for when it runs, through an  *)
(* import or with the text its require call computes, names a file that    *)
(* was found, is linked to it under that text, and starts before it unless *)
(* the two depend on each other.                                           *)
RequestsAreLinked ==
  stage = "done" =>
    \A m \in ToSet(order) \ graph.failed :
      /\ \A t \in asked[m] : Denotes(t) # "" =>
           t \in DOMAIN graph.requires[m] /\ graph.requires[m][t] = Denotes(t) /\ Ordering!StartsBefore(Denotes(t), m)
      /\ \A d \in L!Needs(program, m) : Ordering!StartsBefore(d, m)

(* The modules left without a body are those that cannot be loaded: their  *)
(* source is broken, a name they import or pass on has no single binding,  *)
(* or they import such a module.  The second graph agrees with the first.  *)
FailuresExact == stage = "order" => graph.failed = L!Unloadable(program, graph.modules) /\ inert = graph.failed

===============================================================================
