------------------------------ MODULE HostPurity ------------------------------
(***************************************************************************)
(* The calls and reads of the host surface (os, path, net, process, the    *)
(* standard streams, events, errors) that the code generator takes to run  *)
(* no user code: emit/index.ts's isSideEffectFree... methods for them.     *)
(*                                                                         *)
(* A host module is a Global with the module's name; a name imported from  *)
(* it is Import(module, name).  The code's primitive variant of a          *)
(* recogniser, which also promises that the result is no object, has the   *)
(* prefix Primitive.                                                       *)
(***************************************************************************)
EXTENDS StaticCollections

CONSTANTS ErrorOptionsPure(_)  \* isSideEffectFreeErrorOptionsObject

RECURSIVE UserInfoOptions(_), PathFormatObject(_), PathParseRead(_), StringReturningPathCall(_), ProcessString(_),
          CommonJsString(_), BuiltinString(_), FreshOf(_, _), ListenerOptions(_), OnceOptions(_), EventListener(_),
          EventStringMethodCall(_), ErrorStringMethodCall(_), ErrorDescriptorString(_), DescriptorFlagRead(_)

(* The initializer of a const satisfies P.                                 *)
Through(u, P(_)) == Known(EarlierConst(u)) /\ P(EarlierConst(u))

IsGlobal(u, name) == u.k = "global" /\ u.name = name
OnGlobal(u, name) == u.k = "get" /\ IsGlobal(u.x, name)        \* name.p
PathModule(u) == IsGlobal(u, "path") \/ (OnGlobal(u, "path") /\ u.name \in {"posix"})

(* The function of a host module a call names: mod.f(...), path.posix.f(...) *)
(* or an imported f(...).                                                  *)
ModuleMethod(u, mod) ==
  CASE u.k # "call" -> ""
    [] u.f.k = "import" -> IF u.f.mod = mod THEN u.f.name ELSE ""
    [] u.f.k = "get" -> IF (IF mod = "path" THEN PathModule(u.f.x) ELSE IsGlobal(u.f.x, mod)) THEN u.f.name ELSE ""
    [] OTHER -> ""

Strings(as, n) == n <= Len(as) /\ \A i \in 1 .. n : StringCoercion(as[i])
KeyThenIgnored(as) == as # <<>> /\ PropertyKeyCoercion(as[1]) /\ IgnoredPure(as, 1)

(* --------------------------------- os ----------------------------------- *)

OsPrimitives == {"platform", "type", "release", "version", "endianness", "machine", "arch", "hostname", "tmpdir",
                 "homedir", "availableParallelism", "totalmem", "freemem", "uptime"}

UserInfoOptions(x) ==
  LET u == Unwrap(x)
      option(p) == /\ p.p = "prop" /\ p.name = "encoding"
                   /\ UndefinedValue(p.x) \/ StringText(p.x) \in {Str("utf8"), Str("utf-8")}
  IN  \/ UndefinedExpression(x)
      \/ IF u.k = "obj" THEN \A i \in DOMAIN u.ps : option(u.ps[i]) ELSE Through(u, UserInfoOptions)

OsCall(m, as) ==
  IF m = "userInfo" THEN Len(as) <= 1 /\ UserInfoOptions(Arg(as, 1))
  ELSE m \in OsPrimitives \union {"cpus", "loadavg"} /\ IgnoredPure(as, 0)
PrimitiveOsCall(m, as) == m \in OsPrimitives /\ OsCall(m, as)

UserInfoRead(u) ==
  /\ u.k = "get" /\ u.name \in {"uid", "gid", "username", "homedir", "shell"}
  /\ LET recv == Unwrap(u.x) IN ModuleMethod(recv, "os") = "userInfo" /\ OsCall("userInfo", recv.as)
UserInfoString(u) == UserInfoRead(u) /\ u.name \in {"username", "homedir", "shell"}

(* -------------------------------- path ---------------------------------- *)

PathFormatObject(x) ==
  LET u == Unwrap(x)
      field(p) == p.p = "prop" /\ (UndefinedValue(p.x) \/ StringCoercion(p.x))
  IN  IF u.k = "obj" THEN \A i \in DOMAIN u.ps : field(u.ps[i]) ELSE Through(u, PathFormatObject)

OnePath == {"normalize", "isAbsolute", "toNamespacedPath", "dirname", "extname", "parse"}
PathCall(m, as) ==
  CASE m \in {"join", "resolve"} -> Strings(as, Len(as))
    [] m \in OnePath -> Strings(as, 1) /\ IgnoredPure(as, 1)
    [] m = "format" -> as # <<>> /\ PathFormatObject(as[1]) /\ IgnoredPure(as, 1)
    [] m \in {"relative", "matchesGlob"} -> Strings(as, 2) /\ IgnoredPure(as, 2)
    [] m = "basename" -> as # <<>> /\ Strings(as, IF Len(as) > 1 THEN 2 ELSE 1) /\ IgnoredPure(as, 2)
    [] OTHER -> FALSE
PrimitivePathCall(m, as) == m # "parse" /\ PathCall(m, as)

PathParseRead(x) ==
  LET u == Unwrap(x)
      recv == Unwrap(u.x)
  IN CASE u.k # "get" -> Through(u, PathParseRead)
       [] u.name \notin {"root", "dir", "base", "ext", "name"} -> FALSE
       [] ModuleMethod(recv, "path") = "parse" -> PathCall("parse", recv.as)
       [] OTHER -> Known(EarlierConst(recv)) /\ PathParseRead(Get(EarlierConst(recv), u.name))

StringReturningPathCall(x) ==
  LET u == Unwrap(x)
      m == ModuleMethod(u, "path")
  IN  IF u.k = "call" THEN m \notin {"", "isAbsolute", "matchesGlob", "parse"} /\ PathCall(m, u.as)
      ELSE Through(u, StringReturningPathCall)

(* --------------------------- net, stream, streams ----------------------- *)

NetCall(m, as) == m \in {"isIP", "isIPv4", "isIPv6"} /\ Strings(as, 1) /\ IgnoredPure(as, 1)

(* isSideEffectFreeHashMethodCall and its siblings: no hash is pure.       *)
HashMethodCall(m, as) == FALSE

StreamName(x) ==
  LET u == Unwrap(x)
  IN IF OnGlobal(u, "process") /\ u.name \in {"stdin", "stdout", "stderr"} THEN u.name ELSE ""
WritableStream(x) == StreamName(x) \in {"stdout", "stderr"}

StreamCall(m, as) ==
  /\ m \in {"isReadable", "isWritable", "isErrored", "isDestroyed", "isDisturbed"}
  /\ as # <<>> /\ (StreamName(as[1]) # "" \/ IsPure(as[1])) /\ IgnoredPure(as, 1)
PrimitiveStreamMethodCall(recv, m, as) == IsGlobal(recv, "stream") /\ StreamCall(m, as)

AnyStreamFields == {"closed", "destroyed", "errored", "fd", "isTTY", "readable"}
InputFields == {"readableEnded", "readableFlowing", "readableLength", "readableHighWaterMark", "readableObjectMode",
                "_readableState"}
OutputFields == {"columns", "rows", "writable", "writableCorked", "writableEnded", "writableFinished",
                 "writableLength", "writableNeedDrain", "writableHighWaterMark", "writableObjectMode", "_writableState"}
StdioRead(u) ==                \* isSideEffectFreeProcessStdioMetadataRead
  /\ u.k = "get" /\ StreamName(u.x) # ""
  /\ u.name \in AnyStreamFields \union (IF StreamName(u.x) = "stdin" THEN InputFields ELSE OutputFields)

StdioMethodCall(recv, m, as) ==
  LET name == StreamName(recv)
      input == name = "stdin"
  IN CASE name = "" -> FALSE
       [] m \in {"addListener", "off", "on", "once", "removeListener"} ->
            Len(as) >= 2 /\ Strings(as, 1) /\ EventListener(as[2]) /\ IgnoredPure(as, 2)
       [] m \in {"removeAllListeners", "destroy"} -> IgnoredPure(as, 0)
       [] m \in {"isPaused", "pause", "resume"} -> input /\ IgnoredPure(as, 0)
       [] m = "setEncoding" -> input /\ Strings(as, 1) /\ IgnoredPure(as, 1)
       [] m = "pipe" -> input /\ as # <<>> /\ WritableStream(as[1]) /\ IgnoredPure(as, 1)
       [] m = "unpipe" -> input /\ (as = <<>> \/ UndefinedValue(as[1]) \/ WritableStream(as[1])) /\ IgnoredPure(as, 1)
       [] m = "setDefaultEncoding" -> ~input /\ Strings(as, 1) /\ IgnoredPure(as, 1)
       [] m \in {"cork", "uncork"} -> ~input /\ IgnoredPure(as, 0)
       [] OTHER -> FALSE
PrimitiveStdioMethodCall(recv, m, as) == m # "read" /\ StdioMethodCall(recv, m, as)

(* ------------------------------- process -------------------------------- *)

ProcessIds == {"cwd", "uptime", "getuid", "getgid", "geteuid", "getegid"}
ProcessCall(recv, m, as) ==
  IF IsGlobal(recv, "process")
  THEN \/ m \in ProcessIds \union {"getgroups", "memoryUsage", "resourceUsage"} /\ IgnoredPure(as, 0)
       \/ m \in {"cpuUsage", "hrtime", "umask"} /\ as = <<>>
  ELSE OnGlobal(recv, "process") /\ recv.name = "hrtime" /\ m = "bigint" /\ IgnoredPure(as, 0)
PrimitiveProcessCall(recv, m, as) ==
  IsGlobal(recv, "process") /\ m \in ProcessIds \union {"umask"} /\ ProcessCall(recv, m, as)

ProcessTexts == {"platform", "arch", "version", "title", "argv0", "execPath"}
ProcessRead(u) ==              \* isSideEffectFreeProcessPrimitiveMetadataRead
  OnGlobal(u, "process") /\ u.name \in ProcessTexts \union {"pid", "ppid", "allowedNodeEnvironmentFlags"}

UsageFields(m) ==
  CASE m = "cpuUsage" -> {"user", "system"}
    [] m = "memoryUsage" -> {"rss", "heapTotal", "heapUsed", "external", "arrayBuffers"}
    [] m = "resourceUsage" ->
         {"userCPUTime", "systemCPUTime", "maxRSS", "sharedMemorySize", "unsharedDataSize", "unsharedStackSize",
          "minorPageFault", "majorPageFault", "swappedOut", "fsRead", "fsWrite", "ipcSent", "ipcReceived",
          "signalsCount", "voluntaryContextSwitches", "involuntaryContextSwitches"}
    [] OTHER -> {}
ProcessUsageRead(u) ==
  /\ u.k = "get"
  /\ LET recv == Unwrap(u.x)
     IN  /\ MethodName(recv) # "" /\ IsGlobal(recv.f.x, "process")
         /\ u.name \in UsageFields(recv.f.name) /\ ProcessCall(recv.f.x, recv.f.name, recv.as)

MetadataFields(object) ==
  CASE object = "versions" -> {"node", "openssl", "tsc2c"}
    [] object = "release" -> {"name", "sourceUrl", "headersUrl", "libUrl"}
    [] object = "features" -> {"inspector", "debug", "uv", "ipv6", "tls", "tls_alpn", "tls_sni", "tls_ocsp", "cached_builtins"}
    [] OTHER -> {}
ProcessObjectRead(u) == u.k = "get" /\ OnGlobal(u.x, "process") /\ u.name \in MetadataFields(u.x.name)

ProcessString(x) ==
  LET u == Unwrap(x)
  IN CASE OnGlobal(u, "process") -> u.name \in ProcessTexts
       [] u.k = "get" /\ OnGlobal(u.x, "process") -> u.x.name \in {"versions", "release"} /\ ProcessObjectRead(u)
       [] MethodName(u) = "cwd" -> IsGlobal(u.f.x, "process") /\ ProcessCall(u.f.x, "cwd", u.as)
       [] OTHER -> Through(u, ProcessString)

(* --------------------- constants of modules, CommonJS ------------------- *)

CommonJsPath(u) == u.k = "global" /\ u.name \in {"__filename", "__dirname"}
ModuleRead(u) == OnGlobal(u, "module") /\ u.name \in {"filename", "id", "path", "loaded"}
CommonJsString(x) ==
  LET u == Unwrap(x)
  IN CommonJsPath(u) \/ (ModuleRead(u) /\ u.name # "loaded") \/ Through(u, CommonJsString)

BuiltinStringName(u) ==
  u.k = "import" /\ (\/ u.mod = "path" /\ u.name \in {"sep", "delimiter"}
                     \/ u.mod = "os" /\ u.name \in {"EOL", "devNull"})
LookupHints == {"ADDRCONFIG", "V4MAPPED", "ALL"}
BuiltinNumberName(u) ==
  u.k = "import" /\ (\/ u.mod = "dns" /\ u.name \in LookupHints
                     \/ u.mod = "events" /\ u.name = "defaultMaxListeners")

OsSignals == {"SIGHUP", "SIGINT", "SIGQUIT", "SIGILL", "SIGTRAP", "SIGABRT", "SIGBUS", "SIGFPE", "SIGKILL", "SIGUSR1",
              "SIGSEGV", "SIGUSR2", "SIGPIPE", "SIGALRM", "SIGTERM"}
OsPriorities == {"PRIORITY_LOW", "PRIORITY_BELOW_NORMAL", "PRIORITY_NORMAL", "PRIORITY_ABOVE_NORMAL", "PRIORITY_HIGH",
                 "PRIORITY_HIGHEST"}
OsConstants(x) == (OnGlobal(x, "os") /\ x.name = "constants") \/ x = Import("os", "constants")
PathTexts(u) ==                \* path.sep, path.posix.sep, path.win32.sep
  /\ u.k = "get" /\ u.name \in {"sep", "delimiter"}
  /\ PathModule(u.x) \/ (OnGlobal(u.x, "path") /\ u.x.name = "win32")
OsTexts(u) == OnGlobal(u, "os") /\ u.name \in {"EOL", "devNull"}
ModuleConstantRead(u) ==
  \/ /\ u.k = "get" /\ u.x.k = "get" /\ OsConstants(u.x.x)
     /\ \/ u.x.name = "signals" /\ u.name \in OsSignals
        \/ u.x.name = "priority" /\ u.name \in OsPriorities
  \/ OnGlobal(u, "dns") /\ u.name \in LookupHints
  \/ PathTexts(u) \/ OsTexts(u)
BuiltinString(x) ==
  LET u == Unwrap(x)
  IN  IF u.k = "get" /\ ModuleConstantRead(u) THEN PathTexts(u) \/ OsTexts(u)
      ELSE BuiltinStringName(u) \/ Through(u, BuiltinString)

DefaultMaxListenersRead(u) ==
  /\ u.k = "get" /\ u.name = "defaultMaxListeners"
  /\ \/ u.x.k = "global" /\ u.x.name \in {"EventEmitter", "events"}
     \/ OnGlobal(u.x, "events") /\ u.x.name = "EventEmitter"

(* -------------------------------- events -------------------------------- *)

(* new C(...) that runs no user code, written here or bound by a const; the *)
(* code has one recogniser per class.                                      *)
DirectFresh(x, names) == LET u == Unwrap(x) IN NewOf(u, names) /\ PureNew(u)
FreshOf(x, names) ==
  LET u == Unwrap(x)
  IN  IF NewOf(u, names) THEN PureNew(u) ELSE Known(EarlierConst(u)) /\ FreshOf(EarlierConst(u), names)
FreshEvent(x) == FreshOf(x, {"Event"})
DirectFreshEvent(x) == DirectFresh(x, {"Event"})
FreshEventTarget(x) == FreshOf(x, {"EventTarget"})
DirectFreshEventTarget(x) == DirectFresh(x, {"EventTarget"})
FreshEventEmitter(x) == FreshOf(x, {"EventEmitter"})
DirectFreshEventEmitter(x) == DirectFresh(x, {"EventEmitter"})

(* A literal of boolean or undefined options, or a const of one.           *)
Flags(u, names) ==
  \A i \in DOMAIN u.ps : /\ u.ps[i].p = "prop" /\ u.ps[i].name \in names
                         /\ UndefinedValue(u.ps[i].x) \/ Known(BooleanLiteral(u.ps[i].x))
EventArgs(as) ==
  /\ Len(as) \in 1 .. 2 /\ StringCoercion(as[1])
  /\ \/ Len(as) = 1 \/ UndefinedValue(Arg(as, 2))
     \/ LET u == Unwrap(as[2])
            source == IF u.k = "obj" THEN u ELSE Unwrap(EarlierConst(u))
        IN  source.k = "obj" /\ Flags(source, {"cancelable"})

EventRead(u) ==
  u.k = "get" /\ u.name \in {"type", "target", "currentTarget", "defaultPrevented", "cancelable"} /\ FreshEvent(u.x)
PrimitiveEventRead(u) == EventRead(u) /\ u.name \notin {"target", "currentTarget"}
EventTypeRead(u) == EventRead(u) /\ u.name = "type"

(* The methods every object has; toString and its siblings.                *)
Texts == {"toString", "toLocaleString"}
OwnTests == {"hasOwnProperty", "propertyIsEnumerable"}
Inherited(m, as) ==
  \/ m \in Texts \union {"valueOf"} /\ IgnoredPure(as, 0)
  \/ m \in OwnTests /\ KeyThenIgnored(as)

EventMethodCall(recv, m, as) ==
  FreshEvent(recv) /\ (Inherited(m, as) \/ (m = "preventDefault" /\ DirectFreshEvent(recv) /\ IgnoredPure(as, 0)))
PrimitiveEventMethodCall(recv, m, as) == m # "valueOf" /\ EventMethodCall(recv, m, as)

EventListener(x) == LET u == Unwrap(x) IN u.k = "fn" \/ Through(u, EventListener)
ListenerOptions(x) ==
  LET u == Unwrap(x)
  IN  \/ UndefinedValue(u) \/ u.k = "bool"
      \/ IF u.k = "obj" THEN Flags(u, {"once", "capture", "passive"}) ELSE Through(u, ListenerOptions)

(* Dispatching to a target nobody else can have registered on.             *)
EventTargetMethodCall(recv, m, as) ==
  \/ m = "dispatchEvent" /\ DirectFreshEventTarget(recv) /\ Len(as) = 1 /\ DirectFreshEvent(as[1])
  \/ /\ m \in {"addEventListener", "removeEventListener"} /\ DirectFreshEventTarget(recv) /\ Len(as) \in 2 .. 3
     /\ StringCoercion(as[1]) /\ EventListener(as[2]) /\ (Len(as) = 2 \/ ListenerOptions(Arg(as, 3)))
  \/ Inherited(m, as) /\ FreshEventTarget(recv)
PrimitiveEventTargetMethodCall(recv, m, as) == m # "valueOf" /\ EventTargetMethodCall(recv, m, as)

Registrations == {"on", "addListener", "prependListener", "once", "prependOnceListener", "off", "removeListener"}
EventEmitterMethodCall(recv, m, as) ==
  /\ FreshEventEmitter(recv)
  /\ \/ Inherited(m, as)
     \/ m \in {"getMaxListeners", "eventNames"} /\ IgnoredPure(as, 0)
     \/ m \in {"listenerCount", "listeners", "rawListeners"} /\ Len(as) = 1 /\ StringCoercion(as[1])
     \/ /\ DirectFreshEventEmitter(recv)
        /\ \/ m = "setMaxListeners" /\ Len(as) = 1 /\ NumberCoercion(as[1])
           \/ m = "removeAllListeners" /\ Len(as) <= 1 /\ Strings(as, Len(as))
           \/ m \in Registrations /\ Len(as) = 2 /\ StringCoercion(as[1]) /\ EventListener(as[2])
           \/ /\ m = "emit" /\ as # <<>> /\ IgnoredPure(as, 1)
              /\ Known(StringText(as[1])) /\ StringText(as[1]) # Str("error")
PrimitiveEventEmitterMethodCall(recv, m, as) ==
  /\ m \in {"getMaxListeners", "listenerCount", "emit"} \union OwnTests \union Texts
  /\ EventEmitterMethodCall(recv, m, as)

OnceOptions(x) ==
  LET u == Unwrap(x)
  IN  \/ UndefinedValue(u)
      \/ IF u.k = "obj"
         THEN \A i \in DOMAIN u.ps : u.ps[i].p = "prop" /\ u.ps[i].name = "signal" /\ UndefinedValue(u.ps[i].x)
         ELSE Through(u, OnceOptions)

EventsStaticCall(m, as) ==
  CASE m = "listenerCount" -> Len(as) = 2 /\ FreshEventEmitter(as[1]) /\ StringCoercion(as[2])
    [] m = "getEventListeners" ->
         Len(as) >= 2 /\ FreshEventEmitter(as[1]) /\ StringCoercion(as[2]) /\ IgnoredPure(as, 2)
    [] m = "getMaxListeners" -> as # <<>> /\ FreshEventEmitter(as[1]) /\ IgnoredPure(as, 1)
    [] m = "setMaxListeners" -> Len(as) = 2 /\ NumberCoercion(as[1]) /\ DirectFreshEventEmitter(as[2])
    [] m = "once" -> /\ Len(as) \in 2 .. 3 /\ DirectFreshEventEmitter(as[1]) /\ StringCoercion(as[2])
                     /\ Len(as) = 2 \/ OnceOptions(Arg(as, 3))
    [] OTHER -> FALSE
PrimitiveEventsStaticCall(m, as) ==
  m \in {"listenerCount", "getMaxListeners", "setMaxListeners"} /\ EventsStaticCall(m, as)
EventEmitterStaticCall(recv, m, as) == IsGlobal(recv, "EventEmitter") /\ m = "listenerCount" /\ EventsStaticCall(m, as)

EventStringMethodCall(x) ==
  LET u == Unwrap(x)
      m == MethodName(u)
  IN  IF m = "" THEN Through(u, EventStringMethodCall)
      ELSE m \in Texts /\ (\/ EventMethodCall(u.f.x, m, u.as) \/ EventTargetMethodCall(u.f.x, m, u.as)
                           \/ EventEmitterMethodCall(u.f.x, m, u.as))

(* -------------------------------- errors -------------------------------- *)

AggregateErrorArgs(as) ==
  /\ as # <<>> /\ ArrayOperand(as[1]) /\ IgnoredPure(as, 3)
  /\ Len(as) < 2 \/ StringCoercion(as[2])
  /\ Len(as) < 3 \/ ErrorOptionsPure(as[3])

FreshError(x) == FreshOf(x, Errors)
ErrorMethodCall(recv, m, as) == m \in Texts /\ FreshError(recv) /\ IgnoredPure(as, 0)
ErrorRead(u) == u.k = "get" /\ u.name \in {"name", "message", "cause", "errors"} /\ FreshError(u.x)
ErrorStringRead(u) == ErrorRead(u) /\ u.name \in {"name", "message"}
ErrorStringMethodCall(x) ==
  LET u == Unwrap(x)
      m == MethodName(u)
  IN  IF m = "" THEN Through(u, ErrorStringMethodCall) ELSE m \in Texts /\ ErrorMethodCall(u.f.x, m, u.as)

(* x.key or Reflect.get(x, key): the receiver and the key, or No.          *)
Accessing(recv, key) == [k |-> "access", recv |-> recv, key |-> key]
DescriptorAccess(u) ==
  CASE u.k = "get" -> Accessing(u.x, u.name)
    [] OwnerCall(u, {"Reflect"}, {"get"}) ->
         IF Len(u.as) \in 2 .. 3 /\ (Len(u.as) = 2 \/ IsPure(u.as[3])) /\ Known(ReadKey(u.as[2]))
         THEN Accessing(u.as[1], ReadKey(u.as[2]).s) ELSE No
    [] OTHER -> No

(* The value of the descriptor of an error's name or message.              *)
ErrorDescriptorString(x) ==
  LET u == Unwrap(x)
      access == DescriptorAccess(u)
      d == Unwrap(access.recv)
      target == TargetOperand(d)
      key == ReadKey(d.as[2])
  IN CASE ~Known(access) -> Through(u, ErrorDescriptorString)
       [] access.key # "value" -> Through(u, ErrorDescriptorString)
       [] Known(target) -> ErrorDescriptorString(Get(target, "value"))
       [] ~GetDescriptor(d) -> FALSE
       [] key = Str("value") -> ErrorDescriptorString(Get(d.as[1], "value"))
       [] OTHER -> key \in {Str("name"), Str("message")} /\ FreshError(d.as[1])

DescriptorFlagNames == {"writable", "enumerable", "configurable"}
DescriptorFlagRead(x) ==       \* isSideEffectFreeDescriptorBooleanFlagRead
  LET u == Unwrap(x)
      access == DescriptorAccess(u)
      d == Unwrap(access.recv)
      target == TargetOperand(d)
      key == ReadKey(d.as[2])
  IN CASE ~Known(access) -> Through(u, DescriptorFlagRead)
       [] access.key \notin DescriptorFlagNames ->
            /\ access.key = "value" /\ GetDescriptor(d) /\ Known(key)
            /\ key.s \in DescriptorFlagNames /\ DescriptorFlagRead(Get(d.as[1], key.s))
       [] Known(target) -> DescriptorFlagRead(Get(target, access.key))
       [] OTHER -> Known(DescriptorObject(d))

===============================================================================
