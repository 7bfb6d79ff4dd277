--------------------------- MODULE StartOrderProofs ---------------------------
(***************************************************************************)
(* Proof that the walk of StartOrder orders every import graph, with cycles*)
(* of any shape and any list of entries: a module is placed after all that *)
(* it imports, except what depends on it.                                  *)
(***************************************************************************)
EXTENDS StartOrder, SequenceTheorems, TLAPS

\* Types, and the entries not walked from yet are the last ones.
OpenFrame == [m : Module, next : Nat \ {0}]
Started == Len(entries) - Len(roots)
Types ==
  /\ \A m \in Module : imports[m] \in Seq(Module)
  /\ entries \in Seq(Module) /\ roots \in Seq(Module) /\ Len(roots) <= Len(entries)
  /\ \A i \in 1..Len(roots) : roots[i] = entries[Started + i]
  /\ frames \in Seq(OpenFrame) /\ order \in Seq(Module)
  /\ visited \subseteq Module /\ active \subseteq Module

\* A module is in one frame, or in one place of the order, or in neither.
Places ==
  /\ active = {frames[k].m : k \in 1..Len(frames)}
  /\ \A k, l \in 1..Len(frames) : frames[k].m = frames[l].m => k = l
  /\ visited = {order[i] : i \in 1..Len(order)}
  /\ \A i, j \in 1..Len(order) : order[i] = order[j] => i = j
  /\ active \cap visited = {}

\* What depends on what, and what the entries depend on.
Needing == {e \in Module \X Module : e[2] \in Upstream({e[1]})}
Needed == Upstream(ToSet(entries))

\* The frames are a chain of imports.
Chain ==
  /\ \A k, l \in 1..Len(frames) : k <= l => <<frames[k].m, frames[l].m>> \in Needing
  /\ \A k \in 1..Len(frames) : k < Len(frames) =>
       /\ frames[k].next - 1 \in 1..Len(imports[frames[k].m])
       /\ imports[frames[k].m][frames[k].next - 1] = frames[k + 1].m

\* An import that an open module has got past is placed, or depends on the
\* module, or is the next frame.
Examined ==
  \A k \in 1..Len(frames) : \A j \in 1..Len(imports[frames[k].m]) : j < frames[k].next =>
    \/ imports[frames[k].m][j] \in visited
    \/ /\ imports[frames[k].m][j] \in active
       /\ <<imports[frames[k].m][j], frames[k].m>> \in Needing \/ (k < Len(frames) /\ j = frames[k].next - 1)

\* An import of a placed module is placed before it, or depends on it and has
\* been entered.
Earlier(d, i) == \E h \in 1..Len(order) : h < i /\ order[h] = d
Sorted ==
  \A i \in 1..Len(order) : \A d \in ToSet(imports[order[i]]) :
    Earlier(d, i) \/ (d \in visited \union active /\ <<d, order[i]>> \in Needing)

\* Only what the entries depend on is entered, and all entries walked from are.
Rooted ==
  /\ visited \union active \subseteq Needed
  /\ \A i \in 1..Started : entries[i] \in visited \union active
  /\ stage = "done" => frames = <<>> /\ roots = <<>>

IInv == Types /\ Places /\ Chain /\ Examined /\ Sorted /\ Rooted
-----------------------------------------------------------------------------
\* A module needs itself and all that is imported by what it needs; the
\* entries need themselves and as much.
LEMMA NeedingFacts ==
  ASSUME Types
  PROVE  /\ \A m \in Module : <<m, m>> \in Needing
         /\ \A x, y : <<x, y>> \in Needing => x \in Module /\ y \in Module
         /\ \A x, y : <<x, y>> \in Needing => \A d \in ToSet(imports[y]) : <<x, d>> \in Needing
         /\ \A i \in 1..Len(entries) : entries[i] \in Needed
         /\ Needed \subseteq Module
         /\ \A x \in Needed : ToSet(imports[x]) \subseteq Needed
<1>1. ASSUME NEW m \in Module PROVE ToSet(imports[m]) \subseteq Module
  <2>1. imports[m] \in Seq(Module) BY DEF Types
  <2> QED BY <2>1 DEF ToSet
<1>2. ASSUME NEW S, NEW x \in Upstream(S), NEW d \in ToSet(imports[x]) PROVE d \in Upstream(S)
  <2>1. x \in Module /\ d \in Module BY <1>1, <1>2 DEF Upstream
  <2>2. ASSUME NEW T \in SUBSET Module, S \subseteq T, Closed(T) PROVE d \in T
    <3>1. x \in T BY <1>2, <2>2 DEF Upstream
    <3> QED BY <1>2, <2>2, <3>1 DEF Closed
  <2> QED BY <2>1, <2>2 DEF Upstream
<1>3. \A S : Upstream(S) \subseteq Module BY DEF Upstream
<1>4. \A S \in SUBSET Module : S \subseteq Upstream(S) BY DEF Upstream
<1>5. \A i \in 1..Len(entries) : entries[i] \in Needed
  <2>1. entries \in Seq(Module) BY DEF Types
  <2>2. ToSet(entries) \subseteq Module /\ \A i \in 1..Len(entries) : entries[i] \in ToSet(entries)
    BY <2>1 DEF ToSet
  <2> QED BY <1>4, <2>2 DEF Needed
<1>6. Needed \subseteq Module /\ \A x \in Needed : ToSet(imports[x]) \subseteq Needed
  BY <1>2, <1>3 DEF Needed
<1>7. \A m \in Module : <<m, m>> \in Needing BY <1>4 DEF Needing
<1>8. \A x, y : <<x, y>> \in Needing => x \in Module /\ y \in Module BY DEF Needing
<1>9. ASSUME NEW x, NEW y, <<x, y>> \in Needing, NEW d \in ToSet(imports[y])
      PROVE  <<x, d>> \in Needing
  <2>1. x \in Module /\ y \in Upstream({x}) BY <1>9 DEF Needing
  <2>2. d \in Upstream({x}) BY <1>2, <2>1
  <2> QED BY <1>3, <2>1, <2>2 DEF Needing
<1> QED BY <1>5, <1>6, <1>7, <1>8, <1>9

\* The graph stands.
LEMMA GraphStands ==
  ASSUME imports' = imports, entries' = entries
  PROVE  Module' = Module /\ Needing' = Needing /\ Needed' = Needed
BY DEF Needing, Needed, Upstream, Closed, Module, ToSet

\* The import a frame is at, and the module of a frame.
LEMMA FrameTypes ==
  ASSUME Types
  PROVE  /\ Len(frames) \in Nat /\ Len(order) \in Nat /\ Len(entries) \in Nat /\ Len(roots) \in Nat
         /\ \A k \in 1..Len(frames) : /\ frames[k].m \in Module /\ frames[k].next \in Nat \ {0}
                                      /\ imports[frames[k].m] \in Seq(Module)
                                      /\ Len(imports[frames[k].m]) \in Nat
                                      /\ \A j \in 1..Len(imports[frames[k].m]) :
                                           /\ imports[frames[k].m][j] \in Module
                                           /\ imports[frames[k].m][j] \in ToSet(imports[frames[k].m])
<1>1. frames \in Seq(OpenFrame) /\ order \in Seq(Module)
      /\ entries \in Seq(Module) /\ roots \in Seq(Module)
  BY DEF Types
<1>2. Len(frames) \in Nat /\ Len(order) \in Nat /\ Len(entries) \in Nat /\ Len(roots) \in Nat BY <1>1
<1>3. ASSUME NEW k \in 1..Len(frames)
      PROVE  /\ frames[k].m \in Module /\ frames[k].next \in Nat \ {0}
             /\ imports[frames[k].m] \in Seq(Module) /\ Len(imports[frames[k].m]) \in Nat
             /\ \A j \in 1..Len(imports[frames[k].m]) :
                  /\ imports[frames[k].m][j] \in Module
                  /\ imports[frames[k].m][j] \in ToSet(imports[frames[k].m])
  <2>1. frames[k] \in OpenFrame BY <1>1
  <2>2. frames[k].m \in Module /\ frames[k].next \in Nat \ {0} BY <2>1 DEF OpenFrame
  <2>3. imports[frames[k].m] \in Seq(Module) BY <2>2 DEF Types
  <2> QED BY <2>2, <2>3 DEF ToSet
<1> QED BY <1>2, <1>3
-----------------------------------------------------------------------------
\* A sequence cut short.
LEMMA Shortened ==
  ASSUME NEW X, NEW s \in Seq(X), NEW n \in Nat, n <= Len(s)
  PROVE  /\ SubSeq(s, 1, n) \in Seq(X) /\ Len(SubSeq(s, 1, n)) = n
         /\ \A i \in 1..n : SubSeq(s, 1, n)[i] = s[i]
<1> DEFINE t == SubSeq(s, 1, n)
<1>1. \A i \in 1..n : s[i] \in X BY Len(s) \in Nat
<1>2. /\ t \in Seq(X) /\ Len(t) = IF 1 <= n THEN n - 1 + 1 ELSE 0
      /\ \A i \in 1..(n - 1 + 1) : t[i] = s[1 + i - 1]
  BY <1>1, SubSeqProperties
<1> HIDE DEF t
<1>3. t \in Seq(X) /\ Len(t) = n /\ \A i \in 1..n : t[i] = s[i] BY <1>2
<1> QED BY <1>3 DEF t

\* An import of the topmost module is looked at; one that was not entered yet
\* gets a frame.
Looked(n, d, pushed) ==
  /\ n = Len(frames) /\ n \in Nat \ {0} /\ frames[n].next \in 1..Len(imports[frames[n].m])
  /\ d = imports[frames[n].m][frames[n].next] /\ d \in Module
  /\ Len(frames') = n + (IF pushed THEN 1 ELSE 0)
  /\ \A k \in 1..Len(frames') : k < n => frames'[k] = frames[k]
  /\ frames'[n].m = frames[n].m /\ frames'[n].next = frames[n].next + 1
  /\ pushed => frames'[n + 1].m = d /\ frames'[n + 1].next = 1
  /\ pushed <=> d \notin visited \union active
  /\ active' = IF pushed THEN active \union {d} ELSE active
  /\ UNCHANGED <<imports, entries, stage, roots, visited, order>>

\* A step to the next import, written in that form.
LEMMA AdvanceForm ==
  ASSUME Types, Advance
  PROVE  /\ frames' \in Seq(OpenFrame)
         /\ \E d \in Module, pushed \in BOOLEAN : Looked(Len(frames), d, pushed)
<1> DEFINE n == Len(frames)
           t == frames[n]
           d == imports[t.m][t.next]
           u == [t EXCEPT !.next = @ + 1]
           stepped == Append(Below, u)
<1>1. frames \in Seq(OpenFrame) /\ frames # <<>> BY DEF Types, Advance, Walking
<1>2. n \in Nat \ {0} /\ n \in 1..n BY <1>1
<1>3. /\ t \in OpenFrame /\ t.m \in Module /\ t.next \in Nat \ {0}
      /\ t.next <= Len(imports[t.m]) /\ Len(imports[t.m]) \in Nat /\ t.next \in 1..Len(imports[t.m])
      /\ d \in Module
  <2>1. t \in OpenFrame BY <1>1, <1>2
  <2>2. t.next <= Len(imports[t.m]) BY DEF Advance, Top
  <2> QED BY <1>2, <2>1, <2>2, FrameTypes
<1>4. u \in OpenFrame /\ u.m = t.m /\ u.next = t.next + 1
  <2> HIDE DEF t
  <2> QED BY <1>3 DEF OpenFrame
<1>5. Frame(d) \in OpenFrame /\ Frame(d).m = d /\ Frame(d).next = 1 BY <1>3 DEF Frame, OpenFrame
<1>6. /\ Below \in Seq(OpenFrame) /\ Len(Below) = n - 1
      /\ \A k \in 1..(n - 1) : Below[k] = frames[k]
  <2>1. n - 1 \in Nat /\ n - 1 <= Len(frames) BY <1>2
  <2> QED BY <1>1, <2>1, Shortened DEF Below
<1>7. /\ stepped \in Seq(OpenFrame) /\ Len(stepped) = n /\ stepped[n] = u
      /\ \A k \in 1..n : k < n => stepped[k] = frames[k]
  <2>1. u \in OpenFrame BY <1>4
  <2> HIDE DEF u, n, t
  <2> QED BY <1>2, <1>6, <2>1
<1>8. /\ IF d \in visited \union active THEN frames' = stepped /\ UNCHANGED active
         ELSE frames' = Append(stepped, Frame(d)) /\ active' = active \union {d}
      /\ UNCHANGED <<imports, entries, stage, roots, visited, order>>
  BY DEF Advance, Top
<1> HIDE DEF stepped, u, d, t, n
<1>9. CASE d \in visited \union active
  <2>1. frames' = stepped /\ active' = active BY <1>8, <1>9
  <2>2. Looked(n, d, FALSE)
    BY <1>2, <1>3, <1>4, <1>7, <1>8, <1>9, <2>1 DEF Looked, n, t, d
  <2> QED BY <1>3, <1>7, <2>1, <2>2 DEF n
<1>10. CASE d \notin visited \union active
  <2>1. frames' = Append(stepped, Frame(d)) /\ active' = active \union {d} BY <1>8, <1>10
  <2>2. /\ frames' \in Seq(OpenFrame) /\ Len(frames') = n + 1 /\ frames'[n + 1] = Frame(d)
        /\ \A k \in 1..n : frames'[k] = stepped[k]
    BY <1>2, <1>5, <1>7, <2>1
  <2>3. /\ frames'[n].m = t.m /\ frames'[n].next = t.next + 1
        /\ \A k \in 1..(n + 1) : k < n => frames'[k] = frames[k]
    BY <1>2, <1>4, <1>7, <2>2
  <2>4. Looked(n, d, TRUE)
    BY <1>2, <1>3, <1>5, <1>8, <1>10, <2>1, <2>2, <2>3 DEF Looked, n, t, d
  <2> QED BY <1>3, <2>2, <2>4 DEF n
<1> QED BY <1>9, <1>10

\* The topmost module is placed.
Placed(n, m) ==
  /\ n = Len(frames) /\ n \in Nat \ {0} /\ m = frames[n].m /\ m \in Module
  /\ frames[n].next > Len(imports[m])
  /\ Len(frames') = n - 1 /\ \A k \in 1..(n - 1) : frames'[k] = frames[k]
  /\ active' = active \ {m} /\ visited' = visited \union {m}
  /\ Len(order') = Len(order) + 1 /\ order'[Len(order) + 1] = m
  /\ \A i \in 1..Len(order) : order'[i] = order[i]
  /\ UNCHANGED <<imports, entries, stage, roots>>

\* A step out of a module, written in that form.
LEMMA LeaveForm ==
  ASSUME Types, Leave
  PROVE  /\ frames' \in Seq(OpenFrame) /\ order' \in Seq(Module)
         /\ \E m \in Module : Placed(Len(frames), m)
<1> DEFINE n == Len(frames)
<1>1. frames \in Seq(OpenFrame) /\ frames # <<>> /\ order \in Seq(Module) BY DEF Types, Leave, Walking
<1>2. n \in Nat \ {0} /\ n \in 1..n BY <1>1
<1>3. frames[n].m \in Module BY <1>2, FrameTypes
<1>4. /\ frames' \in Seq(OpenFrame) /\ Len(frames') = n - 1
      /\ \A k \in 1..(n - 1) : frames'[k] = frames[k]
  <2>1. n - 1 \in Nat /\ n - 1 <= Len(frames) BY <1>2
  <2> QED BY <1>1, <2>1, Shortened DEF Leave, Below
<1>5. order' = Append(order, frames[n].m) BY DEF Leave, Top
<1>6. /\ order' \in Seq(Module) /\ Len(order') = Len(order) + 1 /\ order'[Len(order) + 1] = frames[n].m
      /\ \A i \in 1..Len(order) : order'[i] = order[i]
  BY <1>1, <1>3, <1>5
<1>7. /\ frames[n].next > Len(imports[frames[n].m]) /\ active' = active \ {frames[n].m}
      /\ visited' = visited \union {frames[n].m} /\ UNCHANGED <<imports, entries, stage, roots>>
  BY DEF Leave, Top
<1>8. Placed(n, frames[n].m) BY <1>2, <1>3, <1>4, <1>6, <1>7 DEF Placed
<1> QED BY <1>3, <1>4, <1>6, <1>8

\* The walk turns to the next entry m.
Turned(m, opened) ==
  /\ frames = <<>> /\ m \in Module /\ Started \in Nat /\ Started < Len(entries) /\ m = entries[Started + 1]
  /\ roots' \in Seq(Module) /\ Len(roots') = Len(roots) - 1
  /\ \A i \in 1..Len(roots') : roots'[i] = entries[Started + 1 + i]
  /\ IF opened THEN frames' = <<Frame(m)>> /\ active' = {m} /\ m \notin visited
     ELSE /\ UNCHANGED <<frames, active>>
          /\ m \in visited \/ \E i \in 1..Started : entries[i] = m
  /\ stage' \in {"order", "error"} /\ UNCHANGED <<imports, entries, visited, order>>

\* A step into an entry, written in that form.
LEMMA EnterForm ==
  ASSUME Types, EnterRoot
  PROVE  \E m \in Module, opened \in BOOLEAN : Turned(m, opened)
<1> DEFINE m == Head(roots)
           earlier == ToSet(SubSeq(entries, 1, Started))
<1>1. /\ roots \in Seq(Module) /\ roots # <<>> /\ entries \in Seq(Module) /\ Len(roots) <= Len(entries)
      /\ \A i \in 1..Len(roots) : roots[i] = entries[Started + i]
      /\ Len(roots) \in Nat /\ Len(entries) \in Nat
  BY DEF Types, EnterRoot
<1>2. /\ Len(roots) \in Nat \ {0} /\ Started \in Nat /\ Started < Len(entries) /\ m = entries[Started + 1]
      /\ m \in Module
  BY <1>1 DEF Started
<1>3. /\ roots' \in Seq(Module) /\ Len(roots') = Len(roots) - 1
      /\ \A i \in 1..Len(roots') : roots'[i] = roots[i + 1]
  BY <1>1 DEF EnterRoot
<1>4. \A i \in 1..Len(roots') : roots'[i] = entries[Started + 1 + i]
  <2>1. ASSUME NEW i \in 1..Len(roots') PROVE roots'[i] = entries[Started + 1 + i]
    <3>1. i + 1 \in 1..Len(roots) BY <1>2, <1>3
    <3>2. Started + (i + 1) = Started + 1 + i BY <1>2
    <3> QED BY <1>1, <1>3, <3>1, <3>2
  <2> QED BY <2>1
<1>5. ASSUME m \in earlier PROVE \E i \in 1..Started : entries[i] = m
  <2>1. /\ SubSeq(entries, 1, Started) \in Seq(Module) /\ Len(SubSeq(entries, 1, Started)) = Started
        /\ \A i \in 1..Started : SubSeq(entries, 1, Started)[i] = entries[i]
    BY <1>1, <1>2, Shortened
  <2> QED BY <1>5, <2>1 DEF ToSet
<1>6. /\ frames = <<>> /\ stage' \in {"order", "error"} /\ UNCHANGED <<imports, entries, visited, order>>
      /\ IF m \in visited \union earlier THEN UNCHANGED <<frames, active>>
         ELSE frames' = <<Frame(m)>> /\ active' = {m}
  BY DEF EnterRoot, Started
<1> HIDE DEF m, earlier
<1>7. CASE m \in visited \union earlier
  <2>1. Turned(m, FALSE) BY <1>2, <1>3, <1>4, <1>5, <1>6, <1>7 DEF Turned
  <2> QED BY <1>2, <2>1
<1>8. CASE m \notin visited \union earlier
  <2>1. Turned(m, TRUE) BY <1>2, <1>3, <1>4, <1>6, <1>8 DEF Turned
  <2> QED BY <1>2, <2>1
<1> QED BY <1>7, <1>8
-----------------------------------------------------------------------------
\* From the next entry: the frames were empty, and one is opened unless the
\* entry is placed.
LEMMA EnterKeeps ==
  ASSUME IInv, EnterRoot
  PROVE  IInv'
<1>0. Types /\ Places /\ Chain /\ Examined /\ Sorted /\ Rooted BY DEF IInv
<1>1. PICK m \in Module, opened \in BOOLEAN : Turned(m, opened) BY <1>0, EnterForm
<1>2. /\ Module' = Module /\ Needing' = Needing /\ Needed' = Needed /\ imports' = imports
      /\ entries' = entries /\ visited' = visited /\ order' = order /\ frames = <<>> /\ m \in Module
  BY <1>1, GraphStands DEF Turned
<1>3. Len(roots) \in Nat /\ Len(entries) \in Nat /\ Started \in Nat /\ Started' = Started + 1
      /\ Len(roots') = Len(roots) - 1 /\ m = entries[Started + 1] /\ Started + 1 \in 1..Len(entries)
  BY <1>0, <1>1, FrameTypes DEF Turned, Started
<1>4. Len(frames) = 0 /\ active = {} BY <1>0, <1>2 DEF Places
<1>5. IF opened THEN /\ Len(frames') = 1 /\ frames'[1].m = m /\ frames'[1].next = 1
                     /\ frames' = <<Frame(m)>> /\ active' = {m} /\ m \notin visited
      ELSE /\ frames' = <<>> /\ Len(frames') = 0 /\ active' = {}
           /\ m \in visited \/ \E i \in 1..Started : entries[i] = m
  BY <1>1, <1>2, <1>4 DEF Turned, Frame
<1>6. Types'
  <2>1. Frame(m) \in OpenFrame BY <1>2 DEF Frame, OpenFrame
  <2>2. frames' \in Seq(OpenFrame) /\ active' \subseteq Module
    <3>1. CASE opened
      <4>1. frames' = <<Frame(m)>> /\ active' = {m} BY <1>5, <3>1
      <4> QED BY <1>2, <2>1, <4>1
    <3>2. CASE ~opened
      <4>1. frames' = <<>> /\ active' = {} BY <1>5, <3>2
      <4> QED BY <4>1
    <3> QED BY <3>1, <3>2
  <2>3. OpenFrame' = OpenFrame BY <1>2 DEF OpenFrame
  <2>4. /\ roots' \in Seq(Module) /\ Len(roots') <= Len(entries)
        /\ \A i \in 1..Len(roots') : roots'[i] = entries'[Started' + i]
    <3>1. \A i \in 1..Len(roots') : roots'[i] = entries[Started + 1 + i] BY <1>1 DEF Turned
    <3> QED BY <1>0, <1>1, <1>2, <1>3, <3>1 DEF Turned, Types
  <2> QED BY <1>0, <1>2, <2>2, <2>3, <2>4 DEF Types
<1>7. Places' BY <1>0, <1>2, <1>4, <1>5 DEF Places
<1>8. Chain'
  <2>1. <<m, m>> \in Needing BY <1>0, <1>2, NeedingFacts
  <2> QED BY <1>2, <1>5, <2>1 DEF Chain
<1>9. Examined' BY <1>5 DEF Examined
<1>10. Sorted' BY <1>0, <1>2, <1>4, <1>5 DEF Sorted, Earlier
<1>11. Rooted'
  <2>1. m \in Needed BY <1>0, <1>3, NeedingFacts
  <2>2. \A i \in 1..Started : entries[i] \in visited \union active BY <1>0 DEF Rooted
  <2>3. m \in visited' \union active' BY <1>2, <1>4, <1>5, <2>2
  <2>4. \A i \in 1..Started' : entries'[i] \in visited' \union active'
    <3>1. ASSUME NEW i \in 1..Started' PROVE entries[i] \in visited' \union active'
      <4>1. i \in 1..Started \/ i = Started + 1 BY <1>3
      <4> QED BY <1>2, <1>3, <1>4, <2>2, <2>3, <4>1
    <3> QED BY <1>2, <3>1
  <2>5. stage' # "done" BY <1>1 DEF Turned
  <2>6. visited' \union active' \subseteq Needed BY <1>0, <1>2, <1>5, <2>1 DEF Rooted
  <2> QED BY <1>2, <2>4, <2>5, <2>6 DEF Rooted
<1> QED BY <1>6, <1>7, <1>8, <1>9, <1>10, <1>11 DEF IInv

\* Past an import that is placed or open, or into one that is neither.
LEMMA AdvanceKeeps ==
  ASSUME IInv, Advance
  PROVE  IInv'
<1>0. Types /\ Places /\ Chain /\ Examined /\ Sorted /\ Rooted BY DEF IInv
<1> DEFINE n == Len(frames)
<1>1. frames' \in Seq(OpenFrame) BY <1>0, AdvanceForm
<1>2. PICK d \in Module, pushed \in BOOLEAN : Looked(n, d, pushed) BY <1>0, AdvanceForm
<1>3. /\ Module' = Module /\ Needing' = Needing /\ Needed' = Needed /\ imports' = imports
      /\ entries' = entries /\ visited' = visited /\ order' = order /\ roots' = roots /\ stage' = stage
  BY <1>2, GraphStands DEF Looked
<1> DEFINE t == frames[n].m
           x == frames[n].next
<1>4. /\ n \in Nat \ {0} /\ x \in 1..Len(imports[t]) /\ d = imports[t][x] /\ d \in Module /\ t \in Module
      /\ d \in ToSet(imports[t]) /\ Len(imports[t]) \in Nat /\ x \in Nat \ {0}
  BY <1>0, <1>2, FrameTypes DEF Looked
<1>5. /\ Len(frames') = n + (IF pushed THEN 1 ELSE 0)
      /\ \A k \in 1..Len(frames') : k < n => frames'[k] = frames[k]
      /\ frames'[n].m = t /\ frames'[n].next = x + 1
      /\ pushed => frames'[n + 1].m = d /\ frames'[n + 1].next = 1
      /\ pushed <=> d \notin visited \union active
      /\ active' = IF pushed THEN active \union {d} ELSE active
  BY <1>2 DEF Looked
<1>6. /\ active = {frames[k].m : k \in 1..n} /\ active \cap visited = {}
      /\ \A k, l \in 1..n : frames[k].m = frames[l].m => k = l
      /\ \A k, l \in 1..n : k <= l => <<frames[k].m, frames[l].m>> \in Needing
      /\ \A k \in 1..n : frames[k].m \in Module
  BY <1>0, FrameTypes DEF Places, Chain
<1>7. \A k \in 1..Len(frames') : frames'[k].m = IF k <= n THEN frames[k].m ELSE d
  <2>1. ASSUME NEW k \in 1..Len(frames') PROVE frames'[k].m = IF k <= n THEN frames[k].m ELSE d
    <3>1. CASE k < n BY <1>5, <3>1
    <3>2. CASE k = n BY <1>5, <3>2
    <3>3. CASE k > n
      <4>1. k = n + 1 /\ pushed BY <1>4, <1>5, <3>3
      <4> QED BY <1>4, <1>5, <4>1
    <3> QED BY <1>4, <3>1, <3>2, <3>3
  <2> QED BY <2>1
<1> HIDE DEF n, t, x
<1>8. Types'
  <2>1. OpenFrame' = OpenFrame BY <1>3 DEF OpenFrame
  <2>2. active' \subseteq Module BY <1>0, <1>4, <1>5 DEF Types
  <2>3. Started' = Started BY <1>3 DEF Started
  <2> QED BY <1>0, <1>1, <1>3, <2>1, <2>2, <2>3 DEF Types
<1>9. Places'
  <2>1. active' = {frames'[k].m : k \in 1..Len(frames')}
    <3>1. CASE pushed
      <4>1. Len(frames') = n + 1 BY <1>5, <3>1
      <4>2. 1..Len(frames') = 1..n \union {n + 1} BY <1>4, <4>1
      <4>3. \A k \in 1..n : frames'[k].m = frames[k].m BY <1>4, <1>7, <4>1
      <4>4. frames'[n + 1].m = d BY <1>5, <3>1
      <4>5. active' = active \union {d} BY <1>5, <3>1
      <4> QED BY <1>6, <4>2, <4>3, <4>4, <4>5
    <3>2. CASE ~pushed
      <4>1. Len(frames') = n BY <1>4, <1>5, <3>2
      <4>2. \A k \in 1..n : frames'[k].m = frames[k].m BY <1>4, <1>7, <4>1
      <4> QED BY <1>5, <1>6, <3>2, <4>1, <4>2
    <3> QED BY <3>1, <3>2
  <2>2. ASSUME NEW k \in 1..Len(frames'), NEW l \in 1..Len(frames'), frames'[k].m = frames'[l].m
        PROVE  k = l
    <3>1. (k \in 1..n \/ (pushed /\ k = n + 1)) /\ (l \in 1..n \/ (pushed /\ l = n + 1))
      BY <1>4, <1>5
    <3>2. pushed => \A j \in 1..n : frames[j].m # d BY <1>5, <1>6
    <3> QED BY <1>4, <1>6, <1>7, <2>2, <3>1, <3>2
  <2>3. active' \cap visited' = {} BY <1>3, <1>5, <1>6
  <2>4. /\ visited' = {order'[i] : i \in 1..Len(order')}
        /\ \A i, j \in 1..Len(order') : order'[i] = order'[j] => i = j
    BY <1>0, <1>3 DEF Places
  <2> QED BY <2>1, <2>2, <2>3, <2>4 DEF Places
<1>10. \A k \in 1..n : <<frames[k].m, t>> \in Needing /\ <<frames[k].m, d>> \in Needing
  <2>1. ASSUME NEW k \in 1..n PROVE <<frames[k].m, t>> \in Needing /\ <<frames[k].m, d>> \in Needing
    <3>1. <<frames[k].m, t>> \in Needing BY <1>4, <1>6 DEF t
    <3> QED BY <1>0, <1>4, <3>1, NeedingFacts
  <2> QED BY <2>1
<1>11. Chain'
  <2>1. ASSUME NEW k \in 1..Len(frames'), NEW l \in 1..Len(frames'), k <= l
        PROVE  <<frames'[k].m, frames'[l].m>> \in Needing
    <3>1. CASE l <= n BY <1>4, <1>6, <1>7, <2>1, <3>1
    <3>2. CASE l > n /\ k <= n
      <4>1. frames'[l].m = d /\ frames'[k].m = frames[k].m /\ k \in 1..n BY <1>4, <1>7, <3>2
      <4> QED BY <1>10, <4>1
    <3>3. CASE k > n
      <4>1. l > n BY <1>4, <2>1, <3>3
      <4>2. frames'[l].m = d /\ frames'[k].m = d BY <1>4, <1>7, <3>3, <4>1
      <4>3. <<d, d>> \in Needing BY <1>0, <1>4, NeedingFacts
      <4> QED BY <4>2, <4>3
    <3> QED BY <1>4, <3>1, <3>2, <3>3
  <2>2. ASSUME NEW k \in 1..Len(frames'), k < Len(frames')
        PROVE  /\ frames'[k].next - 1 \in 1..Len(imports[frames'[k].m])
               /\ imports[frames'[k].m][frames'[k].next - 1] = frames'[k + 1].m
    <3>1. CASE k < n
      <4>1. k \in 1..Len(frames) /\ k < Len(frames) /\ k + 1 \in 1..Len(frames') /\ k + 1 <= n
            /\ k + 1 \in 1..n
        BY <1>4, <2>2, <3>1 DEF n
      <4>2. frames'[k] = frames[k] /\ frames'[k + 1].m = frames[k + 1].m BY <1>5, <1>7, <3>1, <4>1
      <4> QED BY <1>0, <4>1, <4>2 DEF Chain
    <3>2. CASE k >= n
      <4>1. k = n /\ pushed BY <1>4, <1>5, <2>2, <3>2
      <4>2. frames'[k].m = t /\ frames'[k].next = x + 1 /\ frames'[k + 1].m = d BY <1>5, <4>1
      <4>3. x + 1 - 1 = x BY <1>4
      <4> QED BY <1>4, <4>2, <4>3
    <3> QED BY <1>4, <3>1, <3>2
  <2> QED BY <1>3, <2>1, <2>2 DEF Chain
<1>12. Examined'
  <2>1. ASSUME NEW k \in 1..Len(frames'), NEW j \in 1..Len(imports[frames'[k].m]), j < frames'[k].next
        PROVE  \/ imports[frames'[k].m][j] \in visited
               \/ /\ imports[frames'[k].m][j] \in active'
                  /\ \/ <<imports[frames'[k].m][j], frames'[k].m>> \in Needing
                     \/ k < Len(frames') /\ j = frames'[k].next - 1
    <3>1. CASE k < n
      <4>1. k \in 1..Len(frames) /\ k < Len(frames) /\ k < Len(frames') /\ frames'[k] = frames[k]
        BY <1>4, <1>5, <2>1, <3>1 DEF n
      <4> QED BY <1>0, <1>5, <2>1, <4>1 DEF Examined
    <3>2. CASE k = n
      <4>1. frames'[k].m = t /\ frames'[k].next = x + 1 BY <1>5, <3>2
      <4>2. CASE j = x
        <5>1. imports[t][j] = d BY <1>4, <4>2
        <5>2. CASE pushed
          <6>1. d \in active' /\ k < Len(frames') /\ j = frames'[k].next - 1
            BY <1>4, <1>5, <3>2, <4>1, <4>2, <5>2
          <6> QED BY <4>1, <5>1, <6>1
        <5>3. CASE d \in visited BY <4>1, <5>1, <5>3
        <5>4. CASE d \in active
          <6>1. PICK l \in 1..n : d = frames[l].m BY <1>6, <5>4
          <6>2. <<d, t>> \in Needing BY <1>10, <6>1
          <6>3. d \in active' BY <1>5, <5>4
          <6> QED BY <4>1, <5>1, <6>2, <6>3
        <5> QED BY <1>5, <5>2, <5>3, <5>4
      <4>3. CASE j # x
        <5>1. j < x /\ j \in 1..Len(imports[t]) BY <1>4, <2>1, <4>1, <4>3
        <5>2. n \in 1..Len(frames) /\ ~(n < Len(frames)) BY <1>4 DEF n
        <5>3. imports[t][j] \in visited \/ (imports[t][j] \in active /\ <<imports[t][j], t>> \in Needing)
          BY <1>0, <5>1, <5>2 DEF Examined, t, x
        <5> QED BY <1>5, <4>1, <5>3
      <4> QED BY <4>2, <4>3
    <3>3. CASE k > n
      <4>1. frames'[k].next = 1 BY <1>4, <1>5, <3>3
      <4> QED BY <2>1, <4>1
    <3> QED BY <1>4, <3>1, <3>2, <3>3
  <2> QED BY <1>3, <2>1 DEF Examined
<1>13. Sorted' BY <1>0, <1>3, <1>5 DEF Sorted, Earlier
<1>14. Rooted'
  <2>1. t \in Needed
    <3>1. n \in 1..n BY <1>4
    <3>2. t \in active BY <1>6, <3>1 DEF t
    <3> QED BY <1>0, <3>2 DEF Rooted
  <2>2. d \in Needed BY <1>0, <1>4, <2>1, NeedingFacts
  <2>3. visited' \union active' \subseteq Needed BY <1>0, <1>3, <1>5, <2>2 DEF Rooted
  <2>4. Started' = Started BY <1>3 DEF Started
  <2>5. \A i \in 1..Started : entries[i] \in visited' \union active' BY <1>0, <1>3, <1>5 DEF Rooted
  <2>6. stage' # "done" BY <1>3 DEF Advance, Walking
  <2> QED BY <1>3, <2>3, <2>4, <2>5, <2>6 DEF Rooted
<1> QED BY <1>8, <1>9, <1>11, <1>12, <1>13, <1>14 DEF IInv

\* The topmost module is placed: the module below it has got past it, and
\* what it imports is placed or needs it.
LEMMA LeaveKeeps ==
  ASSUME IInv, Leave
  PROVE  IInv'
<1>0. Types /\ Places /\ Chain /\ Examined /\ Sorted /\ Rooted BY DEF IInv
<1> DEFINE n == Len(frames)
           p == Len(order)
<1>1. frames' \in Seq(OpenFrame) /\ order' \in Seq(Module) BY <1>0, LeaveForm
<1>2. PICK m \in Module : Placed(n, m) BY <1>0, LeaveForm
<1>3. /\ Module' = Module /\ Needing' = Needing /\ Needed' = Needed /\ imports' = imports
      /\ entries' = entries /\ roots' = roots /\ stage' = stage
  BY <1>2, GraphStands DEF Placed
<1>4. /\ n \in Nat \ {0} /\ m = frames[n].m /\ frames[n].next > Len(imports[m]) /\ frames[n].next \in Nat
      /\ Len(imports[m]) \in Nat /\ p \in Nat
      /\ Len(frames') = n - 1 /\ \A k \in 1..(n - 1) : frames'[k] = frames[k]
      /\ active' = active \ {m} /\ visited' = visited \union {m}
      /\ Len(order') = p + 1 /\ order'[p + 1] = m /\ \A i \in 1..p : order'[i] = order[i]
  BY <1>0, <1>2, FrameTypes DEF Placed
<1>5. /\ active = {frames[k].m : k \in 1..n} /\ active \cap visited = {}
      /\ \A k, l \in 1..n : frames[k].m = frames[l].m => k = l
      /\ visited = {order[i] : i \in 1..p}
      /\ \A i, j \in 1..p : order[i] = order[j] => i = j
  BY <1>0 DEF Places
<1>6. m \in active /\ m \notin visited /\ n \in 1..n
  <2>1. n \in 1..n /\ frames[n].m = m BY <1>4
  <2> HIDE DEF n
  <2> QED BY <1>5, <2>1
<1> HIDE DEF n, p
<1>7. Types'
  <2>1. OpenFrame' = OpenFrame /\ Started' = Started BY <1>3 DEF OpenFrame, Started
  <2>2. active' \subseteq Module /\ visited' \subseteq Module BY <1>0, <1>2, <1>4 DEF Types
  <2> QED BY <1>0, <1>1, <1>3, <2>1, <2>2 DEF Types
<1>8. Places'
  <2>1. active' = {frames'[k].m : k \in 1..Len(frames')}
    <3>1. 1..n = 1..(n - 1) \union {n} /\ n \notin 1..(n - 1) BY <1>4
    <3>2. \A k \in 1..(n - 1) : frames[k].m # m BY <1>4, <1>5, <1>6
    <3> QED BY <1>4, <1>5, <3>1, <3>2
  <2>2. \A k, l \in 1..Len(frames') : frames'[k].m = frames'[l].m => k = l
    <3>1. \A k \in 1..Len(frames') : k \in 1..n /\ frames'[k] = frames[k] BY <1>4
    <3> QED BY <1>5, <3>1
  <2>3. visited' = {order'[i] : i \in 1..Len(order')}
    <3>1. 1..Len(order') = 1..p \union {p + 1} BY <1>4
    <3> QED BY <1>4, <1>5, <3>1
  <2>4. ASSUME NEW i \in 1..Len(order'), NEW j \in 1..Len(order'), order'[i] = order'[j]
        PROVE  i = j
    <3>1. (i \in 1..p \/ i = p + 1) /\ (j \in 1..p \/ j = p + 1) BY <1>4
    <3>2. \A k \in 1..p : order[k] # m BY <1>5, <1>6
    <3> QED BY <1>4, <1>5, <2>4, <3>1, <3>2
  <2>5. active' \cap visited' = {} BY <1>4, <1>5
  <2> QED BY <2>1, <2>2, <2>3, <2>4, <2>5 DEF Places
<1>9. \A k \in 1..Len(frames') : /\ k \in 1..n /\ k < n /\ frames'[k] = frames[k]
                                 /\ k \in 1..Len(frames) /\ k < Len(frames) /\ k + 1 \in 1..n
  BY <1>4 DEF n
<1>10. Chain'
  <2>1. \A k, l \in 1..Len(frames') : k <= l => <<frames'[k].m, frames'[l].m>> \in Needing
    BY <1>0, <1>9 DEF Chain
  <2>2. ASSUME NEW k \in 1..Len(frames'), k < Len(frames')
        PROVE  /\ frames'[k].next - 1 \in 1..Len(imports[frames'[k].m])
               /\ imports[frames'[k].m][frames'[k].next - 1] = frames'[k + 1].m
    <3>1. k + 1 \in 1..(n - 1) BY <1>4, <2>2
    <3>2. frames'[k] = frames[k] /\ frames'[k + 1] = frames[k + 1] BY <1>4, <1>9, <3>1
    <3> QED BY <1>0, <1>9, <3>2 DEF Chain
  <2> QED BY <1>3, <2>1, <2>2 DEF Chain
<1>11. Examined'
  <2>1. ASSUME NEW k \in 1..Len(frames'), NEW j \in 1..Len(imports[frames'[k].m]), j < frames'[k].next
        PROVE  \/ imports[frames'[k].m][j] \in visited'
               \/ /\ imports[frames'[k].m][j] \in active'
                  /\ \/ <<imports[frames'[k].m][j], frames'[k].m>> \in Needing
                     \/ k < Len(frames') /\ j = frames'[k].next - 1
    <3> DEFINE d == imports[frames'[k].m][j]
    <3>1. \/ d \in visited
          \/ /\ d \in active
             /\ <<d, frames[k].m>> \in Needing \/ (k < n /\ j = frames[k].next - 1)
      BY <1>0, <1>9, <2>1 DEF Examined, n
    <3>2. CASE d = m BY <1>4, <3>2
    <3>3. CASE d # m
      <4>1. d \in visited => d \in visited' BY <1>4
      <4>2. d \in active => d \in active' BY <1>4, <3>3
      <4>3. ASSUME j = frames[k].next - 1 PROVE k < Len(frames')
        <5>1. d = frames[k + 1].m BY <1>0, <1>9, <4>3 DEF Chain
        <5>2. k + 1 # n BY <1>4, <3>3, <5>1
        <5> QED BY <1>4, <1>9, <5>2
      <4> QED BY <1>9, <3>1, <4>1, <4>2, <4>3
    <3> QED BY <3>2, <3>3
  <2> QED BY <1>3, <2>1 DEF Examined
<1>12. Sorted'
  <2>1. ASSUME NEW i \in 1..Len(order'), NEW d \in ToSet(imports[order'[i]])
        PROVE  \/ \E h \in 1..Len(order') : h < i /\ order'[h] = d
               \/ d \in visited' \union active' /\ <<d, order'[i]>> \in Needing
    <3>1. visited \union active \subseteq visited' \union active' BY <1>4
    <3>2. CASE i \in 1..p
      <4>1. order'[i] = order[i] BY <1>4, <3>2
      <4>2. Earlier(d, i) \/ (d \in visited \union active /\ <<d, order[i]>> \in Needing)
        BY <1>0, <2>1, <3>2, <4>1 DEF Sorted, p
      <4>3. ASSUME Earlier(d, i) PROVE \E h \in 1..Len(order') : h < i /\ order'[h] = d
        <5>1. PICK h \in 1..p : h < i /\ order[h] = d BY <4>3 DEF Earlier, p
        <5>2. h \in 1..Len(order') /\ order'[h] = d BY <1>4, <5>1
        <5> QED BY <5>1, <5>2
      <4> QED BY <3>1, <4>1, <4>2, <4>3
    <3>3. CASE i = p + 1
      <4>1. order'[i] = m BY <1>4, <3>3
      <4>2. imports[m] \in Seq(Module) BY <1>0, <1>2 DEF Types
      <4>3. PICK j \in 1..Len(imports[m]) : imports[m][j] = d BY <2>1, <4>1, <4>2 DEF ToSet
      <4>4. j < frames[n].next /\ j \in 1..Len(imports[frames[n].m]) /\ n \in 1..Len(frames)
            /\ ~(n < Len(frames))
        BY <1>4, <1>6, <4>3 DEF n
      <4>5. d \in visited \/ (d \in active /\ <<d, m>> \in Needing)
        BY <1>0, <1>4, <4>3, <4>4 DEF Examined
      <4>6. ASSUME d \in visited PROVE \E h \in 1..Len(order') : h < i /\ order'[h] = d
        <5>1. PICK h \in 1..p : order[h] = d BY <1>5, <4>6
        <5>2. h \in 1..Len(order') /\ order'[h] = d /\ h < i BY <1>4, <3>3, <5>1
        <5> QED BY <5>2
      <4> QED BY <3>1, <4>1, <4>5, <4>6
    <3> QED BY <1>4, <3>2, <3>3
  <2> QED BY <1>3, <2>1 DEF Sorted, Earlier
<1>13. Rooted'
  <2>1. visited' \union active' = visited \union active BY <1>4, <1>6
  <2>2. Started' = Started BY <1>3 DEF Started
  <2>3. stage' # "done" BY <1>3 DEF Leave, Walking
  <2> QED BY <1>0, <1>3, <2>1, <2>2, <2>3 DEF Rooted
<1> QED BY <1>7, <1>8, <1>10, <1>11, <1>12, <1>13 DEF IInv

\* The end changes nothing else, and a stutter nothing at all.
LEMMA FinishKeeps ==
  ASSUME IInv, Finish \/ UNCHANGED vars
  PROVE  IInv'
<1>1. /\ imports' = imports /\ entries' = entries /\ roots' = roots /\ frames' = frames
      /\ visited' = visited /\ active' = active /\ order' = order
  BY DEF Finish, vars, walk
<1>2. Module' = Module /\ Needing' = Needing /\ Needed' = Needed BY <1>1, GraphStands
<1>3. OpenFrame' = OpenFrame /\ Started' = Started BY <1>1, <1>2 DEF OpenFrame, Started
<1>0. Types /\ Places /\ Chain BY DEF IInv
<1>4. Types' BY <1>0, <1>1, <1>2, <1>3 DEF Types
<1>5. Places' /\ Chain'
  <2>1. Places' BY <1>0, <1>1 DEF Places
  <2>2. Chain' BY <1>0, <1>1, <1>2 DEF Chain
  <2> QED BY <2>1, <2>2
<1>6. Examined' BY <1>1, <1>2 DEF IInv, Examined
<1>7. Sorted' BY <1>1, <1>2 DEF IInv, Sorted, Earlier
<1>8. Rooted'
  <2>1. stage' = "done" => frames = <<>> /\ roots = <<>> BY DEF IInv, Rooted, Finish, vars
  <2> QED BY <1>1, <1>2, <1>3, <2>1 DEF IInv, Rooted
<1> QED BY <1>4, <1>5, <1>6, <1>7, <1>8 DEF IInv

\* Before the walk nothing is entered, open or placed.
LEMMA InitHolds == Init => IInv
<1> SUFFICES ASSUME Init PROVE IInv OBVIOUS
<1>1. /\ \A m \in Module : imports[m] \in Seq(Module)
      /\ entries \in Seq(Module) /\ stage = "order" /\ Len(entries) \in Nat
      /\ roots = entries /\ frames = <<>> /\ visited = {} /\ active = {} /\ order = <<>>
  BY DEF Init
<1>2. Started = 0 /\ Len(frames) = 0 /\ Len(order) = 0 BY <1>1 DEF Started
<1>3. Types BY <1>1, <1>2 DEF Types
<1>4. Places BY <1>1, <1>2 DEF Places
<1>5. Chain /\ Examined /\ Sorted BY <1>2 DEF Chain, Examined, Sorted
<1>6. Rooted BY <1>1, <1>2 DEF Rooted
<1> QED BY <1>3, <1>4, <1>5, <1>6 DEF IInv

\* The six-part invariant of the walk, for any graph and any entries.
THEOREM OrderInvariant == Spec => []IInv
<1>1. IInv /\ [Next]_vars => IInv'
  BY EnterKeeps, AdvanceKeeps, LeaveKeeps, FinishKeeps DEF Next
<1> QED BY <1>1, InitHolds, PTL DEF Spec

\* At the end everything entered is placed.
LEMMA AllPlaced ==
  ASSUME IInv, stage = "done"
  PROVE  /\ active = {} /\ DOMAIN order = 1..Len(order) /\ visited = ToSet(order)
         /\ order \in Seq(Module) /\ Len(order) \in Nat
         /\ \A i, j \in DOMAIN order : order[i] = order[j] => i = j
<1>1. frames = <<>> /\ order \in Seq(Module) BY DEF IInv, Rooted, Types
<1>2. Len(frames) = 0 /\ DOMAIN order = 1..Len(order) /\ Len(order) \in Nat BY <1>1
<1>3. active = {} BY <1>2 DEF IInv, Places
<1>4. visited = ToSet(order) BY <1>2 DEF IInv, Places, ToSet
<1> QED BY <1>1, <1>2, <1>3, <1>4 DEF IInv, Places

\* buildModuleGraph places what a module imports or requires before it, unless
\* that needs the module in turn, whatever the graph's cycles and the entries.
THEOREM ImportsAreFirst == Spec => []ImportsStartFirst
<1>1. ASSUME IInv, stage = "done", NEW m \in ToSet(order), NEW d \in ToSet(imports[m])
      PROVE  StartsBefore(d, m)
  <2>1. /\ active = {} /\ DOMAIN order = 1..Len(order) /\ visited = ToSet(order)
        /\ \A i, j \in DOMAIN order : order[i] = order[j] => i = j
    BY <1>1, AllPlaced
  <2>2. PICK i \in 1..Len(order) : order[i] = m BY <1>1, <2>1 DEF ToSet
  <2>3. Rank(m) = i BY <2>1, <2>2 DEF Rank
  <2>4. Earlier(d, i) \/ (d \in visited \union active /\ <<d, m>> \in Needing)
    BY <1>1, <2>2 DEF IInv, Sorted
  <2>5. CASE Earlier(d, i)
    <3>1. PICK h \in 1..Len(order) : h < i /\ order[h] = d BY <2>5 DEF Earlier
    <3>2. Rank(d) = h BY <2>1, <3>1 DEF Rank
    <3>3. d \in ToSet(order) BY <2>1, <3>1 DEF ToSet
    <3> QED BY <2>3, <3>1, <3>2, <3>3 DEF StartsBefore
  <2>6. CASE d \in visited \union active /\ <<d, m>> \in Needing
    <3>1. d \in ToSet(order) BY <2>1, <2>6
    <3>2. m \in Upstream({d}) BY <2>6 DEF Needing
    <3> QED BY <3>1, <3>2 DEF StartsBefore
  <2> QED BY <2>4, <2>5, <2>6
<1>2. IInv => ImportsStartFirst BY <1>1 DEF ImportsStartFirst
<1> QED BY <1>2, OrderInvariant, PTL

\* The order is complete, has nothing that the entries do not need, and no
\* module twice.
THEOREM OrderIsExact == Spec => []StartsAreExact
<1>1. ASSUME IInv, stage = "done"
      PROVE  /\ ToSet(order) = Upstream(ToSet(entries))
             /\ \A i, j \in DOMAIN order : order[i] = order[j] => i = j
  <2>1. /\ active = {} /\ DOMAIN order = 1..Len(order) /\ visited = ToSet(order)
        /\ order \in Seq(Module)
        /\ \A i, j \in DOMAIN order : order[i] = order[j] => i = j
    BY <1>1, AllPlaced
  <2>2. visited \subseteq Needed BY <1>1 DEF IInv, Rooted
  <2>3. ToSet(entries) \subseteq visited
    <3>1. roots = <<>> /\ entries \in Seq(Module) BY <1>1 DEF IInv, Rooted, Types
    <3>2. Started = Len(entries) BY <3>1 DEF Started
    <3>3. \A i \in 1..Len(entries) : entries[i] \in visited BY <1>1, <2>1, <3>2 DEF IInv, Rooted
    <3> QED BY <3>1, <3>3 DEF ToSet
  <2>4. ASSUME NEW m \in visited, NEW d \in ToSet(imports[m]) PROVE d \in visited
    <3>1. PICK i \in 1..Len(order) : order[i] = m BY <2>1, <2>4 DEF ToSet
    <3>2. Earlier(d, i) \/ d \in visited BY <1>1, <2>1, <2>4, <3>1 DEF IInv, Sorted
    <3> QED BY <2>1, <3>2 DEF Earlier, ToSet
  <2>5. visited \in SUBSET Module /\ Closed(visited) BY <1>1, <2>4 DEF IInv, Types, Closed
  <2>6. Needed \subseteq visited BY <2>3, <2>5 DEF Needed, Upstream
  <2> QED BY <2>1, <2>2, <2>6 DEF Needed
<1>2. IInv => StartsAreExact BY <1>1 DEF StartsAreExact
<1> QED BY <1>2, OrderInvariant, PTL
=============================================================================
