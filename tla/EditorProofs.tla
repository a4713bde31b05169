---------------------------- MODULE EditorProofs ----------------------------
(***************************************************************************)
(* The graph editor, for every set of node types, every document and any   *)
(* number of steps: the graph on the canvas, its documents and the errors. *)
(* Every step is one of five kinds for the canvas (StepShape); versions    *)
(* tell which graph an answer of the server is about (Versions).           *)
(***************************************************************************)
EXTENDS Editor, FiniteSetTheorems, WellFoundedInduction, TLAPS

(* Arrays: finite, as their stamps are bounded.                            *)
IsArray(f) ==
  /\ f = [k \in DOMAIN f |-> f[k]] /\ DOMAIN f \subseteq Nat
  /\ \E m \in Nat : \A k \in DOMAIN f : k <= m

LEMMA FirstOf ==
  ASSUME NEW S \in SUBSET Nat, S # {}
  PROVE  First(S) \in S /\ \A j \in S : First(S) <= j
<1>1. PICK x \in S : \A y \in S : ~(<<y, x>> \in OpToRel(<, Nat))
  BY WFMin, NatLessThanWellFounded
<1>2. \A y \in S : ~(y < x)
  BY <1>1, Zenon DEF OpToRel
<1>3. \A y \in S : x <= y
  BY <1>2
<1> QED BY <1>3 DEF First

LEMMA LastOf ==
  ASSUME NEW S \in SUBSET Nat, S # {}, NEW m \in Nat, \A k \in S : k <= m
  PROVE  Last(S) \in S /\ \A j \in S : j <= Last(S)
<1> DEFINE U == {u \in Nat : \A k \in S : k <= u}
<1>1. U \in SUBSET Nat /\ m \in U
  OBVIOUS
<1>2. First(U) \in U /\ \A u \in U : First(U) <= u
  BY <1>1, FirstOf
<1>3. First(U) \in S
  <2> SUFFICES ASSUME First(U) \notin S PROVE FALSE
    OBVIOUS
  <2> DEFINE v == First(U)
  <2>1. v \in Nat /\ \A k \in S : k \in Nat /\ k <= v /\ k # v
    BY <1>2
  <2>2. \A u \in Nat : (\A k \in S : k <= u) => v <= u
    BY <1>2
  <2> HIDE DEF v, U
  <2>3. PICK k \in S : TRUE
    OBVIOUS
  <2>4. v - 1 \in Nat /\ \A i \in S : i <= v - 1
    BY <2>1, <2>3
  <2> QED BY <2>1, <2>2, <2>4
<1> QED BY <1>2, <1>3 DEF Last

LEMMA LastOfOne == ASSUME NEW k PROVE k <= k => Last({k}) = k /\ First({k}) = k
  BY DEF Last, First

(* A pushed element gets a stamp of its own.                               *)
Pushed(f, e, h, new) ==
  /\ DOMAIN h = DOMAIN f \cup {new} /\ h[new] = e
  /\ \A k \in DOMAIN f : k < new /\ k # new /\ h[k] = f[k]

LEMMA PushOf ==
  ASSUME NEW f, IsArray(f), NEW e
  PROVE  IsArray(Push(f, e)) /\ \E new \in Nat : Pushed(f, e, Push(f, e), new)
<1> DEFINE S == {0} \cup DOMAIN f
           new == Last(S) + 1
           h == [k \in DOMAIN f \cup {new} |-> IF k = new THEN e ELSE f[k]]
<1>1. PICK m \in Nat : \A k \in DOMAIN f : k <= m
  BY DEF IsArray
<1>2. S \in SUBSET Nat /\ S # {} /\ \A k \in S : k <= m
  BY <1>1 DEF IsArray
<1>3. Last(S) \in S /\ \A j \in S : j <= Last(S)
  BY <1>2, LastOf
<1>4. new \in Nat /\ \A k \in DOMAIN f : k \in Nat /\ k < new
  <2>1. Last(S) \in Nat
    BY <1>2, <1>3
  <2>2. \A k \in DOMAIN f : k \in Nat /\ k <= Last(S)
    BY <1>2, <1>3
  <2> HIDE DEF S
  <2> QED BY <2>1, <2>2
<1>5. Push(f, e) = h
  BY DEF Push
<1> HIDE DEF new
<1>6. DOMAIN h = DOMAIN f \cup {new} /\ h = [k \in DOMAIN h |-> h[k]]
  OBVIOUS
<1>7. Pushed(f, e, h, new)
  BY <1>4 DEF Pushed
<1> HIDE DEF h
<1>8. IsArray(h)
  <2>1. \A k \in DOMAIN h : k \in Nat /\ k <= new
    BY <1>4, <1>6
  <2> QED BY <1>4, <1>6, <2>1 DEF IsArray
<1> QED BY <1>4, <1>5, <1>7, <1>8

LEMMA OnlyOf ==
  ASSUME NEW f, IsArray(f), NEW S \in SUBSET DOMAIN f
  PROVE  /\ IsArray(Only(f, S)) /\ DOMAIN Only(f, S) = S
         /\ \A k \in S : Only(f, S)[k] = f[k]
  BY DEF IsArray, Only

LEMMA ArrayFinite == ASSUME NEW f, IsArray(f) PROVE IsFiniteSet(DOMAIN f)
  BY FS_BoundedSetOfNaturals DEF IsArray

(* Elements of an array have different indices.                            *)
LEMMA IndexOf ==
  ASSUME NEW f, IsArray(f), NEW j \in DOMAIN f, NEW k \in DOMAIN f,
         Index(j, DOMAIN f) = Index(k, DOMAIN f)
  PROVE  j = k
<1>1. DOMAIN f \subseteq Nat /\ IsFiniteSet(DOMAIN f)
  BY ArrayFinite DEF IsArray
<1>2. ASSUME NEW a \in DOMAIN f, NEW b \in DOMAIN f, a < b
      PROVE  Index(a, DOMAIN f) # Index(b, DOMAIN f)
  <2> DEFINE A == {i \in DOMAIN f : i < a}
             B == {i \in DOMAIN f : i < b}
  <2>1. B \in SUBSET DOMAIN f /\ A \in SUBSET B /\ a \in B /\ a \notin A
    BY <1>1, <1>2
  <2>2. IsFiniteSet(B)
    BY <1>1, <2>1, FS_Subset
  <2>3. Cardinality(A) # Cardinality(B)
    BY <2>1, <2>2, FS_Subset
  <2> QED BY <2>3 DEF Index
<1>3. j < k \/ k < j \/ j = k
  BY <1>1
<1> QED BY <1>2, <1>3

----------------------------------------------------------------------------
(* What a step does to the canvas: one of five things.                     *)
NodeKeys == {"id", "type", "config", "start", "selected"}
EdgeKeys == {"id", "source", "target", "priority", "condition", "selected"}
Arrays ==
  /\ IsArray(nodes) /\ \A k \in DOMAIN nodes : DOMAIN nodes[k] = NodeKeys
  /\ IsArray(edges) /\ \A k \in DOMAIN edges : DOMAIN edges[k] = EdgeKeys

SameNodes(ns, ms) ==
  /\ DOMAIN ms = DOMAIN ns
  /\ \A k \in DOMAIN ns : /\ ms[k].id = ns[k].id /\ ms[k].type = ns[k].type
                          /\ ms[k].start = ns[k].start /\ DOMAIN ms[k] = DOMAIN ns[k]
SameEdges(es, fs) ==
  /\ DOMAIN fs = DOMAIN es
  /\ \A k \in DOMAIN es : /\ fs[k].id = es[k].id /\ fs[k].source = es[k].source
                          /\ fs[k].target = es[k].target /\ DOMAIN fs[k] = DOMAIN es[k]

DropStep == \E type \in Types : nodes' = Push(nodes, Dropped(type)) /\ edges' = edges
ConnectStep ==
  \E source, target \in NodeIds(nodes) :
    /\ ~Connected(source, target)
    /\ nodes' = nodes /\ edges' = Push(edges, Drawn(source, target))
DeleteStep ==
  \E ids : \E T \in SUBSET DOMAIN edges :
    /\ nodes' = Only(nodes, {k \in DOMAIN nodes : nodes[k].id \notin ids})
    /\ edges' = Only(edges, T) /\ \A k \in T : ~Touches(edges[k], ids)
ImportStep ==
  \E g \in Imports : doImport(g) /\ nodes' = fromWire(g).nodes /\ edges' = fromWire(g).edges
KeepStep ==
  /\ SameNodes(nodes, nodes') /\ SameEdges(edges, edges')
  /\ nodes' = [k \in DOMAIN nodes' |-> nodes'[k]] /\ edges' = [k \in DOMAIN edges' |-> edges'[k]]

LEMMA KeepData == ASSUME Arrays, UNCHANGED data PROVE KeepStep
  BY DEF Arrays, IsArray, data, KeepStep, SameNodes, SameEdges

(* What clicks, keys and the selection box do.                             *)
Marking ==
  \E a, b, c, d :
    /\ Render(Mark(nodes, a, b), Mark(edges, c, d), selection, form)
    /\ Follows /\ UNCHANGED <<schemas, results, requests, idSeq>>

LEMMA SelectionMarks ==
  ASSUME ClearSelection \/ \E a, b : SelectOnCanvas(a, b)
  PROVE  Marking
<1>1. CASE ClearSelection
  BY <1>1 DEF ClearSelection, Marking
<1>2. ASSUME NEW a, NEW b, SelectOnCanvas(a, b) PROVE Marking
  BY <1>2 DEF SelectOnCanvas, Marking
<1> QED BY <1>1, <1>2

LEMMA MarkKeeps ==
  ASSUME Arrays, NEW a, NEW b, NEW c, NEW d
  PROVE  SameNodes(nodes, Mark(nodes, a, b)) /\ SameEdges(edges, Mark(edges, c, d))
  BY DEF Arrays, NodeKeys, EdgeKeys, Mark, SameNodes, SameEdges

LEMMA MarkIsFunction ==
  ASSUME NEW s, NEW a, NEW b
  PROVE  Mark(s, a, b) = [k \in DOMAIN Mark(s, a, b) |-> Mark(s, a, b)[k]]
  BY DEF Mark

LEMMA UpdateKeeps ==
  ASSUME Arrays, NEW id, NEW config, NEW patch
  PROVE  SameNodes(nodes, updateNodeData(id, config)) /\ SameEdges(edges, updateEdgeData(id, patch))
  BY DEF Arrays, NodeKeys, EdgeKeys, updateNodeData, updateEdgeData, SameNodes, SameEdges

LEMMA KeepRendered ==
  ASSUME Arrays, NEW ns, NEW es, NEW sel, NEW fm, Render(ns, es, sel, fm),
         SameNodes(nodes, ns), SameEdges(edges, es),
         ns = [k \in DOMAIN ns |-> ns[k]], es = [k \in DOMAIN es |-> es[k]]
  PROVE  KeepStep
  BY DEF Render, KeepStep

LEMMA SameAsBefore ==
  ASSUME Arrays
  PROVE  /\ SameNodes(nodes, nodes) /\ SameEdges(edges, edges)
         /\ nodes = [k \in DOMAIN nodes |-> nodes[k]] /\ edges = [k \in DOMAIN edges |-> edges[k]]
  BY DEF Arrays, IsArray, SameNodes, SameEdges

LEMMA DeleteShape == ASSUME Arrays, DeleteKey \/ doDeleteSelected PROVE DeleteStep
<1>1. CASE DeleteKey
  <2> DEFINE T == {k \in DOMAIN edges : edges[k].id \notin MarkedIds(edges)
                                       /\ ~Touches(edges[k], MarkedIds(nodes))}
  <2>1. /\ nodes' = Only(nodes, {k \in DOMAIN nodes : nodes[k].id \notin MarkedIds(nodes)})
        /\ edges' = Only(edges, T)
    BY <1>1 DEF DeleteKey, Render
  <2>2. T \in SUBSET DOMAIN edges /\ \A k \in T : ~Touches(edges[k], MarkedIds(nodes))
    OBVIOUS
  <2> HIDE DEF T
  <2> QED BY <2>1, <2>2 DEF DeleteStep
<1>2. CASE doDeleteSelected /\ selection.kind = "node"
  <2> DEFINE T == {k \in DOMAIN edges : ~Touches(edges[k], {selection.id})}
  <2>1. /\ nodes' = Only(nodes, {k \in DOMAIN nodes : nodes[k].id # selection.id})
        /\ edges' = Only(edges, T)
    BY <1>2 DEF doDeleteSelected, Render, removeSelection
  <2>2. nodes' = Only(nodes, {k \in DOMAIN nodes : nodes[k].id \notin {selection.id}})
    BY <2>1
  <2>3. T \in SUBSET DOMAIN edges /\ \A k \in T : ~Touches(edges[k], {selection.id})
    OBVIOUS
  <2> HIDE DEF T
  <2> QED BY <2>1, <2>2, <2>3 DEF DeleteStep
<1>3. CASE doDeleteSelected /\ selection.kind # "node"
  <2> DEFINE T == {k \in DOMAIN edges : edges[k].id # selection.id}
  <2>1. nodes' = nodes /\ edges' = Only(edges, T)
    BY <1>3 DEF doDeleteSelected, Render, removeSelection
  <2>2. nodes = Only(nodes, {k \in DOMAIN nodes : nodes[k].id \notin {}})
    BY DEF Arrays, IsArray, Only
  <2>3. \A k \in T : ~Touches(edges[k], {})
    BY DEF Touches
  <2> QED BY <2>1, <2>2, <2>3 DEF DeleteStep
<1> QED BY <1>1, <1>2, <1>3

LEMMA FocusKeeps ==
  ASSUME Arrays, NEW t, focusTarget(t)
  PROVE  KeepStep
<1>1. CASE FocusNode(t.id)
  <2> DEFINE ns == Mark(nodes, NodeIds(nodes), {t.id})
  <2>1. Render(ns, edges, NodeSelection(t.id), form)
    BY <1>1 DEF FocusNode
  <2>2. ns = [k \in DOMAIN ns |-> ns[k]] /\ SameNodes(nodes, ns)
    BY MarkIsFunction, MarkKeeps
  <2> HIDE DEF ns
  <2> QED BY <2>1, <2>2, SameAsBefore, KeepRendered
<1>2. CASE \E k \in DOMAIN edges : FocusEdge(k)
  BY <1>2, SameAsBefore, KeepRendered DEF FocusEdge
<1> QED BY <1>1, <1>2 DEF focusTarget

LEMMA FormKeeps == ASSUME Arrays, EditForm \/ EditEdge PROVE KeepStep
<1>1. \A id, config : updateNodeData(id, config)
        = [k \in DOMAIN updateNodeData(id, config) |-> updateNodeData(id, config)[k]]
  BY DEF updateNodeData
<1>2. \A id, patch : updateEdgeData(id, patch)
        = [k \in DOMAIN updateEdgeData(id, patch) |-> updateEdgeData(id, patch)[k]]
  BY DEF updateEdgeData
<1>3. ASSUME NEW f, NEW v, EditField(f, v) PROVE KeepStep
  BY <1>1, <1>3, SameAsBefore, UpdateKeeps, KeepRendered DEF EditField
<1>4. ASSUME NEW f, NEW text, TypeRawJson(f, text) PROVE KeepStep
  BY <1>4, KeepData DEF TypeRawJson
<1>5. ASSUME NEW f, BlurRawJson(f) PROVE KeepStep
  <2>1. CASE form.text[f] = Garbled
    BY <1>5, <2>1, SameAsBefore, KeepRendered DEF BlurRawJson
  <2>2. CASE form.text[f] # Garbled
    <3> DEFINE ns == updateNodeData(form.on, Set(ShownNode.config, f, form.text[f]))
    <3>1. Render(ns, edges, selection, Blurred(form, f))
      BY <1>5, <2>2 DEF BlurRawJson
    <3>2. ns = [k \in DOMAIN ns |-> ns[k]]
      BY <1>1
    <3>3. SameNodes(nodes, ns)
      BY UpdateKeeps
    <3> HIDE DEF ns
    <3> QED BY <3>1, <3>2, <3>3, SameAsBefore, KeepRendered
  <2> QED BY <2>1, <2>2
<1>6. ASSUME EditEdge PROVE KeepStep
  <2>1. PICK patch : Render(nodes, updateEdgeData(selection.id, patch), selection, form)
    BY <1>6 DEF EditEdge
  <2> DEFINE es == updateEdgeData(selection.id, patch)
  <2>2. es = [k \in DOMAIN es |-> es[k]]
    BY <1>2
  <2>3. SameEdges(edges, es)
    BY UpdateKeeps
  <2> HIDE DEF es
  <2> QED BY <2>1, <2>2, <2>3, SameAsBefore, KeepRendered DEF es
<1> QED BY <1>3, <1>4, <1>5, <1>6 DEF EditForm

LEMMA UserShape == ASSUME Arrays, UserStep PROVE DropStep \/ ConnectStep \/ DeleteStep \/ KeepStep
<1>1. ASSUME NEW type \in Types, onDropNode(type) PROVE DropStep
  BY <1>1 DEF onDropNode, Render, DropStep
<1>2. ASSUME NEW source \in NodeIds(nodes), NEW target \in NodeIds(nodes), onConnect(source, target)
      PROVE  ConnectStep
  BY <1>2 DEF onConnect, Render, ConnectStep
<1>3. ASSUME Marking PROVE KeepStep
  <2>1. PICK a, b, c, d : Render(Mark(nodes, a, b), Mark(edges, c, d), selection, form)
    BY <1>3 DEF Marking
  <2> DEFINE ns == Mark(nodes, a, b)
             es == Mark(edges, c, d)
  <2>2. /\ ns = [k \in DOMAIN ns |-> ns[k]] /\ es = [k \in DOMAIN es |-> es[k]]
        /\ SameNodes(nodes, ns) /\ SameEdges(edges, es)
    BY MarkIsFunction, MarkKeeps
  <2> HIDE DEF ns, es
  <2> QED BY <2>1, <2>2, KeepRendered DEF ns, es
<1>4. ASSUME doValidate PROVE KeepStep
  BY <1>4, KeepData DEF doValidate
<1> QED BY <1>1, <1>2, <1>3, <1>4, SelectionMarks, DeleteShape, FocusKeeps, FormKeeps
       DEF UserStep, ClickError

LEMMA StepShape ==
  ASSUME Arrays, [Next]_vars
  PROVE  DropStep \/ ConnectStep \/ DeleteStep \/ ImportStep \/ KeepStep
<1>1. ASSUME NEW g \in Imports, doImport(g) PROVE ImportStep
  BY <1>1 DEF doImport, Render, ImportStep
<1>2. CASE LoadSchemas \/ UNCHANGED vars
  BY <1>2, KeepData DEF LoadSchemas, vars
<1>3. ASSUME NEW r, ValidateAnswers(r) \/ ValidateFails(r) PROVE KeepStep
  BY <1>3, KeepData DEF ValidateAnswers, ValidateFails
<1> QED BY <1>1, <1>2, <1>3, UserShape, DeleteShape DEF Next

LEMMA ImportedArrays ==
  ASSUME NEW g \in Imports
  PROVE  LET c == fromWire(g)
         IN  /\ DOMAIN c.nodes = DOMAIN g.Nodes /\ DOMAIN c.edges = DOMAIN g.Edges
             /\ IsArray(c.nodes) /\ \A k \in DOMAIN c.nodes : DOMAIN c.nodes[k] = NodeKeys
             /\ IsArray(c.edges) /\ \A k \in DOMAIN c.edges : DOMAIN c.edges[k] = EdgeKeys
<1> DEFINE ns == fromWire(g).nodes
           es == fromWire(g).edges
<1>1. IsDocument(g)
  BY EditorAssumption DEF EditorAssumption
<1>2. /\ Len(g.Nodes) \in Nat /\ DOMAIN g.Nodes = 1..Len(g.Nodes)
      /\ Len(g.Edges) \in Nat /\ DOMAIN g.Edges = 1..Len(g.Edges)
  BY <1>1 DEF IsDocument
<1>3. DOMAIN ns = DOMAIN g.Nodes /\ ns = [k \in DOMAIN ns |-> ns[k]]
      /\ \A k \in DOMAIN ns : DOMAIN ns[k] = NodeKeys
  BY DEF fromWire, NodeKeys
<1>4. DOMAIN es = DOMAIN g.Edges /\ es = [k \in DOMAIN es |-> es[k]]
      /\ \A k \in DOMAIN es : DOMAIN es[k] = EdgeKeys
  BY DEF fromWire, EdgeKeys
<1> HIDE DEF ns, es
<1>5. IsArray(ns) /\ IsArray(es)
  BY <1>2, <1>3, <1>4 DEF IsArray
<1> QED BY <1>3, <1>4, <1>5 DEF ns, es

LEMMA ArraysInit == Init => Arrays
  BY DEF Init, Arrays, IsArray

LEMMA ArraysStep == ASSUME Arrays, [Next]_vars PROVE Arrays'
<1>1. CASE DropStep
  <2>1. PICK type \in Types : nodes' = Push(nodes, Dropped(type)) /\ edges' = edges
    BY <1>1 DEF DropStep
  <2>2. DOMAIN Dropped(type) = NodeKeys
    BY DEF Dropped, NodeKeys
  <2>3. IsArray(nodes') /\ \E new \in Nat : Pushed(nodes, Dropped(type), nodes', new)
    BY <2>1, PushOf DEF Arrays
  <2> QED BY <2>1, <2>2, <2>3 DEF Arrays, Pushed
<1>2. CASE ConnectStep
  <2>1. PICK source \in NodeIds(nodes), target \in NodeIds(nodes) :
          nodes' = nodes /\ edges' = Push(edges, Drawn(source, target))
    BY <1>2 DEF ConnectStep
  <2> DEFINE e == Drawn(source, target)
  <2>2. DOMAIN e = EdgeKeys
    BY DEF Drawn, EdgeKeys
  <2> HIDE DEF e
  <2>3. nodes' = nodes /\ edges' = Push(edges, e)
    BY <2>1 DEF e
  <2>4. IsArray(edges') /\ \E new \in Nat : Pushed(edges, e, edges', new)
    BY <2>3, PushOf DEF Arrays
  <2> QED BY <2>2, <2>3, <2>4 DEF Arrays, Pushed
<1>3. CASE DeleteStep
  <2>1. PICK ids : \E T \in SUBSET DOMAIN edges :
          /\ nodes' = Only(nodes, {k \in DOMAIN nodes : nodes[k].id \notin ids})
          /\ edges' = Only(edges, T)
    BY <1>3 DEF DeleteStep
  <2>2. PICK T \in SUBSET DOMAIN edges : edges' = Only(edges, T)
    BY <2>1
  <2>3. PICK S \in SUBSET DOMAIN nodes : nodes' = Only(nodes, S)
    BY <2>1
  <2> QED BY <2>2, <2>3, OnlyOf DEF Arrays
<1>4. CASE ImportStep
  BY <1>4, ImportedArrays DEF ImportStep, Arrays
<1>5. CASE KeepStep
  BY <1>5 DEF KeepStep, SameNodes, SameEdges, Arrays, IsArray
<1> QED BY <1>1, <1>2, <1>3, <1>4, <1>5, StepShape

LEMMA ArraysAlways == Spec => []Arrays
  BY ArraysInit, ArraysStep, PTL DEF Spec

----------------------------------------------------------------------------
(* One start: the first node is dropped on an empty canvas, and a document *)
(* has its nodes under different ids.                                      *)
(* At most one node is the start, after any sequence of steps: onDropNode  *)
(* makes a node the start on an empty canvas only, and fromWire the node   *)
(* that StartAt names.                                                     *)
THEOREM EditorOneStart == Spec => []OneStart
<1>1. Init => OneStart
  BY DEF Init, OneStart
<1>2. ASSUME Arrays, OneStart, [Next]_vars PROVE OneStart'
  <2>1. CASE DropStep
    <3>1. PICK type \in Types : nodes' = Push(nodes, Dropped(type))
      BY <2>1 DEF DropStep
    <3>2. PICK new \in Nat : Pushed(nodes, Dropped(type), nodes', new)
      BY <1>2, <3>1, PushOf DEF Arrays
    <3> DEFINE e == Dropped(type)
    <3>3. e.start => DOMAIN nodes = {}
      BY DEF Dropped
    <3> HIDE DEF e
    <3>4. Pushed(nodes, e, nodes', new)
      BY <3>2 DEF e
    <3>5. CASE DOMAIN nodes = {}
      BY <3>4, <3>5 DEF OneStart, Pushed
    <3>6. CASE DOMAIN nodes # {}
      <4>1. \A k \in DOMAIN nodes' : nodes'[k].start => k \in DOMAIN nodes /\ nodes[k].start
        BY <3>3, <3>4, <3>6 DEF Pushed
      <4> QED BY <1>2, <4>1 DEF OneStart
    <3> QED BY <3>5, <3>6
  <2>2. CASE ConnectStep
    BY <1>2, <2>2 DEF ConnectStep, OneStart
  <2>3. CASE DeleteStep
    BY <1>2, <2>3 DEF DeleteStep, Only, OneStart
  <2>4. CASE ImportStep
    <3>1. PICK g \in Imports : nodes' = fromWire(g).nodes
      BY <2>4 DEF ImportStep
    <3>2. \A j, k \in DOMAIN g.Nodes : g.Nodes[j].Id = g.Nodes[k].Id => j = k
      BY EditorAssumption DEF EditorAssumption, IsDocument
    <3>3. \A k \in DOMAIN nodes' :
            nodes'[k].start => k \in DOMAIN g.Nodes /\ g.Nodes[k].Id = g.StartAt
      BY <3>1 DEF fromWire
    <3> QED BY <3>2, <3>3 DEF OneStart
  <2>5. CASE KeepStep
    BY <1>2, <2>5 DEF KeepStep, SameNodes, OneStart
  <2> QED BY <1>2, <2>1, <2>2, <2>3, <2>4, <2>5, StepShape
<1> QED BY <1>1, <1>2, ArraysAlways, PTL DEF Spec

----------------------------------------------------------------------------
(* Ids of edges: an edge has the id of an import or the one that its ends  *)
(* give it.                                                                *)
EdgeNames ==
  \A k \in DOMAIN edges :
    \/ edges[k].id = DrawnEdgeId(edges[k].source, edges[k].target)
    \/ \E i \in Nat : edges[k].id = ImportedEdgeId(i, edges[k].source, edges[k].target)

LEMMA ImportedEdgeNames ==
  ASSUME NEW g \in Imports, edges' = fromWire(g).edges
  PROVE  EdgeNames' /\ EdgeIdsUnique'
<1> DEFINE at(k) == Index(k, DOMAIN g.Edges)
<1>1. /\ DOMAIN edges' = DOMAIN g.Edges
      /\ \A k \in DOMAIN g.Edges :
           /\ edges'[k].id = ImportedEdgeId(at(k), g.Edges[k].From, g.Edges[k].To)
           /\ edges'[k].source = g.Edges[k].From /\ edges'[k].target = g.Edges[k].To
  BY DEF fromWire
<1>2. IsArray(edges')
  BY ImportedArrays
<1>3. \A j, k \in DOMAIN g.Edges : at(j) = at(k) => j = k
  BY <1>1, <1>2, IndexOf
<1>4. \A k \in DOMAIN g.Edges : at(k) \in Nat
  <2> TAKE k \in DOMAIN g.Edges
  <2>1. IsFiniteSet(DOMAIN g.Edges)
    BY <1>1, <1>2, ArrayFinite
  <2>2. IsFiniteSet({j \in DOMAIN g.Edges : j < k})
    BY <2>1, FS_Subset
  <2> QED BY <2>2, FS_CardinalityType DEF Index
<1> HIDE DEF at
<1>5. EdgeNames'
  BY <1>1, <1>4 DEF EdgeNames
<1>6. EdgeIdsUnique'
  BY <1>1, <1>3 DEF EdgeIdsUnique, ImportedEdgeId
<1> QED BY <1>5, <1>6

(* No two edges have the same id: imported ones count, a drawn one names   *)
(* its ends, and addEdge refuses to connect the same two twice.            *)
THEOREM EditorEdgeIdsUnique == Spec => []EdgeIdsUnique
<1>1. Init => EdgeNames /\ EdgeIdsUnique
  BY DEF Init, EdgeNames, EdgeIdsUnique
<1>2. ASSUME Arrays, EdgeNames, EdgeIdsUnique, [Next]_vars PROVE EdgeNames' /\ EdgeIdsUnique'
  <2>1. CASE DropStep
    BY <1>2, <2>1 DEF DropStep, EdgeNames, EdgeIdsUnique
  <2>2. CASE ConnectStep
    <3>1. PICK source \in NodeIds(nodes), target \in NodeIds(nodes) :
            ~Connected(source, target) /\ edges' = Push(edges, Drawn(source, target))
      BY <2>2 DEF ConnectStep
    <3> DEFINE e == Drawn(source, target)
    <3>2. e.id = DrawnEdgeId(source, target) /\ e.source = source /\ e.target = target
      BY DEF Drawn
    <3> HIDE DEF e
    <3>3. edges' = Push(edges, e)
      BY <3>1 DEF e
    <3>7. PICK new \in Nat : Pushed(edges, e, edges', new)
      BY <1>2, <3>3, PushOf DEF Arrays
    <3>4. \A k \in DOMAIN edges : edges[k].id # e.id
      <4> TAKE k \in DOMAIN edges
      <4>1. edges[k].source # source \/ edges[k].target # target
        BY <3>1 DEF Connected
      <4>2. CASE edges[k].id = DrawnEdgeId(edges[k].source, edges[k].target)
        BY <3>2, <4>1, <4>2 DEF DrawnEdgeId
      <4>3. CASE \E i \in Nat : edges[k].id = ImportedEdgeId(i, edges[k].source, edges[k].target)
        BY <3>2, <4>3 DEF DrawnEdgeId, ImportedEdgeId
      <4> QED BY <1>2, <4>2, <4>3 DEF EdgeNames
    <3>5. EdgeNames'
      BY <1>2, <3>2, <3>7 DEF EdgeNames, Pushed
    <3>6. EdgeIdsUnique'
      BY <1>2, <3>4, <3>7 DEF EdgeIdsUnique, Pushed
    <3> QED BY <3>5, <3>6
  <2>3. CASE DeleteStep
    BY <1>2, <2>3 DEF DeleteStep, Only, EdgeNames, EdgeIdsUnique
  <2>4. CASE ImportStep
    BY <2>4, ImportedEdgeNames DEF ImportStep
  <2>5. CASE KeepStep
    BY <1>2, <2>5 DEF KeepStep, SameEdges, EdgeNames, EdgeIdsUnique
  <2> QED BY <1>2, <2>1, <2>2, <2>3, <2>4, <2>5, StepShape
<1> QED BY <1>1, <1>2, ArraysAlways, PTL DEF Spec

----------------------------------------------------------------------------
(* Only an import brings an edge that misses an end.                       *)
Missing(e, ns) == ~({e.source, e.target} \subseteq NodeIds(ns))

LEMMA DanglingShrinks ==
  ASSUME \A k \in DOMAIN edges' : Missing(edges'[k], nodes') =>
           /\ k \in DOMAIN edges /\ edges'[k].id = edges[k].id
           /\ Missing(edges[k], nodes)
  PROVE  Dangling(nodes', edges') \subseteq Dangling(nodes, edges)
<1> SUFFICES ASSUME NEW d \in Dangling(nodes', edges') PROVE d \in Dangling(nodes, edges)
  OBVIOUS
<1>1. PICK k \in DOMAIN edges' : Missing(edges'[k], nodes') /\ d = edges'[k].id
  BY DEF Dangling, Missing
<1> QED BY <1>1 DEF Dangling, Missing

(* Whichever way nodes go, only doImport can bring an edge that misses an  *)
(* end: removeSelection and the Delete key take the edges along.           *)
THEOREM EditorNoNewDangling == Spec => NoNewDangling
<1> DEFINE Shrinks == Dangling(nodes', edges') \subseteq Dangling(nodes, edges)
           A == Shrinks \/ \E g \in Imports : doImport(g)
<1>1. ASSUME Arrays, [Next]_vars PROVE A
  <2>1. ASSUME DropStep PROVE Shrinks
    <3>1. PICK type \in Types : nodes' = Push(nodes, Dropped(type)) /\ edges' = edges
      BY <2>1 DEF DropStep
    <3>2. PICK new \in Nat : Pushed(nodes, Dropped(type), nodes', new)
      BY <1>1, <3>1, PushOf DEF Arrays
    <3>3. NodeIds(nodes) \subseteq NodeIds(nodes')
      <4> SUFFICES ASSUME NEW k \in DOMAIN nodes PROVE nodes[k].id \in NodeIds(nodes')
        BY DEF NodeIds
      <4>1. k \in DOMAIN nodes' /\ nodes'[k] = nodes[k]
        BY <3>2 DEF Pushed
      <4> QED BY <4>1 DEF NodeIds
    <3>4. \A k \in DOMAIN edges' : Missing(edges'[k], nodes') => Missing(edges[k], nodes)
      BY <3>1, <3>3 DEF Missing
    <3> QED BY <3>1, <3>4, DanglingShrinks
  <2>2. ASSUME ConnectStep PROVE Shrinks
    <3>1. PICK source \in NodeIds(nodes), target \in NodeIds(nodes) :
            nodes' = nodes /\ edges' = Push(edges, Drawn(source, target))
      BY <2>2 DEF ConnectStep
    <3> DEFINE e == Drawn(source, target)
    <3>2. e.source = source /\ e.target = target
      BY DEF Drawn
    <3> HIDE DEF e
    <3>3. nodes' = nodes /\ edges' = Push(edges, e)
      BY <3>1 DEF e
    <3>4. PICK new \in Nat : Pushed(edges, e, edges', new)
      BY <1>1, <3>3, PushOf DEF Arrays
    <3>5. ~Missing(e, nodes)
      BY <3>2 DEF Missing
    <3>6. \A k \in DOMAIN edges' : k = new \/ (k \in DOMAIN edges /\ edges'[k] = edges[k])
      BY <3>4 DEF Pushed
    <3> QED BY <3>3, <3>4, <3>5, <3>6, DanglingShrinks DEF Pushed
  <2>3. ASSUME DeleteStep PROVE Shrinks
    <3>5. PICK ids : \E T \in SUBSET DOMAIN edges :
            /\ nodes' = Only(nodes, {k \in DOMAIN nodes : nodes[k].id \notin ids})
            /\ edges' = Only(edges, T) /\ \A k \in T : ~Touches(edges[k], ids)
      BY <2>3 DEF DeleteStep
    <3>1. PICK T \in SUBSET DOMAIN edges :
            /\ nodes' = Only(nodes, {k \in DOMAIN nodes : nodes[k].id \notin ids})
            /\ edges' = Only(edges, T) /\ \A k \in T : ~Touches(edges[k], ids)
      BY <3>5
    <3>2. \A id \in NodeIds(nodes) : id \notin ids => id \in NodeIds(nodes')
      <4> SUFFICES ASSUME NEW k \in DOMAIN nodes, nodes[k].id \notin ids
                   PROVE  nodes[k].id \in NodeIds(nodes')
        BY DEF NodeIds
      <4>1. k \in DOMAIN nodes' /\ nodes'[k] = nodes[k]
        BY <3>1 DEF Only
      <4> QED BY <4>1 DEF NodeIds
    <3>3. DOMAIN edges' = T /\ \A k \in T : edges'[k] = edges[k]
      BY <3>1 DEF Only
    <3>4. \A k \in T : Missing(edges'[k], nodes') => Missing(edges[k], nodes)
      BY <3>1, <3>2, <3>3 DEF Missing, Touches
    <3> QED BY <3>3, <3>4, DanglingShrinks
  <2>4. CASE ImportStep
    BY <2>4 DEF ImportStep
  <2>5. ASSUME KeepStep PROVE Shrinks
    <3>1. NodeIds(nodes') = NodeIds(nodes)
      BY <2>5 DEF KeepStep, SameNodes, NodeIds
    <3>2. \A k \in DOMAIN edges' : Missing(edges'[k], nodes') => Missing(edges[k], nodes)
      BY <2>5, <3>1 DEF KeepStep, SameEdges, Missing
    <3> QED BY <2>5, <3>2, DanglingShrinks DEF KeepStep, SameEdges
  <2> QED BY <1>1, <2>1, <2>2, <2>3, <2>4, <2>5, StepShape
<1>2. Spec => [][A]_data
  BY <1>1, ArraysAlways, PTL DEF Spec
<1> QED BY <1>2 DEF NoNewDangling

----------------------------------------------------------------------------
(* What is imported is exported: the server and the canvas see the same    *)
(* nodes and edges, and the start if it is a node.                         *)
LEMMA WholeArray ==
  ASSUME NEW ns, DOMAIN ns \subseteq Nat, \A j, k \in DOMAIN ns : ns[j].id = ns[k].id => j = k
  PROVE  /\ {First(Holders(ns, id)) : id \in NodeIds(ns)} = DOMAIN ns
         /\ \A k \in DOMAIN ns : Last(Holders(ns, ns[k].id)) = k
<1>1. ASSUME NEW k \in DOMAIN ns
      PROVE  First(Holders(ns, ns[k].id)) = k /\ Last(Holders(ns, ns[k].id)) = k
  <2>1. Holders(ns, ns[k].id) = {k}
    BY DEF Holders
  <2> QED BY <2>1, LastOfOne
<1> QED BY <1>1 DEF NodeIds

LEMMA RestGone ==
  ASSUME NEW n, NEW i, NEW t, NEW c, NEW x, NEW v,
         n = [Id |-> i, Type |-> t, Config |-> c, Rest |-> x]
  PROVE  [n EXCEPT !.Rest = v] = [Id |-> i, Type |-> t, Config |-> c, Rest |-> v]
  OBVIOUS

LEMMA LabelGone ==
  ASSUME NEW e, NEW f, NEW t, NEW p, NEW c, NEW x, NEW v,
         e = [From |-> f, To |-> t, Priority |-> p, Condition |-> c, Label |-> x]
  PROVE  [e EXCEPT !.Label = v] = [From |-> f, To |-> t, Priority |-> p, Condition |-> c, Label |-> v]
  OBVIOUS

LEMMA RoundTrip ==
  ASSUME NEW g \in Imports
  PROVE  toWire(fromWire(g).nodes, fromWire(g).edges) = Kept(g)
<1> DEFINE ns == fromWire(g).nodes
           es == fromWire(g).edges
           w == toWire(ns, es)
           starts == {k \in DOMAIN ns : ns[k].start}
<1>1. IsDocument(g)
  BY EditorAssumption DEF EditorAssumption
<1>2. /\ DOMAIN ns = DOMAIN g.Nodes /\ DOMAIN ns \subseteq Nat
      /\ \A k \in DOMAIN ns : /\ ns[k].id = g.Nodes[k].Id /\ ns[k].type = g.Nodes[k].Type
                              /\ ns[k].config = g.Nodes[k].Config
                              /\ ns[k].start <=> g.Nodes[k].Id = g.StartAt
  <2>1. DOMAIN ns \subseteq Nat
    BY ImportedArrays DEF IsArray
  <2> QED BY <2>1 DEF fromWire
<1>3. /\ DOMAIN es = DOMAIN g.Edges
      /\ \A k \in DOMAIN es : /\ es[k].source = g.Edges[k].From /\ es[k].target = g.Edges[k].To
                              /\ es[k].priority = g.Edges[k].Priority
                              /\ es[k].condition = g.Edges[k].Condition
  BY DEF fromWire
<1>4. \A j, k \in DOMAIN ns : ns[j].id = ns[k].id => j = k
  BY <1>1, <1>2 DEF IsDocument
<1>5. w = [StartAt |-> w.StartAt, Nodes |-> w.Nodes, Edges |-> w.Edges, MaxSteps |-> 0, Rest |-> ""]
  BY DEF toWire
<1>6. w.Nodes = Kept(g).Nodes
  <2>1. w.Nodes = [k \in DOMAIN ns |->
                     [Id |-> ns[k].id, Type |-> ns[k].type, Config |-> ns[k].config, Rest |-> ""]]
    <3> HIDE DEF ns, es
    <3> QED BY <1>2, <1>4, WholeArray DEF toWire
  <2>2. ASSUME NEW k \in DOMAIN g.Nodes
        PROVE  [g.Nodes[k] EXCEPT !.Rest = ""]
                 = [Id |-> g.Nodes[k].Id, Type |-> g.Nodes[k].Type, Config |-> g.Nodes[k].Config,
                    Rest |-> ""]
    <3>1. g.Nodes[k] = [Id |-> g.Nodes[k].Id, Type |-> g.Nodes[k].Type,
                        Config |-> g.Nodes[k].Config, Rest |-> g.Nodes[k].Rest]
      BY <1>1 DEF IsDocument
    <3>2. \A v : [g.Nodes[k] EXCEPT !.Rest = v]
                   = [Id |-> g.Nodes[k].Id, Type |-> g.Nodes[k].Type, Config |-> g.Nodes[k].Config,
                      Rest |-> v]
      BY <3>1, RestGone
    <3> QED BY <3>2, Zenon
  <2>3. Kept(g).Nodes = [k \in DOMAIN g.Nodes |-> [g.Nodes[k] EXCEPT !.Rest = ""]]
    BY DEF Kept
  <2> HIDE DEF ns, es, w
  <2>4. ASSUME NEW k \in DOMAIN g.Nodes
        PROVE  [Id |-> ns[k].id, Type |-> ns[k].type, Config |-> ns[k].config, Rest |-> ""]
                 = [g.Nodes[k] EXCEPT !.Rest = ""]
    <3>1. /\ ns[k].id = g.Nodes[k].Id /\ ns[k].type = g.Nodes[k].Type
          /\ ns[k].config = g.Nodes[k].Config
      BY <1>2
    <3> QED BY <2>2, <3>1, Zenon
  <2>5. DOMAIN ns = DOMAIN g.Nodes
    BY <1>2
  <2> QED BY <2>1, <2>3, <2>4, <2>5, Zenon
<1>7. w.Edges = Kept(g).Edges
  <2>1. w.Edges = [k \in DOMAIN es |->
                     [From |-> es[k].source, To |-> es[k].target, Priority |-> es[k].priority,
                      Condition |-> es[k].condition, Label |-> ""]]
    BY DEF toWire
  <2>2. ASSUME NEW k \in DOMAIN g.Edges
        PROVE  [g.Edges[k] EXCEPT !.Label = ""]
                 = [From |-> g.Edges[k].From, To |-> g.Edges[k].To, Priority |-> g.Edges[k].Priority,
                    Condition |-> g.Edges[k].Condition, Label |-> ""]
    <3>1. g.Edges[k] = [From |-> g.Edges[k].From, To |-> g.Edges[k].To,
                        Priority |-> g.Edges[k].Priority, Condition |-> g.Edges[k].Condition,
                        Label |-> g.Edges[k].Label]
      BY <1>1 DEF IsDocument
    <3>2. \A v : [g.Edges[k] EXCEPT !.Label = v]
                   = [From |-> g.Edges[k].From, To |-> g.Edges[k].To,
                      Priority |-> g.Edges[k].Priority, Condition |-> g.Edges[k].Condition,
                      Label |-> v]
      BY <3>1, LabelGone
    <3> QED BY <3>2, Zenon
  <2>3. Kept(g).Edges = [k \in DOMAIN g.Edges |-> [g.Edges[k] EXCEPT !.Label = ""]]
    BY DEF Kept
  <2> HIDE DEF ns, es, w
  <2>4. ASSUME NEW k \in DOMAIN g.Edges
        PROVE  [From |-> es[k].source, To |-> es[k].target, Priority |-> es[k].priority,
                Condition |-> es[k].condition, Label |-> ""]
                 = [g.Edges[k] EXCEPT !.Label = ""]
    <3>1. /\ es[k].source = g.Edges[k].From /\ es[k].target = g.Edges[k].To
          /\ es[k].priority = g.Edges[k].Priority /\ es[k].condition = g.Edges[k].Condition
      BY <1>3
    <3> QED BY <2>2, <3>1, Zenon
  <2>5. DOMAIN es = DOMAIN g.Edges
    BY <1>3
  <2> QED BY <2>1, <2>3, <2>4, <2>5, Zenon
<1>8. w.StartAt = IF Unknown(g, g.StartAt) THEN Blank ELSE g.StartAt
  <2>1. w.StartAt = IF starts = {} THEN Blank ELSE ns[Last(starts)].id
    BY DEF toWire
  <2>2. CASE starts = {}
    <3>1. \A k \in DOMAIN g.Nodes : g.Nodes[k].Id # g.StartAt
      BY <1>2, <2>2
    <3> HIDE DEF ns, es, w
    <3> QED BY <2>1, <2>2, <3>1 DEF Unknown
  <2>3. CASE starts # {}
    <3>1. PICK k \in DOMAIN ns : g.Nodes[k].Id = g.StartAt
      BY <1>2, <2>3
    <3>2. starts = {k}
      BY <1>2, <1>4, <3>1
    <3>3. Last(starts) = k
      <4>1. k <= k
        BY <1>2
      <4> QED BY <3>2, <4>1, LastOfOne
    <3>4. ~Unknown(g, g.StartAt)
      BY <1>2, <3>1 DEF Unknown
    <3> HIDE DEF ns, es, w, starts
    <3> QED BY <1>2, <2>1, <2>3, <3>1, <3>3, <3>4
  <2> QED BY <2>2, <2>3
<1> HIDE DEF ns, es, w
<1>9. w = Kept(g)
  <2>1. Kept(g) = [ StartAt |-> IF Unknown(g, g.StartAt) THEN Blank ELSE g.StartAt,
                    Nodes |-> Kept(g).Nodes, Edges |-> Kept(g).Edges, MaxSteps |-> 0, Rest |-> "" ]
    BY DEF Kept
  <2> QED BY <1>5, <1>6, <1>7, <1>8, <2>1, Zenon
<1> QED BY <1>9 DEF w, ns, es

(* What doImport puts on the canvas, toWire exports with every node and    *)
(* edge in its place: what is lost is MaxSteps, the labels of edges, what  *)
(* only the Go types name, and a StartAt that names no node.               *)
THEOREM EditorImportExport == Spec => ImportExport
<1> DEFINE A == \A g \in Imports : doImport(g) => toWire(nodes', edges') = Kept(g)
<1>1. [Next]_vars => [A]_vars
  BY RoundTrip DEF doImport, Render
<1>2. Spec => [][A]_vars
  BY <1>1, PTL DEF Spec
<1> QED BY <1>2 DEF ImportExport

----------------------------------------------------------------------------
(* Which graph the errors are about.  The count of edits tells graphs      *)
(* apart: a step that leaves it leaves the document, and marks on the      *)
(* canvas are not part of that.                                            *)
SameExports(ns, es) ==
  /\ DOMAIN ns = DOMAIN nodes /\ DOMAIN es = DOMAIN edges
  /\ \A k \in DOMAIN nodes : /\ ns[k].id = nodes[k].id /\ ns[k].type = nodes[k].type
                             /\ ns[k].config = nodes[k].config /\ ns[k].start = nodes[k].start
  /\ \A k \in DOMAIN edges : /\ es[k].source = edges[k].source /\ es[k].target = edges[k].target
                             /\ es[k].priority = edges[k].priority
                             /\ es[k].condition = edges[k].condition

LEMMA MarkExports ==
  ASSUME Arrays, NEW a, NEW b, NEW c, NEW d
  PROVE  SameExports(Mark(nodes, a, b), Mark(edges, c, d)) /\ SameExports(Mark(nodes, a, b), edges)
  BY DEF SameExports, Mark, Arrays, NodeKeys, EdgeKeys

LEMMA SameWire ==
  ASSUME IsArray(nodes), NEW ns, NEW es, SameExports(ns, es)
  PROVE  toWire(ns, es) = toWire(nodes, edges)
<1>1. \A id : Holders(ns, id) = Holders(nodes, id)
  BY DEF SameExports, Holders
<1>2. NodeIds(ns) = NodeIds(nodes)
  BY DEF SameExports, NodeIds
<1> DEFINE entries == {First(Holders(nodes, id)) : id \in NodeIds(nodes)}
<1>3. entries \subseteq DOMAIN nodes
  <2> SUFFICES ASSUME NEW k \in DOMAIN nodes
               PROVE  First(Holders(nodes, nodes[k].id)) \in DOMAIN nodes
    BY DEF NodeIds
  <2>1. Holders(nodes, nodes[k].id) \in SUBSET Nat /\ k \in Holders(nodes, nodes[k].id)
    BY DEF Holders, IsArray
  <2>2. First(Holders(nodes, nodes[k].id)) \in Holders(nodes, nodes[k].id)
    BY <2>1, FirstOf
  <2> QED BY <2>2 DEF Holders
<1>4. \A k \in DOMAIN nodes : Last(Holders(nodes, nodes[k].id)) \in DOMAIN nodes
  <2> TAKE k \in DOMAIN nodes
  <2>1. Holders(nodes, nodes[k].id) \in SUBSET Nat /\ k \in Holders(nodes, nodes[k].id)
    BY DEF Holders, IsArray
  <2>2. \E m \in Nat : \A j \in Holders(nodes, nodes[k].id) : j <= m
    BY DEF Holders, IsArray
  <2>3. Last(Holders(nodes, nodes[k].id)) \in Holders(nodes, nodes[k].id)
    BY <2>1, <2>2, LastOf
  <2> QED BY <2>3 DEF Holders
<1>5. toWire(ns, es).StartAt = toWire(nodes, edges).StartAt
  <2> DEFINE starts == {k \in DOMAIN nodes : nodes[k].start}
  <2>1. {k \in DOMAIN ns : ns[k].start} = starts
    BY DEF SameExports
  <2>2. CASE starts = {}
    BY <2>1, <2>2 DEF toWire
  <2>3. CASE starts # {}
    <3>1. \E m \in Nat : \A j \in starts : j <= m
      BY DEF IsArray
    <3>2. Last(starts) \in DOMAIN nodes
      BY <2>3, <3>1, LastOf DEF IsArray
    <3> QED BY <2>1, <2>3, <3>2 DEF toWire, SameExports
  <2> QED BY <2>2, <2>3
<1>6. toWire(ns, es).Nodes = toWire(nodes, edges).Nodes
  <2>1. {First(Holders(ns, id)) : id \in NodeIds(ns)} = entries
    BY <1>1, <1>2
  <2> DEFINE Entry(n) == [Id |-> n.id, Type |-> n.type, Config |-> n.config, Rest |-> ""]
  <2>2. toWire(ns, es).Nodes = [k \in entries |-> Entry(ns[Last(Holders(ns, ns[k].id))])]
    BY <2>1 DEF toWire
  <2>3. toWire(nodes, edges).Nodes = [k \in entries |-> Entry(nodes[Last(Holders(nodes, nodes[k].id))])]
    BY DEF toWire
  <2>4. ASSUME NEW k \in entries
        PROVE  Entry(ns[Last(Holders(ns, ns[k].id))]) = Entry(nodes[Last(Holders(nodes, nodes[k].id))])
    <3> DEFINE l == Last(Holders(nodes, nodes[k].id))
    <3>1. Last(Holders(ns, ns[k].id)) = l /\ l \in DOMAIN nodes
      BY <1>1, <1>3, <1>4 DEF SameExports
    <3>2. ns[l].id = nodes[l].id /\ ns[l].type = nodes[l].type /\ ns[l].config = nodes[l].config
      BY <3>1 DEF SameExports
    <3> QED BY <3>1, <3>2, Zenon
  <2> QED BY <2>2, <2>3, <2>4
<1>7. toWire(ns, es).Edges = toWire(nodes, edges).Edges
  BY DEF toWire, SameExports
<1>8. ASSUME NEW ms, NEW fs
      PROVE  toWire(ms, fs) = [StartAt |-> toWire(ms, fs).StartAt, Nodes |-> toWire(ms, fs).Nodes,
                               Edges |-> toWire(ms, fs).Edges, MaxSteps |-> 0, Rest |-> ""]
  BY DEF toWire
<1> QED BY <1>5, <1>6, <1>7, <1>8, Zenon

LEMMA EditsStep ==
  ASSUME Arrays, [Next]_vars
  PROVE  \/ edits' = edits /\ toWire(nodes', edges') = toWire(nodes, edges)
         \/ edits' = edits + 1 /\ HasTime
<1> DEFINE Same == edits' = edits /\ toWire(nodes', edges') = toWire(nodes, edges)
           Edit == edits' = edits + 1 /\ HasTime
<1>1. ASSUME NEW ns, NEW es, NEW sel, NEW fm, Render(ns, es, sel, fm), HasTime PROVE Same \/ Edit
  BY <1>1 DEF Render
<1>2. ASSUME NEW ns, NEW es, NEW sel, NEW fm, Render(ns, es, sel, fm),
             toWire(ns, es) = toWire(nodes, edges)
      PROVE  Same
  BY <1>2 DEF Render
<1>3. ASSUME UNCHANGED data PROVE Same
  BY <1>3 DEF data
<1> HIDE DEF Same, Edit
<1>4. ASSUME NEW type, onDropNode(type) PROVE Same \/ Edit
  BY <1>1, <1>4 DEF onDropNode
<1>5. ASSUME NEW source, NEW target, onConnect(source, target) PROVE Same \/ Edit
  BY <1>1, <1>5 DEF onConnect
<1>6. ASSUME Marking PROVE Same
  BY <1>2, <1>6, MarkExports, SameWire DEF Marking, Arrays
<1>7. ASSUME DeleteKey PROVE Same \/ Edit
  BY <1>1, <1>7 DEF DeleteKey
<1>8. ASSUME doDeleteSelected PROVE Same \/ Edit
  BY <1>1, <1>8 DEF doDeleteSelected
<1>9. ASSUME NEW g, doImport(g) PROVE Same \/ Edit
  BY <1>1, <1>9 DEF doImport
<1>10. ASSUME NEW id, FocusNode(id) PROVE Same
  BY <1>2, <1>10, MarkExports, SameWire DEF FocusNode, Arrays
<1>11. ASSUME NEW k, FocusEdge(k) PROVE Same
  BY <1>2, <1>11 DEF FocusEdge
<1>12. ASSUME EditForm \/ EditEdge PROVE Same \/ Edit
  <2>1. ASSUME NEW f, NEW v, EditField(f, v) PROVE Same \/ Edit
    BY <1>1, <2>1 DEF EditField
  <2>2. ASSUME NEW f, NEW text, TypeRawJson(f, text) PROVE Same
    BY <1>3, <2>2 DEF TypeRawJson
  <2>3. ASSUME NEW f, BlurRawJson(f) PROVE Same \/ Edit
    BY <1>1, <2>3 DEF BlurRawJson
  <2>4. ASSUME EditEdge PROVE Same \/ Edit
    BY <1>1, <2>4 DEF EditEdge
  <2> QED BY <1>12, <2>1, <2>2, <2>3, <2>4 DEF EditForm
<1>13. ASSUME LoadSchemas \/ doValidate \/ UNCHANGED vars
       PROVE  Same
  BY <1>3, <1>13 DEF LoadSchemas, doValidate, vars
<1>14. ASSUME NEW r, ValidateAnswers(r) \/ ValidateFails(r) PROVE Same
  BY <1>3, <1>14 DEF ValidateAnswers, ValidateFails
<1>15. ASSUME NEW t, focusTarget(t) PROVE Same
  BY <1>10, <1>11, <1>15 DEF focusTarget
<1>16. ASSUME UserStep PROVE Same \/ Edit
  BY <1>4, <1>5, <1>6, <1>7, <1>8, <1>12, <1>13, <1>15, <1>16, SelectionMarks
     DEF UserStep, ClickError
<1>17. Same \/ Edit
  BY <1>9, <1>13, <1>14, <1>16 DEF Next
<1> QED BY <1>17 DEF Same, Edit

LEMMA ResultsStep ==
  ASSUME [Next]_vars
  PROVE  \/ UNCHANGED <<results, requests>>
         \/ doValidate
         \/ errors' = {} /\ about' = Unvalidated /\ UNCHANGED requests
         \/ \E r \in DOMAIN flight : ValidateAnswers(r) \/ ValidateFails(r)
<1> DEFINE Same == UNCHANGED <<results, requests>>
<1>1. ASSUME NEW type, onDropNode(type) PROVE Same
  BY <1>1 DEF onDropNode
<1>2. ASSUME NEW source, NEW target, onConnect(source, target) PROVE Same
  BY <1>2 DEF onConnect
<1>3. ASSUME Marking PROVE Same
  BY <1>3 DEF Marking
<1>4. ASSUME DeleteKey \/ doDeleteSelected PROVE Same
  BY <1>4 DEF DeleteKey, doDeleteSelected
<1>5. ASSUME LoadSchemas \/ UNCHANGED vars PROVE Same
  BY <1>5 DEF LoadSchemas, vars, results, requests
<1>6. ASSUME NEW t, focusTarget(t) PROVE Same
  BY <1>6 DEF focusTarget, FocusNode, FocusEdge
<1>7. ASSUME EditForm PROVE Same
  <2>1. ASSUME NEW f, NEW v, EditField(f, v) PROVE Same
    BY <2>1 DEF EditField
  <2>2. ASSUME NEW f, NEW text, TypeRawJson(f, text) PROVE Same
    BY <2>2 DEF TypeRawJson
  <2>3. ASSUME NEW f, BlurRawJson(f) PROVE Same
    BY <2>3 DEF BlurRawJson
  <2> QED BY <1>7, <2>1, <2>2, <2>3 DEF EditForm
<1>8. ASSUME EditEdge PROVE Same
  BY <1>8 DEF EditEdge
<1>9. ASSUME NEW g, doImport(g) PROVE errors' = {} /\ about' = Unvalidated /\ UNCHANGED requests
  BY <1>9 DEF doImport
<1> HIDE DEF Same
<1>10. ASSUME UserStep PROVE Same \/ doValidate
  BY <1>1, <1>2, <1>3, <1>4, <1>6, <1>7, <1>8, <1>10, SelectionMarks
     DEF UserStep, ClickError
<1>11. \/ Same \/ doValidate
       \/ errors' = {} /\ about' = Unvalidated /\ UNCHANGED requests
       \/ \E r \in DOMAIN flight : ValidateAnswers(r) \/ ValidateFails(r)
  BY <1>5, <1>9, <1>10 DEF Next
<1> QED BY <1>11 DEF Same

Versions ==
  /\ edits \in 0..MaxWork /\ asked \in Nat /\ about \in Nat
  /\ about <= edits \/ about = Unvalidated
  /\ IsArray(flight) /\ \A r \in DOMAIN flight : flight[r].at \in 0..edits

ErrorsOfGraph ==
  /\ \A r \in DOMAIN flight : flight[r].at = edits => flight[r].graph = toWire(nodes, edges)
  /\ about = edits => errors \in ValidateGraph(toWire(nodes, edges))

LEMMA VersionsInit == Init => Versions /\ ErrorsOfGraph
<1> SUFFICES ASSUME Init PROVE Versions /\ ErrorsOfGraph
  OBVIOUS
<1>1. MaxWork \in Nat
  BY EditorAssumption DEF EditorAssumption
<1>2. flight = [r \in {} |-> 0] /\ DOMAIN flight = {}
  BY DEF Init
<1>3. IsArray(flight)
  BY <1>2 DEF IsArray
<1> QED BY <1>1, <1>2, <1>3 DEF Init, Versions, ErrorsOfGraph, Unvalidated

LEMMA FlightStep ==
  ASSUME Versions, ErrorsOfGraph,
         \/ UNCHANGED requests
         \/ asked' = asked + 1 /\ flight' = Push(flight, [graph |-> toWire(nodes, edges), at |-> edits])
         \/ \E r \in DOMAIN flight : Answered(r)
  PROVE  /\ asked' \in Nat /\ IsArray(flight')
         /\ \A r \in DOMAIN flight' :
              /\ flight'[r].at \in 0..edits
              /\ flight'[r].at = edits => flight'[r].graph = toWire(nodes, edges)
<1>1. CASE UNCHANGED requests
  BY <1>1 DEF requests, Versions, ErrorsOfGraph
<1>2. CASE asked' = asked + 1 /\ flight' = Push(flight, [graph |-> toWire(nodes, edges), at |-> edits])
  <2> DEFINE e == [graph |-> toWire(nodes, edges), at |-> edits]
  <2>1. e.graph = toWire(nodes, edges) /\ e.at = edits
    OBVIOUS
  <2>2. flight' = Push(flight, e) /\ asked' \in Nat
    BY <1>2 DEF Versions
  <2> HIDE DEF e
  <2>3. IsArray(flight') /\ \E new \in Nat : Pushed(flight, e, flight', new)
    BY <2>2, PushOf DEF Versions
  <2>4. edits \in 0..edits
    BY DEF Versions
  <2>5. PICK new \in Nat : Pushed(flight, e, flight', new)
    BY <2>3
  <2>6. flight'[new] = e /\ \A r \in DOMAIN flight' : r = new \/ (r \in DOMAIN flight /\ flight'[r] = flight[r])
    BY <2>5 DEF Pushed
  <2> QED BY <2>1, <2>2, <2>3, <2>4, <2>6 DEF Versions, ErrorsOfGraph
<1>3. CASE \E r \in DOMAIN flight : Answered(r)
  <2>1. PICK r \in DOMAIN flight : flight' = Only(flight, DOMAIN flight \ {r}) /\ asked' = asked
    BY <1>3 DEF Answered
  <2>2. /\ IsArray(flight') /\ DOMAIN flight' = DOMAIN flight \ {r}
        /\ \A s \in DOMAIN flight' : flight'[s] = flight[s]
    BY <2>1, OnlyOf DEF Versions
  <2> QED BY <2>1, <2>2 DEF Versions, ErrorsOfGraph
<1> QED BY <1>1, <1>2, <1>3

LEMMA VersionsStep ==
  ASSUME Arrays, Versions, ErrorsOfGraph, [Next]_vars
  PROVE  Versions' /\ ErrorsOfGraph'
<1>1. MaxWork \in Nat /\ Unvalidated = MaxWork + 1
  BY EditorAssumption DEF EditorAssumption, Unvalidated
<1>2. /\ asked' \in Nat /\ IsArray(flight')
      /\ \A r \in DOMAIN flight' :
           /\ flight'[r].at \in 0..edits
           /\ flight'[r].at = edits => flight'[r].graph = toWire(nodes, edges)
  <2>1. \/ UNCHANGED requests
        \/ asked' = asked + 1 /\ flight' = Push(flight, [graph |-> toWire(nodes, edges), at |-> edits])
        \/ \E r \in DOMAIN flight : Answered(r)
    BY ResultsStep DEF doValidate, ValidateAnswers, ValidateFails
  <2> QED BY <2>1, FlightStep
<1>3. /\ about' \in Nat /\ (about' <= edits \/ about' = Unvalidated)
      /\ about' = edits => errors' \in ValidateGraph(toWire(nodes, edges))
  <2>1. CASE UNCHANGED results
    BY <2>1 DEF results, Versions, ErrorsOfGraph
  <2>2. CASE errors' = {} /\ about' = Unvalidated
    BY <1>1, <2>2 DEF Versions
  <2>3. CASE \E r \in DOMAIN flight : ValidateAnswers(r)
    BY <2>3 DEF ValidateAnswers, Versions, ErrorsOfGraph
  <2> QED BY <2>1, <2>2, <2>3, ResultsStep DEF doValidate, ValidateFails
<1>4. CASE edits' = edits /\ toWire(nodes', edges') = toWire(nodes, edges)
  <2>1. Unvalidated' = Unvalidated
    BY DEF Unvalidated
  <2> QED BY <1>2, <1>3, <1>4, <2>1 DEF Versions, ErrorsOfGraph
<1>5. CASE edits' = edits + 1 /\ HasTime
  <2>1. edits' \in 0..MaxWork /\ edits < edits'
    BY <1>1, <1>5 DEF HasTime, Versions
  <2>2. about' # edits' /\ \A r \in DOMAIN flight' : flight'[r].at # edits' /\ flight'[r].at \in 0..edits'
    BY <1>1, <1>2, <1>3, <1>5, <2>1 DEF Versions
  <2> QED BY <1>1, <1>2, <1>3, <2>1, <2>2 DEF Versions, ErrorsOfGraph, Unvalidated
<1> QED BY <1>4, <1>5, EditsStep

----------------------------------------------------------------------------
(* What an empty list says of the document, and the document of the canvas.*)
LEMMA NoErrors ==
  ASSUME NEW g, {} \in ValidateGraph(g)
  PROVE  /\ \A k \in DOMAIN g.Nodes : ~BadNode(g.Nodes[k])
         /\ \A k \in DOMAIN g.Edges : /\ g.Edges[k].Priority \notin Fractions
                                       /\ g.Edges[k].Condition \notin BadConditions
         /\ g.StartAt # Blank
         /\ \A k \in DOMAIN g.Edges : ~Unknown(g, g.Edges[k].From) /\ ~Unknown(g, g.Edges[k].To)
<1> DEFINE badNodes == {k \in DOMAIN g.Nodes : BadNode(g.Nodes[k])}
           badEdges == {k \in DOMAIN g.Edges : g.Edges[k].Condition \in BadConditions}
<1>0. \A k \in DOMAIN g.Edges : g.Edges[k].Priority \notin Fractions
  BY DEF ValidateGraph
<1>1. badNodes = {}
  BY <1>0 DEF ValidateGraph
<1>2. badEdges = {}
  BY <1>0, <1>1 DEF ValidateGraph
<1>3. StructuralErrors(g) = {}
  BY <1>0, <1>1, <1>2 DEF ValidateGraph
<1>4. g.StartAt # Blank
  BY <1>3 DEF StructuralErrors
<1>5. ASSUME NEW k \in DOMAIN g.Edges PROVE ~Unknown(g, g.Edges[k].From) /\ ~Unknown(g, g.Edges[k].To)
  BY <1>3 DEF StructuralErrors
<1> QED BY <1>0, <1>1, <1>2, <1>4, <1>5

LEMMA WireOfUnique ==
  ASSUME Arrays, UniqueIds, NEW w, w = toWire(nodes, edges)
  PROVE  /\ DOMAIN w.Nodes = DOMAIN nodes
         /\ \A k \in DOMAIN nodes : /\ w.Nodes[k].Id = nodes[k].id
                                    /\ w.Nodes[k].Type = nodes[k].type
                                    /\ w.Nodes[k].Config = nodes[k].config
         /\ DOMAIN w.Edges = DOMAIN edges
         /\ \A k \in DOMAIN edges : /\ w.Edges[k].From = edges[k].source
                                    /\ w.Edges[k].To = edges[k].target
                                    /\ w.Edges[k].Priority = edges[k].priority
                                    /\ w.Edges[k].Condition = edges[k].condition
<1> DEFINE Entry(n) == [Id |-> n.id, Type |-> n.type, Config |-> n.config, Rest |-> ""]
           Link(e) == [From |-> e.source, To |-> e.target, Priority |-> e.priority,
                       Condition |-> e.condition, Label |-> ""]
           entries == {First(Holders(nodes, id)) : id \in NodeIds(nodes)}
<1>1. entries = DOMAIN nodes /\ \A k \in DOMAIN nodes : Last(Holders(nodes, nodes[k].id)) = k
  BY WholeArray DEF Arrays, IsArray, UniqueIds
<1>2. w.Nodes = [k \in entries |-> Entry(nodes[Last(Holders(nodes, nodes[k].id))])]
  BY DEF toWire
<1>3. w.Edges = [k \in DOMAIN edges |-> Link(edges[k])]
  BY DEF toWire
<1>4. /\ \A n : Entry(n).Id = n.id /\ Entry(n).Type = n.type /\ Entry(n).Config = n.config
      /\ \A e : /\ Link(e).From = e.source /\ Link(e).To = e.target
                /\ Link(e).Priority = e.priority /\ Link(e).Condition = e.condition
  OBVIOUS
<1> HIDE DEF entries, Entry, Link
<1>5. /\ DOMAIN w.Nodes = DOMAIN nodes
      /\ \A k \in DOMAIN nodes : w.Nodes[k] = Entry(nodes[k])
  BY <1>1, <1>2
<1>6. /\ DOMAIN w.Edges = DOMAIN edges
      /\ \A k \in DOMAIN edges : w.Edges[k] = Link(edges[k])
  BY <1>3
<1> QED BY <1>4, <1>5, <1>6

LEMMA UnknownOfUnique ==
  ASSUME Arrays, UniqueIds, NEW w, w = toWire(nodes, edges), NEW id
  PROVE  Unknown(w, id) <=> id # Blank /\ id \notin NodeIds(nodes)
  BY WireOfUnique DEF Unknown, NodeIds

LEMMA BadOfUnique ==
  ASSUME Arrays, UniqueIds, NEW w, w = toWire(nodes, edges), NEW k \in DOMAIN nodes
  PROVE  BadNode(w.Nodes[k]) <=> FaultyNode(nodes[k])
<1>1. /\ w.Nodes[k].Type = nodes[k].type
      /\ w.Nodes[k].Config = nodes[k].config
  BY WireOfUnique
<1> QED BY <1>1 DEF BadNode, FaultyNode

LEMMA EmptyIsSound == ASSUME Arrays, ErrorsOfGraph PROVE NoErrorsMeansSound
<1> SUFFICES ASSUME about = edits, errors = {}, UniqueIds
             PROVE  /\ \E k \in DOMAIN nodes : nodes[k].start
                    /\ \A k \in DOMAIN nodes : ~FaultyNode(nodes[k])
                    /\ \A k \in DOMAIN edges : ~FaultyEdge(edges[k])
  BY DEF NoErrorsMeansSound
<1> DEFINE w == toWire(nodes, edges)
<1>1. {} \in ValidateGraph(w)
  BY DEF ErrorsOfGraph
<1>2. \E k \in DOMAIN nodes : nodes[k].start
  <2>1. w.StartAt # Blank
    BY <1>1, NoErrors
  <2> QED BY <2>1 DEF toWire
<1>3. \A k \in DOMAIN nodes : ~FaultyNode(nodes[k])
  <2> HIDE DEF w
  <2> QED BY <1>1, NoErrors, WireOfUnique, BadOfUnique DEF w
<1>4. ASSUME NEW k \in DOMAIN edges PROVE ~FaultyEdge(edges[k])
  <2>1. /\ k \in DOMAIN w.Edges /\ w.Edges[k].From = edges[k].source
        /\ w.Edges[k].To = edges[k].target /\ w.Edges[k].Condition = edges[k].condition
        /\ w.Edges[k].Priority = edges[k].priority
    BY WireOfUnique
  <2>2. /\ edges[k].condition \notin BadConditions /\ edges[k].priority \notin Fractions
        /\ ~Unknown(w, edges[k].source) /\ ~Unknown(w, edges[k].target)
    <3> HIDE DEF w
    <3> QED BY <1>1, <2>1, NoErrors
  <2>3. \A id : Unknown(w, id) <=> id # Blank /\ id \notin NodeIds(nodes)
    BY UnknownOfUnique
  <2> HIDE DEF w
  <2> QED BY <2>2, <2>3 DEF FaultyEdge
<1> QED BY <1>2, <1>3, <1>4

LEMMA ErrorsOfGraphAlways == Spec => [](Versions /\ ErrorsOfGraph)
<1>1. Arrays /\ Versions /\ ErrorsOfGraph /\ [Next]_vars => (Versions /\ ErrorsOfGraph)'
  BY VersionsStep
<1> QED BY <1>1, VersionsInit, ArraysAlways, PTL DEF Spec

(* An empty list of errors is about the graph on the canvas as long as it  *)
(* is not edited, however answers of the server overtake each other.       *)
THEOREM EditorNoErrorsMeansSound == Spec => []NoErrorsMeansSound
  BY EmptyIsSound, ArraysAlways, ErrorsOfGraphAlways, PTL

----------------------------------------------------------------------------
(* Where errors lead, while they are about the graph on the canvas.        *)
LEMMA StartIsKnown ==
  ASSUME Arrays, UniqueIds, NEW w, w = toWire(nodes, edges)
  PROVE  ~Unknown(w, w.StartAt)
<1> DEFINE starts == {k \in DOMAIN nodes : nodes[k].start}
<1>1. w.StartAt = IF starts = {} THEN Blank ELSE nodes[Last(starts)].id
  BY DEF toWire
<1>2. CASE starts = {}
  BY <1>1, <1>2 DEF Unknown
<1>3. CASE starts # {}
  <2>1. PICK m \in Nat : \A k \in DOMAIN nodes : k <= m
    BY DEF Arrays, IsArray
  <2>2. starts \in SUBSET Nat /\ \A k \in starts : k <= m
    BY <2>1 DEF Arrays, IsArray
  <2>3. Last(starts) \in starts
    BY <1>3, <2>2, LastOf
  <2>4. w.StartAt \in NodeIds(nodes)
    BY <1>1, <1>3, <2>3 DEF NodeIds
  <2> QED BY <2>4, UnknownOfUnique
<1> QED BY <1>2, <1>3

ToNode(t) == \E k \in DOMAIN nodes : FaultyNode(nodes[k]) /\ t = NodeTarget(nodes[k].id)
ToEdge(t) == \E k \in DOMAIN edges : FaultyEdge(edges[k]) /\ t = EdgeTarget(Index(k, DOMAIN edges))

LEMMA ErrorTargets ==
  ASSUME Arrays, UniqueIds, NEW w, w = toWire(nodes, edges),
         NEW errs \in ValidateGraph(w), NEW e \in errs
  PROVE  ToNode(mapError(e)) \/ ToEdge(mapError(e)) \/ mapError(e) = Nowhere
<1> DEFINE badNodes == {k \in DOMAIN w.Nodes : BadNode(w.Nodes[k])}
           badEdges == {k \in DOMAIN w.Edges : w.Edges[k].Condition \in BadConditions}
           fraction == \E k \in DOMAIN w.Edges : w.Edges[k].Priority \in Fractions
<1>1. \A place : mapError(ParseError(place)) = place /\ mapError(StartError(place)) = place
  BY DEF mapError, ParseError, StartError, Nowhere
<1>2. \A i, end : mapError(EdgeError(i, end)) = EdgeTarget(i)
  BY DEF mapError, EdgeError, EdgeTarget
<1>0. CASE fraction
  <2>1. e = ParseError(Nowhere)
    BY <1>0 DEF ValidateGraph
  <2> QED BY <1>1, <2>1
<1>3. CASE ~fraction /\ badNodes # {}
  <2>1. PICK k \in badNodes : errs = {ParseError(NodeTarget(w.Nodes[k].Id))}
    BY <1>3 DEF ValidateGraph
  <2>2. k \in DOMAIN nodes /\ w.Nodes[k].Id = nodes[k].id /\ FaultyNode(nodes[k])
    BY WireOfUnique, BadOfUnique
  <2> QED BY <1>1, <2>1, <2>2 DEF ToNode
<1>4. CASE ~fraction /\ badNodes = {} /\ badEdges # {}
  <2> DEFINE k == First(badEdges)
  <2>1. errs = {ParseError(EdgeTarget(Index(k, DOMAIN w.Edges)))}
    BY <1>4 DEF ValidateGraph
  <2>2. DOMAIN w.Edges = DOMAIN edges /\ DOMAIN edges \subseteq Nat
    BY WireOfUnique DEF Arrays, IsArray
  <2>3. k \in badEdges
    BY <1>4, <2>2, FirstOf
  <2> HIDE DEF k
  <2>4. FaultyEdge(edges[k])
    BY <2>2, <2>3, WireOfUnique DEF FaultyEdge
  <2> QED BY <1>1, <2>1, <2>2, <2>3, <2>4 DEF ToEdge
<1>5. CASE ~fraction /\ badNodes = {} /\ badEdges = {}
  <2>1. e \in StructuralErrors(w)
    BY <1>5 DEF ValidateGraph
  <2>2. ASSUME NEW k \in DOMAIN w.Edges, Unknown(w, w.Edges[k].From) \/ Unknown(w, w.Edges[k].To),
               NEW end, e = EdgeError(Index(k, DOMAIN w.Edges), end)
        PROVE  ToEdge(mapError(e))
    <3>1. /\ DOMAIN w.Edges = DOMAIN edges
          /\ w.Edges[k].From = edges[k].source /\ w.Edges[k].To = edges[k].target
      BY WireOfUnique
    <3>2. FaultyEdge(edges[k])
      BY <2>2, <3>1, UnknownOfUnique DEF FaultyEdge
    <3> QED BY <1>2, <2>2, <3>1, <3>2 DEF ToEdge
  <2>3. \/ e = StartError(Nowhere)
        \/ \E k \in DOMAIN w.Edges : Unknown(w, w.Edges[k].From)
              /\ e = EdgeError(Index(k, DOMAIN w.Edges), "from")
        \/ \E k \in DOMAIN w.Edges : Unknown(w, w.Edges[k].To)
              /\ e = EdgeError(Index(k, DOMAIN w.Edges), "to")
    BY <2>1, StartIsKnown DEF StructuralErrors
  <2> QED BY <1>1, <2>2, <2>3
<1> QED BY <1>0, <1>3, <1>4, <1>5

LEMMA FocusedNode ==
  ASSUME Arrays, NEW k \in DOMAIN nodes, FocusNode(nodes[k].id)
  PROVE  selection' = NodeSelection(nodes[k].id)
<1> DEFINE id == nodes[k].id
           ns == Mark(nodes, NodeIds(nodes), {id})
<1>1. selection' = Reported(NodeSelection(id), ns, edges)
  BY DEF FocusNode, Render
<1>2. DOMAIN ns = DOMAIN nodes /\ DOMAIN nodes \subseteq Nat
  BY DEF Mark, Arrays, IsArray
<1>3. \A j \in DOMAIN nodes : /\ ns[j].id = nodes[j].id
                              /\ ns[j].selected <=> nodes[j].id = id
  BY DEF Mark, Arrays, NodeKeys, NodeIds
<1> HIDE DEF ns
<1>4. ASSUME NEW j \in DOMAIN nodes PROVE ns[Last(Holders(ns, ns[j].id))].selected <=> ns[j].id = id
  <2> DEFINE S == Holders(ns, ns[j].id)
  <2>1. PICK m \in Nat : \A i \in DOMAIN nodes : i <= m
    BY DEF Arrays, IsArray
  <2>2. S \in SUBSET Nat /\ j \in S /\ \A i \in S : i <= m
    BY <1>2, <2>1 DEF Holders
  <2> HIDE DEF S
  <2>3. Last(S) \in S
    BY <2>2, LastOf
  <2>4. Last(S) \in DOMAIN nodes /\ ns[Last(S)].id = ns[j].id
    BY <1>2, <2>3 DEF S, Holders
  <2> QED BY <1>3, <2>4 DEF S
<1>5. Reports(ns) \in SUBSET Nat /\ k \in Reports(ns) /\ \A j \in Reports(ns) : ns[j].id = id
  BY <1>2, <1>3, <1>4 DEF Reports
<1>6. First(Reports(ns)) \in Reports(ns)
  BY <1>5, FirstOf
<1>7. Canvas(ns, edges) = NodeSelection(id)
  BY <1>5, <1>6 DEF Canvas
<1> QED BY <1>1, <1>7 DEF Reported

(* While the graph is the one that was validated, a click on an error      *)
(* (focusTarget of mapError) selects a node or an edge that has a fault.   *)
THEOREM EditorFocusFindsFault == Spec => FocusFindsFault
<1> DEFINE A == about = edits /\ UniqueIds =>
                  \A e \in errors : focusTarget(mapError(e)) => Faulty(selection')
<1>1. ASSUME Arrays, Versions, ErrorsOfGraph, [Next]_vars PROVE A
  <2> SUFFICES ASSUME NEW e \in errors, focusTarget(mapError(e)), about = edits, UniqueIds
               PROVE  Faulty(selection')
    OBVIOUS
  <2> DEFINE t == mapError(e)
  <2>1. ToNode(t) \/ ToEdge(t) \/ t = Nowhere
    BY <1>1, ErrorTargets DEF ErrorsOfGraph
  <2>2. focusTarget(t)
    OBVIOUS
  <2> HIDE DEF t
  <2>3. CASE ToNode(t)
    <3>1. PICK k \in DOMAIN nodes : FaultyNode(nodes[k]) /\ t = NodeTarget(nodes[k].id)
      BY <2>3 DEF ToNode
    <3>2. t.kind = "node" /\ t.id = nodes[k].id
      BY <3>1 DEF NodeTarget
    <3>3. FocusNode(nodes[k].id)
      BY <2>2, <3>2 DEF focusTarget
    <3>4. selection' = NodeSelection(nodes[k].id)
      BY <1>1, <3>3, FocusedNode
    <3> QED BY <3>1, <3>4 DEF Faulty
  <2>4. CASE ToEdge(t)
    <3>1. PICK k \in DOMAIN edges : FaultyEdge(edges[k]) /\ t = EdgeTarget(Index(k, DOMAIN edges))
      BY <2>4 DEF ToEdge
    <3>2. t.kind = "edge" /\ t.index = Index(k, DOMAIN edges)
      BY <3>1 DEF EdgeTarget
    <3>3. PICK j \in DOMAIN edges : Index(j, DOMAIN edges) = t.index /\ FocusEdge(j)
      BY <2>2, <3>2 DEF focusTarget
    <3>4. j = k
      BY <1>1, <3>2, <3>3, IndexOf DEF Arrays
    <3>5. selection' = EdgeSelection(edges[k].id)
      BY <3>3, <3>4 DEF FocusEdge, Render, Reported
    <3> QED BY <3>1, <3>5 DEF Faulty
  <2>5. CASE t = Nowhere
    BY <2>2, <2>5 DEF focusTarget, Nowhere
  <2> QED BY <2>1, <2>3, <2>4, <2>5
<1>2. Spec => [][A]_vars
  BY <1>1, ArraysAlways, ErrorsOfGraphAlways, PTL DEF Spec
<1> QED BY <1>2 DEF FocusFindsFault
=============================================================================
