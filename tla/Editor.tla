------------------------------- MODULE Editor -------------------------------
(***************************************************************************)
(* The graph editor in the browser: EditorShell with the canvas (React     *)
(* Flow), the inspector, the error panel, the import dialog and the calls  *)
(* to the server.  Handlers run one at a time, and React applies what one  *)
(* sets, effects included, before the next event; only the answers of the  *)
(* server arrive at any time and in any order.                             *)
(***************************************************************************)
EXTENDS ConfigForm

CONSTANTS
  Imports,     \* the documents a user may import
  MaxRequests, \* bound on the validations asked for
  MaxWork,     \* bound on these and the changes of the graph together
  MaxSelected  \* bound on what is selected on the canvas at once

ASSUME EditorAssumption ==
  /\ \A g \in Imports : IsDocument(g)
  /\ MaxRequests \in Nat /\ MaxWork \in Nat /\ MaxSelected \in Nat

VARIABLES
  schemas,    \* the node types of the palette, none before they are loaded
  nodes, edges,
  selection,  \* what the inspector shows (EditorContext)
  errors,     \* what the error panel shows (EditorContext)
  idSeq,
  form,       \* the config form on display
  flight,     \* validations under way: the graph sent, and at which edit
  \* For the bounds and the properties: changes of the graph so far,
  \* validations asked for, the edit that the errors are about, and whether
  \* the selection came from an error and not from the canvas.
  edits, asked, about, strayed

data == <<nodes, edges, edits>>
view == <<selection, form, strayed>>
results == <<errors, about>>
requests == <<flight, asked>>
vars == <<schemas, data, view, results, requests, idSeq>>

Nothing == [kind |-> "none"]
NodeSelection(id) == [kind |-> "node", id |-> id]
EdgeSelection(id) == [kind |-> "edge", id |-> id]
Unvalidated == MaxWork + 1

Init ==
  /\ schemas = {}
  /\ nodes = [k \in {} |-> 0] /\ edges = [k \in {} |-> 0]
  /\ selection = Nothing /\ errors = {}
  /\ idSeq = 1 /\ form = NoForm /\ flight = [r \in {} |-> 0]
  /\ edits = 0 /\ asked = 0 /\ about = Unvalidated /\ strayed = FALSE

----------------------------------------------------------------------------
(* What is marked is a flag of each element.  React Flow looks elements up *)
(* by id, and of two nodes with one id finds the last: it reports an id if *)
(* its last holder is marked, in the order of the first holders.  It does  *)
(* so when others are selected than at its last report, and the canvas     *)
(* selects the first of them.                                              *)
Marked(elements) == {k \in DOMAIN elements : elements[k].selected}
MarkedIds(elements) == {elements[k].id : k \in Marked(elements)}
Reports(elements) ==
  {k \in DOMAIN elements : elements[Last(Holders(elements, elements[k].id))].selected}
ReportedIds(elements) == {elements[k].id : k \in Reports(elements)}

(* A mutant: the selection is not taken back.                              *)
CanvasKeeps(ns, es) ==
  IF Reports(ns) # {} THEN NodeSelection(ns[First(Reports(ns))].id)
  ELSE IF Reports(es) # {} THEN EdgeSelection(es[First(Reports(es))].id)
  ELSE selection

Canvas(ns, es) ==
  IF Reports(ns) # {} THEN NodeSelection(ns[First(Reports(ns))].id)
  ELSE IF Reports(es) # {} THEN EdgeSelection(es[First(Reports(es))].id)
  ELSE Nothing

Reported(sel, ns, es) ==
  IF ReportedIds(ns) = ReportedIds(nodes) /\ ReportedIds(es) = ReportedIds(edges)
    THEN sel ELSE Canvas(ns, es)

(* What a handler sets is rendered: the report of the canvas comes after   *)
(* the handler's own selection, and the inspector shows what results.      *)
Render(ns, es, sel, fm) ==
  /\ nodes' = ns /\ edges' = es
  /\ edits' = IF toWire(ns, es) = toWire(nodes, edges) THEN edits ELSE edits + 1
  /\ selection' = Reported(sel, ns, es)
  /\ form' = Inspector(selection', ns, schemas, fm)

Follows == strayed' = (strayed /\ selection' = selection)
HasTime == edits + asked < MaxWork

----------------------------------------------------------------------------
(* The canvas.                                                             *)

(* Mutants: the first node dropped is the start; idSeq is not counted.     *)
DroppedFirst(type) ==
  [id |-> <<type, idSeq>>, type |-> type, config |-> [f \in {} |-> 0],
   start |-> idSeq = 1, selected |-> FALSE]

Dropped(type) ==
  [id |-> <<type, idSeq>>, type |-> type, config |-> [f \in {} |-> 0],
   start |-> DOMAIN nodes = {}, selected |-> FALSE]

onDropNodeUncounted(type) ==
  /\ HasTime /\ type \in schemas
  /\ Render(Push(nodes, Dropped(type)), edges, selection, form)
  /\ Follows /\ UNCHANGED <<schemas, results, requests, idSeq>>

onDropNode(type) ==
  /\ HasTime /\ type \in schemas
  /\ idSeq' = idSeq + 1
  /\ Render(Push(nodes, Dropped(type)), edges, selection, form)
  /\ Follows /\ UNCHANGED <<schemas, results, requests>>

(* A mutant: the two are compared the wrong way round.                     *)
ConnectedBack(source, target) ==
  \E k \in DOMAIN edges : edges[k].source = target /\ edges[k].target = source

Connected(source, target) ==
  \E k \in DOMAIN edges : edges[k].source = source /\ edges[k].target = target

Drawn(source, target) ==
  [id |-> DrawnEdgeId(source, target), source |-> source, target |-> target,
   priority |-> 0, condition |-> "", selected |-> FALSE]

(* addEdge leaves the edges as they are if these two are connected.        *)
onConnect(source, target) ==
  /\ HasTime /\ ~Connected(source, target)
  /\ Render(nodes, Push(edges, Drawn(source, target)), selection, form)
  /\ Follows /\ UNCHANGED <<schemas, results, requests, idSeq>>

(* Clicks, keys and the selection box change the flag of an id where the   *)
(* one React Flow finds is not as it should be, and Escape and a click on  *)
(* the pane change what is marked; a change concerns all holders of an id. *)
(* An edge that misses an end is not drawn.                                *)
Mark(elements, changed, ids) ==
  [k \in DOMAIN elements |->
     IF elements[k].id \in changed
       THEN [elements[k] EXCEPT !.selected = elements[k].id \in ids] ELSE elements[k]]
DrawnEdges ==
  {edges[k].id : k \in {j \in DOMAIN edges : {edges[j].source, edges[j].target} \subseteq NodeIds(nodes)}}

Changed(elements, ids) ==
  LET reported == ReportedIds(elements) IN (reported \ ids) \cup (ids \ reported)
SelectOnCanvas(nodeIds, edgeIds) ==
  /\ Cardinality(nodeIds) + Cardinality(edgeIds) <= MaxSelected
  /\ Render(Mark(nodes, Changed(nodes, nodeIds), nodeIds),
            Mark(edges, Changed(edges, edgeIds), edgeIds), selection, form)
  /\ Follows /\ UNCHANGED <<schemas, results, requests, idSeq>>

ClearSelection ==
  /\ Render(Mark(nodes, MarkedIds(nodes), {}), Mark(edges, MarkedIds(edges), {}), selection, form)
  /\ Follows /\ UNCHANGED <<schemas, results, requests, idSeq>>

(* The Delete and Backspace keys remove what is marked, and the edges that *)
(* touch a marked node.                                                    *)
DeleteKey ==
  LET nodeIds == MarkedIds(nodes)
      edgeIds == MarkedIds(edges)
  IN  /\ HasTime /\ (nodeIds # {} \/ edgeIds # {})
      /\ Render(Only(nodes, {k \in DOMAIN nodes : nodes[k].id \notin nodeIds}),
                Only(edges, {k \in DOMAIN edges : /\ edges[k].id \notin edgeIds
                                                  /\ ~Touches(edges[k], nodeIds)}),
                selection, form)
      /\ Follows /\ UNCHANGED <<schemas, results, requests, idSeq>>

----------------------------------------------------------------------------
(* The toolbar and the import dialog.                                      *)

doDeleteSelected ==
  /\ HasTime /\ selection # Nothing
  /\ LET out == removeSelection(nodes, edges, selection)
     IN  Render(out.nodes, out.edges, Nothing, form)
  /\ Follows /\ UNCHANGED <<schemas, results, requests, idSeq>>

(* The dialog hands on a document.  Its own state is left out: while it is *)
(* open it covers the page but does not hold the focus, so that the        *)
(* keyboard works on behind it, and a text that is no JSON, or no document,*)
(* makes fromWire throw before anything is set.                            *)
doImport(g) ==
  /\ HasTime
  /\ errors' = {} /\ about' = Unvalidated
  /\ LET canvas == fromWire(g)
     IN  Render(canvas.nodes, canvas.edges, selection, form)
  /\ Follows /\ UNCHANGED <<schemas, requests, idSeq>>

(* Validate sends the graph of the moment and waits.                       *)
doValidate ==
  /\ HasTime /\ asked < MaxRequests /\ asked' = asked + 1
  /\ flight' = Push(flight, [graph |-> toWire(nodes, edges), at |-> edits])
  /\ UNCHANGED <<schemas, data, view, results, idSeq>>

Answered(r) == flight' = Only(flight, DOMAIN flight \ {r}) /\ UNCHANGED asked

ValidateAnswers(r) ==
  /\ \E errs \in ValidateGraph(flight[r].graph) : errors' = errs
  /\ about' = flight[r].at
  /\ Answered(r) /\ UNCHANGED <<schemas, data, view, idSeq>>

ValidateFails(r) ==
  Answered(r) /\ UNCHANGED <<schemas, data, view, results, idSeq>>

LoadSchemas ==
  /\ schemas = {} /\ schemas' = Types
  /\ form' = Inspector(selection, nodes, Types, form)
  /\ UNCHANGED <<data, selection, strayed, results, requests, idSeq>>

----------------------------------------------------------------------------
(* The error panel and the inspector.                                      *)

FocusNode(id) ==
  /\ Render(Mark(nodes, NodeIds(nodes), {id}), edges, NodeSelection(id), form)
  /\ strayed' = \/ strayed /\ selection' = selection
                \/ selection' # Canvas(nodes', edges')
  /\ UNCHANGED <<schemas, results, requests, idSeq>>

FocusEdge(k) ==
  /\ Render(nodes, edges, EdgeSelection(edges[k].id), form)
  /\ strayed' = \/ strayed /\ selection' = selection
                \/ selection' # Canvas(nodes', edges')
  /\ UNCHANGED <<schemas, results, requests, idSeq>>

(* The target of an error: its node, or the edge that is now at its index. *)
focusTarget(t) ==
  \/ t.kind = "node" /\ FocusNode(t.id)
  \/ t.kind = "edge" /\ \E k \in DOMAIN edges : Index(k, DOMAIN edges) = t.index /\ FocusEdge(k)

(* The error panel lists errors; a click on one focuses its target.        *)
ClickError == \E e \in errors : focusTarget(mapError(e))

updateNodeData(id, config) ==
  [k \in DOMAIN nodes |-> IF nodes[k].id = id THEN [nodes[k] EXCEPT !.config = config]
                                             ELSE nodes[k]]
updateEdgeData(id, patch) ==
  [k \in DOMAIN edges |->
     IF edges[k].id = id
       THEN [edges[k] EXCEPT !.priority = patch.priority, !.condition = patch.condition]
       ELSE edges[k]]

ShownNode == nodes[First(Holders(nodes, form.on))]

EditField(f, v) ==
  /\ HasTime
  /\ Render(updateNodeData(form.on, Set(ShownNode.config, f, v)), edges, selection, form)
  /\ Follows /\ UNCHANGED <<schemas, results, requests, idSeq>>

TypeRawJson(f, text) ==
  /\ HasTime /\ form' = TypeText(form, f, text)
  /\ UNCHANGED <<schemas, data, selection, strayed, results, requests, idSeq>>

(* commit, on every blur: what was not typed in is written too.            *)
BlurRawJson(f) ==
  /\ HasTime
  /\ LET config == Set(ShownNode.config, f, form.text[f])
         ns == IF form.text[f] = Garbled THEN nodes ELSE updateNodeData(form.on, config)
     IN  Render(ns, edges, selection, Blurred(form, f))
  /\ Follows /\ UNCHANGED <<schemas, results, requests, idSeq>>

(* EdgeForm hands on one new value together with the other one shown.      *)
EdgeForm(e) ==
  [priority : NumberField, condition : {e.condition}]
    \cup [priority : {e.priority}, condition : Conditions]

EditEdge ==
  /\ HasTime /\ selection.kind = "edge"
  /\ LET holders == Holders(edges, selection.id)
     IN  /\ holders # {}
         /\ \E patch \in EdgeForm(edges[First(holders)]) :
              Render(nodes, updateEdgeData(selection.id, patch), selection, form)
  /\ Follows /\ UNCHANGED <<schemas, results, requests, idSeq>>

EditForm ==
  /\ form # NoForm
  /\ \/ \E f \in Schema[ShownNode.type] :
          \E v \in FieldWidget(f, ShownNode.config) : EditField(f, v)
     \/ \E f \in DOMAIN form.text :
          \/ \E text \in Json \cup {Garbled} : TypeRawJson(f, text)
          \/ BlurRawJson(f)

----------------------------------------------------------------------------
(* What the user does, and what the server answers.                        *)
UserStep ==
  \/ \E type \in Types : onDropNode(type)
  \/ \E source, target \in NodeIds(nodes) : onConnect(source, target)
  \/ \E nodeIds \in SUBSET NodeIds(nodes), edgeIds \in SUBSET DrawnEdges :
       SelectOnCanvas(nodeIds, edgeIds)
  \/ ClearSelection
  \/ DeleteKey
  \/ doDeleteSelected
  \/ doValidate
  \/ ClickError
  \/ EditForm
  \/ EditEdge

Next ==
  \/ UserStep
  \/ \E g \in Imports : doImport(g)
  \/ \E r \in DOMAIN flight : ValidateAnswers(r) \/ ValidateFails(r)
  \/ LoadSchemas

Spec == Init /\ [][Next]_vars

----------------------------------------------------------------------------
(* What the variables hold.                                                *)
EdgeIds == {"e", "xy-edge__"} \X Nat \X (Ids \cup {Blank}) \X (Ids \cup {Blank})
IsNode(n) == n.id \in Ids /\ n.type \in Names /\ IsConfig(n.config)
             /\ n.start \in BOOLEAN /\ n.selected \in BOOLEAN
IsEdge(e) == e.id \in EdgeIds /\ e.source \in Ids \cup {Blank} /\ e.target \in Ids \cup {Blank}
             /\ e.priority \in Numbers /\ e.condition \in Conditions /\ e.selected \in BOOLEAN

TypeOK ==
  /\ schemas \in {{}, Types} /\ idSeq \in Nat \ {0}
  /\ DOMAIN nodes \subseteq Nat /\ \A k \in DOMAIN nodes : IsNode(nodes[k])
  /\ DOMAIN edges \subseteq Nat /\ \A k \in DOMAIN edges : IsEdge(edges[k])
  /\ selection.kind \in {"none", "node", "edge"}
  /\ selection.kind = "node" => selection.id \in Ids
  /\ selection.kind = "edge" => selection.id \in EdgeIds
  /\ edits \in Nat /\ asked \in Nat /\ about \in Nat /\ strayed \in BOOLEAN
  /\ \A r \in DOMAIN flight : flight[r].at \in Nat
  /\ form # NoForm =>
       /\ selection = NodeSelection(form.on) /\ Holders(nodes, form.on) # {}
       /\ DOMAIN form.text = RawFields(ShownNode.type)
       /\ \A f \in DOMAIN form.text : form.text[f] \in Json \cup {Garbled}
       /\ form.dirty \subseteq DOMAIN form.text /\ form.invalid \subseteq DOMAIN form.text

(* No sequence of drops, imports and deletions makes two start nodes, of   *)
(* which the document could name one only (onDropNode, fromWire).          *)
OneStart == \A j, k \in DOMAIN nodes : nodes[j].start /\ nodes[k].start => j = k

(* Nodes and edges are edited and deleted by id: no two edges ever share   *)
(* one, however imports, drawing and deletions follow each other.          *)
EdgeIdsUnique == \A j, k \in DOMAIN edges : edges[j].id = edges[k].id => j = k

(* idSeq starts anew with the page, and the ids of an imported document    *)
(* may be of the form it makes: a dropped node may get the id of an        *)
(* imported one, but never of a second.                                    *)
AtMostTwins == \A id \in NodeIds(nodes) : Cardinality(Holders(nodes, id)) <= 2

(* README: "Deleting a node also removes its connected edges."  Whichever  *)
(* way nodes go, only an import can bring an edge that misses an end.      *)
Dangling(ns, es) ==
  {es[k].id : k \in {j \in DOMAIN es : ~({es[j].source, es[j].target} \subseteq NodeIds(ns))}}
NoNewDangling ==
  [][Dangling(nodes', edges') \subseteq Dangling(nodes, edges) \/ \E g \in Imports : doImport(g)]_data

(* What passes for an error on the canvas itself.                          *)
UniqueIds == \A j, k \in DOMAIN nodes : nodes[j].id = nodes[k].id => j = k
FaultyNode(n) == BadNode([Type |-> n.type, Config |-> n.config])
FaultyEdge(e) ==
  \/ e.priority \in Fractions
  \/ e.condition \in BadConditions
  \/ \E end \in {e.source, e.target} : end # Blank /\ end \notin NodeIds(nodes)

(* An empty error list is about the graph on the canvas if it has not      *)
(* changed since Validate was clicked: then the graph has a start, its     *)
(* edges join its nodes and every node, condition and priority is          *)
(* acceptable, on the canvas and not only in the document.  Ids that clash *)
(* are excepted: the document then lacks a node.                           *)
NoErrorsMeansSound ==
  about = edits /\ errors = {} /\ UniqueIds =>
    /\ \E k \in DOMAIN nodes : nodes[k].start
    /\ \A k \in DOMAIN nodes : ~FaultyNode(nodes[k])
    /\ \A k \in DOMAIN edges : ~FaultyEdge(edges[k])

(* README: "click an error to focus its element."  While the graph is the  *)
(* one that was validated, the element selected is one with the fault; a   *)
(* later edit shifts indices and takes nodes away.                         *)
Faulty(sel) ==
  \/ \E k \in DOMAIN nodes : sel = NodeSelection(nodes[k].id) /\ FaultyNode(nodes[k])
  \/ \E k \in DOMAIN edges : sel = EdgeSelection(edges[k].id) /\ FaultyEdge(edges[k])
FocusFindsFault ==
  [][about = edits /\ UniqueIds =>
       \A e \in errors : focusTarget(mapError(e)) => Faulty(selection')]_vars

(* The inspector and the Delete button mean what is marked on the canvas,  *)
(* which is what the Delete key takes, through deletions by either, drops  *)
(* and imports; an edge only while React Flow reports no node.  Excepted   *)
(* is a user who got there from an error that names something not marked.  *)
SelectionFromCanvas ==
  \/ strayed
  \/ selection = Nothing
  \/ selection.kind = "node" /\ selection.id \in MarkedIds(nodes)
  \/ selection.kind = "edge" /\ selection.id \in MarkedIds(edges) /\ Reports(nodes) = {}

(* RawJsonField: a widget keeps its text, so it must be mounted anew when  *)
(* another node is edited, "otherwise stale JSON would persist".  A text   *)
(* that is neither being typed nor invalid is the value in the config of   *)
(* the node on display, so that a blur writes nothing else.  A selection   *)
(* that strayed may survive imports under the same id.                     *)
TextIsConfig ==
  form # NoForm /\ ~strayed =>
    \A f \in DOMAIN form.text \ (form.dirty \cup form.invalid) :
      form.text[f] = Get(ShownNode.config, f, "null")

(* graph.test.ts: an imported document is exported "without losing data".  *)
(* What the canvas has room for comes back, every node and edge in its     *)
(* place; lost is what graph.ts and types.ts leave out, and that only:     *)
(* MaxSteps, the labels of edges, what only the Go types name, and a       *)
(* StartAt that names no node.                                             *)
Kept(g) ==
  [ StartAt |-> IF Unknown(g, g.StartAt) THEN Blank ELSE g.StartAt,
    Nodes |-> [k \in DOMAIN g.Nodes |-> [g.Nodes[k] EXCEPT !.Rest = ""]],
    Edges |-> [k \in DOMAIN g.Edges |-> [g.Edges[k] EXCEPT !.Label = ""]],
    MaxSteps |-> 0, Rest |-> "" ]
ImportExport ==
  [][\A g \in Imports : doImport(g) => toWire(nodes', edges') = Kept(g)]_vars
=============================================================================
