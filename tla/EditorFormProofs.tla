-------------------------- MODULE EditorFormProofs --------------------------
(***************************************************************************)
(* The graph editor, continued: what is selected, the ids of nodes, the    *)
(* texts of the config form, and types.                                    *)
(***************************************************************************)
EXTENDS EditorProofs

(* The selection: reported by the canvas, kept while what is marked stays. *)
FromCanvas(sel, ns, es) ==
  \/ sel = Nothing
  \/ sel.kind = "node" /\ sel.id \in ReportedIds(ns)
  \/ sel.kind = "edge" /\ sel.id \in ReportedIds(es) /\ Reports(ns) = {}

LEMMA ReportsEmpty == ASSUME NEW es PROVE ReportedIds(es) = {} <=> Reports(es) = {}
<1> DEFINE R == Reports(es)
<1>1. {es[k].id : k \in R} = {} <=> R = {}
  OBVIOUS
<1> QED BY <1>1 DEF ReportedIds

LEMMA CanvasMarked ==
  ASSUME NEW ns, NEW es, DOMAIN ns \subseteq Nat, DOMAIN es \subseteq Nat
  PROVE  FromCanvas(Canvas(ns, es), ns, es)
<1>1. CASE Reports(ns) # {}
  <2>1. First(Reports(ns)) \in Reports(ns)
    BY <1>1, FirstOf DEF Reports
  <2> QED BY <1>1, <2>1 DEF Canvas, FromCanvas, NodeSelection, ReportedIds
<1>2. CASE Reports(ns) = {} /\ Reports(es) # {}
  <2>1. First(Reports(es)) \in Reports(es)
    BY <1>2, FirstOf DEF Reports
  <2> QED BY <1>2, <2>1 DEF Canvas, FromCanvas, EdgeSelection, ReportedIds
<1>3. CASE Reports(ns) = {} /\ Reports(es) = {}
  BY <1>3 DEF Canvas, FromCanvas
<1> QED BY <1>1, <1>2, <1>3

(* If a handler passes on a selection that is from the canvas, the result  *)
(* of rendering is.                                                        *)
LEMMA RenderedFromCanvas ==
  ASSUME Arrays', NEW ns, NEW es, NEW sel, NEW fm, Render(ns, es, sel, fm),
         FromCanvas(sel, nodes, edges)
  PROVE  FromCanvas(selection', nodes', edges')
<1>1. nodes' = ns /\ edges' = es /\ selection' = Reported(sel, ns, es)
  BY DEF Render
<1>2. DOMAIN ns \subseteq Nat /\ DOMAIN es \subseteq Nat
  BY <1>1 DEF Arrays, IsArray
<1>3. CASE ReportedIds(ns) = ReportedIds(nodes) /\ ReportedIds(es) = ReportedIds(edges)
  <2>1. selection' = sel
    BY <1>1, <1>3 DEF Reported
  <2>2. Reports(ns) = {} <=> Reports(nodes) = {}
    BY <1>3, ReportsEmpty
  <2> QED BY <1>1, <1>3, <2>1, <2>2 DEF FromCanvas
<1>4. CASE ~(ReportedIds(ns) = ReportedIds(nodes) /\ ReportedIds(es) = ReportedIds(edges))
  <2>1. selection' = Canvas(ns, es)
    BY <1>1, <1>4 DEF Reported
  <2> QED BY <1>1, <1>2, <2>1, CanvasMarked
<1> QED BY <1>3, <1>4

(* One that strayed is kept, or what the canvas reports takes its place.   *)
LEMMA RenderedAnyway ==
  ASSUME Arrays', NEW ns, NEW es, NEW sel, NEW fm, Render(ns, es, sel, fm)
  PROVE  selection' = sel \/ FromCanvas(selection', nodes', edges')
<1>1. /\ nodes' = ns /\ edges' = es
      /\ selection' = sel \/ selection' = Canvas(ns, es)
  BY DEF Render, Reported
<1>2. DOMAIN ns \subseteq Nat /\ DOMAIN es \subseteq Nat
  BY <1>1 DEF Arrays, IsArray
<1> QED BY <1>1, <1>2, CanvasMarked

LEMMA FromCanvasAlways == Spec => [](strayed \/ FromCanvas(selection, nodes, edges))
<1> DEFINE Inv == strayed \/ FromCanvas(selection, nodes, edges)
<1>1. Init => Inv
  BY DEF Init, FromCanvas
<1>2. ASSUME Arrays, Inv, [Next]_vars PROVE Inv'
  <2>1. Arrays'
    BY <1>2, ArraysStep
  <2>2. ASSUME NEW ns, NEW es, NEW fm, Render(ns, es, selection, fm), Follows PROVE Inv'
    <3>1. CASE FromCanvas(selection, nodes, edges)
      BY <2>1, <2>2, <3>1, RenderedFromCanvas
    <3>2. CASE strayed
      BY <2>1, <2>2, <3>2, RenderedAnyway DEF Follows
    <3> QED BY <1>2, <3>1, <3>2
  <2>3. ASSUME UNCHANGED <<nodes, edges, selection, strayed>> PROVE Inv'
    BY <1>2, <2>3
  <2>4. ASSUME NEW id, FocusNode(id) PROVE Inv'
    <3>1. DOMAIN nodes' \subseteq Nat /\ DOMAIN edges' \subseteq Nat
      BY <2>1 DEF Arrays, IsArray
    <3>2. strayed' \/ selection' = Canvas(nodes', edges')
      BY <2>4 DEF FocusNode
    <3> QED BY <3>1, <3>2, CanvasMarked
  <2>5. ASSUME NEW k, FocusEdge(k) PROVE Inv'
    <3>1. DOMAIN nodes' \subseteq Nat /\ DOMAIN edges' \subseteq Nat
      BY <2>1 DEF Arrays, IsArray
    <3>2. strayed' \/ selection' = Canvas(nodes', edges')
      BY <2>5 DEF FocusEdge
    <3> QED BY <3>1, <3>2, CanvasMarked
  <2>6. ASSUME doDeleteSelected PROVE Inv'
    <3>1. FromCanvas(Nothing, nodes, edges)
      BY DEF FromCanvas
    <3>2. PICK ns, es : Render(ns, es, Nothing, form)
      BY <2>6 DEF doDeleteSelected
    <3> QED BY <2>1, <3>1, <3>2, RenderedFromCanvas
  <2> HIDE DEF Inv
  <2>7. ASSUME NEW type, onDropNode(type) PROVE Inv'
    BY <2>2, <2>7 DEF onDropNode
  <2>8. ASSUME NEW source, NEW target, onConnect(source, target) PROVE Inv'
    BY <2>2, <2>8 DEF onConnect
  <2>9. ASSUME Marking PROVE Inv'
    BY <2>2, <2>9 DEF Marking
  <2>10. ASSUME DeleteKey PROVE Inv'
    BY <2>2, <2>10 DEF DeleteKey
  <2>11. ASSUME NEW g, doImport(g) PROVE Inv'
    BY <2>2, <2>11 DEF doImport
  <2>12. ASSUME EditForm \/ EditEdge PROVE Inv'
    <3>1. ASSUME NEW f, NEW v, EditField(f, v) PROVE Inv'
      BY <2>2, <3>1 DEF EditField
    <3>2. ASSUME NEW f, NEW text, TypeRawJson(f, text) PROVE Inv'
      BY <2>3, <3>2 DEF TypeRawJson, data
    <3>3. ASSUME NEW f, BlurRawJson(f) PROVE Inv'
      BY <2>2, <3>3 DEF BlurRawJson
    <3>4. ASSUME EditEdge PROVE Inv'
      BY <2>2, <3>4 DEF EditEdge
    <3> QED BY <2>12, <3>1, <3>2, <3>3, <3>4 DEF EditForm
  <2>13. ASSUME LoadSchemas \/ doValidate \/ UNCHANGED vars
         PROVE  Inv'
    BY <2>3, <2>13
       DEF LoadSchemas, doValidate, vars, data, view
  <2>14. ASSUME NEW r, ValidateAnswers(r) \/ ValidateFails(r) PROVE Inv'
    BY <2>3, <2>14 DEF ValidateAnswers, ValidateFails, data, view
  <2>15. ASSUME NEW t, focusTarget(t) PROVE Inv'
    BY <2>4, <2>5, <2>15 DEF focusTarget
  <2>16. ASSUME UserStep PROVE Inv'
    <3>1. (ClearSelection \/ \E a, b : SelectOnCanvas(a, b)) => Inv'
      BY <2>9, SelectionMarks
    <3> QED BY <2>6, <2>7, <2>8, <2>10, <2>12, <2>13, <2>15, <2>16, <3>1
            DEF UserStep, ClickError
  <2> QED BY <1>2, <2>11, <2>13, <2>14, <2>16 DEF Next
<1> QED BY <1>1, <1>2, ArraysAlways, PTL DEF Spec

LEMMA ReportedMarked ==
  ASSUME NEW ns, IsArray(ns), NEW k \in DOMAIN ns, k \in Reports(ns)
  PROVE  ns[k].id \in MarkedIds(ns)
<1> DEFINE S == Holders(ns, ns[k].id)
<1>1. S \in SUBSET Nat /\ k \in S
  BY DEF Holders, IsArray
<1>2. \E m \in Nat : \A j \in S : j <= m
  BY DEF Holders, IsArray
<1>3. Last(S) \in S
  <2> HIDE DEF S
  <2> QED BY <1>1, <1>2, LastOf
<1>4. Last(S) \in Marked(ns) /\ ns[Last(S)].id = ns[k].id
  BY <1>3 DEF Reports, Marked, Holders
<1> HIDE DEF S
<1> QED BY <1>4 DEF MarkedIds

(* What the inspector shows and the Delete button removes is marked on the *)
(* canvas, unless it strayed: onSelectionChange follows every render that  *)
(* changes what React Flow finds selected.                                 *)
THEOREM EditorSelectionFromCanvas == Spec => []SelectionFromCanvas
<1>1. ASSUME Arrays, strayed \/ FromCanvas(selection, nodes, edges) PROVE SelectionFromCanvas
  <2>1. ASSUME NEW ns, IsArray(ns) PROVE ReportedIds(ns) \subseteq MarkedIds(ns)
    BY <2>1, ReportedMarked DEF ReportedIds, Reports
  <2> QED BY <1>1, <2>1 DEF FromCanvas, SelectionFromCanvas, Arrays
<1> QED BY <1>1, FromCanvasAlways, ArraysAlways, PTL

----------------------------------------------------------------------------
(* Ids of nodes: only a drop counts idSeq, and all other new nodes are     *)
(* imported.  A node that is not alone with its id has one of an earlier   *)
(* number, as a drop takes the number of the moment.                       *)
SeqStep ==
  \/ idSeq' = idSeq + 1 /\ \E type \in Types : nodes' = Push(nodes, Dropped(type))
  \/ idSeq' = idSeq /\ \E g \in Imports : nodes' = fromWire(g).nodes
  \/ idSeq' = idSeq /\ DOMAIN nodes' \subseteq DOMAIN nodes
       /\ \A k \in DOMAIN nodes' : nodes'[k].id = nodes[k].id

LEMMA SeqShape == ASSUME Arrays, [Next]_vars PROVE SeqStep
<1>1. ASSUME NEW type \in Types, onDropNode(type) PROVE SeqStep
  BY <1>1 DEF onDropNode, Render, SeqStep
<1>2. ASSUME NEW g \in Imports, doImport(g) PROVE SeqStep
  BY <1>2 DEF doImport, Render, SeqStep
<1>3. ASSUME idSeq' = idSeq, ConnectStep \/ DeleteStep \/ KeepStep PROVE SeqStep
  BY <1>3 DEF ConnectStep, DeleteStep, Only, KeepStep, SameNodes, SeqStep
<1> HIDE DEF SeqStep
<1>4. ASSUME NEW source \in NodeIds(nodes), NEW target \in NodeIds(nodes), onConnect(source, target)
      PROVE  SeqStep
  BY <1>3, <1>4 DEF onConnect, Render, ConnectStep
<1>5. ASSUME Marking PROVE SeqStep
  <2>1. KeepStep
    BY <1>5, MarkKeeps, MarkIsFunction, KeepRendered DEF Marking
  <2>2. idSeq' = idSeq
    BY <1>5 DEF Marking
  <2> QED BY <1>3, <2>1, <2>2
<1>6. ASSUME DeleteKey \/ doDeleteSelected PROVE SeqStep
  BY <1>3, <1>6, DeleteShape DEF DeleteKey, doDeleteSelected
<1>7. ASSUME NEW t, focusTarget(t) PROVE SeqStep
  <2>1. idSeq' = idSeq
    BY <1>7 DEF focusTarget, FocusNode, FocusEdge
  <2> QED BY <1>3, <1>7, <2>1, FocusKeeps
<1>8. ASSUME EditForm \/ EditEdge PROVE SeqStep
  <2>1. ASSUME NEW f, NEW v, EditField(f, v) PROVE idSeq' = idSeq
    BY <2>1 DEF EditField
  <2>2. ASSUME NEW f, NEW text, TypeRawJson(f, text) PROVE idSeq' = idSeq
    BY <2>2 DEF TypeRawJson
  <2>3. ASSUME NEW f, BlurRawJson(f) PROVE idSeq' = idSeq
    BY <2>3 DEF BlurRawJson
  <2>4. ASSUME EditEdge PROVE idSeq' = idSeq
    BY <2>4 DEF EditEdge
  <2>5. idSeq' = idSeq
    BY <1>8, <2>1, <2>2, <2>3, <2>4 DEF EditForm
  <2> QED BY <1>3, <1>8, <2>5, FormKeeps
<1>9. ASSUME LoadSchemas \/ doValidate \/ UNCHANGED vars
      PROVE  SeqStep
  <2>1. UNCHANGED data /\ idSeq' = idSeq
    BY <1>9 DEF LoadSchemas, doValidate, vars
  <2> QED BY <1>3, <2>1, KeepData
<1>10. ASSUME NEW r, ValidateAnswers(r) \/ ValidateFails(r) PROVE SeqStep
  <2>1. UNCHANGED data /\ idSeq' = idSeq
    BY <1>10 DEF ValidateAnswers, ValidateFails
  <2> QED BY <1>3, <2>1, KeepData
<1>11. ASSUME UserStep PROVE SeqStep
  <2>1. (ClearSelection \/ \E a, b : SelectOnCanvas(a, b)) => SeqStep
    BY <1>5, SelectionMarks
  <2> QED BY <1>1, <1>4, <1>6, <1>7, <1>8, <1>9, <1>11, <2>1 DEF UserStep, ClickError
<1> QED BY <1>2, <1>9, <1>10, <1>11 DEF Next

Twins ==
  /\ idSeq \in Nat \ {0}
  /\ \A k \in DOMAIN nodes : nodes[k].id \in Ids
  /\ \A j, k \in DOMAIN nodes : nodes[j].id = nodes[k].id /\ j # k => nodes[k].id[2] < idSeq
  /\ \A i, j, k \in DOMAIN nodes :
       nodes[i].id = nodes[j].id /\ nodes[j].id = nodes[k].id => i = j \/ i = k \/ j = k

LEMMA TwinsStep == ASSUME Arrays, Twins, [Next]_vars PROVE Twins'
<1>1. ASSUME idSeq' = idSeq + 1, NEW type \in Types, nodes' = Push(nodes, Dropped(type))
      PROVE  Twins'
  <2>1. PICK new \in Nat : Pushed(nodes, Dropped(type), nodes', new)
    BY <1>1, PushOf DEF Arrays
  <2>2. /\ nodes'[new].id = <<type, idSeq>> /\ DOMAIN nodes' = DOMAIN nodes \cup {new}
        /\ \A k \in DOMAIN nodes : nodes'[k].id = nodes[k].id /\ k # new
    BY <2>1 DEF Pushed, Dropped
  <2>3. <<type, idSeq>> \in Ids
    BY GraphModelAssumption DEF GraphModelAssumption, Ids, Twins
  <2>4. \A id \in Ids : id[2] \in Nat
    BY DEF Ids
  <2>5. \A k \in DOMAIN nodes' : nodes'[k].id \in Ids
    BY <2>2, <2>3 DEF Twins
  <2>6. \A j, k \in DOMAIN nodes' : nodes'[j].id = nodes'[k].id /\ j # k => nodes'[k].id[2] < idSeq + 1
    BY <2>2, <2>4, <2>5 DEF Twins
  <2>7. ASSUME NEW i \in DOMAIN nodes', NEW j \in DOMAIN nodes', NEW k \in DOMAIN nodes',
               nodes'[i].id = nodes'[j].id, nodes'[j].id = nodes'[k].id,
               i # j, i # k, j # k
        PROVE  FALSE
    <3>1. CASE new \notin {i, j, k}
      BY <2>2, <2>7, <3>1 DEF Twins
    <3>2. CASE new \in {i, j, k}
      <4>1. PICK a \in {i, j, k}, b \in {i, j, k} : a # b /\ a # new /\ b # new
        BY <2>7
      <4>2. /\ a \in DOMAIN nodes /\ b \in DOMAIN nodes /\ nodes[a].id = nodes[b].id
            /\ nodes[b].id[2] = idSeq
        BY <2>2, <2>7, <3>2, <4>1
      <4> QED BY <4>1, <4>2 DEF Twins
    <3> QED BY <3>1, <3>2
  <2>8. idSeq' \in Nat \ {0}
    BY <1>1 DEF Twins
  <2> QED BY <1>1, <2>5, <2>6, <2>7, <2>8 DEF Twins
<1>2. ASSUME idSeq' = idSeq, NEW g \in Imports, nodes' = fromWire(g).nodes PROVE Twins'
  <2>1. /\ DOMAIN nodes' = DOMAIN g.Nodes
        /\ \A k \in DOMAIN nodes' : nodes'[k].id = g.Nodes[k].Id
    BY <1>2 DEF fromWire
  <2>2. \A k \in DOMAIN g.Nodes :
          g.Nodes[k].Id \in Ids /\ \A j \in DOMAIN g.Nodes : g.Nodes[j].Id = g.Nodes[k].Id => j = k
    BY EditorAssumption DEF EditorAssumption, IsDocument
  <2> QED BY <1>2, <2>1, <2>2 DEF Twins
<1>3. ASSUME idSeq' = idSeq, DOMAIN nodes' \subseteq DOMAIN nodes,
             \A k \in DOMAIN nodes' : nodes'[k].id = nodes[k].id
      PROVE  Twins'
  BY <1>3 DEF Twins
<1> QED BY <1>1, <1>2, <1>3, SeqShape DEF SeqStep

LEMMA AtMostTwo ==
  ASSUME NEW S, IsFiniteSet(S), \A i, j, k \in S : i = j \/ i = k \/ j = k
  PROVE  Cardinality(S) <= 2
<1>1. CASE S = {}
  BY <1>1, FS_EmptySet
<1>2. CASE S # {}
  <2>1. PICK a \in S : TRUE
    BY <1>2
  <2>2. PICK b \in S : S = {a, b}
    <3>1. CASE S = {a}
      BY <3>1
    <3>2. CASE S # {a}
      BY <3>2
    <3> QED BY <3>1, <3>2
  <2>3. IsFiniteSet({a}) /\ Cardinality({a}) = 1
    BY FS_Singleton
  <2>4. CASE b = a
    BY <2>2, <2>3, <2>4
  <2>5. CASE b # a
    <3>1. Cardinality({a} \cup {b}) = Cardinality({a}) + 1
      BY <2>3, <2>5, FS_AddElement
    <3> QED BY <2>2, <2>3, <3>1
  <2> QED BY <2>4, <2>5
<1> QED BY <1>1, <1>2

(* No id is held by more than two nodes: idSeq gives each number to one    *)
(* dropped node, and a document has an id once.                            *)
THEOREM EditorAtMostTwins == Spec => []AtMostTwins
<1>1. Init => Twins
  BY DEF Init, Twins
<1>2. ASSUME Arrays, Twins PROVE AtMostTwins
  <2>1. ASSUME NEW id PROVE Cardinality(Holders(nodes, id)) <= 2
    <3>1. IsFiniteSet(Holders(nodes, id))
      BY <1>2, ArrayFinite, FS_Subset DEF Arrays, Holders
    <3>2. \A i, j, k \in Holders(nodes, id) : i = j \/ i = k \/ j = k
      BY <1>2 DEF Twins, Holders
    <3> QED BY <3>1, <3>2, AtMostTwo
  <2> QED BY <2>1 DEF AtMostTwins
<1> QED BY <1>1, <1>2, ArraysAlways, TwinsStep, PTL DEF Spec

----------------------------------------------------------------------------
(* The config form: of the node that the inspector shows, and with its     *)
(* config in every text that was not typed in.                             *)
Agrees(fm, ns) ==
  \A f \in DOMAIN fm.text \ (fm.dirty \cup fm.invalid) :
    fm.text[f] = Get(ns[First(Holders(ns, fm.on))].config, f, "null")
IsForm(fm) ==
  DOMAIN fm = {"on", "text", "dirty", "invalid"} /\ \A f \in DOMAIN fm.text : FieldType[f] = "raw"
IsSelection(sel) == sel.kind = "node" => sel = NodeSelection(sel.id)

FormOfShown ==
  /\ IsSelection(selection)
  /\ form # NoForm =>
       /\ IsForm(form) /\ selection = NodeSelection(form.on) /\ Holders(nodes, form.on) # {}
       /\ strayed \/ Agrees(form, nodes)

LEMMA MountAgrees ==
  ASSUME NEW ns, NEW id, First(Holders(ns, id)) \in Holders(ns, id)
  PROVE  LET fm == Mount(ns[First(Holders(ns, id))])
         IN  IsForm(fm) /\ fm.on = id /\ Agrees(fm, ns)
<1> DEFINE n == ns[First(Holders(ns, id))]
           fm == Mount(n)
<1>1. n.id = id
  BY DEF Holders
<1>2. /\ DOMAIN fm = {"on", "text", "dirty", "invalid"} /\ fm.on = n.id
      /\ fm.text = [f \in RawFields(n.type) |-> Get(n.config, f, "null")]
  BY DEF Mount, FormFor
<1> HIDE DEF fm
<1>3. DOMAIN fm.text = RawFields(n.type) /\ \A f \in DOMAIN fm.text : fm.text[f] = Get(n.config, f, "null")
  BY <1>2
<1>4. \A f \in RawFields(n.type) : FieldType[f] = "raw"
  BY DEF RawFields
<1> HIDE DEF n
<1>5. IsForm(fm) /\ fm.on = id
  BY <1>1, <1>2, <1>3, <1>4 DEF IsForm
<1>6. Agrees(fm, ns)
  BY <1>3, <1>5 DEF Agrees, n
<1> QED BY <1>5, <1>6 DEF fm, n

LEMMA KeepAgrees ==
  ASSUME NEW ns, NEW fm, IsForm(fm), First(Holders(ns, fm.on)) \in Holders(ns, fm.on)
  PROVE  LET gm == Keep(fm, ns[First(Holders(ns, fm.on))])
         IN  IsForm(gm) /\ gm.on = fm.on /\ (Agrees(fm, ns) => Agrees(gm, ns))
<1> DEFINE n == ns[First(Holders(ns, fm.on))]
           kept == DOMAIN fm.text \cap RawFields(n.type)
           gm == Keep(fm, n)
<1>1. n.id = fm.on
  BY DEF Holders
<1>2. /\ DOMAIN gm = {"on", "text", "dirty", "invalid"} /\ gm.on = n.id
      /\ gm.text = [f \in RawFields(n.type) |->
                      IF f \in kept THEN fm.text[f] ELSE Get(n.config, f, "null")]
      /\ gm.dirty = fm.dirty \cap kept /\ gm.invalid = fm.invalid \cap kept
  BY DEF Keep, FormFor
<1> HIDE DEF gm
<1>3. \A f \in RawFields(n.type) : FieldType[f] = "raw"
  BY DEF RawFields
<1>4. Agrees(fm, ns) =>
        \A f \in DOMAIN fm.text \ (fm.dirty \cup fm.invalid) : fm.text[f] = Get(n.config, f, "null")
  BY DEF Agrees
<1> HIDE DEF n
<1>5. IsForm(gm) /\ gm.on = fm.on
  BY <1>1, <1>2, <1>3 DEF IsForm
<1>6. Agrees(fm, ns) =>
        \A f \in DOMAIN gm.text \ (gm.dirty \cup gm.invalid) : gm.text[f] = Get(n.config, f, "null")
  BY <1>2, <1>4
<1>7. Agrees(fm, ns) => Agrees(gm, ns)
  BY <1>5, <1>6 DEF Agrees, n
<1> QED BY <1>5, <1>7 DEF gm, n

(* The form on display after a step is a fresh one, or the form as the     *)
(* step leaves it.                                                         *)
LEMMA InspectorAgrees ==
  ASSUME NEW sel, NEW ns, NEW sch, NEW fm, DOMAIN ns \subseteq Nat,
         IsSelection(sel), fm # NoForm => IsForm(fm), Inspector(sel, ns, sch, fm) # NoForm
  PROVE  LET gm == Inspector(sel, ns, sch, fm)
         IN  /\ IsForm(gm) /\ sel = NodeSelection(gm.on) /\ Holders(ns, gm.on) # {}
             /\ \/ Agrees(gm, ns)
                \/ fm # NoForm /\ sel = NodeSelection(fm.on) /\ ~Agrees(fm, ns)
<1> DEFINE gm == Inspector(sel, ns, sch, fm)
           shown == {k \in Shown(sel, ns) : ns[k].type \in sch}
           first == First(Holders(ns, sel.id))
<1>1. shown # {} /\ sel.kind = "node"
  BY DEF Inspector, Shown
<1>2. \A k \in shown : k = first /\ k \in Holders(ns, sel.id)
  BY <1>1 DEF Shown
<1>3. shown = {first} /\ first \in Holders(ns, sel.id) /\ first \in Nat
  <2> HIDE DEF shown, first
  <2>1. PICK k \in shown : TRUE
    BY <1>1
  <2> QED BY <1>2, <2>1 DEF Holders
<1>4. First(shown) = first
  <2> HIDE DEF shown, first
  <2>1. first <= first
    BY <1>3
  <2>2. First({first}) = first
    BY <2>1, LastOfOne
  <2> QED BY <1>3, <2>2
<1>5. gm = IF fm # NoForm /\ fm.on = ns[first].id THEN Keep(fm, ns[first]) ELSE Mount(ns[first])
  <2> HIDE DEF first
  <2> QED BY <1>1, <1>4 DEF Inspector
<1>6. ns[first].id = sel.id /\ sel = NodeSelection(sel.id)
  BY <1>1, <1>3 DEF Holders, IsSelection
<1> HIDE DEF shown
<1>7. CASE fm # NoForm /\ fm.on = ns[first].id
  <2>1. gm = Keep(fm, ns[First(Holders(ns, fm.on))]) /\ fm.on = sel.id
    BY <1>5, <1>6, <1>7
  <2>2. IsForm(gm) /\ gm.on = fm.on /\ (Agrees(fm, ns) => Agrees(gm, ns))
    BY <1>3, <1>7, <2>1, KeepAgrees
  <2> QED BY <1>3, <1>6, <1>7, <2>1, <2>2
<1>8. CASE ~(fm # NoForm /\ fm.on = ns[first].id)
  <2>1. gm = Mount(ns[First(Holders(ns, sel.id))])
    BY <1>5, <1>8
  <2>2. IsForm(gm) /\ gm.on = sel.id /\ Agrees(gm, ns)
    BY <1>3, <2>1, MountAgrees
  <2> QED BY <1>3, <1>6, <2>2
<1> QED BY <1>7, <1>8

LEMMA RenderedAgrees ==
  ASSUME Arrays', NEW ns, NEW es, NEW sel, NEW fm, Render(ns, es, sel, fm),
         IsSelection(sel), fm # NoForm => IsForm(fm),
         \/ fm = NoForm \/ selection' # NodeSelection(fm.on) \/ Holders(ns, fm.on) = {}
         \/ strayed' \/ Agrees(fm, ns)
  PROVE  FormOfShown'
<1>1. /\ nodes' = ns /\ form' = Inspector(selection', ns, schemas, fm)
      /\ selection' = sel \/ selection' = Canvas(ns, es)
  BY DEF Render, Reported
<1>2. IsSelection(selection')
  BY <1>1 DEF Canvas, IsSelection, NodeSelection, EdgeSelection, Nothing
<1>3. DOMAIN ns \subseteq Nat
  BY <1>1 DEF Arrays, IsArray
<1>4. ASSUME form' # NoForm
      PROVE  /\ IsForm(form') /\ selection' = NodeSelection(form'.on) /\ Holders(ns, form'.on) # {}
             /\ \/ Agrees(form', ns)
                \/ fm # NoForm /\ selection' = NodeSelection(fm.on) /\ ~Agrees(fm, ns)
  BY <1>1, <1>2, <1>3, <1>4, InspectorAgrees
<1>5. \A a, b : NodeSelection(a) = NodeSelection(b) => a = b
  <2> TAKE a, b
  <2> HAVE NodeSelection(a) = NodeSelection(b)
  <2>1. NodeSelection(a).id = a /\ NodeSelection(b).id = b
    BY DEF NodeSelection
  <2> QED BY <2>1
<1>6. ASSUME form' # NoForm PROVE strayed' \/ Agrees(form', ns)
  BY <1>4, <1>5, <1>6
<1> QED BY <1>1, <1>2, <1>4, <1>6 DEF FormOfShown

(* Whatever keeps the configs keeps the agreement.                         *)
LEMMA AgreesSame ==
  ASSUME NEW fm, NEW ns, Agrees(fm, nodes),
         First(Holders(ns, fm.on)) = First(Holders(nodes, fm.on)),
         LET k == First(Holders(nodes, fm.on)) IN ns[k].config = nodes[k].config
  PROVE  Agrees(fm, ns)
BY DEF Agrees

LEMMA MarkAgrees ==
  ASSUME Arrays, NEW fm, Agrees(fm, nodes), Holders(nodes, fm.on) # {},
         NEW changed, NEW ids
  PROVE  Agrees(fm, Mark(nodes, changed, ids))
<1> DEFINE ns == Mark(nodes, changed, ids)
<1>1. /\ DOMAIN ns = DOMAIN nodes
      /\ \A k \in DOMAIN nodes : ns[k].id = nodes[k].id /\ ns[k].config = nodes[k].config
  BY DEF Mark, Arrays, NodeKeys
<1> HIDE DEF ns
<1>2. Holders(ns, fm.on) = Holders(nodes, fm.on)
  BY <1>1 DEF Holders
<1>3. First(Holders(nodes, fm.on)) \in DOMAIN nodes
  <2>1. Holders(nodes, fm.on) \subseteq Nat /\ Holders(nodes, fm.on) \subseteq DOMAIN nodes
    BY DEF Holders, Arrays, IsArray
  <2> QED BY <2>1, FirstOf
<1>4. ns[First(Holders(nodes, fm.on))].config = nodes[First(Holders(nodes, fm.on))].config
  BY <1>1, <1>3
<1>5. Agrees(fm, ns)
  BY <1>2, <1>4 DEF Agrees
<1> QED BY <1>5 DEF ns

(* A pushed node is after the first with its id.                           *)
LEMMA PushAgrees ==
  ASSUME Arrays, NEW fm, Agrees(fm, nodes), Holders(nodes, fm.on) # {}, NEW e
  PROVE  Agrees(fm, Push(nodes, e))
<1> DEFINE ns == Push(nodes, e)
           S == Holders(nodes, fm.on)
           T == Holders(ns, fm.on)
<1>1. PICK new \in Nat : Pushed(nodes, e, ns, new)
  BY PushOf DEF Arrays
<1>2. /\ DOMAIN ns = DOMAIN nodes \cup {new} /\ DOMAIN nodes \subseteq Nat
      /\ \A k \in DOMAIN nodes : k < new /\ ns[k] = nodes[k]
  BY <1>1 DEF Pushed, Arrays, IsArray
<1> HIDE DEF ns
<1>3. S \subseteq T /\ T \subseteq S \cup {new} /\ S \subseteq DOMAIN nodes /\ T \subseteq Nat
  BY <1>2 DEF Holders
<1>4. First(S) \in S /\ \A k \in S : First(S) <= k
  BY <1>2, <1>3, FirstOf
<1>5. First(T) \in T /\ \A k \in T : First(T) <= k
  BY <1>3, FirstOf
<1> HIDE DEF S, T
<1>6. First(T) = First(S)
  <2>1. First(S) \in Nat /\ First(T) \in Nat /\ First(S) < new /\ First(T) <= First(S)
    BY <1>2, <1>3, <1>4, <1>5
  <2>2. First(T) \in S
    BY <1>3, <1>5, <2>1
  <2> QED BY <1>4, <2>1, <2>2
<1>7. Agrees(fm, ns)
  BY <1>2, <1>3, <1>4, <1>6, AgreesSame DEF S, T
<1> QED BY <1>7 DEF ns

(* A delete takes all nodes of an id or none.                              *)
LEMMA DeleteAgrees ==
  ASSUME Arrays, NEW fm, Agrees(fm, nodes), NEW ids
  PROVE  LET ns == Only(nodes, {k \in DOMAIN nodes : nodes[k].id \notin ids})
         IN  Agrees(fm, ns) \/ Holders(ns, fm.on) = {}
<1> DEFINE ns == Only(nodes, {k \in DOMAIN nodes : nodes[k].id \notin ids})
<1>1. /\ DOMAIN ns = {k \in DOMAIN nodes : nodes[k].id \notin ids}
      /\ \A k \in DOMAIN ns : ns[k] = nodes[k]
  BY DEF Only
<1> HIDE DEF ns
<1>2. CASE fm.on \in ids
  <2>1. Holders(ns, fm.on) = {}
    BY <1>1, <1>2 DEF Holders
  <2> QED BY <2>1 DEF ns
<1>3. CASE fm.on \notin ids
  <2>1. Holders(ns, fm.on) = Holders(nodes, fm.on)
    BY <1>1, <1>3 DEF Holders
  <2>2. ASSUME Holders(ns, fm.on) # {} PROVE Agrees(fm, ns)
    <3>1. Holders(nodes, fm.on) \subseteq Nat
      BY DEF Holders, Arrays, IsArray
    <3>2. First(Holders(ns, fm.on)) \in Holders(ns, fm.on)
      BY <2>1, <2>2, <3>1, FirstOf
    <3>3. First(Holders(ns, fm.on)) \in DOMAIN ns
      BY <3>2 DEF Holders
    <3> QED BY <1>1, <2>1, <3>3, AgreesSame
  <2> QED BY <2>2 DEF ns
<1> QED BY <1>2, <1>3

(* A value that a form writes goes to the field that it was typed into.    *)
LEMMA WrittenConfig ==
  ASSUME Arrays, NEW id, Holders(nodes, id) # {}, NEW config
  PROVE  LET ns == updateNodeData(id, config)
         IN  ns[First(Holders(ns, id))].config = config
<1> DEFINE ns == updateNodeData(id, config)
           first == First(Holders(nodes, id))
<1>1. /\ DOMAIN ns = DOMAIN nodes
      /\ \A k \in DOMAIN nodes : ns[k].id = nodes[k].id
      /\ \A k \in DOMAIN nodes : nodes[k].id = id => ns[k].config = config
  BY DEF updateNodeData, Arrays, NodeKeys
<1> HIDE DEF ns
<1>2. Holders(ns, id) = Holders(nodes, id)
  BY <1>1 DEF Holders
<1>3. first \in Holders(nodes, id)
  <2>1. Holders(nodes, id) \subseteq Nat
    BY DEF Holders, Arrays, IsArray
  <2> QED BY <2>1, FirstOf
<1>4. ns[First(Holders(ns, id))].config = config
  BY <1>1, <1>2, <1>3 DEF Holders
<1> QED BY <1>4 DEF ns

LEMMA WrittenAgrees ==
  ASSUME Arrays, NEW fm, NEW gm, gm.on = fm.on, Holders(nodes, fm.on) # {}, NEW f, NEW v,
         \A g \in DOMAIN gm.text \ (gm.dirty \cup gm.invalid) :
           gm.text[g] = Get(Set(nodes[First(Holders(nodes, fm.on))].config, f, v), g, "null")
  PROVE  Agrees(gm, updateNodeData(fm.on, Set(nodes[First(Holders(nodes, fm.on))].config, f, v)))
<1> DEFINE config == Set(nodes[First(Holders(nodes, fm.on))].config, f, v)
           ns == updateNodeData(fm.on, config)
<1>1. ns[First(Holders(ns, gm.on))].config = config
  BY WrittenConfig
<1> HIDE DEF config, ns
<1>2. Agrees(gm, ns)
  BY <1>1 DEF Agrees, config
<1> QED BY <1>2 DEF ns, config

LEMMA SetOther ==
  ASSUME NEW config, NEW f, NEW v, NEW g
  PROVE  /\ g # f => Get(Set(config, f, v), g, "null") = Get(config, g, "null")
         /\ Get(Set(config, f, v), f, "null") = v
BY DEF Get, Set

(* One lemma for each way in which a step leaves the form.                 *)
LEMMA FollowsAgrees ==
  ASSUME Arrays', FormOfShown, NEW ns, NEW es, NEW fm, Render(ns, es, selection, fm), Follows,
         fm # NoForm => form # NoForm /\ IsForm(fm) /\ fm.on = form.on,
         \/ fm = NoForm \/ Holders(ns, fm.on) = {} \/ selection' # selection
         \/ Agrees(form, nodes) => Agrees(fm, ns)
  PROVE  FormOfShown'
<1>1. IsSelection(selection)
  BY DEF FormOfShown
<1>2. CASE fm = NoForm \/ Holders(ns, fm.on) = {}
  BY <1>1, <1>2, RenderedAgrees
<1>3. CASE fm # NoForm /\ selection' # selection
  <2>1. selection' # NodeSelection(fm.on)
    BY <1>3 DEF FormOfShown
  <2> QED BY <1>1, <2>1, RenderedAgrees
<1>4. CASE fm # NoForm /\ selection' = selection /\ (Agrees(form, nodes) => Agrees(fm, ns))
  <2>1. strayed' \/ Agrees(fm, ns)
    BY <1>4 DEF FormOfShown, Follows
  <2> QED BY <1>1, <2>1, RenderedAgrees
<1> QED BY <1>2, <1>3, <1>4

LEMMA FocusAgrees ==
  ASSUME Arrays', FormOfShown, NEW ns, NEW es, NEW sel, Render(ns, es, sel, form), IsSelection(sel),
         strayed' = ((strayed /\ selection' = selection) \/ selection' # Canvas(nodes', edges')),
         Agrees(form, nodes) /\ form # NoForm => Agrees(form, ns)
  PROVE  FormOfShown'
<1>1. \/ form = NoForm \/ selection' # NodeSelection(form.on) \/ strayed' \/ Agrees(form, ns)
  BY DEF FormOfShown
<1> QED BY <1>1, RenderedAgrees DEF FormOfShown

LEMMA BlurAgrees ==
  ASSUME Arrays, Arrays', FormOfShown, form # NoForm, NEW f \in DOMAIN form.text, BlurRawJson(f)
  PROVE  FormOfShown'
<1> DEFINE n == ShownNode
           config == Set(n.config, f, form.text[f])
           fm == Blurred(form, f)
           ns == IF form.text[f] = Garbled THEN nodes ELSE updateNodeData(form.on, config)
<1>1. Render(ns, edges, selection, fm) /\ Follows
  BY DEF BlurRawJson
<1>2. IsForm(form) /\ Holders(nodes, form.on) # {}
  BY DEF FormOfShown
<1>3. /\ DOMAIN fm = {"on", "text", "dirty", "invalid"} /\ fm.on = form.on /\ fm.text = form.text
      /\ fm.dirty = form.dirty \ {f}
      /\ fm.invalid = IF form.text[f] = Garbled THEN form.invalid \cup {f} ELSE form.invalid \ {f}
  BY <1>2 DEF Blurred, IsForm
<1> HIDE DEF fm
<1>4. IsForm(fm)
  BY <1>2, <1>3 DEF IsForm
<1>5. ASSUME Agrees(form, nodes) PROVE Agrees(fm, ns)
  <2> HIDE DEF ns
  <2>1. \A g \in DOMAIN form.text \ (form.dirty \cup form.invalid) :
          form.text[g] = Get(n.config, g, "null")
    BY <1>5 DEF Agrees, ShownNode
  <2>2. CASE form.text[f] = Garbled
    <3>1. ns = nodes
      BY <2>2 DEF ns
    <3>2. \A g \in DOMAIN fm.text \ (fm.dirty \cup fm.invalid) : fm.text[g] = Get(n.config, g, "null")
      BY <1>3, <2>1, <2>2
    <3> QED BY <1>3, <3>1, <3>2 DEF Agrees, ShownNode
  <2>3. CASE form.text[f] # Garbled
    <3>1. ASSUME NEW g \in DOMAIN fm.text \ (fm.dirty \cup fm.invalid)
          PROVE  fm.text[g] = Get(config, g, "null")
      <4>1. CASE g = f
        BY <1>3, <4>1, SetOther
      <4>2. CASE g # f
        <5>1. fm.text[g] = Get(n.config, g, "null")
          BY <1>3, <2>1, <2>3, <3>1, <4>2
        <5> QED BY <4>2, <5>1, SetOther
      <4> QED BY <4>1, <4>2
    <3>2. Agrees(fm, updateNodeData(form.on, config))
      BY <1>2, <1>3, <3>1, WrittenAgrees DEF ShownNode
    <3> QED BY <2>3, <3>2 DEF ns
  <2> QED BY <2>2, <2>3
<1> HIDE DEF ns
<1> QED BY <1>1, <1>3, <1>4, <1>5, FollowsAgrees

LEMMA FieldAgrees ==
  ASSUME Arrays, Arrays', FormOfShown, form # NoForm,
         NEW f, FieldType[f] # "raw", NEW v, EditField(f, v)
  PROVE  FormOfShown'
<1> DEFINE config == Set(ShownNode.config, f, v)
           ns == updateNodeData(form.on, config)
<1>1. Render(ns, edges, selection, form) /\ Follows
  BY DEF EditField
<1>2. IsForm(form) /\ Holders(nodes, form.on) # {}
  BY DEF FormOfShown
<1>3. ASSUME Agrees(form, nodes) PROVE Agrees(form, ns)
  <2>1. \A g \in DOMAIN form.text \ (form.dirty \cup form.invalid) :
          g # f /\ form.text[g] = Get(ShownNode.config, g, "null")
    BY <1>2, <1>3 DEF Agrees, ShownNode, IsForm
  <2>2. \A g \in DOMAIN form.text \ (form.dirty \cup form.invalid) :
          form.text[g] = Get(config, g, "null")
    BY <2>1, SetOther
  <2> QED BY <1>2, <2>2, WrittenAgrees DEF ShownNode
<1> HIDE DEF ns
<1> QED BY <1>1, <1>2, <1>3, FollowsAgrees

LEMMA TypeAgrees ==
  ASSUME FormOfShown, form # NoForm, NEW f \in DOMAIN form.text, NEW text, TypeRawJson(f, text)
  PROVE  FormOfShown'
<1>1. IsForm(form) /\ selection = NodeSelection(form.on)
  BY DEF FormOfShown
<1>2. /\ DOMAIN form' = {"on", "text", "dirty", "invalid"} /\ form'.on = form.on
      /\ form'.text = [form.text EXCEPT ![f] = text]
      /\ form'.dirty = form.dirty \cup {f} /\ form'.invalid = form.invalid
  BY <1>1 DEF TypeRawJson, TypeText, IsForm
<1>3. UNCHANGED <<nodes, selection, strayed>>
  BY DEF TypeRawJson, data
<1>4. IsForm(form')
  BY <1>1, <1>2 DEF IsForm
<1>5. Agrees(form, nodes) => Agrees(form', nodes)
  BY <1>2 DEF Agrees
<1> QED BY <1>2, <1>3, <1>4, <1>5 DEF FormOfShown

LEMMA ImportedReports ==
  ASSUME NEW ns, IsArray(ns), \A k \in DOMAIN ns : ~ns[k].selected
  PROVE  Reports(ns) = {}
<1> SUFFICES ASSUME NEW k \in Reports(ns) PROVE FALSE
  OBVIOUS
<1> DEFINE S == Holders(ns, ns[k].id)
<1>1. k \in DOMAIN ns /\ ns[Last(S)].selected
  BY DEF Reports
<1>2. /\ S \in SUBSET Nat /\ k \in S /\ S \subseteq DOMAIN ns
      /\ \E m \in Nat : \A j \in S : j <= m
  BY <1>1 DEF Holders, IsArray
<1> HIDE DEF S
<1>3. Last(S) \in S
  BY <1>2, LastOf
<1> QED BY <1>1, <1>2, <1>3

(* An import marks nothing: a selection that came from the canvas does not *)
(* survive it.                                                             *)
LEMMA ImportAgrees ==
  ASSUME Arrays', FormOfShown, strayed \/ FromCanvas(selection, nodes, edges), NEW g, doImport(g)
  PROVE  FormOfShown'
<1> DEFINE ns == fromWire(g).nodes
           es == fromWire(g).edges
<1>1. Render(ns, es, selection, form) /\ Follows
  BY DEF doImport
<1>2. \A k \in DOMAIN ns : ~ns[k].selected
  BY DEF fromWire
<1>3. \A k \in DOMAIN es : ~es[k].selected
  BY DEF fromWire
<1> HIDE DEF ns, es
<1>4. Reports(ns) = {} /\ Reports(es) = {}
  <2>1. IsArray(ns) /\ IsArray(es)
    BY <1>1 DEF Arrays, Render
  <2> QED BY <1>2, <1>3, <2>1, ImportedReports
<1>5. ASSUME form # NoForm, ~strayed PROVE selection' # selection
  <2>1. selection = NodeSelection(form.on) /\ selection.kind = "node"
    BY <1>5 DEF FormOfShown, NodeSelection
  <2>2. ReportedIds(nodes) # {}
    BY <1>5, <2>1 DEF FromCanvas, Nothing
  <2>3. selection' = Canvas(ns, es)
    BY <1>1, <1>4, <2>2, ReportsEmpty DEF Render, Reported
  <2>4. selection' = Nothing
    BY <1>4, <2>3 DEF Canvas
  <2> QED BY <2>1, <2>4 DEF Nothing
<1>6. \/ form = NoForm \/ selection' # NodeSelection(form.on) \/ strayed' \/ Agrees(form, ns)
  BY <1>1, <1>5 DEF FormOfShown, Follows
<1> QED BY <1>1, <1>6, RenderedAgrees DEF FormOfShown

LEMMA UserAgrees == ASSUME Arrays, Arrays', FormOfShown, UserStep PROVE FormOfShown'
<1>1. ASSUME NEW type, onDropNode(type) PROVE FormOfShown'
  <2>1. Render(Push(nodes, Dropped(type)), edges, selection, form) /\ Follows
    BY <1>1 DEF onDropNode
  <2>2. form # NoForm /\ Agrees(form, nodes) => Agrees(form, Push(nodes, Dropped(type)))
    BY PushAgrees DEF FormOfShown
  <2> QED BY <2>1, <2>2, FollowsAgrees DEF FormOfShown
<1>2. ASSUME NEW source, NEW target, onConnect(source, target) PROVE FormOfShown'
  BY <1>2, FollowsAgrees DEF onConnect, FormOfShown
<1>3. ASSUME ClearSelection \/ \E a, b : SelectOnCanvas(a, b) PROVE FormOfShown'
  <2>1. PICK a, b, c, d : Render(Mark(nodes, a, b), Mark(edges, c, d), selection, form) /\ Follows
    BY <1>3, SelectionMarks DEF Marking
  <2>2. form # NoForm /\ Agrees(form, nodes) => Agrees(form, Mark(nodes, a, b))
    BY MarkAgrees DEF FormOfShown
  <2> QED BY <2>1, <2>2, FollowsAgrees DEF FormOfShown
<1>4. ASSUME doDeleteSelected PROVE FormOfShown'
  <2> DEFINE out == removeSelection(nodes, edges, selection)
  <2>1. Render(out.nodes, out.edges, Nothing, form)
    BY <1>4 DEF doDeleteSelected
  <2>2. IsSelection(Nothing)
    BY DEF IsSelection, Nothing
  <2>3. ASSUME form # NoForm PROVE Holders(out.nodes, form.on) = {}
    <3>1. selection.kind = "node" /\ selection.id = form.on
      BY <2>3 DEF FormOfShown, NodeSelection
    <3>2. out.nodes = Only(nodes, {k \in DOMAIN nodes : nodes[k].id # form.on})
      BY <3>1 DEF removeSelection
    <3> HIDE DEF out
    <3> QED BY <3>2 DEF Only, Holders
  <2> HIDE DEF out
  <2> QED BY <2>1, <2>2, <2>3, RenderedAgrees DEF FormOfShown
<1>5. ASSUME doValidate PROVE FormOfShown'
  BY <1>5 DEF doValidate, data, view, FormOfShown
<1>6. ASSUME NEW id, FocusNode(id) PROVE FormOfShown'
  <2>1. IsSelection(NodeSelection(id))
    BY DEF IsSelection, NodeSelection
  <2>2. form # NoForm /\ Agrees(form, nodes) => Agrees(form, Mark(nodes, NodeIds(nodes), {id}))
    BY MarkAgrees DEF FormOfShown
  <2>3. /\ Render(Mark(nodes, NodeIds(nodes), {id}), edges, NodeSelection(id), form)
        /\ strayed' = ((strayed /\ selection' = selection) \/ selection' # Canvas(nodes', edges'))
    BY <1>6 DEF FocusNode
  <2> QED BY <2>1, <2>2, <2>3, FocusAgrees
<1>7. ASSUME NEW k, FocusEdge(k) PROVE FormOfShown'
  <2>1. IsSelection(EdgeSelection(edges[k].id))
    BY DEF IsSelection, EdgeSelection
  <2> QED BY <1>7, <2>1, FocusAgrees DEF FocusEdge
<1>8. ASSUME EditForm PROVE FormOfShown'
  <2>1. ASSUME NEW f, NEW v \in FieldWidget(f, ShownNode.config), EditField(f, v) PROVE FormOfShown'
    <3>1. FieldType[f] # "raw"
      BY <2>1 DEF FieldWidget
    <3> QED BY <1>8, <2>1, <3>1, FieldAgrees DEF EditForm
  <2> QED BY <1>8, <2>1, TypeAgrees, BlurAgrees DEF EditForm
<1>9. ASSUME EditEdge PROVE FormOfShown'
  BY <1>9, FollowsAgrees DEF EditEdge, FormOfShown
<1>10. ASSUME DeleteKey PROVE FormOfShown'
  <2> DEFINE ns == Only(nodes, {k \in DOMAIN nodes : nodes[k].id \notin MarkedIds(nodes)})
  <2>1. PICK es : Render(ns, es, selection, form) /\ Follows
    BY <1>10 DEF DeleteKey
  <2>2. \/ Holders(ns, form.on) = {}
        \/ Agrees(form, nodes) => Agrees(form, ns)
    BY DeleteAgrees
  <2> HIDE DEF ns
  <2> QED BY <2>1, <2>2, FollowsAgrees DEF FormOfShown
<1> QED BY <1>1, <1>2, <1>3, <1>4, <1>5, <1>6, <1>7, <1>8, <1>9, <1>10
        DEF UserStep, ClickError, focusTarget

LEMMA FormAlways == Spec => []FormOfShown
<1>1. Init => FormOfShown
  BY DEF Init, FormOfShown, IsSelection, Nothing
<1>2. ASSUME Arrays, Arrays', strayed \/ FromCanvas(selection, nodes, edges), FormOfShown, [Next]_vars
      PROVE  FormOfShown'
  <2>1. ASSUME NEW g, doImport(g) PROVE FormOfShown'
    BY <1>2, <2>1, ImportAgrees
  <2>3. ASSUME LoadSchemas PROVE FormOfShown'
    <3>1. /\ UNCHANGED <<nodes, selection, strayed>>
          /\ form' = Inspector(selection, nodes, Types, form)
      BY <2>3 DEF LoadSchemas, data
    <3>2. DOMAIN nodes \subseteq Nat
      BY <1>2 DEF Arrays, IsArray
    <3>3. IsSelection(selection) /\ (form # NoForm => IsForm(form))
      BY <1>2 DEF FormOfShown
    <3>4. ASSUME form' # NoForm
          PROVE  /\ IsForm(form') /\ selection = NodeSelection(form'.on)
                 /\ Holders(nodes, form'.on) # {}
                 /\ Agrees(form', nodes) \/ (form # NoForm /\ ~Agrees(form, nodes))
      BY <3>1, <3>2, <3>3, <3>4, InspectorAgrees
    <3> QED BY <1>2, <3>1, <3>4 DEF FormOfShown
  <2>4. ASSUME UNCHANGED vars PROVE FormOfShown'
    BY <1>2, <2>4 DEF vars, data, view, FormOfShown
  <2>5. ASSUME NEW r, ValidateAnswers(r) \/ ValidateFails(r) PROVE FormOfShown'
    BY <1>2, <2>5 DEF ValidateAnswers, ValidateFails, data, view, FormOfShown
  <2>6. ASSUME UserStep PROVE FormOfShown'
    BY <1>2, <2>6, UserAgrees
  <2> QED BY <1>2, <2>1, <2>3, <2>4, <2>5, <2>6 DEF Next
<1> QED BY <1>1, <1>2, ArraysAlways, FromCanvasAlways, PTL DEF Spec

(* A raw JSON text that the user has not typed in is the value in the      *)
(* config of the node on display, so that a blur of it writes nothing      *)
(* else: the key of ConfigForm in the inspector mounts the widgets anew    *)
(* for another node.                                                       *)
THEOREM EditorTextIsConfig == Spec => []TextIsConfig
<1>1. FormOfShown => TextIsConfig
  BY DEF FormOfShown, Agrees, ShownNode, TextIsConfig
<1> QED BY <1>1, FormAlways, PTL

----------------------------------------------------------------------------
(* Types: the documents sent and the errors answered name nodes by ids,    *)
(* and the widgets hand on values of their field.                          *)
Nodes(ns) == \A k \in DOMAIN ns : IsNode(ns[k])
Edges(es) == \A k \in DOMAIN es : IsEdge(es[k])
Selected(sel) ==
  /\ sel.kind \in {"none", "node", "edge"}
  /\ sel.kind = "node" => sel.id \in Ids
  /\ sel.kind = "edge" => sel.id \in EdgeIds
FormTyped(fm) ==
  /\ \A f \in DOMAIN fm.text : fm.text[f] \in Json \cup {Garbled}
  /\ fm.dirty \subseteq DOMAIN fm.text /\ fm.invalid \subseteq DOMAIN fm.text
CanvasTyped ==
  /\ schemas \in {{}, Types} /\ Nodes(nodes) /\ Edges(edges) /\ Selected(selection)
  /\ form # NoForm => /\ FormTyped(form) /\ DOMAIN form.text = RawFields(ShownNode.type)
                      /\ ShownNode.type \in schemas

LEMMA ConfigGet ==
  ASSUME NEW c, IsConfig(c), NEW f, FieldType[f] = "raw"
  PROVE  Get(c, f, "null") \in Json
BY GraphModelAssumption DEF GraphModelAssumption, IsConfig, ValuesOf, Get

LEMMA ConfigSet ==
  ASSUME NEW c, IsConfig(c), NEW f \in Fields, NEW v \in ValuesOf(f)
  PROVE  IsConfig(Set(c, f, v))
<1> DEFINE d == Set(c, f, v)
<1>1. /\ d = [g \in DOMAIN d |-> d[g]] /\ DOMAIN d = DOMAIN c \cup {f}
      /\ \A g \in DOMAIN d : d[g] = IF g = f THEN v ELSE c[g]
  BY DEF Set
<1> HIDE DEF d
<1>2. \A g \in DOMAIN d : d[g] \in ValuesOf(g)
  BY <1>1 DEF IsConfig
<1>3. IsConfig(d)
  BY <1>1, <1>2 DEF IsConfig
<1> QED BY <1>3 DEF d

LEMMA FormForTyped ==
  ASSUME NEW n, IsNode(n), NEW fm, fm.dirty \subseteq DOMAIN fm.text, fm.invalid \subseteq DOMAIN fm.text,
         \A f \in DOMAIN fm.text : fm.text[f] \in Json \cup {Garbled}
  PROVE  LET gm == Keep(fm, n)
         IN  FormTyped(gm) /\ DOMAIN gm.text = RawFields(n.type)
<1> DEFINE kept == DOMAIN fm.text \cap RawFields(n.type)
           gm == Keep(fm, n)
<1>1. /\ gm.text = [f \in RawFields(n.type) |->
                      IF f \in kept THEN fm.text[f] ELSE Get(n.config, f, "null")]
      /\ gm.dirty = fm.dirty \cap kept /\ gm.invalid = fm.invalid \cap kept
  BY DEF Keep, FormFor
<1> HIDE DEF gm
<1>2. \A f \in RawFields(n.type) : Get(n.config, f, "null") \in Json
  BY ConfigGet DEF RawFields, IsNode
<1>3. FormTyped(gm) /\ DOMAIN gm.text = RawFields(n.type)
  BY <1>1, <1>2 DEF FormTyped
<1> QED BY <1>3 DEF gm

LEMMA MountTyped ==
  ASSUME NEW n, IsNode(n)
  PROVE  FormTyped(Mount(n)) /\ DOMAIN Mount(n).text = RawFields(n.type)
<1> DEFINE gm == Mount(n)
<1>1. /\ gm.text = [f \in RawFields(n.type) |-> Get(n.config, f, "null")]
      /\ gm.dirty = {} /\ gm.invalid = {}
  BY DEF Mount, FormFor
<1> HIDE DEF gm
<1>2. \A f \in RawFields(n.type) : Get(n.config, f, "null") \in Json
  BY ConfigGet DEF RawFields, IsNode
<1>3. FormTyped(gm) /\ DOMAIN gm.text = RawFields(n.type)
  BY <1>1, <1>2 DEF FormTyped
<1> QED BY <1>3 DEF gm

LEMMA InspectorTyped ==
  ASSUME NEW sel, NEW ns, NEW sch, NEW fm, DOMAIN ns \subseteq Nat, Nodes(ns), IsSelection(sel),
         fm # NoForm => IsForm(fm) /\ FormTyped(fm), Inspector(sel, ns, sch, fm) # NoForm
  PROVE  LET gm == Inspector(sel, ns, sch, fm)
             t == ns[First(Holders(ns, gm.on))].type
         IN  FormTyped(gm) /\ DOMAIN gm.text = RawFields(t) /\ t \in sch
<1> DEFINE gm == Inspector(sel, ns, sch, fm)
           shown == {k \in Shown(sel, ns) : ns[k].type \in sch}
           n == ns[First(shown)]
<1>1. sel = NodeSelection(gm.on)
  BY InspectorAgrees
<1>2. sel.kind = "node" /\ sel.id = gm.on
  BY <1>1 DEF NodeSelection
<1>3. gm = IF fm # NoForm /\ fm.on = n.id THEN Keep(fm, n) ELSE Mount(n)
  BY DEF Inspector
<1>4. shown # {}
  BY DEF Inspector
<1>5. \A k \in shown :
        k = First(Holders(ns, gm.on)) /\ k \in DOMAIN ns /\ ns[k].type \in sch
  <2> HIDE DEF gm
  <2> QED BY <1>2 DEF Shown, Holders
<1> HIDE DEF shown, gm
<1>6. /\ First(shown) = First(Holders(ns, gm.on)) /\ First(shown) \in DOMAIN ns
      /\ ns[First(shown)].type \in sch
  <2>1. PICK k \in shown : TRUE
    BY <1>4
  <2>2. shown = {k} /\ k = First(Holders(ns, gm.on)) /\ k \in DOMAIN ns /\ ns[k].type \in sch
    BY <1>5, <2>1
  <2>3. First({k}) = k
    <3>1. k <= k
      BY <2>2
    <3> QED BY <3>1, LastOfOne
  <2> QED BY <2>2, <2>3
<1>7. IsNode(n) /\ n = ns[First(Holders(ns, gm.on))] /\ n.type \in sch
  BY <1>6 DEF Nodes
<1> HIDE DEF n
<1>8. FormTyped(gm) /\ DOMAIN gm.text = RawFields(n.type)
  BY <1>3, <1>7, FormForTyped, MountTyped DEF FormTyped
<1> QED BY <1>7, <1>8 DEF gm

LEMMA RenderedTyped ==
  ASSUME Arrays', NEW ns, NEW es, NEW sel, NEW fm, Render(ns, es, sel, fm),
         schemas \in {{}, Types} /\ UNCHANGED schemas,
         Nodes(ns), Edges(es), Selected(sel), IsSelection(sel),
         fm # NoForm => IsForm(fm) /\ FormTyped(fm)
  PROVE  CanvasTyped'
<1>1. /\ nodes' = ns /\ edges' = es /\ form' = Inspector(selection', ns, schemas, fm)
      /\ selection' = sel \/ selection' = Canvas(ns, es)
  BY DEF Render, Reported
<1>2. DOMAIN ns \subseteq Nat /\ DOMAIN es \subseteq Nat
  BY <1>1 DEF Arrays, IsArray
<1>3. IsSelection(selection')
  BY <1>1 DEF Canvas, IsSelection, NodeSelection, EdgeSelection, Nothing
<1>4. Selected(Canvas(ns, es))
  <2>1. CASE Reports(ns) # {}
    <3>1. First(Reports(ns)) \in DOMAIN ns
      BY <1>2, <2>1, FirstOf DEF Reports
    <3> QED BY <2>1, <3>1 DEF Canvas, NodeSelection, Selected, Nodes, IsNode
  <2>2. CASE Reports(ns) = {} /\ Reports(es) # {}
    <3>1. First(Reports(es)) \in DOMAIN es
      BY <1>2, <2>2, FirstOf DEF Reports
    <3> QED BY <2>2, <3>1 DEF Canvas, EdgeSelection, Selected, Edges, IsEdge
  <2>3. CASE Reports(ns) = {} /\ Reports(es) = {}
    BY <2>3 DEF Canvas, Nothing, Selected
  <2> QED BY <2>1, <2>2, <2>3
<1>5. Selected(selection')
  BY <1>1, <1>4
<1>6. form' # NoForm =>
        /\ FormTyped(form') /\ DOMAIN form'.text = RawFields(ns[First(Holders(ns, form'.on))].type)
        /\ ns[First(Holders(ns, form'.on))].type \in schemas
  BY <1>1, <1>2, <1>3, InspectorTyped
<1> QED BY <1>1, <1>5, <1>6 DEF CanvasTyped, ShownNode

LEMMA MarkTyped ==
  ASSUME Arrays, Nodes(nodes), Edges(edges), NEW changed, NEW ids
  PROVE  Nodes(Mark(nodes, changed, ids)) /\ Edges(Mark(edges, changed, ids))
<1>1. ASSUME NEW n, IsNode(n), DOMAIN n = NodeKeys
      PROVE  IsNode([n EXCEPT !.selected = n.id \in ids])
  <2> DEFINE m == [n EXCEPT !.selected = n.id \in ids]
  <2>1. /\ m.id = n.id /\ m.type = n.type /\ m.config = n.config
        /\ m.start = n.start /\ m.selected = (n.id \in ids)
    BY <1>1 DEF NodeKeys
  <2> HIDE DEF m
  <2>2. IsNode(m)
    BY <1>1, <2>1 DEF IsNode
  <2> QED BY <2>2 DEF m
<1>2. ASSUME NEW e, IsEdge(e), DOMAIN e = EdgeKeys
      PROVE  IsEdge([e EXCEPT !.selected = e.id \in ids])
  <2> DEFINE d == [e EXCEPT !.selected = e.id \in ids]
  <2>1. /\ d.id = e.id /\ d.source = e.source /\ d.target = e.target
        /\ d.priority = e.priority /\ d.condition = e.condition /\ d.selected = (e.id \in ids)
    BY <1>2 DEF EdgeKeys
  <2> HIDE DEF d
  <2>2. IsEdge(d)
    BY <1>2, <2>1 DEF IsEdge
  <2> QED BY <2>2 DEF d
<1>3. \A s : /\ DOMAIN Mark(s, changed, ids) = DOMAIN s
             /\ \A k \in DOMAIN s : Mark(s, changed, ids)[k]
                                       \in {s[k], [s[k] EXCEPT !.selected = s[k].id \in ids]}
  BY DEF Mark
<1> QED BY <1>1, <1>2, <1>3 DEF Nodes, Edges, Arrays

LEMMA PushTyped ==
  ASSUME Arrays, Nodes(nodes), Edges(edges)
  PROVE  /\ \A n : IsNode(n) => Nodes(Push(nodes, n))
         /\ \A e : IsEdge(e) => Edges(Push(edges, e))
<1>1. ASSUME NEW n, IsNode(n) PROVE Nodes(Push(nodes, n))
  <2>1. PICK new \in Nat : Pushed(nodes, n, Push(nodes, n), new)
    BY PushOf DEF Arrays
  <2> QED BY <1>1, <2>1 DEF Pushed, Nodes
<1>2. ASSUME NEW e, IsEdge(e) PROVE Edges(Push(edges, e))
  <2>1. PICK new \in Nat : Pushed(edges, e, Push(edges, e), new)
    BY PushOf DEF Arrays
  <2> QED BY <1>2, <2>1 DEF Pushed, Edges
<1> QED BY <1>1, <1>2

LEMMA ImportTyped == ASSUME NEW g \in Imports PROVE Nodes(fromWire(g).nodes) /\ Edges(fromWire(g).edges)
<1> DEFINE ns == fromWire(g).nodes
           es == fromWire(g).edges
<1>1. IsDocument(g)
  BY EditorAssumption DEF EditorAssumption
<1>2. ASSUME NEW k \in DOMAIN ns PROVE IsNode(ns[k])
  <2>1. /\ k \in DOMAIN g.Nodes /\ ns[k].id = g.Nodes[k].Id /\ ns[k].type = g.Nodes[k].Type
        /\ ns[k].config = g.Nodes[k].Config /\ ns[k].start = (g.Nodes[k].Id = g.StartAt)
        /\ ns[k].selected = FALSE
    BY <1>2 DEF fromWire
  <2>2. g.Nodes[k].Id \in Ids /\ g.Nodes[k].Type \in Names /\ IsConfig(g.Nodes[k].Config)
    BY <1>1, <2>1 DEF IsDocument
  <2> HIDE DEF ns
  <2> QED BY <2>1, <2>2 DEF IsNode
<1>3. ASSUME NEW k \in DOMAIN es PROVE IsEdge(es[k])
  <2> DEFINE e == g.Edges[k]
             i == Index(k, DOMAIN g.Edges)
  <2>1. /\ k \in DOMAIN g.Edges /\ es[k].id = ImportedEdgeId(i, e.From, e.To)
        /\ es[k].source = e.From /\ es[k].target = e.To /\ es[k].priority = e.Priority
        /\ es[k].condition = e.Condition /\ es[k].selected = FALSE
    BY <1>3 DEF fromWire
  <2>2. /\ e.From \in Ids \cup {Blank} /\ e.To \in Ids \cup {Blank}
        /\ e.Priority \in Numbers /\ e.Condition \in Conditions
    BY <1>1, <2>1 DEF IsDocument
  <2>3. i \in Nat
    <3>1. IsFiniteSet(DOMAIN g.Edges)
      <4>1. DOMAIN g.Edges = 1..Len(g.Edges) /\ Len(g.Edges) \in Nat
        BY <1>1 DEF IsDocument
      <4> QED BY <4>1, FS_Interval
    <3>2. IsFiniteSet({j \in DOMAIN g.Edges : j < k})
      BY <3>1, FS_Subset
    <3> QED BY <3>2, FS_CardinalityType DEF Index
  <2> HIDE DEF es, e, i
  <2>4. ImportedEdgeId(i, e.From, e.To) \in EdgeIds
    BY <2>2, <2>3 DEF ImportedEdgeId, EdgeIds
  <2> QED BY <2>1, <2>2, <2>4 DEF IsEdge
<1> QED BY <1>2, <1>3 DEF Nodes, Edges

LEMMA OnlyTyped ==
  ASSUME NEW S \in SUBSET DOMAIN nodes, NEW T \in SUBSET DOMAIN edges, Nodes(nodes), Edges(edges)
  PROVE  Nodes(Only(nodes, S)) /\ Edges(Only(edges, T))
BY DEF Only, Nodes, Edges

LEMMA UpdateTyped ==
  ASSUME Arrays, Nodes(nodes), NEW id, NEW config, IsConfig(config)
  PROVE  Nodes(updateNodeData(id, config))
<1> DEFINE ns == updateNodeData(id, config)
<1>1. ASSUME NEW k \in DOMAIN ns PROVE IsNode(ns[k])
  <2>1. /\ k \in DOMAIN nodes /\ ns[k].id = nodes[k].id /\ ns[k].type = nodes[k].type
        /\ ns[k].config = config \/ ns[k].config = nodes[k].config
        /\ ns[k].start = nodes[k].start /\ ns[k].selected = nodes[k].selected
    BY <1>1 DEF updateNodeData, Arrays, NodeKeys
  <2> HIDE DEF ns
  <2> QED BY <2>1 DEF Nodes, IsNode
<1> QED BY <1>1 DEF Nodes

LEMMA EdgeTyped ==
  ASSUME Arrays, Edges(edges), NEW id, NEW patch,
         patch.priority \in Numbers, patch.condition \in Conditions
  PROVE  Edges(updateEdgeData(id, patch))
<1> DEFINE es == updateEdgeData(id, patch)
<1>1. ASSUME NEW k \in DOMAIN es PROVE IsEdge(es[k])
  <2>1. /\ k \in DOMAIN edges /\ es[k].id = edges[k].id /\ es[k].source = edges[k].source
        /\ es[k].target = edges[k].target /\ es[k].selected = edges[k].selected
        /\ es[k].priority = patch.priority \/ es[k].priority = edges[k].priority
        /\ es[k].condition = patch.condition \/ es[k].condition = edges[k].condition
    BY <1>1 DEF updateEdgeData, Arrays, EdgeKeys
  <2> HIDE DEF es
  <2> QED BY <2>1 DEF Edges, IsEdge
<1> QED BY <1>1 DEF Edges

LEMMA WidgetTyped ==
  ASSUME NEW f \in Fields, NEW c, IsConfig(c), NEW v \in FieldWidget(f, c)
  PROVE  v \in ValuesOf(f)
<1> DEFINE items == Get(c, f, <<>>)
<1>1. FieldType[f] \in {"string", "number", "bool", "string[]", "raw"}
  BY GraphModelAssumption DEF GraphModelAssumption
<1>2. CASE FieldType[f] = "string"
  BY <1>2 DEF FieldWidget, StringField, ValuesOf
<1>3. CASE FieldType[f] = "number"
  BY <1>3 DEF FieldWidget, NumberField, ValuesOf
<1>4. CASE FieldType[f] = "bool"
  BY <1>4 DEF FieldWidget, BoolField, ValuesOf
<1>5. CASE FieldType[f] = "raw"
  BY <1>5 DEF FieldWidget
<1>6. CASE FieldType[f] = "string[]"
  <2>1. items \in Seq(Texts)
    BY <1>6 DEF Get, IsConfig, ValuesOf
  <2>2. v \in StringListField(items)
    BY <1>6 DEF FieldWidget
  <2> HIDE DEF items
  <2>3. CASE \E t \in Texts : v = Append(items, t)
    BY <2>1, <2>3, <1>6 DEF ValuesOf
  <2>4. CASE \E i \in 1..Len(items) :
               v = [j \in 1..Len(items) - 1 |-> IF j < i THEN items[j] ELSE items[j + 1]]
    <3>1. Len(items) \in Nat /\ \A j \in 1..Len(items) : items[j] \in Texts
      BY <2>1
    <3>2. PICK i \in 1..Len(items) :
            v = [j \in 1..Len(items) - 1 |-> IF j < i THEN items[j] ELSE items[j + 1]]
      BY <2>4
    <3>3. \A j \in 1..Len(items) - 1 : j \in 1..Len(items) /\ j + 1 \in 1..Len(items)
      BY <3>1
    <3>4. v \in [1..Len(items) - 1 -> Texts] /\ Len(items) - 1 \in Nat
      BY <3>1, <3>2, <3>3
    <3>5. v \in Seq(Texts)
      BY <3>4
    <3> QED BY <1>6, <3>5 DEF ValuesOf
  <2> QED BY <2>2, <2>3, <2>4 DEF StringListField
<1> QED BY <1>1, <1>2, <1>3, <1>4, <1>5, <1>6

LEMMA FormStepTyped ==
  ASSUME Arrays, Arrays', FormOfShown, CanvasTyped, EditForm PROVE CanvasTyped'
<1> DEFINE n == ShownNode
<1>1. /\ form # NoForm /\ IsForm(form) /\ IsSelection(selection) /\ Selected(selection)
      /\ FormTyped(form) /\ DOMAIN form.text = RawFields(n.type)
      /\ n.type \in schemas /\ schemas \in {{}, Types} /\ Edges(edges) /\ Nodes(nodes)
  BY DEF EditForm, FormOfShown, CanvasTyped
<1>2. IsNode(n)
  <2>1. Holders(nodes, form.on) \subseteq Nat /\ Holders(nodes, form.on) # {}
    BY <1>1 DEF FormOfShown, Holders, Arrays, IsArray
  <2>2. First(Holders(nodes, form.on)) \in DOMAIN nodes
    BY <2>1, FirstOf DEF Holders
  <2> QED BY <1>1, <2>2 DEF ShownNode, Nodes
<1>3. Schema[n.type] \subseteq Fields
  <2>1. n.type \in Types
    BY <1>1
  <2> HIDE DEF n
  <2> QED BY <2>1, GraphModelAssumption DEF GraphModelAssumption
<1>4. IsConfig(n.config)
  BY <1>2 DEF IsNode
<1>5. ASSUME NEW f \in Schema[n.type], NEW v \in FieldWidget(f, n.config), EditField(f, v)
      PROVE  CanvasTyped'
  <2>1. /\ Render(updateNodeData(form.on, Set(n.config, f, v)), edges, selection, form)
        /\ UNCHANGED schemas
    BY <1>5 DEF EditField
  <2>2. IsConfig(Set(n.config, f, v))
    BY <1>3, <1>4, <1>5, WidgetTyped, ConfigSet
  <2>3. Nodes(updateNodeData(form.on, Set(n.config, f, v)))
    BY <1>1, <2>2, UpdateTyped
  <2> QED BY <1>1, <2>1, <2>3, RenderedTyped
<1>6. ASSUME NEW f \in DOMAIN form.text, NEW text \in Json \cup {Garbled}, TypeRawJson(f, text)
      PROVE  CanvasTyped'
  <2>1. /\ form'.text = [form.text EXCEPT ![f] = text] /\ form'.on = form.on
        /\ form'.dirty = form.dirty \cup {f} /\ form'.invalid = form.invalid
    BY <1>1, <1>6 DEF TypeRawJson, TypeText, IsForm
  <2>2. UNCHANGED <<nodes, edges, selection, schemas>>
    BY <1>6 DEF TypeRawJson, data
  <2>3. FormTyped(form') /\ DOMAIN form'.text = DOMAIN form.text
    <3>1. \A g \in DOMAIN form.text : form'.text[g] = IF g = f THEN text ELSE form.text[g]
      BY <2>1
    <3>2. DOMAIN form'.text = DOMAIN form.text
      BY <2>1
    <3> QED BY <1>1, <1>6, <2>1, <3>1, <3>2 DEF FormTyped
  <2>4. ShownNode' = ShownNode
    BY <2>1, <2>2 DEF ShownNode
  <2> QED BY <1>1, <2>2, <2>3, <2>4 DEF CanvasTyped
<1>7. ASSUME NEW f \in DOMAIN form.text, BlurRawJson(f) PROVE CanvasTyped'
  <2> DEFINE config == Set(n.config, f, form.text[f])
             fm == Blurred(form, f)
             ns == IF form.text[f] = Garbled THEN nodes ELSE updateNodeData(form.on, config)
  <2>1. Render(ns, edges, selection, fm) /\ UNCHANGED schemas
    BY <1>7 DEF BlurRawJson
  <2>2. /\ DOMAIN fm = {"on", "text", "dirty", "invalid"} /\ fm.text = form.text
        /\ fm.dirty \subseteq form.dirty /\ fm.invalid \subseteq form.invalid \cup {f}
    BY <1>1 DEF Blurred, IsForm
  <2>3. FieldType[f] = "raw" /\ f \in Fields /\ form.text[f] \in Json \cup {Garbled}
    BY <1>1, <1>3, <1>7 DEF RawFields, FormTyped
  <2>4. CASE form.text[f] = Garbled
    <3>1. Nodes(ns)
      BY <1>1, <2>4
    <3> HIDE DEF fm, ns
    <3>2. IsForm(fm) /\ FormTyped(fm)
      BY <1>1, <1>7, <2>2 DEF IsForm, FormTyped
    <3> QED BY <1>1, <2>1, <3>1, <3>2, RenderedTyped
  <2>5. CASE form.text[f] # Garbled
    <3>1. form.text[f] \in ValuesOf(f)
      BY <2>3, <2>5 DEF ValuesOf
    <3>2. IsConfig(config)
      BY <1>4, <2>3, <3>1, ConfigSet
    <3> HIDE DEF config
    <3>3. Nodes(ns)
      BY <1>1, <2>5, <3>2, UpdateTyped
    <3> HIDE DEF fm, ns
    <3>4. IsForm(fm) /\ FormTyped(fm)
      BY <1>1, <1>7, <2>2 DEF IsForm, FormTyped
    <3> QED BY <1>1, <2>1, <3>3, <3>4, RenderedTyped
  <2> QED BY <2>4, <2>5
<1> QED BY <1>5, <1>6, <1>7 DEF EditForm

LEMMA CanvasTypedStep ==
  ASSUME Arrays, Arrays', FormOfShown, CanvasTyped,
         idSeq \in Nat,
         \A e \in errors : mapError(e).kind = "node" => mapError(e).id \in Ids,
         [Next]_vars
  PROVE  CanvasTyped'
<1>1. /\ IsSelection(selection) /\ Selected(selection) /\ Edges(edges) /\ Nodes(nodes)
      /\ schemas \in {{}, Types} /\ (form # NoForm => IsForm(form) /\ FormTyped(form))
  BY DEF FormOfShown, CanvasTyped
<1>2. ASSUME NEW ns, NEW es, Render(ns, es, selection, form), UNCHANGED schemas, Nodes(ns), Edges(es)
      PROVE  CanvasTyped'
  BY <1>1, <1>2, RenderedTyped
<1>3. ASSUME NEW type \in Types, onDropNode(type) PROVE CanvasTyped'
  <2> DEFINE n == Dropped(type)
  <2>1. /\ n.id = <<type, idSeq>> /\ n.type = type /\ n.config = [f \in {} |-> 0]
        /\ n.start \in BOOLEAN /\ n.selected = FALSE
    BY DEF Dropped
  <2>2. type \in Names /\ <<type, idSeq>> \in Ids
    BY GraphModelAssumption DEF GraphModelAssumption, Ids
  <2>3. Render(Push(nodes, n), edges, selection, form) /\ UNCHANGED schemas
    BY <1>3 DEF onDropNode
  <2> HIDE DEF n
  <2>4. IsConfig(n.config)
    BY <2>1 DEF IsConfig
  <2>5. IsNode(n)
    BY <2>1, <2>2, <2>4 DEF IsNode
  <2>6. Nodes(Push(nodes, n))
    BY <1>1, <2>5, PushTyped
  <2> QED BY <1>1, <1>2, <2>3, <2>6
<1>4. ASSUME NEW source \in NodeIds(nodes), NEW target \in NodeIds(nodes), onConnect(source, target)
      PROVE  CanvasTyped'
  <2> DEFINE e == Drawn(source, target)
  <2>1. source \in Ids /\ target \in Ids
    BY <1>1 DEF NodeIds, Nodes, IsNode
  <2>2. /\ e.id = DrawnEdgeId(source, target) /\ e.source = source /\ e.target = target
        /\ e.priority = 0 /\ e.condition = "" /\ e.selected = FALSE
    BY DEF Drawn
  <2>3. Render(nodes, Push(edges, e), selection, form) /\ UNCHANGED schemas
    BY <1>4 DEF onConnect
  <2> HIDE DEF e
  <2>4. DrawnEdgeId(source, target) \in EdgeIds
    BY <2>1 DEF DrawnEdgeId, EdgeIds
  <2>5. IsEdge(e)
    BY <2>1, <2>2, <2>4, GraphModelAssumption DEF GraphModelAssumption, IsEdge
  <2>6. Edges(Push(edges, e))
    BY <1>1, <2>5, PushTyped
  <2> QED BY <1>1, <1>2, <2>3, <2>6
<1>5. ASSUME Marking PROVE CanvasTyped'
  <2>1. PICK a, b, c, d : Render(Mark(nodes, a, b), Mark(edges, c, d), selection, form)
    BY <1>5 DEF Marking
  <2>2. UNCHANGED schemas
    BY <1>5 DEF Marking
  <2> QED BY <1>1, <1>2, <2>1, <2>2, MarkTyped
<1>6. ASSUME DeleteKey PROVE CanvasTyped'
  <2> DEFINE S == {k \in DOMAIN nodes : nodes[k].id \notin MarkedIds(nodes)}
             T == {k \in DOMAIN edges : /\ edges[k].id \notin MarkedIds(edges)
                                        /\ ~Touches(edges[k], MarkedIds(nodes))}
  <2>1. Render(Only(nodes, S), Only(edges, T), selection, form) /\ UNCHANGED schemas
    BY <1>6 DEF DeleteKey
  <2>2. S \in SUBSET DOMAIN nodes /\ T \in SUBSET DOMAIN edges
    OBVIOUS
  <2> HIDE DEF S, T
  <2> QED BY <1>1, <1>2, <2>1, <2>2, OnlyTyped
<1>7. ASSUME doDeleteSelected PROVE CanvasTyped'
  <2> DEFINE out == removeSelection(nodes, edges, selection)
  <2>1. Render(out.nodes, out.edges, Nothing, form) /\ UNCHANGED schemas
    BY <1>7 DEF doDeleteSelected
  <2>2. /\ out.nodes = nodes \/ \E S \in SUBSET DOMAIN nodes : out.nodes = Only(nodes, S)
        /\ \E T \in SUBSET DOMAIN edges : out.edges = Only(edges, T)
    BY DEF removeSelection
  <2> HIDE DEF out
  <2>3. Nodes(out.nodes) /\ Edges(out.edges)
    BY <1>1, <2>2, OnlyTyped
  <2>4. IsSelection(Nothing) /\ Selected(Nothing)
    BY DEF IsSelection, Selected, Nothing
  <2> QED BY <1>1, <2>1, <2>3, <2>4, RenderedTyped
<1>8. ASSUME NEW g \in Imports, doImport(g) PROVE CanvasTyped'
  BY <1>2, <1>8, ImportTyped DEF doImport
<1>9. ASSUME NEW id \in Ids, FocusNode(id) PROVE CanvasTyped'
  <2>1. IsSelection(NodeSelection(id)) /\ Selected(NodeSelection(id))
    BY DEF IsSelection, Selected, NodeSelection
  <2>2. Render(Mark(nodes, NodeIds(nodes), {id}), edges, NodeSelection(id), form) /\ UNCHANGED schemas
    BY <1>9 DEF FocusNode
  <2> QED BY <1>1, <2>1, <2>2, MarkTyped, RenderedTyped
<1>10. ASSUME NEW k \in DOMAIN edges, FocusEdge(k) PROVE CanvasTyped'
  <2>1. edges[k].id \in EdgeIds
    BY <1>1 DEF Edges, IsEdge
  <2>2. IsSelection(EdgeSelection(edges[k].id)) /\ Selected(EdgeSelection(edges[k].id))
    BY <2>1 DEF IsSelection, Selected, EdgeSelection
  <2>3. Render(nodes, edges, EdgeSelection(edges[k].id), form) /\ UNCHANGED schemas
    BY <1>10 DEF FocusEdge
  <2> QED BY <1>1, <2>2, <2>3, RenderedTyped
<1>11. ASSUME EditEdge PROVE CanvasTyped'
  <2> DEFINE holders == Holders(edges, selection.id)
  <2>1. /\ holders # {} /\ UNCHANGED schemas
        /\ \E patch \in EdgeForm(edges[First(holders)]) :
             Render(nodes, updateEdgeData(selection.id, patch), selection, form)
    BY <1>11 DEF EditEdge
  <2>2. holders \subseteq Nat /\ holders \subseteq DOMAIN edges
    BY DEF Holders, Arrays, IsArray
  <2> HIDE DEF holders
  <2>3. First(holders) \in DOMAIN edges
    BY <2>1, <2>2, FirstOf
  <2>4. IsEdge(edges[First(holders)])
    BY <1>1, <2>3 DEF Edges
  <2>5. PICK patch \in EdgeForm(edges[First(holders)]) :
          Render(nodes, updateEdgeData(selection.id, patch), selection, form)
    BY <2>1
  <2>6. patch.priority \in Numbers /\ patch.condition \in Conditions
    BY <2>4, <2>5 DEF EdgeForm, NumberField, IsEdge
  <2> QED BY <1>1, <1>2, <2>1, <2>5, <2>6, EdgeTyped
<1>12. ASSUME LoadSchemas PROVE CanvasTyped'
  <2>1. /\ UNCHANGED <<nodes, edges, selection>> /\ schemas' = Types
        /\ form' = Inspector(selection, nodes, Types, form)
    BY <1>12 DEF LoadSchemas, data
  <2>2. DOMAIN nodes \subseteq Nat
    BY DEF Arrays, IsArray
  <2>3. form' # NoForm =>
          /\ FormTyped(form') /\ DOMAIN form'.text = RawFields(nodes[First(Holders(nodes, form'.on))].type)
          /\ nodes[First(Holders(nodes, form'.on))].type \in Types
    BY <1>1, <2>1, <2>2, InspectorTyped
  <2> QED BY <1>1, <2>1, <2>3 DEF CanvasTyped, ShownNode
<1>13. ASSUME doValidate \/ UNCHANGED vars PROVE CanvasTyped'
  <2>1. UNCHANGED <<nodes, edges, selection, schemas, form>>
    BY <1>13 DEF doValidate, vars, data, view
  <2> QED BY <2>1 DEF CanvasTyped, ShownNode
<1>14. ASSUME NEW r, ValidateAnswers(r) \/ ValidateFails(r) PROVE CanvasTyped'
  <2>1. UNCHANGED <<nodes, edges, selection, schemas, form>>
    BY <1>14 DEF ValidateAnswers, ValidateFails, data, view
  <2> QED BY <2>1 DEF CanvasTyped, ShownNode
<1>15. ASSUME NEW e \in errors, focusTarget(mapError(e)) PROVE CanvasTyped'
  BY <1>9, <1>10, <1>15 DEF focusTarget
<1>16. ASSUME UserStep PROVE CanvasTyped'
  <2>1. (ClearSelection \/ \E a, b : SelectOnCanvas(a, b)) => CanvasTyped'
    BY <1>5, SelectionMarks
  <2> QED BY <1>3, <1>4, <1>6, <1>7, <1>11, <1>13, <1>15, <1>16, <2>1, FormStepTyped
          DEF UserStep, ClickError
<1> QED BY <1>8, <1>12, <1>13, <1>14, <1>16 DEF Next

GraphTyped(g) == g.StartAt \in Ids \cup {Blank} /\ \A k \in DOMAIN g.Nodes : g.Nodes[k].Id \in Ids
ErrorsTyped(errs) == \A e \in errs : mapError(e).kind = "node" => mapError(e).id \in Ids
MessagesTyped == ErrorsTyped(errors) /\ \A r \in DOMAIN flight : GraphTyped(flight[r].graph)

LEMMA WireTyped == ASSUME Arrays, Nodes(nodes) PROVE GraphTyped(toWire(nodes, edges))
<1> DEFINE g == toWire(nodes, edges)
           starts == {k \in DOMAIN nodes : nodes[k].start}
<1>1. g.StartAt = IF starts = {} THEN Blank ELSE nodes[Last(starts)].id
  BY DEF toWire
<1>2. starts # {} => Last(starts) \in DOMAIN nodes
  <2>1. starts \in SUBSET Nat /\ starts \subseteq DOMAIN nodes /\ \E m \in Nat : \A j \in starts : j <= m
    BY DEF Arrays, IsArray
  <2> HIDE DEF starts
  <2> QED BY <2>1, LastOf
<1>3. g.StartAt \in Ids \cup {Blank}
  <2> HIDE DEF g, starts
  <2> QED BY <1>1, <1>2 DEF Nodes, IsNode
<1>4. ASSUME NEW k \in DOMAIN nodes PROVE First(Holders(nodes, nodes[k].id)) \in DOMAIN nodes
                                        /\ Last(Holders(nodes, nodes[k].id)) \in DOMAIN nodes
  <2> DEFINE S == Holders(nodes, nodes[k].id)
  <2>1. /\ S \in SUBSET Nat /\ S \subseteq DOMAIN nodes /\ k \in S
        /\ \E m \in Nat : \A j \in S : j <= m
    BY <1>4 DEF Holders, Arrays, IsArray
  <2> HIDE DEF S
  <2>2. First(S) \in S /\ Last(S) \in S
    BY <2>1, FirstOf, LastOf
  <2> QED BY <2>1, <2>2 DEF S
<1>5. \A k \in DOMAIN g.Nodes : k \in DOMAIN nodes /\ g.Nodes[k].Id = nodes[Last(Holders(nodes, nodes[k].id))].id
  BY <1>4 DEF toWire, NodeIds
<1>6. \A k \in DOMAIN g.Nodes : g.Nodes[k].Id \in Ids
  <2> HIDE DEF g
  <2> QED BY <1>4, <1>5 DEF Nodes, IsNode
<1> QED BY <1>3, <1>6 DEF GraphTyped

LEMMA AnswerTyped ==
  ASSUME NEW g, GraphTyped(g), NEW errs \in ValidateGraph(g)
  PROVE  ErrorsTyped(errs)
<1> SUFFICES ASSUME NEW e \in errs, mapError(e).kind = "node" PROVE mapError(e).id \in Ids
  BY DEF ErrorsTyped
<1>1. CASE \E k \in DOMAIN g.Nodes : e = ParseError(NodeTarget(g.Nodes[k].Id))
  BY <1>1 DEF ParseError, Nowhere, NodeTarget, mapError, GraphTyped
<1>2. CASE e = ParseError(Nowhere) \/ \E i : e = ParseError(EdgeTarget(i))
  BY <1>2 DEF ParseError, Nowhere, EdgeTarget, mapError
<1>3. CASE e \in StructuralErrors(g)
  <2>1. CASE e = StartError(Nowhere)
    BY <2>1 DEF StartError, Nowhere, mapError
  <2>2. CASE e = StartError(NodeTarget(g.StartAt)) /\ g.StartAt # Blank
    BY <2>2 DEF StartError, Nowhere, NodeTarget, mapError, GraphTyped
  <2>3. CASE \E i, end : e = EdgeError(i, end)
    BY <2>3 DEF EdgeError, EdgeTarget, mapError
  <2> QED BY <1>3, <2>1, <2>2, <2>3 DEF StructuralErrors
<1> QED BY <1>1, <1>2, <1>3 DEF ValidateGraph

LEMMA MessagesTypedStep ==
  ASSUME Arrays, Versions, CanvasTyped, MessagesTyped, [Next]_vars
  PROVE  MessagesTyped'
<1>1. CASE UNCHANGED <<results, requests>>
  BY <1>1 DEF results, requests, MessagesTyped
<1>2. CASE doValidate
  <2> DEFINE e == [graph |-> toWire(nodes, edges), at |-> edits]
  <2>1. flight' = Push(flight, e) /\ UNCHANGED errors
    BY <1>2 DEF doValidate, results
  <2>2. GraphTyped(e.graph)
    BY WireTyped DEF CanvasTyped
  <2> HIDE DEF e
  <2>3. PICK new \in Nat : Pushed(flight, e, flight', new)
    BY <2>1, PushOf DEF Versions
  <2> QED BY <2>1, <2>2, <2>3 DEF Pushed, MessagesTyped
<1>3. CASE errors' = {} /\ UNCHANGED requests
  BY <1>3 DEF requests, MessagesTyped, ErrorsTyped
<1>4. ASSUME NEW r \in DOMAIN flight, ValidateAnswers(r) \/ ValidateFails(r) PROVE MessagesTyped'
  <2>1. \A s \in DOMAIN flight' : s \in DOMAIN flight /\ flight'[s] = flight[s]
    BY <1>4 DEF ValidateAnswers, ValidateFails, Answered, Only
  <2>2. errors' = errors \/ errors' \in ValidateGraph(flight[r].graph)
    BY <1>4 DEF ValidateAnswers, ValidateFails, results
  <2> QED BY <1>4, <2>1, <2>2, AnswerTyped DEF MessagesTyped
<1> QED BY <1>1, <1>2, <1>3, <1>4, ResultsStep

LEMMA PageStep ==
  ASSUME strayed \in BOOLEAN, [Next]_vars
  PROVE  strayed' \in BOOLEAN
<1> DEFINE Page == strayed' \in BOOLEAN
<1>1. ASSUME strayed' = strayed \/ Follows PROVE Page
  BY <1>1 DEF Follows
<1>2. ASSUME NEW t, focusTarget(t) PROVE Page
  BY <1>2 DEF focusTarget, FocusNode, FocusEdge
<1> HIDE DEF Page
<1>3. ASSUME NEW type, onDropNode(type) PROVE Page
  BY <1>1, <1>3 DEF onDropNode
<1>4. ASSUME NEW source, NEW target, onConnect(source, target) PROVE Page
  BY <1>1, <1>4 DEF onConnect
<1>5. ASSUME Marking PROVE Page
  BY <1>1, <1>5 DEF Marking
<1>6. ASSUME DeleteKey \/ doDeleteSelected \/ EditEdge PROVE Page
  BY <1>1, <1>6 DEF DeleteKey, doDeleteSelected, EditEdge
<1>7. ASSUME NEW g, doImport(g) PROVE Page
  BY <1>1, <1>7 DEF doImport
<1>8. ASSUME LoadSchemas \/ doValidate \/ UNCHANGED vars
      PROVE  Page
  BY <1>1, <1>8 DEF LoadSchemas, doValidate, vars, view
<1>9. ASSUME NEW r, ValidateAnswers(r) \/ ValidateFails(r) PROVE Page
  BY <1>1, <1>9 DEF ValidateAnswers, ValidateFails, view
<1>10. ASSUME EditForm PROVE Page
  <2>1. ASSUME NEW f, NEW v, EditField(f, v) PROVE Page
    BY <1>1, <2>1 DEF EditField
  <2>2. ASSUME NEW f, NEW text, TypeRawJson(f, text) PROVE Page
    BY <1>1, <2>2 DEF TypeRawJson
  <2>3. ASSUME NEW f, BlurRawJson(f) PROVE Page
    BY <1>1, <2>3 DEF BlurRawJson
  <2> QED BY <1>10, <2>1, <2>2, <2>3 DEF EditForm
<1>11. ASSUME UserStep PROVE Page
  <2>1. (ClearSelection \/ \E a, b : SelectOnCanvas(a, b)) => Page
    BY <1>5, SelectionMarks
  <2> QED BY <1>2, <1>3, <1>4, <1>6, <1>8, <1>10, <1>11, <2>1 DEF UserStep, ClickError
<1>12. Page
  BY <1>7, <1>8, <1>9, <1>11 DEF Next
<1> QED BY <1>12 DEF Page

(* Type correctness: every variable holds what its code type says, the     *)
(* form that of the node on display included.                              *)
THEOREM EditorTypeOK == Spec => []TypeOK
<1> DEFINE Page == strayed \in BOOLEAN
           Inv == CanvasTyped /\ MessagesTyped /\ Twins /\ Page
<1>1. Init => Inv
  <2> SUFFICES ASSUME Init PROVE Inv
    OBVIOUS
  <2>1. /\ DOMAIN nodes = {} /\ DOMAIN edges = {} /\ DOMAIN flight = {}
        /\ selection.kind = "none" /\ errors = {} /\ form = NoForm
    BY DEF Init, Nothing
  <2>2. CanvasTyped
    BY <2>1 DEF Init, CanvasTyped, Nodes, Edges, Selected
  <2>3. MessagesTyped
    BY <2>1 DEF MessagesTyped, ErrorsTyped
  <2>4. Twins
    BY <2>1 DEF Init, Twins
  <2>5. Page
    BY DEF Init
  <2> QED BY <2>2, <2>3, <2>4, <2>5
<1>2. ASSUME Inv, Arrays, Arrays', Versions, FormOfShown, [Next]_vars PROVE Inv'
  <2>1. idSeq \in Nat /\ \A e \in errors : mapError(e).kind = "node" => mapError(e).id \in Ids
    BY <1>2 DEF Twins, MessagesTyped, ErrorsTyped
  <2>2. CanvasTyped'
    BY <1>2, <2>1, CanvasTypedStep
  <2>3. MessagesTyped' /\ Twins' /\ Page'
    BY <1>2, MessagesTypedStep, TwinsStep, PageStep
  <2> QED BY <2>2, <2>3
<1>3. ASSUME Inv, Arrays, Versions, FormOfShown PROVE TypeOK
  <2>1. form # NoForm =>
          /\ selection = NodeSelection(form.on) /\ Holders(nodes, form.on) # {}
          /\ FormTyped(form) /\ DOMAIN form.text = RawFields(ShownNode.type)
    BY <1>3 DEF FormOfShown, CanvasTyped
  <2>2. edits \in Nat /\ asked \in Nat /\ about \in Nat /\ \A r \in DOMAIN flight : flight[r].at \in Nat
    BY <1>3 DEF Versions
  <2>3. DOMAIN nodes \subseteq Nat /\ DOMAIN edges \subseteq Nat
    BY <1>3 DEF Arrays, IsArray
  <2> QED BY <1>3, <2>1, <2>2, <2>3 DEF TypeOK, Twins, CanvasTyped, Nodes, Edges, Selected, FormTyped
<1> QED BY <1>1, <1>2, <1>3, ArraysAlways, FormAlways, ErrorsOfGraphAlways, PTL DEF Spec
=============================================================================
