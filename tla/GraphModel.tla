----------------------------- MODULE GraphModel -----------------------------
(***************************************************************************)
(* The data of the graph editor (web/src/model) and its conversions: the   *)
(* canvas, the graph document that is exported, imported and sent to the   *)
(* server, the server's check of it and the client's reading of errors.    *)
(*                                                                         *)
(* An array is a function on a finite set of stamps, in whose order its    *)
(* elements are: a filter restricts the function, an element is appended   *)
(* with a larger stamp, and what the code calls an index counts the        *)
(* smaller stamps.                                                         *)
(***************************************************************************)
EXTENDS Naturals, FiniteSets, Sequences

CONSTANTS
  Types,      \* the node types registered in the server
  Names,      \* what may stand for a type or a name in a document
  Blank,      \* the id ""
  Fields,     \* config fields
  Schema,     \* Schema[t]: the fields of type t
  FieldType,  \* "string", "number", "bool", "string[]" or "raw"
  Texts,      \* contents of a text input, "" among them
  Numbers,    \* what a number input may hold, 0 among them
  Fractions,  \* those of them that are no Go int
  Json,       \* values of a raw JSON field, "null" among them
  Refused,    \* Refused[f]: values of f that the server does not accept
  Conditions, \* conditions of edges, "" for none
  BadConditions,
  Extras      \* what the canvas has no room for, "" for none

ASSUME GraphModelAssumption ==
  /\ Types \subseteq Names /\ Blank \notin Names \X Nat
  /\ Schema \in [Types -> SUBSET Fields]
  /\ FieldType \in [Fields -> {"string", "number", "bool", "string[]", "raw"}]
  /\ "" \in Texts /\ Fractions \subseteq Numbers /\ 0 \in Numbers \ Fractions
  /\ "null" \in Json /\ "" \in Extras
  /\ "" \in Conditions /\ BadConditions \subseteq Conditions \ {""}

(* <<t, n>> is the id `${t}_${n}`, which a dropped node gets and which a   *)
(* document may contain as well; names of another form are <<name, 0>>.    *)
(* No name has a hyphen, so that the id of an edge tells its ends.         *)
Ids == Names \X Nat

First(S) == CHOOSE k \in S : \A j \in S : k <= j
Last(S) == CHOOSE k \in S : \A j \in S : j <= k
Index(k, S) == Cardinality({j \in S : j < k})

Holders(nodes, id) == {k \in DOMAIN nodes : nodes[k].id = id}
NodeIds(nodes) == {nodes[k].id : k \in DOMAIN nodes}
Only(elements, S) == [k \in S |-> elements[k]]
Push(elements, e) ==
  LET new == Last({0} \cup DOMAIN elements) + 1
  IN  [k \in DOMAIN elements \cup {new} |-> IF k = new THEN e ELSE elements[k]]

(* The values of a field, and the documents of web/src/model/types.ts.  A  *)
(* document has its nodes under different ids, in the order of their keys. *)
(* Its edges may have a Label; what only the Go types name (graph.go) is   *)
(* the Rest: paths, policies and timeout of a node, OnError, OnTimeout and *)
(* Version of the graph.                                                   *)
ValuesOf(f) ==
  CASE FieldType[f] = "string"   -> Texts
    [] FieldType[f] = "number"   -> Numbers
    [] FieldType[f] = "bool"     -> BOOLEAN
    [] FieldType[f] = "string[]" -> Seq(Texts)
    [] FieldType[f] = "raw"      -> Json
IsConfig(c) ==
  c = [f \in DOMAIN c |-> c[f]] /\ DOMAIN c \subseteq Fields /\ \A f \in DOMAIN c : c[f] \in ValuesOf(f)

IsDocument(g) ==
  /\ g = [StartAt |-> g.StartAt, Nodes |-> g.Nodes, Edges |-> g.Edges,
          MaxSteps |-> g.MaxSteps, Rest |-> g.Rest]
  /\ g.StartAt \in Ids \cup {Blank} /\ g.MaxSteps \in Nat /\ g.Rest \in Extras
  /\ Len(g.Nodes) \in Nat /\ g.Nodes = [k \in 1..Len(g.Nodes) |-> g.Nodes[k]]
  /\ \A k \in DOMAIN g.Nodes :
       LET n == g.Nodes[k]
       IN  /\ n = [Id |-> n.Id, Type |-> n.Type, Config |-> n.Config, Rest |-> n.Rest]
           /\ n.Id \in Ids /\ n.Type \in Names /\ IsConfig(n.Config) /\ n.Rest \in Extras
           /\ \A j \in DOMAIN g.Nodes : g.Nodes[j].Id = n.Id => j = k
  /\ Len(g.Edges) \in Nat /\ g.Edges = [k \in 1..Len(g.Edges) |-> g.Edges[k]]
  /\ \A k \in DOMAIN g.Edges :
       g.Edges[k] \in [From : Ids \cup {Blank}, To : Ids \cup {Blank},
                       Priority : Numbers, Condition : Conditions, Label : Extras]

(* The ids of edges: `e${i}-${From}-${To}` of the i-th imported edge, and  *)
(* `xy-edge__${source}-${target}` of a drawn one.                          *)
ImportedEdgeId(i, from, to) == <<"e", i, from, to>>
DrawnEdgeId(from, to) == <<"xy-edge__", 0, from, to>>

----------------------------------------------------------------------------
(* Canvas to document.  Nodes of one id become one entry, at the place of  *)
(* the first and with the data of the last; an empty condition, Condition  *)
(* |-> "" here, is left out, and so are positions, selection and what the  *)
(* canvas never held: labels, MaxSteps (0 here) and the rest.              *)
toWire(nodes, edges) ==
  LET starts == {k \in DOMAIN nodes : nodes[k].start}
      entries == {First(Holders(nodes, id)) : id \in NodeIds(nodes)}
  IN  [ StartAt |-> IF starts = {} THEN Blank ELSE nodes[Last(starts)].id,
        Nodes |-> [k \in entries |->
                     LET n == nodes[Last(Holders(nodes, nodes[k].id))]
                     IN  [Id |-> n.id, Type |-> n.type, Config |-> n.config, Rest |-> ""]],
        Edges |-> [k \in DOMAIN edges |->
                     [From |-> edges[k].source, To |-> edges[k].target,
                      Priority |-> edges[k].priority, Condition |-> edges[k].condition,
                      Label |-> ""]],
        MaxSteps |-> 0, Rest |-> "" ]

(* A mutant: conditions are lost.                                          *)
fromWireUnconditional(g) ==
  [ nodes |-> [k \in DOMAIN g.Nodes |->
                 LET n == g.Nodes[k]
                 IN  [id |-> n.Id, type |-> n.Type, config |-> n.Config,
                      start |-> n.Id = g.StartAt, selected |-> FALSE]],
    edges |-> [k \in DOMAIN g.Edges |->
                 LET e == g.Edges[k]
                 IN  [id |-> ImportedEdgeId(Index(k, DOMAIN g.Edges), e.From, e.To),
                      source |-> e.From, target |-> e.To,
                      priority |-> e.Priority, condition |-> "", selected |-> FALSE]] ]

(* Document to canvas.  Of StartAt a flag remains; MaxSteps, the labels of *)
(* edges ("dropped on round-trip") and the rest have no place there.       *)
fromWire(g) ==
  [ nodes |-> [k \in DOMAIN g.Nodes |->
                 LET n == g.Nodes[k]
                 IN  [id |-> n.Id, type |-> n.Type, config |-> n.Config,
                      start |-> n.Id = g.StartAt, selected |-> FALSE]],
    edges |-> [k \in DOMAIN g.Edges |->
                 LET e == g.Edges[k]
                 IN  [id |-> ImportedEdgeId(Index(k, DOMAIN g.Edges), e.From, e.To),
                      source |-> e.From, target |-> e.To,
                      priority |-> e.Priority, condition |-> e.Condition,
                      selected |-> FALSE]] ]

Touches(e, ids) == e.source \in ids \/ e.target \in ids

(* A mutant: the edges that lead to a deleted node stay.                   *)
removeSelectionAndOut(nodes, edges, selection) ==
  IF selection.kind = "node"
    THEN [ nodes |-> Only(nodes, {k \in DOMAIN nodes : nodes[k].id # selection.id}),
           edges |-> Only(edges, {k \in DOMAIN edges : edges[k].source # selection.id}) ]
    ELSE [ nodes |-> nodes,
           edges |-> Only(edges, {k \in DOMAIN edges : edges[k].id # selection.id}) ]

(* A node goes with every edge that touches it, an edge alone.             *)
removeSelection(nodes, edges, selection) ==
  IF selection.kind = "node"
    THEN [ nodes |-> Only(nodes, {k \in DOMAIN nodes : nodes[k].id # selection.id}),
           edges |-> Only(edges, {k \in DOMAIN edges : ~Touches(edges[k], {selection.id})}) ]
    ELSE [ nodes |-> nodes,
           edges |-> Only(edges, {k \in DOMAIN edges : edges[k].id # selection.id}) ]

----------------------------------------------------------------------------
(* The server's answer to a document.  What fails in UnmarshalGraph is the *)
(* only error and has the path "<graph>".  Its message names the place,    *)
(* but for a priority that is no Go int, which fails as a whole; nodes are *)
(* read in the random order of a Go map.  The structural checks give all   *)
(* their errors, those of edges with a path that has the index.            *)
Nowhere == [kind |-> "graph"]
NodeTarget(id) == [kind |-> "node", id |-> id]
EdgeTarget(i) == [kind |-> "edge", index |-> i]
ParseError(place) == [path |-> Nowhere, message |-> place]
StartError(place) == [path |-> Nowhere, message |-> place]
EdgeError(i, end) == [path |-> EdgeTarget(i), message |-> EdgeTarget(i), end |-> end]

BadNode(n) == \/ n.Type \notin Types
              \/ \E f \in Schema[n.Type] \cap DOMAIN n.Config : n.Config[f] \in Refused[f]

Unknown(g, id) == id # Blank /\ \A k \in DOMAIN g.Nodes : g.Nodes[k].Id # id

(* A mutant: the ends where edges begin are not checked.                   *)
StructuralErrorsOfTargets(g) ==
  (IF g.StartAt = Blank THEN {StartError(Nowhere)}
   ELSE IF Unknown(g, g.StartAt) THEN {StartError(NodeTarget(g.StartAt))} ELSE {})
  \cup {EdgeError(Index(k, DOMAIN g.Edges), "to") :
          k \in {j \in DOMAIN g.Edges : Unknown(g, g.Edges[j].To)}}

StructuralErrors(g) ==
  (IF g.StartAt = Blank THEN {StartError(Nowhere)}
   ELSE IF Unknown(g, g.StartAt) THEN {StartError(NodeTarget(g.StartAt))} ELSE {})
  \cup {EdgeError(Index(k, DOMAIN g.Edges), "from") :
          k \in {j \in DOMAIN g.Edges : Unknown(g, g.Edges[j].From)}}
  \cup {EdgeError(Index(k, DOMAIN g.Edges), "to") :
          k \in {j \in DOMAIN g.Edges : Unknown(g, g.Edges[j].To)}}

ValidateGraph(g) ==
  LET badNodes == {k \in DOMAIN g.Nodes : BadNode(g.Nodes[k])}
      badEdges == {k \in DOMAIN g.Edges : g.Edges[k].Condition \in BadConditions}
  IN  IF \E k \in DOMAIN g.Edges : g.Edges[k].Priority \in Fractions THEN {{ParseError(Nowhere)}}
      ELSE IF badNodes # {} THEN {{ParseError(NodeTarget(g.Nodes[k].Id))} : k \in badNodes}
      ELSE IF badEdges # {}
        THEN {{ParseError(EdgeTarget(Index(First(badEdges), DOMAIN g.Edges)))}}
      ELSE {StructuralErrors(g)}

(* A mutant: the index counts from one.                                    *)
mapErrorFromOne(e) ==
  IF e.path.kind = "edge" THEN EdgeTarget(e.path.index + 1) ELSE e.message

(* The client looks for an edge in the path, then for a node, then for an  *)
(* edge in the message; the rest concerns the graph.                       *)
mapError(e) == IF e.path.kind = "edge" THEN e.path ELSE e.message
=============================================================================
