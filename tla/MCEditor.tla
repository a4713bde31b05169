------------------------------ MODULE MCEditor ------------------------------
(* Small node types, fields and documents for Editor.  Every field type is *)
(* there.  Both documents have a node with an id like that of a dropped    *)
(* one.  In the first one, that node and the condition of the edge are     *)
(* such as the server refuses, and the start is no node; in the second one *)
(* the edges miss an end.  Both have something the canvas has no room for. *)
EXTENDS Editor, TLC

MCSchema == [choice |-> {"Choices"}, human |-> {"Actions", "Timeout", "Prompt", "Stream"}]
MCFieldType == [Choices |-> "raw", Actions |-> "string[]", Timeout |-> "number", Prompt |-> "string", Stream |-> "bool"]
MCRefused == [f \in DOMAIN MCFieldType |-> IF f = "Choices" THEN {"unreadable"} ELSE {}]

Entry(id, type, config, rest) == [Id |-> id, Type |-> type, Config |-> config, Rest |-> rest]
Link(from, to, priority, condition, label) ==
  [From |-> from, To |-> to, Priority |-> priority, Condition |-> condition, Label |-> label]

MCFirst ==
  [ StartAt |-> <<"ghost", 0>>,
    Nodes |-> << Entry(<<"choice", 1>>, "choice", "Choices" :> "unreadable", ""),
                 Entry(<<"ask", 0>>, "human", "Timeout" :> 1, "extra") >>,
    Edges |-> << Link(<<"choice", 1>>, <<"ask", 0>>, 1, "bad", "extra") >>,
    MaxSteps |-> 5, Rest |-> "extra" ]
MCSecond ==
  [ StartAt |-> <<"choice", 1>>,
    Nodes |-> << Entry(<<"choice", 1>>, "choice", <<>>, "") >>,
    Edges |-> << Link(<<"ghost", 0>>, <<"choice", 1>>, 0, "good", ""), Link(<<"choice", 1>>, Blank, 0, "", "extra") >>,
    MaxSteps |-> 0, Rest |-> "" ]
MCImports == {MCFirst, MCSecond}
=============================================================================
