----------------------------- MODULE ConfigForm -----------------------------
(***************************************************************************)
(* The config form of the graph editor (web/src/components): which values  *)
(* its widgets hand on, and the text that a raw JSON widget keeps for      *)
(* itself between its mount and its blur.  A text is told by the value it  *)
(* parses to, and is Garbled if it does not parse.                         *)
(***************************************************************************)
EXTENDS GraphModel

CONSTANTS
  Garbled,   \* a text that is no JSON
  NoForm,    \* the inspector shows no form
  MaxItems   \* bound on a list of strings

ASSUME ConfigFormAssumption == Garbled \notin Json /\ MaxItems \in Nat

(* A config is an object: a function on the fields that it has.            *)
Get(config, f, default) == IF f \in DOMAIN config THEN config[f] ELSE default
Set(config, f, v) ==
  [g \in DOMAIN config \cup {f} |-> IF g = f THEN v ELSE config[g]]

(* Number("") is 0.  A checkbox offers the other value.  A list widget     *)
(* adds what is typed, trimmed and not empty, or takes one item out.       *)
StringField == Texts
NumberField == Numbers
BoolField(value) == {~value}
StringListField(items) ==
  { Append(items, t) : t \in IF Len(items) < MaxItems THEN Texts \ {""} ELSE {} }
    \cup { [j \in 1..Len(items) - 1 |-> IF j < i THEN items[j] ELSE items[j + 1]] :
             i \in 1..Len(items) }

(* What the widget of field f may hand to onChange, raw JSON apart.        *)
FieldWidget(f, config) ==
  CASE FieldType[f] = "string"   -> StringField
    [] FieldType[f] = "number"   -> NumberField
    [] FieldType[f] = "bool"     -> BoolField(Get(config, f, FALSE))
    [] FieldType[f] = "string[]" -> StringListField(Get(config, f, <<>>))
    [] FieldType[f] = "raw"      -> {}

----------------------------------------------------------------------------
(* The form on display, of the node with id `on`: the text of each raw     *)
(* widget, and which of them were typed in since their last blur, and      *)
(* which show "Invalid JSON".                                              *)
RawFields(type) == {f \in Schema[type] : FieldType[f] = "raw"}
FormFor(n, text, dirty, invalid) ==
  [on |-> n.id, text |-> text, dirty |-> dirty, invalid |-> invalid]

(* A raw widget takes its text from the config when it is mounted.         *)
Mount(n) ==
  FormFor(n, [f \in RawFields(n.type) |-> Get(n.config, f, "null")], {}, {})

(* A form that stays keeps the widgets whose fields it still has.          *)
Keep(form, n) ==
  LET kept == DOMAIN form.text \cap RawFields(n.type)
  IN  FormFor(n, [f \in RawFields(n.type) |->
                    IF f \in kept THEN form.text[f] ELSE Get(n.config, f, "null")],
              form.dirty \cap kept, form.invalid \cap kept)

(* Inspector: the first node with the selected id, if its type has a       *)
(* schema; the key of its form is the id, so the form of one id stays.     *)
Shown(selection, nodes) ==
  IF selection.kind # "node" THEN {} ELSE
    LET holders == Holders(nodes, selection.id)
    IN  {k \in holders : k = First(holders)}

(* Mutants: the form has no key; the form of a node that is gone stays.    *)
InspectorUnkeyed(selection, nodes, schemas, form) ==
  LET shown == {k \in Shown(selection, nodes) : nodes[k].type \in schemas}
  IN  IF shown = {} THEN NoForm
      ELSE LET n == nodes[First(shown)]
           IN  IF form # NoForm THEN Keep(form, n) ELSE Mount(n)

InspectorStays(selection, nodes, schemas, form) ==
  LET shown == {k \in Shown(selection, nodes) : nodes[k].type \in schemas}
  IN  IF shown = {} THEN form
      ELSE LET n == nodes[First(shown)]
           IN  IF form # NoForm /\ form.on = n.id THEN Keep(form, n) ELSE Mount(n)

Inspector(selection, nodes, schemas, form) ==
  LET shown == {k \in Shown(selection, nodes) : nodes[k].type \in schemas}
  IN  IF shown = {} THEN NoForm
      ELSE LET n == nodes[First(shown)]
           IN  IF form # NoForm /\ form.on = n.id THEN Keep(form, n) ELSE Mount(n)

TypeText(form, f, text) ==
  [form EXCEPT !.text[f] = text, !.dirty = @ \cup {f}]
Blurred(form, f) ==
  [form EXCEPT !.dirty = @ \ {f},
               !.invalid = IF form.text[f] = Garbled THEN @ \cup {f} ELSE @ \ {f}]
=============================================================================
