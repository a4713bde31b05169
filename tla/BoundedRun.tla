----------------------------- MODULE BoundedRun -----------------------------
(***************************************************************************)
(* What an execution of a graph promises its caller, whatever the graph:   *)
(* a run has a fixed amount of fuel, every node it enters burns one unit,  *)
(* and a run that was paused goes on with the fuel it had left, never with *)
(* a full tank.  Executor implements this specification.                   *)
(***************************************************************************)
EXTENDS Naturals

CONSTANTS Tank,      \* the number of nodes a run may enter
          NotSaved   \* no pause has happened yet

VARIABLES phase,     \* "ready", "active", "paused" or "over"
          fuel,      \* nodes the run may still enter
          saved      \* the fuel left at the last pause, or NotSaved

vars == <<phase, fuel, saved>>

Init == phase = "ready" /\ fuel = Tank /\ saved = NotSaved

Begin == phase = "ready" /\ phase' = "active" /\ UNCHANGED <<fuel, saved>>

Burn == phase = "active" /\ fuel > 0 /\ fuel' = fuel - 1 /\ UNCHANGED <<phase, saved>>

\* The run may burn its last unit on a name that leads nowhere.
Finish == /\ phase = "active" /\ phase' = "over"
          /\ fuel' \in {fuel, fuel - 1} /\ fuel' >= 0
          /\ UNCHANGED saved

Pause == phase = "active" /\ phase' = "paused" /\ saved' = fuel /\ UNCHANGED fuel

\* The caller may use one pause more than once; a resume that cannot be
\* routed ends the run at once.
Resume == /\ phase \in {"paused", "over"}
          /\ saved # NotSaved
          /\ phase' \in {"active", "over"}
          /\ fuel' = IF phase' = "active" THEN saved ELSE fuel
          /\ UNCHANGED saved

Next == Begin \/ Burn \/ Finish \/ Pause \/ Resume

Spec == Init /\ [][Next]_vars
=============================================================================
