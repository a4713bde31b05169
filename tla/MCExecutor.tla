----------------------------- MODULE MCExecutor -----------------------------
(***************************************************************************)
(* A graph in the shape of the default agent graph, with what custom       *)
(* graphs add: a human node, an asynchronous tool, conditional edges in an *)
(* order their priorities change, an error handler that leads back to the  *)
(* node that failed, an edge and a choice of the empty name, and targets   *)
(* that are not nodes.                                                     *)
(***************************************************************************)
EXTENDS Executor

MCNodes == {"llm", "route", "dispatch", "wait", "ask", "callback", "rescue", "end"}
MCStrays == {"typo"}
MCNoNode == "none"
MCKind == [n \in MCNodes |->
  CASE n = "llm" -> "llm" [] n = "route" -> "choice" [] n = "dispatch" -> "parallel"
    [] n = "ask" -> "human" [] n = "end" -> "end" [] OTHER -> "tool"]
Edge(f, t, c, p) == [from |-> f, to |-> t, condition |-> c, priority |-> p]
MCEdges == << Edge("llm", "route", NoCondition, 0),
              Edge("route", "end", "approved", 0),
              Edge("dispatch", "llm", NoCondition, 0),
              Edge("wait", "llm", NoCondition, 0),
              Edge("ask", "end", NoCondition, 2),
              Edge("ask", "llm", "approved", 1),
              Edge("callback", "none", "approved", 0),
              Edge("rescue", "route", NoCondition, 0) >>
MCChoices == [n \in MCNodes |-> IF n = "route" THEN {"dispatch", "ask", "callback", "end", "typo", MCNoNode} ELSE {}]
MCMaxAttempts == [n \in MCNodes |-> IF n = "llm" THEN 3 ELSE 0]
MCCatch == [n \in MCNodes |->
  IF n = "llm" THEN << [errors |-> {"rate_limited"}, next |-> "wait"],
                       [errors |-> {"rate_limited", "canceled"}, next |-> "end"] >>
  ELSE IF n = "wait" THEN << [errors |-> {"other"}, next |-> MCNoNode] >>
  ELSE << >>]
=============================================================================
