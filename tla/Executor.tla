------------------------------ MODULE Executor ------------------------------
(***************************************************************************)
(* The graph executor (pkg/orchestrator/executor) and the node runners it  *)
(* calls (pkg/orchestrator/runner), for an arbitrary graph: the step       *)
(* budget, retry with back-off, Catch and OnError, edge routing, the       *)
(* interrupt of a human node, and Resume from the snapshot it left.        *)
(*                                                                         *)
(* Data is abstract: a value is the name of what produced it, an error is  *)
(* a class (the set of Catch patterns its text contains is fixed), and the *)
(* verdict of an edge's condition on the current scope is arbitrary.       *)
(***************************************************************************)
EXTENDS Naturals, Sequences, FiniteSets

CONSTANTS
  Nodes,        \* the keys of Graph.Nodes
  Strays,       \* names that edges, Catch, OnError or Next use and Nodes lacks
  NoNode,       \* the empty name
  StartAt, OnError,
  GraphMaxSteps,\* Graph.MaxSteps as written: 0 when absent
  Edges,        \* Graph.Edges, in order
  Kind,         \* NodeSpec.Type
  Choices,      \* the names a choice node may pick, the empty one for no Next
  Async,        \* the tool nodes that wait for a callback
  MaxAttempts,  \* Retry[0].MaxAttempts, or 0 without a retry policy
  AttemptLimit, \* the largest of them, at least 1
  Catch,        \* NodeSpec.Catch, in order
  Errors, Canceled,
  Conditions, NoCondition,
  NoSnapshot

Kinds == {"llm", "choice", "parallel", "tool", "human", "end"}
Targets == Nodes \cup Strays \cup {NoNode}
EdgeSpec == [from : Nodes, to : Targets, condition : Conditions \cup {NoCondition}, priority : Nat]
CatchPolicy == [errors : SUBSET Errors, next : Targets]

ASSUME GraphAssumption ==
  /\ StartAt \in Targets /\ OnError \in Targets
  /\ NoNode \notin Nodes /\ Strays \cap Nodes = {} /\ NoNode \notin Strays
  /\ GraphMaxSteps \in Nat
  /\ Edges \in Seq(EdgeSpec)
  /\ Kind \in [Nodes -> Kinds]
  /\ Choices \in [Nodes -> SUBSET Targets]
  /\ Async \subseteq Nodes
  /\ MaxAttempts \in [Nodes -> Nat]
  /\ AttemptLimit \in Nat \ {0}
  /\ \A n \in Nodes : MaxAttempts[n] <= AttemptLimit
  /\ Catch \in [Nodes -> Seq(CatchPolicy)]
  /\ Canceled \in Errors
  /\ NoCondition \notin Conditions
\* No snapshot, nor a step count kept for one, is confused with its absence.
ASSUME SnapshotAssumption == NoSnapshot \notin [node : Nodes, step : Nat] /\ NoSnapshot \notin Nat

VARIABLES
  status,     \* where executeFrom stands, see Statuses
  node,       \* currentNode
  step,       \* step
  attempt,    \* runner calls made in this visit of the node
  lastResult, \* WorkMem.LastResult: who produced it
  snapshot,   \* the last ExecutionSnapshot handed to the caller
  canceled,   \* ctx is done
  calls,      \* history: runner calls behind the present state, through Resume
  pausedCalls \* history: calls when snapshot was taken
vars == <<status, node, step, attempt, lastResult, snapshot, canceled, calls, pausedCalls>>
history == <<calls, pausedCalls>>

Statuses == {"idle", "loop", "running", "backoff", "paused", "done", "failed"}
Active == {"loop", "running", "backoff"}
Snapshots == [node : Nodes, step : Nat]

\* executeFrom: a graph without a positive MaxSteps gets 100.
maxSteps == IF GraphMaxSteps = 0 THEN 100 ELSE GraphMaxSteps

----------------------------------------------------------------------------
(* What the runners return.  `fresh` says that Output is a new value; a     *)
(* choice and a human node hand their input on.                             *)

Result(next, fresh, ending, interrupt) ==
  [next |-> next, fresh |-> fresh, ending |-> ending, interrupt |-> interrupt]

LLMResults      == {Result(NoNode, TRUE, FALSE, FALSE)}
ChoiceResults(n) == {Result(c, FALSE, FALSE, FALSE) : c \in Choices[n]}
ParallelResults == {Result(NoNode, TRUE, FALSE, FALSE)}
ToolResults(n)  == {Result(NoNode, TRUE, FALSE, n \in Async)}
HumanResults    == {Result(NoNode, FALSE, FALSE, TRUE)}
EndResults      == {Result(NoNode, TRUE, TRUE, FALSE)}

Results(n) == CASE Kind[n] = "llm"      -> LLMResults
                [] Kind[n] = "choice"   -> ChoiceResults(n)
                [] Kind[n] = "parallel" -> ParallelResults
                [] Kind[n] = "tool"     -> ToolResults(n)
                [] Kind[n] = "human"    -> HumanResults
                [] Kind[n] = "end"      -> EndResults

\* The errors a runner may return now: human and end runners never fail, and
\* a cancellation error needs a cancelled context.
Faults(n) == IF Kind[n] \in {"human", "end"} THEN {}
             ELSE IF canceled THEN Errors ELSE Errors \ {Canceled}

----------------------------------------------------------------------------
(* Route: of the outgoing edges, by priority and then in graph order, the   *)
(* first that has no condition, or whose condition holds or cannot be       *)
(* evaluated, decides.  verdict is what each condition evaluates to.        *)

Verdicts == [Conditions -> {"true", "false", "error"}]
Decides(i, n, verdict) == /\ Edges[i].from = n
                          /\ \/ Edges[i].condition = NoCondition
                             \/ verdict[Edges[i].condition] # "false"
Before(i, j) == \/ Edges[i].priority < Edges[j].priority
                \/ Edges[i].priority = Edges[j].priority /\ i <= j
FirstDeciding(i, n, verdict) ==
  /\ Decides(i, n, verdict)
  /\ \A j \in DOMAIN Edges : Decides(j, n, verdict) => Before(i, j)
Evaluates(i, verdict) == Edges[i].condition = NoCondition \/ verdict[Edges[i].condition] # "error"

\* The node routing leads to from n, for a result that names no next node:
\* a set with at most one element, empty when Route returns an error.
RouteByEdge(n, verdict) ==
  {Edges[i].to : i \in {k \in DOMAIN Edges : FirstDeciding(k, n, verdict) /\ Evaluates(k, verdict)}}

Route(n, next, verdict) == IF next # NoNode THEN {next} ELSE RouteByEdge(n, verdict)

\* matchCatch: the target of the first policy with a pattern in the error's
\* text, again as a set; an empty target counts as no match.
Catches(n, err) == {i \in DOMAIN Catch[n] : err \in Catch[n][i].errors}
matchCatch(n, err) ==
  {Catch[n][i].next : i \in {k \in Catches(n, err) : \A j \in Catches(n, err) : k <= j}} \ {NoNode}

----------------------------------------------------------------------------
Init == /\ status = "idle" /\ node = NoNode /\ step = 0 /\ attempt = 0
        /\ lastResult = "input" /\ snapshot = NoSnapshot
        /\ canceled = FALSE /\ calls = 0 /\ pausedCalls = 0

Execute == /\ status = "idle"
           /\ status' = "loop" /\ node' = StartAt
           /\ UNCHANGED <<step, attempt, lastResult, snapshot, canceled, history>>

\* executeFrom stops at the empty name and returns LastResult.
LeaveLoop == /\ status = "loop" /\ node = NoNode
             /\ status' = "done"
             /\ UNCHANGED <<node, step, attempt, lastResult, snapshot, canceled, history>>

ExceedSteps == /\ status = "loop" /\ node # NoNode /\ step + 1 > maxSteps
               /\ step' = step + 1 /\ status' = "failed"
               /\ UNCHANGED <<node, attempt, lastResult, snapshot, canceled, history>>

MissNode == /\ status = "loop" /\ node \in Strays /\ step + 1 <= maxSteps
            /\ step' = step + 1 /\ status' = "failed"
            /\ UNCHANGED <<node, attempt, lastResult, snapshot, canceled, history>>

\* Mutant: the budget is compared before the step is counted.
EnterNodeUncounted == /\ status = "loop" /\ node \in Nodes /\ step <= maxSteps
                      /\ step' = step + 1 /\ status' = "running"
                      /\ attempt' = 1 /\ calls' = calls + 1
                      /\ UNCHANGED <<node, lastResult, snapshot, canceled, pausedCalls>>
\* Mutant: visits of the error handler are not counted.
EnterNodeHandlerFree == /\ status = "loop" /\ node \in Nodes /\ step + 1 <= maxSteps
                        /\ step' = IF node = OnError THEN step ELSE step + 1
                        /\ status' = "running"
                        /\ attempt' = 1 /\ calls' = calls + 1
                        /\ UNCHANGED <<node, lastResult, snapshot, canceled, pausedCalls>>
\* The first call of runWithRetry.
EnterNode == /\ status = "loop" /\ node \in Nodes /\ step + 1 <= maxSteps
             /\ step' = step + 1 /\ status' = "running"
             /\ attempt' = 1 /\ calls' = calls + 1
             /\ UNCHANGED <<node, lastResult, snapshot, canceled, pausedCalls>>

\* The error branch of executeFrom: Catch, then OnError, then give up.
HandleError(err) ==
  LET caught == matchCatch(node, err)
  IN \/ caught # {} /\ node' \in caught /\ status' = "loop"
     \/ caught = {} /\ OnError # NoNode /\ node' = OnError /\ status' = "loop"
     \/ caught = {} /\ OnError = NoNode /\ UNCHANGED node /\ status' = "failed"

\* A retry does not look at the kind of the error: RetryPolicy.Errors is unused.
FailRetryably == /\ status = "running" /\ attempt < MaxAttempts[node]
                 /\ Faults(node) # {}
                 /\ status' = "backoff"
                 /\ UNCHANGED <<node, step, attempt, lastResult, snapshot, canceled, history>>

FailFinally == /\ status = "running" /\ attempt >= MaxAttempts[node]
               /\ \E err \in Faults(node) : HandleError(err)
               /\ UNCHANGED <<step, attempt, lastResult, snapshot, canceled, history>>

\* Mutant: the second back-off never elapses.
TimerFiresOnce == /\ status = "backoff" /\ attempt < 2
                  /\ status' = "running" /\ attempt' = attempt + 1 /\ calls' = calls + 1
                  /\ UNCHANGED <<node, step, lastResult, snapshot, canceled, pausedCalls>>
\* select: when both channels are ready either branch may be taken.
TimerFires == /\ status = "backoff"
              /\ status' = "running" /\ attempt' = attempt + 1 /\ calls' = calls + 1
              /\ UNCHANGED <<node, step, lastResult, snapshot, canceled, pausedCalls>>

AbandonBackoff == /\ status = "backoff" /\ canceled
                  /\ HandleError(Canceled)
                  /\ UNCHANGED <<step, attempt, lastResult, snapshot, canceled, history>>

\* Mutant: the output is stored under the node the result names.
StoreUnderNext(r) == lastResult' = r.next
Store(r) == lastResult' = IF r.fresh THEN node ELSE lastResult

ReturnInterrupt == /\ status = "running"
                   /\ \E r \in Results(node) : r.interrupt /\ Store(r)
                   /\ status' = "paused"
                   /\ snapshot' = [node |-> node, step |-> step]
                   /\ pausedCalls' = calls
                   /\ UNCHANGED <<node, step, attempt, canceled, calls>>

ReturnEnd == /\ status = "running"
             /\ \E r \in Results(node) : ~r.interrupt /\ r.ending /\ Store(r)
             /\ status' = "done"
             /\ UNCHANGED <<node, step, attempt, snapshot, canceled, history>>

\* Route from n for a result naming `next`; nothing catches a routing error.
Follow(n, next) ==
  \E verdict \in Verdicts :
    \/ /\ Route(n, next, verdict) = {}
       /\ status' = "failed" /\ UNCHANGED node
    \/ /\ node' \in Route(n, next, verdict)
       /\ status' = "loop"

ReturnContinue == /\ status = "running"
                  /\ \E r \in Results(node) :
                       ~r.interrupt /\ ~r.ending /\ Store(r) /\ Follow(node, r.next)
                  /\ UNCHANGED <<step, attempt, snapshot, canceled, history>>

\* Mutant: a resume starts counting steps anew.
ResumeRefilled == /\ status \in {"paused", "done", "failed"} /\ snapshot # NoSnapshot
                  /\ lastResult' = "response"
                  /\ canceled' = FALSE
                  /\ attempt' = 0
                  /\ \E verdict \in Verdicts :
                       \/ /\ snapshot.node \notin Nodes \/ Route(snapshot.node, NoNode, verdict) = {}
                          /\ status' = "failed" /\ UNCHANGED <<node, step, calls>>
                       \/ /\ snapshot.node \in Nodes
                          /\ node' \in Route(snapshot.node, NoNode, verdict)
                          /\ status' = "loop" /\ step' = 0 /\ calls' = pausedCalls
                  /\ UNCHANGED <<snapshot, pausedCalls>>

\* The caller may resume the snapshot at any time after the pause, more than
\* once, and with a fresh context; the response is the paused node's output.
\* The working memory is shared with the snapshot, so LastResult is replaced
\* even when the response cannot be routed.
Resume == /\ status \in {"paused", "done", "failed"} /\ snapshot # NoSnapshot
          /\ lastResult' = "response"
          /\ canceled' = FALSE
          /\ attempt' = 0
          /\ \E verdict \in Verdicts :
               \/ /\ snapshot.node \notin Nodes \/ Route(snapshot.node, NoNode, verdict) = {}
                  /\ status' = "failed" /\ UNCHANGED <<node, step, calls>>
               \/ /\ snapshot.node \in Nodes
                  /\ node' \in Route(snapshot.node, NoNode, verdict)
                  /\ status' = "loop" /\ step' = snapshot.step /\ calls' = pausedCalls
          /\ UNCHANGED <<snapshot, pausedCalls>>

\* The environment: the user interrupts the run (context cancellation).
Cancel == /\ status \in Active /\ ~canceled
          /\ canceled' = TRUE
          /\ UNCHANGED <<status, node, step, attempt, lastResult, snapshot, history>>

Progress == \/ LeaveLoop \/ ExceedSteps \/ MissNode \/ EnterNode
            \/ FailRetryably \/ FailFinally \/ TimerFires \/ AbandonBackoff
            \/ ReturnInterrupt \/ ReturnEnd \/ ReturnContinue
Next == Execute \/ Progress \/ Resume \/ Cancel

Spec == Init /\ [][Next]_vars
\* A runner call returns (its HTTP and subprocess calls have deadlines), the
\* back-off timer fires and the goroutine in executeFrom is scheduled.  The
\* caller owes neither a first call nor a Resume nor a cancellation.
FairSpec == Spec /\ WF_vars(Progress)

----------------------------------------------------------------------------
\* The values each variable may take.
TypeOK == /\ status \in Statuses
          /\ node \in Targets
          /\ step \in Nat /\ attempt \in Nat
          /\ lastResult \in Nodes \cup {"input", "response"}
          /\ snapshot \in Snapshots \cup {NoSnapshot}
          /\ canceled \in BOOLEAN
          /\ calls \in Nat /\ pausedCalls \in Nat

(* However the graph loops - through edges, Catch, OnError, retries - and  *)
(* however often a snapshot is resumed, the runner calls that lead to the  *)
(* present state stay within MaxSteps visits of AttemptLimit calls each:   *)
(* neither an error that is caught nor a Resume refills the step budget.   *)
CallsBounded == calls <= maxSteps * AttemptLimit

(* Every Execute and every Resume comes to an end - an answer, an error or *)
(* a pause - even in a graph whose error handler leads back to the node    *)
(* that fails.                                                             *)
Stops == status \in Active ~> status \notin Active

\* What is left of an execution: a visit costs its first call, and each retry
\* with its back-off less than a visit.
VisitCost == 2 * AttemptLimit + 1
StepsLeft ==
  CASE status = "loop"    -> (maxSteps - step) * VisitCost + 1
    [] status = "running" -> (maxSteps - step) * VisitCost + 2 * (AttemptLimit - attempt) + 3
    [] status = "backoff" -> (maxSteps - step) * VisitCost + 2 * (AttemptLimit - attempt) + 2
    [] OTHER              -> 0
(* Why it stops: each step takes from what is left, though a cancellation  *)
(* may come at any time, and neither an edge, nor Catch, nor OnError, nor  *)
(* a retry gives anything back.                                            *)
Spends == [][ /\ Progress => StepsLeft' \in 0..(StepsLeft - 1)
              /\ status \in Active => StepsLeft' \in 0..StepsLeft ]_vars

(* The caller's view of executeFrom and Resume: fuel is what MaxSteps      *)
(* leaves, a pause saves it and a resume goes on with what was saved.      *)
contractPhase == CASE status = "idle" -> "ready"
                   [] status \in Active -> "active"
                   [] status = "paused" -> "paused"
                   [] status \in {"done", "failed"} -> "over"
contractFuel == IF step > maxSteps THEN 0 ELSE maxSteps - step
contractSaved == IF snapshot = NoSnapshot THEN NoSnapshot ELSE maxSteps - snapshot.step
Contract == INSTANCE BoundedRun WITH
  Tank <- maxSteps, NotSaved <- NoSnapshot,
  phase <- contractPhase, fuel <- contractFuel, saved <- contractSaved
ContractSpec == Contract!Spec

----------------------------------------------------------------------------
(* The inductive invariant behind both: the calls of the visits finished,  *)
(* and those of the visit under way, each within its share of the budget.  *)
Visiting == status \in {"running", "backoff"}
VisitInv == Visiting => /\ node \in Nodes
                        /\ step >= 1 /\ step <= maxSteps
                        /\ attempt >= 1 /\ attempt <= AttemptLimit
                        /\ status = "backoff" => attempt < AttemptLimit
                        /\ calls <= (step - 1) * AttemptLimit + attempt
LoopInv == status = "loop" => step <= maxSteps /\ calls <= step * AttemptLimit
RestInv == status \in {"idle", "paused", "done", "failed"} => calls <= maxSteps * AttemptLimit
IdleInv == status = "idle" => step = 0 /\ calls = 0 /\ snapshot = NoSnapshot
SnapshotInv == snapshot # NoSnapshot => /\ snapshot.step <= maxSteps
                                        /\ pausedCalls <= snapshot.step * AttemptLimit
StepInv == /\ step <= maxSteps + 1
           /\ step = maxSteps + 1 => status \notin Active
IInv == TypeOK /\ VisitInv /\ LoopInv /\ RestInv /\ IdleInv /\ SnapshotInv /\ StepInv
=============================================================================
