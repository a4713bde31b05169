--------------------------- MODULE ExecutorProofs ---------------------------
(***************************************************************************)
(* What holds of the executor for every graph, every MaxSteps and every    *)
(* retry policy.                                                           *)
(***************************************************************************)
EXTENDS Executor, TLAPS

LEMMA LimitType == maxSteps \in Nat
  BY GraphAssumption DEF maxSteps, GraphAssumption

\* A budget of a visits is covered by one of b >= a visits.
LEMMA BudgetMonotone == \A a, b, k \in Nat : a <= b => a * k <= b * k
  OBVIOUS

LEMMA OneMoreVisit == \A a, k \in Nat : (a + 1) * k = a * k + k
  OBVIOUS

\* Routing only leads to names the graph uses.
LEMMA RouteType ==
  ASSUME NEW n \in Nodes, NEW next \in Targets, NEW verdict \in Verdicts
  PROVE  Route(n, next, verdict) \subseteq Targets
<1>1. \A i \in DOMAIN Edges : Edges[i] \in EdgeSpec
  BY GraphAssumption DEF GraphAssumption
<1> QED BY <1>1 DEF Route, RouteByEdge, EdgeSpec

\* So does Catch.
LEMMA CatchType ==
  ASSUME NEW n \in Nodes, NEW err \in Errors
  PROVE  matchCatch(n, err) \subseteq Targets
<1>1. Catch[n] \in Seq(CatchPolicy)
  BY GraphAssumption DEF GraphAssumption
<1>2. \A i \in DOMAIN Catch[n] : Catch[n][i] \in CatchPolicy
  BY <1>1
<1> QED BY <1>2 DEF matchCatch, Catches, CatchPolicy

\* A runner's result names a node to go on with only if it is a choice node.
LEMMA ResultType ==
  ASSUME NEW n \in Nodes, NEW r \in Results(n)
  PROVE  r.next \in Targets
<1>1. Kind[n] \in Kinds /\ Choices[n] \subseteq Targets
  BY GraphAssumption DEF GraphAssumption, Targets
<1> QED BY <1>1 DEF Results, Kinds, LLMResults, ChoiceResults, ParallelResults, ToolResults,
                    HumanResults, EndResults, Result, Targets

----------------------------------------------------------------------------
(* The inductive invariant.                                                 *)

LEMMA InitIInv == Init => IInv
<1> SUFFICES ASSUME Init PROVE IInv
  OBVIOUS
<1>1. TypeOK
  BY DEF Init, TypeOK, Statuses, Targets
<1>2. 0 <= maxSteps * AttemptLimit /\ 0 <= maxSteps + 1 /\ 0 # maxSteps + 1
  BY LimitType, GraphAssumption, BudgetMonotone DEF GraphAssumption
<1> QED
  BY <1>1, <1>2 DEF Init, IInv, VisitInv, Visiting, LoopInv, RestInv, IdleInv, SnapshotInv, StepInv

\* What every step of an execution that is under way starts from.
LEMMA Facts ==
  ASSUME IInv
  PROVE  /\ maxSteps \in Nat /\ AttemptLimit \in Nat /\ AttemptLimit >= 1
         /\ step \in Nat /\ attempt \in Nat /\ calls \in Nat /\ pausedCalls \in Nat
         /\ Visiting => MaxAttempts[node] \in Nat /\ MaxAttempts[node] <= AttemptLimit
  BY LimitType, GraphAssumption DEF GraphAssumption, IInv, TypeOK, VisitInv

\* A visit that is left, whatever way, leaves the calls within the steps'
\* share, and those within the whole budget.
LEMMA VisitPaid ==
  ASSUME IInv, Visiting
  PROVE  /\ calls <= step * AttemptLimit
         /\ step * AttemptLimit <= maxSteps * AttemptLimit
         /\ calls <= maxSteps * AttemptLimit
<1>1. /\ step \in Nat /\ step >= 1 /\ step <= maxSteps /\ attempt <= AttemptLimit
      /\ calls <= (step - 1) * AttemptLimit + attempt
  BY DEF IInv, VisitInv, TypeOK
<1>2. ((step - 1) + 1) * AttemptLimit = (step - 1) * AttemptLimit + AttemptLimit
  <2>1. step - 1 \in Nat
    BY <1>1
  <2> QED BY <2>1, OneMoreVisit, Facts
<1>3. step * AttemptLimit = (step - 1) * AttemptLimit + AttemptLimit
  <2>1. (step - 1) + 1 = step
    BY <1>1
  <2> QED BY <1>2, <2>1
<1>4. (step - 1) * AttemptLimit \in Nat /\ step * AttemptLimit \in Nat /\ maxSteps * AttemptLimit \in Nat
  <2>1. step - 1 \in Nat
    BY <1>1
  <2>2. \A a, b \in Nat : a * b \in Nat
    OBVIOUS
  <2> QED BY <2>1, <2>2, Facts
<1>5. step * AttemptLimit <= maxSteps * AttemptLimit
  BY <1>1, BudgetMonotone, Facts
<1>6. calls <= step * AttemptLimit
  BY <1>1, <1>3, <1>4, Facts
<1> QED BY <1>4, <1>5, <1>6, Facts

\* At the head of the loop the whole budget still covers the calls made.
LEMMA LoopPaid ==
  ASSUME IInv, status = "loop"
  PROVE  step \in Nat /\ step <= maxSteps /\ calls <= maxSteps * AttemptLimit
<1>1. step \in Nat /\ step <= maxSteps /\ calls <= step * AttemptLimit
  BY DEF IInv, TypeOK, LoopInv
<1>2. step * AttemptLimit <= maxSteps * AttemptLimit
  BY <1>1, BudgetMonotone, Facts
<1>3. step * AttemptLimit \in Nat /\ maxSteps * AttemptLimit \in Nat
  <2>1. \A a, b \in Nat : a * b \in Nat
    OBVIOUS
  <2> QED BY <1>1, <2>1, Facts
<1> QED BY <1>1, <1>2, <1>3, Facts

\* Every way out of a visit: to another node, to a pause that keeps the step
\* and the calls, or to the end.
LEMMA LeaveVisit ==
  ASSUME IInv, Visiting,
         status' \in {"loop", "paused", "done", "failed"},
         node' \in Targets,
         lastResult' \in Nodes \cup {"input", "response"},
         UNCHANGED <<step, attempt, canceled, calls>>,
         \/ UNCHANGED <<snapshot, pausedCalls>>
         \/ snapshot' = [node |-> node, step |-> step] /\ pausedCalls' = calls
  PROVE  IInv'
<1>1. /\ calls <= step * AttemptLimit /\ calls <= maxSteps * AttemptLimit
      /\ step <= maxSteps /\ node \in Nodes /\ step \in Nat
  BY VisitPaid DEF IInv, VisitInv, TypeOK
<1>2. TypeOK'
  <2>1. snapshot' \in Snapshots \cup {NoSnapshot}
    BY <1>1 DEF IInv, TypeOK, Snapshots
  <2> QED BY <2>1 DEF IInv, TypeOK, Statuses
<1>3. VisitInv' /\ IdleInv'
  BY DEF VisitInv, Visiting, IdleInv
<1>4. LoopInv' /\ RestInv'
  BY <1>1, LimitType DEF LoopInv, RestInv, maxSteps
<1>5. SnapshotInv'
  BY <1>1, SnapshotAssumption DEF IInv, SnapshotInv, maxSteps
<1>6. StepInv'
  BY <1>1, LimitType DEF StepInv, Active, maxSteps
<1> QED BY <1>2, <1>3, <1>4, <1>5, <1>6 DEF IInv

\* What a finished or caught error leaves behind.
LEMMA HandleErrorType ==
  ASSUME IInv, Visiting, NEW err \in Errors, HandleError(err)
  PROVE  status' \in {"loop", "failed"} /\ node' \in Targets
<1>1. node \in Nodes /\ OnError \in Targets
  BY GraphAssumption DEF IInv, VisitInv, GraphAssumption
<1>2. matchCatch(node, err) \subseteq Targets
  BY <1>1, CatchType
<1> QED BY <1>1, <1>2 DEF HandleError, Targets

\* A result is followed to a name the graph uses, or fails the run.
LEMMA FollowType ==
  ASSUME NEW n \in Nodes, NEW next \in Targets, node \in Targets, Follow(n, next)
  PROVE  status' \in {"loop", "failed"} /\ node' \in Targets
  BY RouteType DEF Follow

LEMMA StepIInv == IInv /\ [Next]_vars => IInv'
<1> SUFFICES ASSUME IInv, [Next]_vars PROVE IInv'
  OBVIOUS
<1>0. /\ maxSteps \in Nat /\ AttemptLimit \in Nat /\ AttemptLimit >= 1
      /\ step \in Nat /\ attempt \in Nat /\ calls \in Nat
  BY Facts
<1>1. CASE Execute
  <2>1. StartAt \in Targets /\ 0 <= maxSteps /\ 0 <= 0 * AttemptLimit
    BY <1>0, GraphAssumption DEF GraphAssumption
  <2> QED
    BY <1>0, <1>1, <2>1 DEF Execute, IInv, TypeOK, VisitInv, Visiting, LoopInv, RestInv, IdleInv,
                       SnapshotInv, StepInv, Statuses, Active, history, maxSteps
<1>2. CASE LeaveLoop
  BY <1>0, <1>2, LoopPaid DEF LeaveLoop, IInv, TypeOK, VisitInv, Visiting, LoopInv, RestInv, IdleInv,
                         SnapshotInv, StepInv, Statuses, Active, history, maxSteps
<1>3. CASE ExceedSteps
  BY <1>0, <1>3, LoopPaid DEF ExceedSteps, IInv, TypeOK, VisitInv, Visiting, LoopInv, RestInv, IdleInv,
                         SnapshotInv, StepInv, Statuses, Active, history, maxSteps
<1>4. CASE MissNode
  BY <1>0, <1>4, LoopPaid DEF MissNode, IInv, TypeOK, VisitInv, Visiting, LoopInv, RestInv, IdleInv,
                         SnapshotInv, StepInv, Statuses, Active, history, maxSteps
<1>5. CASE EnterNode
  <2>1. /\ step' = step + 1 /\ attempt' = 1 /\ calls' = calls + 1
        /\ node \in Nodes /\ step + 1 <= maxSteps /\ status = "loop" /\ status' = "running"
        /\ UNCHANGED <<node, lastResult, snapshot, canceled, pausedCalls>>
    BY <1>5 DEF EnterNode
  <2>2. VisitInv'
    <3>1. step' - 1 = step
      BY <1>0, <2>1
    <3>2. step * AttemptLimit \in Nat /\ calls <= step * AttemptLimit
      BY <1>0, <2>1 DEF IInv, LoopInv
    <3>3. calls' <= (step' - 1) * AttemptLimit + attempt'
      BY <1>0, <2>1, <3>1, <3>2
    <3>4. /\ node' \in Nodes /\ step' >= 1 /\ step' <= maxSteps'
          /\ attempt' >= 1 /\ attempt' <= AttemptLimit /\ status' # "backoff"
      <4>1. maxSteps' = maxSteps
        BY DEF maxSteps
      <4>2. node' \in Nodes /\ status' # "backoff"
        BY <2>1
      <4> QED
        BY <1>0, <2>1, <4>1, <4>2
    <3> QED
      BY <3>3, <3>4 DEF VisitInv
  <2>3. TypeOK'
    BY <1>0, <2>1 DEF IInv, TypeOK, Statuses
  <2>4. LoopInv' /\ RestInv' /\ IdleInv'
    BY <2>1 DEF LoopInv, RestInv, IdleInv
  <2>5. SnapshotInv'
    BY <2>1 DEF IInv, SnapshotInv, maxSteps
  <2>6. StepInv'
    <3>1. maxSteps' = maxSteps
      BY DEF maxSteps
    <3> QED
      BY <1>0, <2>1, <3>1 DEF StepInv
  <2> QED
    BY <2>2, <2>3, <2>4, <2>5, <2>6 DEF IInv
<1>6. CASE FailRetryably
  <2>1. attempt < AttemptLimit
    BY <1>0, <1>6, Facts DEF FailRetryably, Visiting
  <2> QED
    BY <1>0, <1>6, <2>1 DEF FailRetryably, IInv, TypeOK, VisitInv, Visiting, LoopInv, RestInv, IdleInv,
                       SnapshotInv, StepInv, Statuses, Active, history, maxSteps
<1>7. CASE FailFinally
  <2>1. Visiting
    BY <1>7 DEF FailFinally, Visiting
  <2>2. PICK err \in Faults(node) : HandleError(err)
    BY <1>7 DEF FailFinally
  <2>3. err \in Errors
    BY <2>2 DEF Faults
  <2>4. status' \in {"loop", "failed"} /\ node' \in Targets
    BY <2>1, <2>2, <2>3, HandleErrorType
  <2>5. lastResult' \in Nodes \cup {"input", "response"}
    BY <1>7 DEF FailFinally, IInv, TypeOK
  <2> QED
    BY <1>7, <2>1, <2>4, <2>5, LeaveVisit DEF FailFinally, history
<1>8. CASE TimerFires
  BY <1>0, <1>8 DEF TimerFires, IInv, TypeOK, VisitInv, Visiting, LoopInv, RestInv, IdleInv,
                SnapshotInv, StepInv, Statuses, Active, maxSteps
<1>9. CASE AbandonBackoff
  <2>1. Visiting /\ Canceled \in Errors
    BY <1>9, GraphAssumption DEF AbandonBackoff, Visiting, GraphAssumption
  <2>2. status' \in {"loop", "failed"} /\ node' \in Targets
    BY <1>9, <2>1, HandleErrorType DEF AbandonBackoff
  <2>3. lastResult' \in Nodes \cup {"input", "response"}
    BY <1>9 DEF AbandonBackoff, IInv, TypeOK
  <2> QED
    BY <1>9, <2>1, <2>2, <2>3, LeaveVisit DEF AbandonBackoff, history
<1>10. ASSUME status = "running", NEW r, Store(r)
       PROVE  /\ lastResult' \in Nodes \cup {"input", "response"}
              /\ Visiting /\ node \in Nodes /\ node \in Targets
  BY <1>10 DEF Store, IInv, TypeOK, VisitInv, Visiting
<1>11. CASE ReturnInterrupt
  <2>1. PICK r \in Results(node) : r.interrupt /\ Store(r)
    BY <1>11 DEF ReturnInterrupt
  <2> QED
    BY <1>10, <1>11, <2>1, LeaveVisit DEF ReturnInterrupt
<1>12. CASE ReturnEnd
  <2>1. PICK r \in Results(node) : Store(r)
    BY <1>12 DEF ReturnEnd
  <2> QED
    BY <1>10, <1>12, <2>1, LeaveVisit DEF ReturnEnd, history
<1>13. CASE ReturnContinue
  <2>1. PICK r \in Results(node) : Store(r) /\ Follow(node, r.next)
    BY <1>13 DEF ReturnContinue
  <2>2. status = "running"
    BY <1>13 DEF ReturnContinue
  <2>3. status' \in {"loop", "failed"} /\ node' \in Targets
    <3>1. node \in Nodes /\ node \in Targets
      BY <1>10, <2>1, <2>2
    <3>2. r.next \in Targets
      BY <2>1, <3>1, ResultType
    <3> QED
      BY <2>1, <3>1, <3>2, FollowType
  <2> QED
    BY <1>10, <1>13, <2>1, <2>2, <2>3, LeaveVisit DEF ReturnContinue, history
<1>14. CASE Resume
  <2>1. snapshot \in Snapshots /\ snapshot.node \in Nodes /\ snapshot.step \in Nat
    BY <1>14 DEF Resume, IInv, TypeOK, Snapshots
  <2>2. /\ snapshot.step <= maxSteps /\ pausedCalls <= snapshot.step * AttemptLimit
        /\ pausedCalls \in Nat /\ status # "idle"
    BY <1>14 DEF Resume, IInv, SnapshotInv, TypeOK
  <2>3. /\ lastResult' = "response" /\ canceled' = FALSE /\ attempt' = 0
        /\ UNCHANGED <<snapshot, pausedCalls>>
    BY <1>14 DEF Resume
  <2>4. PICK verdict \in Verdicts :
          \/ /\ status' = "failed" /\ UNCHANGED <<node, step, calls>>
          \/ /\ node' \in Route(snapshot.node, NoNode, verdict)
             /\ status' = "loop" /\ step' = snapshot.step /\ calls' = pausedCalls
    BY <1>14 DEF Resume
  <2>5. CASE status' = "failed" /\ UNCHANGED <<node, step, calls>>
    <3>1. status \in {"paused", "done", "failed"}
      BY <1>14 DEF Resume
    <3> QED
      BY <1>0, <2>3, <2>5, <3>1 DEF IInv, TypeOK, VisitInv, Visiting, LoopInv, RestInv, IdleInv,
                                SnapshotInv, StepInv, Statuses, Active, maxSteps
  <2>6. CASE /\ node' \in Route(snapshot.node, NoNode, verdict)
             /\ status' = "loop" /\ step' = snapshot.step /\ calls' = pausedCalls
    <3>1. node' \in Targets
      BY <2>1, <2>6, RouteType DEF Targets
    <3>2. TypeOK'
      BY <2>1, <2>2, <2>3, <2>6, <3>1 DEF IInv, TypeOK, Statuses
    <3>3. VisitInv' /\ RestInv' /\ IdleInv' /\ SnapshotInv'
      BY <2>3, <2>6 DEF IInv, VisitInv, Visiting, RestInv, IdleInv, SnapshotInv, maxSteps
    <3>4. LoopInv' /\ StepInv'
      BY <2>1, <2>2, <2>6, LimitType DEF LoopInv, StepInv, maxSteps
    <3> QED
      BY <3>2, <3>3, <3>4 DEF IInv
  <2> QED
    BY <2>4, <2>5, <2>6
<1>15. CASE Cancel
  BY <1>0, <1>15 DEF Cancel, IInv, TypeOK, VisitInv, Visiting, LoopInv, RestInv, IdleInv,
                 SnapshotInv, StepInv, Statuses, Active, history, maxSteps
<1>16. CASE UNCHANGED vars
  BY <1>16 DEF vars, IInv, TypeOK, VisitInv, Visiting, LoopInv, RestInv, IdleInv,
               SnapshotInv, StepInv, maxSteps
<1> QED
  BY <1>1, <1>2, <1>3, <1>4, <1>5, <1>6, <1>7, <1>8, <1>9, <1>11, <1>12, <1>13, <1>14, <1>15, <1>16
  DEF Next, Progress

----------------------------------------------------------------------------
LEMMA Invariance == Spec => []IInv
<1>1. Init => IInv
  BY InitIInv
<1>2. IInv /\ [Next]_vars => IInv'
  BY StepIInv
<1> QED BY <1>1, <1>2, PTL DEF Spec

\* The variables keep their types, for every graph.
THEOREM ExecutorTypeOK == Spec => []TypeOK
<1>1. IInv => TypeOK
  BY DEF IInv
<1> QED BY <1>1, Invariance, PTL

\* No cycle of edges, Catch, OnError, retries and resumes makes the executor
\* call the runners more often than MaxSteps visits allow.
THEOREM ExecutorCallsBounded == Spec => []CallsBounded
<1>1. IInv => CallsBounded
  <2> SUFFICES ASSUME IInv PROVE CallsBounded
    OBVIOUS
  <2>1. CASE Visiting
    BY <2>1, VisitPaid DEF CallsBounded
  <2>2. CASE status = "loop"
    BY <2>2, LoopPaid DEF CallsBounded
  <2>3. CASE status \in {"idle", "paused", "done", "failed"}
    BY <2>3 DEF IInv, RestInv, CallsBounded
  <2> QED
    BY <2>1, <2>2, <2>3 DEF IInv, TypeOK, Statuses, Visiting
<1> QED BY <1>1, Invariance, PTL

----------------------------------------------------------------------------
(* The executor implements BoundedRun.                                      *)

LEMMA ContractInit == Init => Contract!Init
<1> SUFFICES ASSUME Init PROVE Contract!Init
  OBVIOUS
<1>1. step = 0 /\ snapshot = NoSnapshot /\ status = "idle" /\ maxSteps \in Nat
  BY LimitType DEF Init
<1>2. contractPhase = "ready" /\ contractFuel = maxSteps /\ contractSaved = NoSnapshot
  <2>1. contractPhase = "ready"
    BY <1>1 DEF contractPhase, Active
  <2>2. contractFuel = maxSteps /\ contractSaved = NoSnapshot
    BY <1>1 DEF contractFuel, contractSaved
  <2> QED BY <2>1, <2>2
<1> QED BY <1>2 DEF Contract!Init

LEMMA ContractStep == IInv /\ IInv' /\ [Next]_vars => [Contract!Next]_(Contract!vars)
<1> SUFFICES ASSUME IInv, IInv', [Next]_vars PROVE [Contract!Next]_(Contract!vars)
  OBVIOUS
<1>0. maxSteps \in Nat /\ maxSteps' = maxSteps /\ step \in Nat
  BY LimitType DEF maxSteps, IInv, TypeOK
<1> USE <1>0 DEF contractPhase, contractFuel, contractSaved
<1>1. CASE Execute
  <2>1. Contract!Begin
    BY <1>1 DEF Execute, Contract!Begin, Active
  <2> QED BY <2>1 DEF Contract!Next
<1>2. CASE LeaveLoop
  <2>1. step <= maxSteps
    BY <1>2, LoopPaid DEF LeaveLoop
  <2>2. Contract!Finish
    BY <1>2, <2>1 DEF LeaveLoop, Contract!Finish, Active
  <2> QED BY <2>2 DEF Contract!Next
<1>3. CASE ExceedSteps
  <2>1. step <= maxSteps
    BY <1>3, LoopPaid DEF ExceedSteps
  <2>2. Contract!Finish
    BY <1>3, <2>1 DEF ExceedSteps, Contract!Finish, Active
  <2> QED BY <2>2 DEF Contract!Next
<1>4. CASE MissNode
  <2>1. Contract!Finish
    BY <1>4 DEF MissNode, Contract!Finish, Active
  <2> QED BY <2>1 DEF Contract!Next
<1>5. CASE EnterNode
  <2>1. Contract!Burn
    BY <1>5 DEF EnterNode, Contract!Burn, Active
  <2> QED BY <2>1 DEF Contract!Next
<1>6. ASSUME Visiting, status' \in {"loop", "running", "backoff", "done", "failed"}, UNCHANGED <<step, snapshot>>
      PROVE  [Contract!Next]_(Contract!vars)
  <2>1. step <= maxSteps /\ status \in Active
    BY <1>6 DEF IInv, VisitInv, Visiting, Active
  <2>2. CASE status' \in Active
    BY <1>6, <2>1, <2>2 DEF Contract!vars, Active
  <2>3. CASE status' \in {"done", "failed"}
    <3>1. Contract!Finish
      BY <1>6, <2>1, <2>3 DEF Contract!Finish, Active
    <3> QED BY <3>1 DEF Contract!Next
  <2> QED BY <1>6, <2>2, <2>3 DEF Active
<1>7. CASE FailRetryably \/ TimerFires
  BY <1>6, <1>7 DEF FailRetryably, TimerFires, Visiting
<1>8. CASE FailFinally \/ AbandonBackoff
  <2>1. status' \in {"loop", "failed"}
    BY <1>8 DEF FailFinally, AbandonBackoff, HandleError
  <2> QED
    BY <1>6, <1>8, <2>1 DEF FailFinally, AbandonBackoff, Visiting
<1>9. CASE ReturnEnd \/ ReturnContinue
  <2>1. status' \in {"loop", "done", "failed"}
    BY <1>9 DEF ReturnEnd, ReturnContinue, Follow
  <2> QED
    BY <1>6, <1>9, <2>1 DEF ReturnEnd, ReturnContinue, Visiting
<1>10. CASE ReturnInterrupt
  <2>1. step <= maxSteps /\ node \in Nodes
    BY <1>10 DEF ReturnInterrupt, IInv, VisitInv, Visiting
  <2>2. snapshot' # NoSnapshot /\ snapshot'.step = step
    BY <1>10, <2>1, SnapshotAssumption DEF ReturnInterrupt
  <2>3. Contract!Pause
    BY <1>10, <2>1, <2>2 DEF ReturnInterrupt, Contract!Pause, Active
  <2> QED BY <2>3 DEF Contract!Next
<1>11. CASE Resume
  <2>1. /\ snapshot \in Snapshots /\ snapshot.step \in Nat /\ snapshot.step <= maxSteps
        /\ status \in {"paused", "done", "failed"} /\ snapshot # NoSnapshot /\ snapshot' = snapshot
    BY <1>11 DEF Resume, IInv, TypeOK, SnapshotInv, Snapshots
  <2>2. \/ status' = "failed" /\ UNCHANGED step
        \/ status' = "loop" /\ step' = snapshot.step
    BY <1>11 DEF Resume
  <2>3. contractSaved = maxSteps - snapshot.step /\ contractSaved' = contractSaved
    BY <2>1
  <2>4. contractSaved # NoSnapshot
    BY <2>1, <2>3, SnapshotAssumption
  <2>5. contractPhase \in {"paused", "over"}
    BY <2>1 DEF Active
  <2>6. CASE status' = "failed" /\ UNCHANGED step
    <3>1. contractPhase' = "over" /\ contractFuel' = contractFuel
      BY <2>6 DEF Active
    <3>2. Contract!Resume
      BY <2>3, <2>4, <2>5, <3>1 DEF Contract!Resume
    <3> QED BY <3>2 DEF Contract!Next
  <2>7. CASE status' = "loop" /\ step' = snapshot.step
    <3>1. contractPhase' = "active" /\ contractFuel' = contractSaved
      BY <2>1, <2>3, <2>7 DEF Active
    <3>2. Contract!Resume
      BY <2>3, <2>4, <2>5, <3>1 DEF Contract!Resume
    <3> QED BY <3>2 DEF Contract!Next
  <2> QED
    BY <2>2, <2>6, <2>7
<1>12. CASE Cancel \/ UNCHANGED vars
  BY <1>12 DEF Cancel, vars, Contract!vars
<1> QED
  BY <1>1, <1>2, <1>3, <1>4, <1>5, <1>7, <1>8, <1>9, <1>10, <1>11, <1>12 DEF Next, Progress

\* A graph run never has more fuel than its contract: Resume continues with
\* the budget that was left at the pause.
THEOREM ExecutorImplementsBoundedRun == Spec => ContractSpec
<1>1. Init => Contract!Init
  BY ContractInit
<1>2. IInv /\ IInv' /\ [Next]_vars => [Contract!Next]_(Contract!vars)
  BY ContractStep
<1> QED BY <1>1, <1>2, Invariance, PTL DEF Spec, ContractSpec, Contract!Spec

----------------------------------------------------------------------------
(* Every step spends some of what is left.                                  *)

\* What is left in each place, with the share of the visits to come.
LEMMA StepsLeftIs ==
  ASSUME IInv
  PROVE  \E share \in Nat :
           /\ status \in Active => share = (maxSteps - step) * VisitCost
           /\ status = "loop" => StepsLeft = share + 1
           /\ status = "running" => /\ StepsLeft = share + 2 * (AttemptLimit - attempt) + 3
                                    /\ AttemptLimit - attempt \in Nat
           /\ status = "backoff" => /\ StepsLeft = share + 2 * (AttemptLimit - attempt) + 2
                                    /\ AttemptLimit - attempt \in Nat
           /\ status \notin Active => StepsLeft = 0
<1>1. maxSteps \in Nat /\ AttemptLimit \in Nat /\ step \in Nat /\ attempt \in Nat
  BY Facts
<1>2. VisitCost \in Nat
  BY <1>1 DEF VisitCost
<1>3. CASE status \in Active
  <2>1. maxSteps - step \in Nat
    BY <1>1, <1>3 DEF IInv, LoopInv, VisitInv, Visiting, Active
  <2>2. (maxSteps - step) * VisitCost \in Nat
    <3>1. \A a, b \in Nat : a * b \in Nat
      OBVIOUS
    <3> QED BY <1>2, <2>1, <3>1
  <2>3. Visiting => AttemptLimit - attempt \in Nat
    BY <1>1 DEF IInv, VisitInv
  <2> WITNESS (maxSteps - step) * VisitCost \in Nat
  <2> HIDE DEF VisitCost
  <2> QED BY <1>3, <2>3 DEF StepsLeft, Visiting
<1>4. CASE status \notin Active
  BY <1>4 DEF StepsLeft, Active
<1> QED BY <1>3, <1>4

\* A visit taken from the steps is one share less.
LEMMA OneVisitLess ==
  ASSUME IInv, status = "loop", step + 1 <= maxSteps
  PROVE  /\ (maxSteps - step) * VisitCost = (maxSteps - (step + 1)) * VisitCost + VisitCost
         /\ (maxSteps - (step + 1)) * VisitCost \in Nat /\ VisitCost \in Nat
<1>1. maxSteps \in Nat /\ AttemptLimit \in Nat /\ step \in Nat
  BY Facts
<1>2. VisitCost \in Nat
  BY <1>1 DEF VisitCost
<1> DEFINE a == maxSteps - (step + 1)
<1>3. a \in Nat /\ maxSteps - step = a + 1
  BY <1>1
<1> HIDE DEF a
<1>4. (a + 1) * VisitCost = a * VisitCost + VisitCost
  BY <1>2, <1>3, OneMoreVisit
<1>5. a * VisitCost \in Nat
  <2>1. \A i, j \in Nat : i * j \in Nat
    OBVIOUS
  <2> QED BY <1>2, <1>3, <2>1
<1> QED BY <1>2, <1>3, <1>4, <1>5 DEF a

LEMMA ProgressSpends ==
  ASSUME IInv, IInv', Progress
  PROVE  StepsLeft' \in 0..(StepsLeft - 1)
<1>0. /\ maxSteps \in Nat /\ AttemptLimit \in Nat /\ step \in Nat /\ attempt \in Nat
      /\ AttemptLimit >= 1
  BY Facts
<1>1. PICK share \in Nat :
        /\ status \in Active => share = (maxSteps - step) * VisitCost
        /\ status = "loop" => StepsLeft = share + 1
        /\ status = "running" => /\ StepsLeft = share + 2 * (AttemptLimit - attempt) + 3
                                 /\ AttemptLimit - attempt \in Nat
        /\ status = "backoff" => /\ StepsLeft = share + 2 * (AttemptLimit - attempt) + 2
                                 /\ AttemptLimit - attempt \in Nat
        /\ status \notin Active => StepsLeft = 0
  BY StepsLeftIs
<1>2. ASSUME status' \notin Active, status \in Active PROVE StepsLeft' \in 0..(StepsLeft - 1)
  <2>1. StepsLeft' = 0
    BY <1>2 DEF StepsLeft, Active
  <2>2. StepsLeft \in Nat /\ StepsLeft >= 1
    BY <1>1, <1>2 DEF Active
  <2> QED BY <2>1, <2>2
<1>3. ASSUME Visiting, status' = "loop", step' = step PROVE StepsLeft' \in 0..(StepsLeft - 1)
  <2>1. StepsLeft' = share + 1
    <3>1. StepsLeft' = (maxSteps - step) * VisitCost + 1
      BY <1>3 DEF StepsLeft, maxSteps, VisitCost
    <3> QED BY <1>1, <1>3, <3>1 DEF Visiting, Active
  <2>2. StepsLeft \in Nat /\ StepsLeft >= share + 2
    BY <1>1, <1>3 DEF Visiting
  <2> QED BY <2>1, <2>2
<1>4. CASE LeaveLoop \/ ExceedSteps \/ MissNode
  <2>1. status' \notin Active /\ status \in Active
    BY <1>4 DEF LeaveLoop, ExceedSteps, MissNode, Active
  <2> QED BY <1>2, <2>1
<1>5. CASE EnterNode
  <2>1. /\ status = "loop" /\ status' = "running" /\ step' = step + 1 /\ attempt' = 1
        /\ step + 1 <= maxSteps
    BY <1>5 DEF EnterNode
  <2> DEFINE less == (maxSteps - (step + 1)) * VisitCost
  <2>2. StepsLeft' = less + 2 * (AttemptLimit - 1) + 3
    BY <2>1 DEF StepsLeft, maxSteps, VisitCost
  <2>3. StepsLeft = less + VisitCost + 1 /\ less \in Nat
    BY <1>1, <2>1, OneVisitLess DEF Active
  <2> HIDE DEF less
  <2> QED BY <1>0, <2>2, <2>3 DEF VisitCost
<1>6. CASE FailRetryably
  <2>1. /\ status = "running" /\ status' = "backoff" /\ step' = step /\ attempt' = attempt
    BY <1>6 DEF FailRetryably
  <2>2. StepsLeft' = share + 2 * (AttemptLimit - attempt) + 2
    <3>1. StepsLeft' = (maxSteps - step) * VisitCost + 2 * (AttemptLimit - attempt) + 2
      BY <2>1 DEF StepsLeft, maxSteps, VisitCost
    <3> QED BY <1>1, <2>1, <3>1 DEF Active
  <2> QED BY <1>0, <1>1, <2>1, <2>2
<1>7. CASE TimerFires
  <2>1. /\ status = "backoff" /\ status' = "running" /\ step' = step /\ attempt' = attempt + 1
    BY <1>7 DEF TimerFires
  <2>2. attempt < AttemptLimit
    BY <2>1 DEF IInv, VisitInv, Visiting
  <2>3. StepsLeft' = share + 2 * (AttemptLimit - (attempt + 1)) + 3
    <3>1. StepsLeft' = (maxSteps - step) * VisitCost + 2 * (AttemptLimit - (attempt + 1)) + 3
      BY <2>1 DEF StepsLeft, maxSteps, VisitCost
    <3> QED BY <1>1, <2>1, <3>1 DEF Active
  <2> QED BY <1>0, <1>1, <2>1, <2>2, <2>3
<1>8. CASE FailFinally \/ AbandonBackoff \/ ReturnContinue
  <2>1. Visiting /\ status' \in {"loop", "failed"} /\ step' = step
    BY <1>8 DEF FailFinally, AbandonBackoff, ReturnContinue, HandleError, Follow, Visiting
  <2> QED BY <1>2, <1>3, <2>1 DEF Visiting, Active
<1>9. CASE ReturnInterrupt \/ ReturnEnd
  <2>1. status' \notin Active /\ status \in Active
    BY <1>9 DEF ReturnInterrupt, ReturnEnd, Active
  <2> QED BY <1>2, <2>1
<1> QED BY <1>4, <1>5, <1>6, <1>7, <1>8, <1>9 DEF Progress

\* Only the execution itself and a cancellation step in while it is active.
LEMMA NextSpends ==
  ASSUME IInv, IInv', [Next]_vars
  PROVE  /\ Progress => StepsLeft' \in 0..(StepsLeft - 1)
         /\ status \in Active => StepsLeft' \in 0..StepsLeft
<1>1. StepsLeft \in Nat
  <2>1. AttemptLimit \in Nat /\ attempt \in Nat
    BY Facts
  <2> QED BY <2>1, StepsLeftIs DEF IInv, TypeOK, Statuses, Active
<1>2. CASE Progress
  BY <1>1, <1>2, ProgressSpends
<1>3. CASE ~Progress /\ status \in Active
  <2>1. Cancel \/ UNCHANGED vars
    BY <1>3 DEF Next, Execute, Resume, Active
  <2>2. UNCHANGED <<status, step, attempt>>
    BY <2>1 DEF Cancel, vars
  <2>3. StepsLeft' = StepsLeft
    BY <2>2 DEF StepsLeft, maxSteps, VisitCost
  <2> QED BY <1>1, <1>3, <2>3
<1> QED BY <1>2, <1>3

\* In every graph, whatever its cycles, an execution runs down: at most
\* StepsLeft steps separate it from an answer, an error or a pause.
THEOREM ExecutorSpends == Spec => Spends
<1>1. IInv /\ IInv' /\ [Next]_vars =>
        [ /\ Progress => StepsLeft' \in 0..(StepsLeft - 1)
          /\ status \in Active => StepsLeft' \in 0..StepsLeft ]_vars
  BY NextSpends
<1> QED BY <1>1, Invariance, PTL DEF Spec, Spends
=============================================================================
