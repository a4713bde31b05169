------------------------- MODULE SessionTurnProofs -------------------------
(***************************************************************************)
(* One turn at a time, the lines in the order they were typed, and the end *)
(* of a session, for any number of lines, background children and signals. *)
(***************************************************************************)
EXTENDS SessionProofs, FiniteSetTheorems

----------------------------------------------------------------------------
(* The end of the session.                                                  *)

\* doShutdown stays done, and nothing else cancels or leaves before.
LEMMA NextExit == ExitAfterShutdown /\ [Next]_vars => ExitAfterShutdown'
<1> SUFFICES ASSUME ExitAfterShutdown, [Next]_vars PROVE ExitAfterShutdown'
  OBVIOUS
<1>1. CASE Shutdown
  <2>1. CASE BeginShutdown
    BY <1>1, <2>1, Zenon DEF Shutdown, BeginShutdown, ExitAfterShutdown
  <2>2. CASE EndShutdown \/ QuitCancels \/ HandlerCancels
    BY <2>2 DEF EndShutdown, QuitCancels, HandlerCancels, ExitAfterShutdown
  <2> QED BY <1>1, <2>1, <2>2 DEF Shutdown
<1>2. CASE Select
  BY <1>2 DEF Select, TakeLine, TakeQuit, TakeEOF, TakeResult, TakeSignal, LeaveLoop, exitVars,
              ExitAfterShutdown
<1>3. CASE User \/ Handler \/ Turn \/ Delegation \/ (\E t \in Tasks : Child(t)) \/ UNCHANGED vars
  <2>1. UNCHANGED <<shutdown, ctxDone, exited>>
    BY <1>3 DEF User, Handler, Turn, Delegation, Child, vars, exitVars
  <2> QED BY <2>1 DEF ExitAfterShutdown
<1> QED BY <1>1, <1>2, <1>3 DEF Next

(* main leaves through the root context only when doShutdown is complete,  *)
(* whichever of the two goroutines runs it and in whatever order /quit and *)
(* the signals come.                                                       *)
THEOREM SessionExitAfterShutdown == Spec => []ExitAfterShutdown
<1>1. Init => ExitAfterShutdown
  BY DEF Init, ExitAfterShutdown
<1> QED BY <1>1, NextExit, PTL DEF Spec

----------------------------------------------------------------------------
(* One turn at a time.                                                      *)

\* What isRunning stands for: nothing, the one goroutine, or its result.
Idle == ~isRunning /\ runs = {} /\ runDone = <<>> /\ runCancel = NoRun
Going(r) == /\ isRunning /\ runs = {r} /\ runDone = <<>>
            /\ runCancel = IF r.pc = "cleared" THEN NoRun ELSE r.id
Delivered == isRunning /\ runs = {} /\ Len(runDone) = 1 /\ runCancel = NoRun
OneTurn == Idle \/ Delivered \/ \E r \in runs : Going(r)

LEMMA OneTurnFrame ==
  ASSUME OneTurn, UNCHANGED <<isRunning, runs, runDone, runCancel>>
  PROVE  OneTurn'
<1>1. CASE Idle
  BY <1>1, Zenon DEF Idle, OneTurn
<1>2. CASE Delivered
  BY <1>2, Zenon DEF Delivered, OneTurn
<1>3. CASE \E r \in runs : Going(r)
  BY <1>3, Zenon DEF Going, OneTurn
<1> QED BY <1>1, <1>2, <1>3 DEF OneTurn

\* OneRun is what a reader sees of it.
LEMMA OneTurnOneRun == TypeOK /\ OneTurn => OneRun
<1> SUFFICES ASSUME TypeOK, OneTurn PROVE OneRun
  OBVIOUS
<1>1. /\ Cardinality({}) = 0 /\ \A x : Cardinality({x}) = 1
      /\ Len(<<>>) = 0 /\ \A r \in runs : r.id \in Nat
  BY FS_EmptySet, FS_Singleton DEF TypeOK, Run
<1>2. CASE Idle
  BY <1>1, <1>2 DEF Idle, OneRun
<1>3. CASE Delivered
  BY <1>1, <1>3 DEF Delivered, OneRun
<1>4. CASE \E r \in runs : Going(r)
  <2>1. PICK r \in runs : Going(r)
    BY <1>4
  <2>2. runCancel = IF r.pc = "cleared" THEN NoRun ELSE r.id
    BY <2>1 DEF Going
  <2>3. r.pc # "cleared" <=> runCancel = r.id
    BY <1>1, <2>2, SessionAssumption DEF SessionAssumption
  <2>4. Cardinality(runs) = 1 /\ Len(runDone) = 0 /\ isRunning /\ \A q \in runs : q = r
    BY <1>1, <2>1 DEF Going
  <2>5. Cardinality(runs) + Len(runDone) = 1
    BY <2>4
  <2> QED BY <2>3, <2>4, <2>5, Zenon DEF OneRun
<1> QED BY <1>2, <1>3, <1>4 DEF OneTurn

LEMMA OneTurnGoes ==
  ASSUME NEW r, isRunning', runs' = {r}, runDone' = <<>>,
         runCancel' = IF r.pc = "cleared" THEN NoRun ELSE r.id
  PROVE  OneTurn'
<1>1. r \in runs' /\ Going(r)'
  BY Zenon DEF Going
<1> QED BY <1>1, Zenon DEF OneTurn

\* startRun is called when no turn is under way and no result waits.
LEMMA OneTurnStart ==
  ASSUME runs = {}, runDone' = <<>>, NEW turn, startRun(turn)
  PROVE  OneTurn'
<1> DEFINE r == [id |-> started + 1, input |-> turn, pc |-> "starting",
                 outcome |-> "none", stopped |-> FALSE]
<1>1. isRunning' /\ runs' = {r} /\ runCancel' = r.id /\ r.pc # "cleared"
  BY DEF startRun
<1> HIDE DEF r
<1> QED BY <1>1, OneTurnGoes

LEMMA OneTurnSelect == TypeOK /\ OneTurn /\ Select => OneTurn'
<1> SUFFICES ASSUME TypeOK, OneTurn, Select PROVE OneTurn'
  OBVIOUS
<1> USE DEF loopVars
<1>1. ASSUME NEW turn, Submit(turn), UNCHANGED runDone PROVE OneTurn'
  <2>1. CASE isRunning
    BY <1>1, <2>1, OneTurnFrame, Zenon DEF Submit
  <2>2. CASE ~isRunning
    <3>1. runs = {} /\ runDone = <<>>
      BY <2>2 DEF OneTurn, Idle, Delivered, Going
    <3>2. startRun(turn)
      BY <1>1, <2>2 DEF Submit
    <3> QED BY <1>1, <3>1, <3>2, OneTurnStart
  <2> QED BY <2>1, <2>2
<1>2. CASE TakeLine
  BY <1>1, <1>2 DEF TakeLine
<1>3. CASE TakeSignal
  BY <1>1, <1>3 DEF TakeSignal
<1>4. CASE TakeResult
  <2>1. runs = {} /\ Len(runDone) = 1 /\ runCancel = NoRun
    BY <1>4 DEF OneTurn, Idle, Delivered, Going, TakeResult
  <2>2. runDone' = <<>>
    <3>1. runDone \in Seq([outcome : Outcomes, stopped : BOOLEAN])
      BY DEF TypeOK
    <3>2. /\ Tail(runDone) \in Seq([outcome : Outcomes, stopped : BOOLEAN])
          /\ Len(Tail(runDone)) = 0
      BY <1>4, <2>1, <3>1, HeadTailProperties DEF TakeResult
    <3> QED BY <1>4, <3>2, EmptySeq DEF TakeResult
  <2>3. CASE /\ isRunning' = FALSE
             /\ UNCHANGED <<runs, runCancel>>
    BY <2>1, <2>2, <2>3 DEF OneTurn, Idle
  <2>4. CASE startRun(Head(queue))
    BY <2>1, <2>2, <2>4, OneTurnStart
  <2> QED BY <1>4, <2>3, <2>4, Zenon DEF TakeResult
<1>5. CASE TakeQuit \/ TakeEOF \/ LeaveLoop
  BY <1>5, OneTurnFrame DEF TakeQuit, TakeEOF, LeaveLoop
<1> QED BY <1>2, <1>3, <1>4, <1>5 DEF Select

LEMMA OneTurnTurn == TypeOK /\ OneTurn /\ Turn => OneTurn'
<1> SUFFICES ASSUME TypeOK, OneTurn, Turn PROVE OneTurn'
  OBVIOUS
<1>1. PICK r \in runs : Drain(r) \/ Answer(r) \/ ReturnSilently(r) \/ ClearCancel(r) \/ Deliver(r)
  BY DEF Turn
<1>2. Going(r) /\ UNCHANGED isRunning /\ r \in Run
  BY <1>1 DEF OneTurn, Idle, Delivered, Going, Turn, TypeOK
<1>3. ASSUME NEW pc \in Pcs, NEW o, Become(r, pc, o), UNCHANGED runDone,
             runCancel' = IF pc = "cleared" THEN NoRun ELSE r.id
      PROVE  OneTurn'
  <2> DEFINE q == [r EXCEPT !.pc = pc, !.outcome = o]
  <2>1. q.pc = pc /\ q.id = r.id
    BY <1>2 DEF Run
  <2>2. runs' = {q}
    BY <1>2, <1>3 DEF Become, Going
  <2> HIDE DEF q
  <2> QED BY <1>2, <1>3, <2>1, <2>2, OneTurnGoes DEF Going
<1>4. CASE Drain(r)
  <2>1. UNCHANGED <<runCancel, runDone>> /\ r.pc = "starting"
    BY <1>4 DEF Drain
  <2>2. Become(r, "returned", "ok") \/ Become(r, "executing", "none")
    BY <1>4 DEF Drain
  <2> QED BY <1>2, <1>3, <2>1, <2>2 DEF Going, Pcs
<1>5. CASE Answer(r)
  BY <1>2, <1>3, <1>5 DEF Going, Answer, Pcs
<1>6. CASE ReturnSilently(r)
  BY <1>2, <1>3, <1>6 DEF Going, ReturnSilently, Pcs
<1>7. CASE ClearCancel(r)
  BY <1>2, <1>3, <1>7 DEF Going, ClearCancel, Pcs
<1>8. CASE Deliver(r)
  <2>1. runs' = {} /\ runCancel' = NoRun
    BY <1>2, <1>8 DEF Going, Deliver
  <2>2. Len(runDone') = 1
    <3>1. runDone = <<>> /\ runDone' = Append(runDone, [outcome |-> r.outcome, stopped |-> r.stopped])
      BY <1>2, <1>8 DEF Going, Deliver
    <3> QED BY <3>1
  <2>3. isRunning'
    BY <1>2, Zenon DEF Going
  <2> QED BY <2>1, <2>2, <2>3 DEF OneTurn, Delivered
<1> QED BY <1>1, <1>4, <1>5, <1>6, <1>7, <1>8

LEMMA OneTurnHandler == TypeOK /\ OneTurn /\ Handler => OneTurn'
<1> SUFFICES ASSUME TypeOK, OneTurn, Handler PROVE OneTurn'
  OBVIOUS
<1> USE DEF loopVars
<1>1. CASE HandleSignal
  BY <1>1, OneTurnFrame DEF HandleSignal, Handler
<1>2. CASE CallCancel
  <2> DEFINE stop(r) == [r EXCEPT !.stopped = @ \/ (r.id = target /\ r.pc \in {"starting", "executing"})]
  <2>1. runs' = {stop(r) : r \in runs} /\ UNCHANGED <<isRunning, runDone, runCancel>>
    BY <1>2 DEF CallCancel, Handler
  <2>2. CASE runs = {}
    <3>1. runs' = {}
      BY <2>1, <2>2
    <3> QED BY <2>1, <2>2, <3>1, OneTurnFrame
  <2>3. CASE \E r \in runs : Going(r)
    <3>1. PICK r \in runs : Going(r)
      BY <2>3
    <3>2. runs' = {stop(r)}
      BY <2>1, <3>1 DEF Going
    <3>3. stop(r).pc = r.pc /\ stop(r).id = r.id
      BY DEF TypeOK, Run
    <3> HIDE DEF stop
    <3> QED BY <2>1, <3>1, <3>2, <3>3, OneTurnGoes DEF Going
  <2> QED BY <2>2, <2>3 DEF OneTurn, Idle, Delivered
<1> QED BY <1>1, <1>2 DEF Handler

LEMMA NextOneTurn == TypeOK /\ OneTurn /\ [Next]_vars => OneTurn'
<1> SUFFICES ASSUME TypeOK, OneTurn, [Next]_vars PROVE OneTurn'
  OBVIOUS
<1> USE DEF loopVars
<1>1. CASE User \/ Shutdown \/ (\E t \in Tasks : Child(t)) \/ UNCHANGED vars
  BY <1>1, OneTurnFrame DEF User, Shutdown, Child, vars
<1>2. CASE Delegation
  BY <1>2, OneTurnFrame DEF Delegation, Delegate
<1> QED BY <1>1, <1>2, OneTurnSelect, OneTurnTurn, OneTurnHandler DEF Next

LEMMA SessionOneTurn == Spec => [](TypeOK /\ OneTurn)
<1>1. Init => OneTurn
  BY DEF Init, OneTurn, Idle
<1>2. TypeOK /\ OneTurn /\ [Next]_vars => TypeOK' /\ OneTurn'
  BY NextType, NextOneTurn
<1> QED BY InitType, <1>1, <1>2, PTL DEF Spec

(* One turn at a time: isRunning stands for the one goroutine of startRun  *)
(* or for its result in runDoneCh, so no two turns share the conversation  *)
(* and the channel never blocks one; and a turn that can still be          *)
(* interrupted is the one whose cancel function the pointer holds.         *)
THEOREM SessionOneRun == Spec => []OneRun
  BY SessionOneTurn, OneTurnOneRun, PTL

----------------------------------------------------------------------------
(* Answers.                                                                 *)

Alternating(s) == \A k \in DOMAIN s : s[k] = Reply => k > 1 /\ s[k - 1] # Reply
Prompted(s) == s # <<>> /\ s[Len(s)] # Reply
\* A turn that is executed has something to answer.
TurnPrompted == \A r \in runs : r.pc = "executing" => Prompted(dialogue)

\* What Drain adds is no answer, and if it is something it wants one.
LEMMA AlternatingConcat ==
  ASSUME NEW M, NEW s1 \in Seq(M), NEW s2 \in Seq(M \ {Reply}), Alternating(s1)
  PROVE  /\ Alternating(s1 \o s2)
         /\ s2 # <<>> \/ Prompted(s1) => Prompted(s1 \o s2)
<1> DEFINE s == s1 \o s2
<1>1. s2 \in Seq(M)
  BY SeqMonotonic
<1>2. /\ s \in Seq(M) /\ DOMAIN s = 1..(Len(s1) + Len(s2)) /\ Len(s) = Len(s1) + Len(s2)
      /\ DOMAIN s1 = 1..Len(s1) /\ DOMAIN s2 = 1..Len(s2)
      /\ Len(s1) \in Nat /\ Len(s2) \in Nat
      /\ \A i \in 1..(Len(s1) + Len(s2)) : s[i] = IF i <= Len(s1) THEN s1[i] ELSE s2[i - Len(s1)]
  BY <1>1, ConcatProperties, LenProperties
<1>3. \A i \in DOMAIN s2 : s2[i] # Reply
  BY ElementOfSeq, <1>2
<1>4. ASSUME NEW i \in DOMAIN s, i > Len(s1) PROVE s[i] # Reply
  <2>1. i - Len(s1) \in DOMAIN s2 /\ s[i] = s2[i - Len(s1)]
    BY <1>2, <1>4
  <2> QED BY <1>3, <2>1
<1>5. Alternating(s)
  <2> SUFFICES ASSUME NEW k \in DOMAIN s, s[k] = Reply PROVE k > 1 /\ s[k - 1] # Reply
    BY DEF Alternating
  <2>1. k \in 1..Len(s1) /\ s1[k] = Reply
    BY <1>2, <1>4
  <2>2. k > 1 /\ s1[k - 1] # Reply
    BY <1>2, <2>1 DEF Alternating
  <2>3. s[k - 1] = s1[k - 1]
    BY <1>2, <2>1, <2>2
  <2> QED BY <2>2, <2>3
<1>6. CASE s2 # <<>>
  <2>1. Len(s2) # 0
    BY <1>1, <1>6, EmptySeq
  <2>2. Len(s) \in DOMAIN s /\ Len(s) > Len(s1) /\ s # <<>>
    BY <1>2, <2>1
  <2> QED BY <1>4, <1>5, <2>2 DEF Prompted
<1>7. CASE s2 = <<>>
  <2>1. s = s1
    BY <1>7, ConcatEmptySeq
  <2> QED BY <1>5, <1>7, <2>1
<1> QED BY <1>6, <1>7

LEMMA AlternatingAnswer ==
  ASSUME NEW M, NEW s \in Seq(M), Reply \in M, Alternating(s), Prompted(s)
  PROVE  Alternating(Append(s, Reply))
<1> DEFINE a == Append(s, Reply)
<1>1. /\ Len(s) \in Nat /\ DOMAIN s = 1..Len(s) /\ DOMAIN a = 1..(Len(s) + 1)
      /\ \A i \in 1..Len(s) : a[i] = s[i]
  BY AppendProperties, LenProperties
<1>2. Len(s) # 0
  BY EmptySeq DEF Prompted
<1> SUFFICES ASSUME NEW k \in DOMAIN a, a[k] = Reply PROVE k > 1 /\ a[k - 1] # Reply
  BY DEF Alternating
<1>3. CASE k = Len(s) + 1
  <2>1. k - 1 = Len(s) /\ k > 1 /\ Len(s) \in 1..Len(s)
    BY <1>1, <1>2, <1>3
  <2>2. a[k - 1] = s[Len(s)]
    BY <1>1, <2>1
  <2> QED BY <2>1, <2>2 DEF Prompted
<1>4. CASE k # Len(s) + 1
  <2>1. k \in 1..Len(s) /\ s[k] = Reply
    BY <1>1, <1>4
  <2>2. k > 1 /\ s[k - 1] # Reply
    BY <1>1, <2>1 DEF Alternating
  <2>3. a[k - 1] = s[k - 1]
    BY <1>1, <2>1, <2>2
  <2> QED BY <2>2, <2>3
<1> QED BY <1>3, <1>4

ReplyInv == Alternating(dialogue) /\ TurnPrompted

LEMMA ReplyFrame ==
  ASSUME ReplyInv, UNCHANGED dialogue,
         \A r \in runs' : r.pc = "executing" => \E q \in runs : q.pc = "executing"
  PROVE  ReplyInv'
  BY DEF ReplyInv, TurnPrompted, Alternating, Prompted

LEMMA ReplyStart ==
  ASSUME NEW turn, startRun(turn)
  PROVE  \A r \in runs' : r.pc = "executing" => r \in runs
  BY DEF startRun

LEMMA ReplySelect == ReplyInv /\ Select => ReplyInv'
<1> SUFFICES ASSUME ReplyInv, Select PROVE ReplyInv'
  OBVIOUS
<1>1. UNCHANGED dialogue
  BY DEF Select, TakeLine, TakeQuit, TakeEOF, TakeResult, TakeSignal, LeaveLoop, agentVars
<1>2. UNCHANGED runs \/ \E turn : startRun(turn)
  BY Zenon DEF Select, TakeLine, TakeQuit, TakeEOF, TakeResult, TakeSignal, LeaveLoop, Submit
<1> QED BY <1>1, <1>2, ReplyFrame, ReplyStart

LEMMA ReplyTurn == TypeOK /\ OneTurn /\ ReplyInv /\ Turn => ReplyInv'
<1> SUFFICES ASSUME TypeOK, OneTurn, ReplyInv, Turn PROVE ReplyInv'
  OBVIOUS
<1> DEFINE M == Inputs \cup Tasks \cup {Reply}
<1> USE DEF agentVars
<1>1. PICK r \in runs : Drain(r) \/ Answer(r) \/ ReturnSilently(r) \/ ClearCancel(r) \/ Deliver(r)
  BY DEF Turn
<1>2. runs = {r} /\ r \in Run /\ dialogue \in Seq(M)
  BY <1>1 DEF OneTurn, Idle, Delivered, Going, TypeOK
<1>3. ASSUME NEW pc, NEW o, Become(r, pc, o)
      PROVE  \A q \in runs' : q.pc = pc
  BY <1>2, <1>3 DEF Become, Run
<1>4. CASE Drain(r)
  <2> DEFINE line == IF r.input = Async THEN <<>> ELSE <<r.input>>
  <2>1. pendingNotifs \in Seq(M \ {Reply}) /\ line \in Seq(M \ {Reply})
    <3>1. Tasks \subseteq M \ {Reply} /\ Inputs \subseteq M \ {Reply}
      BY SessionAssumption DEF SessionAssumption
    <3>2. pendingNotifs \in Seq(M \ {Reply})
      BY <3>1, SeqMonotonic DEF TypeOK
    <3>3. r.input # Async => r.input \in M \ {Reply}
      BY <1>2, <3>1 DEF Run, Turns
    <3>4. line \in Seq(M \ {Reply})
      BY <3>3, AppendConcat, EmptySeq
    <3> QED BY <3>2, <3>4
  <2>2. dialogue' = (dialogue \o pendingNotifs) \o line
    BY <1>4 DEF Drain
  <2> HIDE DEF line
  <2>3. /\ Alternating(dialogue \o pendingNotifs) /\ dialogue \o pendingNotifs \in Seq(M)
        /\ pendingNotifs # <<>> => Prompted(dialogue \o pendingNotifs)
    <3>1. pendingNotifs \in Seq(M)
      BY <2>1, SeqMonotonic
    <3>2. dialogue \o pendingNotifs \in Seq(M)
      BY <1>2, <3>1, ConcatProperties
    <3>3. Alternating(dialogue)
      BY DEF ReplyInv
    <3> HIDE DEF M
    <3> QED BY <1>2, <2>1, <3>2, <3>3, AlternatingConcat
  <2>4. /\ Alternating(dialogue')
        /\ pendingNotifs # <<>> \/ line # <<>> => Prompted(dialogue')
    <3> HIDE DEF M
    <3> QED BY <2>1, <2>2, <2>3, AlternatingConcat
  <2>5. CASE pendingNotifs # <<>> \/ line # <<>>
    BY <2>4, <2>5 DEF ReplyInv, TurnPrompted, Alternating, Prompted
  <2>6. CASE pendingNotifs = <<>> /\ line = <<>>
    <3>1. r.input = Async
      BY <2>6 DEF line
    <3>2. \A q \in runs' : q.pc = "returned"
      BY <1>3, <1>4, <2>6, <3>1 DEF Drain
    <3> QED BY <2>4, <3>2 DEF ReplyInv, TurnPrompted, Alternating
  <2> QED BY <2>5, <2>6
<1>5. CASE Answer(r)
  <2>1. Alternating(dialogue) /\ Prompted(dialogue)
    BY <1>5 DEF ReplyInv, TurnPrompted, Answer
  <2>2. Alternating(dialogue')
    BY <1>2, <1>5, <2>1, AlternatingAnswer DEF Answer
  <2>3. \A q \in runs' : q.pc = "returned"
    BY <1>3, <1>5 DEF Answer
  <2> QED BY <2>2, <2>3 DEF ReplyInv, TurnPrompted, Alternating
<1>6. CASE ReturnSilently(r)
  BY <1>3, <1>6, ReplyFrame DEF ReturnSilently
<1>7. CASE ClearCancel(r)
  BY <1>3, <1>7, ReplyFrame DEF ClearCancel
<1>8. CASE Deliver(r)
  BY <1>8, ReplyFrame DEF Deliver
<1> QED BY <1>1, <1>4, <1>5, <1>6, <1>7, <1>8

LEMMA NextReply == TypeOK /\ OneTurn /\ ReplyInv /\ [Next]_vars => ReplyInv'
<1> SUFFICES ASSUME TypeOK, OneTurn, ReplyInv, [Next]_vars PROVE ReplyInv'
  OBVIOUS
<1>1. CASE User \/ Shutdown \/ Delegation \/ (\E t \in Tasks : Child(t)) \/ UNCHANGED vars
  <2>1. UNCHANGED <<dialogue, runs>>
    BY <1>1 DEF User, Shutdown, Delegation, Delegate, Child, vars, agentVars
  <2> QED BY <2>1, ReplyFrame
<1>2. CASE Handler
  <2>1. UNCHANGED dialogue
    BY <1>2 DEF Handler, agentVars
  <2>2. CASE HandleSignal
    BY <2>1, <2>2, ReplyFrame DEF HandleSignal
  <2>3. CASE CallCancel
    BY <2>1, <2>3, ReplyFrame DEF CallCancel, TypeOK, Run
  <2> QED BY <1>2, <2>2, <2>3 DEF Handler
<1> QED BY <1>1, <1>2, ReplySelect, ReplyTurn DEF Next

(* Run answers only when it has taken in a line or a notification since    *)
(* its previous answer, though a turn is started for every signal and the  *)
(* notification that was signalled may have been drained by the turn       *)
(* before.                                                                 *)
THEOREM SessionNoUnpromptedReply == Spec => []NoUnpromptedReply
<1>1. Init => ReplyInv
  BY DEF Init, ReplyInv, Alternating, TurnPrompted
<1>2. TypeOK /\ OneTurn /\ ReplyInv /\ [Next]_vars => ReplyInv'
  BY NextReply
<1>3. ReplyInv => NoUnpromptedReply
  BY DEF ReplyInv, Alternating, NoUnpromptedReply
<1> QED BY <1>1, <1>2, <1>3, SessionOneTurn, PTL DEF Spec

----------------------------------------------------------------------------
(* Lines.                                                                   *)

LEMMA InOrderConcat ==
  ASSUME NEW S, NEW s1 \in Seq(S), NEW s2 \in Seq(S)
  PROVE  InOrder(s1 \o s2) <=> /\ InOrder(s1) /\ InOrder(s2)
                               /\ Before(Elements(s1), Elements(s2))
<1> DEFINE s == s1 \o s2
<1> USE DEF Inputs
<1>1. /\ DOMAIN s = 1..(Len(s1) + Len(s2))
      /\ DOMAIN s1 = 1..Len(s1) /\ DOMAIN s2 = 1..Len(s2)
      /\ Len(s1) \in Nat /\ Len(s2) \in Nat
      /\ \A i \in DOMAIN s1 : i \in DOMAIN s /\ s[i] = s1[i]
      /\ \A i \in DOMAIN s2 : Len(s1) + i \in DOMAIN s /\ s[Len(s1) + i] = s2[i]
  BY ConcatProperties, LenProperties
<1>2. ASSUME InOrder(s1), InOrder(s2), Before(Elements(s1), Elements(s2))
      PROVE  InOrder(s)
  <2> SUFFICES ASSUME NEW j \in DOMAIN s, NEW k \in DOMAIN s, j < k,
                      s[j] \in Inputs, s[k] \in Inputs
               PROVE  s[j] < s[k]
    BY DEF InOrder
  <2>1. CASE k \in DOMAIN s1
    <3>1. j \in DOMAIN s1 /\ s[j] = s1[j] /\ s[k] = s1[k]
      BY <1>1, <2>1
    <3> QED BY <1>2, <2>1, <3>1 DEF InOrder
  <2>2. CASE j \notin DOMAIN s1
    <3>1. /\ j - Len(s1) \in DOMAIN s2 /\ k - Len(s1) \in DOMAIN s2 /\ j - Len(s1) < k - Len(s1)
          /\ j = Len(s1) + (j - Len(s1)) /\ k = Len(s1) + (k - Len(s1))
      BY <1>1, <2>2
    <3>2. s[j] = s2[j - Len(s1)] /\ s[k] = s2[k - Len(s1)]
      BY <1>1, <3>1
    <3> QED BY <1>2, <3>1, <3>2 DEF InOrder
  <2>3. CASE j \in DOMAIN s1 /\ k \notin DOMAIN s1
    <3>1. k - Len(s1) \in DOMAIN s2 /\ k = Len(s1) + (k - Len(s1))
      BY <1>1, <2>3
    <3>2. s[j] = s1[j] /\ s[k] = s2[k - Len(s1)]
      BY <1>1, <2>3, <3>1
    <3>3. s[j] \in Elements(s1) /\ s[k] \in Elements(s2)
      BY <2>3, <3>1, <3>2 DEF Elements
    <3> QED BY <1>2, <3>3 DEF Before
  <2> QED BY <2>1, <2>2, <2>3
<1>3. ASSUME InOrder(s)
      PROVE  InOrder(s1) /\ InOrder(s2) /\ Before(Elements(s1), Elements(s2))
  <2>1. InOrder(s1)
    BY <1>1, <1>3 DEF InOrder
  <2>2. InOrder(s2)
    <3> SUFFICES ASSUME NEW j \in DOMAIN s2, NEW k \in DOMAIN s2, j < k,
                        s2[j] \in Inputs, s2[k] \in Inputs
                 PROVE  s2[j] < s2[k]
      BY DEF InOrder
    <3>1. Len(s1) + j < Len(s1) + k
      BY <1>1
    <3> QED BY <1>1, <1>3, <3>1 DEF InOrder
  <2>3. Before(Elements(s1), Elements(s2))
    <3> SUFFICES ASSUME NEW j \in DOMAIN s1, NEW k \in DOMAIN s2,
                        s1[j] \in Inputs, s2[k] \in Inputs
                 PROVE  s1[j] < s2[k]
      BY DEF Before, Elements
    <3>1. j < Len(s1) + k
      BY <1>1
    <3> QED BY <1>1, <1>3, <3>1 DEF InOrder
  <2> QED BY <2>1, <2>2, <2>3
<1> QED BY <1>2, <1>3

LEMMA InOrderOne == \A x : InOrder(<<x>>)
  BY DEF InOrder

LEMMA InOrderAppend ==
  ASSUME NEW S, NEW s \in Seq(S), NEW x \in S
  PROVE  /\ InOrder(Append(s, x)) <=> InOrder(s) /\ Before(Elements(s), {x})
         /\ Elements(Append(s, x)) = Elements(s) \cup {x}
<1>1. Append(s, x) = s \o <<x>> /\ <<x>> \in Seq(S)
  BY AppendConcat
<1>2. Elements(<<x>>) = {x} /\ InOrder(<<x>>)
  BY OneElement, InOrderOne
<1>3. Elements(s \o <<x>>) = Elements(s) \cup Elements(<<x>>)
  BY <1>1, ConcatElements
<1>4. InOrder(s \o <<x>>) <=> InOrder(s) /\ InOrder(<<x>>) /\ Before(Elements(s), Elements(<<x>>))
  BY <1>1, InOrderConcat
<1> QED BY <1>1, <1>2, <1>3, <1>4

LEMMA InOrderTail ==
  ASSUME NEW S, NEW s \in Seq(S), s # <<>>, InOrder(s)
  PROVE  InOrder(Tail(s)) /\ Before({Head(s)}, Elements(Tail(s)))
<1>1. /\ Tail(s) \in Seq(S) /\ Len(Tail(s)) = Len(s) - 1 /\ Len(s) \in Nat \ {0}
      /\ \A i \in 1..Len(Tail(s)) : Tail(s)[i] = s[i + 1]
      /\ DOMAIN s = 1..Len(s) /\ DOMAIN Tail(s) = 1..Len(Tail(s)) /\ Head(s) = s[1]
  BY HeadTailProperties, EmptySeq, LenProperties
<1>2. \A i \in DOMAIN Tail(s) : i + 1 \in DOMAIN s /\ Tail(s)[i] = s[i + 1] /\ 1 < i + 1
  BY <1>1
<1>3. InOrder(Tail(s))
  <2> SUFFICES ASSUME NEW j \in DOMAIN Tail(s), NEW k \in DOMAIN Tail(s), j < k,
                      Tail(s)[j] \in Inputs, Tail(s)[k] \in Inputs
               PROVE  Tail(s)[j] < Tail(s)[k]
    BY DEF InOrder
  <2>1. j + 1 < k + 1
    BY <1>1
  <2> QED BY <1>2, <2>1 DEF InOrder
<1>4. Before({Head(s)}, Elements(Tail(s)))
  <2>1. 1 \in DOMAIN s
    BY <1>1
  <2> QED BY <1>1, <1>2, <2>1 DEF Before, Elements, InOrder
<1> QED BY <1>3, <1>4

\* The stages a line goes through - conversation, turn, queue, terminal -
\* each ahead of the next, and what has been typed so far.
Staged(said, carried, queued, entered, n) ==
  /\ Before(said, carried \cup queued \cup entered)
  /\ Before(carried, queued \cup entered)
  /\ Before(queued, entered)
  /\ (said \cup carried \cup queued \cup entered) \cap Inputs \subseteq 1..n
LinesInOrder ==
  /\ InOrder(dialogue) /\ InOrder(queue) /\ InOrder(stdin)
  /\ Staged(Elements(dialogue), Carried, Elements(queue), Elements(stdin), typed)
\* Only behind a turn does another wait.
QueueBehindTurn == ~isRunning => queue = <<>>
LinesInv == LinesInOrder /\ QueueBehindTurn

LEMMA LinesInvInOrder == TypeOK /\ LinesInv => InputsInOrder
<1> SUFFICES ASSUME TypeOK, LinesInv PROVE InputsInOrder
  OBVIOUS
<1>1. queue \in Seq(Turns \cup {Quit}) /\ stdin \in Seq(Turns \cup {Quit})
  BY SeqMonotonic DEF TypeOK, Turns
<1>2. /\ Elements(queue \o stdin) = Elements(queue) \cup Elements(stdin)
      /\ InOrder(queue \o stdin)
  BY <1>1, ConcatElements, InOrderConcat DEF LinesInv, LinesInOrder, Staged
<1>3. /\ Before(Elements(dialogue), Carried) /\ InOrder(dialogue)
      /\ Before(Elements(dialogue), Elements(queue) \cup Elements(stdin))
      /\ Before(Carried, Elements(queue) \cup Elements(stdin))
  BY DEF LinesInv, LinesInOrder, Staged, Before
<1> QED BY <1>2, <1>3 DEF InputsInOrder

\* No stage gains a line, and no line changes place.
LEMMA LinesFrame ==
  ASSUME LinesInv, Carried' \subseteq Carried, UNCHANGED <<dialogue, typed, queue, stdin, isRunning>>
  PROVE  LinesInv'
<1>1. LinesInOrder'
  <2>1. UNCHANGED <<Elements(dialogue), Elements(queue), Elements(stdin), typed>>
    BY DEF Elements
  <2>2. InOrder(dialogue)' /\ InOrder(queue)' /\ InOrder(stdin)'
    BY DEF LinesInv, LinesInOrder, InOrder
  <2>3. Staged(Elements(dialogue), Carried, Elements(queue), Elements(stdin), typed)
    BY DEF LinesInv, LinesInOrder
  <2>4. ASSUME NEW A, NEW C, NEW Q, NEW I, NEW n, NEW B, Staged(A, C, Q, I, n), B \subseteq C
        PROVE  Staged(A, B, Q, I, n)
    BY <2>4 DEF Staged, Before
  <2>5. Staged(Elements(dialogue)', Carried', Elements(queue)', Elements(stdin)', typed')
    BY <2>1, <2>3, <2>4
  <2> QED BY <2>2, <2>5 DEF LinesInOrder
<1>2. QueueBehindTurn'
  BY DEF LinesInv, QueueBehindTurn
<1> QED BY <1>1, <1>2 DEF LinesInv

LEMMA CarriedStart ==
  ASSUME runs = {}, NEW turn, startRun(turn)
  PROVE  Carried = {} /\ Carried' = {turn} /\ isRunning'
<1> DEFINE r == [id |-> started + 1, input |-> turn, pc |-> "starting",
                 outcome |-> "none", stopped |-> FALSE]
<1>1. runs' = {r} /\ r.input = turn /\ r.pc = "starting" /\ isRunning'
  BY DEF startRun
<1> QED BY <1>1 DEF Carried

\* A turn that carries no line enters behind the queue or into an empty loop.
LEMMA LinesSubmitAsync ==
  ASSUME TypeOK, OneTurn, LinesInv, Submit(Async), UNCHANGED <<dialogue, typed, stdin>>
  PROVE  LinesInv'
<1>1. Async \notin Inputs /\ Async \in Turns
  BY SessionAssumption DEF SessionAssumption, Turns
<1>2. UNCHANGED <<Elements(dialogue), Elements(stdin), typed>>
  BY DEF Elements
<1>3. InOrder(dialogue)' /\ InOrder(stdin)' /\ InOrder(queue)
  BY DEF LinesInv, LinesInOrder, InOrder
<1>4. Staged(Elements(dialogue), Carried, Elements(queue), Elements(stdin), typed)
  BY DEF LinesInv, LinesInOrder
<1>5. CASE isRunning
  <2>1. queue' = Append(queue, Async) /\ UNCHANGED <<runs, isRunning>>
    BY <1>5 DEF Submit
  <2>2. queue \in Seq(Turns)
    BY DEF TypeOK
  <2>3. Before(Elements(queue), {Async})
    BY <1>1 DEF Before
  <2>4. InOrder(queue') /\ Elements(queue') = Elements(queue) \cup {Async}
    BY <1>1, <1>3, <2>1, <2>2, <2>3, InOrderAppend
  <2>5. Carried' = Carried
    BY <2>1 DEF Carried
  <2>6. Staged(Elements(dialogue), Carried, Elements(queue) \cup {Async}, Elements(stdin), typed)
    BY <1>1, <1>4 DEF Staged, Before
  <2>7. Staged(Elements(dialogue)', Carried', Elements(queue)', Elements(stdin)', typed')
    BY <1>2, <2>4, <2>5, <2>6
  <2>8. QueueBehindTurn'
    BY <1>5, <2>1, Zenon DEF QueueBehindTurn
  <2> QED BY <1>3, <2>4, <2>7, <2>8 DEF LinesInv, LinesInOrder
<1>6. CASE ~isRunning
  <2>1. runs = {} /\ startRun(Async) /\ UNCHANGED queue
    BY <1>6 DEF OneTurn, Idle, Delivered, Going, Submit
  <2>2. Carried = {} /\ Carried' = {Async} /\ isRunning'
    BY <2>1, CarriedStart
  <2>3. UNCHANGED Elements(queue) /\ InOrder(queue)'
    BY <1>3, <2>1 DEF InOrder, Elements
  <2>4. Staged(Elements(dialogue), {Async}, Elements(queue), Elements(stdin), typed)
    BY <1>1, <1>4, <2>2 DEF Staged, Before
  <2>5. Staged(Elements(dialogue)', Carried', Elements(queue)', Elements(stdin)', typed')
    BY <1>2, <2>2, <2>3, <2>4
  <2> QED BY <1>3, <2>2, <2>3, <2>5 DEF LinesInv, LinesInOrder, QueueBehindTurn
<1> QED BY <1>5, <1>6

\* The first line at the terminal comes before every other there, and after
\* all that went ahead.
LEMMA LinesTakeLine ==
  ASSUME TypeOK, OneTurn, LinesInv, TakeLine
  PROVE  LinesInv'
<1> DEFINE line == Head(stdin)
           rest == Tail(stdin)
<1>1. /\ stdin \in Seq(Inputs \cup {Quit}) /\ stdin # <<>> /\ line \in Turns
      /\ queue \in Seq(Turns)
  BY HeadTailProperties DEF TakeLine, TypeOK, Turns
<1>2. /\ stdin' = rest /\ Submit(line)
      /\ UNCHANGED <<dialogue, typed>>
  BY DEF TakeLine, agentVars
<1>3. InOrder(dialogue) /\ InOrder(queue) /\ InOrder(stdin)
  BY DEF LinesInv, LinesInOrder
<1>4. /\ Elements(stdin) = {line} \cup Elements(rest)
      /\ InOrder(rest) /\ Before({line}, Elements(rest))
  BY <1>1, <1>3, HeadTailElements, InOrderTail
<1>5. Staged(Elements(dialogue), Carried, Elements(queue), {line} \cup Elements(rest), typed)
  BY <1>4 DEF LinesInv, LinesInOrder
<1> HIDE DEF line, rest
<1>6. /\ UNCHANGED <<Elements(dialogue), typed>> /\ Elements(stdin)' = Elements(rest)
      /\ InOrder(dialogue)' /\ InOrder(stdin)'
  BY <1>2, <1>3, <1>4 DEF Elements, InOrder
<1>7. CASE isRunning
  <2>1. queue' = Append(queue, line) /\ UNCHANGED <<runs, isRunning>>
    BY <1>2, <1>7 DEF Submit
  <2>2. Before(Elements(queue), {line})
    BY <1>5 DEF Staged, Before
  <2>3. InOrder(queue') /\ Elements(queue') = Elements(queue) \cup {line}
    BY <1>1, <1>3, <2>1, <2>2, InOrderAppend
  <2>4. Carried' = Carried
    BY <2>1 DEF Carried
  <2>5. Staged(Elements(dialogue), Carried, Elements(queue) \cup {line}, Elements(rest), typed)
    BY <1>4, <1>5 DEF Staged, Before
  <2>6. Staged(Elements(dialogue)', Carried', Elements(queue)', Elements(stdin)', typed')
    BY <1>6, <2>3, <2>4, <2>5
  <2>7. QueueBehindTurn'
    BY <1>7, <2>1, Zenon DEF QueueBehindTurn
  <2> QED BY <1>6, <2>3, <2>6, <2>7 DEF LinesInv, LinesInOrder
<1>8. CASE ~isRunning
  <2>1. runs = {} /\ startRun(line) /\ UNCHANGED queue
    BY <1>2, <1>8 DEF OneTurn, Idle, Delivered, Going, Submit
  <2>2. Carried' = {line} /\ isRunning'
    BY <2>1, CarriedStart
  <2>3. Elements(queue) = {} /\ UNCHANGED Elements(queue) /\ InOrder(queue)'
    BY <1>3, <1>8, <2>1, NoElement DEF InOrder, Elements, LinesInv, QueueBehindTurn
  <2>4. Staged(Elements(dialogue), {line}, {}, Elements(rest), typed)
    BY <1>4, <1>5 DEF Staged, Before
  <2>5. Staged(Elements(dialogue)', Carried', Elements(queue)', Elements(stdin)', typed')
    BY <1>6, <2>2, <2>3, <2>4
  <2> QED BY <1>6, <2>2, <2>3, <2>5 DEF LinesInv, LinesInOrder, QueueBehindTurn
<1> QED BY <1>7, <1>8

\* The result of a turn drops the queue, starts its first turn, or finds none.
LEMMA LinesTakeResult ==
  ASSUME TypeOK, OneTurn, LinesInv, TakeResult
  PROVE  LinesInv'
<1>1. UNCHANGED <<dialogue, typed, stdin>>
  BY DEF TakeResult, agentVars, userVars
<1>2. InOrder(dialogue)' /\ InOrder(stdin)' /\ InOrder(queue)
  BY <1>1 DEF LinesInv, LinesInOrder, InOrder
<1>3. UNCHANGED <<Elements(dialogue), Elements(stdin), typed>>
  BY <1>1 DEF Elements
<1>4. Staged(Elements(dialogue), Carried, Elements(queue), Elements(stdin), typed)
  BY DEF LinesInv, LinesInOrder
<1>5. runs = {}
  BY DEF OneTurn, Idle, Delivered, Going, TakeResult
<1>6. CASE queue' = <<>> /\ UNCHANGED runs
  <2>1. InOrder(queue') /\ Elements(queue') = {}
    BY <1>6, NoElement DEF InOrder
  <2>2. Carried' = {} /\ Carried = {}
    BY <1>5, <1>6 DEF Carried
  <2>3. Staged(Elements(dialogue), {}, {}, Elements(stdin), typed)
    BY <1>4 DEF Staged, Before
  <2>4. Staged(Elements(dialogue)', Carried', Elements(queue)', Elements(stdin)', typed')
    BY <1>3, <2>1, <2>2, <2>3
  <2> QED BY <1>2, <1>6, <2>1, <2>4 DEF LinesInv, LinesInOrder, QueueBehindTurn
<1>7. CASE queue # <<>> /\ queue' = Tail(queue) /\ startRun(Head(queue))
  <2> DEFINE turn == Head(queue)
             rest == Tail(queue)
  <2>1. /\ Elements(queue) = {turn} \cup Elements(rest)
        /\ InOrder(rest) /\ Before({turn}, Elements(rest))
    BY <1>2, <1>7, HeadTailElements, InOrderTail DEF TypeOK
  <2>2. startRun(turn) /\ queue' = rest
    BY <1>7
  <2> HIDE DEF turn, rest
  <2>3. Carried = {} /\ Carried' = {turn} /\ isRunning'
    BY <1>5, <2>2, CarriedStart
  <2>4. Staged(Elements(dialogue), {turn}, Elements(rest), Elements(stdin), typed)
    BY <1>4, <2>1 DEF Staged, Before
  <2>5. InOrder(queue') /\ Elements(queue') = Elements(rest)
    BY <2>1, <2>2
  <2>6. Staged(Elements(dialogue)', Carried', Elements(queue)', Elements(stdin)', typed')
    BY <1>3, <2>3, <2>4, <2>5
  <2> QED BY <1>2, <2>3, <2>5, <2>6 DEF LinesInv, LinesInOrder, QueueBehindTurn
<1> QED BY <1>6, <1>7, Zenon DEF TakeResult

LEMMA LinesSelect == TypeOK /\ OneTurn /\ LinesInv /\ Select => LinesInv'
<1> SUFFICES ASSUME TypeOK, OneTurn, LinesInv, Select PROVE LinesInv'
  OBVIOUS
<1>1. CASE TakeSignal
  BY <1>1, LinesSubmitAsync DEF TakeSignal, userVars
<1>2. CASE TakeQuit
  <2>1. /\ stdin' = Tail(stdin) /\ UNCHANGED <<dialogue, typed, queue, isRunning, runs>>
        /\ stdin # <<>> /\ stdin \in Seq(Inputs \cup {Quit})
    BY <1>2 DEF TakeQuit, agentVars, TypeOK
  <2>2. InOrder(stdin)
    BY DEF LinesInv, LinesInOrder
  <2>3. InOrder(stdin') /\ Elements(stdin') \subseteq Elements(stdin)
    BY <2>1, <2>2, HeadTailElements, InOrderTail
  <2>4. /\ UNCHANGED <<Elements(dialogue), Elements(queue), Carried, typed>>
        /\ InOrder(dialogue)' /\ InOrder(queue)'
    BY <2>1 DEF Elements, Carried, InOrder, LinesInv, LinesInOrder
  <2>5. Staged(Elements(dialogue), Carried, Elements(queue), Elements(stdin), typed)
    BY DEF LinesInv, LinesInOrder
  <2>6. Staged(Elements(dialogue), Carried, Elements(queue), Elements(stdin'), typed)
    BY <2>3, <2>5 DEF Staged, Before
  <2>7. Staged(Elements(dialogue)', Carried', Elements(queue)', Elements(stdin)', typed')
    BY <2>4, <2>6
  <2> QED BY <2>1, <2>3, <2>4, <2>7 DEF LinesInv, LinesInOrder, QueueBehindTurn
<1>3. CASE TakeEOF \/ LeaveLoop
  <2>1. UNCHANGED <<dialogue, typed, queue, stdin, isRunning, runs>>
    BY <1>3 DEF TakeEOF, LeaveLoop, agentVars, userVars, loopVars
  <2> QED BY <2>1, LinesFrame DEF Carried
<1> QED BY <1>1, <1>2, <1>3, LinesTakeLine, LinesTakeResult DEF Select

\* The user types behind everything typed before.
LEMMA LinesUser == TypeOK /\ LinesInv /\ User => LinesInv'
<1> SUFFICES ASSUME TypeOK, LinesInv, User PROVE LinesInv'
  OBVIOUS
<1>1. UNCHANGED <<dialogue, queue, isRunning, runs>>
  BY DEF User, agentVars, loopVars
<1>2. UNCHANGED <<Elements(dialogue), Elements(queue), Carried>> /\ QueueBehindTurn'
  BY <1>1 DEF Elements, Carried, LinesInv, QueueBehindTurn
<1>3. InOrder(dialogue)' /\ InOrder(queue)' /\ InOrder(stdin)
  BY <1>1 DEF LinesInv, LinesInOrder, InOrder
<1>4. Staged(Elements(dialogue), Carried, Elements(queue), Elements(stdin), typed)
  BY DEF LinesInv, LinesInOrder
<1>5. ASSUME NEW m \in Inputs \cup {Quit}, stdin' = Append(stdin, m),
             m \in Inputs => m = typed', typed' \in {typed, typed + 1}, m = Quit \/ typed' = typed + 1
      PROVE  LinesInv'
  <2>1. /\ stdin \in Seq(Inputs \cup {Quit}) /\ typed \in Nat
    BY SessionAssumption DEF TypeOK, SessionAssumption
  <2>2. Quit \notin Inputs /\ Inputs \subseteq Nat
    BY SessionAssumption DEF SessionAssumption, Inputs
  <2>3. ASSUME NEW S, S \cap Inputs \subseteq 1..typed PROVE Before(S, {m}) /\ S \cap Inputs \subseteq 1..typed'
    BY <1>5, <2>1, <2>2, <2>3 DEF Before
  <2>4. /\ Before(Elements(stdin), {m}) /\ Before(Elements(queue), {m})
        /\ Before(Elements(dialogue), {m}) /\ Before(Carried, {m})
    BY <1>4, <2>3 DEF Staged
  <2>5. InOrder(stdin') /\ Elements(stdin') = Elements(stdin) \cup {m}
    BY <1>3, <1>5, <2>1, <2>4, InOrderAppend
  <2>6. {m} \cap Inputs \subseteq 1..typed'
    BY <1>5, <2>1, <2>2
  <2>7. (Elements(dialogue) \cup Carried \cup Elements(queue) \cup Elements(stdin)) \cap Inputs
           \subseteq 1..typed'
    BY <1>4, <2>3 DEF Staged
  <2>8. Staged(Elements(dialogue), Carried, Elements(queue), Elements(stdin) \cup {m}, typed')
    BY <1>4, <2>4, <2>6, <2>7 DEF Staged, Before
  <2>9. Staged(Elements(dialogue)', Carried', Elements(queue)', Elements(stdin)', typed')
    BY <1>2, <2>5, <2>8
  <2> QED BY <1>2, <1>3, <2>5, <2>9 DEF LinesInv, LinesInOrder
<1>6. CASE TypeLine
  <2>1. typed + 1 \in Inputs
    BY <1>6, SessionAssumption DEF TypeLine, TypeOK, Inputs, SessionAssumption
  <2> QED BY <1>5, <1>6, <2>1 DEF TypeLine
<1>7. CASE TypeQuit
  <2>1. Quit \notin Inputs
    BY SessionAssumption DEF SessionAssumption
  <2> QED BY <1>5, <1>7, <2>1 DEF TypeQuit
<1>8. CASE CloseStdin \/ \E s \in {"INT", "TERM"} : Signal(s)
  <2>1. UNCHANGED <<typed, stdin>>
    BY <1>8 DEF CloseStdin, Signal
  <2> QED BY <1>1, <1>2, <2>1, LinesFrame
<1> QED BY <1>6, <1>7, <1>8 DEF User

\* The conversation gains the line the turn carries, or none.
LEMMA LinesTurn == TypeOK /\ OneTurn /\ LinesInv /\ Turn => LinesInv'
<1> SUFFICES ASSUME TypeOK, OneTurn, LinesInv, Turn PROVE LinesInv'
  OBVIOUS
<1> DEFINE M == Inputs \cup Tasks \cup {Reply}
<1>1. PICK r \in runs : Drain(r) \/ Answer(r) \/ ReturnSilently(r) \/ ClearCancel(r) \/ Deliver(r)
  BY DEF Turn
<1>2. /\ runs = {r} /\ r \in Run /\ dialogue \in Seq(M)
      /\ UNCHANGED <<typed, stdin, queue, isRunning>>
  BY <1>1 DEF OneTurn, Idle, Delivered, Going, TypeOK, Turn, userVars
<1>3. ASSUME NEW pc, NEW o, Become(r, pc, o), pc # "starting"
      PROVE  Carried' = {}
  BY <1>2, <1>3 DEF Become, Run, Carried
<1>4. /\ UNCHANGED <<Elements(queue), Elements(stdin), typed>>
      /\ InOrder(queue)' /\ InOrder(stdin)' /\ InOrder(dialogue) /\ QueueBehindTurn'
  BY <1>2 DEF Elements, InOrder, LinesInv, LinesInOrder, QueueBehindTurn
<1>5. Staged(Elements(dialogue), Carried, Elements(queue), Elements(stdin), typed)
  BY DEF LinesInv, LinesInOrder
<1>6. Tasks \cap Inputs = {} /\ Reply \notin Inputs /\ Async \notin Inputs
  BY SessionAssumption DEF SessionAssumption
<1>7. CASE Drain(r)
  <2> DEFINE line == IF r.input = Async THEN <<>> ELSE <<r.input>>
  <2>1. Carried = {r.input} /\ Carried' = {}
    BY <1>2, <1>3, <1>7 DEF Drain, Carried
  <2>2. pendingNotifs \in Seq(Tasks) /\ pendingNotifs \in Seq(M)
    BY SeqMonotonic DEF TypeOK
  <2>3. line \in Seq(M) /\ InOrder(line) /\ Elements(line) \subseteq {r.input}
    <3>1. CASE r.input = Async
      BY <3>1, EmptySeq, NoElement DEF InOrder
    <3>2. CASE r.input # Async
      <4>1. r.input \in M
        BY <1>2, <3>2 DEF Run, Turns
      <4> QED BY <3>2, <4>1, AppendConcat, EmptySeq, OneElement, InOrderOne
    <3> QED BY <3>1, <3>2
  <2>4. dialogue' = (dialogue \o pendingNotifs) \o line
    BY <1>7 DEF Drain
  <2> HIDE DEF line, M
  <2>5. Elements(pendingNotifs) \cap Inputs = {} /\ InOrder(pendingNotifs)
    <3>1. \A i \in DOMAIN pendingNotifs : pendingNotifs[i] \in Tasks
      BY <2>2, ElementOfSeq, LenProperties
    <3> QED BY <1>6, <3>1 DEF Elements, InOrder
  <2>6. Before(Elements(dialogue), Elements(pendingNotifs))
    BY <2>5 DEF Before
  <2>7. /\ dialogue \o pendingNotifs \in Seq(M) /\ InOrder(dialogue \o pendingNotifs)
        /\ Elements(dialogue \o pendingNotifs) = Elements(dialogue) \cup Elements(pendingNotifs)
    BY <1>2, <1>4, <2>2, <2>5, <2>6, ConcatProperties, ConcatElements, InOrderConcat
  <2>8. Before(Elements(dialogue) \cup Elements(pendingNotifs), Elements(line))
    BY <1>5, <2>1, <2>3, <2>5 DEF Staged, Before
  <2>9. /\ InOrder(dialogue')
        /\ Elements(dialogue') = Elements(dialogue) \cup Elements(pendingNotifs) \cup Elements(line)
    <3> DEFINE said == dialogue \o pendingNotifs
    <3>1. /\ said \in Seq(M) /\ InOrder(said) /\ dialogue' = said \o line
          /\ Elements(said) = Elements(dialogue) \cup Elements(pendingNotifs)
      BY <2>4, <2>7
    <3> HIDE DEF said
    <3>2. Elements(said \o line) = Elements(said) \cup Elements(line)
      BY <2>3, <3>1, ConcatElements
    <3>3. InOrder(said \o line)
      BY <2>3, <2>8, <3>1, InOrderConcat
    <3> QED BY <3>1, <3>2, <3>3
  <2>10. Staged(Elements(dialogue) \cup Elements(pendingNotifs) \cup Elements(line), {},
                Elements(queue), Elements(stdin), typed)
    BY <1>5, <2>1, <2>3, <2>5 DEF Staged, Before
  <2>11. Staged(Elements(dialogue)', Carried', Elements(queue)', Elements(stdin)', typed')
    BY <1>4, <2>1, <2>9, <2>10
  <2> QED BY <1>4, <2>9, <2>11 DEF LinesInv, LinesInOrder
<1>8. CASE Answer(r)
  <2>1. Carried' = {} /\ dialogue' = Append(dialogue, Reply)
    BY <1>3, <1>8 DEF Answer
  <2>2. Before(Elements(dialogue), {Reply})
    BY <1>6 DEF Before
  <2>3. InOrder(dialogue') /\ Elements(dialogue') = Elements(dialogue) \cup {Reply}
    <3>1. Reply \in M
      OBVIOUS
    <3> HIDE DEF M
    <3> QED BY <1>2, <1>4, <2>1, <2>2, <3>1, InOrderAppend
  <2>4. Staged(Elements(dialogue) \cup {Reply}, {}, Elements(queue), Elements(stdin), typed)
    BY <1>5, <1>6 DEF Staged, Before
  <2>5. Staged(Elements(dialogue)', Carried', Elements(queue)', Elements(stdin)', typed')
    BY <1>4, <2>1, <2>3, <2>4
  <2> QED BY <1>4, <2>3, <2>5 DEF LinesInv, LinesInOrder
<1>9. CASE ReturnSilently(r) \/ ClearCancel(r) \/ Deliver(r)
  <2>1. UNCHANGED dialogue
    BY <1>9 DEF ReturnSilently, ClearCancel, Deliver, agentVars
  <2>2. Carried' = {}
    BY <1>2, <1>3, <1>9 DEF ReturnSilently, ClearCancel, Deliver, Carried
  <2> QED BY <1>2, <2>1, <2>2, LinesFrame
<1> QED BY <1>1, <1>7, <1>8, <1>9

LEMMA NextLines == TypeOK /\ OneTurn /\ LinesInv /\ [Next]_vars => LinesInv'
<1> SUFFICES ASSUME TypeOK, OneTurn, LinesInv, [Next]_vars PROVE LinesInv'
  OBVIOUS
<1> USE DEF agentVars, userVars, loopVars
<1>1. CASE Shutdown \/ (\E t \in Tasks : Child(t)) \/ UNCHANGED vars \/ Delegation
  <2>1. UNCHANGED <<dialogue, typed, queue, stdin, isRunning, runs>>
    BY <1>1 DEF Shutdown, Child, Delegation, Delegate, vars
  <2> QED BY <2>1, LinesFrame DEF Carried
<1>2. CASE Handler
  <2>1. UNCHANGED <<dialogue, typed, queue, stdin, isRunning>>
    BY <1>2 DEF Handler
  <2>2. CASE HandleSignal
    BY <2>1, <2>2, LinesFrame DEF HandleSignal, Carried
  <2>3. CASE CallCancel
    <3>1. Carried' \subseteq Carried
      BY <2>3 DEF CallCancel, Carried, TypeOK, Run
    <3> QED BY <2>1, <3>1, LinesFrame
  <2> QED BY <1>2, <2>2, <2>3 DEF Handler
<1> QED BY <1>1, <1>2, LinesUser, LinesSelect, LinesTurn DEF Next

(* Run takes the lines in in the order they were typed, each at most       *)
(* once, whichever case of the select loop runs first, however often a     *)
(* turn is interrupted and whatever else is queued in between.             *)
THEOREM SessionInputsInOrder == Spec => []InputsInOrder
<1>1. Init => LinesInv
  <2> SUFFICES ASSUME Init PROVE LinesInv
    OBVIOUS
  <2>1. dialogue = <<>> /\ queue = <<>> /\ stdin = <<>> /\ runs = {}
    BY DEF Init
  <2>2. Elements(dialogue) = {} /\ Elements(queue) = {} /\ Elements(stdin) = {} /\ Carried = {}
    BY <2>1, NoElement DEF Carried
  <2> QED BY <2>1, <2>2 DEF LinesInv, LinesInOrder, QueueBehindTurn, Staged, Before, InOrder
<1>2. TypeOK /\ OneTurn /\ LinesInv /\ [Next]_vars => LinesInv'
  BY NextLines
<1> QED BY <1>1, <1>2, LinesInvInOrder, SessionOneTurn, PTL DEF Spec
=============================================================================
