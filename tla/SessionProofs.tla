--------------------------- MODULE SessionProofs ---------------------------
(***************************************************************************)
(* What holds of a session with any number of lines, background children   *)
(* and signals.                                                            *)
(***************************************************************************)
EXTENDS Session, SequenceTheorems, TLAPS

----------------------------------------------------------------------------
(* Lemmas about sequences.                                                  *)

LEMMA ConcatElements ==
  ASSUME NEW S, NEW s1 \in Seq(S), NEW s2 \in Seq(S)
  PROVE  Elements(s1 \o s2) = Elements(s1) \cup Elements(s2)
<1> DEFINE s == s1 \o s2
<1>1. /\ s \in Seq(S) /\ DOMAIN s = 1..(Len(s1) + Len(s2))
      /\ DOMAIN s1 = 1..Len(s1) /\ DOMAIN s2 = 1..Len(s2)
      /\ Len(s1) \in Nat /\ Len(s2) \in Nat
      /\ \A i \in 1..(Len(s1) + Len(s2)) : s[i] = IF i <= Len(s1) THEN s1[i] ELSE s2[i - Len(s1)]
  BY ConcatProperties, LenProperties
<1>2. ASSUME NEW i \in DOMAIN s PROVE s[i] \in Elements(s1) \cup Elements(s2)
  <2>1. CASE i <= Len(s1)
    BY <1>1, <2>1 DEF Elements
  <2>2. CASE ~(i <= Len(s1))
    <3>1. i - Len(s1) \in DOMAIN s2 /\ s[i] = s2[i - Len(s1)]
      BY <1>1, <2>2
    <3> QED BY <3>1 DEF Elements
  <2> QED BY <2>1, <2>2
<1>3. ASSUME NEW i \in DOMAIN s1 PROVE s1[i] \in Elements(s)
  <2>1. i \in DOMAIN s /\ s[i] = s1[i]
    BY <1>1
  <2> QED BY <2>1 DEF Elements
<1>4. ASSUME NEW i \in DOMAIN s2 PROVE s2[i] \in Elements(s)
  <2>1. Len(s1) + i \in DOMAIN s /\ s[Len(s1) + i] = s2[i]
    BY <1>1
  <2> QED BY <2>1 DEF Elements
<1> QED BY <1>2, <1>3, <1>4 DEF Elements

LEMMA ConcatOnce ==
  ASSUME NEW S, NEW s1 \in Seq(S), NEW s2 \in Seq(S), NEW t,
         Once(t, s1), Once(t, s2), ~(t \in Elements(s1) /\ t \in Elements(s2))
  PROVE  Once(t, s1 \o s2)
<1> DEFINE s == s1 \o s2
<1>1. /\ s \in Seq(S) /\ DOMAIN s = 1..(Len(s1) + Len(s2))
      /\ DOMAIN s1 = 1..Len(s1) /\ DOMAIN s2 = 1..Len(s2)
      /\ Len(s1) \in Nat /\ Len(s2) \in Nat
      /\ \A i \in 1..(Len(s1) + Len(s2)) : s[i] = IF i <= Len(s1) THEN s1[i] ELSE s2[i - Len(s1)]
  BY ConcatProperties, LenProperties
<1>2. SUFFICES ASSUME NEW j \in DOMAIN s, NEW k \in DOMAIN s, s[j] = t, s[k] = t PROVE j = k
  BY DEF Once
<1>3. ASSUME NEW i \in DOMAIN s, s[i] = t
      PROVE  \/ i <= Len(s1) /\ i \in DOMAIN s1 /\ s1[i] = t /\ t \in Elements(s1)
             \/ /\ ~(i <= Len(s1)) /\ i - Len(s1) \in DOMAIN s2 /\ s2[i - Len(s1)] = t
                /\ t \in Elements(s2)
  BY <1>1, <1>3 DEF Elements
<1>4. /\ j \in Nat /\ k \in Nat
  BY <1>1
<1>5. CASE j <= Len(s1)
  <2>1. j \in DOMAIN s1 /\ s1[j] = t /\ k \in DOMAIN s1 /\ s1[k] = t
    BY <1>2, <1>3, <1>5
  <2> QED BY <2>1 DEF Once
<1>6. CASE ~(j <= Len(s1))
  <2>1. /\ j - Len(s1) \in DOMAIN s2 /\ s2[j - Len(s1)] = t
        /\ k - Len(s1) \in DOMAIN s2 /\ s2[k - Len(s1)] = t
    BY <1>2, <1>3, <1>6
  <2>2. j - Len(s1) = k - Len(s1)
    BY <2>1 DEF Once
  <2> QED BY <1>1, <1>4, <2>2
<1> QED BY <1>5, <1>6

LEMMA OneElement ==
  ASSUME NEW x
  PROVE  Elements(<<x>>) = {x} /\ \A t : Once(t, <<x>>)
  BY DEF Elements, Once

LEMMA NoElement == Elements(<<>>) = {} /\ \A t : Once(t, <<>>)
  BY DEF Elements, Once

LEMMA AppendConcat ==
  ASSUME NEW S, NEW s \in Seq(S), NEW x \in S
  PROVE  Append(s, x) = s \o <<x>> /\ <<x>> \in Seq(S)
  BY AppendProperties, ConcatProperties, SeqEqual, LenProperties

LEMMA HeadTailElements ==
  ASSUME NEW S, NEW s \in Seq(S), s # <<>>
  PROVE  Head(s) \in S /\ Tail(s) \in Seq(S) /\ Elements(s) = {Head(s)} \cup Elements(Tail(s))
<1>1. /\ Head(s) \in S /\ Tail(s) \in Seq(S)
      /\ Len(Tail(s)) = Len(s) - 1
      /\ \A i \in 1..Len(Tail(s)) : Tail(s)[i] = s[i + 1]
      /\ Len(s) \in Nat \ {0} /\ DOMAIN s = 1..Len(s) /\ DOMAIN Tail(s) = 1..Len(Tail(s))
      /\ Head(s) = s[1]
  BY HeadTailProperties, EmptySeq, LenProperties
<1>2. ASSUME NEW i \in DOMAIN s PROVE s[i] \in {Head(s)} \cup Elements(Tail(s))
  <2>1. CASE i = 1
    BY <1>1, <2>1
  <2>2. CASE i # 1
    <3>1. i - 1 \in DOMAIN Tail(s) /\ Tail(s)[i - 1] = s[i]
      BY <1>1, <2>2
    <3> QED BY <3>1 DEF Elements
  <2> QED BY <2>1, <2>2
<1>3. ASSUME NEW i \in DOMAIN Tail(s) PROVE Tail(s)[i] \in Elements(s)
  <2>1. i + 1 \in DOMAIN s /\ Tail(s)[i] = s[i + 1]
    BY <1>1
  <2> QED BY <2>1 DEF Elements
<1>4. Head(s) \in Elements(s)
  BY <1>1 DEF Elements
<1> QED BY <1>1, <1>2, <1>3, <1>4 DEF Elements

----------------------------------------------------------------------------
(* The type invariant.                                                      *)

LEMMA InitType == Init => TypeOK
<1> SUFFICES ASSUME Init PROVE TypeOK
  OBVIOUS
<1>1. /\ signal \in BOOLEAN /\ eof \in BOOLEAN /\ isRunning \in BOOLEAN /\ ctxDone \in BOOLEAN
      /\ runs \subseteq Run /\ dropped \subseteq Turns
  BY Zenon DEF Init
<1>2. task \in [Tasks -> {"unstarted", "running", "appended", "signalled"}]
  BY DEF Init
<1>3. typed \in 0..NInputs /\ started \in Nat /\ signals \in Nat
  BY SessionAssumption DEF Init, SessionAssumption
<1>4. \A S : <<>> \in Seq(S)
  BY EmptySeq
<1>5. /\ pendingNotifs = <<>> /\ dialogue = <<>> /\ stdin = <<>> /\ queue = <<>>
      /\ runDone = <<>> /\ sigCh = <<>> /\ runCancel = NoRun /\ target = NoRun
      /\ mainPc = "select" /\ handler = "waiting" /\ shutdown = "open" /\ exited = "no"
  BY DEF Init
<1> QED BY <1>1, <1>2, <1>3, <1>4, <1>5 DEF TypeOK

LEMMA UserType == TypeOK /\ User => TypeOK'
<1> SUFFICES ASSUME TypeOK, User PROVE TypeOK'
  OBVIOUS
<1> USE DEF agentVars, loopVars, exitVars
<1>1. CASE TypeLine
  <2>1. typed + 1 \in Inputs /\ typed + 1 \in 0..NInputs
    BY <1>1, SessionAssumption DEF TypeLine, TypeOK, Inputs, SessionAssumption
  <2>2. Append(stdin, typed + 1) \in Seq(Inputs \cup {Quit})
    BY <2>1, AppendProperties DEF TypeOK
  <2> QED BY <1>1, <2>1, <2>2 DEF TypeLine, User, TypeOK
<1>2. CASE TypeQuit
  <2>1. Append(stdin, Quit) \in Seq(Inputs \cup {Quit})
    BY AppendProperties DEF TypeOK
  <2> QED BY <1>2, <2>1 DEF TypeQuit, User, TypeOK
<1>3. CASE CloseStdin
  BY <1>3 DEF CloseStdin, User, TypeOK
<1>4. CASE \E sig \in {"INT", "TERM"} : Signal(sig)
  <2>1. PICK sig \in {"INT", "TERM"} : Signal(sig)
    BY <1>4
  <2>2. Append(sigCh, sig) \in Seq({"INT", "TERM"})
    BY AppendProperties DEF TypeOK
  <2> QED BY <2>1, <2>2 DEF Signal, User, TypeOK
<1> QED BY <1>1, <1>2, <1>3, <1>4 DEF User

\* Starting or queueing a turn keeps the variables it writes well-typed.
LEMMA startRunType ==
  ASSUME TypeOK, NEW turn \in Turns, startRun(turn)
  PROVE  /\ started' \in Nat /\ runs' \subseteq Run
         /\ runCancel' \in Nat \cup {NoRun} /\ isRunning' \in BOOLEAN
<1>1. [id |-> started + 1, input |-> turn, pc |-> "starting", outcome |-> "none",
       stopped |-> FALSE] \in Run
  BY DEF TypeOK, Run, Pcs, Outcomes
<1>2. isRunning' \in BOOLEAN
  BY Zenon DEF startRun
<1>3. /\ started' = started + 1 /\ runCancel' = started + 1
      /\ runs' = runs \cup {[id |-> started + 1, input |-> turn, pc |-> "starting",
                             outcome |-> "none", stopped |-> FALSE]}
  BY DEF startRun
<1>4. started \in Nat /\ runs \subseteq Run
  BY DEF TypeOK
<1>5. runs' \subseteq Run
  BY <1>1, <1>3, <1>4
<1>6. started' \in Nat /\ runCancel' \in Nat
  BY <1>3, <1>4
<1> QED BY <1>2, <1>5, <1>6

LEMMA SubmitType ==
  ASSUME TypeOK, NEW turn \in Turns, Submit(turn)
  PROVE  /\ started' \in Nat /\ runs' \subseteq Run
         /\ runCancel' \in Nat \cup {NoRun} /\ isRunning' \in BOOLEAN
         /\ queue' \in Seq(Turns)
<1>1. Append(queue, turn) \in Seq(Turns)
  BY AppendProperties DEF TypeOK
<1> QED BY <1>1, startRunType DEF Submit, TypeOK

LEMMA SelectType == TypeOK /\ Select => TypeOK'
<1> SUFFICES ASSUME TypeOK, Select PROVE TypeOK'
  OBVIOUS
<1> USE DEF agentVars, userVars, loopVars, exitVars
<1>1. CASE TakeLine
  <2>1. Head(stdin) \in Turns /\ Tail(stdin) \in Seq(Inputs \cup {Quit})
    BY <1>1, HeadTailProperties DEF TakeLine, TypeOK, Turns
  <2>2. /\ started' \in Nat /\ runs' \subseteq Run
        /\ runCancel' \in Nat \cup {NoRun} /\ isRunning' \in BOOLEAN /\ queue' \in Seq(Turns)
    BY <1>1, <2>1, SubmitType DEF TakeLine
  <2> QED BY <1>1, <2>1, <2>2 DEF TakeLine, TypeOK
<1>2. CASE TakeQuit
  <2>1. Tail(stdin) \in Seq(Inputs \cup {Quit})
    BY <1>2, HeadTailProperties DEF TakeQuit, TypeOK
  <2> QED BY <1>2, <2>1 DEF TakeQuit, TypeOK
<1>3. CASE TakeEOF
  BY <1>3 DEF TakeEOF, TypeOK
<1>4. CASE TakeResult
  <2>1. Tail(runDone) \in Seq([outcome : Outcomes, stopped : BOOLEAN])
    BY <1>4, HeadTailProperties DEF TakeResult, TypeOK
  <2>2. CASE Head(runDone).outcome = "canceled"
    <3>1. Elements(queue) \subseteq Turns /\ <<>> \in Seq(Turns)
      BY DEF TypeOK, Elements
    <3>2. /\ isRunning' = FALSE /\ queue' = <<>> /\ dropped' = dropped \cup Elements(queue)
          /\ UNCHANGED <<started, runs, runCancel>>
      BY <1>4, <2>2 DEF TakeResult
    <3>3. isRunning' \in BOOLEAN
      BY <3>2, Zenon
    <3>4. started' \in Nat /\ runs' \subseteq Run /\ runCancel' \in Nat \cup {NoRun}
      BY <3>2 DEF TypeOK
    <3>5. queue' \in Seq(Turns) /\ dropped' \subseteq Turns
      BY <3>1, <3>2 DEF TypeOK
    <3>6. runDone' = Tail(runDone) /\ UNCHANGED <<agentVars, userVars, mainPc, exitVars>>
      BY <1>4 DEF TakeResult
    <3> QED BY <2>1, <3>3, <3>4, <3>5, <3>6 DEF TypeOK
  <2>3. CASE Head(runDone).outcome # "canceled" /\ queue # <<>>
    <3>1. Head(queue) \in Turns /\ Tail(queue) \in Seq(Turns)
      BY <2>3, HeadTailProperties DEF TypeOK
    <3>2. queue' = Tail(queue) /\ startRun(Head(queue)) /\ UNCHANGED dropped
      BY <1>4, <2>3 DEF TakeResult
    <3>3. /\ started' \in Nat /\ runs' \subseteq Run
          /\ runCancel' \in Nat \cup {NoRun} /\ isRunning' \in BOOLEAN
      BY <3>1, <3>2, startRunType
    <3> QED BY <1>4, <2>1, <3>1, <3>2, <3>3 DEF TakeResult, TypeOK
  <2>4. CASE Head(runDone).outcome # "canceled" /\ queue = <<>>
    BY <1>4, <2>1, <2>4 DEF TakeResult, TypeOK
  <2> QED BY <2>2, <2>3, <2>4
<1>5. CASE TakeSignal
  <2>1. /\ started' \in Nat /\ runs' \subseteq Run
        /\ runCancel' \in Nat \cup {NoRun} /\ isRunning' \in BOOLEAN /\ queue' \in Seq(Turns)
    BY <1>5, SubmitType DEF TakeSignal, Turns
  <2> QED BY <1>5, <2>1 DEF TakeSignal, TypeOK
<1>6. CASE LeaveLoop
  BY <1>6 DEF LeaveLoop, TypeOK
<1> QED BY <1>1, <1>2, <1>3, <1>4, <1>5, <1>6 DEF Select

LEMMA ShutdownType == TypeOK /\ Shutdown => TypeOK'
<1> SUFFICES ASSUME TypeOK, Shutdown PROVE TypeOK'
  OBVIOUS
<1>1. /\ mainPc' \in {"select", "quitting"} /\ shutdown' \in {"open", "busy", "done"}
      /\ handler' \in {"waiting", "calling", "closing", "gone"}
  BY DEF Shutdown, BeginShutdown, EndShutdown, QuitCancels, HandlerCancels, TypeOK
<1>2. ctxDone' \in BOOLEAN
  <2>1. ctxDone' = TRUE \/ ctxDone' = ctxDone
    BY Zenon DEF Shutdown, BeginShutdown, EndShutdown, QuitCancels, HandlerCancels
  <2>2. ctxDone \in BOOLEAN
    BY DEF TypeOK
  <2> QED BY <2>1, <2>2, Zenon
<1>3. UNCHANGED <<agentVars, userVars, queue, isRunning, started, runDone, dropped, target,
                  exited, runs, runCancel>>
  BY DEF Shutdown
<1> QED BY <1>1, <1>2, <1>3 DEF TypeOK, agentVars, userVars

LEMMA HandlerType == TypeOK /\ Handler => TypeOK'
<1> SUFFICES ASSUME TypeOK, Handler PROVE TypeOK'
  OBVIOUS
<1> USE DEF agentVars, loopVars
<1>1. CASE HandleSignal
  <2>1. Tail(sigCh) \in Seq({"INT", "TERM"})
    BY <1>1, HeadTailProperties DEF HandleSignal, TypeOK
  <2> QED BY <1>1, <2>1 DEF HandleSignal, Handler, TypeOK
<1>2. CASE CallCancel
  <2>1. runs' \subseteq Run
    <3>1. ASSUME NEW r \in Run, NEW b
          PROVE  [r EXCEPT !.stopped = @ \/ b] \in Run
      <4>1. (r.stopped \/ b) \in BOOLEAN
        OBVIOUS
      <4> QED BY <4>1 DEF Run
    <3>2. runs \subseteq Run
      BY DEF TypeOK
    <3> QED BY <1>2, <3>1, <3>2 DEF CallCancel
  <2> QED BY <1>2, <2>1 DEF CallCancel, Handler, TypeOK
<1> QED BY <1>1, <1>2 DEF Handler

LEMMA BecomeType ==
  ASSUME TypeOK, NEW r \in runs, NEW pc \in Pcs, NEW o \in Outcomes, Become(r, pc, o)
  PROVE  runs' \subseteq Run
<1>1. r \in Run /\ runs \subseteq Run
  BY DEF TypeOK
<1>2. [r EXCEPT !.pc = pc, !.outcome = o] \in Run
  BY <1>1 DEF Run
<1> QED BY <1>1, <1>2 DEF Become

LEMMA TurnType == TypeOK /\ Turn => TypeOK'
<1> SUFFICES ASSUME TypeOK, Turn PROVE TypeOK'
  OBVIOUS
<1> USE DEF agentVars, userVars, exitVars
<1> PICK r \in runs : Drain(r) \/ Answer(r) \/ ReturnSilently(r) \/ ClearCancel(r) \/ Deliver(r)
  BY DEF Turn
<1>a. r \in Run
  BY DEF TypeOK
<1>b. {"executing", "returned", "cleared"} \subseteq Pcs /\ {"none", "ok", "error", "canceled"} \subseteq Outcomes
  BY DEF Pcs, Outcomes
<1>1. CASE Drain(r)
  <2>1. dialogue' \in Seq(Inputs \cup Tasks \cup {Reply})
    <3> DEFINE M == Inputs \cup Tasks \cup {Reply}
    <3>1. dialogue \in Seq(M) /\ pendingNotifs \in Seq(M)
      BY SeqMonotonic DEF TypeOK
    <3>2. (IF r.input = Async THEN <<>> ELSE <<r.input>>) \in Seq(M)
      <4>1. r.input # Async => r.input \in M
        BY <1>a DEF Run, Turns
      <4>2. <<>> \in Seq(M) /\ \A x \in M : <<x>> \in Seq(M)
        BY AppendConcat, EmptySeq
      <4> QED BY <4>1, <4>2
    <3>3. dialogue \o pendingNotifs \in Seq(M)
      BY <3>1, ConcatProperties
    <3> QED BY <1>1, <3>2, <3>3, ConcatProperties DEF Drain
  <2>2. runs' \subseteq Run
    BY <1>1, <1>b, BecomeType DEF Drain
  <2>3. signal' \in BOOLEAN
    BY <1>1, Zenon DEF Drain
  <2>4. pendingNotifs' \in Seq(Tasks)
    BY <1>1, EmptySeq DEF Drain
  <2>5. dropped' \subseteq Turns /\ UNCHANGED <<task, runCancel, runDone>>
    BY <1>1 DEF Drain, TypeOK
  <2>6. UNCHANGED <<userVars, queue, isRunning, started, mainPc, exitVars>>
    BY DEF Turn
  <2> QED BY <2>1, <2>2, <2>3, <2>4, <2>5, <2>6 DEF TypeOK
<1>2. CASE Answer(r)
  <2>1. runs' \subseteq Run
    BY <1>2, <1>b, BecomeType DEF Answer
  <2>2. dialogue' \in Seq(Inputs \cup Tasks \cup {Reply})
    BY <1>2, AppendProperties DEF Answer, TypeOK
  <2> QED BY <1>2, <2>1, <2>2 DEF Answer, Turn, TypeOK
<1>3. CASE ReturnSilently(r)
  <2>1. runs' \subseteq Run
    BY <1>3, <1>b, BecomeType DEF ReturnSilently
  <2> QED BY <1>3, <2>1 DEF ReturnSilently, Turn, TypeOK
<1>4. CASE ClearCancel(r)
  <2>1. r.outcome \in Outcomes
    BY <1>a DEF Run
  <2>2. runs' \subseteq Run
    BY <1>4, <1>b, <2>1, BecomeType DEF ClearCancel
  <2> QED BY <1>4, <2>2 DEF ClearCancel, Turn, TypeOK
<1>5. CASE Deliver(r)
  <2>1. [outcome |-> r.outcome, stopped |-> r.stopped] \in [outcome : Outcomes, stopped : BOOLEAN]
    BY <1>a DEF Run
  <2>2. runDone' \in Seq([outcome : Outcomes, stopped : BOOLEAN])
    BY <1>5, <2>1, AppendProperties DEF Deliver, TypeOK
  <2> QED BY <1>5, <2>2 DEF Deliver, Turn, TypeOK
<1> QED BY <1>1, <1>2, <1>3, <1>4, <1>5

LEMMA DelegationType == TypeOK /\ Delegation => TypeOK'
  BY DEF Delegation, Delegate, TypeOK, userVars, exitVars

LEMMA ChildType == TypeOK /\ (\E t \in Tasks : Child(t)) => TypeOK'
<1> SUFFICES ASSUME TypeOK, NEW t \in Tasks, Child(t) PROVE TypeOK'
  OBVIOUS
<1> USE DEF userVars, loopVars, exitVars
<1>1. CASE AppendNotif(t)
  <2>1. Append(pendingNotifs, t) \in Seq(Tasks)
    BY AppendProperties DEF TypeOK
  <2> QED BY <1>1, <2>1 DEF Child, AppendNotif, TypeOK
<1>2. CASE SignalNotif(t)
  BY <1>2 DEF Child, SignalNotif, TypeOK
<1> QED BY <1>1, <1>2 DEF Child

LEMMA NextType == TypeOK /\ [Next]_vars => TypeOK'
<1> SUFFICES ASSUME TypeOK, [Next]_vars PROVE TypeOK'
  OBVIOUS
<1>1. CASE UNCHANGED vars
  BY <1>1 DEF vars, agentVars, userVars, loopVars, exitVars, TypeOK
<1> QED BY <1>1, UserType, SelectType, ShutdownType, HandlerType, TurnType, DelegationType,
           ChildType DEF Next

(* Every variable keeps its type: in particular only typed lines, finished *)
(* children's notifications and answers enter the conversation, and no     *)
(* command is ever handed to the agent as a line.                          *)
THEOREM SessionTypeOK == Spec => []TypeOK
<1>1. TypeOK /\ [Next]_vars => TypeOK'
  BY NextType
<1> QED BY InitType, <1>1, PTL DEF Spec

----------------------------------------------------------------------------
(* Notifications.                                                           *)

\* What happens outside a turn's first step and the children leaves the list,
\* the conversation and the children alone.
LEMMA ConservedFrame ==
  ASSUME NotificationConserved, UNCHANGED <<task, pendingNotifs, dialogue>>
  PROVE  NotificationConserved'
  BY DEF NotificationConserved, Elements, Once

\* A message that is not a notification does not matter either.
LEMMA ConservedAnswer ==
  ASSUME TypeOK, NotificationConserved, NEW m \in Inputs \cup {Reply},
         dialogue' = Append(dialogue, m), UNCHANGED <<task, pendingNotifs>>
  PROVE  NotificationConserved'
<1> DEFINE M == Inputs \cup Tasks \cup {Reply}
<1>1. dialogue \in Seq(M) /\ m \in M
  BY DEF TypeOK
<1>2. dialogue' = dialogue \o <<m>> /\ <<m>> \in Seq(M)
  BY <1>1, AppendConcat
<1>3. Elements(dialogue') = Elements(dialogue) \cup {m}
  <2>1. Elements(dialogue \o <<m>>) = Elements(dialogue) \cup Elements(<<m>>)
    BY <1>1, <1>2, ConcatElements
  <2> QED BY <1>2, <2>1, OneElement
<1>4. ASSUME NEW t \in Tasks
      PROVE  m # t /\ (Once(t, dialogue) => Once(t, dialogue'))
  <2>1. m # t
    BY SessionAssumption DEF SessionAssumption
  <2>2. ~(t \in Elements(dialogue) /\ t \in Elements(<<m>>)) /\ Once(t, <<m>>)
    BY <2>1, OneElement
  <2>3. Once(t, dialogue) => Once(t, dialogue \o <<m>>)
    BY <1>1, <1>2, <2>2, ConcatOnce
  <2> QED BY <1>2, <2>1, <2>3
<1> QED BY <1>3, <1>4 DEF NotificationConserved

LEMMA ConservedAppendNotif ==
  ASSUME TypeOK, NotificationConserved, NEW t \in Tasks, AppendNotif(t), UNCHANGED dialogue
  PROVE  NotificationConserved'
<1>1. pendingNotifs \in Seq(Tasks) /\ task \in [Tasks -> {"unstarted", "running", "appended", "signalled"}]
  BY DEF TypeOK
<1>2. pendingNotifs' = pendingNotifs \o <<t>> /\ <<t>> \in Seq(Tasks)
  BY <1>1, AppendConcat DEF AppendNotif
<1>3. Elements(pendingNotifs') = Elements(pendingNotifs) \cup {t}
  <2>0. \A s1, s2 \in Seq(Tasks) : Elements(s1 \o s2) = Elements(s1) \cup Elements(s2)
    BY ConcatElements
  <2>1. Elements(pendingNotifs \o <<t>>) = Elements(pendingNotifs) \cup Elements(<<t>>)
    BY <1>1, <1>2, <2>0
  <2> QED BY <1>2, <2>1, OneElement
<1>4. t \notin Elements(pendingNotifs) /\ t \notin Elements(dialogue)
  BY DEF AppendNotif, NotificationConserved
<1>5. ASSUME NEW u \in Tasks PROVE Once(u, pendingNotifs')
  <2>1. Once(u, pendingNotifs) /\ Once(u, <<t>>)
    BY OneElement DEF NotificationConserved
  <2>2. ~(u \in Elements(pendingNotifs) /\ u \in Elements(<<t>>))
    BY <1>4, OneElement
  <2> QED BY <1>1, <1>2, <2>1, <2>2, ConcatOnce
<1>6. ASSUME NEW u \in Tasks
      PROVE  task'[u] \in {"appended", "signalled"} <=> u = t \/ task[u] \in {"appended", "signalled"}
  BY <1>1 DEF AppendNotif
<1> QED BY <1>3, <1>4, <1>5, <1>6 DEF NotificationConserved

LEMMA ConservedSignalNotif ==
  ASSUME TypeOK, NotificationConserved, NEW t \in Tasks, SignalNotif(t), UNCHANGED dialogue
  PROVE  NotificationConserved'
<1>1. \A u \in Tasks : task'[u] \in {"appended", "signalled"} <=> task[u] \in {"appended", "signalled"}
  BY DEF SignalNotif, TypeOK
<1>2. UNCHANGED <<pendingNotifs, dialogue>>
  BY DEF SignalNotif
<1> QED BY <1>1, <1>2 DEF NotificationConserved, Elements, Once

\* The drain moves the whole list.
LEMMA ConservedDrain ==
  ASSUME TypeOK, NotificationConserved, NEW r \in runs, Drain(r)
  PROVE  NotificationConserved'
<1> DEFINE M    == Inputs \cup Tasks \cup {Reply}
           said == IF r.input = Async THEN <<>> ELSE <<r.input>>
           both == dialogue \o pendingNotifs
<1>1. dialogue \in Seq(M) /\ pendingNotifs \in Seq(M)
  BY SeqMonotonic DEF TypeOK
<1>2. both \in Seq(M) /\ Elements(both) = Elements(dialogue) \cup Elements(pendingNotifs)
  BY <1>1, ConcatProperties, ConcatElements
<1>3. /\ said \in Seq(M) /\ Elements(said) \subseteq Inputs
      /\ \A t \in Tasks : Once(t, said)
  <2>1. CASE r.input = Async
    BY <2>1, EmptySeq, NoElement
  <2>2. CASE r.input # Async
    <3>1. r.input \in Inputs
      BY <2>2 DEF TypeOK, Run, Turns
    <3>2. <<r.input>> \in Seq(M)
      BY <3>1, AppendConcat, <1>1
    <3> QED BY <2>2, <3>1, <3>2, OneElement
  <2> QED BY <2>1, <2>2
<1>4. dialogue' = both \o said
  BY DEF Drain
<1>5. Elements(dialogue') = Elements(both) \cup Elements(said)
  <2>0. \A s1, s2 \in Seq(M) : Elements(s1 \o s2) = Elements(s1) \cup Elements(s2)
    BY ConcatElements
  <2> HIDE DEF both, said, M
  <2>1. Elements(both \o said) = Elements(both) \cup Elements(said)
    BY <1>2, <1>3, <2>0
  <2> QED BY <1>4, <2>1
<1>6. pendingNotifs' = <<>> /\ task' = task
  BY DEF Drain
<1>7. ASSUME NEW t \in Tasks
      PROVE  /\ t \in Elements(dialogue') <=> t \in Elements(dialogue) \/ t \in Elements(pendingNotifs)
             /\ t \notin Elements(pendingNotifs')
             /\ Once(t, dialogue') /\ Once(t, pendingNotifs')
  <2>1. t \notin Elements(said)
    BY <1>3, SessionAssumption DEF SessionAssumption
  <2>2. /\ Once(t, dialogue) /\ Once(t, pendingNotifs)
        /\ ~(t \in Elements(dialogue) /\ t \in Elements(pendingNotifs))
    BY DEF NotificationConserved
  <2>3. Once(t, both)
    BY <1>1, <2>2, ConcatOnce
  <2>4. Once(t, dialogue')
    BY <1>2, <1>3, <1>4, <2>1, <2>3, ConcatOnce
  <2> QED BY <1>2, <1>5, <1>6, <2>1, <2>4, NoElement
<1> QED BY <1>6, <1>7 DEF NotificationConserved

LEMMA ConservedDelegate ==
  ASSUME TypeOK, NotificationConserved, NEW r \in runs, NEW t \in Tasks, Delegate(r, t)
  PROVE  NotificationConserved'
<1>1. \A u \in Tasks : task'[u] \in {"appended", "signalled"} <=> task[u] \in {"appended", "signalled"}
  BY DEF Delegate, TypeOK
<1>2. UNCHANGED <<pendingNotifs, dialogue>>
  BY DEF Delegate
<1> QED BY <1>1, <1>2 DEF NotificationConserved, Elements, Once

LEMMA NextConserved == TypeOK /\ NotificationConserved /\ [Next]_vars => NotificationConserved'
<1> SUFFICES ASSUME TypeOK, NotificationConserved, [Next]_vars PROVE NotificationConserved'
  OBVIOUS
<1> USE DEF agentVars
<1>1. CASE User
  BY <1>1, ConservedFrame DEF User
<1>2. CASE Select
  <2>1. UNCHANGED <<task, pendingNotifs, dialogue>>
    BY <1>2 DEF Select, TakeLine, TakeQuit, TakeEOF, TakeResult, TakeSignal, LeaveLoop
  <2> QED BY <2>1, ConservedFrame
<1>3. CASE Shutdown
  BY <1>3, ConservedFrame DEF Shutdown
<1>4. CASE Handler
  BY <1>4, ConservedFrame DEF Handler
<1>5. CASE Turn
  <2> PICK r \in runs : Drain(r) \/ Answer(r) \/ ReturnSilently(r) \/ ClearCancel(r) \/ Deliver(r)
    BY <1>5 DEF Turn
  <2>1. CASE Drain(r)
    BY <2>1, ConservedDrain
  <2>2. CASE Answer(r)
    BY <2>2, ConservedAnswer DEF Answer
  <2>3. CASE ReturnSilently(r) \/ ClearCancel(r) \/ Deliver(r)
    BY <2>3, ConservedFrame DEF ReturnSilently, ClearCancel, Deliver
  <2> QED BY <2>1, <2>2, <2>3
<1>6. CASE Delegation
  BY <1>6, ConservedDelegate DEF Delegation
<1>7. CASE \E t \in Tasks : Child(t)
  BY <1>7, ConservedAppendNotif, ConservedSignalNotif DEF Child
<1>8. CASE UNCHANGED vars
  BY <1>8, ConservedFrame DEF vars
<1> QED BY <1>1, <1>2, <1>3, <1>4, <1>5, <1>6, <1>7, <1>8 DEF Next

LEMMA InitConserved == Init => NotificationConserved
  BY NoElement DEF Init, NotificationConserved

(* No notification is lost or doubled between AddNotification and the Run  *)
(* that takes it in, however many children and turns interleave.               *)
THEOREM SessionNotificationConserved == Spec => []NotificationConserved
<1>1. TypeOK /\ NotificationConserved /\ [Next]_vars => TypeOK' /\ NotificationConserved'
  BY NextType, NextConserved
<1> QED BY InitType, InitConserved, <1>1, PTL DEF Spec

----------------------------------------------------------------------------
(* The wake-up.                                                             *)

WakesUp == \/ signal
           \/ \E t \in Tasks : task[t] = "appended"
           \/ Async \in Elements(queue)
           \/ \E r \in runs : r.pc = "starting"

\* A turn that starts is a wake-up, and a turn for notifications that waits.
LEMMA startRunWakes ==
  ASSUME NEW turn, startRun(turn)
  PROVE  \E r \in runs' : r.pc = "starting"
<1> DEFINE r == [id |-> started + 1, input |-> turn, pc |-> "starting",
                 outcome |-> "none", stopped |-> FALSE]
<1>1. r \in runs' /\ r.pc = "starting"
  BY DEF startRun
<1> QED BY <1>1

\* Queueing a turn leaves the other wake-ups as they are.
LEMMA SubmitWakes ==
  ASSUME TypeOK, NEW turn \in Turns, Submit(turn), turn = Async \/ WakesUp, UNCHANGED task,
         turn = Async \/ UNCHANGED signal
  PROVE  WakesUp'
<1>1. CASE ~isRunning /\ startRun(turn)
  BY <1>1, startRunWakes DEF WakesUp
<1>2. CASE isRunning /\ queue' = Append(queue, turn) /\ UNCHANGED runs
  <2>1. queue \in Seq(Turns)
    BY DEF TypeOK
  <2>2. queue' = queue \o <<turn>> /\ <<turn>> \in Seq(Turns)
    BY <1>2, <2>1, AppendConcat
  <2>3. Elements(queue \o <<turn>>) = Elements(queue) \cup Elements(<<turn>>)
    <3>1. \A s1, s2 \in Seq(Turns) : Elements(s1 \o s2) = Elements(s1) \cup Elements(s2)
      BY ConcatElements
    <3> QED BY <2>1, <2>2, <3>1
  <2>4. Elements(queue') = Elements(queue) \cup {turn}
    BY <2>2, <2>3, OneElement
  <2> QED BY <1>2, <2>4 DEF WakesUp
<1> QED BY <1>1, <1>2 DEF Submit

LEMMA WakeUpFrame ==
  ASSUME WakeUpPending, UNCHANGED <<task, pendingNotifs, signal, queue, runs, dropped>>
  PROVE  WakeUpPending'
  BY DEF WakeUpPending

LEMMA WakeUpSelect ==
  ASSUME TypeOK, WakeUpPending, Select
  PROVE  WakeUpPending'
<1> USE DEF agentVars, userVars, loopVars, exitVars
<1>1. CASE TakeLine
  <2>1. Head(stdin) \in Turns /\ Submit(Head(stdin)) /\ UNCHANGED <<task, pendingNotifs, signal, dropped>>
    BY <1>1, HeadTailProperties DEF TakeLine, TypeOK, Turns
  <2>2. WakesUp => WakesUp'
    BY <2>1, SubmitWakes
  <2> QED BY <2>1, <2>2 DEF WakeUpPending, WakesUp
<1>2. CASE TakeQuit
  BY <1>2, WakeUpFrame DEF TakeQuit
<1>3. CASE TakeEOF
  BY <1>3, WakeUpFrame DEF TakeEOF
<1>4. CASE TakeResult
  <2>1. UNCHANGED <<task, pendingNotifs, signal>>
    BY <1>4 DEF TakeResult
  <2>2. CASE Head(runDone).outcome = "canceled"
    <3>1. dropped' = dropped \cup Elements(queue) /\ UNCHANGED runs
      BY <1>4, <2>2 DEF TakeResult
    <3> QED BY <2>1, <3>1 DEF WakeUpPending
  <2>3. CASE Head(runDone).outcome # "canceled" /\ queue # <<>>
    <3>1. startRun(Head(queue))
      BY <1>4, <2>3 DEF TakeResult
    <3> QED BY <3>1, startRunWakes DEF WakeUpPending
  <2>4. CASE Head(runDone).outcome # "canceled" /\ queue = <<>>
    BY <1>4, <2>1, <2>4, WakeUpFrame DEF TakeResult
  <2> QED BY <2>2, <2>3, <2>4
<1>5. CASE TakeSignal
  <2>1. Submit(Async) /\ UNCHANGED task
    BY <1>5 DEF TakeSignal
  <2>2. WakesUp'
    BY <2>1, SubmitWakes DEF Turns
  <2> QED BY <2>2 DEF WakeUpPending, WakesUp
<1>6. CASE LeaveLoop
  BY <1>6, WakeUpFrame DEF LeaveLoop
<1> QED BY <1>1, <1>2, <1>3, <1>4, <1>5, <1>6 DEF Select

\* A turn that has started leaves the turns about to start alone.
LEMMA BecomeWakes ==
  ASSUME WakesUp, NEW r \in runs, r.pc # "starting", NEW pc, NEW o,
         Become(r, pc, o) \/ runs' = runs \ {r},
         UNCHANGED <<task, signal, queue>>
  PROVE  WakesUp'
<1>1. ASSUME NEW q \in runs, q.pc = "starting" PROVE q \in runs'
  BY <1>1 DEF Become
<1> QED BY <1>1 DEF WakesUp

LEMMA WakeUpTurn ==
  ASSUME TypeOK, WakeUpPending, Turn
  PROVE  WakeUpPending'
<1> USE DEF agentVars
<1> PICK r \in runs : Drain(r) \/ Answer(r) \/ ReturnSilently(r) \/ ClearCancel(r) \/ Deliver(r)
  BY DEF Turn
<1>1. CASE Drain(r)
  BY <1>1 DEF Drain, WakeUpPending
<1>2. CASE Answer(r) \/ ReturnSilently(r) \/ ClearCancel(r) \/ Deliver(r)
  <2>1. UNCHANGED <<task, pendingNotifs, signal, dropped>> /\ UNCHANGED queue
    BY <1>2 DEF Answer, ReturnSilently, ClearCancel, Deliver, Turn
  <2>2. r.pc # "starting"
    BY <1>2 DEF Answer, ReturnSilently, ClearCancel, Deliver
  <2>3. (\E pc, o : Become(r, pc, o)) \/ runs' = runs \ {r}
    BY <1>2 DEF Answer, ReturnSilently, ClearCancel, Deliver
  <2>4. WakesUp => WakesUp'
    BY <2>1, <2>2, <2>3, BecomeWakes
  <2> QED BY <2>1, <2>4 DEF WakeUpPending, WakesUp
<1> QED BY <1>1, <1>2

LEMMA WakeUpHandler ==
  ASSUME WakeUpPending, Handler
  PROVE  WakeUpPending'
<1>1. UNCHANGED <<task, pendingNotifs, signal, queue, dropped>>
  BY DEF Handler, agentVars, loopVars
<1>2. CASE HandleSignal
  BY <1>1, <1>2, WakeUpFrame DEF HandleSignal
<1>3. CASE CallCancel
  <2>1. ASSUME NEW r \in runs, r.pc = "starting"
        PROVE  \E q \in runs' : q.pc = "starting"
    <3> DEFINE q == [r EXCEPT !.stopped = @ \/ (r.id = target /\ r.pc \in {"starting", "executing"})]
    <3>1. q \in runs'
      BY <1>3 DEF CallCancel
    <3>2. q.pc = r.pc
      OBVIOUS
    <3> QED BY <2>1, <3>1, <3>2
  <2> QED BY <1>1, <2>1 DEF WakeUpPending
<1> QED BY <1>2, <1>3 DEF Handler

LEMMA NextWakeUp == TypeOK /\ WakeUpPending /\ [Next]_vars => WakeUpPending'
<1> SUFFICES ASSUME TypeOK, WakeUpPending, [Next]_vars PROVE WakeUpPending'
  OBVIOUS
<1> USE DEF agentVars, loopVars
<1>1. CASE User
  BY <1>1, WakeUpFrame DEF User
<1>2. CASE Shutdown
  BY <1>2, WakeUpFrame DEF Shutdown
<1>3. CASE Delegation
  <2>1. PICK r \in runs, t \in Tasks : Delegate(r, t)
    BY <1>3 DEF Delegation
  <2>2. UNCHANGED <<pendingNotifs, signal, dropped, runs, queue>>
    BY <1>3, <2>1 DEF Delegate, Delegation
  <2>3. \A u \in Tasks : task[u] = "appended" => task'[u] = "appended"
    BY <2>1 DEF Delegate, TypeOK
  <2> QED BY <2>2, <2>3 DEF WakeUpPending
<1>4. CASE \E t \in Tasks : Child(t)
  <2>1. PICK t \in Tasks : Child(t)
    BY <1>4
  <2>2. CASE AppendNotif(t)
    <3>1. task'[t] = "appended"
      BY <2>2 DEF AppendNotif, TypeOK
    <3> QED BY <3>1 DEF WakeUpPending
  <2>3. CASE SignalNotif(t)
    <3>1. signal' = TRUE
      BY <2>3 DEF SignalNotif
    <3> QED BY <3>1 DEF WakeUpPending
  <2> QED BY <2>1, <2>2, <2>3 DEF Child
<1>5. CASE UNCHANGED vars
  BY <1>5, WakeUpFrame DEF vars
<1> QED BY <1>1, <1>2, <1>3, <1>4, <1>5, WakeUpSelect, WakeUpTurn, WakeUpHandler DEF Next

(* No wake-up is lost: while a notification waits in the agent's list, a   *)
(* signal, a child about to signal, a queued turn or a turn about to drain *)
(* the list is there to fetch it - except after an interrupted turn has    *)
(* taken the queued turn with it.                                          *)
THEOREM SessionWakeUpPending == Spec => []WakeUpPending
<1>1. Init => WakeUpPending
  BY DEF Init, WakeUpPending
<1>2. TypeOK /\ WakeUpPending /\ [Next]_vars => TypeOK' /\ WakeUpPending'
  BY NextType, NextWakeUp
<1> QED BY InitType, <1>1, <1>2, PTL DEF Spec
=============================================================================
