--------------------------- MODULE McpStdioProofs ---------------------------
(***************************************************************************)
(* The stdio transport for any number of tool handlers, calls and lines:   *)
(* the pending map holds only calls under way, no call waits in vain,      *)
(* readLoop never sends to a closed channel, the breaker opens in time and *)
(* the subprocess is cancelled with its server.  The invariant that        *)
(* carries the first three relates the places where a request may be, the  *)
(* pending map, readLoop's hand and its channel.                           *)
(***************************************************************************)
EXTENDS McpStdio, FiniteSetTheorems, TLAPS

----------------------------------------------------------------------------
(* The type invariant, part by part.                                        *)

LEMMA CallFrame == CallType /\ UNCHANGED callVars => CallType'
  BY DEF CallType, callVars
LEMMA TransportFrame == TransportType /\ UNCHANGED transportVars => TransportType'
<1> SUFFICES ASSUME TransportType, UNCHANGED transportVars PROVE TransportType'
  OBVIOUS
<1>1. /\ pending' = pending /\ closed' = closed /\ closeCh' = closeCh
      /\ reader' = reader /\ holding' = holding /\ closing' = closing
  BY DEF transportVars
<1> QED BY <1>1, Zenon DEF TransportType
LEMMA ServerFrame == ServerType /\ UNCHANGED serverVars => ServerType'
<1> SUFFICES ASSUME ServerType, UNCHANGED serverVars PROVE ServerType'
  OBVIOUS
<1>1. /\ state' = state /\ ctxDone' = ctxDone /\ registered' = registered
      /\ errorCounts' = errorCounts
  BY DEF serverVars
<1> QED BY <1>1, Zenon DEF ServerType
LEMMA ProcFrame == ProcType /\ UNCHANGED procVars => ProcType'
<1> SUFFICES ASSUME ProcType, UNCHANGED procVars PROVE ProcType'
  OBVIOUS
<1>1. /\ proc' = proc /\ stdoutOpen' = stdoutOpen /\ stdout' = stdout /\ received' = received
  BY DEF procVars
<1> QED BY <1>1, Zenon DEF ProcType

LEMMA InitType == Init => TypeOK
<1> SUFFICES ASSUME Init PROVE TypeOK
  OBVIOUS
<1>1. CallType
  BY DEF Init, CallType, Places
<1>2. TransportType
  BY Zenon DEF Init, TransportType
<1>3. ServerType
  <2>1. ctxDone \in BOOLEAN /\ registered \in BOOLEAN
    BY Zenon DEF Init
  <2>2. state = "disconnected" /\ errorCounts = 0
    BY DEF Init
  <2> QED BY <2>1, <2>2 DEF ServerType
<1>4. ProcType
  <2>1. stdoutOpen \in BOOLEAN
    BY Zenon DEF Init
  <2>2. proc = "none" /\ stdout = <<>> /\ received = {}
    BY DEF Init
  <2> QED BY <2>1, <2>2 DEF ProcType
<1> QED BY <1>1, <1>2, <1>3, <1>4 DEF TypeOK

LEMMA EnterType == ASSUME CallType, NEW S, Enter(S), UNCHANGED chan PROVE CallType'
<1>1. \A c \in Callers : pc[c] \in Places /\ "entered" \in Places
  BY DEF CallType, Places
<1>2. \A c \in Callers : number[c] \in Nat /\ number[c] + 1 \in Nat
  BY DEF CallType
<1>3. pc' \in [Callers -> Places]
  BY <1>1, Zenon DEF Enter
<1>4. number' \in [Callers -> Nat]
  BY <1>2, Zenon DEF Enter
<1> QED BY <1>3, <1>4 DEF CallType

LEMMA GoType ==
  ASSUME CallType, NEW c \in Callers, NEW place \in Places, Go(c, place), UNCHANGED chan
  PROVE  CallType'
  BY DEF Go, CallType

LEMMA ReturnType ==
  ASSUME CallType, NEW c \in Callers, NEW place \in Places, Return(c, place)
  PROVE  CallType'
  BY DEF Go, Return, CallType

\* The transport when only the map of pending requests changes.
LEMMA PendingType ==
  ASSUME TransportType, pending' \subseteq Requests,
         UNCHANGED <<closed, closeCh, reader, holding, closing>>
  PROVE  TransportType'
<1>1. /\ closed' = closed /\ closeCh' = closeCh
      /\ reader' = reader /\ holding' = holding /\ closing' = closing
  OBVIOUS
<1> QED BY <1>1, Zenon DEF TransportType

LEMMA ProceedType == ASSUME TypeOK, NEW c \in Callers, Proceed(c) PROVE TypeOK'
<1>1. /\ CallType /\ TransportType /\ ServerType /\ ProcType
      /\ Request(c) \in Requests /\ pending \subseteq Requests /\ received \subseteq Requests
  BY DEF TypeOK, Request, Requests, CallType, TransportType, ProcType
<1>2. CallType' /\ pending' \subseteq Requests /\ received' \subseteq Requests
  <2>0. {"failed", "answered"} \subseteq Places
    BY DEF Places
  <2>1. CASE Write(c)
    <3>1. CallType'
      BY <1>1, <2>1 DEF Write, CallType, Places
    <3> QED BY <1>1, <2>1, <3>1 DEF Write
  <2>2. CASE Refuse(c) /\ UNCHANGED received
    BY <1>1, <2>0, <2>2, ReturnType DEF Refuse
  <2>3. CASE Register(c) /\ UNCHANGED received
    <3>1. CallType'
      BY <1>1, <2>3 DEF Register, CallType, Places
    <3> QED BY <1>1, <2>3, <3>1 DEF Register
  <2>4. CASE WriteFails(c) /\ UNCHANGED received
    BY <1>1, <2>0, <2>4, ReturnType DEF WriteFails
  <2>5. CASE TakeAnswer(c) /\ UNCHANGED received
    BY <1>1, <2>0, <2>5, ReturnType DEF TakeAnswer
  <2>6. CASE SeeClosed(c) /\ UNCHANGED received
    BY <1>1, <2>0, <2>6, ReturnType DEF SeeClosed
  <2> QED BY <2>1, <2>2, <2>3, <2>4, <2>5, <2>6 DEF Proceed
<1>3. UNCHANGED serverVars /\ UNCHANGED <<closed, closeCh, reader, holding, closing>>
      /\ proc' = proc /\ stdoutOpen' = stdoutOpen /\ stdout' = stdout
  BY DEF Proceed
<1>4. ProcType'
  BY <1>1, <1>2, <1>3, Zenon DEF ProcType
<1> QED BY <1>1, <1>2, <1>3, <1>4, ServerFrame, PendingType DEF TypeOK

LEMMA GiveUpType == ASSUME TypeOK, NEW c \in Callers, GiveUp(c) PROVE TypeOK'
<1>1. /\ CallType /\ TransportType /\ ServerType /\ ProcType /\ pending \subseteq Requests
  BY DEF TypeOK, TransportType
<1>2. CallType' /\ pending' \subseteq Requests
  BY <1>1, ReturnType DEF GiveUp, Timeout, Places
<1>3. UNCHANGED <<closed, closeCh, reader, holding, closing>> /\ UNCHANGED serverVars
      /\ UNCHANGED procVars
  BY DEF GiveUp
<1> QED BY <1>1, <1>2, <1>3, ServerFrame, PendingType, ProcFrame DEF TypeOK

LEMMA HandlerType ==
  ASSUME TypeOK, NEW w \in Workers, Handle(w) \/ Lookup(w) \/ Count(w)
  PROVE  TypeOK'
<1>1. /\ CallType /\ TransportType /\ ServerType /\ ProcType /\ w \in Callers
      /\ {"admitted", "idle", "failed"} \subseteq Places
  BY DEF Callers, TypeOK, Places
<1>2. /\ UNCHANGED transportVars /\ UNCHANGED procVars /\ UNCHANGED chan
      /\ state' = state /\ ctxDone' = ctxDone /\ registered' = registered
  BY DEF Handle, Lookup, Count, serverVars
<1>3. CallType'
  <2>1. CASE Handle(w)
    BY <1>1, <1>2, <2>1, GoType DEF Handle
  <2>2. CASE Lookup(w)
    BY <1>1, <1>2, <2>2, GoType, EnterType DEF Lookup
  <2>3. CASE Count(w)
    BY <1>1, <1>2, <2>3, GoType DEF Count
  <2> QED BY <2>1, <2>2, <2>3
<1>4. ServerType'
  <2>1. errorCounts \in Nat
    BY <1>1 DEF ServerType
  <2>2. errorCounts' \in {errorCounts, errorCounts + 1, 0}
    BY DEF Handle, Lookup, Count, serverVars
  <2>3. errorCounts' \in Nat
    BY <2>1, <2>2
  <2> QED BY <1>1, <1>2, <2>3, Zenon DEF ServerType
<1> QED BY <1>1, <1>2, <1>3, <1>4, TransportFrame, ProcFrame DEF TypeOK

LEMMA ReleaseType ==
  ASSUME CallType, ReleaseAll, UNCHANGED <<pc, number>>
  PROVE  CallType' /\ pending' = {}
<1>1. \A c \in Callers : /\ chan[c] \in {"none", "open", "answered", "closed"}
                         /\ "closed" \in {"none", "open", "answered", "closed"}
  BY DEF CallType
<1>2. chan' \in [Callers -> {"none", "open", "answered", "closed"}]
  BY <1>1, Zenon DEF ReleaseAll
<1> QED BY <1>2 DEF ReleaseAll, CallType

LEMMA ReadLoopType == ASSUME TypeOK, ReadLoop PROVE TypeOK'
<1>1. CallType /\ TransportType /\ ServerType /\ ProcType
  BY DEF TypeOK
<1>2. /\ UNCHANGED serverVars /\ pc' = pc /\ number' = number /\ closeCh' = closeCh
      /\ closing' = closing /\ proc' = proc /\ stdoutOpen' = stdoutOpen /\ received' = received
  BY DEF ReadLoop
<1>3. CASE Match
  <2>1. chan' = chan /\ closed' = closed /\ reader' = reader
    BY <1>3 DEF Match
  <2>2. pending' \subseteq Requests /\ holding' \subseteq Requests
    BY <1>1, <1>3 DEF Match, TransportType
  <2>3. stdout' \in Seq(Requests)
    <3>1. stdout \in Seq(Requests) /\ stdout # <<>> /\ stdout' = Tail(stdout)
      BY <1>1, <1>3 DEF Match, ProcType
    <3> QED BY <3>1
  <2>4. CallType'
    BY <1>1, <1>2, <2>1, CallFrame DEF callVars
  <2>5. TransportType'
    BY <1>1, <1>2, <2>1, <2>2, Zenon DEF TransportType
  <2>6. ProcType'
    BY <1>1, <1>2, <2>3, Zenon DEF ProcType
  <2> QED BY <1>1, <1>2, <2>4, <2>5, <2>6, ServerFrame DEF TypeOK
<1>4. CASE Deliver
  <2>1. pending' = pending /\ closed' = closed /\ stdout' = stdout /\ reader' = reader /\ holding' = {}
    BY <1>4 DEF Deliver
  <2>2. CallType'
    BY <1>1, <1>2, <1>4 DEF Deliver, CallType
  <2>3. TransportType'
    BY <1>1, <1>2, <2>1, Zenon DEF TransportType
  <2>4. ProcType'
    BY <1>1, <1>2, <2>1, Zenon DEF ProcType
  <2> QED BY <1>1, <1>2, <2>2, <2>3, <2>4, ServerFrame DEF TypeOK
<1>5. CASE ReaderStops
  <2>1. CallType' /\ pending' = {}
    BY <1>1, <1>2, <1>5, ReleaseType DEF ReaderStops
  <2>2. closed' \in BOOLEAN
    BY <1>5, Zenon DEF ReaderStops
  <2>3. reader' = "gone" /\ stdout' = <<>> /\ holding' = holding
    BY <1>5 DEF ReaderStops
  <2>4. TransportType'
    BY <1>1, <1>2, <2>1, <2>2, <2>3, Zenon DEF TransportType
  <2>5. ProcType'
    <3>1. stdout' \in Seq(Requests)
      BY <2>3
    <3> QED BY <1>1, <1>2, <3>1, Zenon DEF ProcType
  <2> QED BY <1>1, <1>2, <2>1, <2>4, <2>5, ServerFrame DEF TypeOK
<1> QED BY <1>3, <1>4, <1>5 DEF ReadLoop

LEMMA CloseType ==
  ASSUME TypeOK, CloseMark \/ CloseKill
  PROVE  TypeOK'
<1>1. CallType /\ TransportType /\ ServerType /\ ProcType
  BY DEF TypeOK
<1>2. UNCHANGED serverVars /\ pc' = pc /\ number' = number /\ reader' = reader /\ holding' = holding
      /\ stdout' = stdout
  BY DEF CloseMark, CloseKill, callVars, procVars
<1>3. CASE CloseMark
  <2>1. UNCHANGED procVars
    BY <1>3 DEF CloseMark
  <2>2. CASE closed /\ closing' = "done" /\ UNCHANGED <<chan, pending, closed, closeCh>>
    <3>1. chan' = chan /\ pending' = pending /\ closed' = closed /\ closeCh' = closeCh
      BY <2>2
    <3>2. TransportType'
      BY <1>1, <1>2, <2>2, <3>1, Zenon DEF TransportType
    <3> QED BY <1>1, <1>2, <2>1, <3>1, <3>2, CallFrame, ServerFrame, ProcFrame DEF TypeOK, callVars
  <2>3. CASE ~closed /\ closing' = "marked" /\ closed' = TRUE /\ closeCh' = TRUE /\ ReleaseAll
    <3>1. CallType' /\ pending' = {}
      BY <1>1, <1>2, <2>3, ReleaseType
    <3>2. closed' \in BOOLEAN /\ closeCh' \in BOOLEAN
      BY <2>3, Zenon
    <3>3. closing' = "marked"
      BY <2>3
    <3>4. TransportType'
      BY <1>1, <1>2, <3>1, <3>2, <3>3, Zenon DEF TransportType
    <3> QED BY <1>1, <1>2, <2>1, <3>1, <3>4, ServerFrame, ProcFrame DEF TypeOK
  <2> QED BY <1>3, <2>2, <2>3, Zenon DEF CloseMark
<1>4. CASE CloseKill
  <2>1. /\ UNCHANGED callVars /\ pending' = pending /\ closed' = closed /\ closeCh' = closeCh
        /\ closing' = "done" /\ received' = {}
    BY <1>4 DEF CloseKill
  <2>2. TransportType'
    BY <1>1, <1>2, <2>1, Zenon DEF TransportType
  <2>3. stdoutOpen' \in BOOLEAN
    BY <1>4, Zenon DEF CloseKill
  <2>4. proc' \in {"none", "running", "exited", "killed"}
    BY <1>1, <1>4 DEF CloseKill, ProcType
  <2>5. ProcType'
    BY <1>1, <1>2, <2>1, <2>3, <2>4, Zenon DEF ProcType
  <2> QED BY <1>1, <1>2, <2>1, <2>2, <2>5, CallFrame, ServerFrame DEF TypeOK
<1> QED BY <1>3, <1>4

\* Connect, Shutdown and the deadline change the server's state, and one or
\* two callers or the progress of Close with it.
LEMMA ServerStepType ==
  ASSUME TypeOK, CallType', TransportType', ProcType',
         state' \in {"disconnected", "connecting", "ready", "shutting down", "error"},
         ctxDone' \in BOOLEAN, registered' \in BOOLEAN, errorCounts' \in Nat
  PROVE  TypeOK'
  BY DEF TypeOK, ServerType

LEMMA ConnectType ==
  ASSUME TypeOK, Initialized \/ Discovered \/ ConnectReturns \/ ConnectFails \/ FailureReturns
                   \/ Stopped \/ Forget \/ NotifyEnds \/ Deadline \/ Shutdown
  PROVE  TypeOK'
<1>1. /\ CallType /\ TransportType /\ ServerType /\ ProcType
      /\ connect \in Callers /\ notify \in Callers /\ "idle" \in Places
  BY DEF TypeOK, Callers, Places
<1>2. ProcType'
  <2>1. UNCHANGED procVars
    BY DEF Initialized, Discovered, ConnectReturns, ConnectFails, FailureReturns, Stopped,
           Forget, NotifyEnds, Deadline, Shutdown
  <2> QED BY <1>1, <2>1, ProcFrame
<1>3. CallType'
  <2>1. CASE UNCHANGED callVars
    BY <1>1, <2>1, CallFrame
  <2>2. CASE (Go(connect, "idle") \/ Go(notify, "idle")) /\ UNCHANGED chan
    BY <1>1, <2>2, GoType
  <2>3. CASE Enter({connect, notify}) /\ UNCHANGED chan
    BY <1>1, <2>3, EnterType
  <2> QED BY <2>1, <2>2, <2>3 DEF Initialized, Discovered, ConnectReturns, ConnectFails,
             FailureReturns, Stopped, Forget, NotifyEnds, Deadline, Shutdown
<1>4. TransportType'
  <2>1. CASE UNCHANGED transportVars
    BY <1>1, <2>1, TransportFrame
  <2>2. CASE closing' = "begun" /\ UNCHANGED <<pending, closed, closeCh, reader, holding>>
    <3>1. pending' = pending /\ closed' = closed /\ closeCh' = closeCh /\ reader' = reader
          /\ holding' = holding
      BY <2>2
    <3> QED BY <1>1, <2>2, <3>1, Zenon DEF TransportType
  <2> QED BY <2>1, <2>2 DEF Initialized, Discovered, ConnectReturns, ConnectFails,
             FailureReturns, Stopped, Forget, NotifyEnds, Deadline, Shutdown
<1>5. /\ state' \in {"disconnected", "connecting", "ready", "shutting down", "error"}
      /\ errorCounts' \in Nat
  <2>1. /\ state \in {"disconnected", "connecting", "ready", "shutting down", "error"}
        /\ errorCounts \in Nat
    BY <1>1 DEF ServerType
  <2>2. state' \in {state, "ready", "error", "shutting down", "disconnected"}
    BY DEF Initialized, Discovered, ConnectReturns, ConnectFails, FailureReturns,
           Stopped, Forget, NotifyEnds, Deadline, Shutdown, serverVars
  <2>3. errorCounts' = errorCounts \/ errorCounts' = 0
    BY DEF Initialized, Discovered, ConnectReturns, ConnectFails, FailureReturns,
           Stopped, Forget, NotifyEnds, Deadline, Shutdown, serverVars
  <2>4. errorCounts' \in Nat
    BY <2>1, <2>3, 0 \in Nat, Zenon
  <2>5. state' \in {"disconnected", "connecting", "ready", "shutting down", "error"}
    BY <2>1, <2>2, Zenon
  <2> QED BY <2>4, <2>5
<1>6. ctxDone' \in BOOLEAN
  <2>1. CASE ctxDone' = ctxDone
    BY <1>1, <2>1, Zenon DEF ServerType
  <2>2. CASE ctxDone' = TRUE
    BY <2>2, Zenon
  <2>3. ctxDone' = ctxDone \/ ctxDone' = TRUE
    BY DEF Initialized, Discovered, ConnectReturns, ConnectFails, FailureReturns,
           Stopped, Forget, NotifyEnds, Deadline, Shutdown, serverVars
  <2> QED BY <2>1, <2>2, <2>3
<1>7. registered' \in BOOLEAN
  <2>1. CASE registered' = registered
    BY <1>1, <2>1, Zenon DEF ServerType
  <2>2. CASE registered' = TRUE \/ registered' = FALSE
    BY <2>2, Zenon
  <2>3. registered' = registered \/ registered' = TRUE \/ registered' = FALSE
    BY DEF Initialized, Discovered, ConnectReturns, ConnectFails, FailureReturns,
           Stopped, Forget, NotifyEnds, Deadline, Shutdown, serverVars
  <2> QED BY <2>1, <2>2, <2>3
<1> QED BY <1>2, <1>3, <1>4, <1>5, <1>6, <1>7, ServerStepType

LEMMA StartType == ASSUME TypeOK, Start PROVE TypeOK'
<1>1. CallType /\ TransportType /\ ServerType /\ ProcType
  BY DEF TypeOK
<1>2. /\ chan' = chan /\ pending' = pending /\ closed' = closed /\ closeCh' = closeCh
      /\ holding' = holding /\ closing' = closing /\ stdout' = stdout /\ received' = received
      /\ registered' = registered /\ errorCounts' = errorCounts
  BY DEF Start
<1>3. CASE /\ state' = "connecting" /\ proc' = "running" /\ stdoutOpen' = TRUE
           /\ reader' = "reading" /\ Enter({connect}) /\ UNCHANGED ctxDone
  <2>1. CallType'
    BY <1>1, <1>2, <1>3, EnterType
  <2>2. reader' \in {"none", "reading", "gone"} /\ proc' \in {"none", "running", "exited", "killed"}
        /\ state' \in {"disconnected", "connecting", "ready", "shutting down", "error"}
    BY <1>3
  <2>3. TransportType'
    BY <1>1, <1>2, <2>2, Zenon DEF TransportType
  <2>4. stdoutOpen' \in BOOLEAN
    BY <1>3, Zenon
  <2>5. ProcType'
    BY <1>1, <1>2, <2>2, <2>4, Zenon DEF ProcType
  <2>6. ctxDone' \in BOOLEAN /\ registered' \in BOOLEAN /\ errorCounts' \in Nat
    BY <1>1, <1>2, <1>3, Zenon DEF ServerType
  <2> QED BY <2>1, <2>2, <2>3, <2>5, <2>6, ServerStepType
<1>4. CASE /\ state' = "error" /\ ctxDone' = TRUE
           /\ UNCHANGED <<proc, stdoutOpen, reader, pc, number>>
  <2>1. proc' = proc /\ stdoutOpen' = stdoutOpen /\ reader' = reader /\ pc' = pc /\ number' = number
    BY <1>4
  <2>2. CallType' /\ TransportType' /\ ProcType'
    BY <1>1, <1>2, <2>1, CallFrame, TransportFrame, ProcFrame DEF callVars, transportVars, procVars
  <2>3. ctxDone' \in BOOLEAN
    BY <1>4, Zenon
  <2>4. registered' \in BOOLEAN /\ errorCounts' \in Nat
    BY <1>1, <1>2, Zenon DEF ServerType
  <2>5. state' \in {"disconnected", "connecting", "ready", "shutting down", "error"}
    BY <1>4
  <2> QED BY <2>2, <2>3, <2>4, <2>5, ServerStepType
<1> QED BY <1>3, <1>4 DEF Start

LEMMA SubprocessType ==
  ASSUME TypeOK, ServerAnswers \/ ServerCloses \/ KillOnCancel
  PROVE  TypeOK'
<1>1. CallType /\ TransportType /\ ServerType /\ ProcType
  BY DEF TypeOK
<1>2. UNCHANGED serverVars /\ UNCHANGED callVars /\ UNCHANGED transportVars
  BY DEF ServerAnswers, ServerCloses, KillOnCancel
<1>3. proc' \in {"none", "running", "exited", "killed"}
  BY <1>1 DEF ProcType, ServerAnswers, ServerCloses, KillOnCancel
<1>4. stdoutOpen' \in BOOLEAN
  <2>1. CASE stdoutOpen' = stdoutOpen
    BY <1>1, <2>1, Zenon DEF ProcType
  <2>2. CASE stdoutOpen' = FALSE
    BY <2>2, Zenon
  <2> QED BY <2>1, <2>2 DEF ServerAnswers, ServerCloses, KillOnCancel
<1>5. received' \subseteq Requests
  BY <1>1 DEF ProcType, ServerAnswers, ServerCloses, KillOnCancel
<1>6. stdout' \in Seq(Requests)
  <2>1. stdout \in Seq(Requests) /\ received \subseteq Requests
    BY <1>1 DEF ProcType
  <2>2. CASE ServerAnswers
    <3>1. PICK r \in received : stdout' = Append(stdout, r)
      BY <2>2 DEF ServerAnswers
    <3> QED BY <2>1, <3>1
  <2>3. CASE ServerCloses \/ KillOnCancel
    BY <2>1, <2>3 DEF ServerCloses, KillOnCancel
  <2> QED BY <2>2, <2>3
<1>7. ProcType'
  BY <1>3, <1>4, <1>5, <1>6 DEF ProcType
<1> QED BY <1>1, <1>2, <1>7, CallFrame, TransportFrame, ServerFrame DEF TypeOK

LEMMA NextType == TypeOK /\ [Next]_vars => TypeOK'
<1> SUFFICES ASSUME TypeOK, [Next]_vars PROVE TypeOK'
  OBVIOUS
<1>1. ASSUME NEW c \in Callers, Proceed(c) PROVE TypeOK'
  BY <1>1, ProceedType
<1>2. ASSUME NEW c \in Callers, GiveUp(c) PROVE TypeOK'
  BY <1>2, GiveUpType
<1>3. ASSUME NEW w \in Workers, Handle(w) \/ Lookup(w) \/ Count(w) PROVE TypeOK'
  BY <1>3, HandlerType
<1>4. CASE ReadLoop
  BY <1>4, ReadLoopType
<1>5. CASE Manage
  BY <1>5, StartType, ConnectType, CloseType DEF Manage
<1>6. CASE Deadline \/ Shutdown
  BY <1>6, ConnectType
<1>7. CASE ServerAnswers \/ ServerCloses \/ KillOnCancel
  BY <1>7, SubprocessType
<1>8. CASE UNCHANGED vars
  BY <1>8, CallFrame, TransportFrame, ServerFrame, ProcFrame DEF vars, TypeOK
<1> QED BY <1>1, <1>2, <1>3, <1>4, <1>5, <1>6, <1>7, <1>8 DEF Next

(* Every variable keeps its type whatever the subprocess answers, closes   *)
(* or dies of, and however many handlers call it.                          *)
THEOREM McpTypeOK == Spec => []TypeOK
<1> QED BY InitType, NextType, PTL DEF Spec

----------------------------------------------------------------------------
(* Where a request is.                                                      *)

InMap == \A r \in pending : \E c \in Callers : r = <<c, number[c]>> /\ chan[c] = "open"
InFlightOnly == \A c \in Callers : chan[c] # "none" => pc[c] \in {"registered", "waiting"}
InHand == /\ \A r \in holding : r \notin pending
          /\ \A r, s \in holding : r = s
          /\ \A c \in Callers, k \in Nat : <<c, k>> \in holding => k <= number[c]
Closing == (closed => pending = {}) /\ (closeCh => closed)
Stranded == \A c \in Callers : chan[c] = "open" =>
              <<c, number[c]>> \in pending \/ <<c, number[c]>> \in holding
SendOpen == \A c \in Callers : <<c, number[c]>> \in holding => chan[c] \in {"open", "none"}
Fresh == \A c \in Callers : pc[c] = "entered" => <<c, number[c]>> \notin holding
Where == InMap /\ InFlightOnly /\ InHand /\ Closing /\ Stranded /\ SendOpen /\ Fresh

\* Connect starts once, and the notification after its first request.
Once == /\ proc = "none" => pc[connect] = "idle" /\ number[connect] = 0
        /\ number[connect] <= 1 => pc[notify] = "idle"

LEMMA WhereImplies == TypeOK /\ Where => PendingInFlight /\ NoneStranded /\ NoSendOnClosed
<1> SUFFICES ASSUME TypeOK, Where PROVE PendingInFlight /\ NoneStranded /\ NoSendOnClosed
  OBVIOUS
<1>1. PendingInFlight
  BY DEF Where, InMap, InFlightOnly, PendingInFlight, InFlight, Request
<1>2. NoneStranded
  BY DEF Where, Stranded, Closing, NoneStranded, Request
<1>3. NoSendOnClosed
  BY DEF Where, SendOpen, NoSendOnClosed, Request
<1> QED BY <1>1, <1>2, <1>3

\* Nothing moves but callers outside Send.
LEMMA WhereGo ==
  ASSUME TypeOK, Where, NEW c \in Callers, NEW place, place # "entered", Go(c, place),
         chan[c] = "none", UNCHANGED chan, UNCHANGED <<pending, holding, closed, closeCh>>
  PROVE  Where'
<1>1. /\ number' = number /\ chan' = chan /\ pending' = pending /\ holding' = holding
      /\ closed' = closed /\ closeCh' = closeCh
      /\ pc'[c] = place
      /\ \A d \in Callers : d # c => pc'[d] = pc[d]
  BY DEF Go, TypeOK, CallType
<1> QED BY <1>1 DEF Where, InMap, InFlightOnly, InHand, Closing, Stranded, SendOpen, Fresh

\* A caller that is about to call Send has a request nobody has heard of.
LEMMA WhereEnter ==
  ASSUME TypeOK, Where, NEW S \in SUBSET Callers, Enter(S),
         \A c \in S : chan[c] = "none",
         UNCHANGED chan, UNCHANGED <<pending, holding, closed, closeCh>>
  PROVE  Where'
<1>1. /\ chan' = chan /\ pending' = pending /\ holding' = holding
      /\ closed' = closed /\ closeCh' = closeCh
  OBVIOUS
<1>2. \A c \in Callers : /\ number[c] \in Nat
                         /\ c \in S => number'[c] = number[c] + 1
                         /\ c \notin S => number'[c] = number[c] /\ pc'[c] = pc[c]
  BY DEF Enter, TypeOK, CallType
<1>3. InMap'
  BY <1>1, <1>2 DEF Where, InMap
<1>4. InFlightOnly'
  BY <1>1, <1>2 DEF Where, InFlightOnly
<1>5. InHand'
  <2>1. \A c \in Callers, k \in Nat : <<c, k>> \in holding => k <= number'[c]
    BY <1>2 DEF Where, InHand
  <2> QED BY <1>1, <2>1 DEF Where, InHand
<1>6. Closing' /\ Stranded'
  BY <1>1, <1>2 DEF Where, Closing, Stranded
<1>7. SendOpen'
  <2>1. ASSUME NEW c \in Callers, <<c, number'[c]>> \in holding PROVE chan[c] \in {"open", "none"}
    <3>1. number'[c] \in Nat
      BY <1>2
    <3>2. number'[c] <= number[c]
      BY <2>1, <3>1 DEF Where, InHand
    <3>3. number'[c] = number[c]
      BY <1>2, <3>2
    <3> QED BY <2>1, <3>3 DEF Where, SendOpen
  <2> QED BY <1>1, <2>1 DEF SendOpen
<1>8. Fresh'
  <2>1. ASSUME NEW c \in Callers, pc'[c] = "entered" PROVE <<c, number'[c]>> \notin holding
    <3>1. CASE c \in S
      <4>1. number[c] + 1 \in Nat /\ ~(number[c] + 1 <= number[c])
        BY <1>2
      <4> QED BY <1>2, <3>1, <4>1 DEF Where, InHand
    <3>2. CASE c \notin S
      BY <1>2, <2>1, <3>2 DEF Where, Fresh
    <3> QED BY <3>1, <3>2
  <2> QED BY <1>1, <2>1 DEF Fresh
<1> QED BY <1>3, <1>4, <1>5, <1>6, <1>7, <1>8 DEF Where

\* Send returns, and its request has left the map.
LEMMA WhereReturn ==
  ASSUME TypeOK, Where, NEW c \in Callers, NEW place, place # "entered", Return(c, place),
         pending' = pending \ {<<c, number[c]>>}, UNCHANGED <<holding, closed, closeCh>>
  PROVE  Where'
<1>1. /\ number' = number /\ holding' = holding /\ closed' = closed /\ closeCh' = closeCh
      /\ chan'[c] = "none" /\ pc'[c] = place
      /\ \A d \in Callers : d # c => pc'[d] = pc[d] /\ chan'[d] = chan[d]
  BY DEF Return, Go, TypeOK, CallType
<1>2. InMap'
  BY <1>1 DEF Where, InMap
<1>3. InFlightOnly' /\ InHand' /\ Closing'
  BY <1>1 DEF Where, InFlightOnly, InHand, Closing
<1>4. Stranded' /\ SendOpen' /\ Fresh'
  BY <1>1 DEF Where, Stranded, SendOpen, Fresh
<1> QED BY <1>2, <1>3, <1>4 DEF Where

LEMMA WhereProceed == ASSUME TypeOK, Where, NEW c \in Callers, Proceed(c) PROVE Where'
<1>1. holding' = holding /\ closed' = closed /\ closeCh' = closeCh
  BY DEF Proceed
<1>2. CallType
  BY DEF TypeOK
<1>3. CASE Write(c)
  <2>1. /\ number' = number /\ chan' = chan /\ pending' = pending /\ pc'[c] = "waiting"
        /\ \A d \in Callers : d # c => pc'[d] = pc[d]
    BY <1>2, <1>3 DEF Write, CallType
  <2> QED BY <1>1, <2>1 DEF Where, InMap, InFlightOnly, InHand, Closing, Stranded, SendOpen, Fresh
<1>4. CASE Register(c)
  <2>1. /\ number' = number /\ chan'[c] = "open" /\ pc'[c] = "registered" /\ ~closed
        /\ pending' = pending \cup {<<c, number[c]>>}
        /\ \A d \in Callers : d # c => pc'[d] = pc[d] /\ chan'[d] = chan[d]
    BY <1>2, <1>4 DEF Register, CallType, Request
  <2>2. <<c, number[c]>> \notin holding
    BY <1>4 DEF Register, Where, Fresh
  <2>3. InMap' /\ InFlightOnly' /\ Closing' /\ Stranded' /\ SendOpen' /\ Fresh'
    BY <1>1, <2>1 DEF Where, InMap, InFlightOnly, Closing, Stranded, SendOpen, Fresh
  <2>4. InHand'
    BY <1>1, <2>1, <2>2 DEF Where, InHand
  <2> QED BY <2>3, <2>4 DEF Where
<1>5. ASSUME NEW place, place # "entered", Return(c, place), UNCHANGED pending,
             chan[c] # "open"
      PROVE  Where'
  <2>1. <<c, number[c]>> \notin pending
    BY <1>5 DEF Where, InMap
  <2>2. pending' = pending \ {<<c, number[c]>>}
    BY <1>5, <2>1
  <2> QED BY <1>1, <1>5, <2>2, WhereReturn
<1>6. CASE Refuse(c)
  <2>1. chan[c] # "open"
    BY <1>6 DEF Refuse, Where, InFlightOnly
  <2> QED BY <1>2, <1>5, <1>6, <2>1 DEF Refuse
<1>7. CASE WriteFails(c)
  BY <1>1, <1>2, <1>7, WhereReturn DEF WriteFails, Request
<1>8. CASE TakeAnswer(c)
  BY <1>2, <1>5, <1>8 DEF TakeAnswer
<1>9. CASE SeeClosed(c)
  <2>1. pending = {} /\ pending' = pending /\ Return(c, "failed")
    BY <1>9 DEF SeeClosed, Where, Closing
  <2>2. pending' = pending \ {<<c, number[c]>>}
    BY <2>1
  <2> QED BY <1>1, <1>2, <2>1, <2>2, WhereReturn
<1> QED BY <1>3, <1>4, <1>6, <1>7, <1>8, <1>9 DEF Proceed

LEMMA WhereGiveUp == ASSUME TypeOK, Where, NEW c \in Callers, GiveUp(c) PROVE Where'
<1>1. /\ Return(c, "failed")
      /\ pending' = pending \ {<<c, number[c]>>}
      /\ UNCHANGED <<holding, closed, closeCh>>
  BY DEF GiveUp, Timeout, Request
<1> QED BY <1>1, WhereReturn

\* Close and the end of readLoop find every request of the map at its channel.
LEMMA WhereRelease ==
  ASSUME TypeOK, Where, ReleaseAll, closed' = TRUE, closeCh' \in {closeCh, TRUE},
         UNCHANGED <<pc, number, holding>>
  PROVE  Where'
<1>1. /\ pc' = pc /\ number' = number /\ holding' = holding /\ pending' = {}
      /\ \A c \in Callers : chan'[c] = IF <<c, number[c]>> \in pending THEN "closed" ELSE chan[c]
  BY DEF ReleaseAll, Request
<1>2. InMap' /\ InHand' /\ Closing'
  BY <1>1 DEF Where, InMap, InHand, Closing
<1>3. InFlightOnly'
  <2>1. \A c \in Callers : <<c, number[c]>> \in pending => chan[c] = "open"
    BY DEF Where, InMap
  <2> QED BY <1>1, <2>1 DEF Where, InFlightOnly
<1>4. Stranded'
  BY <1>1 DEF Where, Stranded
<1>5. SendOpen'
  <2>1. \A c \in Callers : <<c, number[c]>> \in holding => <<c, number[c]>> \notin pending
    BY DEF Where, InHand
  <2> QED BY <1>1, <2>1 DEF Where, SendOpen
<1>6. Fresh'
  BY <1>1 DEF Where, Fresh
<1> QED BY <1>2, <1>3, <1>4, <1>5, <1>6 DEF Where

LEMMA WhereReadLoop == ASSUME TypeOK, Where, ReadLoop PROVE Where'
<1>1. pc' = pc /\ number' = number /\ closeCh' = closeCh /\ CallType
  BY DEF ReadLoop, TypeOK
<1>2. CASE Match
  <2>1. /\ chan' = chan /\ closed' = closed /\ holding = {}
        /\ holding' = {Head(stdout)} \cap pending /\ pending' = pending \ {Head(stdout)}
    BY <1>2 DEF Match
  <2>2. InMap' /\ InFlightOnly' /\ Closing' /\ Stranded'
    BY <1>1, <2>1 DEF Where, InMap, InFlightOnly, Closing, Stranded
  <2>3. SendOpen' /\ Fresh'
    <3>1. \A c \in Callers : <<c, number[c]>> \in pending => chan[c] = "open" /\ pc[c] # "entered"
      BY DEF Where, InMap, InFlightOnly
    <3> QED BY <1>1, <2>1, <3>1 DEF SendOpen, Fresh
  <2>4. InHand'
    <3>1. \A c \in Callers, k \in Nat : <<c, k>> \in pending => k <= number[c]
      <4>1. ASSUME NEW c \in Callers, NEW k \in Nat, <<c, k>> \in pending PROVE k <= number[c]
        <5>1. PICK d \in Callers : <<c, k>> = <<d, number[d]>>
          BY <4>1 DEF Where, InMap
        <5>2. k = number[c]
          BY <5>1
        <5> QED BY <5>2
      <4> QED BY <4>1
    <3> QED BY <1>1, <2>1, <3>1 DEF InHand
  <2> QED BY <2>2, <2>3, <2>4 DEF Where
<1>3. CASE Deliver
  <2>1. PICK r \in holding :
          chan' = IF Request(r[1]) = r /\ chan[r[1]] # "none"
                  THEN [chan EXCEPT ![r[1]] = "answered"] ELSE chan
    BY <1>3 DEF Deliver
  <2>2. pending' = pending /\ closed' = closed /\ holding' = {}
    BY <1>3 DEF Deliver
  <2>3. PICK c \in Callers, k \in Nat : r = <<c, k>>
    <3>1. r \in Callers \X Nat
      BY DEF TypeOK, TransportType, Requests
    <3> QED BY <3>1
  <2>4. holding = {<<c, k>>}
    BY <2>1, <2>3 DEF Where, InHand
  <2>5. \A d \in Callers : d # c => chan'[d] = chan[d]
    BY <1>1, <2>1, <2>3 DEF CallType
  <2>6. CASE number[c] = k /\ chan[c] # "none"
    <3>1. chan'[c] = "answered"
      BY <1>1, <2>1, <2>3, <2>6 DEF CallType, Request
    <3>2. \A r1 \in pending : r1 # <<c, number[c]>>
      BY <2>4, <2>6 DEF Where, InHand
    <3> QED BY <1>1, <2>2, <2>4, <2>5, <2>6, <3>1, <3>2
            DEF Where, InMap, InFlightOnly, InHand, Closing, Stranded, SendOpen, Fresh
  <2>7. CASE ~(number[c] = k /\ chan[c] # "none")
    <3>1. chan' = chan
      BY <2>1, <2>3, <2>7 DEF Request
    <3> QED BY <1>1, <2>2, <2>4, <2>7, <3>1
            DEF Where, InMap, InFlightOnly, InHand, Closing, Stranded, SendOpen, Fresh
  <2> QED BY <2>6, <2>7
<1>4. CASE ReaderStops
  BY <1>1, <1>4, WhereRelease DEF ReaderStops
<1> QED BY <1>2, <1>3, <1>4 DEF ReadLoop

\* What has nothing to do with requests leaves them where they are.
LEMMA WhereFrame ==
  ASSUME Where, UNCHANGED callVars, UNCHANGED <<pending, holding, closed, closeCh>>
  PROVE  Where'
<1>1. /\ pc' = pc /\ number' = number /\ chan' = chan /\ pending' = pending
      /\ holding' = holding /\ closed' = closed /\ closeCh' = closeCh
  BY DEF callVars
<1> QED BY <1>1 DEF Where, InMap, InFlightOnly, InHand, Closing, Stranded, SendOpen, Fresh

LEMMA WhereHandler ==
  ASSUME TypeOK, Where, NEW w \in Workers, Handle(w) \/ Lookup(w) \/ Count(w)
  PROVE  Where'
<1>1. /\ w \in Callers /\ {w} \in SUBSET Callers
      /\ UNCHANGED chan /\ UNCHANGED <<pending, holding, closed, closeCh>>
  BY DEF Callers, Handle, Lookup, Count, transportVars
<1>2. chan[w] = "none"
  <2>1. pc[w] \notin {"registered", "waiting"}
    BY DEF Handle, Lookup, Count
  <2> QED BY <1>1, <2>1 DEF Where, InFlightOnly
<1>3. CASE Enter({w})
  <2>1. \A c \in {w} : chan[c] = "none"
    BY <1>2
  <2> QED BY <1>1, <1>3, <2>1, WhereEnter
<1>4. CASE \E place \in {"admitted", "idle", "failed"} : Go(w, place)
  <2>1. PICK place \in {"admitted", "idle", "failed"} : Go(w, place)
    BY <1>4
  <2> QED BY <1>1, <1>2, <2>1, WhereGo
<1> QED BY <1>3, <1>4 DEF Handle, Lookup, Count

LEMMA WhereManage ==
  ASSUME TypeOK, Where, Once, Manage \/ Deadline \/ Shutdown
  PROVE  Where'
<1>1. /\ connect \in Callers /\ notify \in Callers
      /\ {connect} \in SUBSET Callers /\ {connect, notify} \in SUBSET Callers
  BY DEF Callers
<1>2. \A c \in Callers : pc[c] \notin {"registered", "waiting"} => chan[c] = "none"
  BY DEF Where, InFlightOnly
<1>3. CASE Start
  <2>1. UNCHANGED chan /\ UNCHANGED <<pending, holding, closed, closeCh>>
    BY <1>3 DEF Start
  <2>2. CASE Enter({connect})
    <3>1. \A c \in {connect} : chan[c] = "none"
      BY <1>1, <1>2, <1>3 DEF Start, Once
    <3> QED BY <1>1, <2>1, <2>2, <3>1, WhereEnter
  <2>3. CASE UNCHANGED <<pc, number>>
    BY <2>1, <2>3, WhereFrame DEF callVars
  <2> QED BY <1>3, <2>2, <2>3 DEF Start
<1>4. CASE Initialized
  <2>1. /\ Enter({connect, notify}) /\ UNCHANGED chan
        /\ UNCHANGED <<pending, holding, closed, closeCh>>
    BY <1>4 DEF Initialized, transportVars
  <2>2. pc[connect] = "answered" /\ pc[notify] = "idle"
    BY <1>4 DEF Initialized, Once
  <2>3. \A c \in {connect, notify} : chan[c] = "none"
    BY <1>1, <1>2, <2>2
  <2> QED BY <1>1, <2>1, <2>3, WhereEnter
<1>5. CASE Discovered \/ ConnectFails
  <2>1. /\ Go(connect, "idle") /\ UNCHANGED chan
        /\ UNCHANGED <<pending, holding, closed, closeCh>>
        /\ pc[connect] \in {"answered", "failed"}
    BY <1>5 DEF Discovered, ConnectFails, transportVars
  <2>2. chan[connect] = "none"
    BY <1>1, <1>2, <2>1
  <2> QED BY <1>1, <2>1, <2>2, WhereGo
<1>6. CASE NotifyEnds
  <2>1. /\ Go(notify, "idle") /\ UNCHANGED chan
        /\ UNCHANGED <<pending, holding, closed, closeCh>>
        /\ pc[notify] \in {"answered", "failed"}
    BY <1>6 DEF NotifyEnds, transportVars
  <2>2. chan[notify] = "none"
    BY <1>1, <1>2, <2>1
  <2> QED BY <1>1, <2>1, <2>2, WhereGo
<1>7. CASE ConnectReturns \/ FailureReturns \/ Stopped \/ Forget \/ Deadline \/ Shutdown
  <2>1. UNCHANGED callVars /\ UNCHANGED <<pending, holding, closed, closeCh>>
    BY <1>7 DEF ConnectReturns, FailureReturns, Stopped, Forget, Deadline, Shutdown, transportVars
  <2> QED BY <2>1, WhereFrame
<1>8. CASE CloseMark
  <2>1. pc' = pc /\ number' = number /\ holding' = holding
    BY <1>8 DEF CloseMark
  <2>2. CASE UNCHANGED <<chan, pending, closed, closeCh>>
    BY <2>1, <2>2, WhereFrame DEF callVars
  <2>3. CASE closed' = TRUE /\ closeCh' = TRUE /\ ReleaseAll
    BY <2>1, <2>3, WhereRelease
  <2> QED BY <1>8, <2>2, <2>3 DEF CloseMark
<1>9. CASE CloseKill
  <2>1. UNCHANGED callVars /\ UNCHANGED <<pending, holding, closed, closeCh>>
    BY <1>9 DEF CloseKill
  <2> QED BY <2>1, WhereFrame
<1> QED BY <1>3, <1>4, <1>5, <1>6, <1>7, <1>8, <1>9 DEF Manage

LEMMA NextOnce == ASSUME TypeOK, Once, [Next]_vars PROVE Once'
<1>1. /\ connect \in Callers /\ notify \in Callers /\ connect # notify
      /\ \A w \in Workers : w # connect /\ w # notify
      /\ number[connect] \in Nat /\ CallType
  BY McpAssumption DEF Callers, TypeOK, CallType, McpAssumption
<1>2. ASSUME NEW c \in Callers, pc[c] # "idle", UNCHANGED number,
             \A d \in Callers : d # c => pc'[d] = pc[d], proc' = proc
      PROVE  Once'
  BY <1>1, <1>2 DEF Once
<1>3. ASSUME UNCHANGED <<pc, number>>, proc # "none" \/ proc' = proc, proc = "none" \/ proc' # "none"
      PROVE  Once'
  BY <1>3 DEF Once
<1>4. ASSUME NEW c \in Callers, Proceed(c) \/ GiveUp(c) PROVE Once'
  <2>1. pc[c] # "idle" /\ number' = number /\ \A d \in Callers : d # c => pc'[d] = pc[d]
    BY <1>1, <1>4 DEF Proceed, GiveUp, Timeout, Write, Refuse, Register, WriteFails, TakeAnswer,
                      SeeClosed, Return, Go, CallType
  <2>2. proc' = proc
    BY <1>4 DEF Proceed, GiveUp, procVars
  <2> QED BY <1>2, <2>1, <2>2
<1>5. ASSUME NEW w \in Workers, Handle(w) \/ Lookup(w) \/ Count(w) PROVE Once'
  <2>1. proc' = proc
    BY <1>5 DEF Handle, Lookup, Count, procVars
  <2>2. pc'[connect] = pc[connect] /\ pc'[notify] = pc[notify] /\ number'[connect] = number[connect]
    BY <1>1, <1>5 DEF Handle, Lookup, Count, Go, Enter, CallType, Callers
  <2> QED BY <2>1, <2>2 DEF Once
<1>6. CASE Start
  <2>1. CASE proc' = "running" /\ Enter({connect})
    <3>1. number[connect] = 0 /\ pc[notify] = "idle"
      BY <1>6 DEF Start, Once
    <3>2. pc'[notify] = pc[notify]
      BY <1>1, <2>1 DEF Enter
    <3> QED BY <2>1, <3>1, <3>2 DEF Once
  <2>2. CASE UNCHANGED <<proc, stdoutOpen, reader, pc, number>>
    <3>1. UNCHANGED <<pc, number>> /\ proc' = proc
      BY <2>2
    <3> QED BY <1>3, <3>1
  <2> QED BY <1>6, <2>1, <2>2 DEF Start
<1>7. CASE Initialized
  <2>1. number'[connect] = 2
    BY <1>1, <1>7 DEF Initialized, Enter
  <2>2. proc' = proc /\ proc # "none"
    BY <1>7 DEF Initialized, procVars, Once
  <2> QED BY <2>1, <2>2 DEF Once
<1>8. CASE Discovered \/ ConnectFails \/ NotifyEnds
  <2>1. PICK c \in {connect, notify} : pc[c] # "idle" /\ Go(c, "idle")
    BY <1>8 DEF Discovered, ConnectFails, NotifyEnds
  <2>2. number' = number /\ \A d \in Callers : d # c => pc'[d] = pc[d]
    BY <1>1, <2>1 DEF Go, CallType
  <2>3. proc' = proc
    BY <1>8 DEF Discovered, ConnectFails, NotifyEnds, procVars
  <2> QED BY <1>1, <1>2, <2>1, <2>2, <2>3
<1>9. CASE \/ ConnectReturns \/ FailureReturns \/ Stopped \/ Forget \/ Deadline \/ Shutdown
           \/ CloseMark \/ CloseKill \/ ReadLoop \/ ServerAnswers \/ ServerCloses
           \/ KillOnCancel \/ UNCHANGED vars
  <2>1. UNCHANGED <<pc, number>>
    BY <1>9 DEF ConnectReturns, FailureReturns, Stopped, Forget, Deadline, Shutdown, CloseMark,
                CloseKill, ReadLoop, ServerAnswers, ServerCloses, KillOnCancel, vars, callVars
  <2>2. proc' = proc \/ (proc # "none" /\ proc' # "none")
    BY <1>9 DEF ConnectReturns, FailureReturns, Stopped, Forget, Deadline, Shutdown, CloseMark,
                CloseKill, ReadLoop, ServerAnswers, ServerCloses, KillOnCancel, vars, procVars
  <2> QED BY <1>3, <2>1, <2>2
<1> QED BY <1>4, <1>5, <1>6, <1>7, <1>8, <1>9 DEF Next, Manage

LEMMA InitWhere == Init => Where /\ Once
<1> SUFFICES ASSUME Init PROVE Where /\ Once
  OBVIOUS
<1>1. /\ pending = {} /\ holding = {} /\ ~closed /\ ~closeCh
      /\ \A c \in Callers : pc[c] = "idle" /\ chan[c] = "none" /\ number[c] = 0
      /\ connect \in Callers /\ notify \in Callers
  BY DEF Init, Callers
<1>2. Where
  BY <1>1 DEF Where, InMap, InFlightOnly, InHand, Closing, Stranded, SendOpen, Fresh
<1>3. Once
  BY <1>1 DEF Once
<1> QED BY <1>2, <1>3

LEMMA NextWhere == TypeOK /\ Where /\ Once /\ [Next]_vars => Where'
<1> SUFFICES ASSUME TypeOK, Where, Once, [Next]_vars PROVE Where'
  OBVIOUS
<1>1. ASSUME NEW c \in Callers, Proceed(c) \/ GiveUp(c) PROVE Where'
  BY <1>1, WhereProceed, WhereGiveUp
<1>2. ASSUME NEW w \in Workers, Handle(w) \/ Lookup(w) \/ Count(w) PROVE Where'
  BY <1>2, WhereHandler
<1>3. CASE ReadLoop
  BY <1>3, WhereReadLoop
<1>4. CASE Manage \/ Deadline \/ Shutdown
  BY <1>4, WhereManage
<1>5. CASE ServerAnswers \/ ServerCloses \/ KillOnCancel \/ UNCHANGED vars
  <2>1. UNCHANGED callVars /\ UNCHANGED <<pending, holding, closed, closeCh>>
    BY <1>5 DEF ServerAnswers, ServerCloses, KillOnCancel, vars, transportVars
  <2> QED BY <2>1, WhereFrame
<1> QED BY <1>1, <1>2, <1>3, <1>4, <1>5 DEF Next

LEMMA AlwaysWhere == Spec => [](TypeOK /\ Where)
<1>1. Init => TypeOK /\ Where /\ Once
  BY InitType, InitWhere
<1>2. TypeOK /\ Where /\ Once /\ [Next]_vars => (TypeOK /\ Where /\ Once)'
  BY NextType, NextWhere, NextOnce
<1> QED BY <1>1, <1>2, PTL DEF Spec

(* The pending map of the transport holds no request whose Send has        *)
(* returned, for any number of handlers, calls, timeouts and late answers. *)
THEOREM McpPendingInFlight == Spec => []PendingInFlight
<1>1. TypeOK /\ Where => PendingInFlight
  BY WhereImplies
<1> QED BY <1>1, AlwaysWhere, PTL

(* A call that waits can always still be answered or released: removing    *)
(* from the map, Close and the end of readLoop leave none behind.          *)
THEOREM McpNoneStranded == Spec => []NoneStranded
<1>1. TypeOK /\ Where => NoneStranded
  BY WhereImplies
<1> QED BY <1>1, AlwaysWhere, PTL

(* readLoop, which sends without the lock, neither sends to a channel that *)
(* Close has closed nor blocks on one that is full.                        *)
THEOREM McpNoSendOnClosed == Spec => []NoSendOnClosed
<1>1. TypeOK /\ Where => NoSendOnClosed
  BY WhereImplies
<1> QED BY <1>1, AlwaysWhere, PTL

----------------------------------------------------------------------------
(* The circuit breaker.                                                     *)

LEMMA BusyType ==
  IsFiniteSet(Busy) /\ Cardinality(Busy) \in Nat /\ Cardinality(Workers) \in Nat
  /\ Cardinality(Busy) <= Cardinality(Workers)
  BY McpAssumption, FS_Subset, FS_CardinalityType DEF McpAssumption, Busy

\* A handler that stays in the call, or leaves it, uses up nothing.
LEMMA BreakerKept ==
  ASSUME TypeOK, BreakerBound, Busy' \subseteq Busy, errorCounts' = errorCounts
  PROVE  BreakerBound'
<1>1. Cardinality(Busy') \in Nat /\ Cardinality(Busy') <= Cardinality(Busy)
  BY BusyType, FS_Subset, FS_CardinalityType
<1>2. errorCounts \in Nat /\ CircuitBreakerThreshold \in Nat
  BY McpAssumption DEF TypeOK, ServerType, McpAssumption
<1> QED BY <1>1, <1>2, BusyType DEF BreakerBound

\* All handlers together are fewer than the bound once the count is zero.
LEMMA BreakerReset ==
  ASSUME Busy' \subseteq Workers, errorCounts' = 0
  PROVE  BreakerBound'
<1>1. Cardinality(Busy') \in Nat /\ Cardinality(Busy') <= Cardinality(Workers)
  BY McpAssumption, FS_Subset, FS_CardinalityType DEF McpAssumption
<1>2. CircuitBreakerThreshold \in Nat \ {0} /\ Cardinality(Workers) \in Nat
  BY McpAssumption, FS_CardinalityType DEF McpAssumption
<1> QED BY <1>1, <1>2 DEF BreakerBound

\* Handle admits a call only below the threshold; Count takes the handler out
\* of the count of those under way when it adds a failure.
LEMMA BreakerHandler ==
  ASSUME TypeOK, BreakerBound, NEW w \in Workers, Handle(w) \/ Lookup(w) \/ Count(w)
  PROVE  BreakerBound'
<1>1. /\ pc \in [Callers -> Places] /\ w \in Callers /\ Workers \subseteq Callers
      /\ errorCounts \in Nat /\ CircuitBreakerThreshold \in Nat \ {0}
  BY McpAssumption DEF TypeOK, CallType, ServerType, Callers, McpAssumption
<1>2. CASE Handle(w)
  <2>1. Busy' = Busy \cup {w} /\ w \notin Busy /\ errorCounts' = errorCounts
    BY <1>1, <1>2 DEF Handle, Go, Busy, serverVars
  <2>2. Busy \cup {w} \subseteq Workers
    BY DEF Busy
  <2>3. Cardinality(Busy') = Cardinality(Busy) + 1 /\ Cardinality(Busy') <= Cardinality(Workers)
    BY <2>1, <2>2, BusyType, FS_AddElement, FS_Subset, McpAssumption DEF McpAssumption
  <2>4. errorCounts < CircuitBreakerThreshold
    BY <1>2 DEF Handle
  <2> QED BY <1>1, <2>1, <2>3, <2>4, BusyType DEF BreakerBound
<1>3. CASE Lookup(w)
  <2>1. Busy' \subseteq Busy /\ errorCounts' = errorCounts
    BY <1>1, <1>3 DEF Lookup, Go, Enter, Busy, serverVars
  <2> QED BY <2>1, BreakerKept
<1>4. CASE Count(w)
  <2>1. Busy' = Busy \ {w} /\ w \in Busy
    BY <1>1, <1>4 DEF Count, Go, Busy
  <2>2. Cardinality(Busy') = Cardinality(Busy) - 1
    BY <2>1, BusyType, FS_RemoveElement
  <2>3. CASE errorCounts' = errorCounts + 1
    BY <1>1, <2>2, <2>3, BusyType DEF BreakerBound
  <2>4. CASE errorCounts' = 0
    BY <2>1, <2>4, BreakerReset DEF Busy
  <2> QED BY <1>4, <2>3, <2>4 DEF Count
<1> QED BY <1>2, <1>3, <1>4

\* A caller that is in Send stays in its handler.
LEMMA BreakerSend ==
  ASSUME TypeOK, BreakerBound, NEW c \in Callers, Proceed(c) \/ GiveUp(c)
  PROVE  BreakerBound'
<1>1. pc \in [Callers -> Places] /\ Workers \subseteq Callers
  BY DEF TypeOK, CallType, Callers
<1>2. /\ \A d \in Callers : pc[d] = "idle" => pc'[d] = "idle"
      /\ errorCounts' = errorCounts
  BY <1>1 DEF Proceed, GiveUp, Write, Refuse, Register, WriteFails, TakeAnswer, SeeClosed, Timeout,
              Return, Go, serverVars
<1>3. Busy' \subseteq Busy
  BY <1>1, <1>2 DEF Busy
<1> QED BY <1>2, <1>3, BreakerKept

\* Connect and the notification are not handlers.
LEMMA BreakerManage ==
  ASSUME TypeOK, BreakerBound, Manage \/ Deadline \/ Shutdown
  PROVE  BreakerBound'
<1>1. pc \in [Callers -> Places] /\ Workers \subseteq Callers /\ {connect, notify} \cap Workers = {}
  BY McpAssumption DEF TypeOK, CallType, Callers, McpAssumption
<1>2. CASE Forget
  <2>1. Busy' \subseteq Workers /\ errorCounts' = 0
    BY <1>2 DEF Forget, Busy
  <2> QED BY <2>1, BreakerReset
<1>3. CASE ~Forget
  <2>1. /\ \A w \in Workers : pc'[w] = pc[w]
        /\ errorCounts' = errorCounts
    BY <1>1, <1>3 DEF Manage, Start, Initialized, Discovered, ConnectReturns, ConnectFails,
                      FailureReturns, Stopped, NotifyEnds, CloseMark, CloseKill, Deadline, Shutdown,
                      Enter, Go, serverVars, callVars
  <2>2. Busy' \subseteq Busy
    BY <2>1 DEF Busy
  <2> QED BY <2>1, <2>2, BreakerKept
<1> QED BY <1>2, <1>3

LEMMA NextBreaker == TypeOK /\ BreakerBound /\ [Next]_vars => BreakerBound'
<1> SUFFICES ASSUME TypeOK, BreakerBound, [Next]_vars PROVE BreakerBound'
  OBVIOUS
<1>1. CASE ReadLoop \/ ServerAnswers \/ ServerCloses \/ KillOnCancel \/ UNCHANGED vars
  <2>1. UNCHANGED <<pc, errorCounts>>
    BY <1>1 DEF ReadLoop, ServerAnswers, ServerCloses, KillOnCancel, vars, callVars, serverVars
  <2>2. Busy' = Busy
    BY <2>1 DEF Busy
  <2> QED BY <2>1, <2>2, BreakerKept
<1> QED BY <1>1, BreakerHandler, BreakerSend, BreakerManage DEF Next

(* A server that only fails gets no more than the threshold less one, and  *)
(* one per concurrent handler, of consecutive failures: handlers ask the   *)
(* breaker before they call and count after, without a lock in between.    *)
THEOREM McpBreakerBound == Spec => []BreakerBound
<1>1. Init => BreakerBound
  <2> SUFFICES ASSUME Init PROVE BreakerBound
    OBVIOUS
  <2>1. errorCounts = 0 /\ Busy = {}
    BY DEF Init, Busy, Callers
  <2>2. CircuitBreakerThreshold \in Nat \ {0} /\ Cardinality(Workers) \in Nat
    BY McpAssumption, FS_CardinalityType DEF McpAssumption
  <2> QED BY <2>1, <2>2, FS_EmptySet DEF BreakerBound
<1>2. TypeOK /\ BreakerBound /\ [Next]_vars => TypeOK' /\ BreakerBound'
  BY NextType, NextBreaker
<1> QED BY InitType, <1>1, <1>2, PTL DEF Spec

----------------------------------------------------------------------------
(* The end of the subprocess.                                               *)

\* What StoppedMeansGone rests on: since Close may skip the Kill, the context
\* that the subprocess was started with is over wherever Connect or Shutdown
\* ends, so that the operating system's kill is due.
KillPending == state = "error" \/ (state = "disconnected" /\ closing = "done") => ctxDone

\* Connect's deferred cancel comes before the server is stored, and only a
\* stored server is shut down; Close, where Connect calls it, is called last.
Cancelled == /\ registered => ctxDone
             /\ state \in {"shutting down", "error"} => ctxDone
             /\ state = "disconnected" /\ closing # "no" => ctxDone
             /\ pc[connect] # "idle" => state = "connecting" /\ closing = "no"

\* What leaves Close's progress and the server alone, and puts Connect to work
\* only if it was at work before.
LEMMA CancelledKept ==
  ASSUME Cancelled, UNCHANGED <<serverVars, closing>>,
         pc'[connect] # "idle" => pc[connect] # "idle"
  PROVE  Cancelled'
<1>1. /\ state' = state /\ ctxDone' = ctxDone /\ registered' = registered
      /\ closing' = closing
  BY DEF serverVars
<1>2. /\ registered' => ctxDone'
      /\ state' \in {"shutting down", "error"} => ctxDone'
      /\ state' = "disconnected" /\ closing' # "no" => ctxDone'
  BY <1>1, Zenon DEF Cancelled
<1>3. pc'[connect] # "idle" => state' = "connecting" /\ closing' = "no"
  BY <1>1 DEF Cancelled
<1> QED BY <1>2, <1>3 DEF Cancelled

LEMMA CancelledCall ==
  ASSUME TypeOK, Cancelled, NEW c \in Callers, Proceed(c) \/ GiveUp(c)
  PROVE  Cancelled'
<1>1. connect \in Callers /\ pc \in [Callers -> Places]
  BY DEF Callers, TypeOK, CallType
<1>2. pc[c] # "idle" /\ \A d \in Callers : d # c => pc'[d] = pc[d]
  BY <1>1 DEF Proceed, GiveUp, Timeout, Write, Refuse, Register, WriteFails, TakeAnswer,
              SeeClosed, Return, Go
<1>3. UNCHANGED <<serverVars, closing>>
  BY DEF Proceed, GiveUp
<1> QED BY <1>1, <1>2, <1>3, CancelledKept

LEMMA CancelledHandler ==
  ASSUME TypeOK, Cancelled, NEW w \in Workers, Handle(w) \/ Lookup(w) \/ Count(w)
  PROVE  Cancelled'
<1>1. connect \in Callers /\ w # connect /\ pc \in [Callers -> Places]
  BY McpAssumption DEF Callers, TypeOK, CallType, McpAssumption
<1>2. pc'[connect] = pc[connect]
  BY <1>1 DEF Handle, Lookup, Count, Go, Enter
<1>3. /\ state' = state /\ ctxDone' = ctxDone /\ registered' = registered
      /\ closing' = closing
  BY DEF Handle, Lookup, Count, serverVars, transportVars
<1>4. /\ registered' => ctxDone'
      /\ state' \in {"shutting down", "error"} => ctxDone'
      /\ state' = "disconnected" /\ closing' # "no" => ctxDone'
  BY <1>3, Zenon DEF Cancelled
<1>5. pc'[connect] # "idle" => state' = "connecting" /\ closing' = "no"
  BY <1>2, <1>3 DEF Cancelled
<1> QED BY <1>4, <1>5 DEF Cancelled

\* Connect, from Start to its return or failure.
LEMMA CancelledConnect ==
  ASSUME TypeOK, Cancelled,
         Start \/ Initialized \/ Discovered \/ Deadline \/ ConnectReturns \/ ConnectFails \/ FailureReturns
  PROVE  Cancelled'
<1>1. connect \in Callers /\ pc \in [Callers -> Places]
  BY DEF Callers, TypeOK, CallType
<1>2. CASE Start
  <2>1. ~registered' /\ ~ctxDone
    BY <1>2 DEF Start, Cancelled
  <2>2. CASE state' = "connecting"
    <3>1. closing' = "no"
      BY <1>2, <2>1 DEF Start, Cancelled
    <3> QED BY <2>1, <2>2, <3>1 DEF Cancelled
  <2>3. CASE state' = "error" /\ ctxDone' = TRUE /\ UNCHANGED <<proc, stdoutOpen, reader, pc, number>>
    <3>1. pc'[connect] = "idle"
      BY <1>2, <2>3 DEF Start, Cancelled
    <3> QED BY <2>3, <3>1 DEF Cancelled
  <2> QED BY <1>2, <2>2, <2>3 DEF Start
<1>3. CASE Initialized
  <2>1. pc[connect] # "idle" /\ UNCHANGED <<serverVars, closing>>
    BY <1>3 DEF Initialized, transportVars
  <2> QED BY <2>1, CancelledKept
<1>4. CASE Discovered
  <2>1. pc'[connect] = "idle" /\ state' = "ready"
    BY <1>1, <1>4 DEF Discovered, Go
  <2>2. registered' = registered /\ ctxDone' = ctxDone
    BY <1>4 DEF Discovered
  <2>3. registered' => ctxDone'
    BY <2>2, Zenon DEF Cancelled
  <2> QED BY <2>1, <2>3 DEF Cancelled
<1>5. CASE Deadline
  <2>1. ctxDone' /\ state' = state /\ closing' = closing /\ pc' = pc
    BY <1>5 DEF Deadline, callVars, transportVars
  <2> QED BY <2>1 DEF Cancelled
<1>6. CASE ConnectReturns
  <2>1. ctxDone' /\ state' = state /\ closing' = closing /\ pc' = pc
    BY <1>6 DEF ConnectReturns, callVars, transportVars
  <2> QED BY <2>1 DEF Cancelled
<1>7. CASE ConnectFails
  <2>1. pc'[connect] = "idle" /\ state = "connecting"
    BY <1>1, <1>7 DEF ConnectFails, Go, Cancelled
  <2>2. state' = state /\ registered' = registered /\ ctxDone' = ctxDone
    BY <1>7 DEF ConnectFails, serverVars
  <2>3. registered' => ctxDone'
    BY <2>2, Zenon DEF Cancelled
  <2> QED BY <2>1, <2>2, <2>3 DEF Cancelled
<1>8. CASE FailureReturns
  <2>1. ctxDone' /\ pc'[connect] = "idle"
    BY <1>8 DEF FailureReturns, callVars, Cancelled
  <2> QED BY <2>1 DEF Cancelled
<1> QED BY <1>2, <1>3, <1>4, <1>5, <1>6, <1>7, <1>8

\* Close, Shutdown and what ends a server.
LEMMA CancelledClose ==
  ASSUME TypeOK, Cancelled, CloseMark \/ CloseKill \/ Shutdown \/ Stopped \/ Forget \/ NotifyEnds
  PROVE  Cancelled'
<1>1. CASE CloseMark \/ CloseKill
  <2>1. /\ state' = state /\ ctxDone' = ctxDone /\ registered' = registered
        /\ pc' = pc /\ closing # "no"
    BY <1>1 DEF CloseMark, CloseKill, serverVars, callVars
  <2>2. /\ registered' => ctxDone'
        /\ state' \in {"shutting down", "error"} => ctxDone'
        /\ state' = "disconnected" => ctxDone'
    BY <2>1, Zenon DEF Cancelled
  <2>3. pc'[connect] = "idle"
    BY <2>1 DEF Cancelled
  <2> QED BY <2>2, <2>3 DEF Cancelled
<1>2. CASE Shutdown
  <2>1. /\ state = "ready" /\ state' = "shutting down" /\ registered
        /\ ctxDone' = ctxDone /\ registered' = registered /\ pc' = pc
    BY <1>2 DEF Shutdown, callVars
  <2>2. ctxDone'
    BY <2>1, Zenon DEF Cancelled
  <2>3. pc'[connect] = "idle"
    BY <2>1 DEF Cancelled
  <2> QED BY <2>1, <2>2, <2>3 DEF Cancelled
<1>3. CASE Stopped
  <2>1. /\ state = "shutting down" /\ state' = "disconnected"
        /\ ctxDone' = ctxDone /\ pc' = pc
    BY <1>3 DEF Stopped, callVars
  <2>2. ctxDone'
    BY <2>1, Zenon DEF Cancelled
  <2>3. pc'[connect] = "idle"
    BY <2>1 DEF Cancelled
  <2> QED BY <2>1, <2>2, <2>3 DEF Cancelled
<1>4. CASE Forget
  <2>1. /\ state' = state /\ closing' = closing /\ ctxDone' = ctxDone /\ ~registered'
        /\ registered /\ state = "disconnected" /\ pc' = pc
    BY <1>4 DEF Forget, callVars, transportVars
  <2>2. ctxDone'
    BY <2>1, Zenon DEF Cancelled
  <2>3. pc'[connect] = "idle"
    BY <2>1 DEF Cancelled
  <2> QED BY <2>1, <2>2, <2>3 DEF Cancelled
<1>5. CASE NotifyEnds
  <2>1. connect # notify /\ connect \in Callers /\ pc \in [Callers -> Places]
    BY McpAssumption DEF Callers, TypeOK, CallType, McpAssumption
  <2>2. pc'[connect] = pc[connect] /\ UNCHANGED <<serverVars, closing>>
    BY <1>5, <2>1 DEF NotifyEnds, Go, transportVars
  <2> QED BY <2>2, CancelledKept
<1> QED BY <1>1, <1>2, <1>3, <1>4, <1>5

LEMMA NextCancelled == TypeOK /\ Cancelled /\ [Next]_vars => Cancelled'
<1> SUFFICES ASSUME TypeOK, Cancelled, [Next]_vars PROVE Cancelled'
  OBVIOUS
<1>1. CASE ReadLoop \/ ServerAnswers \/ ServerCloses \/ KillOnCancel \/ UNCHANGED vars
  <2>1. UNCHANGED <<pc, serverVars, closing>>
    BY <1>1 DEF ReadLoop, ServerAnswers, ServerCloses, KillOnCancel, vars, callVars, transportVars
  <2> QED BY <2>1, CancelledKept
<1> QED BY <1>1, CancelledCall, CancelledHandler, CancelledConnect, CancelledClose DEF Next, Manage

(* Whichever way Connect or Shutdown ends, the context of the subprocess   *)
(* is over, so that it is killed though Close skipped the Kill: the safety *)
(* half of StoppedMeansGone.                                               *)
THEOREM McpKillPending == Spec => []KillPending
<1>1. Init => Cancelled
  <2> SUFFICES ASSUME Init PROVE Cancelled
    OBVIOUS
  <2>1. registered = FALSE /\ state = "disconnected" /\ closing = "no" /\ pc[connect] = "idle"
    BY DEF Init, Callers
  <2> QED BY <2>1 DEF Cancelled
<1>2. TypeOK /\ Cancelled /\ [Next]_vars => TypeOK' /\ Cancelled'
  BY NextType, NextCancelled
<1>3. Cancelled => KillPending
  <2> SUFFICES ASSUME Cancelled PROVE KillPending
    OBVIOUS
  <2>1. /\ state \in {"shutting down", "error"} => ctxDone
        /\ state = "disconnected" /\ closing # "no" => ctxDone
    BY Zenon DEF Cancelled
  <2>2. closing = "done" => closing # "no"
    OBVIOUS
  <2> QED BY <2>1, <2>2, Zenon DEF KillPending
<1> QED BY InitType, <1>1, <1>2, <1>3, PTL DEF Spec
=============================================================================
