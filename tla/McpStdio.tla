------------------------------ MODULE McpStdio ------------------------------
(***************************************************************************)
(* One MCP server behind the stdio transport: Server.Connect with its two  *)
(* requests and the notification it sends on the side, the tool handlers   *)
(* that call the server concurrently through the circuit breaker, the      *)
(* reader goroutine, Close, and the subprocess.                            *)
(*                                                                         *)
(* A request is its caller and the number of that caller's request; the    *)
(* global counter only makes ids distinct.  What a request asks and what   *)
(* an answer says is left out, except that an answer may be an error.      *)
(***************************************************************************)
EXTENDS Naturals, Sequences, FiniteSets

CONSTANTS
  Workers,   \* goroutines that run handlers of this server's tools
  connect,   \* the caller that is Server.Connect
  notify,    \* the goroutine of notifications/initialized
  CircuitBreakerThreshold,
  MaxCalls,  \* tool calls of one worker
  MaxLines,  \* lines in the stdout pipe
  SlowConnect \* may Connect last longer than its timeout?

Callers == Workers \cup {connect, notify}
ASSUME McpAssumption ==
  /\ connect # notify /\ connect \notin Workers /\ notify \notin Workers
  /\ IsFiniteSet(Workers)
  /\ CircuitBreakerThreshold \in Nat \ {0} /\ MaxCalls \in Nat /\ MaxLines \in Nat
  /\ SlowConnect \in BOOLEAN

VARIABLES
  state,       \* Server.State
  ctxDone,     \* connectCtx, which the subprocess was started with, is over
  registered,  \* Manager.servers holds the server
  errorCounts, \* of this server
  pc, number,  \* per caller: where it is, and its requests so far
  chan,        \* per caller: the channel of its present request
  pending, closed, closeCh, \* of the transport; closeCh: it is closed
  reader,      \* readLoop: "none", "reading", "gone"
  holding,     \* the request, if any, whose answer readLoop is about to pass on
  closing,     \* Close: "no", "begun", "marked", "done"
  proc,        \* the subprocess
  stdoutOpen, stdout, received \* its end of the pipes
callVars == <<pc, number, chan>>
transportVars == <<pending, closed, closeCh, reader, holding, closing>>
serverVars == <<state, ctxDone, registered, errorCounts>>
procVars == <<proc, stdoutOpen, stdout, received>>
vars == <<callVars, transportVars, serverVars, procVars>>

Requests == Callers \X Nat
Request(c) == <<c, number[c]>>

Init == /\ state = "disconnected" /\ ctxDone = FALSE /\ registered = FALSE /\ errorCounts = 0
        /\ pc = [c \in Callers |-> "idle"] /\ number = [c \in Callers |-> 0]
        /\ chan = [c \in Callers |-> "none"]
        /\ pending = {} /\ closed = FALSE /\ closeCh = FALSE
        /\ reader = "none" /\ holding = {} /\ closing = "no"
        /\ proc = "none" /\ stdoutOpen = FALSE /\ stdout = <<>> /\ received = {}

----------------------------------------------------------------------------
(* StdioTransport.Send, by any caller.                                     *)

\* A caller that is about to call Send.
Enter(callers) ==
  /\ pc' = [c \in Callers |-> IF c \in callers THEN "entered" ELSE pc[c]]
  /\ number' = [c \in Callers |-> IF c \in callers THEN number[c] + 1 ELSE number[c]]
Go(c, place) == pc' = [pc EXCEPT ![c] = place] /\ UNCHANGED number
\* Send returns; its channel is garbage.
Return(c, outcome) == Go(c, outcome) /\ chan' = [chan EXCEPT ![c] = "none"]

Refuse(c) == /\ pc[c] = "entered" /\ closed
             /\ Return(c, "failed")
             /\ UNCHANGED pending
\* Mutant: a closed transport is not refused.
RegisterAnyway(c) == /\ pc[c] = "entered"
                     /\ pc' = [pc EXCEPT ![c] = "registered"]
                     /\ chan' = [chan EXCEPT ![c] = "open"]
                     /\ pending' = pending \cup {Request(c)}
                     /\ UNCHANGED number
Register(c) == /\ pc[c] = "entered" /\ ~closed
               /\ pc' = [pc EXCEPT ![c] = "registered"]
               /\ chan' = [chan EXCEPT ![c] = "open"]
               /\ pending' = pending \cup {Request(c)}
               /\ UNCHANGED number
Write(c) == /\ pc[c] = "registered" /\ proc = "running"
            /\ pc' = [pc EXCEPT ![c] = "waiting"]
            /\ received' = received \cup {Request(c)}
            /\ UNCHANGED <<number, chan, pending>>
\* The subprocess is gone or reads no more.
WriteFails(c) == /\ pc[c] = "registered"
                 /\ Return(c, "failed")
                 /\ pending' = pending \ {Request(c)}
TakeAnswer(c) == /\ pc[c] = "waiting" /\ chan[c] \in {"answered", "closed"}
                 /\ Return(c, IF chan[c] = "closed" THEN "failed" ELSE "answered")
                 /\ UNCHANGED pending
\* Mutant: a call that gives up stays in the pending map.
TimeoutKeeping(c) == /\ pc[c] = "waiting"
                     /\ c = connect => ctxDone
                     /\ Return(c, "failed")
                     /\ UNCHANGED pending
\* The timeout of the call, or its context is cancelled.
Timeout(c) == /\ pc[c] = "waiting"
              /\ c = connect => ctxDone
              /\ Return(c, "failed")
              /\ pending' = pending \ {Request(c)}
SeeClosed(c) == /\ pc[c] = "waiting" /\ closeCh
                /\ Return(c, "failed")
                /\ UNCHANGED pending

Proceed(c) == /\ \/ Write(c)
                 \/ /\ Refuse(c) \/ Register(c) \/ WriteFails(c) \/ TakeAnswer(c) \/ SeeClosed(c)
                    /\ UNCHANGED received
              /\ UNCHANGED <<serverVars, closed, closeCh, reader, holding, closing, proc, stdoutOpen, stdout>>
GiveUp(c) == /\ Timeout(c)
             /\ UNCHANGED <<serverVars, closed, closeCh, reader, holding, closing, procVars>>

----------------------------------------------------------------------------
(* readLoop.                                                               *)

\* Every pending channel is closed and forgotten.
ReleaseAll == /\ chan' = [c \in Callers |-> IF Request(c) \in pending THEN "closed" ELSE chan[c]]
              /\ pending' = {}

\* Mutant: the request stays in the map while its answer is passed on.
MatchKeeping == /\ reader = "reading" /\ holding = {} /\ stdout # <<>>
                /\ stdout' = Tail(stdout)
                /\ holding' = {Head(stdout)} \cap pending
                /\ UNCHANGED <<chan, pending, closed, reader>>
\* An answer nobody waits for any more is dropped.
Match == /\ reader = "reading" /\ holding = {} /\ stdout # <<>>
         /\ stdout' = Tail(stdout)
         /\ holding' = {Head(stdout)} \cap pending
         /\ pending' = pending \ {Head(stdout)}
         /\ UNCHANGED <<chan, closed, reader>>
\* The channel has room for one answer; if its caller is gone, nobody sees it.
Deliver == \E r \in holding :
             /\ chan' = IF Request(r[1]) = r /\ chan[r[1]] # "none" THEN [chan EXCEPT ![r[1]] = "answered"] ELSE chan
             /\ holding' = {}
             /\ UNCHANGED <<pending, closed, stdout, reader>>
CanStop == reader = "reading" /\ holding = {} /\ (closeCh \/ (~stdoutOpen /\ stdout = <<>>))
\* Mutant: the deferred function marks the transport closed and no more.
ReaderStopsQuietly == /\ CanStop
                      /\ reader' = "gone" /\ closed' = TRUE
                      /\ stdout' = <<>>
                      /\ UNCHANGED <<chan, pending, holding>>
\* At the end of the pipe, or when the loop finds closeCh closed.  closeCh
\* itself stays open at the end of the pipe.
ReaderStops == /\ CanStop
               /\ reader' = "gone" /\ closed' = TRUE
               /\ ReleaseAll /\ stdout' = <<>>
               /\ UNCHANGED holding
ReadLoop == /\ Match \/ Deliver \/ ReaderStops
            /\ UNCHANGED <<serverVars, pc, number, closeCh, closing, proc, stdoutOpen, received>>

----------------------------------------------------------------------------
(* Close, by Connect when it fails and by Shutdown when it did not.        *)

\* A transport whose reader has ended counts as closed: the rest of Close,
\* with the Kill, is skipped.
CloseMark == /\ closing = "begun"
             /\ \/ /\ closed /\ closing' = "done"
                   /\ UNCHANGED <<chan, pending, closed, closeCh>>
                \/ /\ ~closed /\ closing' = "marked"
                   /\ closed' = TRUE /\ closeCh' = TRUE
                   /\ ReleaseAll
             /\ UNCHANGED <<serverVars, pc, number, reader, holding, procVars>>
CloseKill == /\ closing = "marked" /\ closing' = "done"
             /\ proc' = IF proc = "running" THEN "killed" ELSE proc
             /\ stdoutOpen' = FALSE /\ received' = {}
             /\ UNCHANGED <<serverVars, callVars, pending, closed, closeCh, reader, holding, stdout>>

----------------------------------------------------------------------------
(* Server.Connect, run once by DiscoverAndRegister, and Server.Shutdown.   *)

Start == /\ state = "disconnected" /\ proc = "none" /\ ~ctxDone
         /\ \/ /\ state' = "connecting"
               /\ proc' = "running" /\ stdoutOpen' = TRUE /\ reader' = "reading"
               /\ Enter({connect})
               /\ UNCHANGED ctxDone
            \/ /\ state' = "error" /\ ctxDone' = TRUE
               /\ UNCHANGED <<proc, stdoutOpen, reader, pc, number>>
         /\ UNCHANGED <<registered, errorCounts, chan, pending, closed, closeCh, holding, closing,
                        stdout, received>>
\* The answer to initialize is no error: the notification goes out on its own.
Initialized == /\ pc[connect] = "answered" /\ number[connect] = 1
               /\ Enter({connect, notify})
               /\ UNCHANGED <<serverVars, chan, transportVars, procVars>>
Discovered == /\ pc[connect] = "answered" /\ number[connect] = 2
              /\ state' = "ready" /\ Go(connect, "idle")
              /\ UNCHANGED <<ctxDone, registered, errorCounts, chan, transportVars, procVars>>
Deadline == /\ SlowConnect /\ state = "connecting" /\ ~ctxDone
            /\ ctxDone' = TRUE
            /\ UNCHANGED <<state, registered, errorCounts, callVars, transportVars, procVars>>
\* Mutant: the context of the subprocess outlives Connect.
ConnectReturnsOpen == /\ state = "ready" /\ ~registered
                      /\ registered' = TRUE
                      /\ UNCHANGED <<state, ctxDone, errorCounts, callVars, transportVars, procVars>>
\* The deferred cancel ends the context of the subprocess; then the server is
\* stored and its tools are registered.
ConnectReturns == /\ state = "ready" /\ ~registered
                  /\ ctxDone' = TRUE /\ registered' = TRUE
                  /\ UNCHANGED <<state, errorCounts, callVars, transportVars, procVars>>
\* No answer, or an error for an answer.
ConnectFails == /\ pc[connect] \in {"failed", "answered"}
                /\ Go(connect, "idle") /\ closing' = "begun"
                /\ UNCHANGED <<serverVars, chan, pending, closed, closeCh, reader, holding, procVars>>
FailureReturns == /\ state = "connecting" /\ closing = "done"
                  /\ state' = "error" /\ ctxDone' = TRUE
                  /\ UNCHANGED <<registered, errorCounts, callVars, transportVars, procVars>>
Shutdown == /\ state = "ready" /\ registered
            /\ state' = "shutting down" /\ closing' = "begun"
            /\ UNCHANGED <<ctxDone, registered, errorCounts, callVars, pending, closed, closeCh,
                           reader, holding, procVars>>
Stopped == /\ state = "shutting down" /\ closing = "done"
           /\ state' = "disconnected"
           /\ UNCHANGED <<ctxDone, registered, errorCounts, callVars, transportVars, procVars>>
\* ShutdownAll empties its maps when every server has stopped.
Forget == /\ state = "disconnected" /\ registered
          /\ registered' = FALSE /\ errorCounts' = 0
          /\ UNCHANGED <<state, ctxDone, callVars, transportVars, procVars>>
\* The goroutine ignores what becomes of the notification.
NotifyEnds == /\ pc[notify] \in {"failed", "answered"}
              /\ Go(notify, "idle")
              /\ UNCHANGED <<serverVars, chan, transportVars, procVars>>
Manage == \/ Start \/ Initialized \/ Discovered \/ ConnectReturns \/ ConnectFails
          \/ FailureReturns \/ Stopped \/ Forget \/ NotifyEnds
          \/ CloseMark \/ CloseKill

----------------------------------------------------------------------------
(* A tool handler of registerServerTools and Server.CallTool.  The tools    *)
(* stay registered after ShutdownAll.                                      *)

ToolsKnown == registered \/ (state = "disconnected" /\ closing = "done")
\* Mutant: the circuit breaker is not asked.
HandleAlways(w) == /\ pc[w] = "idle" /\ number[w] < MaxCalls /\ ToolsKnown
                   /\ Go(w, "admitted")
                   /\ UNCHANGED <<serverVars, chan, transportVars, procVars>>
\* The breaker lets the call pass.
Handle(w) == /\ pc[w] = "idle" /\ number[w] < MaxCalls
             /\ ToolsKnown
             /\ errorCounts < CircuitBreakerThreshold
             /\ Go(w, "admitted")
             /\ UNCHANGED <<serverVars, chan, transportVars, procVars>>
Lookup(w) == /\ pc[w] = "admitted"
             /\ \/ ~registered /\ Go(w, "idle")
                \/ registered /\ state # "ready" /\ Go(w, "failed")
                \/ registered /\ state = "ready" /\ Enter({w})
             /\ UNCHANGED <<serverVars, chan, transportVars, procVars>>
\* Mutant: a success takes one failure back instead of all.
CountDown(w) == /\ \/ pc[w] \in {"failed", "answered"} /\ errorCounts' = errorCounts + 1
                   \/ pc[w] = "answered" /\ errorCounts' = errorCounts - 1
                /\ Go(w, "idle")
                /\ UNCHANGED <<state, ctxDone, registered, chan, transportVars, procVars>>
\* An answer that reports an error counts as a failure.
Count(w) == /\ \/ pc[w] \in {"failed", "answered"} /\ errorCounts' = errorCounts + 1
               \/ pc[w] = "answered" /\ errorCounts' = 0
            /\ Go(w, "idle")
            /\ UNCHANGED <<state, ctxDone, registered, chan, transportVars, procVars>>

----------------------------------------------------------------------------
(* The subprocess: it answers what it has read, in any order and more than *)
(* once if it likes, may close its stdout, exit, or be killed by the       *)
(* goroutine of exec.CommandContext.  What it writes while nobody reads,   *)
(* or has read when it ends, makes no difference.                          *)

ServerAnswers == /\ proc = "running" /\ stdoutOpen /\ reader = "reading" /\ Len(stdout) < MaxLines
                 /\ \E r \in received : stdout' = Append(stdout, r)
                 /\ UNCHANGED <<serverVars, callVars, transportVars, proc, stdoutOpen, received>>
ServerCloses == /\ proc = "running" /\ stdoutOpen /\ stdoutOpen' = FALSE
                /\ \/ UNCHANGED <<proc, received>>
                   \/ proc' = "exited" /\ received' = {}
                /\ UNCHANGED <<serverVars, callVars, transportVars, stdout>>
KillOnCancel == /\ proc = "running" /\ ctxDone
                /\ proc' = "killed" /\ stdoutOpen' = FALSE /\ received' = {}
                /\ UNCHANGED <<serverVars, callVars, transportVars, stdout>>

Next == \/ \E c \in Callers : Proceed(c) \/ GiveUp(c)
        \/ \E w \in Workers : Handle(w) \/ Lookup(w) \/ Count(w)
        \/ ReadLoop \/ Manage \/ Deadline \/ Shutdown
        \/ ServerAnswers \/ ServerCloses \/ KillOnCancel

\* Every goroutine goes on while it can, and the operating system kills.  No
\* timeout fires, no answer comes and nobody shuts down by fairness.
Fairness == /\ \A c \in Callers : WF_vars(Proceed(c))
            /\ \A w \in Workers : WF_vars(Lookup(w)) /\ WF_vars(Count(w))
            /\ WF_vars(ReadLoop) /\ WF_vars(Manage) /\ WF_vars(KillOnCancel)
Spec == Init /\ [][Next]_vars
FairSpec == Spec /\ Fairness

----------------------------------------------------------------------------
Places == {"idle", "admitted", "entered", "registered", "waiting", "answered", "failed"}
CallType == /\ pc \in [Callers -> Places]
            /\ number \in [Callers -> Nat]
            /\ chan \in [Callers -> {"none", "open", "answered", "closed"}]
TransportType == /\ pending \subseteq Requests /\ holding \subseteq Requests
                 /\ closed \in BOOLEAN /\ closeCh \in BOOLEAN
                 /\ reader \in {"none", "reading", "gone"}
                 /\ closing \in {"no", "begun", "marked", "done"}
ServerType == /\ state \in {"disconnected", "connecting", "ready", "shutting down", "error"}
              /\ ctxDone \in BOOLEAN /\ registered \in BOOLEAN /\ errorCounts \in Nat
ProcType == /\ proc \in {"none", "running", "exited", "killed"} /\ stdoutOpen \in BOOLEAN
            /\ stdout \in Seq(Requests) /\ received \subseteq Requests
\* The values each variable may take.
TypeOK == CallType /\ TransportType /\ ServerType /\ ProcType

(* The pending map does not grow: it only holds requests whose Send has not *)
(* returned, however calls time out, fail to write or are answered late.   *)
InFlight == {Request(c) : c \in {d \in Callers : pc[d] \in {"registered", "waiting"}}}
PendingInFlight == pending \subseteq InFlight

(* Nobody waits out its timeout for nothing: while a call waits, its       *)
(* request is in the map of an open transport, or readLoop is about to     *)
(* pass its answer on, or its channel is ready, whether an answer, Close   *)
(* or the end of readLoop came first.                                      *)
NoneStranded ==
  \A c \in Callers : chan[c] = "open" =>
    \/ Request(c) \in pending /\ ~closed
    \/ Request(c) \in holding

(* readLoop passes an answer on without the lock: by then neither Close    *)
(* nor the timeout of the call may have closed its channel, which would    *)
(* panic, and the channel has room, so readLoop does not block.            *)
NoSendOnClosed == \A c \in Callers : Request(c) \in holding => chan[c] \in {"open", "none"}

(* Handlers ask the breaker before they call and count after: a server     *)
(* that only fails gets no more than the threshold less one, and one per   *)
(* concurrent handler, of consecutive failures.                            *)
Busy == {w \in Workers : pc[w] # "idle"}
BreakerBound == errorCounts + Cardinality(Busy) < CircuitBreakerThreshold + Cardinality(Workers)

(* Once the server's end of stdout is closed, by itself or by its death,   *)
(* every call returns without its timeout.                                 *)
GoneServerReleases ==
  \A c \in Callers : proc # "none" /\ ~stdoutOpen /\ pc[c] \in {"entered", "registered", "waiting"}
                       ~> pc[c] \notin {"entered", "registered", "waiting"}

(* The subprocess does not outlive Connect's failure or Shutdown, though   *)
(* Close skips the Kill when readLoop has ended before.                    *)
StoppedMeansGone == state = "error" \/ (state = "disconnected" /\ closing = "done") ~> proc # "running"

(* The package comment says that the tools of a server are called like any *)
(* built-in tool: nothing in the client kills the subprocess of a server   *)
(* that is ready.                                                          *)
ReadyNotKilled == state = "ready" => proc # "killed"
=============================================================================
