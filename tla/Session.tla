------------------------------ MODULE Session ------------------------------
(***************************************************************************)
(* One interactive session: the select loop of cmd/hermes/main.go with its *)
(* stdin and signal goroutines, the goroutine that runs AIAgent.Run for    *)
(* one turn, and the background children of delegate_task_async, whose     *)
(* results come back through AddNotification and NotifCh.                  *)
(*                                                                         *)
(* A line the user types is its number; commands that only print (/stats,  *)
(* /todo, ...) and blank lines change nothing and are left out.  A turn of *)
(* the graph executor (module Executor) is one step with any outcome.      *)
(*                                                                         *)
(* AIAgent.messages itself belongs to module Transcript: during a turn the *)
(* list may be replaced by a compressed copy of the graph's transcript     *)
(* (agent.go:486-488), intermediate assistant messages included.  Nothing  *)
(* the session does depends on its content.  What counts here is which     *)
(* lines and notifications Run has taken in and which answers it has given,*)
(* in order: the history variable `dialogue`.                              *)
(***************************************************************************)
EXTENDS Naturals, Sequences, FiniteSets

CONSTANTS
  NInputs,    \* how many lines the user types
  Tasks,      \* the delegate_task_async calls of the session
  MaxSignals, \* how many SIGINT and SIGTERM arrive
  Async,      \* pendingRun{"", "[async] "}: a turn for notifications only
  Quit,       \* the line /quit or /exit
  Reply,      \* an assistant message
  NoRun       \* a nil runCancel

Inputs == 1..NInputs
ASSUME SessionAssumption ==
  /\ NInputs \in Nat /\ MaxSignals \in Nat
  /\ {Async, Quit, Reply} \cap (Inputs \cup Tasks) = {} /\ Inputs \cap Tasks = {}
  /\ Async # Quit /\ Async # Reply /\ NoRun \notin Nat

VARIABLES
  task,          \* per background child: "unstarted", "running", "appended", "signalled"
  pendingNotifs, \* AIAgent.pendingNotifs
  signal,        \* notifCh holds its one element
  dialogue,      \* history: what each Run appended, first its input, then its answer
  typed, eof,    \* the user: lines typed, stdin closed
  stdin,         \* lines between the terminal and the select loop
  queue,         \* pending: turns waiting for the current one
  isRunning,
  runs,          \* the goroutines of startRun that have not yet delivered
  started,       \* runs started, which numbers them
  runCancel,     \* the run whose cancel function the pointer holds, or NoRun
  runDone,       \* runDoneCh, capacity 1
  mainPc,        \* "select", or "quitting" inside handleReplCommand
  sigCh, signals,\* the signal channel, capacity 2, and how many arrived
  handler,       \* the signal goroutine
  target,        \* the run whose cancel function the goroutine has loaded
  shutdown,      \* sync.OnceFunc(doShutdown): "open", "busy", "done"
  ctxDone,       \* cancel() was called
  exited,        \* main has returned: "no", "eof", "done"
  dropped        \* history: turns thrown away with an interrupted run
agentVars == <<task, pendingNotifs, signal, dialogue>>
userVars  == <<typed, eof, stdin, sigCh, signals>>
loopVars  == <<queue, isRunning, started, runDone, mainPc, dropped>>
exitVars  == <<handler, target, shutdown, ctxDone, exited>>
vars == <<agentVars, userVars, loopVars, exitVars, runs, runCancel>>

Elements(s) == {s[k] : k \in DOMAIN s}
Turns == Inputs \cup {Async}
Pcs == {"starting", "executing", "returned", "cleared"}
Outcomes == {"none", "ok", "error", "canceled"}
Run == [id : Nat, input : Turns, pc : Pcs, outcome : Outcomes, stopped : BOOLEAN]

Init == /\ task = [t \in Tasks |-> "unstarted"]
        /\ pendingNotifs = <<>> /\ signal = FALSE /\ dialogue = <<>>
        /\ typed = 0 /\ eof = FALSE /\ stdin = <<>>
        /\ queue = <<>> /\ isRunning = FALSE
        /\ runs = {} /\ started = 0 /\ runCancel = NoRun /\ runDone = <<>>
        /\ mainPc = "select" /\ sigCh = <<>> /\ signals = 0
        /\ handler = "waiting" /\ target = NoRun /\ shutdown = "open"
        /\ ctxDone = FALSE /\ exited = "no" /\ dropped = {}

Alive == exited = "no"

----------------------------------------------------------------------------
(* The user.                                                               *)

TypeLine == /\ ~eof /\ typed < NInputs
            /\ typed' = typed + 1 /\ stdin' = Append(stdin, typed + 1)
            /\ UNCHANGED <<eof, sigCh, signals>>
TypeQuit == /\ ~eof /\ Quit \notin Elements(stdin) /\ shutdown = "open"
            /\ stdin' = Append(stdin, Quit)
            /\ UNCHANGED <<typed, eof, sigCh, signals>>
CloseStdin == /\ ~eof /\ eof' = TRUE
              /\ UNCHANGED <<typed, stdin, sigCh, signals>>
\* signal.Notify does not block: a signal that finds the channel full is lost.
Signal(s) == /\ signals < MaxSignals /\ signals' = signals + 1
             /\ sigCh' = IF Len(sigCh) < 2 THEN Append(sigCh, s) ELSE sigCh
             /\ UNCHANGED <<typed, eof, stdin>>
User == /\ Alive
        /\ TypeLine \/ TypeQuit \/ CloseStdin \/ \E s \in {"INT", "TERM"} : Signal(s)
        /\ UNCHANGED <<agentVars, loopVars, exitVars, runs, runCancel>>

----------------------------------------------------------------------------
(* The select loop.  Which of several ready cases runs is arbitrary.       *)

startRun(turn) ==
  /\ started' = started + 1
  /\ runs' = runs \cup {[id |-> started + 1, input |-> turn, pc |-> "starting",
                         outcome |-> "none", stopped |-> FALSE]}
  /\ runCancel' = started + 1
  /\ isRunning' = TRUE

\* Mutant: a line is not queued behind the turn that runs.
SubmitAtOnce(turn) == startRun(turn) /\ UNCHANGED queue
\* A turn is queued behind the one that runs, or started.
Submit(turn) ==
  \/ /\ isRunning
     /\ queue' = Append(queue, turn)
     /\ UNCHANGED <<started, runs, runCancel, isRunning>>
  \/ ~isRunning /\ startRun(turn) /\ UNCHANGED queue

\* Mutant: /quit is not recognised as a command.
TakeAnyLine == /\ stdin # <<>>
               /\ stdin' = Tail(stdin)
               /\ Submit(Head(stdin))
               /\ UNCHANGED <<agentVars, typed, eof, sigCh, signals, runDone, mainPc, dropped, exitVars>>

TakeLine == /\ stdin # <<>> /\ Head(stdin) # Quit
            /\ stdin' = Tail(stdin)
            /\ Submit(Head(stdin))
            /\ UNCHANGED <<agentVars, typed, eof, sigCh, signals, runDone, mainPc, dropped, exitVars>>

TakeQuit == /\ stdin # <<>> /\ Head(stdin) = Quit
            /\ stdin' = Tail(stdin) /\ mainPc' = "quitting"
            /\ UNCHANGED <<agentVars, typed, eof, sigCh, signals, queue, isRunning, started,
                           runDone, dropped, exitVars, runs, runCancel>>

\* main returns without doShutdown.
TakeEOF == /\ stdin = <<>> /\ eof
           /\ exited' = "eof"
           /\ UNCHANGED <<agentVars, userVars, loopVars, handler, target, shutdown, ctxDone,
                          runs, runCancel>>

\* Mutant: only a turn without error hands over to the queue.
TakeResultStopOnError ==
  /\ runDone # <<>>
  /\ runDone' = Tail(runDone)
  /\ IF Head(runDone).outcome = "ok" /\ queue # <<>>
     THEN queue' = Tail(queue) /\ startRun(Head(queue))
     ELSE /\ isRunning' = FALSE
          /\ UNCHANGED <<queue, started, runs, runCancel>>
  /\ UNCHANGED <<dropped, agentVars, userVars, mainPc, exitVars>>

TakeResult ==
  /\ runDone # <<>>
  /\ runDone' = Tail(runDone)
  /\ \/ /\ Head(runDone).outcome = "canceled"
        /\ isRunning' = FALSE
        /\ queue' = <<>> /\ dropped' = dropped \cup Elements(queue)
        /\ UNCHANGED <<started, runs, runCancel>>
     \/ /\ Head(runDone).outcome # "canceled" /\ queue # <<>>
        /\ queue' = Tail(queue) /\ startRun(Head(queue))
        /\ UNCHANGED dropped
     \/ /\ Head(runDone).outcome # "canceled" /\ queue = <<>>
        /\ isRunning' = FALSE
        /\ UNCHANGED <<queue, dropped, started, runs, runCancel>>
  /\ UNCHANGED <<agentVars, userVars, mainPc, exitVars>>

\* Mutant: a signal during a turn is taken and forgotten.
TakeSignalWhenIdle ==
  /\ signal /\ signal' = FALSE
  /\ IF isRunning THEN UNCHANGED <<started, runs, runCancel, isRunning, queue>>
                  ELSE startRun(Async) /\ UNCHANGED queue
  /\ UNCHANGED <<task, pendingNotifs, dialogue, userVars, runDone, mainPc, dropped, exitVars>>
\* Mutant: a signal starts a turn at once, during another too.
TakeSignalAtOnce ==
  /\ signal /\ signal' = FALSE
  /\ startRun(Async)
  /\ UNCHANGED <<task, pendingNotifs, dialogue, userVars, runDone, mainPc, dropped, exitVars, queue>>

TakeSignal == /\ signal /\ signal' = FALSE
              /\ Submit(Async)
              /\ UNCHANGED <<task, pendingNotifs, dialogue, userVars, runDone, mainPc, dropped, exitVars>>

LeaveLoop == /\ ctxDone
             /\ exited' = "done"
             /\ UNCHANGED <<agentVars, userVars, loopVars, handler, target, shutdown, ctxDone,
                            runs, runCancel>>

Select == /\ Alive /\ mainPc = "select"
          /\ TakeLine \/ TakeQuit \/ TakeEOF \/ TakeResult \/ TakeSignal \/ LeaveLoop

----------------------------------------------------------------------------
(* doShutdown, once, by /quit or by the signal goroutine: whoever comes    *)
(* second waits for the first; each then cancels the root context.         *)

BeginShutdown == /\ shutdown = "open" /\ (mainPc = "quitting" \/ handler = "closing")
                 /\ shutdown' = "busy"
                 /\ UNCHANGED <<mainPc, handler, ctxDone>>
EndShutdown == /\ shutdown = "busy" /\ shutdown' = "done"
               /\ UNCHANGED <<mainPc, handler, ctxDone>>
QuitCancels == /\ mainPc = "quitting" /\ shutdown = "done"
               /\ mainPc' = "select" /\ ctxDone' = TRUE
               /\ UNCHANGED <<handler, shutdown>>
\* Mutant: the second caller of doShutdown does not wait for the first.
HandlerCancelsEarly == /\ handler = "closing" /\ shutdown # "open"
                       /\ handler' = "gone" /\ ctxDone' = TRUE
                       /\ UNCHANGED <<mainPc, shutdown>>
HandlerCancels == /\ handler = "closing" /\ shutdown = "done"
                  /\ handler' = "gone" /\ ctxDone' = TRUE
                  /\ UNCHANGED <<mainPc, shutdown>>
Shutdown == /\ Alive
            /\ BeginShutdown \/ EndShutdown \/ QuitCancels \/ HandlerCancels
            /\ UNCHANGED <<agentVars, userVars, queue, isRunning, started, runDone, dropped,
                           target, exited, runs, runCancel>>

----------------------------------------------------------------------------
(* The signal goroutine: SIGINT interrupts the current turn, if there is   *)
(* one; otherwise, like SIGTERM, it ends the session.  The pointer is      *)
(* loaded before the function it held is called.                           *)

HandleSignal ==
  /\ handler = "waiting" /\ sigCh # <<>>
  /\ sigCh' = Tail(sigCh)
  /\ \/ /\ Head(sigCh) = "INT" /\ runCancel # NoRun
        /\ handler' = "calling" /\ target' = runCancel
     \/ /\ Head(sigCh) = "TERM" \/ runCancel = NoRun
        /\ handler' = "closing" /\ UNCHANGED target
  /\ UNCHANGED runs
\* A turn that is over by then does not notice.
CallCancel ==
  /\ handler = "calling"
  /\ runs' = {[r EXCEPT !.stopped = @ \/ (r.id = target /\ r.pc \in {"starting", "executing"})]
              : r \in runs}
  /\ handler' = "waiting" /\ target' = NoRun
  /\ UNCHANGED sigCh
Handler == /\ Alive
           /\ HandleSignal \/ CallCancel
           /\ UNCHANGED <<agentVars, typed, eof, stdin, signals, loopVars, shutdown, ctxDone,
                          exited, runCancel>>

----------------------------------------------------------------------------
(* The goroutine of startRun.                                              *)

Become(r, pc, outcome) == runs' = (runs \ {r}) \cup {[r EXCEPT !.pc = pc, !.outcome = outcome]}

\* Mutant: the drained notifications stay in the list.
DrainKeeping(r) ==
  /\ r.pc = "starting"
  /\ dialogue' = (dialogue \o pendingNotifs) \o (IF r.input = Async THEN <<>> ELSE <<r.input>>)
  /\ signal' = FALSE
  /\ dropped' = dropped \ {Async}
  /\ IF r.input = Async /\ pendingNotifs = <<>> THEN Become(r, "returned", "ok")
                                                ELSE Become(r, "executing", "none")
  /\ UNCHANGED <<task, pendingNotifs, runCancel, runDone>>
\* Mutant: without the guard a turn that adds nothing is executed too.
DrainUnguarded(r) ==
  /\ r.pc = "starting"
  /\ dialogue' = (dialogue \o pendingNotifs) \o (IF r.input = Async THEN <<>> ELSE <<r.input>>)
  /\ pendingNotifs' = <<>> /\ signal' = FALSE
  /\ dropped' = dropped \ {Async}
  /\ Become(r, "executing", "none")
  /\ UNCHANGED <<task, runCancel, runDone>>

\* The first critical section of Run takes all notifications, forgets the
\* signal and adds the user's line; a turn that adds nothing returns at once.
Drain(r) ==
  /\ r.pc = "starting"
  /\ dialogue' = (dialogue \o pendingNotifs) \o (IF r.input = Async THEN <<>> ELSE <<r.input>>)
  /\ pendingNotifs' = <<>> /\ signal' = FALSE
  /\ dropped' = dropped \ {Async}
  /\ IF r.input = Async /\ pendingNotifs = <<>> THEN Become(r, "returned", "ok")
                                                ELSE Become(r, "executing", "none")
  /\ UNCHANGED <<task, runCancel, runDone>>

\* The delegate_task_async tool, called by the model during the turn.
Delegate(r, t) == /\ r.pc = "executing" /\ task[t] = "unstarted"
                  /\ task' = [task EXCEPT ![t] = "running"]
                  /\ UNCHANGED <<dialogue, pendingNotifs, signal, dropped, runs, runCancel, runDone>>

\* The last critical section of Run appends the answer, to whatever list the
\* compressions of the turn have left.
Answer(r) == /\ r.pc = "executing"
             /\ dialogue' = Append(dialogue, Reply)
             /\ Become(r, "returned", "ok")
             /\ UNCHANGED <<task, pendingNotifs, signal, dropped, runCancel, runDone>>

\* After an error, an interrupt of the graph or an empty reply Run appends
\* nothing; what a compression has done to the list by then is not undone and
\* is no part of `dialogue`.  A cancelled turn need not fail: an answer that
\* is cut while it is streamed is returned like a whole one.
ReturnSilently(r) ==
  /\ r.pc = "executing"
  /\ \E o \in {"ok", "error"} \cup (IF r.stopped \/ ctxDone THEN {"canceled"} ELSE {}) :
       Become(r, "returned", o)
  /\ UNCHANGED <<agentVars, dropped, runCancel, runDone>>

ClearCancel(r) == /\ r.pc = "returned" /\ runCancel' = NoRun
                  /\ Become(r, "cleared", r.outcome)
                  /\ UNCHANGED <<agentVars, dropped, runDone>>

Deliver(r) == /\ r.pc = "cleared" /\ Len(runDone) < 1
              /\ runDone' = Append(runDone, [outcome |-> r.outcome, stopped |-> r.stopped])
              /\ runs' = runs \ {r}
              /\ UNCHANGED <<agentVars, dropped, runCancel>>

Turn == /\ Alive
        /\ \E r \in runs : \/ Drain(r) \/ Answer(r) \/ ReturnSilently(r)
                           \/ ClearCancel(r) \/ Deliver(r)
        /\ UNCHANGED <<userVars, queue, isRunning, started, mainPc, exitVars>>
Delegation == /\ Alive
              /\ \E r \in runs, t \in Tasks : Delegate(r, t)
              /\ UNCHANGED <<userVars, queue, isRunning, started, mainPc, exitVars>>

----------------------------------------------------------------------------
(* A background child: it runs under a context of its own, a panic is      *)
(* recovered, and AddNotification appends under the lock and then signals  *)
(* without it.                                                             *)

AppendNotif(t) == /\ task[t] = "running"
                  /\ task' = [task EXCEPT ![t] = "appended"]
                  /\ pendingNotifs' = Append(pendingNotifs, t)
                  /\ UNCHANGED signal
\* Mutant: no signal while a turn runs, which is thought to drain the list.
SignalNotifWhenIdle(t) == /\ task[t] = "appended"
                          /\ task' = [task EXCEPT ![t] = "signalled"]
                          /\ signal' = (signal \/ ~isRunning)
                          /\ UNCHANGED pendingNotifs
SignalNotif(t) == /\ task[t] = "appended"
                  /\ task' = [task EXCEPT ![t] = "signalled"]
                  /\ signal' = TRUE
                  /\ UNCHANGED pendingNotifs
Child(t) == /\ Alive
            /\ AppendNotif(t) \/ SignalNotif(t)
            /\ UNCHANGED <<dialogue, userVars, loopVars, exitVars, runs, runCancel>>

Next == User \/ Select \/ Shutdown \/ Handler \/ Turn \/ Delegation \/ \E t \in Tasks : Child(t)

Spec == Init /\ [][Next]_vars
\* Every goroutine is scheduled, and a turn ends (Executor!Stops), a child's
\* turn too.  Select may pass a ready case over, but each case is taken a
\* bounded number of times in a session with bounded input.  The user owes
\* nothing, and no model call has to delegate.
FairSpec == /\ Spec
            /\ WF_vars(Select) /\ WF_vars(Shutdown) /\ WF_vars(Handler) /\ WF_vars(Turn)
            /\ \A t \in Tasks : WF_vars(Child(t))

----------------------------------------------------------------------------
\* The values each variable may take.
TypeOK ==
  /\ task \in [Tasks -> {"unstarted", "running", "appended", "signalled"}]
  /\ pendingNotifs \in Seq(Tasks) /\ signal \in BOOLEAN
  /\ dialogue \in Seq(Inputs \cup Tasks \cup {Reply})
  /\ typed \in 0..NInputs /\ eof \in BOOLEAN
  /\ stdin \in Seq(Inputs \cup {Quit}) /\ queue \in Seq(Turns)
  /\ isRunning \in BOOLEAN /\ runs \subseteq Run /\ started \in Nat
  /\ runCancel \in Nat \cup {NoRun} /\ target \in Nat \cup {NoRun}
  /\ runDone \in Seq([outcome : Outcomes, stopped : BOOLEAN])
  /\ mainPc \in {"select", "quitting"}
  /\ sigCh \in Seq({"INT", "TERM"}) /\ signals \in Nat
  /\ handler \in {"waiting", "calling", "closing", "gone"}
  /\ shutdown \in {"open", "busy", "done"} /\ ctxDone \in BOOLEAN
  /\ exited \in {"no", "eof", "done"}
  /\ dropped \subseteq Turns

(* A notification is neither lost nor delivered twice: from the moment a   *)
(* child hands it in, either it waits in the agent's list or one Run has   *)
(* taken it into the conversation, once, whatever the interleaving of      *)
(* AddNotification, the drain at the start of a turn, interrupts and       *)
(* failing turns.  A later compression may drop it from the conversation.  *)
Once(t, s) == \A j, k \in DOMAIN s : s[j] = t /\ s[k] = t => j = k
NotificationConserved ==
  \A t \in Tasks :
    /\ (t \in Elements(pendingNotifs) \/ t \in Elements(dialogue))
         <=> task[t] \in {"appended", "signalled"}
    /\ ~(t \in Elements(pendingNotifs) /\ t \in Elements(dialogue))
    /\ Once(t, pendingNotifs) /\ Once(t, dialogue)

(* A notification in the list always has a wake-up under way - the signal, *)
(* a child about to send it, a turn queued for it or about to drain the    *)
(* list - unless an interrupted turn took the queued turn with it.         *)
WakeUpPending ==
  pendingNotifs # <<>> /\ Async \notin dropped =>
    \/ signal
    \/ \E t \in Tasks : task[t] = "appended"
    \/ Async \in Elements(queue)
    \/ \E r \in runs : r.pc = "starting"

(* One turn at a time: isRunning stands for the one goroutine or for its   *)
(* result in the channel, so the channel never blocks a goroutine and no   *)
(* two turns share the conversation memory; and while the turn can still   *)
(* be interrupted, runCancel is its own cancel function, so a SIGINT does  *)
(* not end the session instead.                                            *)
OneRun == /\ Cardinality(runs) + Len(runDone) = (IF isRunning THEN 1 ELSE 0)
          /\ \A r \in runs : r.pc # "cleared" <=> runCancel = r.id

(* Run takes the lines in in the order they were typed, and at most once   *)
(* each, through stdin, the queue and the turn that carries them.          *)
InOrder(s) == \A j, k \in DOMAIN s : j < k /\ {s[j], s[k]} \subseteq Inputs => s[j] < s[k]
Before(A, B) == \A i \in A \cap Inputs, k \in B \cap Inputs : i < k
Carried == {r.input : r \in {q \in runs : q.pc = "starting"}}
InputsInOrder ==
  LET waiting == queue \o stdin
  IN /\ InOrder(dialogue) /\ InOrder(waiting)
     /\ Before(Elements(dialogue), Elements(waiting))
     /\ Before(Elements(dialogue), Carried) /\ Before(Carried, Elements(waiting))

(* Run gives no answer without something new to answer: since the answer   *)
(* before, it has taken in a line or a notification, though a turn is      *)
(* started for every signal and the notification may be gone by then.      *)
(* Assistant messages within a turn, which a compression may bring into    *)
(* AIAgent.messages, are not answers of Run.                               *)
NoUnpromptedReply ==
  \A k \in DOMAIN dialogue : dialogue[k] = Reply => k > 1 /\ dialogue[k - 1] # Reply

(* main leaves through the root context only after doShutdown is complete, *)
(* though either of two goroutines may run it and both cancel the context. *)
ExitAfterShutdown == ctxDone \/ exited = "done" => shutdown = "done"

(* An interrupted turn that reports its cancellation takes every queued    *)
(* turn with it; nothing else removes a queued line before it is said.     *)
(* So a line is said, dropped by an interrupt, or outlived by the session. *)
LineServed == \A i \in Inputs :
  i \in Elements(stdin) ~> \/ i \in Elements(dialogue) \/ i \in dropped \/ ~Alive

(* A finished child's notification reaches the conversation without the    *)
(* user doing anything, unless an interrupt dropped its wake-up or the     *)
(* session ends.                                                           *)
NotificationServed == \A t \in Tasks :
  task[t] = "running" ~> \/ t \in Elements(dialogue) \/ Async \in dropped \/ ~Alive

(* What delegate_task_async tells the model: "you will receive a           *)
(* <task-notification> message when it completes".                         *)
NotificationReceived == \A t \in Tasks :
  task[t] = "running" ~> t \in Elements(dialogue) \/ ctxDone \/ ~Alive

(* What main.go says of an interrupted turn: "discard queued inputs so     *)
(* stale commands don't replay".                                           *)
StaleNotReplayed ==
  [][(runDone # <<>> /\ Head(runDone).stopped /\ runDone' = <<>>) => queue' = <<>>]_vars
=============================================================================
