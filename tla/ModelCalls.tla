----------------------------- MODULE ModelCalls -----------------------------
(***************************************************************************)
(* Calls of a model provider (pkg/model/deepseek, pkg/model/openai) by     *)
(* several agents at a time: doRequestWithRetry, the assembly of a         *)
(* streamed answer in ChatStream, and the credential pool the calls share. *)
(*                                                                         *)
(* A credential is its place in the pool.  Instead of clocks, the longest  *)
(* back-off of a call (36 seconds) is taken to be shorter than the         *)
(* shortest cool-down of a credential (five minutes).  A chunk of a stream *)
(* is a piece of text or a piece of the tool call with a given index; its  *)
(* data is its position in the stream.  As the API documents, indices      *)
(* start at 0 and grow by one, and the piece that opens a call carries no  *)
(* arguments.  Chunks that ChatStream skips are left out.                  *)
(***************************************************************************)
EXTENDS Naturals, Sequences, FiniteSets

CONSTANTS
  Callers,    \* goroutines that call the provider: turns, children, tools
  Streaming,  \* those that call ChatStream, not Chat
  NKeys,      \* credentials of the pool, 0 without a pool
  Default,    \* the provider's own key, used when the pool has none to give
  MaxRetries,
  MaxCalls,   \* calls of one caller
  MaxChunks,  \* chunks of one stream
  Text,       \* the chunk kind that is no tool call
  Wrap        \* rrIndex is kept modulo Wrap

Keys == 1..NKeys
ASSUME ModelCallsAssumption ==
  /\ Streaming \subseteq Callers
  /\ NKeys \in Nat /\ MaxRetries \in Nat /\ MaxCalls \in Nat /\ MaxChunks \in Nat
  /\ Default \notin Nat /\ Text \notin Nat
  \* No count of available credentials notices that rrIndex wraps.
  /\ Wrap \in Nat \ {0} /\ \A n \in Keys : Wrap % n = 0

VARIABLES
  pc,       \* per caller: where its call stands, see Places
  attempt,  \* requests answered with an error so far
  cred,     \* the credential of the present or last request
  previous, \* history: that of the request before it in the same call
  made,     \* calls so far
  sent,     \* the chunks the server has sent for the present stream
  content,  \* fullMsg.Content
  toolCalls,\* toolCallsMap: index to arguments
  answer,   \* the message handed to the caller
  cooling,  \* the credentials whose coolUntil lies ahead
  resting,  \* per credential: the callers who began their back-off before its cool-down
  rrIndex
callVars == <<attempt, cred, previous, made>>
streamVars == <<sent, content, toolCalls, answer>>
poolVars == <<cooling, resting, rrIndex>>
vars == <<pc, callVars, streamVars, poolVars>>

Places == {"idle", "ready", "sent", "backoff", "streaming", "decoding", "answered", "failed"}
AtRest == {"idle", "answered", "failed"}
NoAnswer == [content |-> <<>>, calls |-> <<>>]

Init == /\ pc = [c \in Callers |-> "idle"] /\ attempt = [c \in Callers |-> 0]
        /\ cred = [c \in Callers |-> Default] /\ previous = [c \in Callers |-> Default]
        /\ made = [c \in Callers |-> 0]
        /\ sent = [c \in Callers |-> <<>>] /\ content = [c \in Callers |-> <<>>]
        /\ toolCalls = [c \in Callers |-> <<>>] /\ answer = [c \in Callers |-> NoAnswer]
        /\ cooling = {} /\ resting = [k \in Keys |-> {}] /\ rrIndex = 0

Go(c, place) == pc' = [pc EXCEPT ![c] = place]
\* doRequestWithRetry returns; its variables are gone.
Leave(c, place) == /\ Go(c, place)
                   /\ attempt' = [attempt EXCEPT ![c] = 0]
                   /\ cred' = [cred EXCEPT ![c] = Default]
                   /\ previous' = [previous EXCEPT ![c] = Default]

\* Chat and ChatStream begin alike.
Call(c) == /\ pc[c] \in AtRest /\ made[c] < MaxCalls
           /\ Go(c, "ready")
           /\ made' = [made EXCEPT ![c] = @ + 1]
           /\ sent' = [sent EXCEPT ![c] = <<>>]
           /\ content' = [content EXCEPT ![c] = <<>>]
           /\ toolCalls' = [toolCalls EXCEPT ![c] = <<>>]
           /\ answer' = [answer EXCEPT ![c] = NoAnswer]
           /\ UNCHANGED <<attempt, cred, previous, poolVars>>

----------------------------------------------------------------------------
(* The pool, under its lock, with the round-robin strategy main gives it.  *)

availableCredentials == Keys \ cooling
\* Acquire gives the credential with rrIndex available ones before it, counted
\* round, if there is any: a set of one element.
Acquire ==
  IF availableCredentials = {} THEN {Default}
  ELSE {k \in availableCredentials :
          Cardinality({j \in availableCredentials : j < k}) = rrIndex % Cardinality(availableCredentials)}
Advance == rrIndex' = IF availableCredentials = {} THEN rrIndex ELSE (rrIndex + 1) % Wrap

\* HandleError: every status cools the credential, a cool-down under way or
\* not, as seen by the callers that back off after it.
HandleError(k, waiting) ==
  /\ cooling' = cooling \cup ({k} \cap Keys)
  /\ resting' = IF k \in Keys THEN [resting EXCEPT ![k] = waiting] ELSE resting

\* A cool-down is longer than every back-off that had begun by then.
CoolDownEnds(k) == /\ k \in cooling /\ resting[k] = {}
                   /\ cooling' = cooling \ {k}
                   /\ UNCHANGED <<pc, callVars, streamVars, resting, rrIndex>>

----------------------------------------------------------------------------
(* doRequestWithRetry.                                                     *)

\* The first request, or the next when the back-off timer has fired.
Send(c) == /\ pc[c] \in {"ready", "backoff"}
           /\ Go(c, "sent")
           /\ previous' = [previous EXCEPT ![c] = cred[c]]
           /\ \E k \in Acquire : cred' = [cred EXCEPT ![c] = k]
           /\ Advance
           /\ resting' = [k \in Keys |-> resting[k] \ {c}]
           /\ UNCHANGED <<attempt, made, streamVars, cooling>>
\* The context is done at some moment of the back-off.
SleepCanceled(c) == /\ pc[c] = "backoff"
                    /\ Leave(c, "failed")
                    /\ resting' = [k \in Keys |-> resting[k] \ {c}]
                    /\ UNCHANGED <<made, streamVars, cooling, rrIndex>>

\* 200: ChatStream reads the body as a stream, Chat decodes it.
Accepted(c) == /\ pc[c] = "sent"
               /\ Leave(c, IF c \in Streaming THEN "streaming" ELSE "decoding")
               /\ UNCHANGED <<made, streamVars, poolVars>>
\* No response, for a broken connection, the client's timeout or a context
\* that is done: no status, so neither a cool-down nor a retry.
Unreachable(c) == /\ pc[c] = "sent"
                  /\ Leave(c, "failed")
                  /\ UNCHANGED <<made, streamVars, poolVars>>
BackingOff == {d \in Callers : pc[d] = "backoff"}
\* Mutant: only the error that ends the call is reported to the pool.
RefusedQuietly(c) ==
  /\ pc[c] = "sent"
  /\ \/ /\ attempt[c] < MaxRetries /\ Go(c, "backoff")
        /\ attempt' = [attempt EXCEPT ![c] = @ + 1]
        /\ UNCHANGED <<cred, previous, cooling, resting>>
     \/ Leave(c, "failed") /\ HandleError(cred[c], BackingOff)
  /\ UNCHANGED <<made, streamVars, rrIndex>>
\* Mutant: the loop does not count its attempts.
RefusedUncounted(c) ==
  /\ pc[c] = "sent"
  /\ \/ /\ Go(c, "backoff")
        /\ HandleError(cred[c], BackingOff \cup {c})
        /\ UNCHANGED <<attempt, cred, previous>>
     \/ Leave(c, "failed") /\ HandleError(cred[c], BackingOff)
  /\ UNCHANGED <<made, streamVars, rrIndex>>
\* Mutant: one attempt too many.
RefusedOnceMore(c) ==
  /\ pc[c] = "sent"
  /\ \/ /\ attempt[c] <= MaxRetries /\ Go(c, "backoff")
        /\ attempt' = [attempt EXCEPT ![c] = @ + 1]
        /\ HandleError(cred[c], BackingOff \cup {c})
        /\ UNCHANGED <<cred, previous>>
     \/ Leave(c, "failed") /\ HandleError(cred[c], BackingOff)
  /\ UNCHANGED <<made, streamVars, rrIndex>>
\* An error status is reported to the pool; if it is one that may pass, the
\* call backs off and tries again, MaxRetries times at most.
Refused(c) ==
  /\ pc[c] = "sent"
  /\ \/ /\ attempt[c] < MaxRetries /\ Go(c, "backoff")
        /\ attempt' = [attempt EXCEPT ![c] = @ + 1]
        /\ HandleError(cred[c], BackingOff \cup {c})
        /\ UNCHANGED <<cred, previous>>
     \/ Leave(c, "failed") /\ HandleError(cred[c], BackingOff)
  /\ UNCHANGED <<made, streamVars, rrIndex>>

Decoded(c) == /\ pc[c] = "decoding"
              /\ Go(c, "answered") \/ Go(c, "failed")
              /\ UNCHANGED <<callVars, streamVars, poolVars>>

----------------------------------------------------------------------------
(* The body of a streamed answer.                                          *)

With(f, i, x) == [j \in DOMAIN f \cup {i} |-> IF j = i THEN x ELSE f[j]]
\* Mutant: arguments go to the call opened last.
AbsorbLast(c, kind, n) ==
  IF kind = Text
  THEN content' = [content EXCEPT ![c] = Append(@, n)] /\ UNCHANGED toolCalls
  ELSE /\ toolCalls' = [toolCalls EXCEPT ![c] =
                          IF kind \notin DOMAIN @ THEN With(@, kind, <<>>)
                          ELSE LET i == Cardinality(DOMAIN @) - 1 IN With(@, i, Append(@[i], n))]
       /\ UNCHANGED content
\* ChatStream keeps the text and the arguments of each call in order; the
\* chunk that opens a call gives its id and name only.
Absorb(c, kind, n) ==
  IF kind = Text
  THEN content' = [content EXCEPT ![c] = Append(@, n)] /\ UNCHANGED toolCalls
  ELSE /\ toolCalls' = [toolCalls EXCEPT ![c] =
                          With(@, kind, IF kind \in DOMAIN @ THEN Append(@[kind], n) ELSE <<>>)]
       /\ UNCHANGED content
\* The next chunk of the stream, n-th of those that matter.
Chunk(c, kind) == /\ pc[c] = "streaming" /\ Len(sent[c]) < MaxChunks
                  /\ kind \in {Text} \cup 0..Cardinality(DOMAIN toolCalls[c])
                  /\ sent' = [sent EXCEPT ![c] = Append(@, kind)]
                  /\ Absorb(c, kind, Len(sent[c]) + 1)
                  /\ UNCHANGED <<pc, callVars, answer, poolVars>>

\* The members of a set of numbers from the least on.
Place(P, n) == Cardinality({m \in P : m <= n})
Ascending(P) == [j \in 1..Cardinality(P) |-> CHOOSE n \in {m \in P : Place(P, m) = j} : TRUE]
\* The calls are collected by counting up from index 0, as often as there are
\* calls.
Collect(f) ==
  LET found == Ascending({i \in DOMAIN f : i < Cardinality(DOMAIN f)})
  IN [j \in DOMAIN found |-> f[found[j]]]
\* [DONE], the end of the body, a read error, the client's timeout and a
\* context that is done all end the answer alike.
StreamEnds(c) == /\ pc[c] = "streaming"
                 /\ Go(c, "answered")
                 /\ answer' = [answer EXCEPT ![c] = [content |-> content[c], calls |-> Collect(toolCalls[c])]]
                 /\ UNCHANGED <<callVars, sent, content, toolCalls, poolVars>>

Step(c) == \/ Send(c) \/ SleepCanceled(c) \/ Accepted(c) \/ Unreachable(c) \/ Refused(c)
           \/ Decoded(c) \/ StreamEnds(c)
Next == \/ \E c \in Callers : Call(c) \/ Step(c)
        \/ \E c \in Callers, kind \in {Text} \cup 0..MaxChunks : Chunk(c, kind)
        \/ \E k \in Keys : CoolDownEnds(k)

Spec == Init /\ [][Next]_vars
\* The client's timeout of five minutes ends a request and the body it reads,
\* and the back-off timer fires.  Nobody has to call or to cancel, and no
\* cool-down has to end.
FairSpec == Spec /\ \A c \in Callers : WF_vars(Step(c))

----------------------------------------------------------------------------
\* The values each variable may take: no call makes more than MaxRetries + 1
\* requests, and callers only rest behind a cool-down during their back-off.
TypeOK ==
  /\ pc \in [Callers -> Places] /\ attempt \in [Callers -> 0..MaxRetries]
  /\ cred \in [Callers -> Keys \cup {Default}] /\ previous \in [Callers -> Keys \cup {Default}]
  /\ made \in [Callers -> 0..MaxCalls]
  /\ cooling \subseteq Keys /\ resting \in [Keys -> SUBSET BackingOff] /\ rrIndex \in Nat
  /\ sent \in [Callers -> Seq({Text} \cup Nat)]
  /\ \A c \in Callers : Len(sent[c]) <= MaxChunks

(* A retry never goes out with the credential that was just refused: while *)
(* its call backs off, neither the reports of other calls on the same      *)
(* credential, late ones too, nor the round-robin index over a changing    *)
(* list bring it back.  Only the provider's own key may be used again.     *)
RetryChangesKey == \A c \in Callers :
  pc[c] = "sent" /\ cred[c] # Default => cred[c] # previous[c]

(* What a stream means: its text in order, and for each tool call the      *)
(* arguments after the chunk that opened it.                               *)
Positions(s, kind) == Ascending({n \in 1..Len(s) : s[n] = kind})
Kinds(s) == {s[n] : n \in 1..Len(s)} \ {Text}
Meaning(s) ==
  [content |-> Positions(s, Text),
   calls |-> [j \in 1..Cardinality(Kinds(s)) |-> Tail(Positions(s, j - 1))]]

(* A streamed answer is what the server sent up to the end of the stream,  *)
(* wherever it is cut and however the pieces of several tool calls and of  *)
(* the text alternate.                                                     *)
AnswerFaithful == \A c \in Callers : pc[c] = "answered" => answer[c] = Meaning(sent[c])

(* Every call returns, an answer or an error, though servers refuse,       *)
(* streams stall and all credentials cool.                                 *)
CallReturns == \A c \in Callers : pc[c] \notin AtRest ~> pc[c] \in AtRest

\* What is left of a call: two steps for every request, and one for the body.
StepsLeft(c) ==
  CASE pc[c] \in {"ready", "backoff"}      -> 2 * (MaxRetries - attempt[c]) + 3
    [] pc[c] = "sent"                      -> 2 * (MaxRetries - attempt[c]) + 2
    [] pc[c] \in {"streaming", "decoding"} -> 1
    [] OTHER                               -> 0
(* Why it does: each step of a call takes from what is left of it, and     *)
(* nothing that other calls or the pool do, nor a chunk, gives any of it   *)
(* back.                                                                   *)
CallSpends ==
  [][ \A c \in Callers : /\ Step(c) => StepsLeft(c)' \in 0..(StepsLeft(c) - 1)
                         /\ pc[c] \notin AtRest => StepsLeft(c)' \in 0..StepsLeft(c) ]_vars
=============================================================================
