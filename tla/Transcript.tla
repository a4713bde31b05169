----------------------------- MODULE Transcript -----------------------------
(***************************************************************************)
(* The conversation of one agent as the model provider sees it: what the   *)
(* LLM and tool runners append to ConversationMemory during a turn of the  *)
(* default graph (llm, route, dispatch_tools, compress, end), the          *)
(* goroutines that run the tool calls of one answer, and the compressor    *)
(* that replaces the middle of the history by a summary.                   *)
(*                                                                         *)
(* A message is its role and the tool calls it makes or answers.  How many *)
(* tokens a message has is data: where the protected tail starts, whether  *)
(* compression is wanted and whether it saves enough are arbitrary.  The   *)
(* provider gives each tool call an id of its own, and no tool takes a     *)
(* parameter named tool_call_id.                                           *)
(***************************************************************************)
EXTENDS Naturals, Sequences, FiniteSets, SequencesExt

CONSTANTS
  MaxTurns,   \* turns of the session
  MaxRounds,  \* LLM answers of one turn (MaxSteps counts three nodes each)
  MaxCalls    \* tool calls of one answer

ASSUME TranscriptAssumption ==
  MaxTurns \in Nat /\ MaxRounds \in Nat /\ MaxCalls \in Nat

headProtectCount == 3

VARIABLES
  convMem,  \* ConversationMemory.Messages, read by every LLM call
  messages, \* AIAgent.messages, what the next turn starts from
  pc,       \* the node of the graph, "idle" between turns
  open,     \* tool calls whose goroutine has not finished
  nameless, \* those among them without a function name
  failed,   \* dispatchToolCalls: firstErr is set
  lastId,   \* the tool calls made so far, which numbers them
  turns, rounds
vars == <<convMem, messages, pc, open, nameless, failed, lastId, turns, rounds>>

Roles == {"system", "user", "assistant", "summary", "tool"}
Message == [role : Roles, calls : SUBSET Nat, answers : Nat]
Plain(role) == [role |-> role, calls |-> {}, answers |-> 0]
Calling(ids) == [role |-> "assistant", calls |-> ids, answers |-> 0]
Answering(id) == [role |-> "tool", calls |-> {}, answers |-> id]

Init == /\ convMem = <<>> /\ messages = <<Plain("system")>>
        /\ pc = "idle" /\ open = {} /\ nameless = {} /\ failed = FALSE
        /\ lastId = 0 /\ turns = 0 /\ rounds = 0

\* Run copies the agent's history, with the new line, into ConvMem: what an
\* earlier turn left there is gone.
Begin == /\ pc = "idle" /\ turns < MaxTurns
         /\ turns' = turns + 1 /\ rounds' = 0
         /\ messages' = Append(messages, Plain("user"))
         /\ convMem' = messages'
         /\ pc' = "llm"
         /\ UNCHANGED <<open, nameless, failed, lastId>>

\* The turn ends with an error before its node has done anything: the LLM call
\* fails for good, or the step budget is used up.
Fail == /\ \/ pc \in {"llm", "compress"}
           \/ pc = "dispatch_tools" /\ open = Last(convMem).calls
        /\ pc' = "idle" /\ open' = {} /\ nameless' = {} /\ failed' = FALSE
        /\ UNCHANGED <<convMem, messages, lastId, turns, rounds>>

\* The LLM runner appends the answer, and the choice node looks at its tool
\* calls first, then at the need for compression.
AskForTools(n, without) ==
  LET ids == (lastId + 1)..(lastId + n)
  IN /\ pc = "llm" /\ rounds < MaxRounds /\ rounds' = rounds + 1
     /\ without \subseteq ids
     /\ convMem' = Append(convMem, Calling(ids))
     /\ open' = ids /\ nameless' = without /\ failed' = FALSE
     /\ lastId' = lastId + n
     /\ pc' = "dispatch_tools"
     /\ UNCHANGED <<messages, turns>>

AnswerLong == /\ pc = "llm" /\ rounds < MaxRounds /\ rounds' = rounds + 1
              /\ convMem' = Append(convMem, Plain("assistant"))
              /\ pc' = "compress"
              /\ UNCHANGED <<messages, open, nameless, failed, lastId, turns>>

\* The end node, and the reply Run adds to the agent's own history.
AnswerFinally == /\ pc = "llm" /\ rounds < MaxRounds /\ rounds' = rounds + 1
                 /\ convMem' = Append(convMem, Plain("assistant"))
                 /\ messages' = Append(messages, Plain("assistant"))
                 /\ pc' = "idle"
                 /\ UNCHANGED <<open, nameless, failed, lastId, turns>>

----------------------------------------------------------------------------
(* dispatchToolCalls: one goroutine per call, all awaited.  RegistryAdapter *)
(* turns every failure of a tool into its output, so each call that has a   *)
(* function name gets its answer, whatever the context.                     *)

RunTool(c) == /\ pc = "dispatch_tools" /\ c \in open \ nameless
              /\ convMem' = Append(convMem, Answering(c))
              /\ open' = open \ {c}
              /\ UNCHANGED <<messages, pc, nameless, failed, lastId, turns, rounds>>

MissName(c) == /\ pc = "dispatch_tools" /\ c \in open \cap nameless
               /\ open' = open \ {c} /\ failed' = TRUE
               /\ UNCHANGED <<convMem, messages, pc, nameless, lastId, turns, rounds>>

\* Mutant: the node returns while calls are still running.
JoinEarly == /\ pc = "dispatch_tools"
             /\ pc' = IF failed THEN "idle" ELSE "llm"
             /\ open' = {} /\ nameless' = {} /\ failed' = FALSE
             /\ UNCHANGED <<convMem, messages, lastId, turns, rounds>>
\* Mutant: the node returns with its first error, as an errgroup would.
JoinAtError == /\ pc = "dispatch_tools"
               /\ open = {} \/ failed
               /\ pc' = IF failed THEN "idle" ELSE "llm"
               /\ nameless' = {} /\ failed' = FALSE
               /\ UNCHANGED <<convMem, messages, open, lastId, turns, rounds>>
\* A call without a name fails the node, and with it the turn: the default
\* graph has neither Catch nor OnError there.
Join == /\ pc = "dispatch_tools" /\ open = {}
        /\ pc' = IF failed THEN "idle" ELSE "llm"
        /\ nameless' = {} /\ failed' = FALSE
        /\ UNCHANGED <<convMem, messages, open, lastId, turns, rounds>>

----------------------------------------------------------------------------
(* Compress.  Positions count from the first message after the protected   *)
(* head.  No code adds a TODO reminder, so the branch that keeps the last   *)
(* one is left out.                                                         *)

\* The position in s, before `start`, of the answer that made call c: a set
\* with at most one element.
CallOf(s, start, c) == {j \in 1..(start - 1) : c \in s[j].calls}

\* Mutant: the tail starts where the token budget ends.
chainStartCut(s, start) == start
\* protectTail moves a start at a tool result to the answer that asked for it.
chainStart(s, start) ==
  IF s[start].role = "tool" /\ CallOf(s, start, s[start].answers) # {}
  THEN CHOOSE j \in CallOf(s, start, s[start].answers) : TRUE
  ELSE start

\* What is left when the tail starts at position `start` of s; an empty
\* middle leaves all.
Summarized(head, s, start) ==
  IF start = 1 THEN head \o s
  ELSE (head \o <<Plain("summary")>>) \o SubSeq(s, start, Len(s))

\* The results of Compress: too short, no middle, a failed summary or too
\* small a saving return the messages (with shorter tool outputs).
Compressed(all) ==
  {all} \cup
  IF Len(all) <= headProtectCount + 2 THEN {}
  ELSE LET head == SubSeq(all, 1, headProtectCount)
           rest == SubSeq(all, headProtectCount + 1, Len(all))
       IN {Summarized(head, rest, chainStart(rest, i)) : i \in 1..Len(rest)}

\* Mutant: the agent's history keeps what it had.
CompressConvMemOnly == /\ pc = "compress" /\ pc' = "llm"
                       /\ convMem' \in Compressed(convMem)
                       /\ UNCHANGED <<messages, open, nameless, failed, lastId, turns, rounds>>
\* CompressFn works on ConvMem and replaces the agent's history as well.
Compress == /\ pc = "compress" /\ pc' = "llm"
            /\ convMem' \in Compressed(convMem)
            /\ messages' = convMem'
            /\ UNCHANGED <<open, nameless, failed, lastId, turns, rounds>>
\* A last message above the budget leaves the tail empty, and protectTail
\* indexes past the end: no recover stands between it and the process.
CompressPanics == /\ pc = "compress" /\ Len(convMem) > headProtectCount + 2
                  /\ pc' = "crashed"
                  /\ UNCHANGED <<convMem, messages, open, nameless, failed, lastId, turns, rounds>>

Next == \/ Begin \/ Fail \/ AnswerLong \/ AnswerFinally
        \/ \E n \in 1..MaxCalls : \E without \in SUBSET ((lastId + 1)..(lastId + n)) : AskForTools(n, without)
        \/ \E c \in open : RunTool(c) \/ MissName(c)
        \/ Join \/ Compress \/ CompressPanics

Spec == Init /\ [][Next]_vars

----------------------------------------------------------------------------
\* The values each variable may take; no tool call outlives its node.
TypeOK == /\ convMem \in Seq(Message) /\ messages \in Seq(Message)
          /\ pc \in {"idle", "llm", "dispatch_tools", "compress", "crashed"}
          /\ open \subseteq 1..lastId /\ nameless \subseteq 1..lastId /\ failed \in BOOLEAN
          /\ pc # "dispatch_tools" => open = {} /\ nameless = {} /\ ~failed
          /\ lastId \in Nat /\ turns \in 0..MaxTurns /\ rounds \in 0..MaxRounds

(* The API rejects a tool message that lacks a matching assistant          *)
(* tool_calls entry: whatever the order in which tools finish, wherever a  *)
(* turn fails and however often the history is compressed, every tool      *)
(* result in it comes after the answer that asked for it.                  *)
ResultsMatched(s) ==
  \A k \in DOMAIN s : s[k].role = "tool" =>
    \E j \in 1..(k - 1) : s[k].answers \in s[j].calls
ResultHasCall == ResultsMatched(convMem) /\ ResultsMatched(messages)

(* Nor may tool calls stay unanswered: whenever the model is called, each  *)
(* answer with tool calls is followed at once by one result for each, and  *)
(* the history the next turn starts from never holds a broken chain,       *)
(* though turns fail and are interrupted amid their tool calls.  Only the  *)
(* protected head, which compression cuts from its chain, is exempt.       *)
ChainAt(s, k) ==
  LET n == Cardinality(s[k].calls)
  IN /\ k + n <= Len(s)
     /\ {s[k + i].answers : i \in 1..n} = s[k].calls
ChainsWhole(s) == \A k \in DOMAIN s : k > headProtectCount /\ s[k].calls # {} => ChainAt(s, k)
ChainsAnswered == ChainsWhole(messages) /\ (pc = "llm" => ChainsWhole(convMem))

(* Within a turn the two histories agree on what came before it: when the  *)
(* LLM is called, the agent's history is a prefix of what the model sees,  *)
(* so that a turn that fails can be forgotten and what a turn compressed   *)
(* is what the next one starts from.                                       *)
HistoryIsPrefix == pc = "llm" => IsPrefix(messages, convMem)

(* What compressor.go says of protectTail: if the tail holds a tool        *)
(* result, the answer with the matching tool_calls is in the tail too.     *)
TailChain ==
  \A s \in 1..Len(convMem) : convMem[s].role = "summary" =>
    \A k \in (s + 1)..Len(convMem) : convMem[k].role = "tool" =>
      \E j \in (s + 1)..(k - 1) : convMem[k].answers \in convMem[j].calls
=============================================================================
