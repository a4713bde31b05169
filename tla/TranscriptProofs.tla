-------------------------- MODULE TranscriptProofs --------------------------
(***************************************************************************)
(* What holds of the conversation whatever the number of turns, answers    *)
(* and tool calls: its types, that the agent's history is a prefix of what *)
(* the model sees, and that tool calls and their results stay together.    *)
(***************************************************************************)
EXTENDS Transcript, SequenceTheorems, FiniteSetTheorems, TLAPS

LEMMA Messages ==
  /\ \A role \in Roles : Plain(role) \in Message
  /\ \A ids \in SUBSET Nat : Calling(ids) \in Message
  /\ \A id \in Nat : Answering(id) \in Message
  BY DEF Plain, Calling, Answering, Message, Roles

LEMMA Appending ==
  ASSUME NEW s \in Seq(Message), NEW x \in Message
  PROVE  /\ Append(s, x) \in Seq(Message) /\ Len(s) \in Nat /\ Len(Append(s, x)) = Len(s) + 1
         /\ DOMAIN s = 1..Len(s) /\ DOMAIN Append(s, x) = 1..(Len(s) + 1)
         /\ \A i \in 1..Len(s) : Append(s, x)[i] = s[i]
         /\ Append(s, x)[Len(s) + 1] = x
<1>1. /\ Append(s, x) \in Seq(Message) /\ Len(Append(s, x)) = Len(s) + 1
      /\ \A i \in 1..Len(s) : Append(s, x)[i] = s[i]
      /\ Append(s, x)[Len(s) + 1] = x
  BY AppendProperties
<1>2. Len(s) \in Nat /\ DOMAIN s = 1..Len(s)
  BY LenProperties
<1>3. DOMAIN Append(s, x) = 1..Len(Append(s, x))
  BY <1>1, LenProperties
<1> QED BY <1>1, <1>2, <1>3

LEMMA Joining ==
  ASSUME NEW s \in Seq(Message), NEW t \in Seq(Message)
  PROVE  /\ s \o t \in Seq(Message) /\ Len(s \o t) = Len(s) + Len(t)
         /\ \A i \in 1..Len(s) : (s \o t)[i] = s[i]
         /\ \A i \in 1..Len(t) : (s \o t)[Len(s) + i] = t[i]
<1>1. Len(s) \in Nat /\ Len(t) \in Nat
  BY LenProperties
<1>2. /\ s \o t \in Seq(Message) /\ Len(s \o t) = Len(s) + Len(t)
      /\ \A i \in 1..(Len(s) + Len(t)) : (s \o t)[i] = IF i <= Len(s) THEN s[i] ELSE t[i - Len(s)]
  BY ConcatProperties
<1>3. ASSUME NEW i \in 1..Len(t) PROVE (s \o t)[Len(s) + i] = t[i]
  <2>1. Len(s) + i \in 1..(Len(s) + Len(t)) /\ ~ (Len(s) + i <= Len(s)) /\ (Len(s) + i) - Len(s) = i
    BY <1>1
  <2> QED BY <1>2, <2>1
<1>4. ASSUME NEW i \in 1..Len(s) PROVE (s \o t)[i] = s[i]
  <2>1. i \in 1..(Len(s) + Len(t)) /\ i <= Len(s)
    BY <1>1
  <2> QED BY <1>2, <2>1
<1> QED BY <1>2, <1>3, <1>4

----------------------------------------------------------------------------
(* What Compress returns.                                                   *)

\* An answer makes finitely many calls, and a tool result makes none.
Sane(s) == \A k \in DOMAIN s : /\ IsFiniteSet(s[k].calls)
                               /\ s[k].role = "tool" => s[k].calls = {}
\* r is s without its messages 4 to 4 + d, with a summary in their place.
Cut(s, r, d) ==
  /\ d \in 0..(Len(s) - 5) /\ r \in Seq(Message) /\ Len(r) = Len(s) - d
  /\ \A k \in 1..3 : r[k] = s[k]
  /\ r[4] = Plain("summary")
  /\ \A k \in 5..Len(r) : r[k] = s[k + d]
\* A tool result that comes first after the cut has no call in what is cut.
FirstKept(s, d) ==
  s[5 + d].role = "tool" => \A j \in 4..(4 + d) : s[5 + d].answers \notin s[j].calls

LEMMA ChainStartIn ==
  ASSUME NEW s, NEW start \in Nat \ {0}
  PROVE  chainStart(s, start) \in 1..start
<1> DEFINE C == CallOf(s, start, s[start].answers)
<1>1. C \subseteq 1..start
  BY DEF CallOf
<1>2. CASE s[start].role = "tool" /\ C # {}
  <2>1. (CHOOSE j \in C : TRUE) \in C
    BY <1>2
  <2> QED BY <1>1, <1>2, <2>1 DEF chainStart
<1>3. CASE ~ (s[start].role = "tool" /\ C # {})
  BY <1>3 DEF chainStart
<1> QED BY <1>2, <1>3

\* protectTail leaves no start at a result whose call it has cut off.
LEMMA ChainStartWhole ==
  ASSUME NEW s, NEW start \in Nat \ {0},
         \A i \in 1..start : s[i].role = "tool" => s[i].calls = {},
         NEW q, q = chainStart(s, start), s[q].role = "tool"
  PROVE  CallOf(s, q, s[q].answers) = {}
<1> DEFINE C == CallOf(s, start, s[start].answers)
<1>1. CASE s[start].role = "tool" /\ C # {}
  <2>1. (CHOOSE j \in C : TRUE) \in C
    BY <1>1
  <2>2. q \in C
    BY <1>1, <2>1 DEF chainStart
  <2>3. q \in 1..start /\ s[q].calls # {}
    BY <2>2 DEF CallOf
  <2> QED BY <2>3
<1>2. CASE ~ (s[start].role = "tool" /\ C # {})
  BY <1>2 DEF chainStart
<1> QED BY <1>1, <1>2

\* The head and the rest of the messages are all of them.
LEMMA HeadAndRest ==
  ASSUME NEW s \in Seq(Message), Len(s) > 5
  PROVE  /\ SubSeq(s, 1, 3) \in Seq(Message) /\ Len(SubSeq(s, 1, 3)) = 3
         /\ \A i \in 1..3 : SubSeq(s, 1, 3)[i] = s[i]
         /\ SubSeq(s, 4, Len(s)) \in Seq(Message) /\ Len(SubSeq(s, 4, Len(s))) = Len(s) - 3
         /\ \A i \in 1..(Len(s) - 3) : SubSeq(s, 4, Len(s))[i] = s[i + 3]
<1>1. Len(s) \in Nat /\ \A i \in 1..Len(s) : s[i] \in Message
  BY LenProperties, ElementOfSeq
<1>2. (\A i \in 1..3 : s[i] \in Message) /\ (\A i \in 4..Len(s) : s[i] \in Message)
  BY <1>1
<1>3. /\ SubSeq(s, 1, 3) \in Seq(Message) /\ Len(SubSeq(s, 1, 3)) = 3 - 1 + 1
      /\ \A i \in 1..(3 - 1 + 1) : SubSeq(s, 1, 3)[i] = s[1 + i - 1]
  BY <1>2, SubSeqProperties
<1>4. /\ SubSeq(s, 4, Len(s)) \in Seq(Message) /\ Len(SubSeq(s, 4, Len(s))) = Len(s) - 4 + 1
      /\ \A i \in 1..(Len(s) - 4 + 1) : SubSeq(s, 4, Len(s))[i] = s[4 + i - 1]
  BY <1>1, <1>2, SubSeqProperties
<1> QED BY <1>1, <1>3, <1>4

LEMMA SummarizedCut ==
  ASSUME NEW s \in Seq(Message), Len(s) > 5, NEW start \in 1..(Len(s) - 3),
         NEW r, r = Summarized(SubSeq(s, 1, 3), SubSeq(s, 4, Len(s)), start)
  PROVE  IF start = 1 THEN r = s ELSE Cut(s, r, start - 2)
<1> DEFINE head == SubSeq(s, 1, 3)
           rest == SubSeq(s, 4, Len(s))
           n == Len(s)
<1>1. /\ n \in Nat /\ n > 5
      /\ head \in Seq(Message) /\ Len(head) = 3 /\ (\A i \in 1..3 : head[i] = s[i])
      /\ rest \in Seq(Message) /\ Len(rest) = n - 3 /\ (\A i \in 1..(n - 3) : rest[i] = s[i + 3])
  BY LenProperties, HeadAndRest
<1> HIDE DEF head, rest, n
<1>2. CASE start = 1
  <2>1. /\ head \o rest \in Seq(Message) /\ Len(head \o rest) = 3 + (n - 3)
        /\ \A i \in 1..3 : (head \o rest)[i] = s[i]
        /\ \A i \in 1..(n - 3) : (head \o rest)[3 + i] = s[i + 3]
    <3>1. /\ head \o rest \in Seq(Message) /\ Len(head \o rest) = Len(head) + Len(rest)
          /\ \A i \in 1..Len(head) : (head \o rest)[i] = head[i]
          /\ \A i \in 1..Len(rest) : (head \o rest)[Len(head) + i] = rest[i]
      BY <1>1, Joining
    <3> QED BY <1>1, <3>1
  <2>2. ASSUME NEW i \in 1..n PROVE (head \o rest)[i] = s[i]
    <3>1. i <= 3 => i \in 1..3
      BY <1>1
    <3>2. i > 3 => i - 3 \in 1..(n - 3) /\ 3 + (i - 3) = i /\ (i - 3) + 3 = i
      BY <1>1
    <3>3. i <= 3 \/ i > 3
      BY <1>1
    <3> QED BY <2>1, <3>1, <3>2, <3>3
  <2>3. head \o rest = s
    BY <1>1, <2>1, <2>2, SeqEqual DEF n
  <2> QED BY <1>2, <2>3 DEF Summarized, head, rest
<1>3. CASE start # 1
  <2> DEFINE top == head \o <<Plain("summary")>>
             tail == SubSeq(rest, start, Len(rest))
  <2>1. start \in 2..(n - 3) /\ r = top \o tail
    BY <1>1, <1>3 DEF Summarized, head, rest, n
  <2>2. <<Plain("summary")>> \in Seq(Message) /\ Len(<<Plain("summary")>>) = 1
    BY Messages DEF Roles
  <2>3. /\ top \in Seq(Message) /\ Len(top) = 4 /\ top[4] = Plain("summary")
        /\ \A i \in 1..3 : top[i] = s[i]
    <3> DEFINE one == <<Plain("summary")>>
    <3>1. one[1] = Plain("summary")
      OBVIOUS
    <3> HIDE DEF one
    <3>2. /\ head \o one \in Seq(Message) /\ Len(head \o one) = Len(head) + Len(one)
          /\ \A i \in 1..Len(head) : (head \o one)[i] = head[i]
          /\ \A i \in 1..Len(one) : (head \o one)[Len(head) + i] = one[i]
      BY <1>1, <2>2, Joining DEF one
    <3> QED BY <1>1, <2>2, <3>1, <3>2 DEF one
  <2>4. /\ tail \in Seq(Message) /\ Len(tail) = n - 2 - start
        /\ \A i \in 1..(n - 2 - start) : tail[i] = rest[start + i - 1]
    <3>1. \A i \in 1..(n - 3) : rest[i] \in Message
      BY <1>1, ElementOfSeq
    <3>2. \A i \in start..(n - 3) : rest[i] \in Message
      BY <2>1, <3>1
    <3>3. /\ SubSeq(rest, start, n - 3) \in Seq(Message)
          /\ Len(SubSeq(rest, start, n - 3)) = IF start <= n - 3 THEN (n - 3) - start + 1 ELSE 0
          /\ \A i \in 1..((n - 3) - start + 1) : SubSeq(rest, start, n - 3)[i] = rest[start + i - 1]
      BY <1>1, <2>1, <3>2, SubSeqProperties
    <3> QED BY <1>1, <2>1, <3>3
  <2> HIDE DEF top, tail
  <2>6. /\ r \in Seq(Message) /\ Len(r) = 4 + (n - 2 - start)
        /\ \A i \in 1..4 : r[i] = top[i]
        /\ \A i \in 1..(n - 2 - start) : r[4 + i] = tail[i]
    <3>1. /\ top \o tail \in Seq(Message) /\ Len(top \o tail) = Len(top) + Len(tail)
          /\ \A i \in 1..Len(top) : (top \o tail)[i] = top[i]
          /\ \A i \in 1..Len(tail) : (top \o tail)[Len(top) + i] = tail[i]
      BY <2>3, <2>4, Joining
    <3> QED BY <2>1, <2>3, <2>4, <3>1
  <2>7. Len(r) = n - (start - 2) /\ start - 2 \in 0..(n - 5)
    BY <1>1, <2>1, <2>6
  <2>8. \A k \in 1..3 : r[k] = s[k]
    BY <1>1, <2>1, <2>3, <2>6
  <2>9. r[4] = Plain("summary")
    BY <2>3, <2>6
  <2>10. ASSUME NEW k \in 5..Len(r) PROVE r[k] = s[k + (start - 2)]
    <3>1. k - 4 \in 1..(n - 2 - start) /\ 4 + (k - 4) = k
      BY <1>1, <2>1, <2>6
    <3>2. r[k] = rest[start + (k - 4) - 1]
      BY <2>4, <2>6, <3>1
    <3>3. start + (k - 4) - 1 \in 1..(n - 3) /\ (start + (k - 4) - 1) + 3 = k + (start - 2)
      BY <1>1, <2>1, <3>1
    <3> QED BY <1>1, <3>2, <3>3
  <2> QED BY <1>3, <2>6, <2>7, <2>8, <2>9, <2>10 DEF Cut, n
<1> QED BY <1>2, <1>3

\* Compress returns the messages, or cuts where no chain is broken.
LEMMA CompressedCut ==
  ASSUME NEW s \in Seq(Message), NEW r \in Compressed(s)
  PROVE  \/ r = s
         \/ \E d \in Nat : Cut(s, r, d) /\ (Sane(s) => FirstKept(s, d))
<1> SUFFICES ASSUME r # s PROVE \E d \in Nat : Cut(s, r, d) /\ (Sane(s) => FirstKept(s, d))
  OBVIOUS
<1> DEFINE head == SubSeq(s, 1, 3)
           rest == SubSeq(s, 4, Len(s))
<1>1. Len(s) \in Nat /\ DOMAIN s = 1..Len(s)
  BY LenProperties
<1>2. Len(s) > 5 /\ \E i \in 1..Len(rest) : r = Summarized(head, rest, chainStart(rest, i))
  BY <1>1 DEF Compressed, headProtectCount
<1>3. Len(rest) = Len(s) - 3 /\ \A i \in 1..(Len(s) - 3) : rest[i] = s[i + 3]
  BY <1>2, HeadAndRest
<1>4. PICK i \in 1..(Len(s) - 3) : r = Summarized(head, rest, chainStart(rest, i))
  BY <1>2, <1>3
<1> DEFINE q == chainStart(rest, i)
<1>5. q \in 1..i
  BY <1>1, <1>4, ChainStartIn
<1>6. q \in 1..(Len(s) - 3) /\ IF q = 1 THEN r = s ELSE Cut(s, r, q - 2)
  <2> HIDE DEF q
  <2>1. q \in 1..(Len(s) - 3)
    BY <1>1, <1>4, <1>5
  <2>2. r = Summarized(head, rest, q)
    BY <1>4 DEF q
  <2> QED BY <1>2, <2>1, <2>2, SummarizedCut
<1>7. Cut(s, r, q - 2) /\ q - 2 \in Nat
  <2> HIDE DEF q
  <2> QED BY <1>1, <1>6
<1>8. ASSUME Sane(s) PROVE FirstKept(s, q - 2)
  <2> SUFFICES ASSUME s[q + 3].role = "tool", NEW j \in 4..(q + 2) PROVE s[q + 3].answers \notin s[j].calls
    <3> HIDE DEF q
    <3>1. 5 + (q - 2) = q + 3 /\ 4 + (q - 2) = q + 2
      BY <1>1, <1>6
    <3> QED BY <3>1 DEF FirstKept
  <2>1. \A k \in 1..i : rest[k] = s[k + 3] /\ k + 3 \in DOMAIN s
    BY <1>1, <1>3, <1>4
  <2>2. \A k \in 1..i : rest[k].role = "tool" => rest[k].calls = {}
    BY <1>8, <2>1 DEF Sane
  <2>3. rest[q] = s[q + 3]
    BY <1>5, <2>1
  <2>4. CallOf(rest, q, rest[q].answers) = {}
    <3>1. i \in Nat \ {0} /\ q = chainStart(rest, i)
      BY <1>1
    <3>2. rest[q].role = "tool"
      BY <2>3
    <3> HIDE DEF rest, q
    <3> QED BY <2>2, <3>1, <3>2, ChainStartWhole
  <2> HIDE DEF rest, q
  <2>5. j - 3 \in 1..(q - 1) /\ rest[j - 3] = s[j]
    <3>1. j - 3 \in 1..(q - 1) /\ j - 3 \in 1..i /\ (j - 3) + 3 = j
      BY <1>1, <1>5, <1>6
    <3> QED BY <2>1, <3>1
  <2> QED BY <2>3, <2>4, <2>5 DEF CallOf
<1> QED BY <1>7, <1>8

LEMMA CompressedType ==
  ASSUME NEW s \in Seq(Message)
  PROVE  Compressed(s) \subseteq Seq(Message)
  BY CompressedCut DEF Cut

----------------------------------------------------------------------------
(* Type correctness.                                                        *)

LEMMA InitType == Init => TypeOK
<1> SUFFICES ASSUME Init PROVE TypeOK
  OBVIOUS
<1>1. convMem \in Seq(Message) /\ messages \in Seq(Message)
  <2>1. <<>> \in Seq(Message)
    BY EmptySeq
  <2>2. Plain("system") \in Message
    BY Messages DEF Roles
  <2> QED BY <2>1, <2>2 DEF Init
<1>2. 0 \in 0..MaxTurns /\ 0 \in 0..MaxRounds
  BY TranscriptAssumption DEF TranscriptAssumption
<1> QED BY <1>1, <1>2 DEF Init, TypeOK

LEMMA NextType == TypeOK /\ [Next]_vars => TypeOK'
<1> SUFFICES ASSUME TypeOK, [Next]_vars PROVE TypeOK'
  OBVIOUS
<1> USE TranscriptAssumption DEF TranscriptAssumption
<1>1. /\ Append(messages, Plain("user")) \in Seq(Message)
      /\ Append(convMem, Plain("assistant")) \in Seq(Message)
      /\ Append(messages, Plain("assistant")) \in Seq(Message)
  BY Messages, AppendProperties DEF TypeOK, Roles
<1>2. CASE Begin
  BY <1>1, <1>2 DEF Begin, TypeOK
<1>3. CASE Fail
  BY <1>3 DEF Fail, TypeOK
<1>4. CASE AnswerLong
  BY <1>1, <1>4 DEF AnswerLong, TypeOK
<1>5. CASE AnswerFinally
  BY <1>1, <1>5 DEF AnswerFinally, TypeOK
<1>6. ASSUME NEW n \in 1..MaxCalls, NEW without, AskForTools(n, without) PROVE TypeOK'
  <2> DEFINE ids == (lastId + 1)..(lastId + n)
  <2>1. lastId' \in Nat /\ ids \subseteq 1..lastId' /\ ids \subseteq Nat
    BY <1>6 DEF AskForTools, TypeOK
  <2>2. convMem' \in Seq(Message)
    <3>1. Calling(ids) \in Message /\ convMem' = Append(convMem, Calling(ids))
      BY <1>6, <2>1, Messages DEF AskForTools
    <3> QED BY <3>1, AppendProperties DEF TypeOK
  <2>3. open' \subseteq 1..lastId' /\ nameless' \subseteq 1..lastId' /\ failed' = FALSE
    BY <1>6, <2>1 DEF AskForTools
  <2>4. rounds' \in 0..MaxRounds /\ turns' \in 0..MaxTurns
    BY <1>6 DEF AskForTools, TypeOK
  <2>5. messages' \in Seq(Message) /\ pc' = "dispatch_tools"
    BY <1>6 DEF AskForTools, TypeOK
  <2> QED BY <2>1, <2>2, <2>3, <2>4, <2>5 DEF TypeOK
<1>7. ASSUME NEW c \in open, RunTool(c) PROVE TypeOK'
  <2>1. Answering(c) \in Message
    BY <1>7, Messages DEF TypeOK
  <2>2. convMem' \in Seq(Message)
    BY <1>7, <2>1, AppendProperties DEF RunTool, TypeOK
  <2> QED BY <1>7, <2>2 DEF RunTool, TypeOK
<1>8. ASSUME NEW c \in open, MissName(c) PROVE TypeOK'
  BY <1>8 DEF MissName, TypeOK
<1>9. CASE Join
  BY <1>9 DEF Join, TypeOK
<1>10. CASE Compress
  <2>1. convMem' \in Seq(Message)
    BY <1>10, CompressedType DEF Compress, TypeOK
  <2> QED BY <1>10, <2>1 DEF Compress, TypeOK
<1>11. CASE CompressPanics
  BY <1>11 DEF CompressPanics, TypeOK
<1>12. CASE UNCHANGED vars
  BY <1>12 DEF vars, TypeOK
<1> QED BY <1>2, <1>3, <1>4, <1>5, <1>6, <1>7, <1>8, <1>9, <1>10, <1>11, <1>12 DEF Next

(* The histories hold messages, and no tool call outlives the node that    *)
(* started it: dispatchToolCalls leaves only when every goroutine is done  *)
(* or when none has begun.                                                 *)
THEOREM TranscriptTypeOK == Spec => []TypeOK
  BY InitType, NextType, PTL DEF Spec

----------------------------------------------------------------------------
(* The agent's history and what the model sees.                             *)

\* Within a turn every node keeps the agent's history a prefix, not only the
\* one that calls the model.
PrefixInv == pc \in {"llm", "dispatch_tools", "compress"} => IsPrefix(messages, convMem)


LEMMA PrefixMeans ==
  ASSUME NEW s \in Seq(Message), NEW t \in Seq(Message)
  PROVE  IsPrefix(s, t) <=> Len(s) <= Len(t) /\ \A i \in 1..Len(s) : s[i] = t[i]
<1> DEFINE n == Len(s)
<1>1. /\ n \in Nat /\ Len(t) \in Nat
      /\ (\A i \in 1..n : s[i] \in Message) /\ (\A i \in 1..Len(t) : t[i] \in Message)
  BY LenProperties, ElementOfSeq
<1> HIDE DEF n
<1> SUFFICES ASSUME n <= Len(t)
             PROVE  SubSeq(s, 1, n) = SubSeq(t, 1, n) <=> \A i \in 1..n : s[i] = t[i]
  BY DEF IsPrefix, n
<1>2. \A i \in 1..n : t[i] \in Message
  BY <1>1
<1>3. /\ SubSeq(s, 1, n) \in Seq(Message) /\ Len(SubSeq(s, 1, n)) = n
      /\ \A i \in 1..n : SubSeq(s, 1, n)[i] = s[i]
  <2>1. /\ SubSeq(s, 1, n) \in Seq(Message)
        /\ Len(SubSeq(s, 1, n)) = IF 1 <= n THEN n - 1 + 1 ELSE 0
        /\ \A i \in 1..(n - 1 + 1) : SubSeq(s, 1, n)[i] = s[1 + i - 1]
    BY <1>1, SubSeqProperties
  <2> QED BY <1>1, <2>1
<1>4. /\ SubSeq(t, 1, n) \in Seq(Message) /\ Len(SubSeq(t, 1, n)) = n
      /\ \A i \in 1..n : SubSeq(t, 1, n)[i] = t[i]
  <2>1. /\ SubSeq(t, 1, n) \in Seq(Message)
        /\ Len(SubSeq(t, 1, n)) = IF 1 <= n THEN n - 1 + 1 ELSE 0
        /\ \A i \in 1..(n - 1 + 1) : SubSeq(t, 1, n)[i] = t[1 + i - 1]
    BY <1>1, <1>2, SubSeqProperties
  <2> QED BY <1>1, <2>1
<1>5. ASSUME \A i \in 1..n : s[i] = t[i] PROVE SubSeq(s, 1, n) = SubSeq(t, 1, n)
  <2>1. \A i \in 1..n : SubSeq(s, 1, n)[i] = SubSeq(t, 1, n)[i]
    BY <1>3, <1>4, <1>5
  <2> QED BY <1>3, <1>4, <2>1, SeqEqual
<1>6. ASSUME SubSeq(s, 1, n) = SubSeq(t, 1, n), NEW i \in 1..n PROVE s[i] = t[i]
  BY <1>3, <1>4, <1>6
<1> QED BY <1>5, <1>6

LEMMA PrefixSelf == ASSUME NEW s \in Seq(Message) PROVE IsPrefix(s, s)
<1>1. Len(s) \in Nat
  BY LenProperties
<1> QED BY <1>1, PrefixMeans

LEMMA PrefixAppend ==
  ASSUME NEW s \in Seq(Message), NEW t \in Seq(Message), IsPrefix(s, t), NEW x \in Message
  PROVE  IsPrefix(s, Append(t, x))
<1>1. Len(s) \in Nat /\ Len(s) <= Len(t) /\ \A i \in 1..Len(s) : s[i] = t[i]
  BY PrefixMeans, LenProperties
<1>2. /\ Append(t, x) \in Seq(Message) /\ Len(t) \in Nat /\ Len(Append(t, x)) = Len(t) + 1
      /\ \A i \in 1..Len(t) : Append(t, x)[i] = t[i]
  BY Appending
<1>3. Len(s) <= Len(Append(t, x)) /\ \A i \in 1..Len(s) : s[i] = Append(t, x)[i]
  BY <1>1, <1>2
<1> QED BY <1>2, <1>3, PrefixMeans

LEMMA NextPrefix == TypeOK /\ PrefixInv /\ [Next]_vars => PrefixInv'
<1> SUFFICES ASSUME TypeOK, PrefixInv, [Next]_vars PROVE PrefixInv'
  OBVIOUS
<1>1. TypeOK'
  BY NextType
<1>2. CASE Begin
  <2>1. messages' \in Seq(Message) /\ convMem' = messages'
    BY <1>1, <1>2 DEF Begin, TypeOK
  <2> QED BY <2>1, PrefixSelf DEF PrefixInv
<1>3. CASE Fail \/ AnswerFinally \/ CompressPanics
  BY <1>3 DEF Fail, AnswerFinally, CompressPanics, PrefixInv
<1>4. CASE AnswerLong
  <2>1. Plain("assistant") \in Message
    BY Messages DEF Roles
  <2>2. convMem' = Append(convMem, Plain("assistant")) /\ messages' = messages /\ pc = "llm"
    BY <1>4 DEF AnswerLong
  <2> QED BY <2>1, <2>2, PrefixAppend DEF PrefixInv, TypeOK
<1>5. ASSUME NEW n \in 1..MaxCalls, NEW without, AskForTools(n, without) PROVE PrefixInv'
  <2> DEFINE ids == (lastId + 1)..(lastId + n)
  <2>1. Calling(ids) \in Message
    BY Messages DEF TypeOK
  <2>2. convMem' = Append(convMem, Calling(ids)) /\ messages' = messages /\ pc = "llm"
    BY <1>5 DEF AskForTools
  <2> HIDE DEF ids
  <2> QED BY <2>1, <2>2, PrefixAppend DEF PrefixInv, TypeOK
<1>6. ASSUME NEW c \in open, RunTool(c) PROVE PrefixInv'
  <2>1. Answering(c) \in Message
    BY Messages DEF TypeOK
  <2>2. convMem' = Append(convMem, Answering(c)) /\ messages' = messages /\ pc = "dispatch_tools"
    BY <1>6 DEF RunTool
  <2> QED BY <2>1, <2>2, PrefixAppend DEF PrefixInv, TypeOK
<1>7. CASE (\E c \in open : MissName(c)) \/ Join
  <2>1. pc = "dispatch_tools" /\ UNCHANGED <<convMem, messages>>
    BY <1>7 DEF MissName, Join
  <2> QED BY <2>1 DEF PrefixInv
<1>8. CASE Compress
  <2>1. messages' = convMem' /\ messages' \in Seq(Message)
    BY <1>1, <1>8 DEF Compress, TypeOK
  <2> QED BY <2>1, PrefixSelf DEF PrefixInv
<1>9. CASE UNCHANGED vars
  BY <1>9 DEF vars, PrefixInv
<1> QED BY <1>2, <1>3, <1>4, <1>5, <1>6, <1>7, <1>8, <1>9 DEF Next

(* Whenever the model is called, the agent's own history is a prefix of    *)
(* what it sees, after any number of tool calls, failed turns and          *)
(* compressions.                                                           *)
THEOREM TranscriptHistoryIsPrefix == Spec => []HistoryIsPrefix
<1>1. Init => PrefixInv
  BY DEF Init, PrefixInv
<1>2. PrefixInv => HistoryIsPrefix
  BY DEF PrefixInv, HistoryIsPrefix
<1> QED BY <1>1, <1>2, NextPrefix, TranscriptTypeOK, PTL DEF Spec

----------------------------------------------------------------------------
(* Tool calls and their results.                                            *)

\* From the message at j to the one at k there are only results of its calls.
Results(s, j, k) == \A i \in (j + 1)..k : s[i].role = "tool" /\ s[i].answers \in s[j].calls
\* The call of a tool result comes before it, in the protected head or with
\* nothing but results of the same answer in between: what compression cuts
\* off, it cuts off together.
Grouped(s) ==
  \A k \in DOMAIN s : s[k].role = "tool" =>
    \E j \in 1..(k - 1) : s[k].answers \in s[j].calls /\ (j > headProtectCount => Results(s, j, k))
\* While tools run, the answer at p waits for the calls in `o`; without a
\* failure it has got the results of all others.
Given(s, p) == {s[k].answers : k \in (p + 1)..Len(s)}
Awaiting(s, p, o, failure) ==
  /\ o \subseteq s[p].calls /\ Results(s, p, Len(s))
  /\ \A k \in DOMAIN s \ {p} : k > headProtectCount /\ s[k].calls # {} => ChainAt(s, k)
  /\ Given(s, p) \cap o = {}
  /\ Len(s) - p = Cardinality(Given(s, p))
  /\ ~failure => Given(s, p) \cup o = s[p].calls
ChainInv ==
  /\ Sane(convMem) /\ Sane(messages) /\ Grouped(convMem) /\ Grouped(messages)
  /\ ChainsWhole(messages)
  /\ pc \in {"llm", "compress"} => ChainsWhole(convMem)
  /\ pc = "dispatch_tools" => \E p \in DOMAIN convMem : Awaiting(convMem, p, open, failed)

LEMMA AppendSane ==
  ASSUME NEW s \in Seq(Message), NEW x \in Message, Sane(s),
         IsFiniteSet(x.calls), x.role = "tool" => x.calls = {}
  PROVE  Sane(Append(s, x))
<1> DEFINE t == Append(s, x)
<1>1. /\ Len(s) \in Nat /\ DOMAIN s = 1..Len(s) /\ DOMAIN t = 1..(Len(s) + 1)
      /\ (\A i \in 1..Len(s) : t[i] = s[i]) /\ t[Len(s) + 1] = x
  BY Appending
<1> HIDE DEF t
<1>2. ASSUME NEW k \in DOMAIN t PROVE IsFiniteSet(t[k].calls) /\ (t[k].role = "tool" => t[k].calls = {})
  <2>1. CASE k = Len(s) + 1
    BY <1>1, <2>1
  <2>2. CASE k # Len(s) + 1
    <3>1. k \in 1..Len(s)
      BY <1>1, <2>2
    <3> QED BY <1>1, <3>1 DEF Sane
  <2> QED BY <2>1, <2>2
<1> QED BY <1>2 DEF Sane, t

LEMMA AppendGrouped ==
  ASSUME NEW s \in Seq(Message), NEW x \in Message, Grouped(s),
         x.role = "tool" => \E p \in DOMAIN s : x.answers \in s[p].calls /\ Results(s, p, Len(s))
  PROVE  Grouped(Append(s, x))
<1> DEFINE t == Append(s, x)
<1>1. /\ Len(s) \in Nat /\ DOMAIN s = 1..Len(s) /\ DOMAIN t = 1..(Len(s) + 1)
      /\ (\A i \in 1..Len(s) : t[i] = s[i]) /\ t[Len(s) + 1] = x
  BY Appending
<1> HIDE DEF t
<1> SUFFICES ASSUME NEW k \in DOMAIN t, t[k].role = "tool"
             PROVE  \E j \in 1..(k - 1) :
                      t[k].answers \in t[j].calls /\ (j > headProtectCount => Results(t, j, k))
  BY DEF Grouped, t
<1>2. CASE k = Len(s) + 1
  <2>1. PICK p \in 1..Len(s) : x.answers \in s[p].calls /\ Results(s, p, Len(s))
    BY <1>1, <1>2
  <2>2. p \in 1..(k - 1) /\ t[p] = s[p] /\ t[k] = x
    BY <1>1, <1>2
  <2>3. ASSUME NEW i \in (p + 1)..k PROVE t[i].role = "tool" /\ t[i].answers \in t[p].calls
    <3>1. CASE i = k
      BY <2>1, <2>2, <3>1
    <3>2. CASE i # k
      <4>1. i \in (p + 1)..Len(s) /\ i \in 1..Len(s)
        BY <1>1, <1>2, <3>2
      <4> QED BY <1>1, <2>1, <2>2, <4>1 DEF Results
    <3> QED BY <3>1, <3>2
  <2> QED BY <2>1, <2>2, <2>3 DEF Results
<1>3. CASE k # Len(s) + 1
  <2>1. k \in 1..Len(s) /\ t[k] = s[k]
    BY <1>1, <1>3
  <2>2. PICK j \in 1..(k - 1) : s[k].answers \in s[j].calls /\ (j > headProtectCount => Results(s, j, k))
    BY <1>1, <2>1 DEF Grouped
  <2>3. t[j] = s[j] /\ \A i \in (j + 1)..k : t[i] = s[i]
    BY <1>1, <2>1
  <2> QED BY <2>1, <2>2, <2>3 DEF Results
<1> QED BY <1>2, <1>3

\* What follows an answered chain does not break it.
LEMMA AppendChain ==
  ASSUME NEW s \in Seq(Message), NEW x \in Message, Sane(s), NEW k \in DOMAIN s, ChainAt(s, k)
  PROVE  ChainAt(Append(s, x), k)
<1> DEFINE t == Append(s, x)
           n == Cardinality(s[k].calls)
<1>1. /\ Len(s) \in Nat /\ DOMAIN s = 1..Len(s) /\ Len(t) = Len(s) + 1
      /\ \A i \in 1..Len(s) : t[i] = s[i]
  BY Appending
<1>2. n \in Nat
  BY FS_CardinalityType DEF Sane
<1>3. k + n <= Len(s) /\ {s[k + i].answers : i \in 1..n} = s[k].calls
  BY DEF ChainAt
<1>4. t[k] = s[k]
  BY <1>1
<1> HIDE DEF n, t
<1>5. k + n <= Len(t)
  BY <1>1, <1>2, <1>3
<1>6. \A i \in 1..n : k + i \in 1..Len(s)
  BY <1>1, <1>2, <1>3
<1>7. \A i \in 1..n : t[k + i].answers = s[k + i].answers
  BY <1>1, <1>6
<1>8. {t[k + i].answers : i \in 1..n} = {s[k + i].answers : i \in 1..n}
  BY <1>7
<1> QED BY <1>3, <1>4, <1>5, <1>8 DEF ChainAt, n, t

LEMMA AppendWhole ==
  ASSUME NEW s \in Seq(Message), NEW x \in Message, Sane(s), ChainsWhole(s), x.calls = {}
  PROVE  ChainsWhole(Append(s, x))
<1> DEFINE t == Append(s, x)
<1>1. /\ Len(s) \in Nat /\ DOMAIN s = 1..Len(s) /\ DOMAIN t = 1..(Len(s) + 1)
      /\ (\A i \in 1..Len(s) : t[i] = s[i]) /\ t[Len(s) + 1] = x
  BY Appending
<1> HIDE DEF t
<1>2. ASSUME NEW k \in DOMAIN t, k > headProtectCount, t[k].calls # {} PROVE ChainAt(t, k)
  <2>1. k # Len(s) + 1
    BY <1>1, <1>2
  <2>2. k \in DOMAIN s /\ t[k] = s[k]
    BY <1>1, <2>1
  <2>3. ChainAt(s, k)
    BY <1>2, <2>2 DEF ChainsWhole
  <2> QED BY <2>2, <2>3, AppendChain DEF t
<1> QED BY <1>2 DEF ChainsWhole, t

----------------------------------------------------------------------------
(* Compression keeps them together.                                         *)

LEMMA CutSane ==
  ASSUME NEW s \in Seq(Message), NEW r, NEW d \in Nat, Cut(s, r, d), Sane(s)
  PROVE  Sane(r)
<1>1. /\ Len(s) \in Nat /\ DOMAIN s = 1..Len(s) /\ DOMAIN r = 1..Len(r) /\ Len(r) = Len(s) - d
      /\ d <= Len(s) - 5
  BY LenProperties DEF Cut
<1>2. ASSUME NEW k \in DOMAIN r PROVE IsFiniteSet(r[k].calls) /\ (r[k].role = "tool" => r[k].calls = {})
  <2>1. CASE k \in 1..3
    <3>1. r[k] = s[k] /\ k \in DOMAIN s
      BY <1>1, <2>1 DEF Cut
    <3> QED BY <3>1 DEF Sane
  <2>2. CASE k = 4
    <3>1. r[k].calls = {} /\ r[k].role = "summary"
      BY <2>2 DEF Cut, Plain
    <3> QED BY <3>1, FS_EmptySet
  <2>3. CASE k \in 5..Len(r)
    <3>1. r[k] = s[k + d] /\ k + d \in DOMAIN s
      BY <1>1, <2>3 DEF Cut
    <3> QED BY <3>1 DEF Sane
  <2> QED BY <1>1, <2>1, <2>2, <2>3
<1> QED BY <1>2 DEF Sane

LEMMA CutGrouped ==
  ASSUME NEW s \in Seq(Message), NEW r, NEW d \in Nat, Cut(s, r, d), Grouped(s), FirstKept(s, d)
  PROVE  Grouped(r)
<1>1. /\ Len(s) \in Nat /\ DOMAIN s = 1..Len(s) /\ DOMAIN r = 1..Len(r) /\ Len(r) = Len(s) - d
      /\ d <= Len(s) - 5
  BY LenProperties DEF Cut
<1> SUFFICES ASSUME NEW k \in DOMAIN r, r[k].role = "tool"
             PROVE  \E j \in 1..(k - 1) :
                      r[k].answers \in r[j].calls /\ (j > headProtectCount => Results(r, j, k))
  BY DEF Grouped
<1>2. CASE k \in 1..3
  <2>1. r[k] = s[k] /\ k \in DOMAIN s
    BY <1>1, <1>2 DEF Cut
  <2>2. PICK j \in 1..(k - 1) : s[k].answers \in s[j].calls
    BY <2>1 DEF Grouped
  <2>3. j \in 1..3 /\ ~ (j > headProtectCount)
    BY <1>2 DEF headProtectCount
  <2>4. r[j] = s[j]
    BY <2>3 DEF Cut
  <2> QED BY <2>1, <2>2, <2>3, <2>4
<1>3. k # 4
  BY DEF Cut, Plain
<1>4. CASE k \in 5..Len(r)
  <2>1. PICK m \in DOMAIN s : m = k + d /\ r[k] = s[m]
    <3>1. r[k] = s[k + d] /\ k + d \in DOMAIN s
      BY <1>1, <1>4 DEF Cut
    <3> QED BY <3>1
  <2>2. PICK j \in 1..(m - 1) : s[m].answers \in s[j].calls /\ (j > headProtectCount => Results(s, j, m))
    BY <2>1 DEF Grouped
  <2>3. CASE j \in 1..3
    <3>1. j \in 1..(k - 1) /\ r[j] = s[j] /\ ~ (j > headProtectCount)
      BY <1>4, <2>3 DEF Cut, headProtectCount
    <3> QED BY <2>1, <2>2, <3>1
  <2>4. j \notin 4..(4 + d)
    <3> SUFFICES ASSUME j \in 4..(4 + d) PROVE FALSE
      OBVIOUS
    <3>1. j > headProtectCount /\ 5 + d \in (j + 1)..m
      BY <1>1, <1>4, <2>1 DEF headProtectCount
    <3>2. s[5 + d].role = "tool" /\ s[5 + d].answers \in s[j].calls
      BY <2>2, <3>1 DEF Results
    <3> QED BY <3>2 DEF FirstKept
  <2>5. CASE j \in (5 + d)..(m - 1)
    <3>1. j - d \in 1..(k - 1) /\ j - d \in 5..Len(r) /\ (j - d) + d = j
      BY <1>1, <1>4, <2>1, <2>5
    <3>2. r[j - d] = s[j]
      BY <3>1 DEF Cut
    <3>3. Results(s, j, m)
      BY <2>2, <2>5 DEF headProtectCount
    <3>4. ASSUME NEW i \in ((j - d) + 1)..k
          PROVE  r[i].role = "tool" /\ r[i].answers \in r[j - d].calls
      <4>1. i \in 5..Len(r) /\ i + d \in (j + 1)..m
        BY <1>1, <1>4, <2>1, <2>5, <3>1
      <4>2. r[i] = s[i + d]
        BY <4>1 DEF Cut
      <4> QED BY <3>2, <3>3, <4>1, <4>2 DEF Results
    <3> QED BY <2>1, <2>2, <3>1, <3>2, <3>4 DEF Results
  <2>6. j \in 1..3 \/ j \in 4..(4 + d) \/ j \in (5 + d)..(m - 1)
    BY <1>1, <1>4, <2>1
  <2> QED BY <2>3, <2>4, <2>5, <2>6
<1> QED BY <1>1, <1>2, <1>3, <1>4

LEMMA CutWhole ==
  ASSUME NEW s \in Seq(Message), NEW r, NEW d \in Nat, Cut(s, r, d), Sane(s), ChainsWhole(s)
  PROVE  ChainsWhole(r)
<1>1. /\ Len(s) \in Nat /\ DOMAIN s = 1..Len(s) /\ DOMAIN r = 1..Len(r) /\ Len(r) = Len(s) - d
      /\ d <= Len(s) - 5
  BY LenProperties DEF Cut
<1> SUFFICES ASSUME NEW k \in DOMAIN r, k > headProtectCount, r[k].calls # {} PROVE ChainAt(r, k)
  BY DEF ChainsWhole
<1>2. k # 4
  BY DEF Cut, Plain
<1>3. k \in 5..Len(r)
  BY <1>1, <1>2 DEF headProtectCount
<1>4. r[k] = s[k + d] /\ k + d \in DOMAIN s /\ k + d > headProtectCount
  BY <1>1, <1>3 DEF Cut, headProtectCount
<1> DEFINE n == Cardinality(r[k].calls)
<1>5. n \in Nat
  BY <1>4, FS_CardinalityType DEF Sane
<1>6. ChainAt(s, k + d)
  BY <1>4 DEF ChainsWhole
<1>7. (k + d) + n <= Len(s) /\ {s[(k + d) + i].answers : i \in 1..n} = r[k].calls
  BY <1>4, <1>6 DEF ChainAt
<1> HIDE DEF n
<1>8. k + n <= Len(r) /\ \A i \in 1..n : k + i \in 5..Len(r) /\ (k + i) + d = (k + d) + i
  BY <1>1, <1>3, <1>5, <1>7
<1>9. \A i \in 1..n : r[k + i] = s[(k + d) + i]
  BY <1>8 DEF Cut
<1>10. {r[k + i].answers : i \in 1..n} = {s[(k + d) + i].answers : i \in 1..n}
  BY <1>9
<1> QED BY <1>7, <1>8, <1>10 DEF ChainAt, n

LEMMA CompressedWhole ==
  ASSUME NEW s \in Seq(Message), NEW r \in Compressed(s), Sane(s), Grouped(s), ChainsWhole(s)
  PROVE  Sane(r) /\ Grouped(r) /\ ChainsWhole(r)
<1>1. CASE r = s
  BY <1>1
<1>2. CASE r # s
  <2>1. PICK d \in Nat : Cut(s, r, d) /\ FirstKept(s, d)
    BY <1>2, CompressedCut
  <2> QED BY <2>1, CutSane, CutGrouped, CutWhole
<1> QED BY <1>1, <1>2

----------------------------------------------------------------------------
(* Running the tools of an answer keeps them together.                      *)

LEMMA AppendPlain ==
  ASSUME NEW s \in Seq(Message), Sane(s), Grouped(s), NEW role \in Roles \ {"tool"}
  PROVE  /\ Sane(Append(s, Plain(role))) /\ Grouped(Append(s, Plain(role)))
         /\ ChainsWhole(s) => ChainsWhole(Append(s, Plain(role)))
<1>1. Plain(role) \in Message /\ Plain(role).role # "tool" /\ Plain(role).calls = {}
  BY Messages DEF Plain
<1>2. IsFiniteSet({})
  BY FS_EmptySet
<1> QED BY <1>1, <1>2, AppendSane, AppendGrouped, AppendWhole

LEMMA AwaitingAll ==
  ASSUME NEW s \in Seq(Message), Sane(s), ChainsWhole(s), NEW ids \in SUBSET Nat
  PROVE  Awaiting(Append(s, Calling(ids)), Len(s) + 1, ids, FALSE)
<1> DEFINE t == Append(s, Calling(ids))
           p == Len(s) + 1
<1>1. Calling(ids) \in Message /\ Calling(ids).calls = ids
  BY Messages DEF Calling
<1>2. /\ Len(s) \in Nat /\ DOMAIN s = 1..Len(s) /\ DOMAIN t = 1..(Len(s) + 1) /\ Len(t) = p
      /\ (\A i \in 1..Len(s) : t[i] = s[i]) /\ t[p].calls = ids
  BY <1>1, Appending
<1> HIDE DEF t
<1>3. (p + 1)..Len(t) = {}
  BY <1>2
<1>4. Given(t, p) = {} /\ Results(t, p, Len(t)) /\ Len(t) - p = Cardinality(Given(t, p))
  <2>1. Given(t, p) = {} /\ Results(t, p, Len(t))
    BY <1>3 DEF Given, Results
  <2>2. Len(t) - p = 0
    BY <1>2
  <2> QED BY <2>1, <2>2, FS_EmptySet
<1>5. ASSUME NEW k \in DOMAIN t \ {p}, k > headProtectCount, t[k].calls # {} PROVE ChainAt(t, k)
  <2>1. k \in DOMAIN s /\ t[k] = s[k]
    BY <1>2
  <2>2. ChainAt(s, k)
    BY <1>5, <2>1 DEF ChainsWhole
  <2> QED BY <1>1, <2>1, <2>2, AppendChain DEF t
<1> HIDE DEF p
<1> QED BY <1>2, <1>4, <1>5 DEF Awaiting, t, p

LEMMA AwaitingNext ==
  ASSUME NEW s \in Seq(Message), Sane(s), NEW p \in DOMAIN s, NEW o, NEW f \in BOOLEAN,
         Awaiting(s, p, o, f), NEW c \in o, c \in Nat
  PROVE  Awaiting(Append(s, Answering(c)), p, o \ {c}, f)
<1> DEFINE x == Answering(c)
           t == Append(s, x)
<1>1. x \in Message /\ x.calls = {} /\ x.answers = c /\ x.role = "tool"
  BY Messages DEF Answering
<1>2. /\ Len(s) \in Nat /\ DOMAIN s = 1..Len(s) /\ DOMAIN t = 1..(Len(s) + 1)
      /\ Len(t) = Len(s) + 1
      /\ (\A i \in 1..Len(s) : t[i] = s[i]) /\ t[Len(s) + 1] = x /\ t[p] = s[p]
  BY <1>1, Appending
<1> HIDE DEF t, x
<1>3. (p + 1)..Len(t) = (p + 1)..Len(s) \cup {Len(s) + 1} /\ (p + 1)..Len(s) \subseteq 1..Len(s)
  BY <1>2
<1>4. Given(t, p) = Given(s, p) \cup {c}
  <2>1. \A k \in (p + 1)..Len(s) : t[k].answers = s[k].answers
    BY <1>2, <1>3
  <2> QED BY <1>1, <1>2, <1>3, <2>1 DEF Given
<1>5. Results(t, p, Len(t))
  <2>1. \A i \in (p + 1)..Len(s) : t[i] = s[i]
    BY <1>2, <1>3
  <2>2. c \in s[p].calls
    BY DEF Awaiting
  <2>3. Results(s, p, Len(s))
    BY DEF Awaiting
  <2> QED BY <1>1, <1>2, <1>3, <2>1, <2>2, <2>3 DEF Results
<1>6. ASSUME NEW k \in DOMAIN t \ {p}, k > headProtectCount, t[k].calls # {} PROVE ChainAt(t, k)
  <2>1. k # Len(s) + 1
    BY <1>1, <1>2, <1>6
  <2>2. k \in DOMAIN s \ {p} /\ t[k] = s[k]
    BY <1>2, <2>1
  <2>3. ChainAt(s, k)
    BY <1>6, <2>2 DEF Awaiting
  <2> QED BY <1>1, <2>2, <2>3, AppendChain DEF t
<1>7. IsFiniteSet(Given(s, p)) /\ c \notin Given(s, p)
  <2>1. Given(s, p) \subseteq s[p].calls
    BY DEF Awaiting, Given, Results
  <2>2. IsFiniteSet(s[p].calls)
    BY DEF Sane
  <2> QED BY <2>1, <2>2, FS_Subset DEF Awaiting
<1>8. Len(t) - p = Cardinality(Given(t, p))
  <2>1. Cardinality(Given(s, p) \cup {c}) = Cardinality(Given(s, p)) + 1
    BY <1>7, FS_AddElement
  <2>2. Len(s) - p = Cardinality(Given(s, p))
    BY DEF Awaiting
  <2>3. Len(t) - p = (Len(s) - p) + 1
    BY <1>2
  <2> QED BY <1>4, <2>1, <2>2, <2>3
<1>9. /\ o \ {c} \subseteq t[p].calls /\ Given(t, p) \cap (o \ {c}) = {}
      /\ ~f => Given(t, p) \cup (o \ {c}) = t[p].calls
  BY <1>2, <1>4 DEF Awaiting
<1> QED BY <1>5, <1>6, <1>8, <1>9 DEF Awaiting, t, x

\* A call that fails to start adds no result, and the turn will fail.
LEMMA AwaitingLess ==
  ASSUME NEW s, NEW p, NEW o, NEW f, Awaiting(s, p, o, f), NEW c
  PROVE  Awaiting(s, p, o \ {c}, TRUE)
  BY DEF Awaiting

LEMMA AwaitingNone ==
  ASSUME NEW s \in Seq(Message), Sane(s), NEW p \in DOMAIN s, Awaiting(s, p, {}, FALSE)
  PROVE  ChainsWhole(s)
<1>1. Len(s) \in Nat /\ DOMAIN s = 1..Len(s)
  BY LenProperties
<1> DEFINE n == Cardinality(s[p].calls)
<1>2. Given(s, p) = s[p].calls /\ Len(s) - p = Cardinality(Given(s, p))
  BY DEF Awaiting
<1>3. n = Len(s) - p /\ n \in Nat
  BY <1>1, <1>2
<1> HIDE DEF n
<1>4. {s[p + i].answers : i \in 1..n} = Given(s, p)
  <2>1. \A k \in (p + 1)..Len(s) : k - p \in 1..n /\ p + (k - p) = k
    BY <1>1, <1>3
  <2>2. \A i \in 1..n : p + i \in (p + 1)..Len(s)
    BY <1>1, <1>3
  <2> QED BY <2>1, <2>2 DEF Given
<1>5. p + n <= Len(s)
  BY <1>1, <1>3
<1>6. ChainAt(s, p)
  BY <1>2, <1>4, <1>5 DEF ChainAt, n
<1> QED BY <1>6 DEF ChainsWhole, Awaiting

----------------------------------------------------------------------------

LEMMA NextChain == TypeOK /\ ChainInv /\ [Next]_vars => ChainInv'
<1> SUFFICES ASSUME TypeOK, ChainInv, [Next]_vars PROVE ChainInv'
  OBVIOUS
<1>0. /\ convMem \in Seq(Message) /\ messages \in Seq(Message)
      /\ Sane(convMem) /\ Sane(messages) /\ Grouped(convMem) /\ Grouped(messages)
      /\ ChainsWhole(messages)
      /\ lastId \in Nat /\ open \subseteq 1..lastId /\ failed \in BOOLEAN
  BY DEF TypeOK, ChainInv
<1>1. "user" \in Roles \ {"tool"} /\ "assistant" \in Roles \ {"tool"}
  BY DEF Roles
<1>2. CASE Begin
  <2>1. messages' = Append(messages, Plain("user")) /\ convMem' = messages' /\ pc' = "llm"
    BY <1>2 DEF Begin
  <2>2. Sane(messages') /\ Grouped(messages') /\ ChainsWhole(messages')
    BY <1>0, <1>1, <2>1, AppendPlain
  <2> QED BY <2>1, <2>2 DEF ChainInv
<1>3. CASE Fail \/ CompressPanics
  <2>1. UNCHANGED <<convMem, messages>> /\ pc' \in {"idle", "crashed"}
    BY <1>3 DEF Fail, CompressPanics
  <2> QED BY <1>0, <2>1 DEF ChainInv
<1>4. CASE AnswerLong \/ AnswerFinally
  <2>1. /\ pc = "llm" /\ pc' \in {"idle", "compress"}
        /\ convMem' = Append(convMem, Plain("assistant"))
        /\ messages' \in {messages, Append(messages, Plain("assistant"))}
    BY <1>4 DEF AnswerLong, AnswerFinally
  <2>2. Sane(convMem') /\ Grouped(convMem') /\ ChainsWhole(convMem')
    BY <1>0, <1>1, <2>1, AppendPlain DEF ChainInv
  <2>3. Sane(messages') /\ Grouped(messages') /\ ChainsWhole(messages')
    BY <1>0, <1>1, <2>1, AppendPlain
  <2> QED BY <2>1, <2>2, <2>3 DEF ChainInv
<1>5. ASSUME NEW n \in 1..MaxCalls, NEW without, AskForTools(n, without) PROVE ChainInv'
  <2> DEFINE ids == (lastId + 1)..(lastId + n)
  <2>1. /\ pc = "llm" /\ pc' = "dispatch_tools" /\ messages' = messages
        /\ convMem' = Append(convMem, Calling(ids)) /\ open' = ids /\ failed' = FALSE
    BY <1>5 DEF AskForTools
  <2>2. ids \in SUBSET Nat /\ IsFiniteSet(ids)
    BY <1>0, FS_Interval
  <2> HIDE DEF ids
  <2>3. /\ Calling(ids) \in Message /\ Calling(ids).calls = ids
        /\ Calling(ids).role # "tool"
    BY <2>2, Messages DEF Calling
  <2>4. Sane(convMem') /\ Grouped(convMem')
    BY <1>0, <2>1, <2>2, <2>3, AppendSane, AppendGrouped
  <2>5. Awaiting(convMem', Len(convMem) + 1, open', failed')
    BY <1>0, <2>1, <2>2, AwaitingAll DEF ChainInv
  <2>6. Len(convMem) + 1 \in DOMAIN convMem'
    <3>1. Len(convMem) \in Nat /\ DOMAIN convMem' = 1..(Len(convMem) + 1)
      BY <1>0, <2>1, <2>3, Appending
    <3> QED BY <3>1
  <2> QED BY <1>0, <2>1, <2>4, <2>5, <2>6 DEF ChainInv
<1>6. ASSUME NEW c \in open, RunTool(c) PROVE ChainInv'
  <2>1. /\ pc = "dispatch_tools" /\ pc' = pc /\ messages' = messages /\ failed' = failed
        /\ convMem' = Append(convMem, Answering(c)) /\ open' = open \ {c}
    BY <1>6 DEF RunTool
  <2>2. PICK p \in DOMAIN convMem : Awaiting(convMem, p, open, failed)
    BY <2>1 DEF ChainInv
  <2>3. /\ c \in Nat /\ Answering(c) \in Message /\ Answering(c).calls = {}
        /\ Answering(c).answers = c
    BY <1>0, Messages DEF Answering
  <2>4. Awaiting(convMem', p, open', failed')
    BY <1>0, <2>1, <2>2, <2>3, AwaitingNext
  <2>5. c \in convMem[p].calls /\ Results(convMem, p, Len(convMem))
    BY <2>2 DEF Awaiting
  <2>6. Sane(convMem') /\ Grouped(convMem')
    BY <1>0, <2>1, <2>3, <2>5, FS_EmptySet, AppendSane, AppendGrouped
  <2>7. p \in DOMAIN convMem'
    <3>1. Len(convMem) \in Nat /\ DOMAIN convMem = 1..Len(convMem)
          /\ DOMAIN convMem' = 1..(Len(convMem) + 1)
      BY <1>0, <2>1, <2>3, Appending
    <3> QED BY <3>1
  <2> QED BY <1>0, <2>1, <2>4, <2>6, <2>7 DEF ChainInv
<1>7. ASSUME NEW c \in open, MissName(c) PROVE ChainInv'
  <2>1. /\ pc = "dispatch_tools" /\ pc' = pc /\ UNCHANGED <<convMem, messages>>
        /\ open' = open \ {c} /\ failed' = TRUE
    BY <1>7 DEF MissName
  <2>2. PICK p \in DOMAIN convMem : Awaiting(convMem, p, open, failed)
    BY <2>1 DEF ChainInv
  <2>3. Awaiting(convMem', p, open', failed')
    BY <2>1, <2>2, AwaitingLess
  <2> QED BY <1>0, <2>1, <2>3 DEF ChainInv
<1>8. CASE Join
  <2>1. /\ pc = "dispatch_tools" /\ open = {} /\ UNCHANGED <<convMem, messages>>
        /\ pc' = IF failed THEN "idle" ELSE "llm"
    BY <1>8 DEF Join
  <2>2. ~failed => ChainsWhole(convMem)
    <3> SUFFICES ASSUME failed = FALSE PROVE ChainsWhole(convMem)
      BY <1>0
    <3>1. PICK p \in DOMAIN convMem : Awaiting(convMem, p, {}, FALSE)
      BY <2>1 DEF ChainInv
    <3> QED BY <1>0, <3>1, AwaitingNone
  <2> QED BY <1>0, <2>1, <2>2 DEF ChainInv
<1>9. CASE Compress
  <2>1. /\ pc = "compress" /\ pc' = "llm" /\ messages' = convMem'
        /\ convMem' \in Compressed(convMem)
    BY <1>9 DEF Compress
  <2>2. Sane(convMem') /\ Grouped(convMem') /\ ChainsWhole(convMem')
    BY <1>0, <2>1, CompressedWhole DEF ChainInv
  <2> QED BY <2>1, <2>2 DEF ChainInv
<1>10. CASE UNCHANGED vars
  BY <1>10 DEF vars, ChainInv
<1> QED BY <1>2, <1>3, <1>4, <1>5, <1>6, <1>7, <1>8, <1>9, <1>10 DEF Next

LEMMA InitChain == Init => ChainInv
<1> SUFFICES ASSUME Init PROVE ChainInv
  OBVIOUS
<1>1. convMem = <<>> /\ messages = <<Plain("system")>> /\ pc = "idle"
  BY DEF Init
<1>2. Sane(convMem) /\ Grouped(convMem)
  BY <1>1 DEF Sane, Grouped
<1>3. /\ DOMAIN messages = {1} /\ messages[1].calls = {}
      /\ messages[1].role = "system"
  BY <1>1 DEF Plain
<1>4. Sane(messages) /\ Grouped(messages) /\ ChainsWhole(messages)
  <2>1. IsFiniteSet(messages[1].calls)
    BY <1>3, FS_EmptySet
  <2> QED BY <1>3, <2>1 DEF Sane, Grouped, ChainsWhole
<1> QED BY <1>1, <1>2, <1>4 DEF ChainInv

(* In the agent's history and in what the model sees, every tool result    *)
(* comes after the answer that asked for it, wherever compression cuts.    *)
THEOREM TranscriptResultHasCall == Spec => []ResultHasCall
<1>1. ChainInv => ResultHasCall
  <2>1. \A s : Grouped(s) => ResultsMatched(s)
    BY DEF Grouped, ResultsMatched
  <2> QED BY <2>1 DEF ChainInv, ResultHasCall
<1> QED BY <1>1, InitChain, NextChain, TranscriptTypeOK, PTL DEF Spec

(* Whenever the model is called every answer with tool calls outside the   *)
(* protected head is followed by their results, and so it is at all times  *)
(* in the history the next turn starts from, however many calls an answer  *)
(* makes and in whatever order their goroutines end.                       *)
THEOREM TranscriptChainsAnswered == Spec => []ChainsAnswered
<1>1. ChainInv => ChainsAnswered
  BY DEF ChainInv, ChainsAnswered
<1> QED BY <1>1, InitChain, NextChain, TranscriptTypeOK, PTL DEF Spec
=============================================================================
