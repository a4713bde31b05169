-------------------------- MODULE ModelCallsProofs --------------------------
(***************************************************************************)
(* Calls of a provider by any number of callers on any number of           *)
(* credentials.  The invariant behind RetryChangesKey: a call that backs   *)
(* off has left its credential cooling, and rests behind that cool-down.   *)
(***************************************************************************)
EXTENDS ModelCalls, FiniteSetTheorems, SequenceTheorems, TLAPS

LEMMA AcquireType ==
  /\ Acquire \subseteq Keys \cup {Default}
  /\ \A k \in Acquire : k # Default => k \notin cooling
<1>1. Default \notin Keys
  BY ModelCallsAssumption DEF ModelCallsAssumption, Keys
<1> QED BY <1>1 DEF Acquire, availableCredentials

LEMMA AdvanceType == ASSUME rrIndex \in Nat, Advance PROVE rrIndex' \in Nat
<1>1. Wrap \in Nat \ {0}
  BY ModelCallsAssumption DEF ModelCallsAssumption
<1>2. (rrIndex + 1) % Wrap \in Nat
  BY <1>1
<1> QED BY <1>2 DEF Advance

----------------------------------------------------------------------------
(* The type invariant in three parts: the loop, the pool and the stream.   *)

LoopType ==
  /\ pc \in [Callers -> Places] /\ attempt \in [Callers -> 0..MaxRetries]
  /\ cred \in [Callers -> Keys \cup {Default}] /\ previous \in [Callers -> Keys \cup {Default}]
  /\ made \in [Callers -> 0..MaxCalls]
PoolType == cooling \subseteq Keys /\ resting \in [Keys -> SUBSET BackingOff] /\ rrIndex \in Nat
StreamType == /\ sent \in [Callers -> Seq({Text} \cup Nat)]
              /\ \A c \in Callers : Len(sent[c]) <= MaxChunks

LEMMA TypeParts == TypeOK <=> LoopType /\ PoolType /\ StreamType
  BY DEF TypeOK, LoopType, PoolType, StreamType
LEMMA TypePartsNext == LoopType' /\ PoolType' /\ StreamType' => TypeOK'
  BY DEF TypeOK, LoopType, PoolType, StreamType

LEMMA InitType == Init => TypeOK
<1> SUFFICES ASSUME Init PROVE LoopType /\ PoolType /\ StreamType
  BY TypeParts
<1> USE ModelCallsAssumption DEF ModelCallsAssumption, Init
<1>1. LoopType
  BY DEF LoopType, Places
<1>2. PoolType
  BY DEF PoolType
<1>3. StreamType
  <2>1. <<>> \in Seq({Text} \cup Nat) /\ Len(<<>>) = 0
    OBVIOUS
  <2> QED BY <2>1 DEF StreamType
<1> QED BY <1>1, <1>2, <1>3

\* Where a step leaves the stream alone.
LEMMA StreamFrame == StreamType /\ UNCHANGED sent => StreamType'
  BY DEF StreamType

\* Moving a caller elsewhere.
LEMMA LeaveType ==
  ASSUME LoopType, NEW c \in Callers, NEW place \in Places, Leave(c, place), UNCHANGED made
  PROVE  LoopType'
<1>1. 0 \in 0..MaxRetries
  BY ModelCallsAssumption DEF ModelCallsAssumption
<1> QED BY <1>1 DEF LoopType, Leave, Go

LEMMA CallType == ASSUME TypeOK, NEW c \in Callers, Call(c) PROVE TypeOK'
<1>0. LoopType /\ PoolType /\ StreamType
  BY TypeParts
<1>1. LoopType'
  BY <1>0, ModelCallsAssumption DEF LoopType, Call, callVars, Go, Places, ModelCallsAssumption
<1>2. PoolType'
  <2>1. BackingOff' = BackingOff
    BY <1>0 DEF BackingOff, Call, Go, LoopType, AtRest
  <2> QED BY <1>0, <2>1 DEF PoolType, Call, poolVars
<1>3. StreamType'
  <2>1. <<>> \in Seq({Text} \cup Nat) /\ Len(<<>>) = 0
    OBVIOUS
  <2> QED BY <1>0, <2>1, ModelCallsAssumption DEF StreamType, Call, ModelCallsAssumption
<1> QED BY <1>1, <1>2, <1>3, TypePartsNext

LEMMA SendType == ASSUME TypeOK, NEW c \in Callers, Send(c) PROVE TypeOK'
<1>0. LoopType /\ PoolType /\ StreamType
  BY TypeParts
<1>1. LoopType'
  <2>1. PICK k \in Acquire : cred' = [cred EXCEPT ![c] = k]
    BY DEF Send
  <2>2. k \in Keys \cup {Default}
    BY <2>1, AcquireType
  <2> QED BY <1>0, <2>1, <2>2 DEF LoopType, Send, Go, Places
<1>2. PoolType'
  <2>1. BackingOff' = BackingOff \ {c}
    BY <1>0 DEF BackingOff, Send, Go, LoopType
  <2>2. rrIndex' \in Nat
    BY <1>0, AdvanceType DEF PoolType, Send
  <2> QED BY <1>0, <2>1, <2>2 DEF PoolType, Send
<1>3. StreamType'
  BY <1>0, StreamFrame DEF Send, streamVars
<1> QED BY <1>1, <1>2, <1>3, TypePartsNext

\* A call that leaves without having rested.
LEMMA PlainLeaveType ==
  ASSUME TypeOK, NEW c \in Callers, NEW place \in Places \ {"backoff"}, Leave(c, place),
         pc[c] # "backoff", UNCHANGED <<made, streamVars, poolVars>>
  PROVE  TypeOK'
<1>0. LoopType /\ PoolType /\ StreamType
  BY TypeParts
<1>1. LoopType'
  BY <1>0, LeaveType
<1>2. PoolType'
  <2>1. BackingOff' = BackingOff
    BY <1>0 DEF BackingOff, Leave, Go, LoopType
  <2> QED BY <1>0, <2>1 DEF PoolType, poolVars
<1>3. StreamType'
  BY <1>0, StreamFrame DEF streamVars
<1> QED BY <1>1, <1>2, <1>3, TypePartsNext

LEMMA SleepCanceledType == ASSUME TypeOK, NEW c \in Callers, SleepCanceled(c) PROVE TypeOK'
<1>0. LoopType /\ PoolType /\ StreamType
  BY TypeParts
<1>1. LoopType'
  BY <1>0, LeaveType DEF SleepCanceled, Places
<1>2. PoolType'
  <2>1. BackingOff' = BackingOff \ {c}
    BY <1>0 DEF BackingOff, SleepCanceled, Leave, Go, LoopType
  <2> QED BY <1>0, <2>1 DEF PoolType, SleepCanceled
<1>3. StreamType'
  BY <1>0, StreamFrame DEF SleepCanceled, streamVars
<1> QED BY <1>1, <1>2, <1>3, TypePartsNext

LEMMA RefusedType == ASSUME TypeOK, NEW c \in Callers, Refused(c) PROVE TypeOK'
<1>0. LoopType /\ PoolType /\ StreamType
  BY TypeParts
<1>1. CASE /\ attempt[c] < MaxRetries /\ Go(c, "backoff")
           /\ attempt' = [attempt EXCEPT ![c] = @ + 1]
           /\ HandleError(cred[c], BackingOff \cup {c})
           /\ UNCHANGED <<cred, previous>>
  <2>1. LoopType'
    <3>1. attempt[c] + 1 \in 0..MaxRetries
      BY <1>0, <1>1, ModelCallsAssumption DEF LoopType, ModelCallsAssumption
    <3> QED BY <1>0, <1>1, <3>1 DEF LoopType, Go, Places, Refused
  <2>2. BackingOff' = BackingOff \cup {c}
    BY <1>0, <1>1 DEF BackingOff, Go, LoopType
  <2>3. PoolType'
    BY <1>0, <1>1, <2>2 DEF PoolType, HandleError, Refused
  <2> QED BY <1>0, <2>1, <2>3, StreamFrame, TypePartsNext DEF Refused, streamVars
<1>2. CASE Leave(c, "failed") /\ HandleError(cred[c], BackingOff)
  <2>1. LoopType'
    BY <1>0, <1>2, LeaveType DEF Refused, Places
  <2>2. BackingOff' = BackingOff
    BY <1>0, <1>2 DEF BackingOff, Leave, Go, LoopType, Refused
  <2>3. PoolType'
    BY <1>0, <1>2, <2>2 DEF PoolType, HandleError, Refused
  <2> QED BY <1>0, <2>1, <2>3, StreamFrame, TypePartsNext DEF Refused, streamVars
<1> QED BY <1>1, <1>2 DEF Refused

\* The end of an answer.
LEMMA EndType ==
  ASSUME TypeOK, NEW c \in Callers, NEW place \in {"answered", "failed"}, Go(c, place),
         pc[c] # "backoff", UNCHANGED <<callVars, sent, poolVars>>
  PROVE  TypeOK'
<1>0. LoopType /\ PoolType /\ StreamType
  BY TypeParts
<1>1. LoopType'
  BY <1>0 DEF LoopType, Go, Places, callVars
<1>2. PoolType'
  <2>1. BackingOff' = BackingOff
    BY <1>0 DEF BackingOff, Go, LoopType
  <2> QED BY <1>0, <2>1 DEF PoolType, poolVars
<1> QED BY <1>0, <1>1, <1>2, StreamFrame, TypePartsNext

LEMMA StepType == ASSUME TypeOK, NEW c \in Callers, Step(c) PROVE TypeOK'
<1>1. CASE Send(c)
  BY <1>1, SendType
<1>2. CASE SleepCanceled(c)
  BY <1>2, SleepCanceledType
<1>3. CASE Accepted(c)
  <2>1. CASE c \in Streaming
    BY <1>3, <2>1, PlainLeaveType DEF Accepted, Places
  <2>2. CASE c \notin Streaming
    BY <1>3, <2>2, PlainLeaveType DEF Accepted, Places
  <2> QED BY <2>1, <2>2
<1>4. CASE Unreachable(c)
  BY <1>4, PlainLeaveType DEF Unreachable, Places
<1>5. CASE Refused(c)
  BY <1>5, RefusedType
<1>6. CASE Decoded(c)
  BY <1>6, EndType DEF Decoded, streamVars
<1>7. CASE StreamEnds(c)
  BY <1>7, EndType DEF StreamEnds
<1> QED BY <1>1, <1>2, <1>3, <1>4, <1>5, <1>6, <1>7 DEF Step

LEMMA ChunkType ==
  ASSUME TypeOK, NEW c \in Callers, NEW kind \in {Text} \cup 0..MaxChunks, Chunk(c, kind)
  PROVE  TypeOK'
<1>0. LoopType /\ PoolType /\ StreamType
  BY TypeParts
<1>1. LoopType' /\ PoolType'
  BY <1>0 DEF LoopType, PoolType, BackingOff, Chunk, callVars, poolVars
<1>2. StreamType'
  <2>1. /\ sent[c] \in Seq({Text} \cup Nat) /\ Len(sent[c]) + 1 <= MaxChunks
    BY <1>0, ModelCallsAssumption DEF StreamType, Chunk, ModelCallsAssumption
  <2>2. kind \in {Text} \cup Nat
    OBVIOUS
  <2>3. /\ Append(sent[c], kind) \in Seq({Text} \cup Nat)
        /\ Len(Append(sent[c], kind)) = Len(sent[c]) + 1
    BY <2>1, <2>2
  <2>4. sent' = [sent EXCEPT ![c] = Append(sent[c], kind)]
    BY DEF Chunk
  <2> QED BY <1>0, <2>1, <2>3, <2>4 DEF StreamType
<1> QED BY <1>1, <1>2, TypePartsNext

LEMMA CoolDownEndsType == ASSUME TypeOK, NEW k \in Keys, CoolDownEnds(k) PROVE TypeOK'
  BY DEF TypeOK, CoolDownEnds, BackingOff, callVars, streamVars

LEMMA NextType == TypeOK /\ [Next]_vars => TypeOK'
<1> SUFFICES ASSUME TypeOK, [Next]_vars PROVE TypeOK'
  OBVIOUS
<1>1. CASE \E c \in Callers : Call(c) \/ Step(c)
  BY <1>1, CallType, StepType
<1>2. CASE \E c \in Callers, kind \in {Text} \cup 0..MaxChunks : Chunk(c, kind)
  BY <1>2, ChunkType
<1>3. CASE \E k \in Keys : CoolDownEnds(k)
  BY <1>3, CoolDownEndsType
<1>4. CASE UNCHANGED vars
  BY <1>4 DEF TypeOK, vars, callVars, streamVars, poolVars, BackingOff
<1> QED BY <1>1, <1>2, <1>3, <1>4 DEF Next

(* However many callers and credentials there are, no call makes more than *)
(* MaxRetries retries, and what the pool holds are credentials of its own. *)
THEOREM ModelCallsTypeOK == Spec => []TypeOK
<1> QED BY InitType, NextType, PTL DEF Spec

----------------------------------------------------------------------------
(* A retry never repeats the refused credential.                           *)

RestsBehind == \A c \in Callers :
  pc[c] = "backoff" /\ cred[c] # Default => cred[c] \in cooling /\ c \in resting[cred[c]]
DefaultBefore == \A c \in Callers : pc[c] \notin {"sent", "backoff"} => cred[c] = Default
RetryInv == RestsBehind /\ DefaultBefore /\ RetryChangesKey

\* A step of caller d touches nothing of the others but what it adds to the pool.
LEMMA OthersRest ==
  ASSUME TypeOK, RetryInv, NEW d \in Callers,
         \A c \in Callers \ {d} : pc'[c] = pc[c] /\ cred'[c] = cred[c] /\ previous'[c] = previous[c],
         cooling \subseteq cooling',
         \A k \in Keys : \A c \in resting[k] \ {d} : c \in resting'[k],
         pc'[d] # "backoff" \/ cred'[d] = Default \/ (cred'[d] \in cooling' /\ d \in resting'[cred'[d]]),
         pc'[d] \notin {"sent", "backoff"} => cred'[d] = Default,
         pc'[d] = "sent" /\ cred'[d] # Default => cred'[d] # previous'[d]
  PROVE  RetryInv'
<1>1. RestsBehind'
  <2> SUFFICES ASSUME NEW c \in Callers, pc'[c] = "backoff", cred'[c] # Default
               PROVE  cred'[c] \in cooling' /\ c \in resting'[cred'[c]]
    BY DEF RestsBehind
  <2>1. CASE c = d
    BY <2>1
  <2>2. CASE c # d
    BY <2>2 DEF RetryInv, RestsBehind, TypeOK
  <2> QED BY <2>1, <2>2
<1>2. DefaultBefore'
  BY DEF RetryInv, DefaultBefore
<1>3. RetryChangesKey'
  BY DEF RetryInv, RetryChangesKey
<1> QED BY <1>1, <1>2, <1>3 DEF RetryInv

LEMMA SendRetries == ASSUME TypeOK, RetryInv, NEW c \in Callers, Send(c) PROVE RetryInv'
<1>1. PICK k \in Acquire : cred' = [cred EXCEPT ![c] = k]
  BY DEF Send
<1>2. k # Default => k \notin cooling
  BY AcquireType
<1>3. k # Default => k # cred[c]
  <2>1. CASE pc[c] = "backoff"
    BY <1>2, <2>1 DEF RetryInv, RestsBehind
  <2>2. CASE pc[c] = "ready"
    BY <2>2 DEF RetryInv, DefaultBefore
  <2> QED BY <2>1, <2>2 DEF Send
<1>4. /\ pc' = [pc EXCEPT ![c] = "sent"] /\ previous' = [previous EXCEPT ![c] = cred[c]]
      /\ resting' = [j \in Keys |-> resting[j] \ {c}] /\ cooling' = cooling
  BY DEF Send, Go
<1> QED BY <1>1, <1>3, <1>4, OthersRest DEF TypeOK

LEMMA RefusedRetries == ASSUME TypeOK, RetryInv, NEW c \in Callers, Refused(c) PROVE RetryInv'
<1>1. CASE /\ Go(c, "backoff")
           /\ HandleError(cred[c], BackingOff \cup {c})
           /\ UNCHANGED <<cred, previous>>
  <2>1. \A k \in Keys : \A d \in resting[k] : d \in resting'[k]
    BY <1>1 DEF HandleError, TypeOK
  <2>2. cred[c] # Default => cred[c] \in cooling' /\ c \in resting'[cred[c]]
    BY <1>1 DEF HandleError, TypeOK
  <2>3. cooling \subseteq cooling' /\ pc' = [pc EXCEPT ![c] = "backoff"]
        /\ cred' = cred /\ previous' = previous
    BY <1>1 DEF HandleError, Go
  <2> QED BY <2>1, <2>2, <2>3, OthersRest DEF TypeOK
<1>2. CASE Leave(c, "failed") /\ HandleError(cred[c], BackingOff)
  <2>1. \A k \in Keys : \A d \in resting[k] : d \in resting'[k]
    BY <1>2 DEF HandleError, TypeOK
  <2>2. cooling \subseteq cooling'
    BY <1>2 DEF HandleError
  <2> QED BY <1>2, <2>1, <2>2, OthersRest DEF Leave, Go, TypeOK
<1> QED BY <1>1, <1>2 DEF Refused

LEMMA StepRetries == ASSUME TypeOK, RetryInv, NEW c \in Callers, Step(c) PROVE RetryInv'
<1>1. CASE Send(c)
  BY <1>1, SendRetries
<1>2. CASE SleepCanceled(c)
  BY <1>2, OthersRest DEF SleepCanceled, Leave, Go, TypeOK
<1>3. CASE Accepted(c)
  BY <1>3, OthersRest DEF Accepted, Leave, Go, TypeOK, poolVars
<1>4. CASE Unreachable(c)
  BY <1>4, OthersRest DEF Unreachable, Leave, Go, TypeOK, poolVars
<1>5. CASE Refused(c)
  BY <1>5, RefusedRetries
<1>6. CASE Decoded(c)
  BY <1>6, OthersRest DEF Decoded, Go, TypeOK, callVars, poolVars, RetryInv, DefaultBefore
<1>7. CASE StreamEnds(c)
  BY <1>7, OthersRest DEF StreamEnds, Go, TypeOK, callVars, poolVars, RetryInv, DefaultBefore
<1> QED BY <1>1, <1>2, <1>3, <1>4, <1>5, <1>6, <1>7 DEF Step

LEMMA NextRetries == TypeOK /\ RetryInv /\ [Next]_vars => RetryInv'
<1> SUFFICES ASSUME TypeOK, RetryInv, [Next]_vars PROVE RetryInv'
  OBVIOUS
<1>1. CASE \E c \in Callers : Call(c)
  <2>1. PICK c \in Callers : Call(c)
    BY <1>1
  <2> QED BY <2>1, OthersRest DEF Call, Go, AtRest, TypeOK, poolVars, RetryInv, DefaultBefore
<1>2. CASE \E c \in Callers : Step(c)
  BY <1>2, StepRetries
<1>3. CASE \E c \in Callers, kind \in {Text} \cup 0..MaxChunks : Chunk(c, kind)
  BY <1>3 DEF Chunk, callVars, poolVars, RetryInv, RestsBehind, DefaultBefore, RetryChangesKey
<1>4. CASE \E k \in Keys : CoolDownEnds(k)
  \* Nobody who backs off rests behind the credential that comes back.
  BY <1>4 DEF CoolDownEnds, callVars, RetryInv, RestsBehind, DefaultBefore, RetryChangesKey
<1>5. CASE UNCHANGED vars
  BY <1>5 DEF vars, callVars, poolVars, RetryInv, RestsBehind, DefaultBefore, RetryChangesKey
<1> QED BY <1>1, <1>2, <1>3, <1>4, <1>5 DEF Next

LEMMA InitRetries == Init => RetryInv
  BY DEF Init, RetryInv, RestsBehind, DefaultBefore, RetryChangesKey

(* With any number of callers and credentials and whatever their errors'   *)
(* order, no retry goes out with the credential that was just refused.     *)
THEOREM ModelCallsRetryChangesKey == Spec => []RetryChangesKey
<1>1. RetryInv => RetryChangesKey
  BY DEF RetryInv
<1> QED BY <1>1, ModelCallsTypeOK, InitRetries, NextRetries, PTL DEF Spec

----------------------------------------------------------------------------
(* Sets of numbers in order.                                                *)

LEMMA AscendingLen ==
  ASSUME NEW P, IsFiniteSet(P)
  PROVE  /\ Cardinality(P) \in Nat /\ DOMAIN Ascending(P) = 1..Cardinality(P)
         /\ \E S : Ascending(P) \in Seq(S) /\ Len(Ascending(P)) = Cardinality(P)
<1> DEFINE a == Ascending(P)
           S == {a[j] : j \in 1..Cardinality(P)}
<1>1. Cardinality(P) \in Nat
  BY FS_CardinalityType
<1>2. DOMAIN a = 1..Cardinality(P) /\ a = [j \in 1..Cardinality(P) |-> a[j]]
  BY DEF Ascending
<1> HIDE DEF a
<1>3. a \in [1..Cardinality(P) -> S]
  BY <1>2
<1>4. a \in Seq(S)
  BY <1>1, <1>3, SeqDef
<1>5. Len(a) = Cardinality(P)
  BY <1>1, <1>2, <1>4, LenProperties
<1> QED BY <1>1, <1>2, <1>4, <1>5 DEF a

LEMMA AscendingEmpty == Ascending({}) = <<>>
<1>1. Cardinality({}) = 0
  BY FS_EmptySet
<1> QED BY <1>1 DEF Ascending

\* A number above all others comes last and leaves the others in place.
LEMMA AscendingNext ==
  ASSUME NEW P, IsFiniteSet(P), P \subseteq Nat, NEW n \in Nat, \A m \in P : m < n
  PROVE  Ascending(P \cup {n}) = Append(Ascending(P), n)
<1> DEFINE Q == P \cup {n}
           k == Cardinality(P)
<1>1. n \notin P /\ k \in Nat /\ Cardinality(Q) = k + 1
  BY FS_AddElement, FS_CardinalityType
<1>2. Place(Q, n) = k + 1
  <2>1. {m \in Q : m <= n} = Q
    <3>1. \A m \in Q : m <= n
      OBVIOUS
    <3> QED BY <3>1
  <2> QED BY <1>1, <2>1 DEF Place
<1>3. ASSUME NEW i \in P
      PROVE  Place(Q, i) = Place(P, i) /\ Place(P, i) <= k
  <2>1. {m \in Q : m <= i} = {m \in P : m <= i}
    <3>1. ~(n <= i)
      OBVIOUS
    <3> QED BY <3>1
  <2>2. Cardinality({m \in P : m <= i}) <= k
    BY FS_Subset
  <2> QED BY <2>1, <2>2 DEF Place
<1>4. ASSUME NEW j \in 1..k
      PROVE  {m \in Q : Place(Q, m) = j} = {m \in P : Place(P, m) = j}
  <2>1. Place(Q, n) # j
    BY <1>1, <1>2
  <2> QED BY <1>3, <2>1
<1>5. {m \in Q : Place(Q, m) = k + 1} = {n}
  <2>1. \A i \in P : Place(Q, i) # k + 1
    <3> SUFFICES ASSUME NEW i \in P, Place(Q, i) = k + 1 PROVE FALSE
      OBVIOUS
    <3>1. k + 1 <= k
      BY <1>3
    <3> QED BY <1>1, <3>1
  <2> QED BY <1>2, <2>1
<1>6. Ascending(Q) = [j \in 1..(k + 1) |-> IF j = k + 1 THEN n ELSE Ascending(P)[j]]
  <2>1. (CHOOSE x \in {n} : TRUE) = n
    OBVIOUS
  <2>2. \A j \in 1..k : Ascending(P)[j] = CHOOSE x \in {m \in P : Place(P, m) = j} : TRUE
    BY DEF Ascending
  <2>3. ASSUME NEW j \in 1..(k + 1)
        PROVE  (CHOOSE x \in {m \in Q : Place(Q, m) = j} : TRUE)
                 = IF j = k + 1 THEN n ELSE Ascending(P)[j]
    <3>1. CASE j = k + 1
      BY <1>5, <2>1, <3>1
    <3>2. CASE j # k + 1
      <4>1. j \in 1..k
        BY <1>1, <3>2
      <4> QED BY <1>4, <2>2, <3>2, <4>1
    <3> QED BY <3>1, <3>2
  <2>4. Ascending(Q) = [j \in 1..(k + 1) |-> CHOOSE x \in {m \in Q : Place(Q, m) = j} : TRUE]
    BY <1>1 DEF Ascending
  <2> HIDE DEF Q, k
  <2> QED BY <2>3, <2>4
<1>7. Append(Ascending(P), n) = [j \in 1..(k + 1) |-> IF j = k + 1 THEN n ELSE Ascending(P)[j]]
  <2>1. PICK S : Ascending(P) \in Seq(S) /\ Len(Ascending(P)) = k
    BY AscendingLen
  <2>2. Ascending(P) \in Seq(S \cup {n})
    BY <2>1, SeqMonotonic
  <2> DEFINE a == Append(Ascending(P), n)
  <2>3. a \in Seq(S \cup {n}) /\ Len(a) = k + 1 /\ a[k + 1] = n
        /\ \A j \in 1..k : a[j] = Ascending(P)[j]
    BY <2>1, <2>2, AppendProperties
  <2>4. a = [j \in 1..(k + 1) |-> a[j]]
    BY <2>3, LenProperties
  <2>5. \A j \in 1..(k + 1) : a[j] = IF j = k + 1 THEN n ELSE Ascending(P)[j]
    BY <1>1, <2>3
  <2> HIDE DEF k, a
  <2>6. a = [j \in 1..(k + 1) |-> IF j = k + 1 THEN n ELSE Ascending(P)[j]]
    BY <2>4, <2>5
  <2> QED BY <2>6 DEF a
<1> QED BY <1>6, <1>7

LEMMA AscendingUpTo ==
  ASSUME NEW n \in Nat
  PROVE  /\ IsFiniteSet(0..(n - 1)) /\ Cardinality(0..(n - 1)) = n
         /\ Ascending(0..(n - 1)) = [j \in 1..n |-> j - 1]
<1>1. \A k \in Nat : IsFiniteSet(0..(k - 1)) /\ Cardinality(0..(k - 1)) = k
  BY FS_Interval
<1>2. \A m \in 0..(n - 1) : Place(0..(n - 1), m) = m + 1
  <2> SUFFICES ASSUME NEW m \in 0..(n - 1) PROVE Place(0..(n - 1), m) = m + 1
    OBVIOUS
  <2>1. {i \in 0..(n - 1) : i <= m} = 0..((m + 1) - 1) /\ m + 1 \in Nat
    OBVIOUS
  <2> QED BY <1>1, <2>1 DEF Place
<1>3. ASSUME NEW j \in 1..n
      PROVE  (CHOOSE x \in {m \in 0..(n - 1) : Place(0..(n - 1), m) = j} : TRUE) = j - 1
  <2>1. {m \in 0..(n - 1) : Place(0..(n - 1), m) = j} = {j - 1}
    BY <1>2
  <2> QED BY <2>1
<1> QED BY <1>1, <1>3 DEF Ascending

----------------------------------------------------------------------------
(* Streamed answers.                                                        *)

\* The next chunk is the last of its kind.
LEMMA NextPositions ==
  ASSUME NEW S, NEW s \in Seq(S), NEW x \in S, NEW kind
  PROVE  Positions(Append(s, x), kind)
           = IF x = kind THEN Append(Positions(s, kind), Len(s) + 1) ELSE Positions(s, kind)
<1> DEFINE a == Append(s, x)
           P == {n \in 1..Len(s) : s[n] = kind}
<1>1. /\ Len(s) \in Nat /\ Len(a) = Len(s) + 1 /\ a[Len(s) + 1] = x
      /\ \A n \in 1..Len(s) : a[n] = s[n]
  BY AppendProperties, LenProperties
<1>2. {n \in 1..Len(a) : a[n] = kind} = IF x = kind THEN P \cup {Len(s) + 1} ELSE P
  <2>1. ASSUME NEW n \in 1..Len(a) PROVE a[n] = kind <=> n \in P \/ (n = Len(s) + 1 /\ x = kind)
    BY <1>1
  <2>2. P \subseteq 1..Len(a) /\ Len(s) + 1 \in 1..Len(a)
    BY <1>1
  <2> QED BY <2>1, <2>2
<1>3. IsFiniteSet(P) /\ P \subseteq Nat /\ Len(s) + 1 \in Nat /\ \A m \in P : m < Len(s) + 1
  <2>1. IsFiniteSet(1..Len(s))
    BY <1>1, FS_Interval
  <2>2. P \in SUBSET (1..Len(s))
    OBVIOUS
  <2>3. P \subseteq Nat /\ \A m \in P : m < Len(s) + 1
    BY <1>1
  <2> HIDE DEF P
  <2>4. IsFiniteSet(P)
    BY <2>1, <2>2, FS_Subset
  <2> QED BY <1>1, <2>3, <2>4
<1>4. Ascending(P \cup {Len(s) + 1}) = Append(Ascending(P), Len(s) + 1)
  <2> HIDE DEF P
  <2> QED BY <1>3, AscendingNext
<1> QED BY <1>2, <1>4 DEF Positions

LEMMA PositionsEmpty ==
  ASSUME NEW s, NEW kind, \A n \in 1..Len(s) : s[n] # kind
  PROVE  Positions(s, kind) = <<>>
<1>1. {n \in 1..Len(s) : s[n] = kind} = {}
  OBVIOUS
<1> QED BY <1>1, AscendingEmpty DEF Positions

\* A kind that has been seen has a position, and the next one is in the tail.
LEMMA NextTail ==
  ASSUME NEW S, NEW s \in Seq(S), NEW kind, NEW n \in 1..Len(s), s[n] = kind, NEW x
  PROVE  Tail(Append(Positions(s, kind), x)) = Append(Tail(Positions(s, kind)), x)
<1> DEFINE P == {m \in 1..Len(s) : s[m] = kind}
           p == Positions(s, kind)
<1>1. IsFiniteSet(P) /\ P # {}
  <2>1. Len(s) \in Nat
    BY LenProperties
  <2>2. IsFiniteSet(1..Len(s))
    BY <2>1, FS_Interval
  <2> QED BY <2>2, FS_Subset
<1>2. Cardinality(P) \in Nat \ {0}
  <2> HIDE DEF P
  <2> QED BY <1>1, FS_EmptySet, FS_CardinalityType
<1>3. PICK T : p \in Seq(T) /\ Len(p) = Cardinality(P)
  <2> HIDE DEF P
  <2>1. \E T : Ascending(P) \in Seq(T) /\ Len(Ascending(P)) = Cardinality(P)
    BY <1>1, AscendingLen
  <2> QED BY <2>1 DEF Positions, P
<1> HIDE DEF P, p
<1>4. p # <<>> /\ p \in Seq(T \cup {x}) /\ x \in T \cup {x}
  BY <1>2, <1>3, EmptySeq, SeqMonotonic
<1>5. Tail(Append(p, x)) = Append(Tail(p), x)
  <2> DEFINE U == T \cup {x}
             a == Append(p, x)
             b == Append(Tail(p), x)
  <2>1. /\ a \in Seq(U) /\ a # <<>> /\ Len(a) = Len(p) + 1
        /\ \A i \in 1..Len(p) : a[i] = p[i]
        /\ a[Len(p) + 1] = x
    BY <1>4, AppendProperties
  <2>2. /\ Tail(p) \in Seq(U) /\ Len(Tail(p)) = Len(p) - 1
        /\ \A i \in 1..Len(Tail(p)) : Tail(p)[i] = p[i + 1]
    BY <1>4, HeadTailProperties
  <2>3. /\ b \in Seq(U) /\ Len(b) = Len(Tail(p)) + 1
        /\ \A i \in 1..Len(Tail(p)) : b[i] = Tail(p)[i]
        /\ b[Len(Tail(p)) + 1] = x
    BY <1>4, <2>2, AppendProperties
  <2>4. /\ Tail(a) \in Seq(U) /\ Len(Tail(a)) = Len(a) - 1
        /\ \A i \in 1..Len(Tail(a)) : Tail(a)[i] = a[i + 1]
    BY <2>1, HeadTailProperties
  <2>5. Len(p) \in Nat \ {0}
    BY <1>2, <1>3
  <2> HIDE DEF a, b, U
  <2>6. Len(Tail(a)) = Len(p) /\ Len(b) = Len(p)
    BY <2>1, <2>2, <2>3, <2>4, <2>5
  <2>7. ASSUME NEW i \in 1..Len(p) PROVE Tail(a)[i] = b[i]
    <3>1. CASE i = Len(p)
      <4>1. Tail(a)[i] = a[Len(p) + 1] /\ b[i] = b[Len(Tail(p)) + 1]
        BY <2>2, <2>4, <2>5, <2>6, <3>1
      <4> QED BY <2>1, <2>3, <4>1
    <3>2. CASE i # Len(p)
      <4>1. i \in 1..(Len(p) - 1) /\ i + 1 \in 1..Len(p)
        BY <2>5, <3>2
      <4>2. i \in 1..Len(Tail(p)) /\ i \in 1..Len(Tail(a))
        BY <2>2, <2>6, <4>1
      <4> QED BY <2>1, <2>2, <2>3, <2>4, <4>1, <4>2
    <3> QED BY <3>1, <3>2
  <2>8. Len(Tail(a)) = Len(b) /\ \A i \in 1..Len(Tail(a)) : Tail(a)[i] = b[i]
    BY <2>6, <2>7
  <2>9. Tail(a) = b
    BY <2>3, <2>4, <2>8, SeqEqual
  <2> QED BY <2>9 DEF a, b
<1> QED BY <1>5 DEF p

\* What ChatStream has made of the chunks it has read: the text in order, and
\* for each tool call, numbered from 0, the arguments after its first chunk.
Assembled(c) ==
  /\ content[c] = Positions(sent[c], Text)
  /\ DOMAIN toolCalls[c] = Kinds(sent[c])
  /\ \E n \in Nat : Kinds(sent[c]) = 0..(n - 1)
  /\ \A i \in DOMAIN toolCalls[c] : toolCalls[c][i] = Tail(Positions(sent[c], i))
\* A call that streams nothing has nothing to assemble.
Unread(c) == sent[c] = <<>> /\ answer[c] = NoAnswer
StreamInv ==
  /\ DOMAIN content = Callers /\ DOMAIN toolCalls = Callers /\ DOMAIN answer = Callers
  /\ \A c \in Callers :
       /\ Assembled(c)
       /\ pc[c] \in {"ready", "sent", "backoff", "decoding"} => Unread(c)
       /\ pc[c] = "answered" => answer[c] = Meaning(sent[c])

\* Only what a caller has read and where it stands matters to it.
LEMMA AssembledFrame ==
  ASSUME NEW c, Assembled(c), UNCHANGED <<sent[c], content[c], toolCalls[c]>>
  PROVE  Assembled(c)'
  BY DEF Assembled, Kinds

LEMMA NothingRead ==
  Positions(<<>>, Text) = <<>> /\ Kinds(<<>>) = {} /\ {} = 0..(0 - 1) /\ Meaning(<<>>) = NoAnswer
<1>1. Positions(<<>>, Text) = <<>> /\ Kinds(<<>>) = {}
  BY PositionsEmpty DEF Kinds
<1>2. Cardinality({}) = 0
  BY FS_EmptySet
<1>3. [j \in 1..0 |-> Tail(Positions(<<>>, j - 1))] = <<>>
  <2> DEFINE f == [j \in 1..0 |-> Tail(Positions(<<>>, j - 1))]
  <2>1. f \in [1..0 -> {0}]
    OBVIOUS
  <2> HIDE DEF f
  <2>2. f \in Seq({0}) /\ Len(f) = 0
    BY <2>1, SeqDef, LenProperties
  <2>3. f = <<>>
    BY <2>2, EmptySeq
  <2> QED BY <2>3 DEF f
<1>4. 1..Cardinality(Kinds(<<>>)) = 1..0
  BY <1>1, <1>2
<1>5. [j \in 1..Cardinality(Kinds(<<>>)) |-> Tail(Positions(<<>>, j - 1))] = <<>>
  BY <1>3, <1>4
<1>6. Meaning(<<>>) = NoAnswer
  BY <1>1, <1>5 DEF Meaning, NoAnswer
<1>7. {} = 0..(0 - 1)
  OBVIOUS
<1> QED BY <1>1, <1>6, <1>7

LEMMA AssembledNothing ==
  ASSUME NEW c, sent'[c] = <<>>, content'[c] = <<>>, toolCalls'[c] = <<>>
  PROVE  Assembled(c)'
<1>1. DOMAIN toolCalls'[c] = {}
  OBVIOUS
<1>2. /\ content'[c] = Positions(sent'[c], Text)
      /\ Kinds(sent'[c]) = {} /\ {} = 0..(0 - 1) /\ 0 \in Nat
  BY NothingRead
<1>3. \E n \in Nat : Kinds(sent'[c]) = 0..(n - 1)
  BY <1>2
<1>4. (\E n \in Nat : Kinds(sent[c]) = 0..(n - 1))'
  BY <1>3
<1> QED BY <1>1, <1>2, <1>4 DEF Assembled

LEMMA KindsOf ==
  ASSUME TypeOK, NEW c \in Callers, Assembled(c)
  PROVE  \E n \in Nat : /\ Kinds(sent[c]) = 0..(n - 1) /\ DOMAIN toolCalls[c] = 0..(n - 1)
                        /\ Cardinality(DOMAIN toolCalls[c]) = n
  BY AscendingUpTo DEF Assembled

LEMMA NextKinds ==
  ASSUME NEW S, NEW s \in Seq(S), NEW x \in S
  PROVE  Kinds(Append(s, x)) = Kinds(s) \cup ({x} \ {Text})
<1> DEFINE a == Append(s, x)
<1>1. /\ Len(s) \in Nat /\ Len(a) = Len(s) + 1 /\ a[Len(s) + 1] = x
      /\ \A n \in 1..Len(s) : a[n] = s[n]
  BY AppendProperties, LenProperties
<1>2. 1..Len(a) = 1..Len(s) \cup {Len(s) + 1}
  BY <1>1
<1> HIDE DEF a
<1>3. {a[n] : n \in 1..Len(a)} = {s[n] : n \in 1..Len(s)} \cup {x}
  BY <1>1, <1>2
<1> QED BY <1>3 DEF Kinds, a

\* A chunk goes to the end of the text, to the end of the arguments of its
\* call, or opens the next call.
LEMMA ChunkAssembles ==
  ASSUME TypeOK, StreamInv, NEW c \in Callers, NEW kind, Chunk(c, kind)
  PROVE  Assembled(c)'
<1> DEFINE s == sent[c]
           t == toolCalls[c]
           M == {Text} \cup Nat
<1>1. /\ s \in Seq(M) /\ Text \notin Nat /\ Len(s) \in Nat
      /\ content[c] = Positions(s, Text) /\ DOMAIN t = Kinds(s)
      /\ \A i \in DOMAIN t : t[i] = Tail(Positions(s, i))
  <2>1. s \in Seq(M)
    BY DEF TypeOK
  <2>2. Len(s) \in Nat
    BY <2>1, LenProperties
  <2> QED BY <2>1, <2>2, ModelCallsAssumption DEF ModelCallsAssumption, StreamInv, Assembled
<1>2. PICK n \in Nat : Kinds(s) = 0..(n - 1) /\ Cardinality(DOMAIN t) = n
  BY KindsOf DEF StreamInv
<1>3. kind \in {Text} \cup 0..n /\ kind \in M
  BY <1>2 DEF Chunk
<1>4. /\ sent'[c] = Append(s, kind)
      /\ content'[c] = IF kind = Text THEN Append(content[c], Len(s) + 1) ELSE content[c]
      /\ toolCalls'[c] = IF kind = Text THEN t
                         ELSE With(t, kind, IF kind \in DOMAIN t THEN Append(t[kind], Len(s) + 1) ELSE <<>>)
  BY DEF Chunk, Absorb, StreamInv, TypeOK
<1> HIDE DEF s, t
<1>5. \A k : Positions(Append(s, kind), k)
               = IF kind = k THEN Append(Positions(s, k), Len(s) + 1) ELSE Positions(s, k)
  BY <1>1, <1>3, NextPositions
<1>6. Kinds(Append(s, kind)) = Kinds(s) \cup ({kind} \ {Text})
  BY <1>1, <1>3, NextKinds
<1>7. content'[c] = Positions(sent'[c], Text)
  BY <1>1, <1>4, <1>5
<1>8. \E m \in Nat : Kinds(sent'[c]) = 0..(m - 1)
  <2>1. CASE kind = Text \/ kind \in 0..(n - 1)
    BY <1>2, <1>4, <1>6, <2>1
  <2>2. CASE kind # Text /\ kind \notin 0..(n - 1)
    <3>1. kind = n
      BY <1>2, <1>3, <2>2
    <3>2. 0..(n - 1) \cup {n} = 0..((n + 1) - 1) /\ n + 1 \in Nat
      BY <1>2
    <3> QED BY <1>2, <1>4, <1>6, <2>2, <3>1, <3>2
  <2> QED BY <2>1, <2>2
<1>9. DOMAIN toolCalls'[c] = Kinds(sent'[c])
  BY <1>1, <1>4, <1>6 DEF With
<1>10. ASSUME NEW i \in DOMAIN toolCalls'[c]
       PROVE  toolCalls'[c][i] = Tail(Positions(sent'[c], i))
  <2>1. i # Text
    BY <1>9 DEF Kinds
  <2>2. CASE i # kind
    <3>1. i \in DOMAIN t /\ toolCalls'[c][i] = t[i]
      BY <1>4, <2>2 DEF With
    <3>2. Positions(sent'[c], i) = Positions(s, i)
      BY <1>4, <1>5, <2>2
    <3> QED BY <1>1, <3>1, <3>2
  <2>3. CASE i = kind /\ kind \in DOMAIN t
    <3>1. PICK m \in 1..Len(s) : s[m] = kind
      BY <1>1, <2>3 DEF Kinds
    <3>2. Tail(Append(Positions(s, kind), Len(s) + 1)) = Append(Tail(Positions(s, kind)), Len(s) + 1)
      <4> HIDE DEF M
      <4>1. s \in Seq(M)
        BY <1>1
      <4> QED BY <3>1, <4>1, NextTail
    <3>3. toolCalls'[c][i] = Append(t[kind], Len(s) + 1)
      BY <1>4, <2>1, <2>3 DEF With
    <3>4. Positions(sent'[c], i) = Append(Positions(s, kind), Len(s) + 1)
      BY <1>4, <1>5, <2>3
    <3> QED BY <1>1, <2>3, <3>2, <3>3, <3>4
  <2>4. CASE i = kind /\ kind \notin DOMAIN t
    <3>1. \A m \in 1..Len(s) : s[m] # kind
      BY <1>1, <2>1, <2>4 DEF Kinds
    <3>2. Positions(s, kind) = <<>>
      BY <3>1, PositionsEmpty
    <3>3. Tail(Append(<<>>, Len(s) + 1)) = <<>>
      <4>1. /\ Append(<<>>, Len(s) + 1) \in Seq(Nat) /\ Append(<<>>, Len(s) + 1) # <<>>
            /\ Len(Append(<<>>, Len(s) + 1)) = 1
        BY <1>1, EmptySeq, AppendProperties
      <4>2. /\ Tail(Append(<<>>, Len(s) + 1)) \in Seq(Nat)
            /\ Len(Tail(Append(<<>>, Len(s) + 1))) = 0
        BY <4>1, HeadTailProperties
      <4> QED BY <4>2, EmptySeq
    <3>4. toolCalls'[c][i] = <<>>
      BY <1>4, <2>1, <2>4 DEF With
    <3> QED BY <1>4, <1>5, <2>4, <3>2, <3>3, <3>4
  <2> QED BY <2>2, <2>3, <2>4
<1> QED BY <1>7, <1>8, <1>9, <1>10 DEF Assembled

\* Counting up from 0 finds every call.
LEMMA CollectAll ==
  ASSUME TypeOK, NEW c \in Callers, Assembled(c)
  PROVE  [content |-> content[c], calls |-> Collect(toolCalls[c])] = Meaning(sent[c])
<1> DEFINE t == toolCalls[c]
<1>1. PICK n \in Nat : /\ Kinds(sent[c]) = 0..(n - 1) /\ DOMAIN t = 0..(n - 1)
                       /\ Cardinality(DOMAIN t) = n
  BY KindsOf
<1>2. /\ content[c] = Positions(sent[c], Text)
      /\ \A i \in DOMAIN t : t[i] = Tail(Positions(sent[c], i))
  BY DEF Assembled
<1> HIDE DEF t
<1>3. {i \in DOMAIN t : i < Cardinality(DOMAIN t)} = 0..(n - 1)
  BY <1>1
<1>4. Ascending(0..(n - 1)) = [j \in 1..n |-> j - 1]
  BY AscendingUpTo
<1>5. Collect(t) = [j \in 1..n |-> t[j - 1]]
  BY <1>3, <1>4 DEF Collect
<1>6. \A j \in 1..n : t[j - 1] = Tail(Positions(sent[c], j - 1))
  BY <1>1, <1>2
<1>7. Collect(t) = [j \in 1..n |-> Tail(Positions(sent[c], j - 1))]
  BY <1>5, <1>6
<1> QED BY <1>1, <1>2, <1>7 DEF Meaning, t

\* A step of one caller leaves the others' streams and answers alone.
LEMMA StreamOthers ==
  ASSUME StreamInv, NEW c \in Callers,
         DOMAIN content' = Callers, DOMAIN toolCalls' = Callers, DOMAIN answer' = Callers,
         \A d \in Callers \ {c} : UNCHANGED <<pc[d], sent[d], content[d], toolCalls[d], answer[d]>>,
         Assembled(c)',
         pc'[c] \in {"ready", "sent", "backoff", "decoding"} => Unread(c)',
         pc'[c] = "answered" => answer'[c] = Meaning(sent'[c])
  PROVE  StreamInv'
<1> SUFFICES ASSUME NEW d \in Callers
             PROVE  /\ Assembled(d)'
                    /\ pc'[d] \in {"ready", "sent", "backoff", "decoding"} => Unread(d)'
                    /\ pc'[d] = "answered" => answer'[d] = Meaning(sent'[d])
  BY DEF StreamInv
<1>1. CASE d # c
  <2>1. Assembled(d)'
    BY <1>1, AssembledFrame DEF StreamInv
  <2> QED BY <1>1, <2>1 DEF StreamInv, Unread
<1>2. CASE d = c
  BY <1>2
<1> QED BY <1>1, <1>2

LEMMA NextStream == TypeOK /\ StreamInv /\ [Next]_vars => StreamInv'
<1> SUFFICES ASSUME TypeOK, StreamInv, [Next]_vars PROVE StreamInv'
  OBVIOUS
<1>0. pc \in [Callers -> Places] /\ DOMAIN sent = Callers
  BY DEF TypeOK
<1>1. ASSUME NEW c \in Callers, Call(c) PROVE StreamInv'
  <2>1. /\ sent'[c] = <<>> /\ content'[c] = <<>> /\ toolCalls'[c] = <<>> /\ answer'[c] = NoAnswer
        /\ pc'[c] = "ready"
    BY <1>0, <1>1 DEF Call, Go, StreamInv
  <2>2. /\ DOMAIN content' = Callers /\ DOMAIN toolCalls' = Callers /\ DOMAIN answer' = Callers
        /\ \A d \in Callers \ {c} : UNCHANGED <<pc[d], sent[d], content[d], toolCalls[d], answer[d]>>
    BY <1>0, <1>1 DEF Call, Go, StreamInv
  <2>3. Assembled(c)'
    BY <2>1, AssembledNothing
  <2> QED BY <2>1, <2>2, <2>3, StreamOthers DEF Unread
<1>2. ASSUME NEW c \in Callers, NEW kind, Chunk(c, kind) PROVE StreamInv'
  <2>1. /\ DOMAIN content' = Callers /\ DOMAIN toolCalls' = Callers /\ DOMAIN answer' = Callers
        /\ \A d \in Callers \ {c} : UNCHANGED <<pc[d], sent[d], content[d], toolCalls[d], answer[d]>>
        /\ pc'[c] = "streaming"
    BY <1>0, <1>2 DEF Chunk, Absorb, StreamInv
  <2> QED BY <1>2, <2>1, ChunkAssembles, StreamOthers
<1>3. ASSUME NEW c \in Callers, StreamEnds(c) PROVE StreamInv'
  <2>1. /\ UNCHANGED <<sent, content, toolCalls>> /\ pc'[c] = "answered"
        /\ answer'[c] = [content |-> content[c], calls |-> Collect(toolCalls[c])]
        /\ DOMAIN answer' = Callers
        /\ \A d \in Callers \ {c} : UNCHANGED <<pc[d], answer[d]>>
    BY <1>0, <1>3 DEF StreamEnds, Go, StreamInv
  <2>2. Assembled(c) /\ Assembled(c)'
    BY <2>1, AssembledFrame DEF StreamInv
  <2>3. answer'[c] = Meaning(sent'[c])
    BY <2>1, <2>2, CollectAll
  <2> QED BY <2>1, <2>2, <2>3, StreamOthers DEF StreamInv
<1>4. ASSUME NEW c \in Callers, UNCHANGED streamVars,
             \A d \in Callers \ {c} : pc'[d] = pc[d],
             pc'[c] \in {"ready", "sent", "backoff", "decoding", "answered"}
               => pc[c] \in {"ready", "sent", "backoff", "decoding"}
      PROVE  StreamInv'
  <2>1. UNCHANGED <<sent, content, toolCalls, answer>>
    BY <1>4 DEF streamVars
  <2>2. Assembled(c)'
    BY <2>1, AssembledFrame DEF StreamInv
  <2>3. pc'[c] \in {"ready", "sent", "backoff", "decoding", "answered"} => Unread(c)'
    BY <1>4, <2>1 DEF StreamInv, Unread
  <2>4. Unread(c)' => answer'[c] = Meaning(sent'[c])
    BY NothingRead DEF Unread
  <2> QED BY <1>4, <2>1, <2>2, <2>3, <2>4, StreamOthers DEF StreamInv
<1>5. ASSUME NEW c \in Callers, Step(c) PROVE StreamInv'
  <2>1. CASE Send(c) \/ SleepCanceled(c) \/ Accepted(c) \/ Unreachable(c) \/ Refused(c)
    <3>1. /\ UNCHANGED streamVars /\ pc[c] \in {"ready", "backoff", "sent"}
          /\ \A d \in Callers \ {c} : pc'[d] = pc[d]
      BY <1>0, <2>1 DEF Send, SleepCanceled, Accepted, Unreachable, Refused, Leave, Go
    <3> QED BY <1>4, <3>1
  <2>2. CASE Decoded(c)
    BY <1>0, <1>4, <2>2 DEF Decoded, Go
  <2> QED BY <1>3, <1>5, <2>1, <2>2 DEF Step
<1>6. CASE (\E k \in Keys : CoolDownEnds(k)) \/ UNCHANGED vars
  <2>1. UNCHANGED <<pc, sent, content, toolCalls, answer>>
    BY <1>6 DEF CoolDownEnds, vars, streamVars
  <2> QED BY <2>1, AssembledFrame DEF StreamInv, Unread
<1> QED BY <1>1, <1>2, <1>5, <1>6 DEF Next

LEMMA InitStream == Init => StreamInv
<1> SUFFICES ASSUME Init PROVE StreamInv
  OBVIOUS
<1>1. /\ DOMAIN content = Callers /\ DOMAIN toolCalls = Callers /\ DOMAIN answer = Callers
      /\ \A c \in Callers : /\ sent[c] = <<>> /\ content[c] = <<>> /\ toolCalls[c] = <<>>
                            /\ pc[c] = "idle" /\ answer[c] = NoAnswer
  BY DEF Init
<1>2. \A c \in Callers : Assembled(c)
  <2> SUFFICES ASSUME NEW c \in Callers PROVE Assembled(c)
    OBVIOUS
  <2>1. \E n \in Nat : Kinds(sent[c]) = 0..(n - 1)
    <3> WITNESS 0 \in Nat
    <3> QED BY <1>1, NothingRead
  <2>2. DOMAIN toolCalls[c] = {}
    BY <1>1
  <2>3. content[c] = Positions(sent[c], Text) /\ Kinds(sent[c]) = {}
    BY <1>1, NothingRead
  <2> QED BY <2>1, <2>2, <2>3 DEF Assembled
<1> QED BY <1>1, <1>2 DEF StreamInv

(* However the pieces of text and of any number of tool calls alternate,   *)
(* and wherever the stream is cut, the answer ChatStream hands to its      *)
(* caller holds what the server sent, each piece in its place.             *)
THEOREM ModelCallsAnswerFaithful == Spec => []AnswerFaithful
<1>1. StreamInv => AnswerFaithful
  BY DEF StreamInv, AnswerFaithful
<1>2. TypeOK /\ StreamInv /\ [Next]_vars => StreamInv'
  BY NextStream
<1> QED BY <1>1, <1>2, InitStream, ModelCallsTypeOK, PTL DEF Spec

----------------------------------------------------------------------------
(* Every step of a call spends some of what is left of it.                  *)

LEMMA StepsLeftType ==
  ASSUME TypeOK, NEW c \in Callers
  PROVE  /\ StepsLeft(c) \in Nat /\ MaxRetries - attempt[c] \in Nat
         /\ pc[c] \notin AtRest => StepsLeft(c) >= 1
<1>1. pc[c] \in Places /\ attempt[c] \in 0..MaxRetries /\ MaxRetries \in Nat
  BY ModelCallsAssumption DEF TypeOK, ModelCallsAssumption
<1>2. MaxRetries - attempt[c] \in Nat
  BY <1>1
<1> QED BY <1>1, <1>2 DEF StepsLeft, Places, AtRest

LEMMA StepSpends ==
  ASSUME TypeOK, NEW c \in Callers, Step(c)
  PROVE  StepsLeft(c)' \in 0..(StepsLeft(c) - 1)
<1>1. /\ pc \in [Callers -> Places] /\ attempt \in [Callers -> 0..MaxRetries]
      /\ MaxRetries \in Nat /\ attempt[c] \in Nat /\ MaxRetries - attempt[c] \in Nat
  BY StepsLeftType, ModelCallsAssumption DEF TypeOK, ModelCallsAssumption
<1>2. CASE Send(c)
  <2>1. pc[c] \in {"ready", "backoff"} /\ pc'[c] = "sent" /\ attempt'[c] = attempt[c]
    BY <1>1, <1>2 DEF Send, Go
  <2> QED BY <1>1, <2>1 DEF StepsLeft
<1>3. ASSUME pc[c] \notin AtRest, pc'[c] \in AtRest PROVE StepsLeft(c)' \in 0..(StepsLeft(c) - 1)
  <2>1. StepsLeft(c)' = 0
    BY <1>3 DEF StepsLeft, AtRest
  <2> QED BY <1>3, <2>1, StepsLeftType
<1>4. CASE SleepCanceled(c) \/ Unreachable(c) \/ Decoded(c) \/ StreamEnds(c)
  <2>1. pc[c] \notin AtRest /\ pc'[c] \in AtRest
    BY <1>1, <1>4 DEF SleepCanceled, Unreachable, Decoded, StreamEnds, Leave, Go, AtRest
  <2> QED BY <1>3, <2>1
<1>5. CASE Accepted(c)
  <2>1. pc[c] = "sent" /\ pc'[c] \in {"streaming", "decoding"}
    BY <1>1, <1>5 DEF Accepted, Leave, Go
  <2> QED BY <1>1, <2>1 DEF StepsLeft
<1>6. CASE Refused(c)
  <2>1. \/ /\ pc[c] = "sent" /\ pc'[c] = "backoff" /\ attempt[c] < MaxRetries
           /\ attempt'[c] = attempt[c] + 1
        \/ pc[c] = "sent" /\ pc'[c] = "failed"
    BY <1>1, <1>6 DEF Refused, Leave, Go
  <2>2. CASE pc[c] = "sent" /\ pc'[c] = "failed"
    BY <1>3, <2>2 DEF AtRest
  <2>3. CASE /\ pc[c] = "sent" /\ pc'[c] = "backoff" /\ attempt[c] < MaxRetries
             /\ attempt'[c] = attempt[c] + 1
    BY <1>1, <2>3 DEF StepsLeft
  <2> QED BY <2>1, <2>2, <2>3
<1> QED BY <1>2, <1>4, <1>5, <1>6 DEF Step

\* What is not a step of this call leaves it where it is.
LEMMA OtherSpends ==
  ASSUME TypeOK, NEW c \in Callers, pc[c] \notin AtRest, ~Step(c), [Next]_vars
  PROVE  pc'[c] = pc[c] /\ attempt'[c] = attempt[c]
<1>1. pc \in [Callers -> Places] /\ attempt \in [Callers -> 0..MaxRetries]
  BY DEF TypeOK
<1>2. ASSUME NEW d \in Callers, Call(d) PROVE pc'[c] = pc[c] /\ attempt'[c] = attempt[c]
  BY <1>1, <1>2 DEF Call, Go
<1>3. ASSUME NEW d \in Callers, Step(d) PROVE pc'[c] = pc[c] /\ attempt'[c] = attempt[c]
  <2>1. d # c
    BY <1>3
  <2> QED BY <1>1, <1>3, <2>1 DEF Step, Send, SleepCanceled, Accepted, Unreachable, Refused, Decoded,
                                  StreamEnds, Leave, Go, callVars
<1>4. CASE \/ \E d \in Callers, kind \in {Text} \cup 0..MaxChunks : Chunk(d, kind)
           \/ \E k \in Keys : CoolDownEnds(k)
           \/ UNCHANGED vars
  BY <1>4 DEF Chunk, CoolDownEnds, vars, callVars
<1> QED BY <1>2, <1>3, <1>4 DEF Next

\* However many credentials are refused, however long they cool and whatever
\* other callers do, a call has at most StepsLeft steps before it returns.
THEOREM ModelCallsSpends == Spec => CallSpends
<1>1. ASSUME TypeOK, [Next]_vars, NEW c \in Callers
      PROVE  /\ Step(c) => StepsLeft(c)' \in 0..(StepsLeft(c) - 1)
             /\ pc[c] \notin AtRest => StepsLeft(c)' \in 0..StepsLeft(c)
  <2>1. StepsLeft(c) \in Nat
    BY <1>1, StepsLeftType
  <2>2. CASE Step(c)
    BY <1>1, <2>1, <2>2, StepSpends
  <2>3. CASE ~Step(c) /\ pc[c] \notin AtRest
    <3>1. pc'[c] = pc[c] /\ attempt'[c] = attempt[c]
      BY <1>1, <2>3, OtherSpends
    <3>2. StepsLeft(c)' = StepsLeft(c)
      BY <3>1 DEF StepsLeft
    <3> QED BY <2>1, <2>3, <3>2
  <2> QED BY <2>2, <2>3
<1>2. TypeOK /\ [Next]_vars =>
        [ \A c \in Callers : /\ Step(c) => StepsLeft(c)' \in 0..(StepsLeft(c) - 1)
                             /\ pc[c] \notin AtRest => StepsLeft(c)' \in 0..StepsLeft(c) ]_vars
  BY <1>1
<1> QED BY <1>2, ModelCallsTypeOK, PTL DEF Spec, CallSpends
=============================================================================
