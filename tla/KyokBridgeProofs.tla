--------------------------- MODULE KyokBridgeProofs ---------------------------
(***************************************************************************)
(* Proofs about KyokBridge: the composition of both ends of the relay      *)
(* runs the gateway's half as KyokSocket has it, so what is proved there   *)
(* holds here; and invariants of the two halves together.                  *)
(***************************************************************************)
EXTENDS KyokBridge, KyokSocketProofs

(* One step, unfolded to the actions. *)
LEMMA BridgeCases ==
  ASSUME BridgeNext
  PROVE  \/ Enter \/ Yield \/ LeaveBlock \/ Withdrawn \/ WithdrawalTimeout
         \/ Connect \/ ReadWelcome \/ ReadRegistered \/ HandshakeEnds
         \/ ReadRequest \/ ReadOther \/ LinkLost \/ BridgeWrites \/ BridgeWriterFails
         \/ \E r \in Requests : LlmChunk(r) \/ LlmEnds(r) \/ CompletionStep(r)
         \/ \E c \in Connections :
              \/ GatewayReads(c) \/ GatewayWrites(c) \/ GatewayWriterFails(c)
              \/ GatewayHears(c) \/ GatewayFaults(c) \/ GatewayFinishes(c)
              \/ Break(c)
  BY DEF BridgeNext, BlockStep, TaskStep, GatewayStep

(* What the bridge does by itself leaves the gateway alone, except for the *)
(* socket it opens.                                                        *)
LEMMA BridgeAlone ==
  ASSUME \/ Enter \/ Yield \/ LeaveBlock \/ Withdrawn \/ WithdrawalTimeout
         \/ ReadWelcome \/ ReadRegistered \/ HandshakeEnds
         \/ ReadRequest \/ ReadOther \/ LinkLost \/ BridgeWrites \/ BridgeWriterFails
         \/ \E r \in Requests : LlmChunk(r) \/ LlmEnds(r)
         \/ \E c \in Connections : Break(c)
  PROVE  UNCHANGED vars
  BY DEF Enter, Yield, LeaveBlock, Withdrawn, WithdrawalTimeout, ReadWelcome, ReadRegistered,
         HandshakeEnds, ReadRequest, ReadOther, LinkLost, BridgeWrites, BridgeWriterFails,
         LlmChunk, LlmEnds, Break

(* Each thing the gateway does here is an action of KyokSocket. *)
LEMMA GatewayActs ==
  ASSUME BridgeTypeOK, NEW c \in Connections,
         \/ GatewayReads(c) \/ GatewayWrites(c) \/ GatewayWriterFails(c)
         \/ GatewayHears(c) \/ GatewayFaults(c) \/ GatewayFinishes(c)
  PROVE  SocketStep(c)
  <1>1. CASE GatewayReads(c)
    <2> DEFINE f == Head(up[c])
    <2>1. \/ f = Hello /\ (Attach(c) \/ HandshakeFails(c))
          \/ AskCore(c, "register", {Offering}) \/ AskCore(c, "delete", {Offering})
          \/ f.type \in AnswerKinds /\ ReceiveAnswer(c, f.request, f.type)
      BY <1>1 DEF GatewayReads, Handle
    <2>2. f \in Spoken
      BY <1>1 DEF GatewayReads, BridgeTypeOK
    <2> HIDE DEF f
    <2>3. {Offering} \in (SUBSET Models) \ {{}}
      BY BridgeAssumption
    <2>4. AskCore(c, "register", {Offering}) => ReceiveRegister(c)
      BY <2>3 DEF ReceiveRegister
    <2>5. AskCore(c, "delete", {Offering}) => ReceiveDelete(c)
      BY BridgeAssumption DEF ReceiveDelete
    <2>6. f.type \in AnswerKinds => f.request \in Requests
      BY <2>2 DEF Spoken, Hello, Says, AnswerKinds
    <2>7. QED
      BY <2>1, <2>4, <2>5, <2>6 DEF SocketStep
  <1>2. QED
    BY <1>1 DEF GatewayWrites, GatewayWriterFails, GatewayHears, GatewayFaults,
                GatewayFinishes, SocketStep

LEMMA RelayStep ==
  ASSUME BridgeTypeOK, [BridgeNext]_allVars
  PROVE  [Next]_vars
  <1>1. CASE UNCHANGED allVars
    BY <1>1 DEF allVars
  <1>2. CASE Connect
    <2>1. PICK c \in Connections : Accept(c)
      BY <1>2 DEF Connect
    <2>2. QED
      BY <2>1 DEF Next, SocketStep
  <1>3. ASSUME NEW r \in Requests, CompletionStep(r) PROVE Next
    BY <1>3, BridgeAssumption
    DEF CompletionStep, AskBridge, Next, RequestStep, ConsumerStep, Ask
  <1>4. ASSUME NEW c \in Connections, SocketStep(c) PROVE Next
    BY <1>4 DEF Next
  <1>5. CASE BridgeNext
    BY <1>2, <1>3, <1>4, <1>5, BridgeCases, BridgeAlone, GatewayActs
  <1>6. QED
    BY <1>1, <1>5

-----------------------------------------------------------------------------
(***************************************************************************)
(* Type correctness of the bridge's half.  It takes that what belongs to a *)
(* connection is there only while the task serves on one, and that the     *)
(* task runs for as long as the caller is in its block.                    *)
(***************************************************************************)
OneTask ==
  /\ block = "out" <=> task = "off"
  /\ isAttached <=> task = "serving"
  /\ bwriter # "off" <=> task = "serving"
  /\ queue # <<>> => task = "serving"

BridgeInv == BridgeTypeOK /\ OneTask

LEMMA SpokenFrames ==
  /\ Hello \in Spoken /\ Says("register", None) \in Spoken /\ Says("deleteModel", None) \in Spoken
  /\ \A r \in Requests, kind \in AnswerKinds : Says(kind, r) \in Spoken
  BY DEF Spoken, Says

LEMMA SendType ==
  ASSUME BridgeTypeOK, NEW c \in Connections, NEW f \in Spoken, Send(c, f)
  PROVE  up' \in [Connections -> Seq(Spoken)]
  BY DEF BridgeTypeOK, Send

LEMMA CloseType ==
  ASSUME BridgeTypeOK, NEW c \in Connections, Close(c)
  PROVE  /\ wire' \in [Connections -> {"none", "up", "broken"}]
         /\ down' \in [Connections -> Seq(Frames)]
  BY DEF BridgeTypeOK, Close

LEMMA UnwindType ==
  ASSUME BridgeTypeOK, task = "serving", Unwind
  PROVE  /\ isAttached' = FALSE /\ queue' = <<>> /\ bwriter' = "off" /\ at' = None
         /\ wire' \in [Connections -> {"none", "up", "broken"}]
         /\ down' \in [Connections -> Seq(Frames)]
         /\ calls' \in [Requests -> {"none", "working", "cancelled", "whole", "broke", "refused"}]
  <1>1. at \in Connections
    BY DEF BridgeTypeOK
  <1>2. QED
    BY <1>1, CloseType DEF Unwind, BridgeTypeOK

LEMMA CancelType ==
  ASSUME BridgeInv, CancelTask, UNCHANGED <<produced, up>>
  PROVE  BridgeInv'
  <1>0. <<>> \in Seq(Spoken)
    OBVIOUS
  <1>1. CASE task = "serving"
    <2>1. /\ isAttached' = FALSE /\ queue' = <<>> /\ bwriter' = "off" /\ at' = None
          /\ wire' \in [Connections -> {"none", "up", "broken"}]
          /\ down' \in [Connections -> Seq(Frames)]
          /\ calls' \in [Requests -> {"none", "working", "cancelled", "whole", "broke", "refused"}]
      BY <1>1, UnwindType DEF CancelTask, BridgeInv
    <2>2. /\ deleted' = deleted
          /\ \/ task' = "waiting" /\ block' = "joining"
             \/ task' = "off" /\ block' = "out"
      BY <1>1 DEF CancelTask
    <2>3. BridgeTypeOK'
      BY <1>0, <2>1, <2>2 DEF BridgeInv, BridgeTypeOK, Tasks, Blocks
    <2>4. OneTask'
      BY <2>1, <2>2 DEF OneTask
    <2>5. QED
      BY <2>3, <2>4 DEF BridgeInv
  <1>2. CASE task # "serving"
    <2>1. /\ wire' \in [Connections -> {"none", "up", "broken"}]
          /\ down' \in [Connections -> Seq(Frames)]
      BY <1>2, CloseType DEF CancelTask, BridgeInv, BridgeTypeOK
    <2>2. /\ task' = "off" /\ block' = "out" /\ at' = None
          /\ UNCHANGED <<isAttached, deleted, queue, bwriter, calls>>
      BY <1>2 DEF CancelTask
    <2>3. BridgeTypeOK'
      BY <2>1, <2>2 DEF BridgeInv, BridgeTypeOK, Tasks, Blocks
    <2>4. OneTask'
      BY <1>2, <2>2 DEF BridgeInv, OneTask
    <2>5. QED
      BY <2>3, <2>4 DEF BridgeInv
  <1>3. QED
    BY <1>1, <1>2

LEMMA BlockType ==
  ASSUME BridgeInv, Enter \/ Yield \/ LeaveBlock \/ Withdrawn \/ WithdrawalTimeout
  PROVE  BridgeInv'
  <1>1. CASE Enter
    BY <1>1 DEF Enter, BridgeInv, BridgeTypeOK, OneTask, Tasks, Blocks, wireVars
  <1>2. CASE Yield
    BY <1>2 DEF Yield, BridgeInv, BridgeTypeOK, OneTask, Tasks, Blocks, wireVars
  <1>3. ASSUME isAttached, block # "out", AskWithdrawal, UNCHANGED <<produced, up>>
        PROVE  BridgeInv'
    <2>1. queue' \in Seq(Spoken)
      BY <1>3, SpokenFrames DEF AskWithdrawal, BridgeInv, BridgeTypeOK
    <2>2. BridgeTypeOK'
      BY <1>3, <2>1 DEF AskWithdrawal, BridgeInv, BridgeTypeOK, Blocks
    <2>3. OneTask'
      BY <1>3 DEF AskWithdrawal, BridgeInv, OneTask
    <2>4. QED
      BY <2>2, <2>3 DEF BridgeInv
  <1>4. CASE LeaveBlock
    BY <1>3, <1>4, CancelType DEF LeaveBlock
  <1>5. CASE Withdrawn \/ WithdrawalTimeout
    BY <1>5, CancelType DEF Withdrawn, WithdrawalTimeout
  <1>6. QED
    BY <1>1, <1>2, <1>4, <1>5

LEMMA LostType ==
  ASSUME BridgeInv, LinkLost
  PROVE  BridgeInv'
  <1>1. /\ isAttached' = FALSE /\ queue' = <<>> /\ bwriter' = "off" /\ at' = None
        /\ wire' \in [Connections -> {"none", "up", "broken"}]
        /\ down' \in [Connections -> Seq(Frames)]
        /\ calls' \in [Requests -> {"none", "working", "cancelled", "whole", "broke", "refused"}]
    BY UnwindType DEF LinkLost, BridgeInv
  <1>2. task = "serving" /\ task' = "waiting" /\ UNCHANGED <<deleted, produced, block, up>>
    BY DEF LinkLost
  <1>3. <<>> \in Seq(Spoken)
    OBVIOUS
  <1>4. BridgeTypeOK'
    BY <1>1, <1>2, <1>3 DEF BridgeInv, BridgeTypeOK, Tasks
  <1>5. OneTask'
    BY <1>1, <1>2 DEF BridgeInv, OneTask
  <1>6. QED
    BY <1>4, <1>5 DEF BridgeInv

LEMMA TaskType ==
  ASSUME BridgeInv,
         \/ Connect \/ ReadWelcome \/ ReadRegistered \/ HandshakeEnds
         \/ ReadRequest \/ ReadOther \/ LinkLost \/ BridgeWrites \/ BridgeWriterFails
  PROVE  BridgeInv'
  <1> USE DEF BridgeInv, BridgeTypeOK, OneTask, Tasks, Blocks
  <1>0. ASSUME at # None, down[at] # <<>>, Consumed
        PROVE  down' \in [Connections -> Seq(Frames)]
    BY <1>0 DEF Consumed
  <1>1. CASE Connect
    <2>1. PICK c \in Connections :
            /\ at' = c /\ wire' = [wire EXCEPT ![c] = "up"] /\ up' = [up EXCEPT ![c] = <<Hello>>]
      BY <1>1 DEF Connect
    <2>2. <<Hello>> \in Seq(Spoken)
      BY SpokenFrames
    <2>3. QED
      BY <1>1, <2>1, <2>2, ConstantsAssumption DEF Connect
  <1>2. CASE ReadWelcome
    <2>1. up' \in [Connections -> Seq(Spoken)]
      BY <1>2, SendType, SpokenFrames DEF ReadWelcome
    <2>2. QED
      BY <1>0, <1>2, <2>1 DEF ReadWelcome, Arrived
  <1>3. CASE ReadRegistered
    BY <1>0, <1>3 DEF ReadRegistered, Arrived
  <1>4. CASE HandshakeEnds
    BY <1>4, CloseType DEF HandshakeEnds
  <1>5. CASE ReadRequest
    BY <1>0, <1>5 DEF ReadRequest, Arrived
  <1>6. CASE ReadOther
    BY <1>0, <1>6 DEF ReadOther, Arrived
  <1>7. CASE LinkLost
    BY <1>7, LostType
  <1>8. CASE BridgeWrites
    <2>1. at \in Connections /\ Head(queue) \in Spoken /\ Tail(queue) \in Seq(Spoken)
      BY <1>8 DEF BridgeWrites
    <2>2. up' \in [Connections -> Seq(Spoken)]
      BY <1>8, <2>1, SendType DEF BridgeWrites
    <2>3. QED
      BY <1>8, <2>1, <2>2 DEF BridgeWrites
  <1>9. CASE BridgeWriterFails
    BY <1>9 DEF BridgeWriterFails, wireVars
  <1>10. QED
    BY <1>1, <1>2, <1>3, <1>4, <1>5, <1>6, <1>7, <1>8, <1>9

LEMMA CallsType ==
  ASSUME BridgeInv, NEW r \in Requests, LlmChunk(r) \/ LlmEnds(r) \/ CompletionStep(r)
  PROVE  BridgeInv'
  <1> USE DEF BridgeInv, BridgeTypeOK, OneTask
  <1>1. ASSUME NEW kind \in AnswerKinds, Answer(r, kind)
        PROVE  queue' \in Seq(Spoken) /\ (queue' # <<>> => task = "serving")
    BY <1>1, SpokenFrames DEF Answer
  <1>2. CASE LlmChunk(r)
    <2>1. queue' \in Seq(Spoken) /\ (queue' # <<>> => task = "serving")
      BY <1>1, <1>2 DEF LlmChunk, AnswerKinds
    <2>2. produced' \in [Requests -> 0..MaxFrames]
      BY <1>2, ConstantsAssumption DEF LlmChunk
    <2>3. QED
      BY <1>2, <2>1, <2>2 DEF LlmChunk, wireVars
  <1>3. CASE LlmEnds(r)
    <2>1. PICK how \in {"whole", "broke", "refused"} :
            calls' = [calls EXCEPT ![r] = how] /\ Answer(r, Outcome[how])
      BY <1>3 DEF LlmEnds
    <2>2. Outcome[how] \in AnswerKinds
      BY DEF Outcome, AnswerKinds
    <2>3. queue' \in Seq(Spoken) /\ (queue' # <<>> => task = "serving")
      BY <1>1, <2>1, <2>2
    <2>4. QED
      BY <1>3, <2>1, <2>3 DEF LlmEnds, wireVars
  <1>4. CASE CompletionStep(r)
    BY <1>4 DEF CompletionStep, bridgeVars, wireVars
  <1>5. QED
    BY <1>2, <1>3, <1>4

LEMMA GatewayType ==
  ASSUME TypeOK, BridgeInv, NEW c \in Connections,
         \/ GatewayReads(c) \/ GatewayWrites(c) \/ GatewayWriterFails(c)
         \/ GatewayHears(c) \/ GatewayFaults(c) \/ GatewayFinishes(c)
         \/ Break(c)
  PROVE  BridgeInv'
  <1> USE DEF BridgeInv, BridgeTypeOK, OneTask, bridgeVars, wireVars
  <1>1. CASE GatewayReads(c)
    <2>1. wire' \in [Connections -> {"none", "up", "broken"}]
      BY <1>1 DEF GatewayReads, Handle
    <2>2. up' \in [Connections -> Seq(Spoken)]
      BY <1>1 DEF GatewayReads
    <2>3. QED
      BY <1>1, <2>1, <2>2 DEF GatewayReads
  <1>2. CASE GatewayWrites(c)
    <2>1. outbound[c] # <<>> /\ outbound[c] \in Seq(Frames)
      BY <1>2 DEF GatewayWrites, WriteFrame, TypeOK
    <2>2. Head(outbound[c]) \in Frames
      BY <2>1
    <2>3. down' \in [Connections -> Seq(Frames)]
      BY <1>2, <2>2 DEF GatewayWrites
    <2>4. QED
      BY <1>2, <2>3 DEF GatewayWrites
  <1>3. CASE GatewayWriterFails(c) \/ GatewayFinishes(c)
    BY <1>3 DEF GatewayWriterFails, GatewayFinishes
  <1>4. CASE GatewayHears(c) \/ GatewayFaults(c) \/ Break(c)
    <2>1. <<>> \in Seq(Spoken)
      OBVIOUS
    <2>2. up' \in [Connections -> Seq(Spoken)]
      BY <1>4, <2>1 DEF GatewayHears, GatewayFaults, Break
    <2>3. wire' \in [Connections -> {"none", "up", "broken"}]
      BY <1>4 DEF GatewayHears, GatewayFaults, Break
    <2>4. UNCHANGED <<down, bridgeVars>>
      BY <1>4 DEF GatewayHears, GatewayFaults, Break
    <2>5. QED
      BY <2>2, <2>3, <2>4
  <1>5. QED
    BY <1>1, <1>2, <1>3, <1>4

LEMMA BridgeInvInit == BridgeInit => BridgeInv
  <1>1. <<>> \in Seq(Spoken) /\ <<>> \in Seq(Frames)
    OBVIOUS
  <1>2. BridgeInit => BridgeTypeOK
    <2> SUFFICES ASSUME BridgeInit PROVE BridgeTypeOK
      OBVIOUS
    <2>1. queue \in Seq(Spoken) /\ up \in [Connections -> Seq(Spoken)] /\ down \in [Connections -> Seq(Frames)]
      BY <1>1 DEF BridgeInit
    <2>2. produced \in [Requests -> 0..MaxFrames]
      BY ConstantsAssumption DEF BridgeInit
    <2>3. isAttached \in BOOLEAN /\ deleted \in BOOLEAN
      BY DEF BridgeInit
    <2>4. QED
      BY <2>1, <2>2, <2>3 DEF BridgeInit, BridgeTypeOK, Tasks, Blocks
  <1>3. BridgeInit => OneTask
    BY DEF BridgeInit, OneTask
  <1>4. QED
    BY <1>2, <1>3 DEF BridgeInv

LEMMA BridgeInvNext == TypeOK /\ BridgeInv /\ [BridgeNext]_allVars => BridgeInv'
  <1> SUFFICES ASSUME TypeOK, BridgeInv, [BridgeNext]_allVars PROVE BridgeInv'
    OBVIOUS
  <1>1. CASE UNCHANGED allVars
    BY <1>1 DEF allVars, bridgeVars, wireVars, BridgeInv, BridgeTypeOK, OneTask
  <1>2. CASE BridgeNext
    BY <1>2, BridgeCases, BlockType, TaskType, CallsType, GatewayType
  <1>3. QED
    BY <1>1, <1>2

(***************************************************************************)
(* The composition runs the gateway's half as KyokSocket specifies it, and *)
(* so has every property of it: the bridge is one more provider.           *)
(***************************************************************************)
THEOREM BridgeRunsTheRelay == BridgeSpec => Spec
  <1>1. BridgeInit => Init
    BY DEF BridgeInit
  <1>2. BridgeInv /\ [BridgeNext]_allVars => [Next]_vars
    BY RelayStep DEF BridgeInv
  <1>3. TypeOK /\ BridgeInv /\ [BridgeNext]_allVars => (TypeOK /\ BridgeInv)'
    BY <1>2, NextType, BridgeInvNext
  <1>4. QED
    BY <1>1, <1>2, <1>3, InitType, BridgeInvInit, PTL DEF BridgeSpec, Spec

(***************************************************************************)
(* Every variable of the bridge's half keeps its type.                     *)
(***************************************************************************)
THEOREM BridgeTypeCorrect == BridgeSpec => []BridgeTypeOK
  <1>1. TypeOK /\ BridgeInv /\ [BridgeNext]_allVars => (TypeOK /\ BridgeInv)'
    BY RelayStep, NextType, BridgeInvNext DEF BridgeInv
  <1>2. BridgeInit => TypeOK /\ BridgeInv
    BY InitType, BridgeInvInit DEF BridgeInit
  <1>3. BridgeInv => BridgeTypeOK
    BY DEF BridgeInv
  <1>4. QED
    BY <1>1, <1>2, <1>3, PTL DEF BridgeSpec

-----------------------------------------------------------------------------
(***************************************************************************)
(* Answers go up the connection their request came down.  The queue holds  *)
(* only answers to completions of the connection the bridge is on, a wire  *)
(* only those of its own; so what the gateway reads from a socket is about *)
(* that socket's completions, and one still being read is in its table.    *)
(***************************************************************************)
In(s) == {s[i] : i \in 1..Len(s)}

LEMMA InAppend ==
  ASSUME NEW S, NEW s \in Seq(S), NEW x \in S
  PROVE  In(Append(s, x)) = In(s) \cup {x}
  <1>1. /\ Len(Append(s, x)) = Len(s) + 1 /\ Len(s) \in Nat
        /\ \A i \in 1..Len(s) : Append(s, x)[i] = s[i]
        /\ Append(s, x)[Len(s) + 1] = x
    OBVIOUS
  <1>2. ASSUME NEW y \in In(Append(s, x)) PROVE y \in In(s) \cup {x}
    <2>1. PICK i \in 1..Len(s) + 1 : y = Append(s, x)[i]
      BY <1>1, <1>2 DEF In
    <2>2. i \in 1..Len(s) \/ i = Len(s) + 1
      BY <1>1
    <2>3. QED
      BY <1>1, <2>1, <2>2 DEF In
  <1>3. ASSUME NEW y \in In(s) \cup {x} PROVE y \in In(Append(s, x))
    <2>1. CASE y = x
      <3>1. Len(s) + 1 \in 1..Len(Append(s, x))
        BY <1>1
      <3>2. QED
        BY <1>1, <2>1, <3>1 DEF In
    <2>2. CASE y \in In(s)
      <3>1. PICK i \in 1..Len(s) : y = s[i]
        BY <2>2 DEF In
      <3>2. i \in 1..Len(Append(s, x)) /\ Append(s, x)[i] = y
        BY <1>1, <3>1
      <3>3. QED
        BY <3>2 DEF In
    <2>3. QED
      BY <1>3, <2>1, <2>2
  <1>4. QED
    BY <1>2, <1>3

LEMMA InTail ==
  ASSUME NEW S, NEW s \in Seq(S), s # <<>>
  PROVE  In(Tail(s)) \subseteq In(s) /\ Head(s) \in In(s)
  <1>1. /\ Len(Tail(s)) = Len(s) - 1 /\ Len(s) \in Nat /\ Len(s) >= 1
        /\ \A i \in 1..Len(Tail(s)) : Tail(s)[i] = s[i + 1]
        /\ Head(s) = s[1]
    OBVIOUS
  <1>2. ASSUME NEW y \in In(Tail(s)) PROVE y \in In(s)
    <2>1. PICK i \in 1..Len(Tail(s)) : y = Tail(s)[i]
      BY DEF In
    <2>2. i + 1 \in 1..Len(s) /\ y = s[i + 1]
      BY <1>1, <2>1
    <2>3. QED
      BY <2>2 DEF In
  <1>3. Head(s) \in In(s)
    <2>1. 1 \in 1..Len(s)
      BY <1>1
    <2>2. QED
      BY <1>1, <2>1 DEF In
  <1>4. QED
    BY <1>2, <1>3

LEMMA InEmpty == In(<<>>) = {}
  BY DEF In

About(f, c) == f.type \in AnswerKinds => link[f.request] = c

Routed ==
  /\ \A f \in In(queue) : About(f, at)
  /\ \A c \in Connections : \A f \in In(up[c]) : About(f, c)

Settled == \A c \in Connections, r \in Requests :
             Frame("error", r) \in In(outbound[c]) => Asked(r) /\ stage[r] \notin Live

(* A completion's link, once it has one, stays. *)
LEMMA LinksStay ==
  ASSUME TypeOK, Binding, [Next]_vars, NEW c \in Connections, NEW f, About(f, c),
         f \in Spoken
  PROVE  About(f, c)'
  <1> SUFFICES ASSUME f.type \in AnswerKinds PROVE link'[f.request] = link[f.request]
    BY DEF About
  <1>1. f.request \in Requests /\ link[f.request] # None
    BY ConstantsAssumption DEF About, Spoken, Hello, Says, AnswerKinds
  <1>2. ASSUME NEW r \in Requests, NEW k \in Keys, NEW m \in Models,
               Complete(r, k, m) \/ Unavailable(r, k, m)
        PROVE  link'[f.request] = link[f.request]
    <2>1. r # f.request
      BY <1>1, <1>2 DEF Complete, Unavailable, Binding, Placed, Asked
    <2>2. CASE Complete(r, k, m)
      <3>1. link' = [link EXCEPT ![r] = attached[k]]
        BY <2>2 DEF Complete
      <3>2. QED
        BY <1>1, <2>1, <3>1 DEF TypeOK
    <2>3. CASE Unavailable(r, k, m)
      BY <2>3 DEF Unavailable
    <2>4. QED
      BY <1>2, <2>2, <2>3
  <1>3. ASSUME NEW d \in Connections,
               Accept(d) \/ HandshakeFails(d) \/ Attach(d) \/ Disconnect(d) \/ HandlerFault(d)
        PROVE  link' = link
    BY <1>3 DEF Accept, HandshakeFails, Attach, Disconnect, HandlerFault, Teardown, streamVars
  <1>4. ASSUME NEW d \in Connections, NEW r \in Requests, NEW kind \in AnswerKinds,
               ReceiveAnswer(d, r, kind)
        PROVE  link' = link
    BY <1>4 DEF ReceiveAnswer, streamVars
  <1>5. CASE Next
    BY <1>2, <1>3, <1>4, <1>5, NextCases, QuietSteps, StreamShape DEF relayVars
  <1>6. QED
    BY <1>5 DEF vars, streamVars

(* A frame in the queue was there before, or answers a completion of the   *)
(* connection the bridge is on.                                            *)
LEMMA QueueFlow ==
  ASSUME BridgeInv, BridgeNext, NEW f \in In(queue')
  PROVE  at' = at /\ (f \in In(queue) \/ About(f, at))
  <1> USE DEF BridgeInv, BridgeTypeOK
  <1>1. In(<<>>) = {}
    BY InEmpty
  <1>2. CASE queue' = <<>>
    BY <1>1, <1>2
  <1>3. CASE UNCHANGED <<queue, at>>
    BY <1>3
  <1>4. CASE at' = at /\ queue # <<>> /\ queue' = Tail(queue)
    BY <1>4, InTail
  <1>5. ASSUME NEW x \in Spoken, About(x, at), at' = at, queue' = Append(queue, x)
        PROVE  f \in In(queue) \/ About(f, at)
    BY <1>5, InAppend
  <1>6. CASE queue = <<>> /\ UNCHANGED queue
    BY <1>1, <1>6
  <1>7. task # "serving" => queue = <<>>
    BY DEF OneTask
  <1>8. CancelTask => queue' = <<>> \/ (queue = <<>> /\ UNCHANGED queue)
    BY <1>7 DEF CancelTask, Unwind
  <1>9. AskWithdrawal => at' = at /\ queue' = Append(queue, Says("deleteModel", None))
    BY DEF AskWithdrawal
  <1>10. About(Says("deleteModel", None), at)
    BY DEF About, Says, AnswerKinds
  <1>11. CASE LeaveBlock \/ Withdrawn \/ WithdrawalTimeout
    BY <1>2, <1>5, <1>6, <1>8, <1>9, <1>10, <1>11, SpokenFrames
    DEF LeaveBlock, Withdrawn, WithdrawalTimeout
  <1>12. CASE Connect \/ HandshakeEnds
    BY <1>6, <1>7, <1>12 DEF Connect, HandshakeEnds
  <1>13. CASE ReadRegistered \/ LinkLost
    BY <1>2, <1>13 DEF ReadRegistered, LinkLost, Unwind
  <1>14. CASE BridgeWrites \/ BridgeWriterFails
    BY <1>4, <1>14 DEF BridgeWrites, BridgeWriterFails
  <1>15. ASSUME NEW r \in Requests, NEW kind \in AnswerKinds, Answer(r, kind), at' = at
         PROVE  f \in In(queue) \/ About(f, at)
    <2>1. CASE task = "serving" /\ at = link[r]
      <3>1. About(Says(kind, r), at)
        BY <2>1 DEF About, Says
      <3>2. QED
        BY <1>5, <1>15, <2>1, <3>1, SpokenFrames DEF Answer
    <2>2. QED
      BY <1>3, <1>15, <2>1 DEF Answer
  <1>16. ASSUME NEW r \in Requests, LlmChunk(r) \/ LlmEnds(r)
         PROVE  at' = at /\ \E kind \in AnswerKinds : Answer(r, kind)
    BY <1>16 DEF LlmChunk, LlmEnds, AnswerKinds, Outcome
  <1>17. CASE \/ Enter \/ Yield \/ ReadWelcome \/ ReadRequest \/ ReadOther
              \/ \E r \in Requests : CompletionStep(r)
              \/ \E c \in Connections :
                   \/ GatewayReads(c) \/ GatewayWrites(c) \/ GatewayWriterFails(c)
                   \/ GatewayHears(c) \/ GatewayFaults(c) \/ GatewayFinishes(c) \/ Break(c)
    BY <1>3, <1>17
    DEF Enter, Yield, ReadWelcome, ReadRequest, ReadOther, CompletionStep, GatewayReads,
        GatewayWrites, GatewayWriterFails, GatewayHears, GatewayFaults, GatewayFinishes, Break,
        bridgeVars
  <1>18. QED
    BY <1>11, <1>12, <1>13, <1>14, <1>15, <1>16, <1>17, BridgeCases

(* What is on the way up a connection answers completions of that one. *)
LEMMA UpFlow ==
  ASSUME BridgeInv, Routed, BridgeNext, NEW c \in Connections, NEW f \in In(up'[c])
  PROVE  About(f, c)
  <1> USE DEF BridgeInv, BridgeTypeOK
  <1>1. In(<<>>) = {}
    BY InEmpty
  <1>2. CASE up'[c] = up[c]
    BY <1>2 DEF Routed
  <1>3. CASE up'[c] = <<>>
    BY <1>1, <1>3
  <1>4. CASE up[c] # <<>> /\ up'[c] = Tail(up[c])
    BY <1>4, InTail DEF Routed
  <1>5. ASSUME NEW d \in Connections, NEW x \in Spoken, About(x, d), Send(d, x)
        PROVE  About(f, c)
    <2>1. CASE d = c /\ wire[d] = "up"
      <3>1. up'[c] = Append(up[c], x)
        BY <1>5, <2>1 DEF Send
      <3>2. In(up'[c]) = In(up[c]) \cup {x}
        BY <3>1, InAppend
      <3>3. QED
        BY <1>5, <2>1, <3>2 DEF Routed
    <2>2. up'[c] = up[c] \/ (d = c /\ wire[d] = "up")
      BY <1>5 DEF Send
    <2>3. QED
      BY <1>2, <2>1, <2>2
  <1>6. CASE Connect
    <2>1. PICK d \in Connections : up' = [up EXCEPT ![d] = <<Hello>>]
      BY <1>6 DEF Connect
    <2>2. In(<<Hello>>) = {Hello}
      BY DEF In
    <2>3. About(Hello, c)
      BY DEF About, Hello, Says, AnswerKinds
    <2>4. up'[c] = up[c] \/ up'[c] = <<Hello>>
      BY <2>1
    <2>5. QED
      BY <1>2, <2>2, <2>3, <2>4
  <1>7. CASE ReadWelcome
    <2>1. About(Says("register", None), at)
      BY DEF About, Says, AnswerKinds
    <2>2. at \in Connections
      BY <1>7 DEF ReadWelcome
    <2>3. QED
      BY <1>5, <1>7, <2>1, <2>2, SpokenFrames DEF ReadWelcome
  <1>8. CASE BridgeWrites
    <2>1. at \in Connections /\ Head(queue) \in Spoken
      BY <1>8 DEF BridgeWrites, OneTask
    <2>2. About(Head(queue), at)
      BY <1>8, InTail DEF Routed, BridgeWrites
    <2>3. QED
      BY <1>5, <1>8, <2>1, <2>2 DEF BridgeWrites
  <1>9. ASSUME NEW d \in Connections, GatewayReads(d) PROVE About(f, c)
    <2>1. up' = [up EXCEPT ![d] = Tail(up[d])] /\ up[d] # <<>>
      BY <1>9 DEF GatewayReads
    <2>2. QED
      BY <1>2, <1>4, <2>1
  <1>10. ASSUME NEW d \in Connections, GatewayHears(d) \/ GatewayFaults(d) PROVE About(f, c)
    <2>1. up' = [up EXCEPT ![d] = <<>>]
      BY <1>10 DEF GatewayHears, GatewayFaults
    <2>2. QED
      BY <1>2, <1>3, <2>1
  <1>11. CASE \/ Enter \/ Yield \/ LeaveBlock \/ Withdrawn \/ WithdrawalTimeout
              \/ ReadRegistered \/ HandshakeEnds \/ ReadRequest \/ ReadOther \/ LinkLost
              \/ BridgeWriterFails
              \/ \E r \in Requests : LlmChunk(r) \/ LlmEnds(r) \/ CompletionStep(r)
              \/ \E d \in Connections :
                   GatewayWrites(d) \/ GatewayWriterFails(d) \/ GatewayFinishes(d) \/ Break(d)
    BY <1>2, <1>11
    DEF Enter, Yield, LeaveBlock, Withdrawn, WithdrawalTimeout, ReadRegistered, HandshakeEnds,
        ReadRequest, ReadOther, LinkLost, BridgeWriterFails, LlmChunk, LlmEnds, CompletionStep,
        GatewayWrites, GatewayWriterFails, GatewayFinishes, Break, wireVars
  <1>12. QED
    BY <1>6, <1>7, <1>8, <1>9, <1>10, <1>11, BridgeCases

LEMMA RoutedNext ==
  ASSUME TypeOK, Binding, BridgeInv, Routed, [BridgeNext]_allVars
  PROVE  Routed'
  <1>1. CASE UNCHANGED allVars
    BY <1>1 DEF allVars, bridgeVars, wireVars, vars, streamVars, Routed, About
  <1>2. CASE BridgeNext
    <2>1. [Next]_vars /\ BridgeInv'
      BY RelayStep, BridgeInvNext DEF BridgeInv
    <2>2. ASSUME NEW S, NEW s \in Seq(S), NEW f \in In(s) PROVE f \in S
      BY <2>2 DEF In
    <2>3. ASSUME NEW f \in In(queue') PROVE About(f, at)'
      <3>1. at' = at /\ About(f, at)
        BY <1>2, <2>3, QueueFlow DEF Routed
      <3>2. queue' # <<>> /\ f \in Spoken
        BY <2>1, <2>2, <2>3, InEmpty DEF BridgeInv, BridgeTypeOK
      <3>3. at' \in Connections
        BY <2>1, <3>2 DEF BridgeInv, BridgeTypeOK, OneTask
      <3>4. QED
        BY <2>1, <3>1, <3>2, <3>3, LinksStay DEF About
    <2>4. ASSUME NEW c \in Connections, NEW f \in In(up'[c]) PROVE About(f, c)'
      <3>1. f \in Spoken
        BY <2>1, <2>2, <2>4 DEF BridgeInv, BridgeTypeOK
      <3>2. QED
        BY <1>2, <2>1, <2>4, <3>1, UpFlow, LinksStay
    <2>5. QED
      BY <2>3, <2>4 DEF Routed, In
  <1>3. QED
    BY <1>1, <1>2

(* A completion nobody waits for stays so. *)
LEMMA EndsForGood ==
  ASSUME TypeOK, [Next]_vars, NEW r \in Requests, Asked(r), stage[r] \notin Live
  PROVE  Asked(r)' /\ stage'[r] \notin Live
  <1>1. ASSUME NEW q \in Requests, NEW k \in Keys, NEW m \in Models,
               Complete(q, k, m) \/ Unavailable(q, k, m)
        PROVE  stage'[r] = stage[r]
    <2>1. q # r
      BY <1>1 DEF Complete, Unavailable, Asked
    <2>2. QED
      BY <1>1, <2>1 DEF Complete, Unavailable, TypeOK
  <1>2. ASSUME NEW d \in Connections,
               Accept(d) \/ HandshakeFails(d) \/ Attach(d) \/ Disconnect(d) \/ HandlerFault(d)
        PROVE  stage' = stage
    BY <1>2 DEF Accept, HandshakeFails, Attach, Disconnect, HandlerFault, Teardown, streamVars
  <1>3. ASSUME NEW d \in Connections, NEW q \in Requests, NEW kind \in AnswerKinds,
               ReceiveAnswer(d, q, kind)
        PROVE  stage' = stage
    BY <1>3 DEF ReceiveAnswer, streamVars
  <1>4. ASSUME NEW q \in Requests,
               \/ Start(q) \/ Discard(q) \/ Take(q) \/ Resume(q)
               \/ CallerLeaves(q) \/ GapTimeout(q) \/ Finalize(q)
        PROVE  Asked(r)' /\ stage'[r] \notin Live
    <2>1. CASE q = r
      BY <1>4, <2>1, StreamShape
    <2>2. CASE q # r
      BY <1>4, <2>2, StreamShape DEF Asked
    <2>3. QED
      BY <2>1, <2>2
  <1>5. CASE Next
    BY <1>1, <1>2, <1>3, <1>4, <1>5, NextCases, QuietSteps DEF relayVars, Asked
  <1>6. QED
    BY <1>5 DEF vars, streamVars, Asked

(* The gateway's refusals are of answers it reads. *)
LEMMA OutboundFlow ==
  ASSUME TypeOK, BridgeInv, BridgeNext, NEW c \in Connections, NEW r \in Requests,
         Frame("error", r) \in In(outbound'[c])
  PROVE  \/ Frame("error", r) \in In(outbound[c])
         \/ /\ up[c] # <<>> /\ Head(up[c]).type \in AnswerKinds /\ Head(up[c]).request = r
            /\ phase[c] = "open" /\ r \notin table[c] /\ UNCHANGED stage
  <1> DEFINE e == Frame("error", r)
             Refused(d) == /\ up[d] # <<>> /\ Head(up[d]).type \in AnswerKinds
                           /\ Head(up[d]).request = r
                           /\ phase[d] = "open" /\ r \notin table[d] /\ UNCHANGED stage
  <1>1. CASE UNCHANGED outbound
    BY <1>1
  <1>2. e \in Frames /\ outbound[c] \in Seq(Frames) /\ None # r
    BY ConstantsAssumption DEF Frames, Frame, TypeOK
  <1>3. ASSUME NEW d \in Connections, NEW g \in Frames, Post(d, g)
        PROVE  e \in In(outbound[c]) \/ (e = g /\ d = c)
    <2>1. CASE d = c
      <3>1. outbound'[c] = Append(outbound[c], g)
        BY <1>3, <2>1 DEF Post, TypeOK
      <3>2. QED
        BY <1>2, <2>1, <3>1, InAppend
    <2>2. CASE d # c
      BY <1>3, <2>2 DEF Post, TypeOK
    <2>3. QED
      BY <2>1, <2>2
  <1>4. ASSUME NEW d \in Connections, NEW r1 \in Requests \cup {None},
               NEW t \in {"welcome", "registered", "deleted", "error", "completionRequest"}
        PROVE  Frame(t, r1) \in Frames /\ (e = Frame(t, r1) => t = "error" /\ r1 = r)
    BY DEF Frames, Frame
  <1>5. ASSUME NEW q \in Requests, CompletionStep(q) PROVE e \in In(outbound[c])
    <2>1. ASSUME NEW k \in Keys, NEW m \in Models, Complete(q, k, m) PROVE e \in In(outbound[c])
      <3>1. attached[k] \in Connections /\ Post(attached[k], Frame("completionRequest", q))
        BY <2>1 DEF Complete, TypeOK
      <3>2. QED
        BY <1>3, <1>4, <3>1
    <2>2. CASE Unavailable(q, Self, Offering) \/ Start(q) \/ Take(q) \/ Resume(q) \/ GapTimeout(q)
      BY <1>1, <2>2 DEF Unavailable, Start, Take, Resume, GapTimeout, socketVars
    <2>3. QED
      BY <1>5, <2>1, <2>2, BridgeAssumption DEF CompletionStep, AskBridge
  <1>6. ASSUME NEW d \in Connections, GatewayReads(d)
        PROVE  e \in In(outbound[c]) \/ Refused(c)
    <2>1. CASE Attach(d)
      <3>1. outbound' = [outbound EXCEPT ![d] = <<Frame("welcome", None)>>]
        BY <2>1 DEF Attach
      <3>2. outbound'[c] = outbound[c] \/ outbound'[c] = <<Frame("welcome", None)>>
        BY <3>1 DEF TypeOK
      <3>3. In(<<Frame("welcome", None)>>) = {Frame("welcome", None)}
        BY DEF In
      <3>4. e # Frame("welcome", None)
        BY DEF Frame
      <3>5. QED
        BY <3>2, <3>3, <3>4
    <2>2. CASE \/ HandshakeFails(d) \/ AskCore(d, "register", {Offering})
               \/ AskCore(d, "delete", {Offering})
      BY <1>1, <2>2 DEF HandshakeFails, AskCore
    <2>3. CASE /\ Head(up[d]).type \in AnswerKinds
               /\ ReceiveAnswer(d, Head(up[d]).request, Head(up[d]).type)
      <3> DEFINE q == Head(up[d]).request
      <3>1. CASE UNCHANGED outbound
        BY <1>1, <3>1
      <3>2. CASE ~InFlight(d, q) /\ Post(d, Frame("error", q))
        <4>1. q \in Requests
          <5>1. Head(up[d]) \in Spoken
            BY <1>6 DEF GatewayReads, BridgeInv, BridgeTypeOK
          <5>2. QED
            BY <2>3, <5>1 DEF Spoken, Hello, Says, AnswerKinds
        <4>2. e \in In(outbound[c]) \/ (q = r /\ d = c)
          BY <1>3, <1>4, <3>2, <4>1
        <4>3. phase[d] = "open" /\ UNCHANGED stage
          BY <2>3 DEF ReceiveAnswer, Reading, streamVars
        <4>4. QED
          BY <1>6, <2>3, <3>2, <4>2, <4>3 DEF GatewayReads, InFlight
      <3>3. QED
        BY <2>3, <3>1, <3>2 DEF ReceiveAnswer
    <2>4. QED
      BY <1>6, <2>1, <2>2, <2>3 DEF GatewayReads, Handle
  <1>7. ASSUME NEW d \in Connections, GatewayWrites(d) \/ GatewayWriterFails(d)
        PROVE  e \in In(outbound[c])
    <2>1. outbound' = [outbound EXCEPT ![d] = Tail(outbound[d])] /\ outbound[d] # <<>>
      BY <1>7 DEF GatewayWrites, GatewayWriterFails, WriteFrame, WriterFails
    <2>2. outbound'[c] = outbound[c] \/ (outbound[c] # <<>> /\ outbound'[c] = Tail(outbound[c]))
      BY <2>1 DEF TypeOK
    <2>3. QED
      BY <1>2, <2>2, InTail
  <1>8. ASSUME NEW d \in Connections, GatewayHears(d) \/ GatewayFaults(d)
        PROVE  e \in In(outbound[c])
    <2>1. outbound' = [outbound EXCEPT ![d] = <<>>]
      BY <1>8 DEF GatewayHears, GatewayFaults, Disconnect, HandlerFault, Teardown
    <2>2. outbound'[c] = outbound[c] \/ outbound'[c] = <<>>
      BY <2>1 DEF TypeOK
    <2>3. QED
      BY <2>2, InEmpty
  <1>9. ASSUME NEW d \in Connections, GatewayFinishes(d)
        PROVE  e \in In(outbound[c])
    <2>1. \E t \in {"registered", "deleted", "error"} : Post(d, Frame(t, None))
      BY <1>9 DEF GatewayFinishes, FinishOperation
    <2>2. QED
      BY <1>2, <1>3, <1>4, <2>1
  <1>10. CASE Connect
    BY <1>1, <1>10 DEF Connect, Accept
  <1>11. (UNCHANGED vars) => UNCHANGED outbound
    BY DEF vars, socketVars
  <1>12. QED
    BY <1>1, <1>5, <1>6, <1>7, <1>8, <1>9, <1>10, <1>11, BridgeCases, BridgeAlone

LEMMA SettledNext ==
  ASSUME TypeOK, Binding, BridgeInv, Routed, Settled, [BridgeNext]_allVars
  PROVE  Settled'
  <1>1. CASE UNCHANGED allVars
    BY <1>1 DEF allVars, vars, socketVars, streamVars, Settled, Asked
  <1>2. ASSUME BridgeNext, NEW c \in Connections, NEW r \in Requests,
               Frame("error", r) \in In(outbound'[c])
        PROVE  Asked(r)' /\ stage'[r] \notin Live
    <2>1. [Next]_vars
      BY RelayStep DEF BridgeInv
    <2>2. CASE Frame("error", r) \in In(outbound[c])
      BY <2>1, <2>2, EndsForGood DEF Settled
    <2>3. CASE /\ up[c] # <<>> /\ Head(up[c]).type \in AnswerKinds /\ Head(up[c]).request = r
               /\ phase[c] = "open" /\ r \notin table[c] /\ UNCHANGED stage
      <3>1. Head(up[c]) \in In(up[c])
        BY <2>3, InTail DEF BridgeInv, BridgeTypeOK
      <3>2. link[r] = c
        BY <2>3, <3>1 DEF Routed, About
      <3>3. Asked(r) /\ stage[r] \notin Live
        BY <2>3, <3>2, ConstantsAssumption DEF Binding, Placed, TableIsTheBinding
      <3>4. QED
        BY <2>1, <3>3, EndsForGood
    <2>4. QED
      BY <1>2, <2>2, <2>3, OutboundFlow
  <1>3. QED
    BY <1>1, <1>2 DEF Settled, In, Frame

(***************************************************************************)
(* An answer goes up the connection its request came down, whatever the    *)
(* bridge reconnects in between: the gateway turns one away only when      *)
(* nobody waits for it any more.                                           *)
(***************************************************************************)
THEOREM AnswersAreHeard == BridgeSpec => []NoLiveAnswerTurnedAway
  <1> DEFINE I == TypeOK /\ Binding /\ BridgeInv /\ Routed /\ Settled
  <1>1. BridgeInit => I
    <2>1. BridgeInit => Routed /\ Settled
      BY InEmpty DEF BridgeInit, Init, Routed, Settled
    <2>2. QED
      BY <2>1, InitType, BindingInit, BridgeInvInit DEF BridgeInit
  <1>2. I /\ [BridgeNext]_allVars => I'
    BY RelayStep, NextType, BindingNext, BridgeInvNext, RoutedNext, SettledNext DEF BridgeInv
  <1>3. I => NoLiveAnswerTurnedAway
    BY DEF Settled, NoLiveAnswerTurnedAway, In
  <1>4. QED
    BY <1>1, <1>2, <1>3, PTL DEF BridgeSpec

-----------------------------------------------------------------------------
(***************************************************************************)
(* How many frames of a kind are in a sequence.                            *)
(***************************************************************************)
Count(s, K) == Cardinality({i \in 1..Len(s) : s[i] \in K})

LEMMA CountEmpty == \A K : Count(<<>>, K) = 0
  <1>1. \A K : {i \in 1..Len(<<>>) : <<>>[i] \in K} = {}
    OBVIOUS
  <1>2. QED
    BY <1>1, FS_EmptySet DEF Count

LEMMA CountNat ==
  ASSUME NEW S, NEW s \in Seq(S), NEW K
  PROVE  /\ Count(s, K) \in Nat
         /\ Count(s, K) = 0 <=> In(s) \cap K = {}
  <1> DEFINE I == {i \in 1..Len(s) : s[i] \in K}
  <1>1. Len(s) \in Nat /\ IsFiniteSet(1..Len(s))
    BY FS_Interval
  <1>2. IsFiniteSet(I) /\ Cardinality(I) \in Nat
    BY <1>1, FS_Subset, FS_CardinalityType
  <1>3. Cardinality(I) = 0 <=> I = {}
    BY <1>2, FS_EmptySet
  <1>4. I = {} <=> In(s) \cap K = {}
    BY DEF In
  <1>5. QED
    BY <1>2, <1>3, <1>4 DEF Count

LEMMA CountAppend ==
  ASSUME NEW S, NEW s \in Seq(S), NEW x \in S, NEW K
  PROVE  /\ Count(s, K) \in Nat
         /\ x \in K => Count(Append(s, x), K) = Count(s, K) + 1
         /\ x \notin K => Count(Append(s, x), K) = Count(s, K)
  <1> DEFINE n == Len(s)
             I == {i \in 1..n : s[i] \in K}
             J == {i \in 1..n + 1 : Append(s, x)[i] \in K}
  <1>1. /\ Len(Append(s, x)) = n + 1 /\ n \in Nat
        /\ \A i \in 1..n : Append(s, x)[i] = s[i]
        /\ Append(s, x)[n + 1] = x
    OBVIOUS
  <1>2. IsFiniteSet(I) /\ Cardinality(I) \in Nat
    <2>1. IsFiniteSet(1..n) /\ I \in SUBSET (1..n)
      BY <1>1, FS_Interval
    <2>2. QED
      BY <2>1, FS_Subset, FS_CardinalityType
  <1>3. J = IF x \in K THEN I \cup {n + 1} ELSE I
    <2>1. \A i : i \in 1..n + 1 <=> i \in 1..n \/ i = n + 1
      BY <1>1
    <2>2. \A i : i \in J <=> i \in I \/ (i = n + 1 /\ x \in K)
      BY <1>1, <2>1
    <2>3. QED
      BY <2>2
  <1>4. n + 1 \notin I
    BY <1>1
  <1>5. Cardinality(J) = Cardinality(I) + IF x \in K THEN 1 ELSE 0
    <2>1. CASE x \in K
      BY <1>2, <1>3, <1>4, <2>1, FS_AddElement
    <2>2. CASE x \notin K
      <3>1. J = I
        BY <1>3, <2>2
      <3> HIDE DEF I, J
      <3>2. QED
        BY <1>2, <2>2, <3>1
    <2>3. QED
      BY <2>1, <2>2
  <1>6. Count(s, K) = Cardinality(I) /\ Count(Append(s, x), K) = Cardinality(J)
    BY <1>1 DEF Count
  <1> HIDE DEF I, J
  <1>7. QED
    BY <1>2, <1>5, <1>6

LEMMA CountTail ==
  ASSUME NEW S, NEW s \in Seq(S), s # <<>>, NEW K
  PROVE  /\ Count(Tail(s), K) \in Nat
         /\ Head(s) \in K => Count(s, K) = Count(Tail(s), K) + 1
         /\ Head(s) \notin K => Count(s, K) = Count(Tail(s), K)
  <1> DEFINE n == Len(Tail(s))
             I == {i \in 1..n : Tail(s)[i] \in K}
             J == {i \in 1..Len(s) : s[i] \in K}
             H == {i \in 2..Len(s) : s[i] \in K}
             f == [i \in I |-> i + 1]
  <1>1. /\ n = Len(s) - 1 /\ Len(s) \in Nat /\ Len(s) >= 1 /\ n \in Nat
        /\ \A i \in 1..n : Tail(s)[i] = s[i + 1]
        /\ Head(s) = s[1]
    OBVIOUS
  <1>2. IsFiniteSet(I) /\ Cardinality(I) \in Nat
    <2>1. IsFiniteSet(1..n) /\ I \in SUBSET (1..n)
      BY <1>1, FS_Interval
    <2>2. QED
      BY <2>1, FS_Subset, FS_CardinalityType
  <1>3. f \in Bijection(I, H)
    <2>1. f \in [I -> H]
      BY <1>1
    <2>2. \A i, j \in I : f[i] = f[j] => i = j
      BY <1>1
    <2>3. \A h \in H : \E i \in I : f[i] = h
      <3> SUFFICES ASSUME NEW h \in H PROVE \E i \in I : f[i] = h
        OBVIOUS
      <3>1. h - 1 \in 1..n /\ (h - 1) + 1 = h /\ h \in 2..Len(s) /\ s[h] \in K
        BY <1>1
      <3>2. Tail(s)[h - 1] = s[h]
        BY <1>1, <3>1
      <3>3. h - 1 \in I
        BY <3>1, <3>2
      <3>4. QED
        BY <3>1, <3>3
    <2> HIDE DEF f, I, H
    <2>4. QED
      BY <2>1, <2>2, <2>3 DEF Bijection, Injection, Surjection, IsInjective
  <1>4. IsFiniteSet(H) /\ Cardinality(H) = Cardinality(I)
    BY <1>2, <1>3, FS_Bijection DEF ExistsBijection
  <1>5. J = IF Head(s) \in K THEN H \cup {1} ELSE H
    <2>1. \A i : i \in 1..Len(s) <=> i \in 2..Len(s) \/ i = 1
      BY <1>1
    <2>2. \A i : i \in J <=> i \in H \/ (i = 1 /\ Head(s) \in K)
      BY <1>1, <2>1
    <2>3. QED
      BY <2>2
  <1>6. 1 \notin H
    OBVIOUS
  <1>7. Cardinality(J) = Cardinality(H) + IF Head(s) \in K THEN 1 ELSE 0
    <2>1. CASE Head(s) \in K
      BY <1>4, <1>5, <1>6, <2>1, FS_AddElement
    <2>2. CASE Head(s) \notin K
      <3>1. J = H
        BY <1>5, <2>2
      <3> HIDE DEF I, J, H
      <3>2. QED
        BY <1>2, <1>4, <2>2, <3>1
    <2>3. QED
      BY <2>1, <2>2
  <1>8. Count(s, K) = Cardinality(J) /\ Count(Tail(s), K) = Cardinality(I)
    BY DEF Count
  <1> HIDE DEF I, J, H, f
  <1>9. QED
    BY <1>2, <1>4, <1>7, <1>8

LEMMA CountLess ==
  ASSUME NEW S, NEW s \in Seq(S), s # <<>>, NEW K
  PROVE  /\ Count(Tail(s), K) \in Nat
         /\ Count(Tail(s), K) <= Count(s, K)
         /\ Head(s) \in K => Count(Tail(s), K) + 1 = Count(s, K)
         /\ Head(s) \notin K => Count(s, K) = Count(Tail(s), K)
  <1>1. /\ Count(Tail(s), K) \in Nat
        /\ Head(s) \in K => Count(s, K) = Count(Tail(s), K) + 1
        /\ Head(s) \notin K => Count(s, K) = Count(Tail(s), K)
    BY CountTail
  <1>2. QED
    BY <1>1

LEMMA CountAlone ==
  ASSUME NEW S, NEW y \in S, NEW K, y \notin K
  PROVE  Count(<<y>>, K) = 0
  <1>1. In(<<y>>) = {y} /\ <<y>> \in Seq(S)
    BY DEF In
  <1>2. Count(<<y>>, K) = 0 <=> In(<<y>>) \cap K = {}
    BY ONLY <1>1, CountNat
  <1>3. In(<<y>>) \cap K = {}
    BY <1>1
  <1>4. QED
    BY <1>2, <1>3

LEMMA NothingInAnyPlace ==
  ASSUME NEW a \in Nat, NEW b \in Nat, NEW c \in Nat, NEW d \in Nat, a + b + c + d = 0
  PROVE  a = 0
  OBVIOUS

LEMMA FourPlaces ==
  ASSUME NEW a \in Nat, NEW b \in Nat, NEW c \in Nat, NEW d \in Nat,
         NEW p \in Nat, NEW q \in Nat, NEW r \in Nat, NEW s \in Nat,
         p <= a, q <= b
  PROVE  /\ r <= c /\ s <= d => p + q + r + s <= a + b + c + d
         /\ r + 1 = c /\ s <= d + 1 => p + q + r + s <= a + b + c + d
  OBVIOUS

LEMMA FourPlacesAndOne ==
  ASSUME NEW a \in Nat, NEW b \in Nat, NEW c \in Nat, NEW d \in Nat,
         NEW p \in Nat, NEW q \in Nat, NEW r \in Nat, NEW s \in Nat,
         p <= a + 1, q <= b, r <= c, s <= d
  PROVE  p + q + r + s <= a + b + c + d + 1
  OBVIOUS

LEMMA OneLess ==
  ASSUME NEW a \in Nat, NEW b \in Nat, NEW c \in Nat, NEW d \in Nat, NEW s \in Nat, s + 1 = d
  PROVE  a + b + c + s < a + b + c + d
  OBVIOUS

LEMMA TwoOfNothing ==
  ASSUME NEW a \in Nat, NEW b \in Nat, b # 0
  PROVE  a + b # 0
  OBVIOUS

LEMMA SumOfTwo == ASSUME NEW a \in Nat, NEW b \in Nat PROVE a + b \in Nat
  OBVIOUS

LEMMA NoMoreInTwo ==
  ASSUME NEW a \in Nat, NEW b \in Nat, NEW p \in Nat, NEW q \in Nat, p <= a, q <= b
  PROVE  p + q <= a + b
  OBVIOUS

LEMMA OneLessInTwo ==
  ASSUME NEW a \in Nat, NEW b \in Nat, NEW p \in Nat, NEW q \in Nat, p = a, q + 1 = b
  PROVE  p + q + 1 = a + b
  OBVIOUS

LEMMA OneMoreInTwo ==
  ASSUME NEW a \in Nat, NEW b \in Nat, NEW p \in Nat, NEW q \in Nat, p = a + 1, q = b
  PROVE  p + q <= a + b + 1
  OBVIOUS

LEMMA OnePassesInTwo ==
  ASSUME NEW a \in Nat, NEW b \in Nat, NEW p \in Nat, NEW q \in Nat,
         p + 1 = a, q = b \/ q = b + 1
  PROVE  p + q <= a + b
  OBVIOUS

(* What an answer's tally does when a frame is written, given, heard. *)
LEMMA TallyMoves ==
  ASSUME NEW l \in Nat, NEW u \in Nat, NEW q \in Nat, NEW p \in Nat, NEW e \in Nat,
         NEW v \in Nat, NEW t \in Nat, l + u + q = p + e, v = u + 1, t + 1 = q
  PROVE  l + v + t = p + e
  OBVIOUS

LEMMA TallyGrows ==
  ASSUME NEW l \in Nat, NEW u \in Nat, NEW q \in Nat, NEW p \in Nat, NEW e \in Nat,
         NEW t \in Nat, NEW o \in Nat, NEW f \in Nat, l + u + q = p + e, t = q + 1,
         (o = p + 1 /\ f = e) \/ (o = p /\ f = e + 1)
  PROVE  l + u + t = o + f
  OBVIOUS

LEMMA TallyHears ==
  ASSUME NEW l \in Nat, NEW u \in Nat, NEW q \in Nat, NEW p \in Nat, NEW e \in Nat,
         NEW m \in Nat, NEW v \in Nat, l + u + q = p + e, v + 1 = u, m = l + 1
  PROVE  m + v + q = p + e
  OBVIOUS

LEMMA LastMoves ==
  ASSUME NEW l \in Nat, NEW u \in Nat, NEW q \in Nat, NEW p \in Nat, NEW v \in Nat,
         l + u + q = p + 1, q = 1, v = u + 1
  PROVE  l + v = p + 1
  OBVIOUS

LEMMA LastNears ==
  ASSUME NEW l \in Nat, NEW u \in Nat, NEW p \in Nat, NEW m \in Nat, NEW v \in Nat,
         l + u = p + 1, v + 1 = u, m = l + 1
  PROVE  m + v = p + 1
  OBVIOUS

LEMMA LastArrives ==
  ASSUME NEW l \in Nat, NEW u \in Nat, NEW p \in Nat, l + u = p + 1, u = 1
  PROVE  l + 1 = p + 1
  OBVIOUS

-----------------------------------------------------------------------------
(***************************************************************************)
(* What the gateway is asked about the offering. A connection takes one    *)
(* registration, which goes from the frame that asks for it to the call of *)
(* core, to the answer (Registrations counts it in each place); nobody but *)
(* deregister asks to have it taken back, on the connection it was made    *)
(* on. Talk says what may be on a connection at all: nothing but the hello *)
(* before the gateway answered it.                                         *)
(***************************************************************************)
Register == Says("register", None)
DeleteModel == Says("deleteModel", None)
Registered == {f \in Frames : f.type = "registered"}
Deleted == {f \in Frames : f.type = "deleted"}
Before == {"idle", "hello"}

(* Where a step leaves what travels on a connection. *)
LEMMA TalkCases ==
  ASSUME TypeOK, BridgeInv, BridgeNext, NEW c \in Connections
  PROVE  \/ /\ up'[c] = up[c] /\ pending'[c] = pending[c]
            /\ outbound'[c] = outbound[c] /\ down'[c] = down[c]
         \/ GatewayReads(c) \/ GatewayWrites(c) \/ GatewayWriterFails(c)
         \/ GatewayHears(c) \/ GatewayFaults(c) \/ GatewayFinishes(c)
         \/ \E r \in Requests : Complete(r, Self, Offering) /\ UNCHANGED <<bridgeVars, wireVars>>
         \/ Connect /\ c = at'
         \/ (ReadWelcome \/ BridgeWrites) /\ c = at
         \/ (ReadRegistered \/ ReadRequest \/ ReadOther) /\ c = at
         \/ at = c /\ at' = None /\ down'[c] = <<>> /\ UNCHANGED <<vars, up>>
  <1> USE DEF BridgeInv, BridgeTypeOK
  <1>1. CASE Enter \/ Yield \/ BridgeWriterFails
    BY <1>1 DEF Enter, Yield, BridgeWriterFails, vars, socketVars, wireVars
  <1>2. ASSUME NEW d \in Connections, Close(d) PROVE down' = [down EXCEPT ![d] = <<>>]
    BY <1>2 DEF Close
  <1>3. CASE LinkLost \/ HandshakeEnds
    <2>1. at \in Connections /\ Close(at) /\ at' = None /\ UNCHANGED <<vars, up>>
      BY <1>3 DEF LinkLost, HandshakeEnds, Unwind
    <2>2. QED
      BY <1>2, <2>1 DEF vars, socketVars
  <1>4. ASSUME CancelTask, UNCHANGED <<vars, up>>
        PROVE  \/ /\ up'[c] = up[c] /\ pending'[c] = pending[c]
                  /\ outbound'[c] = outbound[c] /\ down'[c] = down[c]
               \/ at = c /\ at' = None /\ down'[c] = <<>> /\ UNCHANGED <<vars, up>>
    <2>1. at' = None /\ (UNCHANGED down \/ (at \in Connections /\ Close(at)))
      BY <1>4 DEF CancelTask, Unwind
    <2>2. QED
      BY <1>2, <1>4, <2>1 DEF vars, socketVars
  <1>5. CASE LeaveBlock \/ Withdrawn \/ WithdrawalTimeout
    <2>1. UNCHANGED <<vars, up>> /\ (AskWithdrawal \/ CancelTask)
      BY <1>5 DEF LeaveBlock, Withdrawn, WithdrawalTimeout
    <2>2. QED
      BY <1>4, <2>1 DEF AskWithdrawal, vars, socketVars
  <1>6. CASE Connect
    <2>1. PICK d \in Connections : Accept(d) /\ at' = d /\ up' = [up EXCEPT ![d] = <<Hello>>]
      BY <1>6 DEF Connect
    <2>2. UNCHANGED <<pending, outbound, down>>
      BY <1>6, <2>1 DEF Connect, Accept
    <2>3. QED
      BY <1>6, <2>1, <2>2
  <1>7. CASE ReadWelcome \/ BridgeWrites
    <2>1. up' = [up EXCEPT ![at] = up'[at]] \/ UNCHANGED up
      BY <1>7 DEF ReadWelcome, BridgeWrites, Send
    <2>2. down' = [down EXCEPT ![at] = down'[at]]
      BY <1>7 DEF ReadWelcome, BridgeWrites, Consumed
    <2>3. UNCHANGED vars
      BY <1>7 DEF ReadWelcome, BridgeWrites
    <2>4. QED
      BY <1>7, <2>1, <2>2, <2>3 DEF vars, socketVars
  <1>8. CASE ReadRegistered \/ ReadRequest \/ ReadOther
    <2>1. UNCHANGED <<vars, up>> /\ down' = [down EXCEPT ![at] = down'[at]]
      BY <1>8 DEF ReadRegistered, ReadRequest, ReadOther, Consumed
    <2>2. QED
      BY <1>8, <2>1 DEF vars, socketVars
  <1>9. ASSUME NEW r \in Requests, LlmChunk(r) \/ LlmEnds(r)
        PROVE  UNCHANGED <<pending, outbound, up, down>>
    BY <1>9 DEF LlmChunk, LlmEnds, vars, socketVars, wireVars
  <1>10. ASSUME NEW r \in Requests, CompletionStep(r)
         PROVE  \/ UNCHANGED <<pending, outbound, up, down>>
                \/ Complete(r, Self, Offering) /\ UNCHANGED <<bridgeVars, wireVars>>
    BY <1>10 DEF CompletionStep, AskBridge, Unavailable, Start, Take, Resume, GapTimeout,
                 socketVars, wireVars
  <1>11. ASSUME NEW d \in Connections, d # c,
                \/ GatewayReads(d) \/ GatewayWrites(d) \/ GatewayWriterFails(d)
                \/ GatewayHears(d) \/ GatewayFaults(d) \/ GatewayFinishes(d)
         PROVE  /\ up'[c] = up[c] /\ pending'[c] = pending[c]
                /\ outbound'[c] = outbound[c] /\ down'[c] = down[c]
    <2> USE DEF TypeOK
    <2>1. CASE GatewayReads(d)
      <3>1. up' = [up EXCEPT ![d] = Tail(@)] /\ UNCHANGED down
        BY <2>1 DEF GatewayReads
      <3>2. pending'[c] = pending[c] /\ outbound'[c] = outbound[c]
        BY <1>11, <2>1 DEF GatewayReads, Handle, Attach, HandshakeFails, AskCore, ReceiveAnswer, Post
      <3>3. QED
        BY <1>11, <3>1, <3>2
    <2>2. CASE GatewayWrites(d)
      <3>1. /\ outbound' = [outbound EXCEPT ![d] = Tail(@)] /\ UNCHANGED <<pending, up>>
            /\ down' = [down EXCEPT ![d] = down'[d]]
        BY <2>2 DEF GatewayWrites, WriteFrame
      <3>2. QED
        BY <1>11, <3>1
    <2>3. CASE GatewayWriterFails(d)
      BY <1>11, <2>3 DEF GatewayWriterFails, WriterFails, wireVars
    <2>4. CASE GatewayHears(d) \/ GatewayFaults(d)
      BY <1>11, <2>4 DEF GatewayHears, GatewayFaults, Disconnect, HandlerFault, Teardown
    <2>5. CASE GatewayFinishes(d)
      BY <1>11, <2>5 DEF GatewayFinishes, FinishOperation, Post, wireVars
    <2>6. QED
      BY <1>11, <2>1, <2>2, <2>3, <2>4, <2>5
  <1>12. ASSUME NEW d \in Connections, Break(d)
         PROVE  UNCHANGED <<pending, outbound, up, down>>
    BY <1>12 DEF Break, vars, socketVars
  <1>13. QED
    BY <1>1, <1>3, <1>5, <1>6, <1>7, <1>8, <1>9, <1>10, <1>11, <1>12, BridgeCases

(* The frames the gateway's read loop takes, one by one. *)
LEMMA HandleCases ==
  ASSUME TypeOK, BridgeInv, NEW c \in Connections, GatewayReads(c)
  PROVE  /\ up[c] # <<>> /\ up'[c] = Tail(up[c]) /\ up[c] \in Seq(Spoken)
         /\ Head(up[c]) \in Spoken /\ UNCHANGED <<down, bridgeVars>>
         /\ \/ /\ Head(up[c]) = Hello /\ pending'[c] = pending[c]
               /\ \/ Attach(c) /\ outbound'[c] = <<Frame("welcome", None)>>
                  \/ HandshakeFails(c) /\ outbound'[c] = outbound[c]
            \/ /\ Reading(c) /\ phase' = phase /\ outbound'[c] = outbound[c] /\ UNCHANGED coreVars
               /\ \/ /\ Head(up[c]) = Register
                     /\ pending'[c] = [op |-> "register", names |-> {Offering}]
                  \/ /\ Head(up[c]) = DeleteModel
                     /\ pending'[c] = [op |-> "delete", names |-> {Offering}]
            \/ /\ Reading(c) /\ phase' = phase /\ pending'[c] = pending[c] /\ UNCHANGED coreVars
               /\ Head(up[c]).type \in AnswerKinds /\ Head(up[c]).request \in Requests
               /\ ReceiveAnswer(c, Head(up[c]).request, Head(up[c]).type)
               /\ \/ outbound'[c] = outbound[c]
                  \/ outbound'[c] = Append(outbound[c], Frame("error", Head(up[c]).request))
  <1> DEFINE f == Head(up[c])
  <1>1. up[c] # <<>> /\ up' = [up EXCEPT ![c] = Tail(@)] /\ Handle(c, f) /\ UNCHANGED <<down, bridgeVars>>
    BY DEF GatewayReads
  <1>2. up[c] \in Seq(Spoken) /\ up'[c] = Tail(up[c])
    BY <1>1 DEF BridgeInv, BridgeTypeOK
  <1>3. f \in Spoken
    BY <1>1, <1>2
  <1> HIDE DEF f
  <1>4. /\ f.type = "register" => f = Register
        /\ f.type = "deleteModel" => f = DeleteModel
        /\ f.type \in AnswerKinds => f.request \in Requests
    BY <1>3 DEF Spoken, Register, DeleteModel, Hello, Says, AnswerKinds
  <1>5. CASE f = Hello /\ Attach(c)
    BY <1>1, <1>2, <1>3, <1>5 DEF Attach, TypeOK, f
  <1>6. CASE f = Hello /\ HandshakeFails(c)
    BY <1>1, <1>2, <1>3, <1>6 DEF HandshakeFails, TypeOK, f
  <1>7. CASE f.type = "register" /\ AskCore(c, "register", {Offering})
    BY <1>1, <1>2, <1>3, <1>4, <1>7 DEF AskCore, TypeOK, f
  <1>8. CASE f.type = "deleteModel" /\ AskCore(c, "delete", {Offering})
    BY <1>1, <1>2, <1>3, <1>4, <1>8 DEF AskCore, TypeOK, f
  <1>9. CASE f.type \in AnswerKinds /\ ReceiveAnswer(c, f.request, f.type)
    <2>1. \/ outbound'[c] = outbound[c]
          \/ outbound'[c] = Append(outbound[c], Frame("error", f.request))
      BY <1>9 DEF ReceiveAnswer, Post, TypeOK
    <2>2. Reading(c) /\ phase' = phase /\ pending'[c] = pending[c] /\ UNCHANGED coreVars
      BY <1>9 DEF ReceiveAnswer
    <2>3. QED
      BY <1>1, <1>2, <1>3, <1>4, <1>9, <2>1, <2>2 DEF f
  <1>10. QED
    BY <1>1, <1>5, <1>6, <1>7, <1>8, <1>9 DEF Handle

LEMMA FinishCases ==
  ASSUME TypeOK, BridgeInv, NEW c \in Connections, GatewayFinishes(c)
  PROVE  /\ pending[c] # NoOperation /\ pending'[c] = NoOperation
         /\ phase' = phase /\ UNCHANGED <<bridgeVars, wireVars>>
         /\ \/ outbound'[c] = Append(outbound[c], Frame("error", None)) /\ UNCHANGED coreVars
            \/ /\ attached[Self] = c /\ attached' = attached
               /\ serving'[Self] = IF pending[c].op = "register" THEN pending[c].names
                                   ELSE serving[Self] \ pending[c].names
               /\ outbound'[c] = Append(outbound[c],
                                        Frame(IF pending[c].op = "register" THEN "registered" ELSE "deleted", None))
  <1>1. /\ FinishOperation(c) /\ KeyOf[c] = Self /\ Self \in Keys
        /\ UNCHANGED <<bridgeVars, wireVars>>
    BY BridgeAssumption DEF GatewayFinishes
  <1>2. /\ pending[c] # NoOperation /\ pending'[c] = NoOperation /\ phase' = phase
    BY <1>1 DEF FinishOperation, TypeOK
  <1>3. ASSUME NEW f, Post(c, f) PROVE outbound'[c] = Append(outbound[c], f)
    BY <1>3 DEF Post, TypeOK
  <1>4. CASE Post(c, Frame("error", None)) /\ UNCHANGED coreVars
    BY <1>1, <1>2, <1>3, <1>4
  <1>5. CASE /\ CoreAccepts(c)
             /\ Post(c, Frame(IF pending[c].op = "register" THEN "registered" ELSE "deleted", None))
    <2>1. /\ attached[Self] = c /\ attached' = attached
          /\ serving'[Self] = IF pending[c].op = "register" THEN pending[c].names
                              ELSE serving[Self] \ pending[c].names
      BY <1>1, <1>5 DEF CoreAccepts, TypeOK
    <2>2. outbound'[c] = Append(outbound[c],
                                Frame(IF pending[c].op = "register" THEN "registered" ELSE "deleted", None))
      BY <1>3, <1>5
    <2>3. QED
      BY <1>1, <1>2, <2>1, <2>2
  <1>6. QED
    BY <1>1, <1>4, <1>5 DEF FinishOperation

(* The gateway's handler goes forward: hello, open, closed. *)
LEMMA StaysBefore ==
  ASSUME TypeOK, BridgeInv, BridgeNext, NEW c \in Connections, phase'[c] \in Before
  PROVE  phase[c] \in Before
  <1>1. CASE UNCHANGED phase
    BY <1>1
  <1>2. ASSUME NEW d \in Connections,
               \/ Accept(d) \/ HandshakeFails(d) \/ Attach(d) \/ Disconnect(d) \/ HandlerFault(d)
        PROVE  phase[c] \in Before
    <2>1. \/ phase[d] = "idle" \/ phase' = [phase EXCEPT ![d] = "open"]
          \/ phase' = [phase EXCEPT ![d] = "closed"]
      BY <1>2 DEF Accept, HandshakeFails, Attach, Disconnect, HandlerFault, Teardown
    <2>2. phase' = [phase EXCEPT ![d] = phase'[d]]
      BY <1>2 DEF Accept, HandshakeFails, Attach, Disconnect, HandlerFault, Teardown, TypeOK
    <2>3. CASE c = d
      BY <2>1, <2>3 DEF TypeOK, Before
    <2>4. CASE c # d
      BY <2>2, <2>4 DEF TypeOK
    <2>5. QED
      BY <2>3, <2>4
  <1>3. ASSUME NEW d \in Connections, NEW r \in Requests, NEW kind \in AnswerKinds,
               ReceiveAnswer(d, r, kind)
        PROVE  UNCHANGED phase
    BY <1>3 DEF ReceiveAnswer
  <1>4. ASSUME NEW r \in Requests, NEW k \in Keys, NEW m \in Models,
               Complete(r, k, m) \/ Unavailable(r, k, m)
        PROVE  UNCHANGED phase
    BY <1>4 DEF Complete, Unavailable, socketVars
  <1>5. [Next]_vars
    BY RelayStep DEF BridgeInv
  <1>6. CASE Next
    BY <1>1, <1>2, <1>3, <1>4, <1>6, NextCases, QuietSteps, StreamShape DEF relayVars
  <1>7. QED
    BY <1>1, <1>5, <1>6 DEF vars, socketVars

-----------------------------------------------------------------------------
(* A connection whose hello is not answered yet has nothing on it but the  *)
(* hello.                                                                  *)
Fresh ==
  \A c \in Connections : phase[c] \in Before =>
    /\ In(up[c]) \subseteq {Hello} /\ down[c] = <<>>
    /\ outbound[c] = <<>> /\ pending[c] = NoOperation

(* The bridge registers and serves on a connection the gateway has         *)
(* answered.                                                               *)
Past == task \in {"register", "serving"} => phase[at] \notin Before

(* What core is asked for, it is asked for of the one offering; and no     *)
(* register is ever queued.                                                *)
OwnNames ==
  /\ \A c \in Connections : pending[c] # NoOperation =>
       pending[c].op \in {"register", "delete"} /\ pending[c].names = {Offering}
  /\ Register \notin In(queue)

Talk == Fresh /\ Past /\ OwnNames

LEMMA FreshNext ==
  ASSUME TypeOK, Binding, BridgeInv, Talk, BridgeNext
  PROVE  Fresh'
  <1> SUFFICES ASSUME NEW c \in Connections, phase'[c] \in Before
               PROVE  /\ In(up'[c]) \subseteq {Hello} /\ down'[c] = <<>>
                      /\ outbound'[c] = <<>> /\ pending'[c] = NoOperation
    BY DEF Fresh
  <1>1. /\ phase[c] \in Before /\ In(up[c]) \subseteq {Hello} /\ down[c] = <<>>
        /\ outbound[c] = <<>> /\ pending[c] = NoOperation
    BY StaysBefore DEF Talk, Fresh
  <1>2. ~Reading(c) /\ phase[c] # "open"
    BY <1>1 DEF Reading, Before
  <1>3. ~GatewayReads(c)
    <2>1. ASSUME Attach(c) \/ HandshakeFails(c) PROVE FALSE
      BY <2>1 DEF Attach, HandshakeFails, TypeOK, Before
    <2>2. QED
      BY <1>2, <2>1, HandleCases
  <1>4. ~GatewayWrites(c) /\ ~GatewayWriterFails(c) /\ ~GatewayFinishes(c)
    BY <1>1 DEF GatewayWrites, GatewayWriterFails, GatewayFinishes, WriteFrame, WriterFails,
                FinishOperation
  <1>5. ~GatewayHears(c) /\ ~GatewayFaults(c)
    BY <1>1, <1>2 DEF GatewayHears, GatewayFaults, Disconnect, HandlerFault
  <1>6. ASSUME NEW r \in Requests, Complete(r, Self, Offering) PROVE c # attached[Self]
    BY <1>2, <1>6, BridgeAssumption DEF Complete, Binding, AttachedLinksAreOpen
  <1>7. ASSUME NEW r \in Requests, Complete(r, Self, Offering), UNCHANGED <<bridgeVars, wireVars>>
        PROVE  /\ up'[c] = up[c] /\ pending'[c] = pending[c]
               /\ outbound'[c] = outbound[c] /\ down'[c] = down[c]
    BY <1>6, <1>7 DEF Complete, Post, wireVars, TypeOK
  <1>8. CASE Connect /\ c = at'
    <2>1. PICK d \in Connections : Accept(d) /\ at' = d /\ up' = [up EXCEPT ![d] = <<Hello>>]
      BY <1>8 DEF Connect
    <2>2. up'[c] = <<Hello>> /\ UNCHANGED <<pending, outbound, down>>
      BY <1>8, <2>1 DEF Connect, Accept, BridgeInv, BridgeTypeOK
    <2>3. In(<<Hello>>) = {Hello}
      BY DEF In
    <2>4. QED
      BY <1>1, <2>2, <2>3
  <1>9. ~(BridgeWrites /\ c = at)
    BY <1>1 DEF BridgeWrites, BridgeInv, OneTask, Talk, Past
  <1>10. CASE at = c /\ at' = None /\ down'[c] = <<>> /\ UNCHANGED <<vars, up>>
    BY <1>1, <1>10 DEF vars, socketVars
  <1>11. ASSUME ReadWelcome \/ ReadRegistered \/ ReadRequest \/ ReadOther, c = at
         PROVE  FALSE
    BY <1>1, <1>11 DEF ReadWelcome, ReadRegistered, ReadRequest, ReadOther, Arrived
  <1>12. QED
    BY <1>1, <1>3, <1>4, <1>5, <1>7, <1>8, <1>9, <1>10, <1>11, TalkCases

(* The bridge is on one connection from its hello to its leaving. *)
LEMMA TaskCases ==
  ASSUME BridgeInv, BridgeNext
  PROVE  \/ at' = at /\ task' = task
         \/ at' = at /\ ReadWelcome
         \/ at' = at /\ ReadRegistered
         \/ at' = None /\ task' \in {"off", "waiting"}
         \/ Connect
  <1> USE DEF BridgeInv, BridgeTypeOK, OneTask
  <1>1. CASE Enter
    BY <1>1 DEF Enter
  <1>2. CASE Yield
    BY <1>2 DEF Yield
  <1>3. CancelTask => at' = None /\ task' \in {"off", "waiting"}
    BY DEF CancelTask, Unwind
  <1>4. CASE LeaveBlock \/ Withdrawn \/ WithdrawalTimeout
    BY <1>3, <1>4 DEF LeaveBlock, Withdrawn, WithdrawalTimeout, AskWithdrawal
  <1>5. CASE HandshakeEnds \/ LinkLost
    BY <1>5 DEF HandshakeEnds, LinkLost, Unwind
  <1>6. CASE ReadWelcome \/ ReadRegistered
    BY <1>6 DEF ReadWelcome, ReadRegistered
  <1>7. CASE ReadRequest \/ ReadOther \/ BridgeWrites \/ BridgeWriterFails
    BY <1>7 DEF ReadRequest, ReadOther, BridgeWrites, BridgeWriterFails
  <1>8. ASSUME NEW r \in Requests, LlmChunk(r) \/ LlmEnds(r) \/ CompletionStep(r)
        PROVE  at' = at /\ task' = task
    BY <1>8 DEF LlmChunk, LlmEnds, CompletionStep, bridgeVars
  <1>9. ASSUME NEW c \in Connections,
               \/ GatewayReads(c) \/ GatewayWrites(c) \/ GatewayWriterFails(c)
               \/ GatewayHears(c) \/ GatewayFaults(c) \/ GatewayFinishes(c) \/ Break(c)
        PROVE  at' = at /\ task' = task
    BY <1>9 DEF GatewayReads, GatewayWrites, GatewayWriterFails, GatewayHears, GatewayFaults,
                GatewayFinishes, Break, bridgeVars
  <1>10. QED
    BY <1>1, <1>2, <1>4, <1>5, <1>6, <1>7, <1>8, <1>9, BridgeCases

LEMMA PastNext ==
  ASSUME TypeOK, Binding, BridgeInv, Talk, BridgeNext
  PROVE  Past'
  <1> SUFFICES ASSUME task' \in {"register", "serving"}, phase'[at'] \in Before PROVE FALSE
    BY DEF Past
  <1>1. at \in Connections /\ at' = at
    <2>1. BridgeInv'
      BY BridgeInvNext
    <2>2. at' # None /\ ~Connect
      BY <2>1 DEF BridgeInv, BridgeTypeOK, Connect
    <2>3. QED
      BY <2>1, <2>2, TaskCases DEF BridgeInv, BridgeTypeOK
  <1>2. phase[at] \in Before
    BY <1>1, StaysBefore
  <1>3. down[at] = <<>>
    BY <1>1, <1>2 DEF Talk, Fresh
  <1>4. ~ReadWelcome /\ ~ReadRegistered
    BY <1>3 DEF ReadWelcome, ReadRegistered, Arrived
  <1>5. task' = task
    BY <1>1, <1>4, TaskCases, ConstantsAssumption DEF Connect
  <1>6. QED
    BY <1>2, <1>5 DEF Talk, Past

(* What the bridge says, it says with the words of Spoken. *)
LEMMA SpokenWords ==
  /\ Register \in Spoken /\ DeleteModel \in Spoken /\ Register # DeleteModel
  /\ Register # Hello /\ DeleteModel # Hello
  /\ \A kind \in AnswerKinds, r \in Requests :
       Says(kind, r) \notin {Register, DeleteModel, Hello}
  BY DEF Register, DeleteModel, Hello, Says, AnswerKinds, Spoken

(* Only deregister and the answers go through the bridge's queue. *)
LEMMA QueueSteps ==
  ASSUME BridgeInv, BridgeNext, NEW f \in In(queue')
  PROVE  \/ f \in In(queue)
         \/ f = DeleteModel /\ block' = "withdrawing" /\ task' = "serving"
         \/ \E r \in Requests, kind \in AnswerKinds : f = Says(kind, r)
  <1> USE DEF BridgeInv, BridgeTypeOK
  <1>1. CASE queue' = <<>>
    BY <1>1, InEmpty
  <1>2. CASE queue' = queue
    BY <1>2
  <1>3. CASE queue # <<>> /\ queue' = Tail(queue)
    BY <1>3, InTail
  <1>4. ASSUME NEW x \in Spoken, queue' = Append(queue, x)
        PROVE  f \in In(queue) \/ f = x
    BY <1>4, InAppend
  <1>5. CASE LeaveBlock \/ Withdrawn \/ WithdrawalTimeout
    <2>1. CASE CancelTask
      BY <1>1, <1>2, <2>1 DEF CancelTask, Unwind
    <2>2. CASE LeaveBlock /\ isAttached /\ AskWithdrawal
      <3>1. queue' = Append(queue, DeleteModel) /\ block' = "withdrawing" /\ task' = "serving"
        BY <2>2 DEF AskWithdrawal, DeleteModel, OneTask
      <3>2. QED
        BY <1>4, <3>1, SpokenWords
    <2>3. QED
      BY <1>5, <2>1, <2>2 DEF LeaveBlock, Withdrawn, WithdrawalTimeout
  <1>6. ASSUME NEW r \in Requests, NEW kind \in AnswerKinds, Answer(r, kind)
        PROVE  f \in In(queue) \/ f = Says(kind, r)
    BY <1>2, <1>4, <1>6, SpokenFrames DEF Answer
  <1>7. ASSUME NEW r \in Requests, LlmChunk(r) \/ LlmEnds(r)
        PROVE  \E kind \in AnswerKinds : Answer(r, kind)
    BY <1>7 DEF LlmChunk, LlmEnds, AnswerKinds, Outcome
  <1>8. CASE ReadRegistered \/ LinkLost
    BY <1>1, <1>8 DEF ReadRegistered, LinkLost, Unwind
  <1>9. CASE BridgeWrites \/ BridgeWriterFails
    BY <1>3, <1>9 DEF BridgeWrites, BridgeWriterFails
  <1>10. CASE \/ Enter \/ Yield \/ Connect \/ HandshakeEnds \/ ReadWelcome \/ ReadRequest
              \/ ReadOther
              \/ \E r \in Requests : CompletionStep(r)
              \/ \E c \in Connections :
                   \/ GatewayReads(c) \/ GatewayWrites(c) \/ GatewayWriterFails(c)
                   \/ GatewayHears(c) \/ GatewayFaults(c) \/ GatewayFinishes(c) \/ Break(c)
    BY <1>2, <1>10
    DEF Enter, Yield, Connect, HandshakeEnds, ReadWelcome, ReadRequest, ReadOther,
        CompletionStep, GatewayReads, GatewayWrites, GatewayWriterFails, GatewayHears,
        GatewayFaults, GatewayFinishes, Break, bridgeVars
  <1>11. QED
    BY <1>5, <1>6, <1>7, <1>8, <1>9, <1>10, BridgeCases

(* What core is asked comes off the connection it is asked on. *)
LEMMA PendingSteps ==
  ASSUME TypeOK, BridgeInv, BridgeNext, NEW c \in Connections
  PROVE  \/ pending'[c] = pending[c]
         \/ pending'[c] = NoOperation
         \/ /\ up[c] # <<>> /\ Head(up[c]) \in {Register, DeleteModel} /\ pending[c] = NoOperation
            /\ pending'[c] = [op    |-> IF Head(up[c]) = Register THEN "register" ELSE "delete",
                              names |-> {Offering}]
  <1>1. CASE GatewayReads(c)
    BY <1>1, HandleCases, SpokenWords DEF Reading
  <1>2. CASE GatewayWrites(c) \/ GatewayWriterFails(c)
    BY <1>2 DEF GatewayWrites, GatewayWriterFails, WriteFrame, WriterFails
  <1>3. CASE GatewayHears(c) \/ GatewayFaults(c)
    BY <1>3 DEF GatewayHears, GatewayFaults, Disconnect, HandlerFault, Teardown, TypeOK
  <1>4. CASE GatewayFinishes(c)
    BY <1>4, FinishCases
  <1>5. ASSUME NEW r \in Requests, Complete(r, Self, Offering) PROVE pending' = pending
    BY <1>5 DEF Complete
  <1>6. CASE Connect
    BY <1>6 DEF Connect, Accept
  <1>7. CASE ReadWelcome \/ BridgeWrites \/ ReadRegistered \/ ReadRequest \/ ReadOther
    BY <1>7 DEF ReadWelcome, BridgeWrites, ReadRegistered, ReadRequest, ReadOther, vars, socketVars
  <1>8. (UNCHANGED vars) => pending' = pending
    BY DEF vars, socketVars
  <1>9. QED
    BY <1>1, <1>2, <1>3, <1>4, <1>5, <1>6, <1>7, <1>8, TalkCases

LEMMA OwnNamesNext ==
  ASSUME TypeOK, BridgeInv, Talk, BridgeNext
  PROVE  OwnNames'
  <1>1. Register \notin In(queue')
    BY QueueSteps, SpokenWords DEF Talk, OwnNames
  <1>2. ASSUME NEW c \in Connections, pending'[c] # NoOperation
        PROVE  pending'[c].op \in {"register", "delete"} /\ pending'[c].names = {Offering}
    <2>1. CASE pending'[c] = pending[c]
      BY <1>2, <2>1 DEF Talk, OwnNames
    <2>2. ASSUME NEW o \in {"register", "delete"},
                 pending'[c] = [op |-> o, names |-> {Offering}]
          PROVE  pending'[c].op \in {"register", "delete"} /\ pending'[c].names = {Offering}
      BY <2>2
    <2>3. QED
      BY <1>2, <2>1, <2>2, PendingSteps
  <1>3. QED
    BY <1>1, <1>2 DEF OwnNames, Register

-----------------------------------------------------------------------------
(* A registration is in four hands, one after the other: frame, call of    *)
(* core, answer, answer on its way. A connection has one at most, and none *)
(* once the bridge has read its answer.                                    *)
Being(c, op) == IF pending[c].op = op THEN 1 ELSE 0

Registrations(c) ==
  Count(up[c], {Register}) + Being(c, "register")
    + Count(outbound[c], Registered) + Count(down[c], Registered)

RegistersOnce ==
  \A c \in Connections :
    /\ Registrations(c) <= 1
    /\ c = at /\ task # "register" => Registrations(c) = 0

LEMMA RegistrationsType ==
  ASSUME TypeOK, BridgeInv, NEW c \in Connections
  PROVE  /\ up[c] \in Seq(Spoken) /\ outbound[c] \in Seq(Frames) /\ down[c] \in Seq(Frames)
         /\ Count(up[c], {Register}) \in Nat /\ Being(c, "register") \in Nat
         /\ Count(outbound[c], Registered) \in Nat /\ Count(down[c], Registered) \in Nat
         /\ Registrations(c) \in Nat
  <1>1. up[c] \in Seq(Spoken) /\ outbound[c] \in Seq(Frames) /\ down[c] \in Seq(Frames)
    BY DEF TypeOK, BridgeInv, BridgeTypeOK
  <1>2. /\ Count(up[c], {Register}) \in Nat
        /\ Count(outbound[c], Registered) \in Nat /\ Count(down[c], Registered) \in Nat
    BY <1>1, CountNat
  <1>3. Being(c, "register") \in Nat
    BY DEF Being
  <1>4. QED
    BY <1>1, <1>2, <1>3 DEF Registrations

LEMMA FramesKnown ==
  /\ Frame("registered", None) \in Registered \ Deleted
  /\ Frame("deleted", None) \in Deleted \ Registered
  /\ Registered \subseteq Frames /\ Deleted \subseteq Frames
  /\ Frame("welcome", None) \in Frames \ (Registered \cup Deleted)
  /\ Frame("error", None) \in Frames \ (Registered \cup Deleted)
  /\ \A r \in Requests : /\ Frame("error", r) \in Frames \ (Registered \cup Deleted)
                         /\ Frame("completionRequest", r) \in Frames \ (Registered \cup Deleted)
  BY DEF Registered, Deleted, Frame, Frames

\* A registration goes from frame to call to answer, and is not made on the way.
LEMMA RegistrationsStep ==
  ASSUME TypeOK, Binding, BridgeInv, Talk, BridgeNext, NEW c \in Connections
  PROVE  \/ Registrations(c)' <= Registrations(c)
         \/ ReadWelcome /\ c = at /\ Registrations(c)' <= Registrations(c) + 1
         \/ Connect /\ c = at' /\ Registrations(c)' = 0
  <1> DEFINE U == Count(up[c], {Register})
             O == Count(outbound[c], Registered)
             D == Count(down[c], Registered)
             B == Being(c, "register")
  <1>1. /\ up[c] \in Seq(Spoken) /\ outbound[c] \in Seq(Frames) /\ down[c] \in Seq(Frames)
        /\ U \in Nat /\ O \in Nat /\ D \in Nat /\ B \in Nat /\ Registrations(c) = U + B + O + D
    BY RegistrationsType DEF Registrations
  <1>2. Registrations(c)' = U' + B' + O' + D'
    BY DEF Registrations
  <1>3. up'[c] = up[c] => U' = U /\ U' \in Nat
    BY <1>1
  <1>4. outbound'[c] = outbound[c] => O' = O /\ O' \in Nat
    BY <1>1
  <1>5. down'[c] = down[c] => D' = D /\ D' \in Nat
    BY <1>1
  <1>6. pending'[c] = pending[c] => B' = B /\ B' \in Nat
    BY <1>1 DEF Being
  <1>7. pending'[c] = NoOperation => B' = 0
    BY DEF Being, NoOperation
  <1>8. /\ up'[c] = <<>> => U' = 0
        /\ outbound'[c] = <<>> => O' = 0
        /\ down'[c] = <<>> => D' = 0
    BY CountEmpty
  <1>9. up[c] # <<>> /\ up'[c] = Tail(up[c])
          => U' <= U /\ U' \in Nat /\ (Head(up[c]) = Register => U = U' + 1)
    BY <1>1, CountLess
  <1>10. outbound[c] # <<>> /\ outbound'[c] = Tail(outbound[c])
           => O' <= O /\ O' \in Nat /\ (Head(outbound[c]) \in Registered => O' + 1 = O)
    BY <1>1, CountLess
  <1>11. down[c] # <<>> /\ down'[c] = Tail(down[c])
           => D' <= D /\ D' \in Nat /\ (Head(down[c]) \in Registered => D' + 1 = D)
    BY <1>1, CountLess
  <1>12. ASSUME NEW f \in Frames, outbound'[c] = Append(outbound[c], f)
         PROVE  (f \in Registered => O' = O + 1) /\ (f \notin Registered => O' = O)
    BY <1>1, <1>12, CountAppend
  <1>13. ASSUME NEW f \in Frames, down'[c] = Append(down[c], f)
         PROVE  (f \in Registered => D' = D + 1) /\ (f \notin Registered => D' = D)
    BY <1>1, <1>13, CountAppend
  <1>14. ASSUME NEW f \in Spoken, up'[c] = Append(up[c], f)
         PROVE  (f = Register => U' = U + 1) /\ (f # Register => U' = U)
    BY <1>1, <1>14, CountAppend
  <1> HIDE DEF U, O, D, B
  <1>0. U \in Nat /\ O \in Nat /\ D \in Nat /\ B \in Nat
    BY <1>1
  <1>15. /\ U' \in Nat /\ O' \in Nat /\ D' \in Nat /\ B' \in Nat
         /\ U' + B' + O' + D' <= U + B + O + D
         => Registrations(c)' <= Registrations(c)
    BY <1>1, <1>2
  <1>16. CASE /\ up'[c] = up[c] /\ pending'[c] = pending[c]
              /\ outbound'[c] = outbound[c] /\ down'[c] = down[c]
    BY <1>1, <1>2, <1>3, <1>4, <1>5, <1>6, <1>16
  <1>17. CASE GatewayReads(c)
    <2>1. up[c] # <<>> /\ up'[c] = Tail(up[c]) /\ down' = down
      BY <1>17, HandleCases
    <2>2. CASE /\ Head(up[c]) = Hello /\ pending'[c] = pending[c]
               /\ outbound'[c] \in {<<Frame("welcome", None)>>, outbound[c]}
      <3>1. O' <= O /\ O' \in Nat
        <4>1. CASE outbound'[c] = <<Frame("welcome", None)>>
          <5>1. O' = 0
            BY <4>1, CountAlone, FramesKnown DEF O
          <5>2. QED
            BY <1>1, <5>1
        <4>2. QED
          BY <1>1, <1>4, <2>2, <4>1
      <3>2. U' <= U /\ U' \in Nat /\ D' = D /\ B' = B /\ O' \in Nat
        BY <1>5, <1>6, <1>9, <2>1, <2>2, <3>1
      <3>3. QED
        BY <1>1, <1>15, <3>1, <3>2
    <2>3. CASE /\ Reading(c) /\ outbound'[c] = outbound[c] /\ Head(up[c]) = Register
               /\ pending'[c] = [op |-> "register", names |-> {Offering}]
      <3>1. B = 0 /\ B' = 1
        BY <2>3 DEF B, Being, Reading, NoOperation
      <3>2. QED
        BY <1>1, <1>2, <1>4, <1>5, <1>9, <1>15, <2>1, <2>3, <3>1
    <2>4. CASE /\ Reading(c) /\ outbound'[c] = outbound[c] /\ Head(up[c]) = DeleteModel
               /\ pending'[c] = [op |-> "delete", names |-> {Offering}]
      <3>1. B' = 0
        BY <2>4 DEF B, Being
      <3>2. QED
        BY <1>1, <1>2, <1>4, <1>5, <1>9, <1>15, <2>1, <2>4, <3>1
    <2>5. CASE /\ pending'[c] = pending[c] /\ Head(up[c]).request \in Requests
               /\ outbound'[c] \in {outbound[c], Append(outbound[c], Frame("error", Head(up[c]).request))}
      <3>1. O' = O
        BY <1>1, <1>4, <1>12, <2>5, FramesKnown
      <3>2. U' <= U /\ U' \in Nat /\ D' = D /\ B' = B
        BY <1>5, <1>6, <1>9, <2>1, <2>5
      <3>3. O' <= O /\ O' \in Nat /\ D' \in Nat /\ B' \in Nat
        BY <1>0, <3>1, <3>2
      <3>4. U' + B' + O' + D' <= U + B + O + D
        <4>1. D' <= D /\ B' <= B
          BY <1>0, <3>2
        <4>2. QED
          BY <1>0, <3>2, <3>3, <4>1, FourPlaces
      <3>5. QED
        BY <1>15, <3>2, <3>3, <3>4
    <2>6. QED
      BY <1>17, <2>2, <2>3, <2>4, <2>5, HandleCases
  <1>18. CASE GatewayWrites(c)
    <2>1. outbound[c] # <<>> /\ outbound'[c] = Tail(outbound[c]) /\ UNCHANGED <<pending, up>>
      BY <1>18 DEF GatewayWrites, WriteFrame, TypeOK
    <2>2. Head(outbound[c]) \in Frames
      BY <1>1, <2>1
    <2>3. down'[c] \in {down[c], Append(down[c], Head(outbound[c]))}
      BY <1>18 DEF GatewayWrites, BridgeInv, BridgeTypeOK
    <2>4. U' = U /\ U' <= U /\ B' <= B /\ U' \in Nat /\ B' \in Nat
      BY <1>3, <1>6, <2>1
    <2>5. CASE Head(outbound[c]) \in Registered
      <3>1. O' + 1 = O /\ O' \in Nat
        BY <1>10, <2>1, <2>5
      <3>2. D' \in Nat /\ D' <= D + 1
        BY <1>1, <1>5, <1>13, <2>2, <2>3, <2>5
      <3>3. U' + B' + O' + D' <= U + B + O + D
        BY <1>0, <2>4, <3>1, <3>2, FourPlaces
      <3>4. QED
        BY <1>15, <2>4, <3>1, <3>2, <3>3
    <2>6. CASE Head(outbound[c]) \notin Registered
      <3>1. O' <= O /\ O' \in Nat
        BY <1>10, <2>1
      <3>2. D' <= D /\ D' \in Nat
        <4>1. D' = D
          BY <1>5, <1>13, <2>2, <2>3, <2>6
        <4>2. QED
          BY <1>0, <4>1
      <3>3. U' + B' + O' + D' <= U + B + O + D
        BY <1>0, <2>4, <3>1, <3>2, FourPlaces
      <3>4. QED
        BY <1>15, <2>4, <3>1, <3>2, <3>3
    <2>7. QED
      BY <2>5, <2>6
  <1>19. CASE GatewayWriterFails(c)
    <2>1. outbound[c] # <<>> /\ outbound'[c] = Tail(outbound[c]) /\ UNCHANGED <<pending, up, down>>
      BY <1>19 DEF GatewayWriterFails, WriterFails, TypeOK, wireVars
    <2>2. QED
      BY <1>1, <1>2, <1>3, <1>5, <1>6, <1>10, <1>15, <2>1
  <1>20. CASE GatewayHears(c) \/ GatewayFaults(c)
    <2>1. up'[c] = <<>> /\ outbound'[c] = <<>> /\ pending'[c] = NoOperation /\ down' = down
      BY <1>20 DEF GatewayHears, GatewayFaults, Disconnect, HandlerFault, Teardown, TypeOK,
                   BridgeInv, BridgeTypeOK
    <2>2. QED
      BY <1>1, <1>2, <1>5, <1>7, <1>8, <2>1
  <1>21. CASE GatewayFinishes(c)
    <2>1. up' = up /\ down' = down /\ pending'[c] = NoOperation
      BY <1>21, FinishCases DEF wireVars
    <2>2. \/ outbound'[c] = Append(outbound[c], Frame("error", None))
          \/ outbound'[c] = Append(outbound[c], Frame(IF pending[c].op = "register" THEN "registered" ELSE "deleted", None))
      BY <1>21, FinishCases
    <2>3. U' = U /\ D' = D /\ B' = 0
      BY <1>3, <1>5, <1>7, <2>1
    <2>4. CASE outbound'[c] = Append(outbound[c], Frame("registered", None)) /\ pending[c].op = "register"
      <3>1. B = 1
        BY <2>4 DEF B, Being
      <3>2. O' = O + 1
        BY <1>12, <2>4, FramesKnown
      <3>3. QED
        BY <1>1, <1>15, <2>3, <3>1, <3>2
    <2>5. ASSUME NEW f \in Frames, f \notin Registered, outbound'[c] = Append(outbound[c], f)
          PROVE  Registrations(c)' <= Registrations(c)
      <3>1. O' = O
        BY <1>12, <2>5
      <3>2. QED
        BY <1>1, <1>15, <2>3, <3>1
    <2>6. QED
      BY <2>2, <2>4, <2>5, FramesKnown
  <1>22. ASSUME NEW r \in Requests, Complete(r, Self, Offering), UNCHANGED <<bridgeVars, wireVars>>
         PROVE  Registrations(c)' <= Registrations(c)
    <2>1. outbound'[c] \in {outbound[c], Append(outbound[c], Frame("completionRequest", r))}
      BY <1>22 DEF Complete, Post, TypeOK
    <2>2. O' = O
      BY <1>1, <1>4, <1>12, <2>1, FramesKnown
    <2>3. pending' = pending /\ up' = up /\ down' = down
      BY <1>22 DEF Complete, wireVars
    <2>4. QED
      BY <1>1, <1>2, <1>3, <1>5, <1>6, <2>2, <2>3
  <1>23. CASE Connect /\ c = at'
    <2>1. phase[c] \in Before /\ pending' = pending /\ outbound' = outbound /\ down' = down
      BY <1>23 DEF Connect, Accept, Before
    <2>2. up'[c] = <<Hello>>
      BY <1>23 DEF Connect, BridgeInv, BridgeTypeOK
    <2>3. U' = 0
      BY <2>2, CountAlone, SpokenWords, SpokenFrames DEF U
    <2>4. outbound'[c] = <<>> /\ down'[c] = <<>> /\ pending'[c] = NoOperation
      BY <2>1 DEF Talk, Fresh
    <2>5. QED
      BY <1>2, <1>7, <1>8, <1>23, <2>3, <2>4
  <1>24. CASE ReadWelcome /\ c = at
    <2>1. up'[c] \in {up[c], Append(up[c], Register)} /\ UNCHANGED vars
      BY <1>24 DEF ReadWelcome, Send, Register, BridgeInv, BridgeTypeOK
    <2>2. down[c] # <<>> /\ down'[c] = Tail(down[c])
      BY <1>24 DEF ReadWelcome, Arrived, Consumed, BridgeInv, BridgeTypeOK
    <2>3. U' <= U + 1 /\ U' \in Nat
      BY <1>1, <1>3, <1>14, <2>1, SpokenWords
    <2>4. pending' = pending /\ outbound' = outbound
      BY <2>1 DEF vars, socketVars
    <2>5. O' <= O /\ B' <= B /\ D' <= D /\ D' \in Nat /\ O' \in Nat /\ B' \in Nat
      BY <1>4, <1>6, <1>11, <2>2, <2>4
    <2>6. QED
      <3>1. U' + B' + O' + D' <= U + B + O + D + 1
        BY <1>0, <2>3, <2>5, FourPlacesAndOne
      <3>2. Registrations(c)' <= Registrations(c) + 1
        BY <1>1, <1>2, <3>1
      <3>3. QED
        BY <1>24, <3>2
  <1>25. CASE BridgeWrites /\ c = at
    <2>1. queue # <<>> /\ queue \in Seq(Spoken) /\ Head(queue) \in Spoken
      BY <1>25 DEF BridgeWrites, BridgeInv, BridgeTypeOK
    <2>2. Head(queue) # Register
      BY <2>1, InTail DEF Talk, OwnNames
    <2>3. up'[c] \in {up[c], Append(up[c], Head(queue))} /\ UNCHANGED <<vars, down>>
      BY <1>25 DEF BridgeWrites, Send, BridgeInv, BridgeTypeOK
    <2>4. U' = U
      BY <1>1, <1>3, <1>14, <2>1, <2>2, <2>3
    <2>5. pending' = pending /\ outbound' = outbound
      BY <2>3 DEF vars, socketVars
    <2>6. QED
      BY <1>1, <1>2, <1>4, <1>5, <1>6, <2>3, <2>4, <2>5
  <1>26. CASE (ReadRegistered \/ ReadRequest \/ ReadOther) /\ c = at
    <2>1. /\ down[c] # <<>> /\ down'[c] = Tail(down[c]) /\ UNCHANGED <<vars, up>>
      BY <1>26 DEF ReadRegistered, ReadRequest, ReadOther, Arrived, Consumed, BridgeInv, BridgeTypeOK
    <2>2. pending' = pending /\ outbound' = outbound
      BY <2>1 DEF vars, socketVars
    <2>3. QED
      BY <1>1, <1>2, <1>3, <1>4, <1>6, <1>11, <1>15, <2>1, <2>2
  <1>27. CASE at = c /\ at' = None /\ down'[c] = <<>> /\ UNCHANGED <<vars, up>>
    <2>1. pending' = pending /\ outbound' = outbound
      BY <1>27 DEF vars, socketVars
    <2>2. QED
      BY <1>1, <1>2, <1>3, <1>4, <1>6, <1>8, <1>27, <2>1
  <1>28. QED
    BY <1>16, <1>17, <1>18, <1>19, <1>20, <1>21, <1>22, <1>23, <1>24, <1>25, <1>26, <1>27, TalkCases

LEMMA RegistersNext ==
  ASSUME TypeOK, Binding, BridgeInv, Talk, RegistersOnce, BridgeNext
  PROVE  RegistersOnce'
  <1> SUFFICES ASSUME NEW c \in Connections
               PROVE  /\ Registrations(c)' <= 1
                      /\ c = at' /\ task' # "register" => Registrations(c)' = 0
    BY DEF RegistersOnce
  <1>1. Registrations(c) \in Nat /\ Registrations(c)' \in Nat
    <2>1. TypeOK' /\ BridgeInv'
      BY RelayStep, NextType, BridgeInvNext DEF BridgeInv
    <2>2. up'[c] \in Seq(Spoken) /\ outbound'[c] \in Seq(Frames) /\ down'[c] \in Seq(Frames)
      BY <2>1 DEF TypeOK, BridgeInv, BridgeTypeOK
    <2>3. /\ Count(up'[c], {Register}) \in Nat
          /\ Count(outbound'[c], Registered) \in Nat /\ Count(down'[c], Registered) \in Nat
      BY <2>2, CountNat
    <2>4. Registrations(c)' \in Nat
      BY <2>3 DEF Registrations, Being
    <2>5. QED
      BY <2>4, RegistrationsType
  <1>2. Registrations(c) <= 1 /\ (c = at /\ task # "register" => Registrations(c) = 0)
    BY DEF RegistersOnce
  <1>3. CASE Connect /\ c = at' /\ Registrations(c)' = 0
    BY <1>3
  <1>4. CASE ReadWelcome /\ c = at /\ Registrations(c)' <= Registrations(c) + 1
    <2>1. task = "hello" /\ task' = "register"
      BY <1>4 DEF ReadWelcome
    <2>2. QED
      BY <1>1, <1>2, <1>4, <2>1
  <1>5. CASE Registrations(c)' <= Registrations(c)
    <2>1. Registrations(c)' <= 1
      BY <1>1, <1>2, <1>5
    <2>2. ASSUME c = at', task' # "register" PROVE Registrations(c)' = 0
      <3>1. CASE Connect
        <4>1. phase[c] \in Before /\ c # at
          <5>1. phase[c] = "idle"
            BY <2>2, <3>1 DEF Connect
          <5>2. QED
            BY <2>2, <3>1, <5>1, ConstantsAssumption DEF Before, Connect, BridgeInv, BridgeTypeOK
        <4>2. down[c] = <<>> /\ outbound[c] = <<>> /\ pending[c] = NoOperation
          BY <4>1 DEF Talk, Fresh
        <4>3. Register \notin In(up[c])
          BY <4>1, SpokenWords DEF Talk, Fresh
        <4>4. Registrations(c) = 0
          <5>1. In(up[c]) \cap {Register} = {} /\ up[c] \in Seq(Spoken)
            BY <4>3, RegistrationsType
          <5>2. Count(up[c], {Register}) = 0
            BY <5>1, CountNat
          <5>3. Count(outbound[c], Registered) = 0 /\ Count(down[c], Registered) = 0
            BY <4>2, CountEmpty
          <5>4. Being(c, "register") = 0
            BY <4>2 DEF Being, NoOperation
          <5>5. QED
            BY <5>2, <5>3, <5>4 DEF Registrations
        <4>5. QED
          BY <1>1, <1>5, <4>4
      <3>2. CASE ReadRegistered /\ at' = at
        <4>1. down[c] # <<>> /\ Head(down[c]).type = "registered" /\ down'[c] = Tail(down[c])
              /\ UNCHANGED <<vars, up>>
          BY <2>2, <3>2 DEF ReadRegistered, Arrived, Consumed, BridgeInv, BridgeTypeOK
        <4>2. Head(down[c]) \in Registered
          <5>1. down[c] \in Seq(Frames)
            BY RegistrationsType
          <5>2. Head(down[c]) \in Frames
            BY <4>1, <5>1
          <5>3. QED
            BY <4>1, <5>2 DEF Registered
        <4>3. Registrations(c)' < Registrations(c)
          <5>1. pending' = pending /\ outbound' = outbound /\ up' = up
            BY <4>1 DEF vars, socketVars
          <5>2. Being(c, "register")' = Being(c, "register")
            BY <5>1 DEF Being
          <5>3. Count(down'[c], Registered) + 1 = Count(down[c], Registered) /\ Count(down'[c], Registered) \in Nat
            BY <4>1, <4>2, CountLess, RegistrationsType
          <5>4. QED
            BY <5>1, <5>2, <5>3, OneLess, RegistrationsType DEF Registrations
        <4>4. QED
          BY <1>1, <1>2, <4>3
      <3>3. CASE at' = at /\ task' = task
        <4>1. Registrations(c) = 0
          BY <1>2, <2>2, <3>3
        <4>2. QED
          BY <1>1, <1>5, <4>1
      <3>4. at' # None
        BY <2>2, ConstantsAssumption
      <3>5. ~ReadWelcome
        BY <2>2 DEF ReadWelcome
      <3>6. QED
        BY <3>1, <3>2, <3>3, <3>4, <3>5, TaskCases
    <2>3. QED
      BY <2>1, <2>2
  <1>6. QED
    BY <1>3, <1>4, <1>5, RegistrationsStep

-----------------------------------------------------------------------------
(* Where a frame on its way comes from. *)
LEMMA UpFrames ==
  ASSUME TypeOK, BridgeInv, BridgeNext, NEW c \in Connections, NEW f \in In(up'[c])
  PROVE  \/ f \in In(up[c]) \/ f = Hello
         \/ c = at /\ f \in In(queue)
         \/ c = at /\ ReadWelcome /\ f = Register
  <1> USE DEF BridgeInv, BridgeTypeOK
  <1>1. CASE up'[c] = up[c]
    BY <1>1
  <1>2. CASE up'[c] = <<>>
    BY <1>2, InEmpty
  <1>3. CASE up[c] # <<>> /\ up'[c] = Tail(up[c])
    BY <1>3, InTail
  <1>4. ASSUME NEW x \in Spoken, up'[c] = Append(up[c], x) PROVE f \in In(up[c]) \/ f = x
    BY <1>4, InAppend
  <1>5. CASE GatewayReads(c)
    BY <1>3, <1>5, HandleCases
  <1>6. CASE GatewayHears(c) \/ GatewayFaults(c)
    BY <1>2, <1>6 DEF GatewayHears, GatewayFaults
  <1>7. CASE GatewayWrites(c) \/ GatewayWriterFails(c) \/ GatewayFinishes(c)
    BY <1>1, <1>7 DEF GatewayWrites, GatewayWriterFails, GatewayFinishes, wireVars
  <1>8. CASE Connect /\ c = at'
    <2>1. up'[c] = <<Hello>>
      BY <1>8 DEF Connect
    <2>2. In(<<Hello>>) = {Hello}
      BY DEF In
    <2>3. QED
      BY <2>1, <2>2
  <1>9. CASE ReadWelcome /\ c = at
    <2>1. up'[c] = up[c] \/ up'[c] = Append(up[c], Register)
      BY <1>9 DEF ReadWelcome, Send, Register
    <2>2. QED
      BY <1>1, <1>4, <1>9, <2>1, SpokenWords
  <1>10. CASE BridgeWrites /\ c = at
    <2>1. queue # <<>> /\ Head(queue) \in Spoken /\ Head(queue) \in In(queue)
      BY <1>10, InTail DEF BridgeWrites
    <2>2. up'[c] = up[c] \/ up'[c] = Append(up[c], Head(queue))
      BY <1>10 DEF BridgeWrites, Send
    <2>3. QED
      BY <1>1, <1>4, <1>10, <2>1, <2>2
  <1>11. CASE ReadRegistered \/ ReadRequest \/ ReadOther
    BY <1>1, <1>11 DEF ReadRegistered, ReadRequest, ReadOther
  <1>12. (UNCHANGED wireVars) => up'[c] = up[c]
    BY DEF wireVars
  <1>13. (UNCHANGED <<vars, up>>) => up'[c] = up[c]
    OBVIOUS
  <1>14. QED
    BY <1>1, <1>5, <1>6, <1>7, <1>8, <1>9, <1>10, <1>11, <1>12, <1>13, TalkCases

LEMMA DownFrames ==
  ASSUME TypeOK, BridgeInv, BridgeNext, NEW c \in Connections, NEW f \in In(down'[c])
  PROVE  f \in In(down[c]) \/ f \in In(outbound[c])
  <1>0. down[c] \in Seq(Frames) /\ outbound[c] \in Seq(Frames)
    BY RegistrationsType
  <1>1. CASE down'[c] = down[c]
    BY <1>1
  <1>2. CASE down'[c] = <<>>
    BY <1>2, InEmpty
  <1>3. CASE down[c] # <<>> /\ down'[c] = Tail(down[c])
    BY <1>0, <1>3, InTail
  <1>4. CASE GatewayReads(c)
    BY <1>1, <1>4, HandleCases
  <1>5. CASE GatewayWrites(c)
    <2>1. outbound[c] # <<>>
      BY <1>5 DEF GatewayWrites, WriteFrame
    <2>2. Head(outbound[c]) \in Frames /\ Head(outbound[c]) \in In(outbound[c])
      BY <1>0, <2>1, InTail
    <2>3. down'[c] = down[c] \/ down'[c] = Append(down[c], Head(outbound[c]))
      BY <1>5 DEF GatewayWrites, BridgeInv, BridgeTypeOK
    <2>4. down'[c] = Append(down[c], Head(outbound[c])) =>
            In(down'[c]) = In(down[c]) \cup {Head(outbound[c])}
      BY <1>0, <2>2, InAppend
    <2>5. QED
      BY <1>1, <2>2, <2>3, <2>4
  <1>6. CASE \/ GatewayHears(c) \/ GatewayFaults(c) \/ GatewayWriterFails(c) \/ GatewayFinishes(c)
             \/ Connect \/ BridgeWrites
    BY <1>1, <1>6 DEF GatewayHears, GatewayFaults, GatewayWriterFails, GatewayFinishes, Connect,
                      BridgeWrites, wireVars
  <1>7. CASE (ReadWelcome \/ ReadRegistered \/ ReadRequest \/ ReadOther) /\ c = at
    BY <1>3, <1>7 DEF ReadWelcome, ReadRegistered, ReadRequest, ReadOther, Arrived, Consumed,
                      BridgeInv, BridgeTypeOK
  <1>8. (UNCHANGED wireVars) => down'[c] = down[c]
    BY DEF wireVars
  <1>9. QED
    BY <1>1, <1>2, <1>4, <1>5, <1>6, <1>7, <1>8, TalkCases

LEMMA OutFrames ==
  ASSUME TypeOK, BridgeInv, BridgeNext, NEW c \in Connections, NEW f \in In(outbound'[c]),
         f \in Registered \cup Deleted
  PROVE  \/ f \in In(outbound[c])
         \/ /\ GatewayFinishes(c) /\ attached[Self] = c /\ attached' = attached
            /\ serving'[Self] = IF pending[c].op = "register" THEN pending[c].names
                                ELSE serving[Self] \ pending[c].names
            /\ f = Frame(IF pending[c].op = "register" THEN "registered" ELSE "deleted", None)
  <1>0. outbound[c] \in Seq(Frames)
    BY RegistrationsType
  <1>1. CASE outbound'[c] = outbound[c]
    BY <1>1
  <1>2. CASE outbound[c] # <<>> /\ outbound'[c] = Tail(outbound[c])
    BY <1>0, <1>2, InTail
  <1>3. ASSUME NEW x \in Frames, outbound'[c] = Append(outbound[c], x)
        PROVE  f \in In(outbound[c]) \/ f = x
    BY <1>0, <1>3, InAppend
  <1>4. CASE GatewayReads(c)
    <2>1. CASE outbound'[c] = <<Frame("welcome", None)>>
      <3>1. In(outbound'[c]) = {Frame("welcome", None)}
        BY <2>1 DEF In
      <3>2. QED
        BY <3>1, FramesKnown
    <2>2. ASSUME NEW r \in Requests, outbound'[c] = Append(outbound[c], Frame("error", r))
          PROVE  f \in In(outbound[c])
      BY <1>3, <2>2, FramesKnown
    <2>3. QED
      BY <1>1, <1>4, <2>1, <2>2, HandleCases
  <1>5. CASE GatewayWrites(c) \/ GatewayWriterFails(c)
    BY <1>2, <1>5 DEF GatewayWrites, GatewayWriterFails, WriteFrame, WriterFails, TypeOK
  <1>6. CASE GatewayHears(c) \/ GatewayFaults(c)
    <2>1. outbound'[c] = <<>>
      BY <1>6 DEF GatewayHears, GatewayFaults, Disconnect, HandlerFault, Teardown, TypeOK
    <2>2. QED
      BY <2>1, InEmpty
  <1>7. CASE GatewayFinishes(c)
    BY <1>3, <1>7, FinishCases, FramesKnown
  <1>8. ASSUME NEW r \in Requests, Complete(r, Self, Offering) PROVE f \in In(outbound[c])
    <2>1. outbound'[c] = outbound[c] \/ outbound'[c] = Append(outbound[c], Frame("completionRequest", r))
      BY <1>8 DEF Complete, Post, TypeOK
    <2>2. QED
      BY <1>1, <1>3, <2>1, FramesKnown
  <1>9. CASE Connect
    BY <1>1, <1>9 DEF Connect, Accept
  <1>10. (UNCHANGED vars) => outbound'[c] = outbound[c]
    BY DEF vars, socketVars
  <1>11. CASE ReadWelcome \/ BridgeWrites \/ ReadRegistered \/ ReadRequest \/ ReadOther
    BY <1>1, <1>10, <1>11 DEF ReadWelcome, BridgeWrites, ReadRegistered, ReadRequest, ReadOther
  <1>12. QED
    BY <1>1, <1>4, <1>5, <1>6, <1>7, <1>8, <1>9, <1>10, <1>11, TalkCases

-----------------------------------------------------------------------------
(* A removal, wherever it is; and that there is one only in a block that   *)
(* withdraws.                                                              *)
Removing ==
  \/ DeleteModel \in In(queue) \cup In(up[at])
  \/ pending[at].op = "delete"
  \/ (In(outbound[at]) \cup In(down[at])) \cap Deleted # {}

RemovesOnlyWhenAsked == at # None /\ Removing => block = "withdrawing" /\ task = "serving"

(* A block that withdraws on its connection does until it leaves it. *)
LEMMA WithdrawingStays ==
  ASSUME BridgeInv, BridgeNext, at' # None, block = "withdrawing", task = "serving"
  PROVE  block' = "withdrawing" /\ task' = "serving" /\ at' = at
  <1> USE DEF BridgeInv, BridgeTypeOK, OneTask
  <1>1. ~CancelTask
    BY DEF CancelTask, Unwind
  <1>2. block' = block
    <2>1. ~Enter /\ ~Yield /\ ~LeaveBlock /\ ~Withdrawn /\ ~WithdrawalTimeout
      BY <1>1 DEF Enter, Yield, LeaveBlock, Withdrawn, WithdrawalTimeout
    <2>2. CASE \/ Connect \/ ReadWelcome \/ ReadRegistered \/ HandshakeEnds
               \/ ReadRequest \/ ReadOther \/ LinkLost \/ BridgeWrites \/ BridgeWriterFails
      BY <2>2 DEF Connect, ReadWelcome, ReadRegistered, HandshakeEnds, ReadRequest, ReadOther,
                  LinkLost, BridgeWrites, BridgeWriterFails
    <2>3. ASSUME NEW r \in Requests, LlmChunk(r) \/ LlmEnds(r) \/ CompletionStep(r)
          PROVE  block' = block
      BY <2>3 DEF LlmChunk, LlmEnds, CompletionStep, bridgeVars
    <2>4. ASSUME NEW c \in Connections,
                 \/ GatewayReads(c) \/ GatewayWrites(c) \/ GatewayWriterFails(c)
                 \/ GatewayHears(c) \/ GatewayFaults(c) \/ GatewayFinishes(c) \/ Break(c)
          PROVE  block' = block
      BY <2>4 DEF GatewayReads, GatewayWrites, GatewayWriterFails, GatewayHears, GatewayFaults,
                  GatewayFinishes, Break, bridgeVars
    <2>5. QED
      BY <2>1, <2>2, <2>3, <2>4, BridgeCases
  <1>3. task' = "serving" /\ at' = at
    BY TaskCases DEF ReadWelcome, ReadRegistered, Connect
  <1>4. QED
    BY <1>2, <1>3

(* A connection that was just opened carries nothing but the hello. *)
LEMMA Opened ==
  ASSUME TypeOK, BridgeInv, Talk, Connect
  PROVE  /\ at' \in Connections /\ task' = "hello" /\ In(queue') = {} /\ In(up'[at']) = {Hello}
         /\ pending'[at'] = NoOperation /\ In(outbound'[at']) = {} /\ In(down'[at']) = {}
         /\ UNCHANGED <<block, deleted, coreVars>> /\ ~(block = "withdrawing" /\ deleted)
         /\ \A c \in Connections : c # at' => up'[c] = up[c]
         /\ pending' = pending
  <1>1. PICK c \in Connections : /\ at' = c /\ phase[c] = "idle" /\ up' = [up EXCEPT ![c] = <<Hello>>]
                                 /\ Accept(c)
    BY DEF Connect, Accept
  <1>2. UNCHANGED <<pending, outbound, down, queue, block, deleted, coreVars>>
    BY <1>1 DEF Connect, Accept
  <1>3. In(<<Hello>>) = {Hello} /\ up'[c] = <<Hello>>
    BY <1>1 DEF In, BridgeInv, BridgeTypeOK
  <1>4. pending[c] = NoOperation /\ outbound[c] = <<>> /\ down[c] = <<>>
    BY <1>1 DEF Talk, Fresh, Before
  <1>5. queue = <<>> /\ task' = "hello" /\ ~(block = "withdrawing" /\ deleted)
    BY DEF Connect, BridgeInv, OneTask
  <1>6. \A d \in Connections : d # c => up'[d] = up[d]
    BY <1>1 DEF BridgeInv, BridgeTypeOK
  <1>7. QED
    BY <1>1, <1>2, <1>3, <1>4, <1>5, <1>6, InEmpty

LEMMA RemovesNext ==
  ASSUME TypeOK, BridgeInv, Talk, RemovesOnlyWhenAsked, BridgeNext
  PROVE  RemovesOnlyWhenAsked'
  <1> SUFFICES ASSUME at' # None, Removing' PROVE block' = "withdrawing" /\ task' = "serving"
    BY DEF RemovesOnlyWhenAsked
  <1>1. CASE Connect
    BY <1>1, Opened, SpokenWords DEF Removing, NoOperation
  <1>2. CASE ~Connect
    <2>1. at' = at /\ at \in Connections
      BY <1>2, TaskCases DEF BridgeInv, BridgeTypeOK
    <2>2. CASE Removing
      BY <2>1, <2>2, WithdrawingStays DEF RemovesOnlyWhenAsked
    <2>3. CASE ~Removing
      <3>1. ASSUME DeleteModel \in In(queue') PROVE block' = "withdrawing" /\ task' = "serving"
        BY <2>3, <3>1, QueueSteps, SpokenWords DEF Removing
      <3>2. DeleteModel \notin In(up'[at])
        BY <2>1, <2>3, UpFrames, SpokenWords DEF Removing
      <3>3. pending'[at].op # "delete"
        <4>1. CASE up[at] # <<>> /\ Head(up[at]) \in {Register, DeleteModel}
                   /\ pending'[at] = [op    |-> IF Head(up[at]) = Register THEN "register" ELSE "delete",
                                      names |-> {Offering}]
          <5>1. Head(up[at]) \in In(up[at])
            BY <2>1, <4>1, InTail DEF BridgeInv, BridgeTypeOK
          <5>2. Head(up[at]) = Register
            BY <2>3, <4>1, <5>1 DEF Removing
          <5>3. QED
            BY <4>1, <5>2
        <4>2. QED
          BY <2>1, <2>3, <4>1, PendingSteps DEF Removing, NoOperation
      <3>4. ASSUME NEW f \in Deleted, f \in In(outbound'[at]) PROVE FALSE
        <4>1. pending[at] # NoOperation /\ f = Frame(IF pending[at].op = "register"
                                                    THEN "registered" ELSE "deleted", None)
          BY <2>1, <2>3, <3>4, OutFrames, FinishCases DEF Removing
        <4>2. pending[at].op = "register"
          BY <2>1, <2>3, <4>1 DEF Talk, OwnNames, Removing
        <4>3. QED
          BY <3>4, <4>1, <4>2, FramesKnown
      <3>5. ASSUME NEW f \in Deleted, f \in In(down'[at]) PROVE FALSE
        BY <2>1, <2>3, <3>5, DownFrames DEF Removing
      <3>6. DeleteModel \in In(queue')
        BY <2>1, <3>2, <3>3, <3>4, <3>5 DEF Removing, DeleteModel, Deleted
      <3>7. QED
        BY <3>1, <3>6
    <2>4. QED
      BY <2>2, <2>3
  <1>3. QED
    BY <1>1, <1>2

-----------------------------------------------------------------------------
(* What becomes of the attachment and the roster: a later connection of    *)
(* the bridge attaches, the attached one goes, or core answers it.         *)
LEMMA CoreSteps ==
  ASSUME TypeOK, BridgeInv, BridgeNext
  PROVE  \/ UNCHANGED coreVars
         \/ \E d \in Connections : /\ GatewayReads(d) /\ Attach(d) /\ phase[d] = "hello"
                                   /\ attached'[Self] = d /\ serving'[Self] = {}
         \/ attached'[Self] = None /\ serving'[Self] = {}
         \/ \E d \in Connections :
              /\ GatewayFinishes(d) /\ attached[Self] = d /\ attached' = attached
              /\ serving'[Self] = IF pending[d].op = "register" THEN pending[d].names
                                  ELSE serving[Self] \ pending[d].names
  <1>0. Self \in Keys /\ \A d \in Connections : KeyOf[d] = Self
    BY BridgeAssumption
  <1>1. ASSUME NEW d \in Connections, GatewayReads(d)
        PROVE  \/ UNCHANGED coreVars
               \/ Attach(d) /\ phase[d] = "hello" /\ attached'[Self] = d /\ serving'[Self] = {}
    <2>1. CASE Attach(d)
      BY <1>0, <2>1 DEF Attach, AttachLink, TypeOK
    <2>2. CASE HandshakeFails(d)
      BY <2>2 DEF HandshakeFails
    <2>3. QED
      BY <1>1, <2>1, <2>2, HandleCases
  <1>2. ASSUME NEW d \in Connections, GatewayHears(d) \/ GatewayFaults(d)
        PROVE  UNCHANGED coreVars \/ (attached'[Self] = None /\ serving'[Self] = {})
    <2>1. Detach(d)
      BY <1>2 DEF GatewayHears, GatewayFaults, Disconnect, HandlerFault, Teardown
    <2>2. QED
      BY <1>0, <2>1 DEF Detach, TypeOK
  <1>3. ASSUME NEW d \in Connections, GatewayWrites(d) \/ GatewayWriterFails(d)
        PROVE  UNCHANGED coreVars
    BY <1>3 DEF GatewayWrites, GatewayWriterFails, WriteFrame, WriterFails
  <1>4. ASSUME NEW r \in Requests, CompletionStep(r)
        PROVE  UNCHANGED coreVars
    BY <1>4 DEF CompletionStep, AskBridge, Complete, Unavailable, Start, Take, Resume, GapTimeout
  <1>5. CASE Connect
    BY <1>5, Opened DEF Connect, Accept
  <1>6. (UNCHANGED vars) => UNCHANGED coreVars
    BY DEF vars
  <1>7. QED
    BY <1>1, <1>2, <1>3, <1>4, <1>5, <1>6, FinishCases, BridgeCases, BridgeAlone

(* What AttachedIsServed promises holds from the moment core has           *)
(* registered, not only from when the bridge hears of it; a removal is the *)
(* one thing that could undo it, and somebody asked for it.                *)
Offered ==
  /\ at # None /\ block # "withdrawing" /\ attached[Self] = at
  /\ task = "serving" \/ (In(outbound[at]) \cup In(down[at])) \cap Registered # {}
  => Offering \in serving[Self]

(* Only deregister makes a block withdraw, and what follows withdrawing is *)
(* not on the connection any more.                                         *)
LEMMA BlockSteps ==
  ASSUME BridgeInv, BridgeNext
  PROVE  /\ at' # None /\ block = "withdrawing" => block' = "withdrawing"
         /\ block' = "withdrawing" /\ block # "withdrawing" => ~deleted' /\ at' = at
         /\ block' = "withdrawing" /\ block = "withdrawing" /\ deleted' /\ ~deleted =>
              /\ at \in Connections /\ down[at] # <<>> /\ Head(down[at]).type = "deleted"
  <1> USE DEF BridgeInv, BridgeTypeOK, OneTask
  <1>1. CASE Enter \/ Yield
    BY <1>1 DEF Enter, Yield
  <1>2. CancelTask => at' = None /\ block' \in {"out", "joining"}
    BY DEF CancelTask, Unwind
  <1>3. CASE LeaveBlock \/ Withdrawn \/ WithdrawalTimeout
    BY <1>2, <1>3 DEF LeaveBlock, Withdrawn, WithdrawalTimeout, AskWithdrawal
  <1>4. CASE ReadWelcome \/ ReadRegistered
    BY <1>4 DEF ReadWelcome, ReadRegistered
  <1>5. CASE ReadOther
    BY <1>5 DEF ReadOther, Arrived
  <1>6. CASE Connect \/ HandshakeEnds \/ ReadRequest \/ LinkLost \/ BridgeWrites \/ BridgeWriterFails
    BY <1>6 DEF Connect, HandshakeEnds, ReadRequest, LinkLost, BridgeWrites, BridgeWriterFails
  <1>7. ASSUME NEW r \in Requests, LlmChunk(r) \/ LlmEnds(r) \/ CompletionStep(r)
        PROVE  block' = block /\ deleted' = deleted
    BY <1>7 DEF LlmChunk, LlmEnds, CompletionStep, bridgeVars
  <1>8. ASSUME NEW c \in Connections,
               \/ GatewayReads(c) \/ GatewayWrites(c) \/ GatewayWriterFails(c)
               \/ GatewayHears(c) \/ GatewayFaults(c) \/ GatewayFinishes(c) \/ Break(c)
        PROVE  block' = block /\ deleted' = deleted
    BY <1>8 DEF GatewayReads, GatewayWrites, GatewayWriterFails, GatewayHears, GatewayFaults,
                GatewayFinishes, Break, bridgeVars
  <1>9. QED
    BY <1>1, <1>3, <1>4, <1>5, <1>6, <1>7, <1>8, BridgeCases

LEMMA OfferedNext ==
  ASSUME TypeOK, BridgeInv, Talk, RemovesOnlyWhenAsked, Offered, BridgeNext
  PROVE  Offered'
  <1> SUFFICES ASSUME at' # None, block' # "withdrawing", attached'[Self] = at',
                      \/ task' = "serving"
                      \/ (In(outbound'[at']) \cup In(down'[at'])) \cap Registered # {}
               PROVE  Offering \in serving'[Self]
    BY DEF Offered, Registered
  <1>1. ~Connect
    BY Opened
  <1>2. at' = at /\ at \in Connections /\ block # "withdrawing"
    BY <1>1, TaskCases, BlockSteps DEF BridgeInv, BridgeTypeOK
  <1>3. ~Removing
    BY <1>2, ConstantsAssumption DEF RemovesOnlyWhenAsked
  <1>4. ASSUME NEW d \in Connections, GatewayFinishes(d), attached[Self] = d, attached' = attached,
               serving'[Self] = IF pending[d].op = "register" THEN pending[d].names
                                ELSE serving[Self] \ pending[d].names
        PROVE  Offering \in serving'[Self]
    <2>1. d = at /\ pending[at] # NoOperation
      BY <1>2, <1>4, FinishCases
    <2>2. pending[at].op = "register" /\ pending[at].names = {Offering}
      BY <1>2, <1>3, <2>1 DEF Talk, OwnNames, Removing
    <2>3. QED
      BY <1>4, <2>1, <2>2
  <1>5. CASE \E d \in Connections : GatewayReads(d) /\ Attach(d) /\ phase[d] = "hello" /\ attached'[Self] = d
    <2>1. GatewayReads(at) /\ Attach(at) /\ phase[at] = "hello"
      BY <1>2, <1>5
    <2>2. /\ outbound'[at] = <<Frame("welcome", None)>> /\ down'[at] = <<>>
          /\ task' = task /\ task \notin {"register", "serving"}
      <3>1. down[at] = <<>> /\ task \notin {"register", "serving"}
        BY <1>2, <2>1 DEF Talk, Fresh, Past, Before
      <3>2. task' = task /\ down' = down
        BY <2>1 DEF GatewayReads, bridgeVars
      <3>3. outbound'[at] = <<Frame("welcome", None)>>
        BY <1>2, <2>1 DEF Attach, TypeOK
      <3>4. QED
        BY <3>1, <3>2, <3>3
    <2>3. In(<<Frame("welcome", None)>>) = {Frame("welcome", None)}
      BY DEF In
    <2>4. QED
      BY <1>2, <2>2, <2>3, InEmpty, FramesKnown
  <1>6. CASE UNCHANGED coreVars
    <2>1. attached[Self] = at /\ serving'[Self] = serving[Self]
      BY <1>2, <1>6 DEF coreVars
    <2>2. CASE task = "serving"
      BY <1>2, <2>1, <2>2, ConstantsAssumption DEF Offered
    <2>3. CASE (In(outbound[at]) \cup In(down[at])) \cap Registered # {}
      BY <1>2, <2>1, <2>3, ConstantsAssumption DEF Offered
    <2>4. ASSUME task' = "serving", task # "serving"
          PROVE  (In(outbound[at]) \cup In(down[at])) \cap Registered # {}
      <3>1. ReadRegistered
        BY <1>1, <1>2, <2>4, TaskCases, ConstantsAssumption DEF ReadWelcome
      <3>2. down[at] # <<>> /\ Head(down[at]).type = "registered" /\ down[at] \in Seq(Frames)
        BY <1>2, <3>1, RegistrationsType DEF ReadRegistered, Arrived
      <3>3. Head(down[at]) \in Frames /\ Head(down[at]) \in In(down[at])
        BY <3>2, InTail
      <3>4. QED
        BY <3>2, <3>3 DEF Registered
    <2>5. ASSUME NEW f \in Registered, f \in In(outbound'[at]) \cup In(down'[at]),
                 (In(outbound[at]) \cup In(down[at])) \cap Registered = {}
          PROVE  Offering \in serving'[Self]
      <3>1. f \in In(outbound'[at])
        BY <1>2, <2>5, DownFrames
      <3>2. QED
        BY <1>2, <1>4, <2>5, <3>1, OutFrames
    <2>6. QED
      BY <1>2, <2>2, <2>3, <2>4, <2>5
  <1>7. attached'[Self] # None
    BY ConstantsAssumption
  <1>8. QED
    BY <1>4, <1>5, <1>6, <1>7, CoreSteps

(* A withdrawal that was confirmed, or whose answer is on its way; no      *)
(* registration is left that could undo it.                                *)
Confirmed ==
  \/ block = "withdrawing" /\ deleted
  \/ at # None /\ (In(outbound[at]) \cup In(down[at])) \cap Deleted # {}

Registering(c) == Register \in In(up[c]) \/ pending[c].op = "register"

Withdraws ==
  Confirmed =>
    /\ Offering \notin serving[Self]
    /\ \A c \in Connections : Registering(c) => attached[Self] # c
    /\ task \in {"serving", "waiting"}

LEMMA RegisteringSteps ==
  ASSUME TypeOK, BridgeInv, Talk, BridgeNext, NEW c \in Connections, Registering(c)'
  PROVE  Registering(c) \/ (ReadWelcome /\ c = at)
  <1>1. CASE Register \in In(up'[c])
    <2>1. Register \notin In(queue) /\ Register # Hello
      BY SpokenWords DEF Talk, OwnNames
    <2>2. QED
      BY <1>1, <2>1, UpFrames DEF Registering
  <1>2. CASE pending'[c].op = "register"
    <2>1. CASE up[c] # <<>> /\ Head(up[c]) \in {Register, DeleteModel}
               /\ pending'[c] = [op    |-> IF Head(up[c]) = Register THEN "register" ELSE "delete",
                                 names |-> {Offering}]
      <3>1. Head(up[c]) \in In(up[c])
        BY <2>1, InTail DEF BridgeInv, BridgeTypeOK
      <3>2. Head(up[c]) = Register
        BY <1>2, <2>1
      <3>3. QED
        BY <3>1, <3>2 DEF Registering
    <2>2. QED
      BY <1>2, <2>1, PendingSteps DEF Registering, NoOperation
  <1>3. QED
    BY <1>1, <1>2 DEF Registering, Register

LEMMA WithdrawsNext ==
  ASSUME TypeOK, BridgeInv, Talk, RegistersOnce, RemovesOnlyWhenAsked, Withdraws, BridgeNext
  PROVE  Withdraws'
  <1> SUFFICES ASSUME Confirmed'
               PROVE  /\ Offering \notin serving'[Self]
                      /\ \A c \in Connections : Registering(c)' => attached'[Self] # c
                      /\ task' \in {"serving", "waiting"}
    BY DEF Withdraws
  <1>1. CASE Confirmed
    <2>1. /\ Offering \notin serving[Self] /\ task \in {"serving", "waiting"}
          /\ \A c \in Connections : Registering(c) => attached[Self] # c
      BY <1>1 DEF Withdraws
    <2>2. ~ReadWelcome /\ ~ReadRegistered
      BY <2>1 DEF ReadWelcome, ReadRegistered
    <2>3. ~Connect
      <3>1. ASSUME Connect PROVE FALSE
        <4>1. at = None
          BY <3>1 DEF Connect, BridgeInv, BridgeTypeOK
        <4>2. block = "withdrawing" /\ deleted
          BY <1>1, <4>1 DEF Confirmed
        <4>3. QED
          BY <3>1, <4>2, Opened
      <3>2. QED
        BY <3>1
    <2>4. \A c \in Connections : Registering(c)' => Registering(c)
      BY <2>2, RegisteringSteps
    <2>5. task' \in {"serving", "waiting"}
      <3>1. CASE at' = None /\ task' \in {"off", "waiting"}
        <4>1. block' = "withdrawing"
          BY <3>1 DEF Confirmed
        <4>2. BridgeInv'
          BY BridgeInvNext
        <4>3. QED
          BY <3>1, <4>1, <4>2 DEF BridgeInv, OneTask
      <3>2. QED
        BY <2>1, <2>2, <2>3, <3>1, TaskCases
    <2>6. /\ Offering \notin serving'[Self]
          /\ \A c \in Connections : Registering(c)' => attached'[Self] # c
      <3>1. CASE UNCHANGED coreVars
        BY <2>1, <2>4, <3>1 DEF coreVars
      <3>2. ASSUME NEW d \in Connections, phase[d] = "hello", attached'[Self] = d, serving'[Self] = {}
            PROVE  /\ Offering \notin serving'[Self]
                   /\ \A c \in Connections : Registering(c)' => attached'[Self] # c
        <4>1. ~Registering(d)
          BY <3>2, SpokenWords DEF Talk, Fresh, Before, Registering, NoOperation
        <4>2. QED
          BY <2>4, <3>2, <4>1
      <3>3. CASE attached'[Self] = None /\ serving'[Self] = {}
        BY <3>3, ConstantsAssumption
      <3>4. ASSUME NEW d \in Connections, attached[Self] = d, attached' = attached,
                   serving'[Self] = IF pending[d].op = "register" THEN pending[d].names
                                    ELSE serving[Self] \ pending[d].names
            PROVE  /\ Offering \notin serving'[Self]
                   /\ \A c \in Connections : Registering(c)' => attached'[Self] # c
        <4>1. pending[d].op # "register"
          BY <2>1, <3>4 DEF Registering
        <4>2. QED
          BY <2>1, <2>4, <3>4, <4>1
      <3>5. QED
        BY <3>1, <3>2, <3>3, <3>4, CoreSteps
    <2>7. QED
      BY <2>5, <2>6
  <1>2. CASE ~Confirmed
    <2>1. ~(block' = "withdrawing" /\ deleted')
      <3>1. CASE block # "withdrawing"
        BY <3>1, BlockSteps
      <3>2. ASSUME block = "withdrawing", block' = "withdrawing", deleted' PROVE FALSE
        <4>1. ~deleted
          BY <1>2, <3>2 DEF Confirmed
        <4>2. at \in Connections /\ down[at] # <<>> /\ Head(down[at]).type = "deleted"
          BY <3>2, <4>1, BlockSteps
        <4>3. down[at] \in Seq(Frames)
          BY <4>2, RegistrationsType
        <4>4. Head(down[at]) \in Frames /\ Head(down[at]) \in In(down[at])
          BY <4>2, <4>3, InTail
        <4>5. QED
          BY <1>2, <4>2, <4>4, ConstantsAssumption DEF Confirmed, Deleted
      <3>3. QED
        BY <3>1, <3>2
    <2>2. PICK f \in Deleted : at' # None /\ f \in In(outbound'[at']) \cup In(down'[at'])
      BY <2>1 DEF Confirmed, Deleted
    <2>3. ~Connect
      BY <2>2, Opened
    <2>4. at' = at /\ at \in Connections
      BY <2>2, <2>3, TaskCases DEF BridgeInv, BridgeTypeOK
    <2>5. f \notin In(outbound[at]) \cup In(down[at])
      BY <1>2, <2>2, <2>4, ConstantsAssumption DEF Confirmed
    <2>6. f \in In(outbound'[at])
      BY <2>2, <2>4, <2>5, DownFrames
    <2>7. /\ GatewayFinishes(at) /\ attached[Self] = at /\ attached' = attached
          /\ serving'[Self] = IF pending[at].op = "register" THEN pending[at].names
                              ELSE serving[Self] \ pending[at].names
          /\ f = Frame(IF pending[at].op = "register" THEN "registered" ELSE "deleted", None)
      BY <2>4, <2>5, <2>6, OutFrames
    <2>8. pending[at] # NoOperation /\ pending'[at] = NoOperation /\ UNCHANGED <<bridgeVars, wireVars>>
      BY <2>4, <2>7, FinishCases
    <2>9. pending[at].op = "delete" /\ pending[at].names = {Offering}
      BY <2>4, <2>7, <2>8, FramesKnown DEF Talk, OwnNames
    <2>10. task = "serving"
      BY <2>2, <2>4, <2>9 DEF RemovesOnlyWhenAsked, Removing
    <2>11. Register \notin In(up[at])
      <3>1. Registrations(at) = 0
        BY <2>4, <2>10 DEF RegistersOnce
      <3>2. Count(up[at], {Register}) = 0
        BY <2>4, <3>1, RegistrationsType, NothingInAnyPlace DEF Registrations
      <3>3. In(up[at]) \cap {Register} = {}
        BY <2>4, <3>2, CountNat, RegistrationsType
      <3>4. QED
        BY <3>3
    <2>12. \A c \in Connections : Registering(c)' => attached'[Self] # c
      <3>1. up' = up
        BY <2>8 DEF wireVars
      <3>2. ~Registering(at)'
        BY <2>4, <2>8, <2>11, <3>1 DEF Registering, NoOperation, Register
      <3>3. QED
        BY <2>4, <2>7, <3>2
    <2>13. QED
      BY <2>7, <2>8, <2>9, <2>10, <2>12 DEF bridgeVars
  <1>3. QED
    BY <1>1, <1>2

-----------------------------------------------------------------------------
(* The inductive invariant that AttachedIsServed and ConfirmedIsWithdrawn  *)
(* share.                                                                  *)
Withdrawal ==
  /\ TypeOK /\ Binding /\ BridgeInv /\ Talk /\ RegistersOnce
  /\ RemovesOnlyWhenAsked /\ Offered /\ Withdraws

LEMMA WithdrawalInit == BridgeInit => Withdrawal
  <1> SUFFICES ASSUME BridgeInit PROVE Withdrawal
    OBVIOUS
  <1>1. TypeOK /\ Binding /\ BridgeInv
    BY InitType, BindingInit, BridgeInvInit DEF BridgeInit
  <1>2. \A c \in Connections : up[c] = <<>> /\ down[c] = <<>> /\ outbound[c] = <<>>
                                 /\ pending[c] = NoOperation
    BY DEF BridgeInit, Init
  <1>3. at = None /\ block = "out" /\ task = "off" /\ queue = <<>>
    BY DEF BridgeInit
  <1>4. Talk
    BY <1>2, <1>3, InEmpty DEF Talk, Fresh, Past, OwnNames
  <1>5. RegistersOnce
    <2>1. ASSUME NEW c \in Connections PROVE Registrations(c) = 0
      BY <1>2, CountEmpty DEF Registrations, Being, NoOperation
    <2>2. QED
      BY <2>1 DEF RegistersOnce
  <1>6. RemovesOnlyWhenAsked /\ Offered /\ Withdraws
    BY <1>3 DEF RemovesOnlyWhenAsked, Offered, Withdraws, Confirmed
  <1>7. QED
    BY <1>1, <1>4, <1>5, <1>6 DEF Withdrawal

LEMMA WithdrawalNext == Withdrawal /\ [BridgeNext]_allVars => Withdrawal'
  <1>1. CASE UNCHANGED allVars
    <2>1. Withdrawal => TypeOK' /\ Binding' /\ BridgeInv'
      BY <1>1, RelayStep, NextType, BindingNext, BridgeInvNext DEF Withdrawal, BridgeInv
    <2>2. UNCHANGED <<task, at, deleted, block, queue, up, down, phase, outbound, pending,
                      attached, serving>>
      BY <1>1 DEF allVars, bridgeVars, wireVars, vars, socketVars, coreVars
    <2>3. UNCHANGED <<Talk, RegistersOnce, RemovesOnlyWhenAsked, Offered, Withdraws>>
      BY <2>2 DEF Talk, Fresh, Past, OwnNames, RegistersOnce, Registrations, Being,
                  RemovesOnlyWhenAsked, Removing, Offered, Withdraws, Confirmed, Registering
    <2>4. QED
      BY <2>1, <2>3 DEF Withdrawal
  <1>2. CASE Withdrawal /\ BridgeNext
    <2>1. TypeOK' /\ Binding' /\ BridgeInv'
      BY <1>2, RelayStep, NextType, BindingNext, BridgeInvNext DEF Withdrawal, BridgeInv
    <2>2. Talk'
      BY <1>2, FreshNext, PastNext, OwnNamesNext DEF Withdrawal, Talk
    <2>3. QED
      BY <1>2, <2>1, <2>2, RegistersNext, RemovesNext, OfferedNext, WithdrawsNext DEF Withdrawal
  <1>3. QED
    BY <1>1, <1>2

(***************************************************************************)
(* What serving() yields on, and what attached says: while the bridge is   *)
(* attached and does not withdraw, core serves its offering on that        *)
(* connection, unless the gateway has lost or replaced it.  A connection   *)
(* takes one registration, and nobody but deregister takes it back.        *)
(***************************************************************************)
THEOREM AttachedMeansServed == BridgeSpec => []AttachedIsServed
  <1>1. Withdrawal => AttachedIsServed
    BY ConstantsAssumption DEF Withdrawal, BridgeInv, BridgeTypeOK, OneTask, Offered, AttachedIsServed
  <1>2. QED
    BY <1>1, WithdrawalInit, WithdrawalNext, PTL DEF BridgeSpec

(***************************************************************************)
(* deregister stops waiting only for the answer to its own deleteModel:    *)
(* with deleted set, the offering is out of the roster, and no frame or    *)
(* call that is still on its way can put it back.                          *)
(***************************************************************************)
THEOREM DeletedMeansWithdrawn == BridgeSpec => []ConfirmedIsWithdrawn
  <1>1. Withdrawal => ConfirmedIsWithdrawn
    BY DEF Withdrawal, Withdraws, Confirmed, ConfirmedIsWithdrawn
  <1>2. QED
    BY <1>1, WithdrawalInit, WithdrawalNext, PTL DEF BridgeSpec

-----------------------------------------------------------------------------
(***************************************************************************)
(* The answer to a completion, on its way from the call that gives it to   *)
(* the caller's queue at the gateway. Whatever a connection loses it loses *)
(* for good, so the frames that arrive are the first that were given; the  *)
(* invariant counts them in the three places they can be (Tally), and      *)
(* knows that a done is behind every other (NothingAfterDone).             *)
(***************************************************************************)
Answers(r) == {Says(kind, r) : kind \in AnswerKinds}
Done(r) == Says("done", r)

\* No answer to r behind its done.
DoneLast(s, r) ==
  \A i, j \in 1..Len(s) : i < j /\ s[i] = Done(r) => s[j] \notin Answers(r)

\* For the answers to r, t is s.
Alike(s, t, r) ==
  /\ Count(t, Answers(r)) = Count(s, Answers(r))
  /\ In(t) \cap Answers(r) = In(s) \cap Answers(r)
  /\ DoneLast(s, r) => DoneLast(t, r)

LEMMA LastAppend ==
  ASSUME NEW S, NEW s \in Seq(S), NEW x \in S, NEW r, DoneLast(s, r),
         x \notin Answers(r) \/ Done(r) \notin In(s)
  PROVE  DoneLast(Append(s, x), r)
  <1> SUFFICES ASSUME NEW i \in 1..Len(Append(s, x)), NEW j \in 1..Len(Append(s, x)),
                      i < j, Append(s, x)[i] = Done(r)
               PROVE  Append(s, x)[j] \notin Answers(r)
    BY DEF DoneLast
  <1>1. /\ Len(Append(s, x)) = Len(s) + 1 /\ Len(s) \in Nat
        /\ \A k \in 1..Len(s) : Append(s, x)[k] = s[k]
        /\ Append(s, x)[Len(s) + 1] = x
    OBVIOUS
  <1>2. i \in 1..Len(s) /\ s[i] = Done(r)
    BY <1>1
  <1>3. CASE j \in 1..Len(s)
    BY <1>1, <1>2, <1>3 DEF DoneLast
  <1>4. CASE j = Len(s) + 1
    <2>1. Done(r) \in In(s)
      BY <1>2 DEF In
    <2>2. QED
      BY <1>1, <1>4, <2>1
  <1>5. QED
    BY <1>1, <1>3, <1>4

LEMMA LastTail ==
  ASSUME NEW S, NEW s \in Seq(S), s # <<>>, NEW r, DoneLast(s, r)
  PROVE  /\ DoneLast(Tail(s), r)
         /\ Head(s) = Done(r) => In(Tail(s)) \cap Answers(r) = {}
  <1>1. /\ Len(Tail(s)) = Len(s) - 1 /\ Len(s) \in Nat /\ Len(s) >= 1
        /\ \A i \in 1..Len(Tail(s)) : Tail(s)[i] = s[i + 1]
        /\ Head(s) = s[1]
    OBVIOUS
  <1>2. DoneLast(Tail(s), r)
    <2> SUFFICES ASSUME NEW i \in 1..Len(Tail(s)), NEW j \in 1..Len(Tail(s)),
                        i < j, Tail(s)[i] = Done(r)
                 PROVE  Tail(s)[j] \notin Answers(r)
      BY DEF DoneLast
    <2>1. i + 1 \in 1..Len(s) /\ j + 1 \in 1..Len(s) /\ i + 1 < j + 1
      BY <1>1
    <2>2. QED
      BY <1>1, <2>1 DEF DoneLast
  <1>3. ASSUME Head(s) = Done(r), NEW x \in In(Tail(s)) PROVE x \notin Answers(r)
    <2>1. PICK j \in 1..Len(Tail(s)) : x = Tail(s)[j]
      BY <1>3 DEF In
    <2>2. 1 \in 1..Len(s) /\ j + 1 \in 1..Len(s) /\ 1 < j + 1 /\ x = s[j + 1] /\ s[1] = Done(r)
      BY <1>1, <1>3, <2>1
    <2>3. QED
      BY <2>2 DEF DoneLast
  <1>4. QED
    BY <1>2, <1>3

LEMMA LastOfNone == ASSUME NEW s, NEW r, In(s) \cap Answers(r) = {} PROVE DoneLast(s, r)
  BY DEF DoneLast, In

LEMMA AlikeItself == ASSUME NEW s, NEW r PROVE Alike(s, s, r)
  BY DEF Alike

LEMMA AlikeAppend ==
  ASSUME NEW S, NEW s \in Seq(S), NEW x \in S, NEW r, x \notin Answers(r)
  PROVE  Alike(s, Append(s, x), r)
  <1>1. In(Append(s, x)) = In(s) \cup {x}
    BY InAppend
  <1>2. Count(Append(s, x), Answers(r)) = Count(s, Answers(r))
    BY CountAppend
  <1>3. QED
    BY <1>1, <1>2, LastAppend DEF Alike

LEMMA AlikeTail ==
  ASSUME NEW S, NEW s \in Seq(S), s # <<>>, NEW r, Head(s) \notin Answers(r)
  PROVE  Alike(s, Tail(s), r)
  <1>1. In(s) \subseteq In(Tail(s)) \cup {Head(s)} /\ In(Tail(s)) \subseteq In(s)
    <2>1. /\ Len(Tail(s)) = Len(s) - 1 /\ Len(s) \in Nat
          /\ \A i \in 1..Len(Tail(s)) : Tail(s)[i] = s[i + 1]
          /\ Head(s) = s[1]
      OBVIOUS
    <2>2. ASSUME NEW i \in 1..Len(s) PROVE s[i] \in In(Tail(s)) \cup {Head(s)}
      <3>1. CASE i # 1
        <4>1. i - 1 \in 1..Len(Tail(s)) /\ (i - 1) + 1 = i
          BY <2>1, <3>1
        <4>2. s[i] = Tail(s)[i - 1]
          BY <2>1, <4>1
        <4>3. QED
          BY <4>1, <4>2 DEF In
      <3>2. QED
        BY <2>1, <3>1
    <2>3. QED
      BY <2>2, InTail DEF In
  <1>2. Count(Tail(s), Answers(r)) = Count(s, Answers(r))
    BY CountTail
  <1>3. QED
    BY <1>1, <1>2, LastTail DEF Alike

LEMMA AlikeEmpty ==
  ASSUME NEW S, NEW s \in Seq(S), NEW r, In(s) \cap Answers(r) = {}
  PROVE  Alike(s, <<>>, r)
  <1>1. Count(s, Answers(r)) = 0
    BY CountNat
  <1>2. QED
    BY <1>1, CountEmpty, InEmpty, LastOfNone DEF Alike

-----------------------------------------------------------------------------
AskFrame(r) == Frame("completionRequest", r)

Asking(r, c) == Count(outbound[c], {AskFrame(r)}) + Count(down[c], {AskFrame(r)})

(* A completion is asked for once: its frame is on the way, or its call to *)
(* the LLM was begun.                                                      *)
AskedOnce ==
  \A r \in Requests, c \in Connections :
    /\ Asking(r, c) <= 1
    /\ Asking(r, c) # 0 => link[r] = c /\ calls[r] = "none"

(* A call to the LLM is begun for a request that was delivered, and gives  *)
(* nothing before.                                                         *)
Begun ==
  \A r \in Requests :
    /\ calls[r] # "none" => link[r] # None /\ (link[r] = at => task = "serving")
    /\ calls[r] = "none" => produced[r] = 0

LEMMA LinkKept ==
  ASSUME TypeOK, Binding, [Next]_vars, NEW r \in Requests, link[r] # None
  PROVE  link'[r] = link[r]
  <1>1. PICK c \in Connections : c = link[r]
    BY DEF TypeOK
  <1>2. PICK f \in Spoken : f.type \in AnswerKinds /\ f.request = r
    <2>1. Says("chunk", r) \in Spoken
      BY SpokenFrames DEF AnswerKinds
    <2>2. QED
      BY <2>1 DEF Says, AnswerKinds
  <1>3. About(f, c)
    BY <1>1, <1>2 DEF About
  <1>4. About(f, c)'
    BY <1>3, LinksStay
  <1>5. link'[f.request] = c
    BY <1>2, <1>4 DEF About
  <1>6. QED
    BY <1>1, <1>2, <1>5

LEMMA UnwindCalls ==
  ASSUME BridgeInv, Unwind, NEW r \in Requests
  PROVE  /\ at' = None /\ queue' = <<>>
         /\ calls'[r] = calls[r] \/ (calls[r] = "working" /\ calls'[r] = "cancelled")
  BY DEF Unwind, InFlightHere, BridgeInv, BridgeTypeOK

(* What becomes of a completion's call. *)
LEMMA CallSteps ==
  ASSUME BridgeInv, BridgeNext, NEW r \in Requests
  PROVE  \/ calls'[r] = calls[r] /\ produced'[r] = produced[r]
         \/ /\ ReadRequest /\ Head(down[at]).request = r
            /\ calls'[r] = "working" /\ produced'[r] = produced[r]
         \/ /\ at' = None /\ calls[r] = "working" /\ calls'[r] = "cancelled"
            /\ produced'[r] = produced[r]
         \/ LlmChunk(r) /\ produced'[r] = produced[r] + 1 /\ calls'[r] = calls[r]
         \/ /\ LlmEnds(r) /\ produced'[r] = produced[r]
            /\ calls'[r] \in {"whole", "broke", "refused"}
  <1> USE DEF BridgeInv, BridgeTypeOK
  <1>1. CASE LeaveBlock \/ Withdrawn \/ WithdrawalTimeout
    <2>1. UNCHANGED produced /\ (AskWithdrawal \/ CancelTask)
      BY <1>1 DEF LeaveBlock, Withdrawn, WithdrawalTimeout
    <2>2. CASE CancelTask
      <3>1. Unwind \/ UNCHANGED calls
        BY <2>2 DEF CancelTask
      <3>2. QED
        BY <2>1, <3>1, UnwindCalls
    <2>3. QED
      BY <2>1, <2>2 DEF AskWithdrawal
  <1>2. CASE LinkLost
    BY <1>2, UnwindCalls DEF LinkLost
  <1>3. CASE ReadRequest
    <2>1. /\ calls' = [calls EXCEPT ![Head(down[at]).request] = "working"]
          /\ UNCHANGED produced
      BY <1>3 DEF ReadRequest
    <2>2. QED
      BY <1>3, <2>1
  <1>4. ASSUME NEW q \in Requests, LlmChunk(q)
        PROVE  \/ calls'[r] = calls[r] /\ produced'[r] = produced[r]
               \/ LlmChunk(r) /\ produced'[r] = produced[r] + 1 /\ calls'[r] = calls[r]
    <2>1. produced' = [produced EXCEPT ![q] = produced[q] + 1] /\ calls' = calls
      BY <1>4 DEF LlmChunk
    <2>2. QED
      BY <1>4, <2>1
  <1>5. ASSUME NEW q \in Requests, LlmEnds(q)
        PROVE  \/ calls'[r] = calls[r] /\ produced'[r] = produced[r]
               \/ /\ LlmEnds(r) /\ produced'[r] = produced[r]
                  /\ calls'[r] \in {"whole", "broke", "refused"}
    <2>1. PICK how \in {"whole", "broke", "refused"} : calls' = [calls EXCEPT ![q] = how]
      BY <1>5 DEF LlmEnds
    <2>2. UNCHANGED produced
      BY <1>5 DEF LlmEnds
    <2>3. QED
      BY <1>5, <2>1, <2>2
  <1>6. CASE \/ Enter \/ Yield \/ Connect \/ ReadWelcome \/ ReadRegistered \/ HandshakeEnds
             \/ ReadOther \/ BridgeWrites \/ BridgeWriterFails
             \/ \E q \in Requests : CompletionStep(q)
             \/ \E c \in Connections :
                  \/ GatewayReads(c) \/ GatewayWrites(c) \/ GatewayWriterFails(c)
                  \/ GatewayHears(c) \/ GatewayFaults(c) \/ GatewayFinishes(c) \/ Break(c)
    BY <1>6
    DEF Enter, Yield, Connect, ReadWelcome, ReadRegistered, HandshakeEnds, ReadOther,
        BridgeWrites, BridgeWriterFails, CompletionStep, GatewayReads, GatewayWrites,
        GatewayWriterFails, GatewayHears, GatewayFaults, GatewayFinishes, Break, bridgeVars
  <1>7. QED
    BY <1>1, <1>2, <1>3, <1>4, <1>5, <1>6, BridgeCases

LEMMA AskingType ==
  ASSUME TypeOK, BridgeInv, NEW c \in Connections, NEW r \in Requests
  PROVE  /\ outbound[c] \in Seq(Frames) /\ down[c] \in Seq(Frames)
         /\ AskFrame(r) \in Frames
         /\ Count(outbound[c], {AskFrame(r)}) \in Nat /\ Count(down[c], {AskFrame(r)}) \in Nat
         /\ Asking(r, c) \in Nat
  <1>1. outbound[c] \in Seq(Frames) /\ down[c] \in Seq(Frames) /\ AskFrame(r) \in Frames
    BY DEF TypeOK, BridgeInv, BridgeTypeOK, AskFrame, Frame, Frames
  <1>2. Count(outbound[c], {AskFrame(r)}) \in Nat /\ Count(down[c], {AskFrame(r)}) \in Nat
    BY <1>1, CountNat
  <1>3. QED
    BY <1>1, <1>2 DEF Asking

LEMMA AskSteps ==
  ASSUME TypeOK, BridgeInv, BridgeNext, NEW c \in Connections, NEW r \in Requests
  PROVE  /\ Asking(r, c)' \in Nat
         /\ \/ Asking(r, c)' <= Asking(r, c)
            \/ /\ Complete(r, Self, Offering) /\ c = link'[r] /\ UNCHANGED <<bridgeVars, wireVars>>
               /\ Asking(r, c)' <= Asking(r, c) + 1
         /\ ReadRequest /\ c = at /\ Head(down[at]) = AskFrame(r)
              => Asking(r, c)' + 1 = Asking(r, c)
  <1> DEFINE K == {AskFrame(r)}
             O == Count(outbound[c], K)
             D == Count(down[c], K)
  <1>1. /\ outbound[c] \in Seq(Frames) /\ down[c] \in Seq(Frames) /\ AskFrame(r) \in Frames
        /\ O \in Nat /\ D \in Nat
    BY AskingType
  <1>2. Asking(r, c) = O + D /\ Asking(r, c)' = O' + D'
    BY DEF Asking
  <1>3. TypeOK' /\ BridgeInv'
    BY RelayStep, NextType, BridgeInvNext DEF BridgeInv
  <1>4. O' \in Nat /\ D' \in Nat
    <2>1. outbound'[c] \in Seq(Frames) /\ down'[c] \in Seq(Frames)
      BY <1>3 DEF TypeOK, BridgeInv, BridgeTypeOK
    <2>2. QED
      BY <2>1, CountNat
  <1>5. /\ outbound'[c] = outbound[c] => O' = O
        /\ down'[c] = down[c] => D' = D
    OBVIOUS
  <1>6. /\ outbound'[c] = <<>> => O' = 0
        /\ down'[c] = <<>> => D' = 0
    BY CountEmpty
  <1>7. outbound[c] # <<>> /\ outbound'[c] = Tail(outbound[c])
          => O' <= O /\ (Head(outbound[c]) \in K => O' + 1 = O)
    BY <1>1, CountLess
  <1>8. down[c] # <<>> /\ down'[c] = Tail(down[c])
          => D' <= D /\ (Head(down[c]) \in K => D' + 1 = D)
    BY <1>1, CountLess
  <1>9. ASSUME NEW f \in Frames, outbound'[c] = Append(outbound[c], f)
        PROVE  (f \in K => O' = O + 1) /\ (f \notin K => O' = O)
    BY <1>1, <1>9, CountAppend
  <1>10. ASSUME NEW f \in Frames, down'[c] = Append(down[c], f)
         PROVE  (f \in K => D' = D + 1) /\ (f \notin K => D' = D)
    BY <1>1, <1>10, CountAppend
  <1> HIDE DEF O, D
  <1>11. O' <= O /\ D' <= D => Asking(r, c)' <= Asking(r, c)
    BY <1>1, <1>2, <1>4, NoMoreInTwo
  <1>12. (ReadRegistered \/ ReadRequest \/ ReadOther) /\ c = at
           => down[c] # <<>> /\ down'[c] = Tail(down[c]) /\ O' = O
    <2>1. (ReadRegistered \/ ReadRequest \/ ReadOther) => UNCHANGED vars
      BY DEF ReadRegistered, ReadRequest, ReadOther
    <2>2. (ReadRegistered \/ ReadRequest \/ ReadOther) /\ c = at
            => down[c] # <<>> /\ down'[c] = Tail(down[c])
      BY DEF ReadRegistered, ReadRequest, ReadOther, Arrived, Consumed, BridgeInv, BridgeTypeOK
    <2>3. QED
      BY <1>5, <2>1, <2>2 DEF vars, socketVars
  <1>13. ReadRequest /\ c = at /\ Head(down[at]) = AskFrame(r)
           => Asking(r, c)' + 1 = Asking(r, c)
    <2> SUFFICES ASSUME ReadRequest, c = at, Head(down[at]) = AskFrame(r)
                 PROVE  Asking(r, c)' + 1 = Asking(r, c)
      OBVIOUS
    <2>1. D' + 1 = D /\ O' = O
      BY <1>8, <1>12
    <2>2. QED
      BY <1>1, <1>2, <1>4, <2>1, OneLessInTwo
  <1>14. \/ Asking(r, c)' <= Asking(r, c)
         \/ /\ Complete(r, Self, Offering) /\ c = link'[r] /\ UNCHANGED <<bridgeVars, wireVars>>
            /\ Asking(r, c)' <= Asking(r, c) + 1
    <2>0. O <= O /\ D <= D
      BY <1>1
    <2>1. CASE outbound'[c] = outbound[c] /\ down'[c] = down[c]
      BY <1>5, <1>11, <2>0, <2>1
    <2>2. ASSUME NEW f \in Frames, f \notin K, outbound'[c] = Append(outbound[c], f),
                 down'[c] = down[c]
          PROVE  Asking(r, c)' <= Asking(r, c)
      BY <1>5, <1>9, <1>11, <2>0, <2>2
    <2>3. \A t \in {"welcome", "registered", "deleted", "error"}, q \in Requests \cup {None} :
            Frame(t, q) \in Frames \ K
      BY DEF Frame, Frames, AskFrame
    <2>4. CASE GatewayReads(c)
      <3>1. down' = down
        BY <2>4, HandleCases
      <3>2. CASE outbound'[c] = <<Frame("welcome", None)>>
        <4>1. O' = 0
          BY <2>3, <3>2, CountAlone DEF O
        <4>2. O' <= O
          BY <1>1, <4>1
        <4>3. QED
          BY <1>5, <1>11, <2>0, <3>1, <4>2
      <3>3. \/ outbound'[c] = <<Frame("welcome", None)>> \/ outbound'[c] = outbound[c]
            \/ \E q \in Requests : outbound'[c] = Append(outbound[c], Frame("error", q))
        BY <2>4, HandleCases
      <3>4. QED
        BY <2>1, <2>2, <2>3, <3>1, <3>2, <3>3
    <2>5. CASE GatewayWrites(c)
      <3>1. outbound[c] # <<>> /\ outbound'[c] = Tail(outbound[c])
        BY <2>5 DEF GatewayWrites, WriteFrame, TypeOK
      <3>2. Head(outbound[c]) \in Frames
        BY <1>1, <3>1
      <3>3. down'[c] \in {down[c], Append(down[c], Head(outbound[c]))}
        BY <2>5 DEF GatewayWrites, BridgeInv, BridgeTypeOK
      <3>4. CASE Head(outbound[c]) \in K
        <4>1. O' + 1 = O /\ (D' = D \/ D' = D + 1)
          BY <1>5, <1>7, <1>10, <3>1, <3>2, <3>3, <3>4
        <4>2. QED
          BY <1>1, <1>2, <1>4, <4>1, OnePassesInTwo
      <3>5. CASE Head(outbound[c]) \notin K
        <4>1. O' <= O /\ D' = D
          BY <1>5, <1>7, <1>10, <3>1, <3>2, <3>3, <3>5
        <4>2. QED
          BY <1>11, <2>0, <4>1
      <3>6. QED
        BY <3>4, <3>5
    <2>6. CASE GatewayWriterFails(c)
      <3>1. outbound[c] # <<>> /\ outbound'[c] = Tail(outbound[c]) /\ down' = down
        BY <2>6 DEF GatewayWriterFails, WriterFails, TypeOK, wireVars
      <3>2. QED
        BY <1>5, <1>7, <1>11, <2>0, <3>1
    <2>7. CASE GatewayHears(c) \/ GatewayFaults(c)
      <3>1. outbound'[c] = <<>> /\ down' = down
        BY <2>7 DEF GatewayHears, GatewayFaults, Disconnect, HandlerFault, Teardown, TypeOK
      <3>2. O' <= O
        BY <1>1, <1>6, <3>1
      <3>3. QED
        BY <1>5, <1>11, <2>0, <3>1, <3>2
    <2>8. CASE GatewayFinishes(c)
      <3>1. down' = down
        BY <2>8, FinishCases DEF wireVars
      <3>2. \E t \in {"registered", "deleted", "error"} : outbound'[c] = Append(outbound[c], Frame(t, None))
        BY <2>8, FinishCases
      <3>3. QED
        BY <2>2, <2>3, <3>1, <3>2
    <2>9. ASSUME NEW q \in Requests, Complete(q, Self, Offering), UNCHANGED <<bridgeVars, wireVars>>
          PROVE  \/ Asking(r, c)' <= Asking(r, c)
                 \/ /\ Complete(r, Self, Offering) /\ c = link'[r] /\ UNCHANGED <<bridgeVars, wireVars>>
                    /\ Asking(r, c)' <= Asking(r, c) + 1
      <3>1. down' = down
        BY <2>9 DEF wireVars
      <3>2. /\ outbound' = [outbound EXCEPT ![attached[Self]] = Append(@, AskFrame(q))]
            /\ link' = [link EXCEPT ![q] = attached[Self]] /\ attached[Self] \in Connections
        BY <2>9, BridgeAssumption DEF Complete, Post, TypeOK, AskFrame
      <3>3. CASE attached[Self] # c
        <4>1. outbound'[c] = outbound[c]
          BY <3>2, <3>3
        <4>2. QED
          BY <2>1, <3>1, <4>1
      <3>4. CASE attached[Self] = c /\ q = r
        <4>1. outbound'[c] = Append(outbound[c], AskFrame(r)) /\ link'[r] = c
          BY <3>2, <3>4 DEF TypeOK
        <4>2. O' = O + 1 /\ D' = D
          BY <1>1, <1>5, <1>9, <3>1, <4>1
        <4>3. Asking(r, c)' <= Asking(r, c) + 1
          BY <1>1, <1>2, <1>4, <4>2, OneMoreInTwo
        <4>4. QED
          BY <2>9, <3>4, <4>1, <4>3
      <3>5. CASE attached[Self] = c /\ q # r
        <4>1. outbound'[c] = Append(outbound[c], AskFrame(q))
          BY <3>2, <3>5 DEF TypeOK
        <4>2. AskFrame(q) \in Frames /\ AskFrame(q) \notin K
          BY <3>5, AskingType DEF AskFrame, Frame
        <4>3. QED
          BY <2>2, <3>1, <4>1, <4>2
      <3>6. QED
        BY <3>3, <3>4, <3>5
    <2>10. CASE Connect
      <3>1. UNCHANGED <<outbound, down>>
        BY <2>10 DEF Connect, Accept
      <3>2. QED
        BY <2>1, <3>1
    <2>11. CASE ReadWelcome /\ c = at
      <3>1. down[c] # <<>> /\ down'[c] = Tail(down[c]) /\ UNCHANGED vars
        BY <2>11 DEF ReadWelcome, Arrived, Consumed, BridgeInv, BridgeTypeOK
      <3>2. outbound' = outbound
        BY <3>1 DEF vars, socketVars
      <3>3. QED
        BY <1>5, <1>8, <1>11, <2>0, <3>1, <3>2
    <2>12. CASE BridgeWrites
      <3>1. UNCHANGED <<outbound, down>>
        BY <2>12 DEF BridgeWrites, vars, socketVars
      <3>2. QED
        BY <2>1, <3>1
    <2>13. CASE (ReadRegistered \/ ReadRequest \/ ReadOther) /\ c = at
      BY <1>8, <1>11, <1>12, <2>0, <2>13
    <2>14. CASE down'[c] = <<>> /\ UNCHANGED vars
      <3>1. outbound' = outbound
        BY <2>14 DEF vars, socketVars
      <3>2. D' <= D
        BY <1>1, <1>6, <2>14
      <3>3. QED
        BY <1>5, <1>11, <2>0, <3>1, <3>2
    <2>15. QED
      BY <2>1, <2>4, <2>5, <2>6, <2>7, <2>8, <2>9, <2>10, <2>11, <2>12, <2>13, <2>14, TalkCases
  <1>15. Asking(r, c)' \in Nat
    BY <1>2, <1>4, SumOfTwo
  <1>16. QED
    BY <1>13, <1>14, <1>15

LEMMA AskedHere ==
  ASSUME TypeOK, BridgeInv, NEW r \in Requests, at \in Connections, down[at] # <<>>,
         Head(down[at]).type = "completionRequest", Head(down[at]).request = r
  PROVE  Asking(r, at) # 0 /\ Head(down[at]) = AskFrame(r)
  <1>1. down[at] \in Seq(Frames)
    BY AskingType
  <1>2. Head(down[at]) \in Frames /\ Head(down[at]) \in In(down[at])
    BY <1>1, InTail
  <1>3. Head(down[at]) = AskFrame(r)
    BY <1>2 DEF Frames, AskFrame, Frame
  <1>4. Count(down[at], {AskFrame(r)}) # 0
    BY <1>1, <1>2, <1>3, CountNat
  <1>5. QED
    BY <1>3, <1>4, AskingType, TwoOfNothing DEF Asking

LEMMA AskedOnceNext ==
  ASSUME TypeOK, Binding, BridgeInv, AskedOnce, Begun, BridgeNext
  PROVE  AskedOnce'
  <1> SUFFICES ASSUME NEW r \in Requests, NEW c \in Connections
               PROVE  /\ Asking(r, c)' <= 1
                      /\ Asking(r, c)' # 0 => link'[r] = c /\ calls'[r] = "none"
    BY DEF AskedOnce
  <1>1. Asking(r, c) \in Nat /\ Asking(r, c)' \in Nat
    BY AskingType, AskSteps
  <1>2. /\ Asking(r, c) <= 1
        /\ Asking(r, c) # 0 => link[r] = c /\ calls[r] = "none"
    BY DEF AskedOnce
  <1>3. [Next]_vars
    BY RelayStep DEF BridgeInv
  <1>4. CASE Asking(r, c)' <= Asking(r, c)
    <2>1. Asking(r, c)' <= 1
      BY <1>1, <1>2, <1>4
    <2>2. ASSUME Asking(r, c)' # 0 PROVE link'[r] = c /\ calls'[r] = "none"
      <3>1. Asking(r, c) # 0
        BY <1>1, <1>4, <2>2
      <3>2. link[r] = c /\ calls[r] = "none"
        BY <1>2, <3>1
      <3>3. link'[r] = c
        BY <1>3, <3>2, LinkKept, ConstantsAssumption
      <3>4. ASSUME ReadRequest, Head(down[at]).request = r PROVE FALSE
        <4>1. /\ at \in Connections /\ down[at] # <<>>
              /\ Head(down[at]).type = "completionRequest"
          BY <3>4 DEF ReadRequest, Arrived, BridgeInv, BridgeTypeOK
        <4>2. Asking(r, at) # 0 /\ Head(down[at]) = AskFrame(r)
          BY <3>4, <4>1, AskedHere
        <4>3. c = at
          BY <3>2, <4>1, <4>2 DEF AskedOnce
        <4>4. Asking(r, c)' + 1 = Asking(r, c)
          BY <3>4, <4>2, <4>3, AskSteps
        <4>5. QED
          BY <1>1, <1>2, <2>2, <4>4
      <3>5. calls'[r] = "none"
        BY <3>2, <3>4, CallSteps DEF LlmEnds
      <3>6. QED
        BY <3>3, <3>5
    <2>3. QED
      BY <2>1, <2>2
  <1>5. CASE /\ Complete(r, Self, Offering) /\ c = link'[r] /\ UNCHANGED <<bridgeVars, wireVars>>
             /\ Asking(r, c)' <= Asking(r, c) + 1
    <2>1. link[r] = None /\ calls' = calls
      BY <1>5 DEF Complete, Binding, Placed, Asked, bridgeVars
    <2>2. Asking(r, c) = 0
      BY <1>2, <2>1, ConstantsAssumption
    <2>3. calls[r] = "none"
      BY <2>1 DEF Begun
    <2>4. QED
      BY <1>1, <1>5, <2>1, <2>2, <2>3
  <1>6. QED
    BY <1>4, <1>5, AskSteps

LEMMA BegunNext ==
  ASSUME TypeOK, Binding, BridgeInv, AskedOnce, Begun, BridgeNext
  PROVE  Begun'
  <1> SUFFICES ASSUME NEW r \in Requests
               PROVE  /\ calls'[r] # "none" => link'[r] # None /\ (link'[r] = at' => task' = "serving")
                      /\ calls'[r] = "none" => produced'[r] = 0
    BY DEF Begun
  <1>1. [Next]_vars
    BY RelayStep DEF BridgeInv
  <1>2. CASE calls[r] # "none"
    <2>1. link[r] # None /\ link'[r] = link[r] /\ (link[r] = at => task = "serving")
      BY <1>1, <1>2, LinkKept DEF Begun
    <2>2. CASE Connect
      <3>1. phase[at'] = "idle"
        BY <2>2 DEF Connect
      <3>2. Asked(r) => phase[link[r]] # "idle"
        BY DEF Binding, Placed
      <3>3. link'[r] # at'
        BY <2>1, <3>1, <3>2 DEF Binding, Placed
      <3>4. QED
        BY <1>2, <2>1, <2>2, <3>3, CallSteps DEF Connect, ReadRequest, LlmEnds
    <2>3. CASE ~Connect
      <3>1. link'[r] = at' => task' = "serving"
        BY <2>1, <2>3, TaskCases DEF ReadWelcome, ReadRegistered
      <3>2. calls'[r] # "none"
        BY <1>2, CallSteps
      <3>3. QED
        BY <2>1, <3>1, <3>2
    <2>4. QED
      BY <2>2, <2>3
  <1>3. CASE calls[r] = "none"
    <2>1. produced[r] = 0
      BY <1>3 DEF Begun
    <2>2. CASE calls'[r] = calls[r] /\ produced'[r] = produced[r]
      BY <1>3, <2>1, <2>2
    <2>3. CASE ReadRequest /\ Head(down[at]).request = r
      <3>1. /\ at \in Connections /\ down[at] # <<>> /\ at' = at /\ task' = "serving"
            /\ Head(down[at]).type = "completionRequest" /\ UNCHANGED vars
        BY <2>3 DEF ReadRequest, Arrived, BridgeInv, BridgeTypeOK
      <3>2. Asking(r, at) # 0
        BY <2>3, <3>1, AskedHere
      <3>3. link[r] = at /\ link' = link
        BY <3>1, <3>2 DEF AskedOnce, vars, streamVars
      <3>4. calls'[r] = "working"
        BY <2>3 DEF ReadRequest, BridgeInv, BridgeTypeOK
      <3>5. QED
        BY <3>1, <3>3, <3>4, ConstantsAssumption
    <2>4. QED
      BY <1>3, <2>2, <2>3, CallSteps DEF LlmChunk, LlmEnds
  <1>4. QED
    BY <1>2, <1>3

-----------------------------------------------------------------------------
Ended == {"whole", "broke", "refused"}

\* A step that moves nothing of the answer to r, seen from connection c.
Keeps(r, c) ==
  /\ Alike(queue, queue', r) /\ Alike(up[c], up'[c], r)
  /\ produced'[r] = produced[r]
  /\ calls'[r] = calls[r] \/ {calls[r], calls'[r]} \cap Ended = {}
  /\ r \in table'[c] => said'[r] = said[r] /\ (r \in table[c] \/ Complete(r, Self, Offering))
  /\ at' = c /\ wire'[c] = "up" => Connect \/ (at = c /\ wire[c] = "up")

Leaves(r) ==
  /\ at' = None /\ queue' = <<>> /\ UNCHANGED <<vars, up, produced>>
  /\ calls'[r] = calls[r] \/ (calls[r] = "working" /\ calls'[r] = "cancelled")

LEMMA AnswersSpoken ==
  ASSUME NEW r \in Requests
  PROVE  /\ Answers(r) \subseteq Spoken
         /\ \A f \in Spoken : f \in Answers(r) <=> f.type \in AnswerKinds /\ f.request = r
         /\ {Hello, Register, DeleteModel} \cap Answers(r) = {}
         /\ \A q \in Requests, kind \in AnswerKinds : q # r => Says(kind, q) \notin Answers(r)
         /\ Done(r) \in Answers(r) /\ \A f \in Answers(r) : f = Says(f.type, r)
  <1>1. Answers(r) \subseteq Spoken
    BY SpokenFrames DEF Answers
  <1>2. \A f \in Spoken : f \in Answers(r) <=> f.type \in AnswerKinds /\ f.request = r
    BY DEF Answers, Spoken, Hello, Says, AnswerKinds
  <1>3. {Hello, Register, DeleteModel} \cap Answers(r) = {}
    BY DEF Answers, Hello, Register, DeleteModel, Says, AnswerKinds
  <1>4. \A q \in Requests, kind \in AnswerKinds : q # r => Says(kind, q) \notin Answers(r)
    BY DEF Answers, Says
  <1>5. Done(r) \in Answers(r)
    BY DEF Answers, Done, AnswerKinds
  <1>6. \A f \in Answers(r) : f = Says(f.type, r)
    BY DEF Answers, Says
  <1>7. QED
    BY <1>1, <1>2, <1>3, <1>4, <1>5, <1>6

LEMMA KeepsCompletion ==
  ASSUME TypeOK, BridgeInv, NEW r \in Requests, NEW c \in Connections, NEW q \in Requests,
         CompletionStep(q)
  PROVE  Keeps(r, c)
  <1>1. UNCHANGED <<bridgeVars, wireVars>>
    BY DEF CompletionStep
  <1>2. /\ Alike(queue, queue', r) /\ Alike(up[c], up'[c], r) /\ produced' = produced
        /\ calls' = calls /\ at' = at /\ wire' = wire
    BY <1>1, AlikeItself DEF bridgeVars, wireVars
  <1>3. CASE Complete(q, Self, Offering)
    <2>1. /\ said' = said /\ attached[Self] \in Connections
          /\ table' = [table EXCEPT ![attached[Self]] = @ \cup {q}]
      BY <1>3, BridgeAssumption DEF Complete, TypeOK
    <2>2. r \in table'[c] => r \in table[c] \/ q = r
      BY <2>1 DEF TypeOK
    <2>3. QED
      BY <1>2, <1>3, <2>1, <2>2 DEF Keeps
  <1>4. CASE UNCHANGED <<said, table>>
    BY <1>2, <1>4 DEF Keeps
  <1>5. CASE Take(q) \/ GapTimeout(q)
    <2>1. said' = said /\ (table' = table \/ Pop(q))
      BY <1>5 DEF Take, TakeChunk, End, GapTimeout
    <2>2. r \in table'[c] => r \in table[c]
      BY <2>1 DEF Pop, TypeOK
    <2>3. QED
      BY <1>2, <2>1, <2>2 DEF Keeps
  <1>6. QED
    BY <1>3, <1>4, <1>5 DEF CompletionStep, AskBridge, Unavailable, Start, Resume

LEMMA KeepsGateway ==
  ASSUME TypeOK, Binding, BridgeInv, NEW r \in Requests, NEW c \in Connections,
         NEW d \in Connections,
         \/ GatewayReads(d) \/ GatewayWrites(d) \/ GatewayWriterFails(d)
         \/ GatewayHears(d) \/ GatewayFaults(d) \/ GatewayFinishes(d)
  PROVE  \/ Keeps(r, c)
         \/ d = c /\ GatewayReads(c) /\ Head(up[c]) \in Answers(r)
         \/ d = c /\ (GatewayHears(c) \/ GatewayFaults(c))
  <1>1. UNCHANGED bridgeVars /\ (wire'[c] = "up" => wire[c] = "up")
    BY DEF GatewayReads, GatewayWrites, GatewayWriterFails, GatewayHears, GatewayFaults,
           GatewayFinishes, wireVars, Handle, BridgeInv, BridgeTypeOK
  <1>2. /\ Alike(queue, queue', r) /\ produced' = produced /\ calls' = calls
        /\ at' = c /\ wire'[c] = "up" => at = c /\ wire[c] = "up"
    BY <1>1, AlikeItself DEF bridgeVars
  <1>3. r \in table[d] /\ r \in table[c] => c = d
    BY DEF Binding, TableIsTheBinding
  <1>4. CASE GatewayReads(d)
    <2>1. up[d] # <<>> /\ up[d] \in Seq(Spoken) /\ up'[d] = Tail(up[d]) /\ Head(up[d]) \in Spoken
      BY <1>4, HandleCases
    <2>2. up' = [up EXCEPT ![d] = Tail(@)]
      BY <1>4 DEF GatewayReads
    <2>3. d # c \/ Head(up[c]) \notin Answers(r) => Alike(up[c], up'[c], r)
      BY <2>1, <2>2, AlikeItself, AlikeTail DEF BridgeInv, BridgeTypeOK
    <2>4. /\ table' = table
          /\ said'[r] = said[r] \/ (r \in table[d] /\ Head(up[d]).type \in AnswerKinds /\ Head(up[d]).request = r)
      <3>1. CASE \/ Attach(d) \/ HandshakeFails(d)
                 \/ AskCore(d, "register", {Offering}) \/ AskCore(d, "delete", {Offering})
        BY <3>1 DEF Attach, HandshakeFails, AskCore
      <3>2. CASE Head(up[d]).type \in AnswerKinds /\ ReceiveAnswer(d, Head(up[d]).request, Head(up[d]).type)
        <4>1. /\ table' = table
              /\ \/ said' = said
                 \/ /\ Head(up[d]).request \in table[d]
                    /\ said' = [said EXCEPT ![Head(up[d]).request] =
                                  Append(@, Item(Head(up[d]).type, d))]
          BY <3>2 DEF ReceiveAnswer, InFlight
        <4>2. QED
          BY <3>2, <4>1 DEF TypeOK
      <3>3. QED
        BY <1>4, <3>1, <3>2 DEF GatewayReads, Handle
    <2>5. CASE d = c /\ Head(up[c]) \in Answers(r)
      BY <1>4, <2>5
    <2>6. CASE d # c \/ Head(up[c]) \notin Answers(r)
      <3>1. r \in table'[c] => said'[r] = said[r] /\ r \in table[c]
        BY <1>3, <2>1, <2>4, <2>6, AnswersSpoken
      <3>2. QED
        BY <1>2, <2>3, <2>6, <3>1 DEF Keeps
    <2>7. QED
      BY <2>5, <2>6
  <1>5. CASE GatewayWrites(d) \/ GatewayWriterFails(d) \/ GatewayFinishes(d)
    <2>1. up' = up /\ said' = said /\ table' = table
      BY <1>5 DEF GatewayWrites, GatewayWriterFails, GatewayFinishes, WriteFrame, WriterFails,
                  FinishOperation, wireVars
    <2>2. QED
      BY <1>2, <2>1, AlikeItself DEF Keeps
  <1>6. CASE d # c /\ (GatewayHears(d) \/ GatewayFaults(d))
    <2>1. Teardown(d) /\ up' = [up EXCEPT ![d] = <<>>]
      BY <1>6 DEF GatewayHears, GatewayFaults, Disconnect, HandlerFault
    <2>2. /\ up'[c] = up[c] /\ table'[c] = table[c]
          /\ r \notin table[d] => said'[r] = said[r]
      BY <1>6, <2>1 DEF Teardown, FailPending, TypeOK, BridgeInv, BridgeTypeOK
    <2>3. QED
      BY <1>2, <1>3, <1>6, <2>2, AlikeItself DEF Keeps
  <1>7. QED
    BY <1>4, <1>5, <1>6

LEMMA KeepsBridge ==
  ASSUME TypeOK, BridgeInv, NEW r \in Requests, NEW c \in Connections, UNCHANGED vars,
         Alike(queue, queue', r), Alike(up[c], up'[c], r), at' = at, wire'[c] = "up" => wire[c] = "up",
         produced'[r] = produced[r],
         calls'[r] = calls[r] \/ {calls[r], calls'[r]} \cap Ended = {}
  PROVE  Keeps(r, c)
  BY DEF Keeps, vars

(* Where a step leaves the answer to a completion. *)
LEMMA FlowCases ==
  ASSUME TypeOK, Binding, BridgeInv, Talk, AskedOnce, BridgeNext,
         NEW r \in Requests, NEW c \in Connections
  PROVE  \/ Keeps(r, c)
         \/ Leaves(r)
         \/ (BridgeWrites \/ BridgeWriterFails) /\ Head(queue) \in Answers(r)
         \/ LlmChunk(r) \/ LlmEnds(r)
         \/ GatewayReads(c) /\ Head(up[c]) \in Answers(r)
         \/ GatewayHears(c) \/ GatewayFaults(c)
  <1> USE DEF BridgeInv, BridgeTypeOK
  <1>1. Alike(queue, queue, r) /\ Alike(up[c], up[c], r)
    BY AlikeItself
  <1>2. ASSUME NEW f \in Spoken, f \notin Answers(r)
        PROVE  Alike(queue, Append(queue, f), r) /\ Alike(up[c], Append(up[c], f), r)
    BY <1>2, AlikeAppend
  <1>3. CASE Enter \/ Yield
    BY <1>1, <1>3, KeepsBridge DEF Enter, Yield, wireVars
  <1>4. CASE LeaveBlock \/ Withdrawn \/ WithdrawalTimeout
    <2>1. UNCHANGED <<vars, produced, up>> /\ (AskWithdrawal \/ CancelTask)
      BY <1>4 DEF LeaveBlock, Withdrawn, WithdrawalTimeout
    <2>2. CASE AskWithdrawal
      <3>1. queue' = Append(queue, DeleteModel) /\ UNCHANGED <<at, wire, calls>>
        BY <2>2 DEF AskWithdrawal, DeleteModel
      <3>2. DeleteModel \in Spoken /\ DeleteModel \notin Answers(r)
        BY SpokenWords, AnswersSpoken
      <3>3. QED
        BY <1>1, <1>2, <2>1, <3>1, <3>2, KeepsBridge
    <2>3. CASE CancelTask
      <3>1. CASE Unwind
        BY <2>1, <3>1, UnwindCalls DEF Leaves
      <3>2. CASE task # "serving" /\ at' = None /\ UNCHANGED <<queue, calls>>
        <4>1. queue = <<>>
          BY <3>2 DEF OneTask
        <4>2. QED
          BY <2>1, <3>2, <4>1 DEF Leaves
      <3>3. QED
        BY <2>3, <3>1, <3>2 DEF CancelTask
    <2>4. QED
      BY <2>1, <2>2, <2>3
  <1>5. CASE LinkLost
    BY <1>5, UnwindCalls DEF LinkLost, Leaves
  <1>6. CASE HandshakeEnds
    <2>1. queue = <<>>
      BY <1>6 DEF HandshakeEnds, OneTask
    <2>2. QED
      BY <1>6, <2>1 DEF HandshakeEnds, Leaves
  <1>7. CASE Connect
    <2>1. PICK d \in Connections : /\ Accept(d) /\ at' = d /\ up' = [up EXCEPT ![d] = <<Hello>>]
                                   /\ wire' = [wire EXCEPT ![d] = "up"]
      BY <1>7 DEF Connect
    <2>2. UNCHANGED <<queue, produced, calls, said, table>>
      BY <1>7, <2>1 DEF Connect, Accept
    <2>3. Alike(up[c], up'[c], r)
      <3>1. CASE c = d
        <4>1. In(up[c]) \subseteq {Hello}
          BY <2>1, <3>1 DEF Accept, Before, Talk, Fresh
        <4>2. In(<<Hello>>) = {Hello} /\ <<Hello>> \in Seq(Spoken)
          BY SpokenFrames DEF In
        <4>3. In(up[c]) \cap Answers(r) = {} /\ In(<<Hello>>) \cap Answers(r) = {}
          BY <4>1, <4>2, AnswersSpoken
        <4>4. Count(up[c], Answers(r)) = 0 /\ Count(<<Hello>>, Answers(r)) = 0
          BY <4>2, <4>3, CountNat
        <4>5. up'[c] = <<Hello>>
          BY <2>1, <3>1
        <4>6. QED
          BY <4>3, <4>4, <4>5, LastOfNone DEF Alike
      <3>2. CASE c # d
        BY <1>1, <2>1, <3>2
      <3>3. QED
        BY <3>1, <3>2
    <2>4. QED
      BY <1>1, <1>7, <2>1, <2>2, <2>3 DEF Keeps
  <1>8. CASE ReadWelcome
    <2>1. up'[c] \in {up[c], Append(up[c], Register)}
      BY <1>8 DEF ReadWelcome, Send, Register
    <2>2. Alike(up[c], up'[c], r)
      <3>1. Register \in Spoken /\ Register \notin Answers(r)
        BY SpokenWords, AnswersSpoken
      <3>2. QED
        BY <1>1, <1>2, <2>1, <3>1
    <2>3. QED
      BY <1>1, <1>8, <2>2, KeepsBridge DEF ReadWelcome
  <1>9. CASE ReadRegistered
    <2>1. queue = <<>>
      BY <1>9 DEF ReadRegistered, OneTask
    <2>2. QED
      BY <1>1, <1>9, <2>1, KeepsBridge DEF ReadRegistered
  <1>10. CASE ReadRequest
    <2>1. UNCHANGED <<vars, queue, at, up, wire, produced>>
      BY <1>10 DEF ReadRequest
    <2>2. calls'[r] = calls[r] \/ (calls[r] = "none" /\ calls'[r] = "working")
      <3>1. CASE Head(down[at]).request = r
        <4>1. /\ at \in Connections /\ down[at] # <<>>
              /\ Head(down[at]).type = "completionRequest"
          BY <1>10 DEF ReadRequest, Arrived
        <4>2. Asking(r, at) # 0
          BY <3>1, <4>1, AskedHere
        <4>3. calls[r] = "none"
          BY <4>1, <4>2 DEF AskedOnce
        <4>4. QED
          BY <1>10, <3>1, <4>3 DEF ReadRequest
      <3>2. CASE Head(down[at]).request # r
        BY <1>10, <3>2 DEF ReadRequest
      <3>3. QED
        BY <3>1, <3>2
    <2>3. QED
      BY <1>1, <2>1, <2>2, KeepsBridge DEF Ended
  <1>11. CASE ReadOther
    BY <1>1, <1>11, KeepsBridge DEF ReadOther
  <1>12. CASE BridgeWrites /\ Head(queue) \notin Answers(r)
    <2>1. queue # <<>> /\ Head(queue) \in Spoken /\ queue' = Tail(queue)
      BY <1>12 DEF BridgeWrites
    <2>2. up'[c] \in {up[c], Append(up[c], Head(queue))}
      BY <1>12 DEF BridgeWrites, Send
    <2>3. Alike(up[c], up'[c], r) /\ Alike(queue, queue', r)
      BY <1>1, <1>2, <1>12, <2>1, <2>2, AlikeTail
    <2>4. QED
      BY <1>12, <2>3, KeepsBridge DEF BridgeWrites
  <1>13. CASE BridgeWriterFails /\ Head(queue) \notin Answers(r)
    <2>1. Alike(queue, queue', r)
      BY <1>13, AlikeTail DEF BridgeWriterFails
    <2>2. QED
      BY <1>1, <1>13, <2>1, KeepsBridge DEF BridgeWriterFails, wireVars
  <1>14. ASSUME NEW q \in Requests, q # r, LlmChunk(q) \/ LlmEnds(q) PROVE Keeps(r, c)
    <2>1. PICK kind \in AnswerKinds : Answer(q, kind)
      BY <1>14 DEF LlmChunk, LlmEnds, AnswerKinds, Outcome
    <2>2. queue' \in {queue, Append(queue, Says(kind, q))}
      BY <2>1 DEF Answer
    <2>3. Alike(queue, queue', r)
      <3>1. Says(kind, q) \in Spoken /\ Says(kind, q) \notin Answers(r)
        BY <1>14, AnswersSpoken, SpokenFrames
      <3>2. QED
        BY <1>1, <1>2, <2>2, <3>1
    <2>4. calls'[r] = calls[r] /\ produced'[r] = produced[r]
      BY <1>14 DEF LlmChunk, LlmEnds
    <2>5. UNCHANGED <<vars, at, wireVars>>
      BY <1>14 DEF LlmChunk, LlmEnds
    <2>6. QED
      BY <1>1, <2>3, <2>4, <2>5, KeepsBridge DEF wireVars
  <1>15. ASSUME NEW d \in Connections, Break(d) PROVE Keeps(r, c)
    BY <1>1, <1>15, KeepsBridge DEF Break, bridgeVars
  <1>16. QED
    BY <1>3, <1>4, <1>5, <1>6, <1>7, <1>8, <1>9, <1>10, <1>11, <1>12, <1>13, <1>14, <1>15,
       KeepsCompletion, KeepsGateway, BridgeCases

-----------------------------------------------------------------------------
(* The closing frame, in the bridge's queue, on a wire, or said at the     *)
(* gateway: it is there only if the LLM call ended by itself, and nothing  *)
(* of the answer comes after it.                                           *)
DoneIn(r) ==
  \/ Done(r) \in In(queue)
  \/ \E c \in Connections : Done(r) \in In(up[c])
  \/ \E i \in 1..Len(said[r]) : said[r][i].kind = "done"

DoneIsWhole == \A r \in Requests : DoneIn(r) => calls[r] = "whole"

NothingAfterDone ==
  \A r \in Requests, c \in Connections :
    /\ DoneLast(queue, r) /\ DoneLast(up[c], r)
    /\ Done(r) \in In(up[c]) => In(queue) \cap Answers(r) = {}

(* No frame of an answer is lost or doubled as long as its entry is in the *)
(* table: those said, on the wire and in the queue are what the LLM gave,  *)
(* and the frame that ends it. With the end on the wire, or said, the      *)
(* count is whole also when the connection is not the bridge's any more.   *)
Ending(r) == IF calls[r] \in Ended THEN 1 ELSE 0

Tally ==
  \A r \in Requests :
    at # None /\ link[r] = at /\ wire[at] = "up" /\ r \in table[at] =>
      Len(said[r]) + Count(up[at], Answers(r)) + Count(queue, Answers(r)) = produced[r] + Ending(r)

UpTally ==
  \A r \in Requests, c \in Connections :
    Done(r) \in In(up[c]) /\ r \in table[c] =>
      Len(said[r]) + Count(up[c], Answers(r)) = produced[r] + 1

SaidTally ==
  \A r \in Requests : \A i \in 1..Len(said[r]) :
    said[r][i].kind = "done" => i = produced[r] + 1

(* The inductive invariant that NothingCutShort follows from.              *)
Delivery ==
  /\ TypeOK /\ Binding /\ BridgeInv /\ Talk /\ Routed /\ AskedOnce /\ Begun
  /\ DoneIsWhole /\ NothingAfterDone /\ Tally /\ UpTally /\ SaidTally

(* A call that ended by itself stays as it ended. *)
LEMMA WholeStays ==
  ASSUME Delivery, BridgeNext, NEW r \in Requests, calls[r] = "whole"
  PROVE  calls'[r] = "whole" /\ produced'[r] = produced[r]
  <1>1. ASSUME ReadRequest, Head(down[at]).request = r PROVE FALSE
    <2>1. /\ at \in Connections /\ down[at] # <<>>
          /\ Head(down[at]).type = "completionRequest"
      BY <1>1 DEF ReadRequest, Arrived, Delivery, BridgeInv, BridgeTypeOK
    <2>2. Asking(r, at) # 0
      BY <1>1, <2>1, AskedHere DEF Delivery
    <2>3. QED
      BY <2>1, <2>2 DEF Delivery, AskedOnce
  <1>2. QED
    BY <1>1, CallSteps DEF Delivery, LlmChunk, LlmEnds

LEMMA Heard ==
  ASSUME TypeOK, BridgeInv, NEW r \in Requests, NEW c \in Connections,
         GatewayReads(c), Head(up[c]) \in Answers(r)
  PROVE  /\ up[c] # <<>> /\ up[c] \in Seq(Spoken) /\ up'[c] = Tail(up[c])
         /\ UNCHANGED bridgeVars /\ table' = table /\ link' = link
         /\ wire'[c] = "up" => wire[c] = "up"
         /\ IF r \in table[c] THEN said'[r] = Append(said[r], Item(Head(up[c]).type, c))
                              ELSE said'[r] = said[r]
  <1>1. /\ up[c] # <<>> /\ up[c] \in Seq(Spoken) /\ up'[c] = Tail(up[c])
        /\ Head(up[c]) \in Spoken /\ UNCHANGED bridgeVars
    BY HandleCases
  <1>2. /\ Head(up[c]).type \in AnswerKinds /\ Head(up[c]).request = r
        /\ Head(up[c]) \notin {Hello, Register, DeleteModel}
    BY <1>1, AnswersSpoken
  <1>3. ReceiveAnswer(c, r, Head(up[c]).type) /\ UNCHANGED wire
    <2>1. Handle(c, Head(up[c]))
      BY DEF GatewayReads
    <2>2. QED
      BY <1>2, <2>1 DEF Handle, AnswerKinds
  <1>4. table' = table /\ link' = link
    BY <1>3 DEF ReceiveAnswer, streamVars
  <1>5. IF r \in table[c] THEN said'[r] = Append(said[r], Item(Head(up[c]).type, c))
                          ELSE said'[r] = said[r]
    BY <1>3 DEF ReceiveAnswer, InFlight, TypeOK
  <1>6. QED
    BY <1>1, <1>3, <1>4, <1>5

LEMMA SaidSteps ==
  ASSUME TypeOK, BridgeInv, BridgeNext, NEW r \in Requests
  PROVE  \/ said'[r] = said[r]
         \/ \E d \in Connections : said'[r] = Append(said[r], Item("gone", d))
         \/ \E d \in Connections :
              /\ GatewayReads(d) /\ Head(up[d]) \in Answers(r) /\ r \in table[d]
              /\ said'[r] = Append(said[r], Item(Head(up[d]).type, d))
  <1>1. CASE UNCHANGED vars
    BY <1>1 DEF vars
  <1>2. ASSUME NEW q \in Requests, CompletionStep(q) PROVE said' = said
    BY <1>2 DEF CompletionStep, AskBridge, Complete, Unavailable, Start, Take, Resume, GapTimeout
  <1>3. ASSUME NEW d \in Connections, GatewayWrites(d) \/ GatewayWriterFails(d) \/ GatewayFinishes(d)
        PROVE  said' = said
    BY <1>3 DEF GatewayWrites, GatewayWriterFails, GatewayFinishes, WriteFrame, WriterFails,
                FinishOperation
  <1>4. ASSUME NEW d \in Connections, GatewayHears(d) \/ GatewayFaults(d)
        PROVE  said'[r] = said[r] \/ said'[r] = Append(said[r], Item("gone", d))
    BY <1>4 DEF GatewayHears, GatewayFaults, Disconnect, HandlerFault, Teardown, FailPending, TypeOK
  <1>5. ASSUME NEW d \in Connections, GatewayReads(d)
        PROVE  \/ said'[r] = said[r]
               \/ /\ GatewayReads(d) /\ Head(up[d]) \in Answers(r) /\ r \in table[d]
                  /\ said'[r] = Append(said[r], Item(Head(up[d]).type, d))
    <2>1. CASE Head(up[d]) \in Answers(r)
      BY <1>5, <2>1, Heard
    <2>2. CASE Head(up[d]) \notin Answers(r)
      <3>1. Head(up[d]) \in Spoken
        BY <1>5, HandleCases
      <3>2. CASE \/ Attach(d) \/ HandshakeFails(d)
                 \/ AskCore(d, "register", {Offering}) \/ AskCore(d, "delete", {Offering})
        BY <3>2 DEF Attach, HandshakeFails, AskCore
      <3>3. CASE Head(up[d]).type \in AnswerKinds /\ ReceiveAnswer(d, Head(up[d]).request, Head(up[d]).type)
        <4>1. Head(up[d]).request # r
          BY <2>2, <3>1, <3>3, AnswersSpoken
        <4>2. QED
          BY <3>3, <4>1 DEF ReceiveAnswer, TypeOK
      <3>4. QED
        BY <1>5, <3>2, <3>3 DEF GatewayReads, Handle
    <2>3. QED
      BY <2>1, <2>2
  <1>6. CASE Connect
    BY <1>6 DEF Connect, Accept
  <1>7. QED
    BY <1>1, <1>2, <1>3, <1>4, <1>5, <1>6, BridgeCases, BridgeAlone

LEMMA Sent ==
  ASSUME BridgeInv, BridgeWrites, NEW c \in Connections
  PROVE  /\ queue # <<>> /\ queue \in Seq(Spoken) /\ Head(queue) \in Spoken
         /\ Head(queue) \in In(queue) /\ queue' = Tail(queue) /\ In(queue') \subseteq In(queue)
         /\ at \in Connections /\ UNCHANGED <<vars, at, calls, produced, wire>>
         /\ IF c = at /\ wire[c] = "up" THEN up'[c] = Append(up[c], Head(queue)) ELSE up'[c] = up[c]
  <1> USE DEF BridgeInv, BridgeTypeOK
  <1>1. queue # <<>> /\ queue \in Seq(Spoken) /\ Head(queue) \in Spoken /\ queue' = Tail(queue)
    BY DEF BridgeWrites
  <1>2. Head(queue) \in In(queue) /\ In(queue') \subseteq In(queue)
    BY <1>1, InTail
  <1>3. at \in Connections
    BY <1>1 DEF OneTask
  <1>4. IF c = at /\ wire[c] = "up" THEN up'[c] = Append(up[c], Head(queue)) ELSE up'[c] = up[c]
    BY <1>3 DEF BridgeWrites, Send
  <1>5. QED
    BY <1>1, <1>2, <1>3, <1>4 DEF BridgeWrites

LEMMA Given ==
  ASSUME BridgeInv, Begun, NEW r \in Requests, LlmChunk(r) \/ LlmEnds(r)
  PROVE  /\ calls[r] = "working" /\ UNCHANGED <<vars, at, up, wire>>
         /\ queue \in Seq(Spoken)
         /\ \E f \in Spoken :
              /\ f \in Answers(r)
              /\ IF at = link[r] THEN queue' = Append(queue, f) ELSE queue' = queue
              /\ \/ /\ f # Done(r) /\ calls'[r] = calls[r] /\ produced'[r] = produced[r] + 1
                 \/ /\ produced'[r] = produced[r] /\ calls'[r] \in Ended
                    /\ f = Done(r) => calls'[r] = "whole"
  <1> USE DEF BridgeInv, BridgeTypeOK
  <1>1. calls[r] = "working" /\ UNCHANGED <<vars, at, up, wire>>
    BY DEF LlmChunk, LlmEnds, wireVars
  <1>2. link[r] = at => task = "serving"
    BY <1>1 DEF Begun
  <1>3. ASSUME NEW kind \in AnswerKinds, Answer(r, kind)
        PROVE  /\ Says(kind, r) \in Spoken /\ Says(kind, r) \in Answers(r)
               /\ IF at = link[r] THEN queue' = Append(queue, Says(kind, r)) ELSE queue' = queue
    BY <1>2, <1>3, SpokenFrames DEF Answer, Answers
  <1>4. CASE LlmChunk(r)
    <2>1. Answer(r, "chunk") /\ calls'[r] = calls[r] /\ produced'[r] = produced[r] + 1
      BY <1>4 DEF LlmChunk
    <2>2. Says("chunk", r) # Done(r)
      BY DEF Says, Done
    <2>3. QED
      BY <1>1, <1>3, <2>1, <2>2 DEF AnswerKinds
  <1>5. CASE LlmEnds(r)
    <2>1. PICK how \in Ended : calls'[r] = how /\ Answer(r, Outcome[how])
      BY <1>5 DEF LlmEnds, Ended
    <2>2. Outcome[how] \in AnswerKinds /\ (Says(Outcome[how], r) = Done(r) => how = "whole")
      BY DEF Outcome, AnswerKinds, Says, Done, Ended
    <2>3. produced'[r] = produced[r]
      BY <1>5 DEF LlmEnds
    <2>4. QED
      BY <1>1, <1>3, <2>1, <2>2, <2>3
  <1>6. QED
    BY <1>4, <1>5

LEMMA DoneIsWholeNext ==
  ASSUME Delivery, BridgeNext
  PROVE  DoneIsWhole'
  <1> SUFFICES ASSUME NEW r \in Requests, DoneIn(r)' PROVE calls'[r] = "whole"
    BY DEF DoneIsWhole
  <1> USE DEF Delivery
  <1>1. DoneIn(r) => calls'[r] = "whole"
    BY WholeStays DEF DoneIsWhole
  <1>2. ASSUME NEW c \in Connections, Done(r) \in In(queue') \/ Done(r) \in In(up'[c])
        PROVE  DoneIn(r) \/ calls'[r] = "whole"
    <2>0. up[c] \in Seq(Spoken) /\ queue \in Seq(Spoken) /\ Done(r) \in Answers(r)
      BY AnswersSpoken DEF BridgeInv, BridgeTypeOK
    <2>1. CASE Keeps(r, c)
      BY <1>2, <2>0, <2>1 DEF Keeps, Alike, DoneIn
    <2>2. CASE Leaves(r)
      BY <1>2, <2>2, InEmpty DEF Leaves, DoneIn
    <2>3. CASE BridgeWrites
      <3>1. /\ In(queue') \subseteq In(queue) /\ Head(queue) \in In(queue) /\ Head(queue) \in Spoken
            /\ up'[c] \in {up[c], Append(up[c], Head(queue))}
        BY <2>3, Sent
      <3>2. In(up'[c]) \subseteq In(up[c]) \cup {Head(queue)}
        <4>1. In(Append(up[c], Head(queue))) = In(up[c]) \cup {Head(queue)}
          BY ONLY <2>0, <3>1, InAppend
        <4>2. QED
          BY ONLY <3>1, <4>1
      <3>3. QED
        BY <1>2, <3>1, <3>2 DEF DoneIn
    <2>4. CASE BridgeWriterFails
      <3>1. queue # <<>> /\ queue' = Tail(queue) /\ up' = up
        BY <2>4 DEF BridgeWriterFails, wireVars
      <3>2. QED
        BY <1>2, <2>0, <3>1, InTail DEF DoneIn
    <2>5. CASE LlmChunk(r) \/ LlmEnds(r)
      <3>1. PICK f \in Spoken :
              /\ queue' \in {queue, Append(queue, f)} /\ up' = up
              /\ f = Done(r) => calls'[r] = "whole"
        BY <2>5, Given
      <3>2. In(queue') \subseteq In(queue) \cup {f}
        BY <2>0, <3>1, InAppend
      <3>3. QED
        BY <1>2, <3>1, <3>2 DEF DoneIn
    <2>6. CASE GatewayReads(c) /\ Head(up[c]) \in Answers(r)
      <3>1. up[c] # <<>> /\ up'[c] = Tail(up[c]) /\ queue' = queue
        BY <2>6, Heard DEF bridgeVars
      <3>2. QED
        BY <1>2, <2>0, <3>1, InTail DEF DoneIn
    <2>7. CASE GatewayHears(c) \/ GatewayFaults(c)
      <3>1. up'[c] = <<>> /\ queue' = queue
        BY <2>7 DEF GatewayHears, GatewayFaults, bridgeVars, BridgeInv, BridgeTypeOK
      <3>2. QED
        BY <1>2, <3>1, InEmpty DEF DoneIn
    <2>8. QED
      BY <2>1, <2>2, <2>3, <2>4, <2>5, <2>6, <2>7, FlowCases
  <1>3. ASSUME NEW i \in 1..Len(said'[r]), said'[r][i].kind = "done"
        PROVE  DoneIn(r)
    <2>1. said[r] \in Seq(Items)
      BY DEF TypeOK
    <2>2. CASE said'[r] = said[r]
      BY <1>3, <2>2 DEF DoneIn
    <2>3. ASSUME NEW x, said'[r] = Append(said[r], x)
          PROVE  DoneIn(r) \/ x.kind = "done"
      <3>1. i \in 1..Len(said[r]) \/ i = Len(said[r]) + 1
        BY <2>1, <2>3
      <3>2. CASE i \in 1..Len(said[r])
        <4>1. said'[r][i] = said[r][i]
          BY <2>1, <2>3, <3>2
        <4>2. QED
          BY <1>3, <3>2, <4>1 DEF DoneIn
      <3>3. CASE i = Len(said[r]) + 1
        BY <1>3, <2>1, <2>3, <3>3
      <3>4. QED
        BY <3>1, <3>2, <3>3
    <2>4. ASSUME NEW d \in Connections, GatewayReads(d), Head(up[d]) \in Answers(r),
                 said'[r] = Append(said[r], Item(Head(up[d]).type, d))
          PROVE  DoneIn(r)
      <3>1. CASE Head(up[d]).type = "done"
        <4>1. Head(up[d]) = Done(r)
          BY <2>4, <3>1, AnswersSpoken DEF Done
        <4>2. up[d] # <<>> /\ up[d] \in Seq(Spoken)
          BY <2>4, Heard
        <4>3. QED
          BY <4>1, <4>2, InTail DEF DoneIn
      <3>2. QED
        BY <2>3, <2>4, <3>1 DEF Item
    <2>5. ASSUME NEW d \in Connections, said'[r] = Append(said[r], Item("gone", d))
          PROVE  DoneIn(r)
      <3>1. Item("gone", d).kind # "done"
        BY DEF Item
      <3>2. QED
        BY <2>3, <2>5, <3>1
    <2>6. QED
      BY <2>2, <2>4, <2>5, SaidSteps
  <1>4. CASE Done(r) \in In(queue')
    <2>1. CASE Connections # {}
      BY <1>1, <1>2, <1>4, <2>1
    <2>2. CASE Connections = {}
      <3>1. queue' = <<>>
        <4>1. BridgeInv'
          BY BridgeInvNext
        <4>2. QED
          BY <2>2, <4>1 DEF BridgeInv, BridgeTypeOK, OneTask
      <3>2. QED
        BY <1>4, <3>1, InEmpty
    <2>3. QED
      BY <2>1, <2>2
  <1>5. QED
    BY <1>1, <1>2, <1>3, <1>4 DEF DoneIn

LEMMA NothingAfterDoneNext ==
  ASSUME Delivery, BridgeNext
  PROVE  NothingAfterDone'
  <1> SUFFICES ASSUME NEW r \in Requests, NEW c \in Connections
               PROVE  /\ DoneLast(queue', r) /\ DoneLast(up'[c], r)
                      /\ Done(r) \in In(up'[c]) => In(queue') \cap Answers(r) = {}
    BY DEF NothingAfterDone
  <1> USE DEF Delivery
  <1>0. up[c] \in Seq(Spoken) /\ queue \in Seq(Spoken) /\ Done(r) \in Answers(r)
    BY AnswersSpoken DEF BridgeInv, BridgeTypeOK
  <1>1. /\ DoneLast(queue, r) /\ DoneLast(up[c], r)
        /\ Done(r) \in In(up[c]) => In(queue) \cap Answers(r) = {}
    BY DEF NothingAfterDone
  <1>2. DoneLast(<<>>, r)
    BY InEmpty, LastOfNone
  <1>3. CASE Keeps(r, c)
    BY <1>0, <1>1, <1>3 DEF Keeps, Alike
  <1>4. CASE Leaves(r)
    BY <1>1, <1>2, <1>4, InEmpty DEF Leaves
  <1>5. CASE BridgeWrites /\ Head(queue) \in Answers(r)
    <2>1. /\ queue # <<>> /\ Head(queue) \in Spoken /\ Head(queue) \in In(queue)
          /\ queue' = Tail(queue) /\ up'[c] \in {up[c], Append(up[c], Head(queue))}
      BY <1>5, Sent
    <2>2. DoneLast(queue', r) /\ (Head(queue) = Done(r) => In(queue') \cap Answers(r) = {})
      BY <1>0, <1>1, <2>1, LastTail
    <2>3. Done(r) \notin In(up[c])
      BY <1>1, <1>5, <2>1
    <2>4. DoneLast(up'[c], r)
      BY <1>0, <1>1, <2>1, <2>3, LastAppend
    <2>5. In(up'[c]) \subseteq In(up[c]) \cup {Head(queue)}
      BY <1>0, <2>1, InAppend
    <2>6. QED
      BY <2>2, <2>3, <2>4, <2>5
  <1>6. CASE BridgeWriterFails /\ Head(queue) \in Answers(r)
    <2>1. queue # <<>> /\ queue' = Tail(queue) /\ up' = up
      BY <1>6 DEF BridgeWriterFails, wireVars
    <2>2. DoneLast(queue', r) /\ In(queue') \subseteq In(queue)
      BY <1>0, <1>1, <2>1, LastTail, InTail
    <2>3. QED
      BY <1>1, <2>1, <2>2
  <1>7. CASE LlmChunk(r) \/ LlmEnds(r)
    <2>1. PICK f \in Spoken : queue' \in {queue, Append(queue, f)} /\ up' = up /\ calls[r] = "working"
      BY <1>7, Given
    <2>2. Done(r) \notin In(queue) /\ Done(r) \notin In(up[c])
      BY <2>1 DEF DoneIsWhole, DoneIn
    <2>3. DoneLast(queue', r)
      BY <1>0, <1>1, <2>1, <2>2, LastAppend
    <2>4. QED
      BY <1>1, <2>1, <2>2, <2>3
  <1>8. CASE GatewayReads(c) /\ Head(up[c]) \in Answers(r)
    <2>1. up[c] # <<>> /\ up'[c] = Tail(up[c]) /\ queue' = queue
      BY <1>8, Heard DEF bridgeVars
    <2>2. DoneLast(up'[c], r) /\ In(up'[c]) \subseteq In(up[c])
      BY <1>0, <1>1, <2>1, LastTail, InTail
    <2>3. QED
      BY <1>1, <2>1, <2>2
  <1>9. CASE GatewayHears(c) \/ GatewayFaults(c)
    <2>1. up'[c] = <<>> /\ queue' = queue
      BY <1>9 DEF GatewayHears, GatewayFaults, bridgeVars, BridgeInv, BridgeTypeOK
    <2>2. QED
      BY <1>1, <1>2, <2>1, InEmpty
  <1>10. QED
    BY <1>3, <1>4, <1>5, <1>6, <1>7, <1>8, <1>9, FlowCases

LEMMA TallyTypes ==
  ASSUME TypeOK, BridgeInv, NEW r \in Requests, NEW c \in Connections
  PROVE  /\ up[c] \in Seq(Spoken) /\ queue \in Seq(Spoken) /\ said[r] \in Seq(Items)
         /\ Len(said[r]) \in Nat /\ Count(up[c], Answers(r)) \in Nat
         /\ Count(queue, Answers(r)) \in Nat /\ produced[r] \in Nat /\ Ending(r) \in Nat
  <1>1. up[c] \in Seq(Spoken) /\ queue \in Seq(Spoken) /\ said[r] \in Seq(Items)
    BY DEF TypeOK, BridgeInv, BridgeTypeOK
  <1>2. Count(up[c], Answers(r)) \in Nat /\ Count(queue, Answers(r)) \in Nat
    BY <1>1, CountNat
  <1>3. produced[r] \in 0..MaxFrames
    BY DEF BridgeInv, BridgeTypeOK
  <1>4. Ending(r) \in Nat
    BY DEF Ending
  <1>5. QED
    BY <1>1, <1>2, <1>3, <1>4, ConstantsAssumption

LEMMA UpTallyNext ==
  ASSUME Delivery, BridgeNext
  PROVE  UpTally'
  <1> SUFFICES ASSUME NEW r \in Requests, NEW c \in Connections,
                      Done(r) \in In(up'[c]), r \in table'[c]
               PROVE  Len(said'[r]) + Count(up'[c], Answers(r)) = produced'[r] + 1
    BY DEF UpTally
  <1> USE DEF Delivery
  <1>1. /\ up[c] \in Seq(Spoken) /\ queue \in Seq(Spoken) /\ said[r] \in Seq(Items)
        /\ Len(said[r]) \in Nat /\ Count(up[c], Answers(r)) \in Nat
        /\ Count(queue, Answers(r)) \in Nat /\ produced[r] \in Nat /\ Ending(r) \in Nat
    BY TallyTypes
  <1>2. Done(r) \in Answers(r)
    BY AnswersSpoken
  <1>3. Done(r) \in In(up[c]) /\ r \in table[c]
          => Len(said[r]) + Count(up[c], Answers(r)) = produced[r] + 1
    BY DEF UpTally
  <1>4. CASE Keeps(r, c)
    <2>1. /\ Done(r) \in In(up[c]) /\ Count(up'[c], Answers(r)) = Count(up[c], Answers(r))
          /\ said'[r] = said[r] /\ produced'[r] = produced[r]
          /\ r \in table[c] \/ Complete(r, Self, Offering)
      BY <1>2, <1>4 DEF Keeps, Alike
    <2>2. link[r] = c
      BY <1>2, <2>1, AnswersSpoken DEF Routed, About, Done, Says
    <2>3. ~Complete(r, Self, Offering)
      BY <2>2, ConstantsAssumption DEF Complete, Binding, Placed, Asked
    <2>4. QED
      BY <1>3, <2>1, <2>3
  <1>5. CASE Leaves(r)
    BY <1>3, <1>5 DEF Leaves, vars
  <1>6. CASE BridgeWrites /\ Head(queue) \in Answers(r)
    <2>1. /\ queue # <<>> /\ Head(queue) \in Spoken /\ Head(queue) \in In(queue)
          /\ queue' = Tail(queue) /\ at \in Connections /\ UNCHANGED <<vars, calls, produced>>
          /\ IF c = at /\ wire[c] = "up" THEN up'[c] = Append(up[c], Head(queue)) ELSE up'[c] = up[c]
      BY <1>6, Sent
    <2>2. said' = said /\ table' = table
      BY <2>1 DEF vars
    <2>3. CASE up'[c] = up[c]
      BY <1>3, <2>1, <2>2, <2>3
    <2>4. CASE c = at /\ wire[c] = "up" /\ up'[c] = Append(up[c], Head(queue))
      <3>1. Done(r) \notin In(up[c])
        BY <1>6, <2>1 DEF NothingAfterDone
      <3>2. Head(queue) = Done(r)
        BY <1>1, <2>1, <2>4, <3>1, InAppend
      <3>3. Count(Tail(queue), Answers(r)) = 0
        <4>1. In(Tail(queue)) \cap Answers(r) = {} /\ Tail(queue) \in Seq(Spoken)
          BY <1>1, <2>1, <3>2, LastTail DEF NothingAfterDone
        <4>2. QED
          BY <4>1, CountNat
      <3>4. Count(queue, Answers(r)) = 1
        BY <1>1, <1>6, <2>1, <3>3, CountTail
      <3>5. calls[r] = "whole"
        BY <2>1, <3>2 DEF DoneIsWhole, DoneIn
      <3>6. link[r] = at /\ r \in table[at]
        BY <2>2, <2>4 DEF Binding, TableIsTheBinding
      <3>7. Len(said[r]) + Count(up[c], Answers(r)) + Count(queue, Answers(r)) = produced[r] + 1
        BY <2>1, <2>4, <3>5, <3>6, ConstantsAssumption DEF Tally, Ending, Ended
      <3>8. Count(up'[c], Answers(r)) = Count(up[c], Answers(r)) + 1
        BY <1>1, <1>6, <2>1, <2>4, CountAppend
      <3>9. Len(said[r]) + Count(up'[c], Answers(r)) = produced[r] + 1
        <4>1. Count(up'[c], Answers(r)) \in Nat
          BY <1>1, <3>8
        <4>2. QED
          BY <1>1, <3>4, <3>7, <3>8, <4>1, LastMoves
      <3>10. QED
        BY <2>1, <2>2, <3>9
    <2>5. QED
      BY <2>1, <2>3, <2>4
  <1>7. CASE BridgeWriterFails
    BY <1>3, <1>7 DEF BridgeWriterFails, vars, wireVars
  <1>8. CASE LlmChunk(r) \/ LlmEnds(r)
    <2>1. up' = up /\ calls[r] = "working"
      BY <1>8, Given
    <2>2. QED
      BY <2>1 DEF DoneIsWhole, DoneIn
  <1>9. CASE GatewayReads(c) /\ Head(up[c]) \in Answers(r)
    <2>1. /\ up[c] # <<>> /\ up'[c] = Tail(up[c]) /\ produced' = produced /\ r \in table[c]
          /\ said'[r] = Append(said[r], Item(Head(up[c]).type, c))
      BY <1>9, Heard DEF bridgeVars
    <2>2. Done(r) \in In(up[c])
      BY <1>1, <2>1, InTail
    <2>3. Count(up'[c], Answers(r)) \in Nat /\ Count(up'[c], Answers(r)) + 1 = Count(up[c], Answers(r))
      BY <1>1, <1>9, <2>1, CountLess
    <2>4. Len(said'[r]) = Len(said[r]) + 1 /\ Len(said'[r]) \in Nat
      BY <1>1, <2>1
    <2>5. Len(said[r]) + Count(up[c], Answers(r)) = produced[r] + 1
      BY <1>3, <2>1, <2>2
    <2>6. Len(said'[r]) + Count(up'[c], Answers(r)) = produced[r] + 1
      <3> DEFINE u == Count(up[c], Answers(r))
                 v == Count(up'[c], Answers(r))
                 l == Len(said[r])
                 m == Len(said'[r])
      <3>1. /\ l \in Nat /\ u \in Nat /\ m \in Nat /\ v \in Nat /\ produced[r] \in Nat
            /\ l + u = produced[r] + 1 /\ v + 1 = u /\ m = l + 1
        BY <1>1, <2>3, <2>4, <2>5
      <3> HIDE DEF u, v, l, m
      <3>2. m + v = produced[r] + 1
        BY <3>1, LastNears
      <3>3. QED
        BY <3>2 DEF m, v
    <2>7. QED
      BY <2>1, <2>6
  <1>10. CASE GatewayHears(c) \/ GatewayFaults(c)
    <2>1. up'[c] = <<>>
      BY <1>10 DEF GatewayHears, GatewayFaults, BridgeInv, BridgeTypeOK
    <2>2. QED
      BY <2>1, InEmpty
  <1>11. QED
    BY <1>4, <1>5, <1>6, <1>7, <1>8, <1>9, <1>10, FlowCases

LEMMA TallyNext ==
  ASSUME Delivery, BridgeNext
  PROVE  Tally'
  <1> SUFFICES ASSUME NEW r \in Requests, NEW c \in Connections,
                      at' = c, link'[r] = c, wire'[c] = "up", r \in table'[c]
               PROVE  Len(said'[r]) + Count(up'[c], Answers(r)) + Count(queue', Answers(r))
                        = produced'[r] + Ending(r)'
    <2>1. BridgeInv'
      BY BridgeInvNext DEF Delivery
    <2>2. QED
      BY <2>1 DEF Tally, Ending, BridgeInv, BridgeTypeOK
  <1> USE DEF Delivery
  <1> DEFINE l == Len(said[r])
             u == Count(up[c], Answers(r))
             q == Count(queue, Answers(r))
             e == Ending(r)
  <1>1. /\ up[c] \in Seq(Spoken) /\ queue \in Seq(Spoken) /\ said[r] \in Seq(Items)
        /\ l \in Nat /\ u \in Nat /\ q \in Nat /\ produced[r] \in Nat /\ e \in Nat
    BY TallyTypes
  <1>2. at = c /\ wire[c] = "up" /\ r \in table[c] => l + u + q = produced[r] + e
    <2>1. r \in table[c] => link[r] = c
      BY DEF Binding, TableIsTheBinding
    <2>2. QED
      BY <2>1, ConstantsAssumption DEF Tally
  <1>3. CASE Keeps(r, c)
    <2>1. /\ u' = u /\ q' = q /\ l' = l /\ produced'[r] = produced[r]
          /\ r \in table[c] \/ Complete(r, Self, Offering)
          /\ Connect \/ (at = c /\ wire[c] = "up")
      BY <1>3 DEF Keeps, Alike
    <2>2. e' = e
      BY <1>3 DEF Keeps, Ending
    <2> HIDE DEF l, u, q, e
    <2>3. l + u + q = produced[r] + e
      <3>1. CASE Complete(r, Self, Offering)
        <4>1. link[r] = None /\ said[r] = <<>> /\ ~Asked(r)
          BY <3>1 DEF Complete, Binding, Placed, Asked
        <4>2. In(up[c]) \cap Answers(r) = {}
          BY <4>1, AnswersSpoken, ConstantsAssumption DEF Routed, About, Says, Answers
        <4>3. In(queue) \cap Answers(r) = {}
          <5>1. CASE at # None
            BY <4>1, <5>1, AnswersSpoken DEF Routed, About, Says, Answers
          <5>2. CASE at = None
            <6>1. queue = <<>>
              BY <5>2 DEF BridgeInv, BridgeTypeOK, OneTask
            <6>2. QED
              BY <6>1, InEmpty
          <5>3. QED
            BY <5>1, <5>2
        <4>4. u = 0 /\ q = 0
          BY <1>1, <4>2, <4>3, CountNat DEF u, q
        <4>5. l = 0
          BY <4>1 DEF l
        <4>6. calls[r] = "none" /\ produced[r] = 0
          BY <4>1 DEF Begun
        <4>7. e = 0
          BY <4>6 DEF e, Ending, Ended
        <4>8. QED
          BY <4>4, <4>5, <4>6, <4>7
      <3>2. CASE Connect /\ ~Complete(r, Self, Offering)
        <4>1. phase[c] = "idle"
          BY <3>2 DEF Connect
        <4>2. r \in table[c]
          BY <2>1, <3>2
        <4>3. QED
          BY <4>1, <4>2 DEF Binding, TableIsTheBinding
      <3>3. QED
        BY <1>2, <2>1, <3>1, <3>2
    <2>4. l' + u' + q' = produced'[r] + e'
      BY <2>1, <2>2, <2>3
    <2>5. QED
      BY <2>4 DEF l, u, q, e
  <1>4. CASE Leaves(r)
    BY <1>4, ConstantsAssumption DEF Leaves
  <1>5. CASE BridgeWrites /\ Head(queue) \in Answers(r)
    <2>1. /\ queue # <<>> /\ Head(queue) \in Spoken /\ queue' = Tail(queue)
          /\ at = c /\ wire[c] = "up" /\ up'[c] = Append(up[c], Head(queue))
          /\ UNCHANGED <<vars, calls, produced>>
      BY <1>5, Sent
    <2>2. l' = l /\ r \in table[c]
      BY <2>1 DEF vars
    <2>3. u' = u + 1 /\ u' \in Nat
      <3>1. Count(Append(up[c], Head(queue)), Answers(r)) = u + 1
        BY <1>1, <1>5, <2>1, CountAppend
      <3>2. u' = u + 1
        BY <2>1, <3>1
      <3>3. QED
        BY <1>1, <3>2
    <2>4. q' + 1 = q /\ q' \in Nat
      BY <1>1, <1>5, <2>1, CountLess
    <2>5. e' = e
      BY <2>1 DEF Ending
    <2> HIDE DEF l, u, q, e
    <2>6. l + u' + q' = produced[r] + e
      <3>1. l + u + q = produced[r] + e
        BY <1>2, <2>1, <2>2
      <3>2. PICK v \in Nat, t \in Nat : v = u' /\ t = q'
        BY <2>3, <2>4
      <3>3. PICK k \in Nat, m \in Nat, n \in Nat, p \in Nat, o \in Nat :
              k = l /\ m = u /\ n = q /\ p = produced[r] /\ o = e
        BY <1>1
      <3>4. k + m + n = p + o /\ v = m + 1 /\ t + 1 = n
        BY <2>3, <2>4, <3>1, <3>2, <3>3
      <3>5. k + v + t = p + o
        BY <3>4
      <3>6. QED
        BY <3>2, <3>3, <3>5
    <2>7. l' + u' + q' = produced'[r] + e'
      BY <2>1, <2>2, <2>5, <2>6
    <2>8. QED
      BY <2>7 DEF l, u, q, e
  <1>6. CASE BridgeWriterFails
    BY <1>6 DEF BridgeWriterFails, wireVars
  <1>7. CASE LlmChunk(r) \/ LlmEnds(r)
    <2>1. calls[r] = "working" /\ UNCHANGED <<vars, at, up, wire>>
      BY <1>7, Given
    <2>2. /\ at = c /\ wire[c] = "up" /\ r \in table[c] /\ l' = l /\ u' = u /\ at = link[r]
      BY <2>1 DEF vars, streamVars
    <2>3. PICK f \in Spoken :
            /\ f \in Answers(r) /\ queue' = Append(queue, f)
            /\ \/ /\ f # Done(r) /\ calls'[r] = calls[r] /\ produced'[r] = produced[r] + 1
               \/ /\ produced'[r] = produced[r] /\ calls'[r] \in Ended
                  /\ f = Done(r) => calls'[r] = "whole"
      BY <1>7, <2>2, Given
    <2>4. q' = q + 1 /\ q' \in Nat
      BY <1>1, <2>3, CountAppend
    <2>5. /\ e = 0 /\ e' \in Nat
          /\ \/ produced'[r] = produced[r] + 1 /\ e' = e
             \/ produced'[r] = produced[r] /\ e' = e + 1
      BY <2>1, <2>3 DEF Ending, Ended
    <2>6. produced'[r] \in Nat
      BY <1>1, <2>5
    <2> HIDE DEF l, u, q, e
    <2>7. l + u + q' = produced'[r] + e'
      <3>1. l + u + q = produced[r] + e
        BY <1>2, <2>2
      <3>2. QED
        BY <1>1, <2>4, <2>5, <2>6, <3>1, TallyGrows
    <2>8. l' + u' + q' = produced'[r] + e'
      BY <2>2, <2>7
    <2>9. QED
      BY <2>8 DEF l, u, q, e
  <1>8. CASE GatewayReads(c) /\ Head(up[c]) \in Answers(r)
    <2>1. /\ up[c] # <<>> /\ up'[c] = Tail(up[c]) /\ UNCHANGED bridgeVars
          /\ wire[c] = "up" /\ r \in table[c]
          /\ said'[r] = Append(said[r], Item(Head(up[c]).type, c))
      BY <1>8, Heard
    <2>2. u' + 1 = u /\ u' \in Nat
      BY <1>1, <1>8, <2>1, CountLess
    <2>3. l' = l + 1 /\ l' \in Nat
      BY <1>1, <2>1
    <2>4. q' = q /\ e' = e /\ produced' = produced /\ at = c
      BY <2>1 DEF bridgeVars, Ending
    <2> HIDE DEF l, u, q, e
    <2>5. l' + u' + q = produced[r] + e
      <3>1. l + u + q = produced[r] + e
        BY <1>2, <2>1, <2>4
      <3>2. QED
        BY <1>1, <2>2, <2>3, <3>1, TallyHears
    <2>6. l' + u' + q' = produced'[r] + e'
      BY <2>4, <2>5
    <2>7. QED
      BY <2>6 DEF l, u, q, e
  <1>9. CASE GatewayHears(c) \/ GatewayFaults(c)
    <2>1. table'[c] = {}
      BY <1>9 DEF GatewayHears, GatewayFaults, Disconnect, HandlerFault, Teardown, FailPending, TypeOK
    <2>2. QED
      BY <2>1
  <1>10. QED
    BY <1>3, <1>4, <1>5, <1>6, <1>7, <1>8, <1>9, FlowCases

LEMMA SaidTallyNext ==
  ASSUME Delivery, BridgeNext
  PROVE  SaidTally'
  <1> SUFFICES ASSUME NEW r \in Requests, NEW i \in 1..Len(said'[r]), said'[r][i].kind = "done"
               PROVE  i = produced'[r] + 1
    BY DEF SaidTally
  <1> USE DEF Delivery
  <1>1. said[r] \in Seq(Items) /\ Len(said[r]) \in Nat
    BY DEF TypeOK
  <1>2. CASE i \in 1..Len(said[r])
    <2>1. said'[r][i] = said[r][i]
      BY <1>2, QueuesGrow, RelayStep DEF BridgeInv
    <2>2. i = produced[r] + 1 /\ calls[r] = "whole"
      BY <1>2, <2>1 DEF SaidTally, DoneIsWhole, DoneIn
    <2>3. QED
      BY <2>2, WholeStays
  <1>3. CASE i \notin 1..Len(said[r])
    <2>1. \A x : said'[r] = Append(said[r], x) => i = Len(said[r]) + 1 /\ said'[r][i] = x
      BY <1>1, <1>3
    <2>2. ~\E d \in Connections : said'[r] = Append(said[r], Item("gone", d))
      <3>1. \A d : Item("gone", d).kind # "done"
        BY DEF Item
      <3>2. QED
        BY <2>1, <3>1
    <2>3. said'[r] # said[r]
      BY <1>3
    <2>4. PICK d \in Connections :
            /\ GatewayReads(d) /\ Head(up[d]) \in Answers(r) /\ r \in table[d]
            /\ said'[r] = Append(said[r], Item(Head(up[d]).type, d))
      BY <2>2, <2>3, SaidSteps
    <2>5. i = Len(said[r]) + 1 /\ Item(Head(up[d]).type, d).kind = "done"
      BY <2>1, <2>4
    <2>6. Head(up[d]) = Done(r)
      BY <2>4, <2>5, AnswersSpoken DEF Item, Done
    <2>7. up[d] # <<>> /\ up[d] \in Seq(Spoken) /\ UNCHANGED bridgeVars
      BY <2>4, Heard
    <2>8. Done(r) \in In(up[d])
      BY <2>6, <2>7, InTail
    <2>9. Count(up[d], Answers(r)) = 1
      <3>1. In(Tail(up[d])) \cap Answers(r) = {} /\ Tail(up[d]) \in Seq(Spoken)
        BY <2>6, <2>7, LastTail DEF NothingAfterDone
      <3>2. Count(Tail(up[d]), Answers(r)) = 0
        BY <3>1, CountNat
      <3>3. QED
        BY <2>4, <2>7, <3>2, CountTail
    <2>10. Len(said[r]) + Count(up[d], Answers(r)) = produced[r] + 1
      BY <2>4, <2>8 DEF UpTally
    <2>11. Len(said[r]) + 1 = produced[r] + 1
      BY <2>9, <2>10
    <2>12. QED
      BY <2>5, <2>7, <2>11 DEF bridgeVars
  <1>4. QED
    BY <1>2, <1>3

LEMMA DeliveryInit == BridgeInit => Delivery
  <1> SUFFICES ASSUME BridgeInit PROVE Delivery
    OBVIOUS
  <1>1. TypeOK /\ Binding /\ BridgeInv /\ Talk
    BY WithdrawalInit DEF Withdrawal
  <1>2. /\ \A c \in Connections : up[c] = <<>> /\ down[c] = <<>> /\ outbound[c] = <<>>
        /\ \A r \in Requests : said[r] = <<>> /\ calls[r] = "none" /\ produced[r] = 0
        /\ at = None /\ queue = <<>>
    BY DEF BridgeInit, Init
  <1>3. Routed
    BY <1>2, InEmpty DEF Routed
  <1>4. AskedOnce
    <2>1. ASSUME NEW r \in Requests, NEW c \in Connections PROVE Asking(r, c) = 0
      BY <1>2, CountEmpty DEF Asking
    <2>2. QED
      BY <2>1 DEF AskedOnce
  <1>5. Begun /\ Tally
    BY <1>2 DEF Begun, Tally
  <1>6. \A r \in Requests : ~DoneIn(r)
    BY <1>2, InEmpty DEF DoneIn
  <1>7. DoneIsWhole /\ UpTally
    BY <1>6 DEF DoneIsWhole, UpTally, DoneIn
  <1>8. NothingAfterDone
    BY <1>2, InEmpty, LastOfNone DEF NothingAfterDone
  <1>9. SaidTally
    BY <1>2 DEF SaidTally
  <1>10. QED
    BY <1>1, <1>3, <1>4, <1>5, <1>7, <1>8, <1>9 DEF Delivery

LEMMA DeliveryNext == Delivery /\ [BridgeNext]_allVars => Delivery'
  <1>1. CASE UNCHANGED allVars
    <2>1. /\ UNCHANGED <<task, at, block, queue, up, down, wire, calls, produced, phase, outbound,
                         pending, table, link, stage, said, taken, body>>
          /\ UNCHANGED <<attached, serving, writer, isAttached, deleted, bwriter>>
      BY <1>1 DEF allVars, bridgeVars, wireVars, vars, socketVars, coreVars, streamVars
    <2>2. Delivery => TypeOK' /\ Binding' /\ BridgeInv' /\ Routed'
      BY <1>1, RelayStep, NextType, BindingNext, BridgeInvNext, RoutedNext DEF Delivery, BridgeInv
    <2>3. UNCHANGED <<Talk, AskedOnce, Begun>>
      BY <2>1 DEF Talk, Fresh, Past, OwnNames, AskedOnce, Asking, Begun
    <2>4. UNCHANGED <<DoneIsWhole, NothingAfterDone, Tally, UpTally, SaidTally>>
      BY <2>1 DEF DoneIsWhole, DoneIn, NothingAfterDone, Tally, Ending, UpTally, SaidTally
    <2>5. QED
      BY <2>2, <2>3, <2>4 DEF Delivery
  <1>2. CASE Delivery /\ BridgeNext
    <2>1. TypeOK' /\ Binding' /\ BridgeInv' /\ Routed'
      BY <1>2, RelayStep, NextType, BindingNext, BridgeInvNext, RoutedNext DEF Delivery, BridgeInv
    <2>2. Talk'
      BY <1>2, FreshNext, PastNext, OwnNamesNext DEF Delivery, Talk
    <2>3. AskedOnce' /\ Begun'
      BY <1>2, AskedOnceNext, BegunNext DEF Delivery
    <2>4. DoneIsWhole' /\ NothingAfterDone' /\ Tally' /\ UpTally' /\ SaidTally'
      BY <1>2, DoneIsWholeNext, NothingAfterDoneNext, TallyNext, UpTallyNext, SaidTallyNext
    <2>5. QED
      BY <2>1, <2>2, <2>3, <2>4 DEF Delivery
  <1>3. QED
    BY <1>1, <1>2

(***************************************************************************)
(* From the LLM to the caller's [DONE], over whatever breaks and is opened *)
(* anew between them: an answer that reads as complete is one whose call   *)
(* ended by itself, and has every chunk that call gave.                    *)
(***************************************************************************)
THEOREM CompleteMeansWhole == BridgeSpec => []NothingCutShort
  <1>1. Delivery /\ WholeAnswers => NothingCutShort
    <2> SUFFICES ASSUME Delivery, WholeAnswers, NEW r \in Requests,
                        body[r] # <<>>, body[r][Len(body[r])] = "[DONE]"
                 PROVE  calls[r] = "whole" /\ Len(body[r]) = produced[r] + 1
      BY DEF NothingCutShort
    <2>1. /\ Len(body[r]) <= Len(said[r])
          /\ said[r][Len(body[r])].kind = "done"
      BY DEF WholeAnswers
    <2>2. /\ body[r] \in Seq({"chunk", "[DONE]", "refusal", "error"})
          /\ said[r] \in Seq(Items)
      BY DEF Delivery, TypeOK
    <2>3. Len(body[r]) \in 1..Len(said[r])
      BY <2>1, <2>2, EmptySeq
    <2>4. QED
      BY <2>1, <2>3 DEF Delivery, DoneIsWhole, DoneIn, SaidTally
  <1>2. BridgeSpec => []WholeAnswers
    BY BridgeRunsTheRelay, AnswersAreWhole
  <1>3. QED
    BY <1>1, <1>2, DeliveryInit, DeliveryNext, PTL DEF BridgeSpec
=============================================================================
