-------------------------- MODULE KyokSocketProofs --------------------------
(***************************************************************************)
(* Proofs about KyokSocket, for any number of sockets, identities,         *)
(* offerings and completions.                                              *)
(***************************************************************************)
EXTENDS KyokSocket, SequenceTheorems, FiniteSetTheorems, TLAPS

(* One step of a socket or of a completion, unfolded one level. *)
LEMMA NextCases ==
  ASSUME Next
  PROVE  \/ \E c \in Connections :
              \/ Accept(c) \/ HandshakeFails(c) \/ Attach(c)
              \/ WriteFrame(c) \/ WriterFails(c)
              \/ RejectFrame(c) \/ ReceiveRegister(c) \/ ReceiveDelete(c)
              \/ FinishOperation(c)
              \/ Disconnect(c) \/ HandlerFault(c)
         \/ \E c \in Connections, r \in Requests, kind \in AnswerKinds :
              ReceiveAnswer(c, r, kind)
         \/ \E r \in Requests, k \in Keys, m \in Models :
              Complete(r, k, m) \/ Unavailable(r, k, m)
         \/ \E r \in Requests :
              \/ Start(r) \/ Discard(r) \/ Take(r) \/ Resume(r)
              \/ CallerLeaves(r) \/ GapTimeout(r) \/ Finalize(r)
  BY DEF Next, SocketStep, RequestStep, ConsumerStep, Ask

-----------------------------------------------------------------------------
(* Type correctness. *)

LEMMA TeardownType ==
  ASSUME TypeOK, NEW c \in Connections, Teardown(c)
  PROVE  TypeOK'
  <1> USE ConstantsAssumption DEF TypeOK
  <1>1. pending' \in [Connections -> Operations]
    BY DEF Teardown, Operations, NoOperation
  <1>2. phase' \in [Connections -> Phases] /\ writer' \in [Connections -> {"off", "running", "dead", "stopped"}]
    BY DEF Teardown, Phases
  <1>3. outbound' \in [Connections -> Seq(Frames)]
    BY DEF Teardown
  <1>4. attached' \in [Keys -> Connections \cup {None}] /\ serving' \in [Keys -> SUBSET Models]
    BY DEF Teardown, Detach, coreVars
  <1>5. Item("gone", c) \in Items
    BY DEF Item, Items, ItemKinds
  <1>6. said' \in [Requests -> Seq(Items)] /\ table' \in [Connections -> SUBSET Requests]
    BY <1>5 DEF Teardown, FailPending
  <1>7. QED
    BY <1>1, <1>2, <1>3, <1>4, <1>6 DEF Teardown, streamVars

LEMMA PostType ==
  ASSUME TypeOK, NEW c \in Connections, NEW f \in Frames, Post(c, f)
  PROVE  outbound' \in [Connections -> Seq(Frames)]
  BY DEF TypeOK, Post

LEMMA SocketType ==
  ASSUME TypeOK, NEW c \in Connections,
         \/ Accept(c) \/ HandshakeFails(c) \/ Attach(c)
         \/ WriteFrame(c) \/ WriterFails(c)
         \/ RejectFrame(c) \/ ReceiveRegister(c) \/ ReceiveDelete(c)
         \/ FinishOperation(c)
         \/ Disconnect(c) \/ HandlerFault(c)
  PROVE  TypeOK'
  <1> USE ConstantsAssumption DEF TypeOK, coreVars, streamVars
  <1>0. /\ Frame("welcome", None) \in Frames /\ Frame("error", None) \in Frames
        /\ Frame("registered", None) \in Frames /\ Frame("deleted", None) \in Frames
    BY DEF Frame, Frames
  <1>1. CASE Accept(c)
    BY <1>1 DEF Accept, Phases
  <1>2. CASE HandshakeFails(c)
    BY <1>2 DEF HandshakeFails, Phases
  <1>3. CASE Attach(c)
    BY <1>0, <1>3 DEF Attach, AttachLink, Phases
  <1>4. CASE WriteFrame(c)
    BY <1>4 DEF WriteFrame
  <1>5. CASE WriterFails(c)
    BY <1>5 DEF WriterFails
  <1>6. CASE RejectFrame(c)
    BY <1>0, <1>6, PostType DEF RejectFrame
  <1>7. CASE ReceiveRegister(c)
    BY <1>7 DEF ReceiveRegister, AskCore, Operations
  <1>8. CASE ReceiveDelete(c)
    BY <1>8 DEF ReceiveDelete, AskCore, Operations
  <1>9. CASE FinishOperation(c)
    <2>1. outbound' \in [Connections -> Seq(Frames)]
      BY <1>0, <1>9, PostType DEF FinishOperation
    <2>2. attached' \in [Keys -> Connections \cup {None}] /\ serving' \in [Keys -> SUBSET Models]
      <3>1. pending[c].names \in SUBSET Models
        BY DEF Operations
      <3>2. CASE UNCHANGED <<attached, serving>>
        BY <3>2
      <3>3. CASE CoreAccepts(c)
        <4> DEFINE roster == IF pending[c].op = "register" THEN pending[c].names
                             ELSE serving[KeyOf[c]] \ pending[c].names
        <4>1. roster \in SUBSET Models
          BY <3>1
        <4>2. serving' = [serving EXCEPT ![KeyOf[c]] = roster] /\ attached' = attached
          BY <3>3 DEF CoreAccepts
        <4> HIDE DEF roster
        <4>3. QED
          BY <4>1, <4>2
      <3>4. QED
        BY <1>9, <3>2, <3>3 DEF FinishOperation
    <2>3. pending' \in [Connections -> Operations]
      BY <1>9 DEF FinishOperation, Operations, NoOperation
    <2>4. QED
      BY <1>9, <2>1, <2>2, <2>3 DEF FinishOperation
  <1>10. CASE Disconnect(c)
    BY <1>10, TeardownType DEF Disconnect
  <1>11. CASE HandlerFault(c)
    BY <1>11, TeardownType DEF HandlerFault
  <1>12. QED
    BY <1>1, <1>2, <1>3, <1>4, <1>5, <1>6, <1>7, <1>8, <1>9, <1>10, <1>11

LEMMA AnswerType ==
  ASSUME TypeOK, NEW c \in Connections, NEW r \in Requests, NEW kind \in AnswerKinds,
         ReceiveAnswer(c, r, kind)
  PROVE  TypeOK'
  <1> USE DEF TypeOK, coreVars, streamVars
  <1>1. Item(kind, c) \in Items /\ Frame("error", r) \in Frames
    BY DEF Item, Items, ItemKinds, Frame, Frames
  <1>2. said' \in [Requests -> Seq(Items)]
    <2>1. CASE said' = [said EXCEPT ![r] = Append(@, Item(kind, c))]
      BY <1>1, <2>1
    <2>2. QED
      BY <2>1 DEF ReceiveAnswer
  <1>3. outbound' \in [Connections -> Seq(Frames)]
    BY <1>1, PostType DEF ReceiveAnswer
  <1>4. QED
    BY <1>2, <1>3 DEF ReceiveAnswer

LEMMA AskType ==
  ASSUME TypeOK, NEW r \in Requests, NEW k \in Keys, NEW m \in Models,
         Complete(r, k, m) \/ Unavailable(r, k, m)
  PROVE  TypeOK'
  <1> USE DEF TypeOK, coreVars
  <1>1. CASE Complete(r, k, m)
    <2>1. attached[k] \in Connections
      BY <1>1 DEF Complete
    <2>2. Frame("completionRequest", r) \in Frames
      BY DEF Frame, Frames
    <2>3. outbound' \in [Connections -> Seq(Frames)]
      BY <1>1, <2>1, <2>2, PostType DEF Complete
    <2>4. QED
      BY <1>1, <2>1, <2>3 DEF Complete, Stages, Live
  <1>2. CASE Unavailable(r, k, m)
    BY <1>2 DEF Unavailable, Stages, socketVars
  <1>3. QED
    BY <1>1, <1>2

LEMMA StreamType ==
  ASSUME TypeOK, NEW r \in Requests,
         \/ Start(r) \/ Discard(r) \/ Take(r) \/ Resume(r)
         \/ CallerLeaves(r) \/ GapTimeout(r) \/ Finalize(r)
  PROVE  TypeOK'
  <1> USE DEF TypeOK, socketVars, coreVars
  <1>1. ASSUME Pop(r) PROVE table' \in [Connections -> SUBSET Requests]
    BY <1>1 DEF Pop
  <1>2. \A kind \in ItemKinds : Closing(kind) \in {"[DONE]", "refusal", "error"}
    BY DEF Closing
  <1>3. ASSUME NEW kind \in ItemKinds, End(r, kind)
        PROVE  /\ stage' \in [Requests -> Stages]
               /\ body' \in [Requests -> Seq({"chunk", "[DONE]", "refusal", "error"})]
               /\ table' \in [Connections -> SUBSET Requests]
    BY <1>1, <1>2, <1>3 DEF End, Stages
  <1>4. CASE Start(r)
    BY <1>4 DEF Start, Stages, Live
  <1>5. CASE Discard(r)
    BY <1>5 DEF Discard, Stages
  <1>6. CASE Take(r)
    <2> DEFINE kind == said[r][taken[r] + 1].kind
    <2>1. kind \in ItemKinds
      <3>1. said[r] \in Seq(Items) /\ taken[r] + 1 \in 1..Len(said[r])
        BY <1>6 DEF Take
      <3>2. said[r][taken[r] + 1] \in Items
        BY <3>1
      <3>3. QED
        BY <3>2 DEF Items
    <2>2. taken' \in [Requests -> Nat]
      BY <1>6 DEF Take
    <2>3. IF kind = "chunk" THEN TakeChunk(r) ELSE End(r, kind)
      BY <1>6 DEF Take
    <2> HIDE DEF kind
    <2>4. /\ stage' \in [Requests -> Stages]
          /\ body' \in [Requests -> Seq({"chunk", "[DONE]", "refusal", "error"})]
          /\ table' \in [Connections -> SUBSET Requests]
      <3>1. CASE kind = "chunk"
        <4>1. TakeChunk(r)
          BY <2>3, <3>1
        <4>2. body' \in [Requests -> Seq({"chunk", "[DONE]", "refusal", "error"})]
          <5>1. Append(body[r], "chunk") \in Seq({"chunk", "[DONE]", "refusal", "error"})
            OBVIOUS
          <5>2. QED
            BY <4>1, <5>1 DEF TakeChunk
        <4>3. stage' \in [Requests -> Stages] /\ table' = table
          BY <4>1 DEF TakeChunk, Stages, Live
        <4>4. QED
          BY <4>2, <4>3
      <3>2. CASE kind # "chunk"
        BY <1>3, <2>1, <2>3, <3>2
      <3>3. QED
        BY <3>1, <3>2
    <2>5. QED
      BY <1>6, <2>2, <2>4 DEF Take
  <1>7. CASE Resume(r)
    BY <1>7 DEF Resume, Stages, Live
  <1>8. CASE CallerLeaves(r)
    BY <1>1, <1>8 DEF CallerLeaves, Stages
  <1>9. CASE GapTimeout(r)
    BY <1>3, <1>9 DEF GapTimeout, ItemKinds, AnswerKinds
  <1>10. CASE Finalize(r)
    BY <1>1, <1>10 DEF Finalize, Stages
  <1>11. QED
    BY <1>4, <1>5, <1>6, <1>7, <1>8, <1>9, <1>10

LEMMA InitType == Init => TypeOK
  BY ConstantsAssumption
  DEF Init, TypeOK, Phases, Operations, NoOperation, Stages

LEMMA NextType == TypeOK /\ [Next]_vars => TypeOK'
  <1> SUFFICES ASSUME TypeOK, [Next]_vars PROVE TypeOK'
    OBVIOUS
  <1>1. CASE Next
    BY <1>1, NextCases, SocketType, AnswerType, AskType, StreamType
  <1>2. CASE UNCHANGED vars
    BY <1>2 DEF TypeOK, vars, socketVars, coreVars, streamVars
  <1>3. QED
    BY <1>1, <1>2

(***************************************************************************)
(* Every variable keeps its type in every behaviour of the relay.          *)
(***************************************************************************)
THEOREM TypeCorrect == Spec => []TypeOK
  BY InitType, NextType, PTL DEF Spec

-----------------------------------------------------------------------------
(***************************************************************************)
(* The inductive invariant.  AnsweredOnItsOwnLink and TableIsTheBinding    *)
(* lean on each other: an item's sender is the completion's link because   *)
(* the table of the socket it came in on held the completion, and entries  *)
(* stay right because a completion's link never changes once it is asked.  *)
(* Placed is the strengthening both need.                                  *)
(***************************************************************************)
Asked(r) == stage[r] \notin {"none", "rejected"}

Placed ==
  \A r \in Requests :
    IF Asked(r)
    THEN link[r] \in Connections /\ phase[link[r]] \in {"open", "closed"}
    ELSE link[r] = None /\ said[r] = <<>> /\ body[r] = <<>> /\ taken[r] = 0

Binding == Placed /\ AttachedLinksAreOpen /\ TableIsTheBinding /\ AnsweredOnItsOwnLink

\* What Binding, Hearing and NobodyWaitsOnAClosedSocket speak of.
relayVars == <<phase, attached, table, said, link, stage, taken, body>>

(* The steps that only move frames, or only ask core about offerings. *)
LEMMA QuietSteps ==
  ASSUME NEW c \in Connections,
         \/ WriteFrame(c) \/ WriterFails(c) \/ RejectFrame(c)
         \/ ReceiveRegister(c) \/ ReceiveDelete(c) \/ FinishOperation(c)
  PROVE  UNCHANGED relayVars
  BY DEF WriteFrame, WriterFails, RejectFrame, ReceiveRegister, ReceiveDelete, AskCore,
         FinishOperation, CoreAccepts, relayVars, coreVars, streamVars

LEMMA BindingInit == Init => Binding
  BY ConstantsAssumption
  DEF Init, Binding, Placed, Asked, AttachedLinksAreOpen, TableIsTheBinding,
      AnsweredOnItsOwnLink, Live

LEMMA BindingQuiet == Binding /\ UNCHANGED relayVars => Binding'
  BY DEF Binding, relayVars, Placed, Asked, AttachedLinksAreOpen, TableIsTheBinding,
         AnsweredOnItsOwnLink

(* A socket that is not yet open holds no completion and is not attached. *)
LEMMA BindingHandshake ==
  ASSUME TypeOK, Binding, NEW c \in Connections,
         Accept(c) \/ HandshakeFails(c) \/ Attach(c)
  PROVE  Binding'
  <1> USE ConstantsAssumption DEF TypeOK, Binding, streamVars, coreVars
  <1>1. phase[c] \notin {"open", "closed"} /\ phase' = [phase EXCEPT ![c] = phase'[c]]
    BY DEF Accept, HandshakeFails, Attach
  <1>2. UNCHANGED <<table, said, link, stage, taken, body>>
    BY DEF Accept, HandshakeFails, Attach
  <1>3. \A r \in Requests : Asked(r) => link[r] \in Connections /\ link[r] # c
    BY <1>1 DEF Placed
  <1>4. Placed'
    BY <1>1, <1>2, <1>3 DEF Placed, Asked
  <1>5. \A r \in Requests : stage[r] \in Live => Asked(r)
    BY DEF Live, Asked
  <1>6. TableIsTheBinding'
    BY <1>1, <1>2, <1>3, <1>5 DEF TableIsTheBinding
  <1>7. AnsweredOnItsOwnLink'
    BY <1>2 DEF AnsweredOnItsOwnLink
  <1>8. AttachedLinksAreOpen'
    <2>1. CASE Attach(c)
      BY <2>1 DEF Attach, AttachLink, AttachedLinksAreOpen
    <2>2. CASE Accept(c) \/ HandshakeFails(c)
      BY <1>1, <2>2 DEF Accept, HandshakeFails, AttachedLinksAreOpen
    <2>3. QED
      BY <2>1, <2>2
  <1>9. QED
    BY <1>4, <1>6, <1>7, <1>8

(* The socket's end: its table is emptied, and each completion that was in *)
(* it gets an item from this very socket, which is its link.               *)
LEMMA BindingTeardown ==
  ASSUME TypeOK, Binding, NEW c \in Connections, Teardown(c)
  PROVE  Binding'
  <1> USE ConstantsAssumption DEF TypeOK, Binding, streamVars, coreVars
  <1>1. /\ phase' = [phase EXCEPT ![c] = "closed"]
        /\ table' = [table EXCEPT ![c] = {}]
        /\ UNCHANGED <<link, stage, taken, body>>
    BY DEF Teardown, FailPending
  <1>2. \A r \in Requests :
          said'[r] = IF r \in table[c] THEN Append(said[r], Item("gone", c)) ELSE said[r]
    BY DEF Teardown, FailPending
  <1>3. \A r \in Requests : r \in table[c] => link[r] = c
    BY DEF TableIsTheBinding
  <1>4. Placed'
    <2> SUFFICES ASSUME NEW r \in Requests
                 PROVE  IF Asked(r)'
                        THEN link'[r] \in Connections /\ phase'[link'[r]] \in {"open", "closed"}
                        ELSE link'[r] = None /\ said'[r] = <<>> /\ body'[r] = <<>> /\ taken'[r] = 0
      BY DEF Placed
    <2>1. CASE Asked(r)
      BY <1>1, <2>1 DEF Placed, Asked
    <2>2. CASE ~Asked(r)
      <3>1. link[r] = None
        BY <2>2 DEF Placed
      <3>2. said'[r] = said[r]
        BY <1>2, <1>3, <3>1
      <3>3. QED
        BY <1>1, <2>2, <3>2 DEF Placed, Asked
    <2>3. QED
      BY <2>1, <2>2
  <1>5. TableIsTheBinding'
    BY <1>1, <1>3 DEF TableIsTheBinding
  <1>6. AnsweredOnItsOwnLink'
    <2> SUFFICES ASSUME NEW r \in Requests, NEW i \in 1..Len(said'[r])
                 PROVE  said'[r][i].from = link[r]
      BY <1>1 DEF AnsweredOnItsOwnLink
    <2>1. CASE r \notin table[c]
      BY <1>2, <2>1 DEF AnsweredOnItsOwnLink
    <2>2. CASE r \in table[c]
      <3>1. said'[r] = Append(said[r], Item("gone", c)) /\ said[r] \in Seq(Items)
        BY <1>2, <2>2
      <3>2. CASE i \in 1..Len(said[r])
        BY <3>1, <3>2 DEF AnsweredOnItsOwnLink
      <3>3. CASE i = Len(said[r]) + 1
        BY <1>3, <2>2, <3>1, <3>3 DEF Item
      <3>4. Len(said'[r]) = Len(said[r]) + 1 /\ Len(said[r]) \in Nat
        BY <3>1
      <3>5. QED
        BY <3>2, <3>3, <3>4
    <2>3. QED
      BY <2>1, <2>2
  <1>7. AttachedLinksAreOpen'
    <2> SUFFICES ASSUME NEW k \in Keys, attached'[k] # None
                 PROVE  phase'[attached'[k]] = "open" /\ KeyOf[attached'[k]] = k
      BY DEF AttachedLinksAreOpen
    <2>1. attached'[k] = attached[k] /\ attached[k] # c
      BY DEF Teardown, Detach, AttachedLinksAreOpen
    <2>2. QED
      BY <1>1, <2>1 DEF AttachedLinksAreOpen
  <1>8. QED
    BY <1>4, <1>5, <1>6, <1>7

(* An answer enters a queue only past the table of the socket it came on. *)
LEMMA BindingAnswer ==
  ASSUME TypeOK, Binding, NEW c \in Connections, NEW r \in Requests,
         NEW kind \in AnswerKinds, ReceiveAnswer(c, r, kind)
  PROVE  Binding'
  <1> USE DEF TypeOK, Binding, streamVars, coreVars
  <1>1. UNCHANGED <<phase, attached, table, link, stage, taken, body>>
    BY DEF ReceiveAnswer
  <1>2. CASE said' = said
    BY <1>1, <1>2, BindingQuiet DEF relayVars
  <1>3. CASE InFlight(c, r) /\ said' = [said EXCEPT ![r] = Append(@, Item(kind, c))]
    <2>1. link[r] = c
      BY <1>3 DEF InFlight, TableIsTheBinding
    <2>2. Asked(r)
      BY <2>1, ConstantsAssumption DEF Placed
    <2>3. \A q \in Requests : q # r => said'[q] = said[q]
      BY <1>3
    <2>4. said'[r] = Append(said[r], Item(kind, c)) /\ said[r] \in Seq(Items)
      BY <1>3
    <2>5. Placed'
      BY <1>1, <2>2, <2>3 DEF Placed, Asked
    <2>6. AnsweredOnItsOwnLink'
      <3> SUFFICES ASSUME NEW q \in Requests, NEW i \in 1..Len(said'[q])
                   PROVE  said'[q][i].from = link[q]
        BY <1>1 DEF AnsweredOnItsOwnLink
      <3>1. CASE q # r
        BY <2>3, <3>1 DEF AnsweredOnItsOwnLink
      <3>2. CASE q = r /\ i \in 1..Len(said[r])
        <4>1. Append(said[r], Item(kind, c))[i] = said[r][i]
          BY <3>2
        <4>2. said[r][i].from = link[r]
          BY <3>2 DEF AnsweredOnItsOwnLink
        <4>3. QED
          BY <2>4, <3>2, <4>1, <4>2
      <3>3. CASE q = r /\ i = Len(said[r]) + 1
        BY <2>1, <2>4, <3>3 DEF Item
      <3>4. QED
        <4>1. q = r => Len(said'[q]) = Len(said[r]) + 1 /\ Len(said[r]) \in Nat
          BY <2>4
        <4>2. QED
          BY <3>1, <3>2, <3>3, <4>1
    <2>7. AttachedLinksAreOpen' /\ TableIsTheBinding'
      BY <1>1 DEF AttachedLinksAreOpen, TableIsTheBinding
    <2>8. QED
      BY <2>5, <2>6, <2>7
  <1>4. QED
    BY <1>2, <1>3 DEF ReceiveAnswer

(* A completion is delivered to an open socket of the identity, and only   *)
(* one that was never asked before, which no table holds.                  *)
LEMMA BindingAsk ==
  ASSUME TypeOK, Binding, NEW r \in Requests, NEW k \in Keys, NEW m \in Models,
         Complete(r, k, m) \/ Unavailable(r, k, m)
  PROVE  Binding'
  <1> USE DEF TypeOK, Binding, socketVars, coreVars
  <1>1. ~Asked(r) /\ link[r] = None /\ said[r] = <<>> /\ body[r] = <<>> /\ taken[r] = 0
    BY DEF Complete, Unavailable, Placed, Asked
  <1>2. CASE Complete(r, k, m)
    <2> DEFINE c == attached[k]
    <2>1. c \in Connections /\ phase[c] = "open"
      BY <1>2 DEF Complete, AttachedLinksAreOpen
    <2>2. /\ link' = [link EXCEPT ![r] = c]
          /\ stage' = [stage EXCEPT ![r] = "unstarted"]
          /\ table' = [table EXCEPT ![c] = @ \cup {r}]
          /\ UNCHANGED <<phase, attached, said, taken, body>>
      BY <1>2 DEF Complete
    <2> HIDE DEF c
    <2>3. \A d \in Connections : r \notin table[d]
      BY <1>1, ConstantsAssumption DEF TableIsTheBinding
    <2>4. Placed'
      BY <2>1, <2>2 DEF Placed, Asked
    <2>5. AttachedLinksAreOpen'
      BY <2>2 DEF AttachedLinksAreOpen
    <2>6. AnsweredOnItsOwnLink'
      BY <1>1, <2>2 DEF AnsweredOnItsOwnLink
    <2>7. ASSUME NEW d \in Connections, NEW q \in table'[d]
          PROVE  link'[q] = d /\ phase'[d] = "open"
      BY <2>1, <2>2, <2>3 DEF TableIsTheBinding
    <2>8. ASSUME NEW q \in Requests, stage'[q] \in Live, phase'[link'[q]] = "open"
          PROVE  q \in table'[link'[q]]
      <3>1. CASE q = r
        BY <2>1, <2>2, <3>1
      <3>2. CASE q # r
        <4>1. stage[q] \in Live /\ link'[q] = link[q]
          BY <2>2, <2>8, <3>2
        <4>2. link[q] \in Connections
          BY <4>1 DEF Placed, Asked, Live
        <4>3. q \in table[link[q]]
          BY <2>2, <2>8, <4>1 DEF TableIsTheBinding
        <4>4. QED
          BY <2>2, <4>1, <4>2, <4>3
      <3>3. QED
        BY <3>1, <3>2
    <2>9. QED
      BY <2>4, <2>5, <2>6, <2>7, <2>8 DEF TableIsTheBinding
  <1>3. CASE Unavailable(r, k, m)
    <2>1. stage' = [stage EXCEPT ![r] = "rejected"]
          /\ UNCHANGED <<phase, attached, table, said, link, taken, body>>
      BY <1>3 DEF Unavailable
    <2>2. Placed'
      BY <1>1, <2>1 DEF Placed, Asked
    <2>3. AttachedLinksAreOpen' /\ AnsweredOnItsOwnLink'
      BY <2>1 DEF AttachedLinksAreOpen, AnsweredOnItsOwnLink
    <2>4. TableIsTheBinding'
      BY <2>1 DEF TableIsTheBinding, Live
    <2>5. QED
      BY <2>2, <2>3, <2>4
  <1>4. QED
    BY <1>2, <1>3

(* What the generator's own steps have in common: they touch one           *)
(* completion, and one that stays live keeps its entry.                    *)
LEMMA StreamShape ==
  ASSUME TypeOK, NEW r \in Requests,
         \/ Start(r) \/ Discard(r) \/ Take(r) \/ Resume(r)
         \/ CallerLeaves(r) \/ GapTimeout(r) \/ Finalize(r)
  PROVE  /\ UNCHANGED <<phase, attached, said, link>>
         /\ \A q \in Requests \ {r} :
              stage'[q] = stage[q] /\ taken'[q] = taken[q] /\ body'[q] = body[q]
         /\ Asked(r) /\ Asked(r)'
         /\ \/ stage[r] \in Live /\ UNCHANGED table
            \/ stage'[r] \notin Live /\ Pop(r)
  <1> USE DEF TypeOK, socketVars, coreVars, Asked, Live
  <1>1. CASE Start(r) \/ Discard(r) \/ Resume(r)
    BY <1>1 DEF Start, Discard, Resume
  <1>2. ASSUME NEW kind, End(r, kind), stage[r] = "reading"
        PROVE  /\ \A q \in Requests \ {r} : stage'[q] = stage[q] /\ body'[q] = body[q]
               /\ Asked(r)' /\ stage'[r] \notin Live /\ Pop(r)
    BY <1>2 DEF End
  <1>3. CASE Take(r)
    <2> DEFINE kind == said[r][taken[r] + 1].kind
    <2>1. /\ IF kind = "chunk" THEN TakeChunk(r) ELSE End(r, kind)
          /\ stage[r] = "reading" /\ taken' = [taken EXCEPT ![r] = @ + 1]
          /\ UNCHANGED <<phase, attached, said, link>>
      BY <1>3 DEF Take
    <2> HIDE DEF kind
    <2>2. CASE TakeChunk(r)
      BY <2>1, <2>2 DEF TakeChunk
    <2>3. CASE End(r, kind)
      BY <1>2, <2>1, <2>3
    <2>4. QED
      BY <2>1, <2>2, <2>3
  <1>4. CASE GapTimeout(r)
    BY <1>2, <1>4 DEF GapTimeout
  <1>5. CASE CallerLeaves(r) \/ Finalize(r)
    BY <1>5 DEF CallerLeaves, Finalize
  <1>6. QED
    BY <1>1, <1>3, <1>4, <1>5

LEMMA BindingStream ==
  ASSUME TypeOK, Binding, NEW r \in Requests,
         \/ Start(r) \/ Discard(r) \/ Take(r) \/ Resume(r)
         \/ CallerLeaves(r) \/ GapTimeout(r) \/ Finalize(r)
  PROVE  Binding'
  <1> USE DEF Binding
  <1>1. /\ UNCHANGED <<phase, attached, said, link>>
        /\ \A q \in Requests \ {r} :
              stage'[q] = stage[q] /\ taken'[q] = taken[q] /\ body'[q] = body[q]
        /\ Asked(r) /\ Asked(r)'
        /\ \/ stage[r] \in Live /\ UNCHANGED table
           \/ stage'[r] \notin Live /\ Pop(r)
    BY StreamShape
  <1>2. Placed'
    BY <1>1 DEF Placed, Asked
  <1>3. AttachedLinksAreOpen' /\ AnsweredOnItsOwnLink'
    BY <1>1 DEF AttachedLinksAreOpen, AnsweredOnItsOwnLink
  <1>4. TableIsTheBinding'
    <2>1. CASE stage[r] \in Live /\ UNCHANGED table
      BY <1>1, <2>1 DEF TableIsTheBinding
    <2>2. CASE stage'[r] \notin Live /\ Pop(r)
      <3>1. \A d \in Connections : \A q \in Requests :
              q \in table'[d] <=> q \in table[d] /\ ~(q = r /\ d = link[r])
        BY <2>2 DEF Pop, TypeOK
      <3>2. \A d \in Connections : table'[d] \subseteq Requests
        BY <2>2 DEF Pop, TypeOK
      <3>3. \A q \in Requests : stage'[q] \in Live => q # r /\ link[q] \in Connections
        BY <1>1, <2>2 DEF Placed, Asked, Live
      <3>4. QED
        BY <1>1, <3>1, <3>2, <3>3 DEF TableIsTheBinding
    <2>3. QED
      BY <1>1, <2>1, <2>2
  <1>5. QED
    BY <1>2, <1>3, <1>4

LEMMA BindingNext == TypeOK /\ Binding /\ [Next]_vars => Binding'
  <1> SUFFICES ASSUME TypeOK, Binding, [Next]_vars PROVE Binding'
    OBVIOUS
  <1>1. CASE UNCHANGED vars
    BY <1>1, BindingQuiet DEF vars, relayVars, socketVars, coreVars, streamVars
  <1>2. ASSUME NEW c \in Connections, Disconnect(c) \/ HandlerFault(c)
        PROVE  Binding'
    BY <1>2, BindingTeardown DEF Disconnect, HandlerFault
  <1>3. CASE Next
    BY <1>2, <1>3, NextCases, QuietSteps, BindingQuiet, BindingHandshake, BindingAnswer,
       BindingAsk, BindingStream
  <1>4. QED
    BY <1>1, <1>3

(***************************************************************************)
(* An answer is accepted only on the connection its request was delivered  *)
(* to: nothing in a completion's queue came from elsewhere.                *)
(***************************************************************************)
THEOREM AnswersAreBound == Spec => []AnsweredOnItsOwnLink
  <1>1. TypeOK /\ Binding /\ [Next]_vars => (TypeOK /\ Binding)'
    BY NextType, BindingNext
  <1>2. Binding => AnsweredOnItsOwnLink
    BY DEF Binding
  <1>3. QED
    BY InitType, BindingInit, <1>1, <1>2, PTL DEF Spec

(***************************************************************************)
(* The in-flight table is exactly the binding of completions to sockets.   *)
(***************************************************************************)
THEOREM TableBinds == Spec => []TableIsTheBinding
  <1>1. TypeOK /\ Binding /\ [Next]_vars => (TypeOK /\ Binding)'
    BY NextType, BindingNext
  <1>2. Binding => TableIsTheBinding
    BY DEF Binding
  <1>3. QED
    BY InitType, BindingInit, <1>1, <1>2, PTL DEF Spec

(***************************************************************************)
(* Whatever core may resolve a completion to is an open socket of the      *)
(* identity asked for.                                                     *)
(***************************************************************************)
THEOREM AttachedIsOpen == Spec => []AttachedLinksAreOpen
  <1>1. TypeOK /\ Binding /\ [Next]_vars => (TypeOK /\ Binding)'
    BY NextType, BindingNext
  <1>2. Binding => AttachedLinksAreOpen
    BY DEF Binding
  <1>3. QED
    BY InitType, BindingInit, <1>1, <1>2, PTL DEF Spec

-----------------------------------------------------------------------------
(***************************************************************************)
(* What the caller was given, against what the link said: as long as the   *)
(* stream is not over the caller has the first taken[r] items, all of them *)
(* chunks; over, its last frame tells how.                                 *)
(***************************************************************************)
AllChunks(r, n) == \A i \in 1..n : body[r][i] = "chunk" /\ said[r][i].kind = "chunk"

HeardSoFar(r) ==
  /\ taken[r] <= Len(said[r])
  /\ stage[r] \notin {"complete", "failed"} =>
       Len(body[r]) = taken[r] /\ AllChunks(r, taken[r])
  /\ stage[r] = "complete" =>
       /\ taken[r] >= 1 /\ Len(body[r]) = taken[r]
       /\ said[r][taken[r]].kind = "done"
       /\ AllChunks(r, taken[r] - 1)
  /\ stage[r] = "failed" => Len(body[r]) > 0 /\ body[r][Len(body[r])] # "[DONE]"

Hearing == \A r \in Requests : HeardSoFar(r)

LEMMA HearingInit == Init => Hearing
  BY DEF Init, Hearing, HeardSoFar, AllChunks

(* More said, nothing taken: what was heard stands. *)
LEMMA HearingExtends ==
  ASSUME TypeOK, TypeOK', NEW r \in Requests, HeardSoFar(r),
         Len(said'[r]) >= Len(said[r]),
         \A i \in 1..Len(said[r]) : said'[r][i] = said[r][i],
         taken'[r] = taken[r], body'[r] = body[r],
         \/ stage'[r] = stage[r]
         \/ {stage[r], stage'[r]} \cap {"complete", "failed"} = {}
  PROVE  HeardSoFar(r)'
  <1> USE DEF TypeOK, HeardSoFar
  <1>1. taken[r] \in Nat /\ Len(said[r]) \in Nat /\ Len(said'[r]) \in Nat
    OBVIOUS
  <1>2. \A n \in Nat : n <= Len(said[r]) /\ AllChunks(r, n) => AllChunks(r, n)'
    <2> SUFFICES ASSUME NEW n \in Nat, n <= Len(said[r]), AllChunks(r, n), NEW i \in 1..n
                 PROVE  body'[r][i] = "chunk" /\ said'[r][i].kind = "chunk"
      BY DEF AllChunks
    <2>1. i \in 1..Len(said[r])
      BY <1>1
    <2>2. QED
      BY <2>1 DEF AllChunks
  <1>3. CASE stage[r] \notin {"complete", "failed"} /\ stage'[r] \notin {"complete", "failed"}
    BY <1>1, <1>2, <1>3
  <1>4. CASE stage[r] = "complete" /\ stage'[r] = "complete"
    <2>1. taken[r] - 1 \in Nat /\ taken[r] \in 1..Len(said[r])
      BY <1>1, <1>4
    <2>2. QED
      BY <1>1, <1>2, <1>4, <2>1
  <1>5. CASE stage[r] = "failed" /\ stage'[r] = "failed"
    BY <1>1, <1>5
  <1>6. QED
    BY <1>3, <1>4, <1>5

(* The generator takes one item, or its timer ends it. *)
LEMMA HearingTake ==
  ASSUME TypeOK, NEW r \in Requests, HeardSoFar(r), Take(r)
  PROVE  HeardSoFar(r)'
  <1> DEFINE kind == said[r][taken[r] + 1].kind
  <1> USE DEF TypeOK
  <1>1. /\ taken[r] \in Nat /\ taken[r] < Len(said[r]) /\ Len(said[r]) \in Nat
        /\ Len(body[r]) = taken[r] /\ AllChunks(r, taken[r])
        /\ body[r] \in Seq({"chunk", "[DONE]", "refusal", "error"})
    BY DEF Take, HeardSoFar
  <1>2. said' = said /\ taken'[r] = taken[r] + 1
    BY DEF Take
  <1>3. IF kind = "chunk" THEN TakeChunk(r) ELSE End(r, kind)
    BY DEF Take
  <1>4. ASSUME NEW frame, body'[r] = Append(body[r], frame)
        PROVE  /\ Len(body'[r]) = taken[r] + 1 /\ body'[r][taken[r] + 1] = frame
               /\ \A i \in 1..taken[r] : body'[r][i] = "chunk" /\ said'[r][i].kind = "chunk"
    BY <1>1, <1>2, <1>4 DEF AllChunks
  <1>5. CASE kind = "chunk"
    <2>1. body'[r] = Append(body[r], "chunk") /\ stage'[r] = "yielded"
      BY <1>3, <1>5 DEF TakeChunk
    <2>2. AllChunks(r, taken[r])'
      BY <1>1, <1>2, <1>4, <1>5, <2>1 DEF AllChunks
    <2>3. QED
      BY <1>1, <1>2, <1>4, <2>1, <2>2 DEF HeardSoFar
  <1>6. CASE kind = "done"
    <2>1. body'[r] = Append(body[r], "[DONE]") /\ stage'[r] = "complete"
      BY <1>3, <1>6 DEF End, Closing
    <2>2. AllChunks(r, taken[r] - 1)'
      BY <1>1, <1>2, <1>4, <2>1 DEF AllChunks
    <2>3. QED
      BY <1>1, <1>2, <1>4, <1>6, <2>1, <2>2 DEF HeardSoFar, AllChunks
  <1>7. CASE kind \notin {"chunk", "done"}
    <2>1. body'[r] = Append(body[r], Closing(kind)) /\ stage'[r] = "failed"
      BY <1>3, <1>7 DEF End
    <2>2. Closing(kind) # "[DONE]"
      BY <1>7 DEF Closing
    <2>3. QED
      BY <1>1, <1>2, <1>4, <2>1, <2>2 DEF HeardSoFar
  <1>8. QED
    BY <1>5, <1>6, <1>7

LEMMA HearingGap ==
  ASSUME TypeOK, NEW r \in Requests, HeardSoFar(r), GapTimeout(r)
  PROVE  HeardSoFar(r)'
  <1> USE DEF TypeOK
  <1>1. /\ said' = said /\ taken' = taken
        /\ body'[r] = Append(body[r], "error") /\ stage'[r] = "failed"
    BY DEF GapTimeout, End, Closing
  <1>2. body[r] \in Seq({"chunk", "[DONE]", "refusal", "error"})
    OBVIOUS
  <1>3. Len(body'[r]) = Len(body[r]) + 1 /\ body'[r][Len(body[r]) + 1] = "error" /\ Len(body[r]) \in Nat
    BY <1>1, <1>2
  <1>4. QED
    BY <1>1, <1>3 DEF HeardSoFar

(* A queue only ever grows at its end, whatever the step. *)
LEMMA QueuesGrow ==
  ASSUME TypeOK, [Next]_vars, NEW r \in Requests
  PROVE  /\ Len(said'[r]) >= Len(said[r])
         /\ \A i \in 1..Len(said[r]) : said'[r][i] = said[r][i]
  <1> USE DEF TypeOK
  <1>1. said[r] \in Seq(Items) /\ Len(said[r]) \in Nat
    OBVIOUS
  <1>2. CASE said'[r] = said[r]
    BY <1>1, <1>2
  <1>3. ASSUME NEW item \in Items, said'[r] = Append(said[r], item)
        PROVE  /\ Len(said'[r]) >= Len(said[r])
               /\ \A i \in 1..Len(said[r]) : said'[r][i] = said[r][i]
    BY <1>1, <1>3
  <1>4. ASSUME NEW c \in Connections, Teardown(c)
        PROVE  said'[r] = said[r] \/ \E item \in Items : said'[r] = Append(said[r], item)
    <2>1. Item("gone", c) \in Items
      BY DEF Item, Items, ItemKinds
    <2>2. QED
      BY <1>4, <2>1 DEF Teardown, FailPending
  <1>5. ASSUME NEW c \in Connections, NEW q \in Requests, NEW kind \in AnswerKinds,
               ReceiveAnswer(c, q, kind)
        PROVE  said'[r] = said[r] \/ \E item \in Items : said'[r] = Append(said[r], item)
    <2>1. Item(kind, c) \in Items
      BY DEF Item, Items, ItemKinds
    <2>2. QED
      BY <1>5, <2>1 DEF ReceiveAnswer
  <1>6. CASE UNCHANGED vars
    BY <1>2, <1>6 DEF vars
  <1>7. ASSUME NEW c \in Connections, Accept(c) \/ HandshakeFails(c) \/ Attach(c)
        PROVE  said' = said
    BY <1>7 DEF Accept, HandshakeFails, Attach
  <1>8. ASSUME NEW q \in Requests, NEW k \in Keys, NEW m \in Models,
               Complete(q, k, m) \/ Unavailable(q, k, m)
        PROVE  said' = said
    BY <1>8 DEF Complete, Unavailable
  <1>9. CASE Next
    BY <1>2, <1>3, <1>4, <1>5, <1>7, <1>8, <1>9, NextCases, QuietSteps, StreamShape
    DEF Disconnect, HandlerFault, relayVars
  <1>10. QED
    BY <1>6, <1>9

LEMMA HearingNext == TypeOK /\ Hearing /\ [Next]_vars => Hearing'
  <1> SUFFICES ASSUME TypeOK, Hearing, [Next]_vars, NEW r \in Requests
               PROVE  HeardSoFar(r)'
    BY DEF Hearing
  <1>1. HeardSoFar(r) /\ TypeOK'
    BY NextType DEF Hearing
  <1>2. ASSUME taken'[r] = taken[r], body'[r] = body[r],
               \/ stage'[r] = stage[r]
               \/ {stage[r], stage'[r]} \cap {"complete", "failed"} = {}
        PROVE  HeardSoFar(r)'
    BY <1>1, <1>2, QueuesGrow, HearingExtends
  <1>3. CASE UNCHANGED vars
    BY <1>2, <1>3 DEF vars, streamVars
  <1>4. ASSUME NEW c \in Connections,
               Accept(c) \/ HandshakeFails(c) \/ Attach(c) \/ Disconnect(c) \/ HandlerFault(c)
        PROVE  UNCHANGED <<stage, taken, body>>
    BY <1>4 DEF Accept, HandshakeFails, Attach, Disconnect, HandlerFault, Teardown, streamVars
  <1>5. ASSUME NEW c \in Connections, NEW q \in Requests, NEW kind \in AnswerKinds,
               ReceiveAnswer(c, q, kind)
        PROVE  UNCHANGED <<stage, taken, body>>
    BY <1>5 DEF ReceiveAnswer, streamVars
  <1>6. ASSUME NEW q \in Requests, NEW k \in Keys, NEW m \in Models,
               Complete(q, k, m) \/ Unavailable(q, k, m)
        PROVE  HeardSoFar(r)'
    BY <1>2, <1>6 DEF Complete, Unavailable, TypeOK
  <1>7. ASSUME NEW q \in Requests,
               \/ Start(q) \/ Discard(q) \/ Take(q) \/ Resume(q)
               \/ CallerLeaves(q) \/ GapTimeout(q) \/ Finalize(q)
        PROVE  HeardSoFar(r)'
    <2>1. CASE q # r
      BY <1>2, <1>7, <2>1, StreamShape
    <2>2. CASE q = r /\ Take(r)
      BY <1>1, <2>2, HearingTake
    <2>3. CASE q = r /\ GapTimeout(r)
      BY <1>1, <2>3, HearingGap
    <2>4. CASE q = r /\ (Start(r) \/ Discard(r) \/ Resume(r) \/ CallerLeaves(r) \/ Finalize(r))
      <3>1. taken' = taken /\ body' = body
        BY <2>4 DEF Start, Discard, Resume, CallerLeaves, Finalize
      <3>2. \A s : stage' = [stage EXCEPT ![r] = s] => stage'[r] = s
        BY DEF TypeOK
      <3>3. /\ stage[r] \notin {"complete", "failed"}
            /\ stage'[r] \notin {"complete", "failed"}
        BY <2>4, <3>2 DEF Start, Discard, Resume, CallerLeaves, Finalize
      <3>4. QED
        BY <1>2, <3>1, <3>3
    <2>5. QED
      BY <1>7, <2>1, <2>2, <2>3, <2>4
  <1>8. CASE Next
    <2>1. CASE UNCHANGED <<stage, taken, body>>
      BY <1>2, <2>1
    <2>2. QED
      BY <1>4, <1>5, <1>6, <1>7, <1>8, <2>1, NextCases, QuietSteps DEF relayVars
  <1>9. QED
    BY <1>3, <1>8

(***************************************************************************)
(* A truncated answer never passes as a complete one: a stream that ends   *)
(* in [DONE] is exactly what the provider sent up to its done.             *)
(***************************************************************************)
THEOREM AnswersAreWhole == Spec => []WholeAnswers
  <1>1. ASSUME TypeOK, Hearing, NEW r \in Requests,
               body[r] # <<>>, body[r][Len(body[r])] = "[DONE]"
        PROVE  /\ Len(body[r]) <= Len(said[r])
               /\ said[r][Len(body[r])].kind = "done"
               /\ \A i \in 1..Len(body[r]) - 1 : body[r][i] = "chunk" /\ said[r][i].kind = "chunk"
    <2>1. body[r] \in Seq({"chunk", "[DONE]", "refusal", "error"}) /\ taken[r] \in Nat
      BY <1>1 DEF TypeOK
    <2>2. Len(body[r]) \in 1..Len(body[r])
      BY <1>1, <2>1, EmptySeq
    <2>3. HeardSoFar(r)
      BY <1>1 DEF Hearing
    <2>4. stage[r] # "failed"
      BY <1>1, <2>3 DEF HeardSoFar
    <2>5. stage[r] = "complete"
      BY <1>1, <2>2, <2>3, <2>4 DEF HeardSoFar, AllChunks
    <2>6. QED
      BY <2>3, <2>5 DEF HeardSoFar, AllChunks
  <1>2. TypeOK /\ Hearing => WholeAnswers
    BY <1>1 DEF WholeAnswers
  <1>3. TypeOK /\ Hearing /\ [Next]_vars => (TypeOK /\ Hearing)'
    BY NextType, HearingNext
  <1>4. QED
    BY InitType, HearingInit, <1>2, <1>3, PTL DEF Spec

-----------------------------------------------------------------------------
(* Nobody waits on a closed socket. *)

ClosingAhead(r) == \E i \in taken[r] + 1 .. Len(said[r]) : said[r][i].kind # "chunk"

(* A closing item stays ahead while nothing is taken. *)
LEMMA StillAhead ==
  ASSUME TypeOK, [Next]_vars, NEW r \in Requests, ClosingAhead(r), taken'[r] = taken[r]
  PROVE  ClosingAhead(r)'
  <1>1. PICK i \in taken[r] + 1 .. Len(said[r]) : said[r][i].kind # "chunk"
    BY DEF ClosingAhead
  <1>2. taken[r] \in Nat /\ Len(said[r]) \in Nat /\ Len(said'[r]) \in Nat
    BY NextType DEF TypeOK
  <1>3. i \in 1..Len(said[r])
    BY <1>2
  <1>4. i \in taken'[r] + 1 .. Len(said'[r]) /\ said'[r][i].kind # "chunk"
    BY <1>1, <1>2, <1>3, QueuesGrow
  <1>5. QED
    BY <1>4 DEF ClosingAhead

LEMMA WaitsNext ==
  TypeOK /\ Binding /\ Hearing /\ NobodyWaitsOnAClosedSocket /\ [Next]_vars
    => NobodyWaitsOnAClosedSocket'
  <1> SUFFICES ASSUME TypeOK, Binding, Hearing, NobodyWaitsOnAClosedSocket, [Next]_vars,
                      NEW r \in Requests, stage'[r] \in Live, phase'[link'[r]] = "closed"
               PROVE  ClosingAhead(r)'
    BY DEF NobodyWaitsOnAClosedSocket, ClosingAhead
  <1>1. ASSUME stage[r] \in Live, phase[link[r]] = "closed", taken'[r] = taken[r]
        PROVE  ClosingAhead(r)'
    <2>1. ClosingAhead(r)
      BY <1>1 DEF NobodyWaitsOnAClosedSocket, ClosingAhead
    <2>2. QED
      BY <1>1, <2>1, StillAhead
  <1>2. CASE UNCHANGED <<phase, link, stage, taken>>
    BY <1>1, <1>2
  <1>3. stage[r] \in Live => link[r] \in Connections /\ phase[link[r]] \in {"open", "closed"}
    BY DEF Binding, Placed, Asked, Live
  <1>4. ASSUME NEW c \in Connections, Accept(c) \/ HandshakeFails(c) \/ Attach(c)
        PROVE  ClosingAhead(r)'
    <2>1. /\ phase[c] \notin {"open", "closed"} /\ phase' = [phase EXCEPT ![c] = phase'[c]]
          /\ UNCHANGED <<link, stage, taken>>
      BY <1>4 DEF Accept, HandshakeFails, Attach, streamVars
    <2>2. phase[link[r]] = "closed"
      BY <1>3, <2>1 DEF TypeOK
    <2>3. QED
      BY <1>1, <2>1, <2>2
  <1>5. ASSUME NEW c \in Connections, Teardown(c)
        PROVE  ClosingAhead(r)'
    <2>1. phase' = [phase EXCEPT ![c] = "closed"] /\ UNCHANGED <<link, stage, taken>>
      BY <1>5 DEF Teardown, streamVars
    <2>2. CASE phase[link[r]] = "closed"
      BY <1>1, <2>1, <2>2
    <2>3. CASE phase[link[r]] = "open"
      <3>1. link[r] = c /\ r \in table[c]
        BY <1>3, <2>1, <2>3 DEF Binding, TableIsTheBinding, TypeOK
      <3>2. said'[r] = Append(said[r], Item("gone", c))
        BY <1>5, <3>1 DEF Teardown, FailPending
      <3>3. taken[r] \in Nat /\ said[r] \in Seq(Items) /\ Len(said[r]) \in Nat
        BY DEF TypeOK
      <3>4. taken[r] <= Len(said[r])
        BY DEF Hearing, HeardSoFar
      <3>5. /\ Len(said'[r]) = Len(said[r]) + 1
            /\ said'[r][Len(said[r]) + 1].kind = "gone"
        BY <3>2, <3>3 DEF Item
      <3>6. QED
        <4>1. Len(said[r]) + 1 \in taken'[r] + 1 .. Len(said'[r])
          BY <2>1, <3>3, <3>4, <3>5
        <4>2. QED
          BY <3>5, <4>1 DEF ClosingAhead
    <2>4. QED
      BY <1>3, <2>1, <2>2, <2>3
  <1>6. ASSUME NEW c \in Connections, NEW q \in Requests, NEW kind \in AnswerKinds,
               ReceiveAnswer(c, q, kind)
        PROVE  ClosingAhead(r)'
    BY <1>2, <1>6 DEF ReceiveAnswer, streamVars
  <1>7. ASSUME NEW q \in Requests, NEW k \in Keys, NEW m \in Models,
               Complete(q, k, m) \/ Unavailable(q, k, m)
        PROVE  ClosingAhead(r)'
    <2>1. CASE q = r
      <3>1. CASE Complete(q, k, m)
        <4>1. link' = [link EXCEPT ![q] = attached[k]] /\ attached[k] # None /\ phase' = phase
          BY <3>1 DEF Complete
        <4>2. phase'[link'[r]] = "open"
          BY <2>1, <4>1 DEF Binding, AttachedLinksAreOpen, TypeOK
        <4>3. QED
          BY <4>2
      <3>2. CASE Unavailable(q, k, m)
        <4>1. stage'[q] = "rejected"
          BY <3>2 DEF Unavailable, TypeOK
        <4>2. QED
          BY <2>1, <4>1 DEF Live
      <3>3. QED
        BY <1>7, <3>1, <3>2
    <2>2. CASE q # r
      BY <1>1, <1>7, <2>2 DEF Complete, Unavailable, socketVars, TypeOK
    <2>3. QED
      BY <2>1, <2>2
  <1>8. ASSUME NEW q \in Requests,
               \/ Start(q) \/ Discard(q) \/ Take(q) \/ Resume(q)
               \/ CallerLeaves(q) \/ GapTimeout(q) \/ Finalize(q)
        PROVE  ClosingAhead(r)'
    <2>1. /\ UNCHANGED <<phase, said, link>>
          /\ \A p \in Requests \ {q} : stage'[p] = stage[p] /\ taken'[p] = taken[p]
          /\ stage[q] \in Live \/ stage'[q] \notin Live
      BY <1>8, StreamShape
    <2>2. stage[r] \in Live /\ phase[link[r]] = "closed"
      BY <2>1
    <2>3. CASE taken'[r] = taken[r]
      BY <1>1, <2>2, <2>3
    <2>4. CASE taken'[r] # taken[r]
      <3>1. q = r
        BY <2>1, <2>4
      <3>2. Take(q)
        BY <1>8, <2>4, <3>1 DEF Start, Discard, Resume, CallerLeaves, GapTimeout, Finalize
      <3>3. /\ taken' = [taken EXCEPT ![q] = @ + 1]
            /\ IF said[q][taken[q] + 1].kind = "chunk" THEN TakeChunk(q)
               ELSE End(q, said[q][taken[q] + 1].kind)
        BY <3>2 DEF Take
      <3>4. said[r][taken[r] + 1].kind = "chunk"
        <4>1. ASSUME NEW kind, End(q, kind) PROVE stage'[q] \notin Live
          BY <4>1 DEF End, Live, TypeOK
        <4>2. QED
          BY <3>1, <3>3, <4>1
      <3>5. PICK i \in taken[r] + 1 .. Len(said[r]) : said[r][i].kind # "chunk"
        BY <2>2 DEF NobodyWaitsOnAClosedSocket
      <3>6. taken[r] \in Nat /\ Len(said[r]) \in Nat /\ taken'[r] = taken[r] + 1
        BY <3>1, <3>3 DEF TypeOK
      <3>7. i \in taken'[r] + 1 .. Len(said[r])
        BY <3>4, <3>5, <3>6
      <3>8. QED
        BY <2>1, <3>5, <3>7 DEF ClosingAhead
    <2>5. QED
      BY <2>3, <2>4
  <1>9. CASE Next
    BY <1>2, <1>4, <1>5, <1>6, <1>7, <1>8, <1>9, NextCases, QuietSteps
    DEF Disconnect, HandlerFault, relayVars
  <1>10. QED
    BY <1>2, <1>9 DEF vars, socketVars, streamVars

(***************************************************************************)
(* A socket that drops fails its completions now: a generator running      *)
(* after its socket closed has a closing item ahead of it in its queue.    *)
(***************************************************************************)
THEOREM NobodyIsLeftWaiting == Spec => []NobodyWaitsOnAClosedSocket
  <1>1. Init => NobodyWaitsOnAClosedSocket
    BY DEF Init, NobodyWaitsOnAClosedSocket, Live
  <1>2. TypeOK /\ Binding /\ Hearing /\ NobodyWaitsOnAClosedSocket /\ [Next]_vars
          => (TypeOK /\ Binding /\ Hearing /\ NobodyWaitsOnAClosedSocket)'
    BY NextType, BindingNext, HearingNext, WaitsNext
  <1>3. QED
    BY InitType, BindingInit, HearingInit, <1>1, <1>2, PTL DEF Spec

(***************************************************************************)
(* An identity loses its link only by that link's own socket closing: the  *)
(* teardown of a replaced socket leaves its replacement attached.          *)
(***************************************************************************)
THEOREM ReplacementIsSafe == Spec => ReplacementSurvives
  <1>1. ASSUME TypeOK, [Next]_vars, NEW k \in Keys, attached[k] # None, attached'[k] = None
        PROVE  phase'[attached[k]] = "closed"
    <2> USE <1>1
    <2>1. ASSUME NEW c \in Connections, Teardown(c) PROVE phase'[attached[k]] = "closed"
      <3>1. attached[k] = c
        BY <2>1 DEF Teardown, Detach, coreVars, TypeOK
      <3>2. QED
        BY <2>1, <3>1 DEF Teardown, TypeOK
    <2>2. ASSUME NEW c \in Connections, Accept(c) \/ HandshakeFails(c) \/ Attach(c)
          PROVE  attached'[k] # None
      BY <2>2, ConstantsAssumption
      DEF Accept, HandshakeFails, Attach, AttachLink, coreVars, TypeOK
    <2>3. ASSUME UNCHANGED attached PROVE FALSE
      BY <2>3
    <2>4. ASSUME NEW c \in Connections, NEW r \in Requests, NEW kind \in AnswerKinds,
                 ReceiveAnswer(c, r, kind)
          PROVE  UNCHANGED attached
      BY <2>4 DEF ReceiveAnswer, coreVars
    <2>5. ASSUME NEW r \in Requests, NEW j \in Keys, NEW m \in Models,
                 Complete(r, j, m) \/ Unavailable(r, j, m)
          PROVE  UNCHANGED attached
      BY <2>5 DEF Complete, Unavailable, coreVars
    <2>6. CASE Next
      BY <2>1, <2>2, <2>3, <2>4, <2>5, <2>6, NextCases, QuietSteps, StreamShape
      DEF Disconnect, HandlerFault, relayVars
    <2>7. QED
      BY <2>3, <2>6 DEF vars, coreVars
  <1>2. TypeOK /\ [Next]_vars =>
          [\A k \in Keys : (attached[k] # None /\ attached'[k] = None)
                             => phase'[attached[k]] = "closed"]_vars
    BY <1>1
  <1>3. QED
    BY TypeCorrect, <1>2, PTL DEF Spec, ReplacementSurvives

-----------------------------------------------------------------------------
(***************************************************************************)
(* KyokSocket implements CompletionContract: the initial states agree, and *)
(* every step of the relay is a step of the contract or none.              *)
(***************************************************************************)

(* Putting an item in a queue is saying one word. *)
LEMMA KindsAppend ==
  ASSUME NEW q \in Seq(Items), NEW item \in Items
  PROVE  KindsOf(Append(q, item)) = Append(KindsOf(q), item.kind)
  <1> DEFINE n == Len(q)
  <1>1. n \in Nat /\ \A i \in 1..n : q[i].kind \in ItemKinds
    <2>1. n \in Nat /\ \A i \in 1..n : q[i] \in Items
      OBVIOUS
    <2>2. QED
      BY <2>1 DEF Items
  <1>2. item.kind \in ItemKinds
    BY DEF Items
  <1>3. KindsOf(q) \in Seq(ItemKinds) /\ Len(KindsOf(q)) = n
    BY <1>1 DEF KindsOf
  <1>4. /\ Len(Append(q, item)) = n + 1
        /\ \A i \in 1..n : Append(q, item)[i] = q[i]
        /\ Append(q, item)[n + 1] = item
    OBVIOUS
  <1>5. \A i \in 1..n + 1 : Append(q, item)[i].kind \in ItemKinds
    BY <1>1, <1>2, <1>4
  <1>6. KindsOf(Append(q, item)) \in Seq(ItemKinds) /\ Len(KindsOf(Append(q, item))) = n + 1
    BY <1>1, <1>4, <1>5 DEF KindsOf
  <1>7. /\ Append(KindsOf(q), item.kind) \in Seq(ItemKinds)
        /\ Len(Append(KindsOf(q), item.kind)) = n + 1
        /\ \A i \in 1..n : Append(KindsOf(q), item.kind)[i] = KindsOf(q)[i]
        /\ Append(KindsOf(q), item.kind)[n + 1] = item.kind
    BY <1>2, <1>3, AppendProperties
  <1>8. \A i \in 1..n + 1 : KindsOf(Append(q, item))[i] = Append(KindsOf(q), item.kind)[i]
    <2> SUFFICES ASSUME NEW i \in 1..n + 1
                 PROVE  KindsOf(Append(q, item))[i] = Append(KindsOf(q), item.kind)[i]
      OBVIOUS
    <2>1. KindsOf(Append(q, item))[i] = Append(q, item)[i].kind
      BY <1>4 DEF KindsOf
    <2>2. CASE i = n + 1
      BY <1>4, <1>7, <2>1, <2>2
    <2>3. CASE i \in 1..n
      BY <1>4, <1>7, <2>1, <2>3 DEF KindsOf
    <2>4. i = n + 1 \/ i \in 1..n
      BY <1>1
    <2>5. QED
      BY <2>2, <2>3, <2>4
  <1>9. QED
    BY <1>6, <1>7, <1>8, SeqEqual

(* As long as a stream is open, every frame of it is a chunk. *)
LEMMA OpenHeard ==
  ASSUME TypeOK, NEW r \in Requests, HeardSoFar(r), stage[r] \notin {"complete", "failed"}
  PROVE  ChunksHeard(r) = taken[r]
  <1>1. taken[r] \in Nat /\ Len(body[r]) = taken[r] /\ \A i \in 1..taken[r] : body[r][i] = "chunk"
    BY DEF TypeOK, HeardSoFar, AllChunks
  <1>2. {i \in 1..Len(body[r]) : body[r][i] = "chunk"} = 1..taken[r]
    BY <1>1
  <1>3. Cardinality(1..taken[r]) = taken[r]
    BY <1>1, FS_Interval
  <1>4. QED
    BY <1>2, <1>3 DEF ChunksHeard

(* The frame that closes a stream adds nothing to what was heard. *)
LEMMA ClosingHeard ==
  ASSUME TypeOK, NEW r \in Requests, HeardSoFar(r), stage[r] \notin {"complete", "failed"},
         NEW frame \in {"[DONE]", "refusal", "error"}, body'[r] = Append(body[r], frame)
  PROVE  ChunksHeard(r)' = ChunksHeard(r)
  <1>1. body[r] \in Seq({"chunk", "[DONE]", "refusal", "error"})
    BY DEF TypeOK
  <1>2. /\ Len(body'[r]) = Len(body[r]) + 1 /\ Len(body[r]) \in Nat
        /\ \A i \in 1..Len(body[r]) : body'[r][i] = body[r][i]
        /\ body'[r][Len(body[r]) + 1] # "chunk"
    BY <1>1
  <1>3. {i \in 1..Len(body'[r]) : body'[r][i] = "chunk"}
          = {i \in 1..Len(body[r]) : body[r][i] = "chunk"}
    BY <1>2
  <1>4. QED
    BY <1>3 DEF ChunksHeard

-----------------------------------------------------------------------------
(* Each step, seen from the asker's side. *)

LEMMA ContractInit == Init => Contract!Init
  <1> SUFFICES ASSUME Init PROVE Contract!Init
    OBVIOUS
  <1>1. ASSUME NEW r \in Requests
        PROVE  KindsOf(said[r]) = <<>> /\ ChunksHeard(r) = 0 /\ Fate(r) = "idle"
    <2>1. said[r] = <<>> /\ body[r] = <<>> /\ stage[r] = "none"
      BY DEF Init
    <2>2. {i \in 1..Len(body[r]) : body[r][i] = "chunk"} = {}
      BY <2>1
    <2>3. ChunksHeard(r) = 0
      BY <2>2, FS_EmptySet DEF ChunksHeard
    <2>4. KindsOf(said[r]) = <<>>
      BY <2>1 DEF KindsOf
    <2>5. Fate(r) = "idle"
      BY <2>1 DEF Fate, Live
    <2>6. QED
      BY <2>3, <2>4, <2>5
  <1>2. QED
    BY <1>1 DEF Init, Contract!Init

(* A step that leaves the asker's side alone. *)
LEMMA ContractStutters ==
  ASSUME UNCHANGED <<link, said, body>>, \A r \in Requests : Fate(r)' = Fate(r)
  PROVE  UNCHANGED Contract!vars
  BY DEF Contract!vars, ChunksHeard, KindsOf

LEMMA SaidIsSpoken ==
  ASSUME TypeOK, NEW c \in Connections, NEW S \in SUBSET Requests, NEW kind \in ItemKinds,
         \A r \in S : link[r] = c,
         said' = [r \in Requests |-> IF r \in S THEN Append(said[r], Item(kind, c)) ELSE said[r]],
         UNCHANGED <<link, stage, body>>
  PROVE  Contract!Next
  <1>1. S \in SUBSET {r \in Requests : [q \in Requests |-> link[q]][r] = c}
    OBVIOUS
  <1>2. Item(kind, c) \in Items /\ Item(kind, c).kind = kind
    BY DEF Item, Items
  <1>3. ASSUME NEW r \in Requests
        PROVE  KindsOf(said[r])' = IF r \in S THEN Append(KindsOf(said[r]), kind)
                                              ELSE KindsOf(said[r])
    <2>1. said[r] \in Seq(Items)
      BY DEF TypeOK
    <2>2. KindsOf(said[r])' = KindsOf(said'[r])
      BY DEF KindsOf
    <2>3. CASE r \in S
      BY <1>2, <2>1, <2>2, <2>3, KindsAppend
    <2>4. CASE r \notin S
      BY <2>2, <2>4
    <2>5. QED
      BY <2>3, <2>4
  <1>4. \A r \in Requests : ChunksHeard(r)' = ChunksHeard(r) /\ Fate(r)' = Fate(r)
    BY DEF ChunksHeard, Fate
  <1>5. Contract!Speak(c)
    BY <1>1, <1>3, <1>4 DEF Contract!Speak
  <1>6. QED
    BY <1>5 DEF Contract!Next

LEMMA ContractTeardown ==
  ASSUME TypeOK, Binding, NEW c \in Connections, Teardown(c)
  PROVE  Contract!Next
  <1>1. table[c] \in SUBSET Requests /\ \A r \in table[c] : link[r] = c
    BY DEF TypeOK, Binding, TableIsTheBinding
  <1>2. QED
    BY <1>1, SaidIsSpoken DEF Teardown, FailPending, streamVars, ItemKinds

LEMMA ContractAnswer ==
  ASSUME TypeOK, Binding, NEW c \in Connections, NEW r \in Requests, NEW kind \in AnswerKinds,
         ReceiveAnswer(c, r, kind)
  PROVE  [Contract!Next]_Contract!vars
  <1>1. UNCHANGED <<link, stage, body>>
    BY DEF ReceiveAnswer, streamVars
  <1>2. CASE said' = said
    BY <1>1, <1>2, ContractStutters DEF Fate
  <1>3. CASE InFlight(c, r) /\ said' = [said EXCEPT ![r] = Append(@, Item(kind, c))]
    <2>1. link[r] = c
      BY <1>3 DEF InFlight, Binding, TableIsTheBinding
    <2>2. said' = [q \in Requests |-> IF q \in {r} THEN Append(said[q], Item(kind, c)) ELSE said[q]]
      BY <1>3 DEF TypeOK
    <2>3. kind \in ItemKinds /\ {r} \in SUBSET Requests /\ \A q \in {r} : link[q] = c
      BY <2>1 DEF ItemKinds
    <2>4. Contract!Next
      BY <1>1, <2>2, <2>3, SaidIsSpoken
    <2>5. QED
      BY <2>4
  <1>4. QED
    BY <1>2, <1>3 DEF ReceiveAnswer

(* One completion's place changes, and nothing else the asker sees. *)
LEMMA Decided ==
  ASSUME TypeOK, NEW r \in Requests, UNCHANGED <<link, said>>,
         \A q \in Requests \ {r} : stage'[q] = stage[q],
         \A q \in Requests : ChunksHeard(q)' = ChunksHeard(q),
         \/ Fate(r) = "idle" /\ Fate(r)' = "refused"
         \/ Fate(r) = "open" /\ Fate(r)' \in {"failed", "abandoned"}
         \/ /\ Fate(r) = "open" /\ Fate(r)' = "complete"
            /\ ChunksHeard(r) = taken[r] /\ taken[r] < Len(said[r])
            /\ said[r][taken[r] + 1].kind = "done"
  PROVE  Contract!Next
  <1> DEFINE fate == [q \in Requests |-> Fate(q)]
  <1>1. \A q \in Requests \ {r} : Fate(q)' = Fate(q)
    BY DEF Fate
  <1>2. ASSUME NEW outcome, Fate(r)' = outcome PROVE Contract!Decide(r, outcome)
    BY <1>1, <1>2 DEF Contract!Decide
  <1>3. UNCHANGED <<link, [q \in Requests |-> KindsOf(said[q])], [q \in Requests |-> ChunksHeard(q)]>>
    BY DEF KindsOf
  <1>4. CASE Fate(r) = "idle" /\ Fate(r)' = "refused"
    BY <1>2, <1>3, <1>4 DEF Contract!Next, Contract!Refuse
  <1>5. CASE Fate(r) = "open" /\ Fate(r)' = "failed"
    BY <1>2, <1>3, <1>5 DEF Contract!Next, Contract!Fail
  <1>6. CASE Fate(r) = "open" /\ Fate(r)' = "abandoned"
    BY <1>2, <1>3, <1>6 DEF Contract!Next, Contract!Abandon
  <1>7. CASE /\ Fate(r) = "open" /\ Fate(r)' = "complete"
             /\ ChunksHeard(r) = taken[r] /\ taken[r] < Len(said[r])
             /\ said[r][taken[r] + 1].kind = "done"
    <2>1. taken[r] \in Nat /\ Len(said[r]) \in Nat
      BY DEF TypeOK
    <2>2. Len(KindsOf(said[r])) = Len(said[r]) /\ KindsOf(said[r])[taken[r] + 1] = "done"
      BY <1>7, <2>1 DEF KindsOf
    <2>3. Contract!NextWordIs(r, "done")
      BY <1>7, <2>2 DEF Contract!NextWordIs
    <2>4. QED
      BY <1>2, <1>3, <1>7, <2>3 DEF Contract!Next, Contract!Conclude
  <1>8. QED
    BY <1>4, <1>5, <1>6, <1>7

LEMMA ContractTake ==
  ASSUME TypeOK, Hearing, NEW r \in Requests, Take(r)
  PROVE  Contract!Next
  <1> DEFINE kind == said[r][taken[r] + 1].kind
  <1>1. /\ stage[r] = "reading" /\ taken[r] < Len(said[r]) /\ taken[r] \in Nat /\ Len(said[r]) \in Nat
        /\ taken'[r] = taken[r] + 1 /\ UNCHANGED <<link, said>>
        /\ IF kind = "chunk" THEN TakeChunk(r) ELSE End(r, kind)
    BY DEF Take, TypeOK
  <1>2. HeardSoFar(r) /\ ChunksHeard(r) = taken[r] /\ Fate(r) = "open"
    BY <1>1, OpenHeard DEF Hearing, Fate, Live
  <1>3. /\ \A q \in Requests \ {r} : stage'[q] = stage[q] /\ body'[q] = body[q]
    BY StreamShape
  <1>4. \A q \in Requests \ {r} : ChunksHeard(q)' = ChunksHeard(q) /\ Fate(q)' = Fate(q)
    BY <1>3 DEF ChunksHeard, Fate
  <1>5. CASE kind = "chunk"
    <2>1. TypeOK' /\ HeardSoFar(r)'
      BY <1>2, HearingTake, StreamType
    <2>2. stage'[r] = "yielded"
      BY <1>1, <1>5 DEF TakeChunk, TypeOK
    <2>3. ChunksHeard(r)' = taken[r] + 1 /\ Fate(r)' = "open"
      <3>1. (TypeOK /\ HeardSoFar(r) /\ stage[r] \notin {"complete", "failed"}
               => ChunksHeard(r) = taken[r])'
        BY OpenHeard, PTL
      <3>2. QED
        BY <1>1, <2>1, <2>2, <3>1 DEF Fate, Live
    <2>4. Contract!NextWordIs(r, "chunk")
      <3>1. Len(KindsOf(said[r])) = Len(said[r]) /\ KindsOf(said[r])[taken[r] + 1] = "chunk"
        BY <1>1, <1>5 DEF KindsOf
      <3>2. QED
        BY <1>1, <1>2, <3>1 DEF Contract!NextWordIs
    <2>5. UNCHANGED <<link, [q \in Requests |-> KindsOf(said[q])], [q \in Requests |-> Fate(q)]>>
      BY <1>1, <1>2, <1>4, <2>3 DEF KindsOf
    <2>6. [q \in Requests |-> ChunksHeard(q)]'
            = [[q \in Requests |-> ChunksHeard(q)] EXCEPT ![r] = @ + 1]
      BY <1>2, <1>4, <2>3
    <2>7. QED
      BY <1>2, <2>4, <2>5, <2>6 DEF Contract!Next, Contract!Hear
  <1>6. CASE kind # "chunk"
    <2>1. Closing(kind) \in {"[DONE]", "refusal", "error"} /\ body'[r] = Append(body[r], Closing(kind))
      BY <1>1, <1>6 DEF Closing, End, TypeOK
    <2>2. \A q \in Requests : ChunksHeard(q)' = ChunksHeard(q)
      BY <1>1, <1>2, <1>4, <2>1, ClosingHeard
    <2>3. stage'[r] = IF kind = "done" THEN "complete" ELSE "failed"
      BY <1>1, <1>6 DEF End, TypeOK
    <2>4. Fate(r)' = IF kind = "done" THEN "complete" ELSE "failed"
      BY <2>3 DEF Fate, Live
    <2>5. QED
      BY <1>1, <1>2, <1>3, <2>2, <2>4, Decided
  <1>7. QED
    BY <1>5, <1>6

LEMMA ContractStream ==
  ASSUME TypeOK, Hearing, NEW r \in Requests,
         \/ Start(r) \/ Discard(r) \/ Resume(r)
         \/ CallerLeaves(r) \/ GapTimeout(r) \/ Finalize(r)
  PROVE  [Contract!Next]_Contract!vars
  <1>1. /\ UNCHANGED <<said, link>>
        /\ \A q \in Requests \ {r} : stage'[q] = stage[q] /\ body'[q] = body[q]
    BY StreamShape
  <1>2. \A q \in Requests \ {r} : ChunksHeard(q)' = ChunksHeard(q) /\ Fate(q)' = Fate(q)
    BY <1>1 DEF ChunksHeard, Fate
  <1>3. CASE Start(r) \/ Resume(r) \/ Finalize(r)
    <2>1. body' = body /\ Fate(r)' = Fate(r)
      BY <1>3 DEF Start, Resume, Finalize, Fate, Live, TypeOK
    <2>2. QED
      BY <1>1, <1>2, <2>1, ContractStutters
  <1>4. CASE Discard(r) \/ CallerLeaves(r)
    <2>1. body' = body /\ Fate(r) = "open" /\ Fate(r)' = "abandoned"
      BY <1>4 DEF Discard, CallerLeaves, Fate, Live, TypeOK
    <2>2. \A q \in Requests : ChunksHeard(q)' = ChunksHeard(q)
      BY <2>1 DEF ChunksHeard
    <2>3. QED
      BY <1>1, <2>1, <2>2, Decided
  <1>5. CASE GapTimeout(r)
    <2>1. /\ stage[r] = "reading" /\ stage'[r] = "failed" /\ body'[r] = Append(body[r], "error")
      BY <1>5 DEF GapTimeout, End, Closing, TypeOK
    <2>2. Fate(r) = "open" /\ Fate(r)' = "failed"
      BY <2>1 DEF Fate, Live
    <2>3. \A q \in Requests : ChunksHeard(q)' = ChunksHeard(q)
      BY <1>2, <2>1, ClosingHeard DEF Hearing
    <2>4. QED
      BY <1>1, <2>2, <2>3, Decided
  <1>6. QED
    BY <1>3, <1>4, <1>5

LEMMA ContractAsk ==
  ASSUME TypeOK, Binding, NEW r \in Requests, NEW k \in Keys, NEW m \in Models,
         Complete(r, k, m) \/ Unavailable(r, k, m)
  PROVE  Contract!Next
  <1>1. /\ stage[r] = "none" /\ Fate(r) = "idle" /\ UNCHANGED <<said, body>>
        /\ \A q \in Requests : ChunksHeard(q)' = ChunksHeard(q)
    BY DEF Complete, Unavailable, Fate, ChunksHeard, Live
  <1>2. CASE Complete(r, k, m)
    <2>1. /\ attached[k] \in Connections /\ link' = [link EXCEPT ![r] = attached[k]]
          /\ stage' = [stage EXCEPT ![r] = "unstarted"]
      BY <1>2 DEF Complete, TypeOK
    <2>2. [q \in Requests |-> Fate(q)]' = [[q \in Requests |-> Fate(q)] EXCEPT ![r] = "open"]
      BY <2>1 DEF Fate, Live, TypeOK
    <2>3. UNCHANGED <<[q \in Requests |-> KindsOf(said[q])], [q \in Requests |-> ChunksHeard(q)]>>
      BY <1>1 DEF KindsOf
    <2>4. Contract!Give(r, attached[k])
      BY <1>1, <2>1, <2>2, <2>3 DEF Contract!Give, Contract!Decide
    <2>5. QED
      BY <2>1, <2>4 DEF Contract!Next
  <1>3. CASE Unavailable(r, k, m)
    <2>1. stage' = [stage EXCEPT ![r] = "rejected"] /\ link' = link
      BY <1>3 DEF Unavailable
    <2>2. Fate(r)' = "refused"
      BY <2>1 DEF Fate, Live, TypeOK
    <2>3. QED
      BY <1>1, <2>1, <2>2, Decided DEF TypeOK
  <1>4. QED
    BY <1>2, <1>3

LEMMA ContractNext ==
  TypeOK /\ Binding /\ Hearing /\ [Next]_vars => [Contract!Next]_Contract!vars
  <1> SUFFICES ASSUME TypeOK, Binding, Hearing, [Next]_vars
               PROVE  [Contract!Next]_Contract!vars
    OBVIOUS
  <1>1. CASE UNCHANGED <<link, said, stage, body>>
    BY <1>1, ContractStutters DEF Fate
  <1>2. ASSUME NEW c \in Connections, Accept(c) \/ HandshakeFails(c) \/ Attach(c)
        PROVE  UNCHANGED <<link, said, stage, body>>
    BY <1>2 DEF Accept, HandshakeFails, Attach, streamVars
  <1>3. CASE Next
    BY <1>1, <1>2, <1>3, NextCases, QuietSteps, ContractTeardown, ContractAnswer, ContractAsk,
       ContractTake, ContractStream DEF Disconnect, HandlerFault, relayVars
  <1>4. QED
    BY <1>1, <1>3 DEF vars, streamVars

(***************************************************************************)
(* The relay keeps its contract: whatever sockets, timers and callers do,  *)
(* each step is one the abstract exchange allows, or none of its business. *)
(***************************************************************************)
THEOREM RelayKeepsTheContract == Spec => ContractKept
  <1>1. TypeOK /\ Binding /\ Hearing /\ [Next]_vars => (TypeOK /\ Binding /\ Hearing)'
    BY NextType, BindingNext, HearingNext
  <1>2. QED
    BY InitType, BindingInit, HearingInit, ContractInit, ContractNext, <1>1, PTL
    DEF Spec, ContractKept, Contract!Spec
=============================================================================
