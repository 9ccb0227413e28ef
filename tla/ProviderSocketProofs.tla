------------------------ MODULE ProviderSocketProofs ------------------------
(***************************************************************************)
(* Proofs about ProviderSocket: what the watcher reads as the account of   *)
(* the link is what core serves, cards say what the roster said, and an    *)
(* agent goes offline only by its own link.                                *)
(***************************************************************************)
EXTENDS ProviderSocket, TLAPS

LEMMA Cases ==
  ASSUME Next
  PROVE  \/ \E c \in Connections : SocketStep(c)
         \/ \E k \in Keys : Delist(k)
  BY DEF Next

(* One step of a socket, by what kind of step it is. *)
LEMMA SocketCases ==
  ASSUME NEW c, SocketStep(c)
  PROVE  \/ Accept(c) \/ HandshakeFails(c) \/ Attach(c)
         \/ phase[c] = "open" /\ call[c] = NoCall /\ Teardown(c)
         \/ call[c] # NoCall /\ Teardown(c)
         \/ RejectFrame(c) \/ ReceiveRegister(c) \/ ReceiveDelete(c)
         \/ CoreWrites(c) \/ FinishRegister(c) \/ FinishDelete(c) \/ CallRefused(c)
         \/ WriterStep(c) \/ WatcherStep(c) \/ WireBreaks(c)
  BY DEF SocketStep, CallStep, Disconnect, Reading, HandlerFault

(* Quiet steps touch neither what a link publishes nor what core holds. *)
Untouched == UNCHANGED <<linkVars, coreVars>>

LEMMA CallTypes ==
  /\ NoCall \notin Calls
  /\ NoCall.op = "none" /\ NoCall.written = FALSE
  /\ \A names \in SUBSET Names, takers \in SUBSET Names, op \in {"register", "delete"}, w \in BOOLEAN :
       [op |-> op, names |-> names, takers |-> takers, written |-> w] \in Calls
  /\ \A x \in Calls \cup {NoCall} : x.names \in SUBSET Names /\ x.takers \in SUBSET Names
  BY DEF NoCall, Calls

LEMMA WatcherTypes ==
  /\ \A at \in {"off", "asleep", "returned", "raised"} : Watcher(at) \in Watchers
  /\ \A todo \in SUBSET Names, found \in BOOLEAN :
       [at |-> "asking", todo |-> todo, found |-> found] \in Watchers
  /\ \A x \in Watchers : x.todo \in SUBSET Names /\ x.found \in BOOLEAN
  <1>1. \A at \in {"off", "asleep", "returned", "raised"} : Watcher(at) \in Watchers
    BY DEF Watcher, Watchers
  <1>2. \A todo \in SUBSET Names, found \in BOOLEAN :
          [at |-> "asking", todo |-> todo, found |-> found] \in Watchers
    BY DEF Watchers
  <1>3. \A x \in Watchers : x.todo \in SUBSET Names /\ x.found \in BOOLEAN
    BY DEF Watchers
  <1>4. QED
    BY <1>1, <1>2, <1>3

LEMMA PostType ==
  ASSUME outbound \in [Connections -> Seq(Frames)], NEW c \in Connections, NEW frame \in Frames,
         Post(c, frame)
  PROVE  outbound' \in [Connections -> Seq(Frames)]
  <1>1. Append(outbound[c], frame) \in Seq(Frames)
    OBVIOUS
  <1>2. QED
    BY <1>1 DEF Post

LEMMA TypeInit == Init => TypeOK
  <1>1. <<>> \in Seq(Frames)
    OBVIOUS
  <1>2. QED
    BY <1>1, WatcherTypes DEF Init, TypeOK

(* The registry's frames, and the calls they become. *)
LEMMA RegistryTypes ==
  ASSUME TypeOK, NEW c \in Connections,
         \/ RejectFrame(c) \/ ReceiveRegister(c) \/ ReceiveDelete(c)
         \/ CoreWrites(c) \/ FinishRegister(c) \/ FinishDelete(c) \/ CallRefused(c)
  PROVE  TypeOK'
  <1>0. /\ KeyOf[c] \in Keys
        /\ call[c].names \in SUBSET Names /\ call[c].takers \in SUBSET Names
        /\ {"error", "registered", "deleted"} \subseteq Frames
        /\ call[c] # NoCall => call[c] \in Calls
    BY ProviderAssumption, CallTypes DEF TypeOK, Frames
  <1>1. CASE RejectFrame(c)
    BY <1>0, <1>1, PostType DEF RejectFrame, TypeOK, linkVars, coreVars
  <1>2. CASE ReceiveRegister(c)
    <2>1. PICK names \in SUBSET Names : \E takers \in SUBSET names :
            /\ declared' = [declared EXCEPT ![c] = takers]
            /\ call' = [call EXCEPT ![c] = [op |-> "register", names |-> names,
                                            takers |-> takers, written |-> FALSE]]
      BY <1>2 DEF ReceiveRegister, Declare
    <2>2. PICK takers \in SUBSET Names :
            /\ declared' = [declared EXCEPT ![c] = takers]
            /\ call' = [call EXCEPT ![c] = [op |-> "register", names |-> names,
                                            takers |-> takers, written |-> FALSE]]
      BY <2>1
    <2>3. call' \in [Connections -> Calls \cup {NoCall}]
      BY <2>2, CallTypes DEF TypeOK
    <2>4. QED
      BY <1>2, <2>2, <2>3 DEF ReceiveRegister, TypeOK, writeVars, coreVars
  <1>3. CASE ReceiveDelete(c)
    <2>1. PICK n \in Names : call' = [call EXCEPT ![c] = [op |-> "delete", names |-> {n},
                                                         takers |-> {}, written |-> FALSE]]
      BY <1>3 DEF ReceiveDelete
    <2>2. call' \in [Connections -> Calls \cup {NoCall}]
      BY <2>1, CallTypes DEF TypeOK
    <2>3. QED
      BY <1>3, <2>2 DEF ReceiveDelete, TypeOK, linkVars, writeVars, coreVars
  <1>4. CASE CoreWrites(c)
    <2>1. call' \in [Connections -> Calls \cup {NoCall}]
      <3>1. [call[c] EXCEPT !.written = TRUE] \in Calls
        BY <1>0, <1>4 DEF CoreWrites, Calls
      <3>2. QED
        BY <1>4, <3>1 DEF CoreWrites, TypeOK
    <2>2. listed' \in [Keys -> SUBSET Names] /\ card' \in [Keys -> SUBSET Names]
      BY <1>0, <1>4 DEF CoreWrites, TypeOK
    <2>3. QED
      BY <1>4, <2>1, <2>2 DEF CoreWrites, TypeOK, linkVars, writeVars
  <1>5. CASE FinishRegister(c)
    BY <1>0, <1>5, PostType DEF FinishRegister, GoLive, TypeOK
  <1>6. CASE FinishDelete(c)
    BY <1>0, <1>6, PostType DEF FinishDelete, GoLive, Unpublish, TypeOK
  <1>7. CASE CallRefused(c)
    BY <1>0, <1>7, PostType DEF CallRefused, TypeOK, linkVars, coreVars
  <1>8. QED
    BY <1>1, <1>2, <1>3, <1>4, <1>5, <1>6, <1>7

(* The socket's life, and the tasks beside its read loop. *)
LEMMA LifeTypes ==
  ASSUME TypeOK, NEW c \in Connections,
         \/ Accept(c) \/ HandshakeFails(c) \/ Attach(c) \/ Teardown(c) \/ WireBreaks(c)
  PROVE  TypeOK'
  <1>0. KeyOf[c] \in Keys /\ <<>> \in Seq(Frames) /\ <<"welcome">> \in Seq(Frames)
    BY ProviderAssumption DEF Frames
  <1>1. CASE Accept(c) \/ HandshakeFails(c) \/ WireBreaks(c)
    BY <1>1 DEF Accept, HandshakeFails, WireBreaks, TypeOK, writeVars, linkVars, coreVars
  <1>2. CASE Attach(c)
    BY <1>0, <1>2, WatcherTypes DEF Attach, AttachLink, TypeOK, linkVars
  <1>3. CASE Teardown(c)
    BY <1>0, <1>3, WatcherTypes DEF Teardown, Detach, TypeOK, writeVars, linkVars
  <1>4. QED
    BY <1>1, <1>2, <1>3

LEMMA TaskTypes ==
  ASSUME TypeOK, NEW c \in Connections, WriterStep(c) \/ WatcherStep(c)
  PROVE  TypeOK'
  <1>0. <<>> \in Seq(Frames) /\ "close" \in Frames
    BY DEF Frames
  <1>1. CASE WriterStep(c)
    <2>1. outbound[c] # <<>> => Tail(outbound[c]) \in Seq(Frames)
      BY DEF TypeOK
    <2>2. CASE WriteFrame(c)
      BY <2>1, <2>2 DEF WriteFrame, TypeOK, linkVars, coreVars
    <2>3. CASE WriteClose(c)
      BY <1>0, <2>3 DEF WriteClose, TypeOK, linkVars, coreVars
    <2>4. CASE WriterFails(c)
      BY <1>0, <2>4 DEF WriterFails, TypeOK, linkVars, coreVars
    <2>5. QED
      BY <1>1, <2>2, <2>3, <2>4 DEF WriterStep
  <1>2. CASE WatcherAsks(c)
    <2>1. PICK n \in watcher[c].todo :
            /\ watcher[c].at = "asking"
            /\ watcher' = [watcher EXCEPT ![c].todo = @ \ {n},
                                          ![c].found = @ \/ n \in listed[KeyOf[c]]]
      BY <1>2 DEF WatcherAsks
    <2>2. watcher[c] \in Watchers /\ watcher[c].todo \in SUBSET Names /\ watcher[c].found \in BOOLEAN
      BY WatcherTypes DEF TypeOK
    <2>3. PICK b \in BOOLEAN : watcher' = [watcher EXCEPT ![c].todo = @ \ {n}, ![c].found = b]
      BY <2>1
    <2>4. watcher'[c] \in Watchers
      <3>1. watcher'[c] = [watcher[c] EXCEPT !.todo = @ \ {n}, !.found = b]
        BY <2>3 DEF TypeOK
      <3>2. watcher[c] \in [at : {"asking"}, todo : SUBSET Names, found : BOOLEAN]
        BY <2>1, <2>2 DEF Watchers
      <3>3. QED
        BY <3>1, <3>2 DEF Watchers
    <2>5. watcher' \in [Connections -> Watchers]
      BY <2>3, <2>4 DEF TypeOK
    <2>6. QED
      BY <1>2, <2>5 DEF WatcherAsks, TypeOK, writeVars, linkVars, coreVars
  <1>3. CASE WatcherWakes(c)
    BY <1>3, WatcherTypes DEF WatcherWakes, TypeOK, writeVars, linkVars, coreVars
  <1>4. CASE WatcherRaises(c) \/ WatcherRests(c)
    BY <1>4, WatcherTypes DEF WatcherRaises, WatcherRests, TypeOK, writeVars, linkVars, coreVars
  <1>5. CASE WatcherCloses(c)
    BY <1>0, <1>5, WatcherTypes, PostType DEF WatcherCloses, TypeOK, linkVars, coreVars
  <1>6. QED
    BY <1>1, <1>2, <1>3, <1>4, <1>5 DEF WatcherStep

LEMMA TypeNext == TypeOK /\ [Next]_vars => TypeOK'
  <1> SUFFICES ASSUME TypeOK, [Next]_vars PROVE TypeOK'
    OBVIOUS
  <1>1. ASSUME NEW c \in Connections, SocketStep(c) PROVE TypeOK'
    BY <1>1, SocketCases, RegistryTypes, LifeTypes, TaskTypes
  <1>2. ASSUME NEW k \in Keys, Delist(k) PROVE TypeOK'
    BY <1>2 DEF Delist, TypeOK, writeVars, linkVars
  <1>3. CASE UNCHANGED vars
    BY <1>3 DEF vars, TypeOK, writeVars, linkVars, coreVars
  <1>4. QED
    BY <1>1, <1>2, <1>3, Cases

(***************************************************************************)
(* Every variable of the provider's side of the gateway keeps its type.    *)
(***************************************************************************)
THEOREM ProviderTypeCorrect == Spec => []TypeOK
  BY TypeInit, TypeNext, PTL DEF Spec

-----------------------------------------------------------------------------
(***************************************************************************)
(* The registry.  A link core has attached is an open socket of its        *)
(* identity and publishes what core serves; a socket that was never open   *)
(* publishes nothing; a name is served by an attached link only; and until *)
(* core has written it, a roster's declarations are the link's.            *)
(***************************************************************************)
Linked(k) ==
  /\ attached[k] = None => serving[k] = {}
  /\ attached[k] # None =>
       /\ phase[attached[k]] = "open" /\ KeyOf[attached[k]] = k
       /\ published[attached[k]] = serving[k]

Socketed(c) ==
  /\ phase[c] # "open" => call[c] = NoCall
  /\ phase[c] \in {"idle", "hello"} => published[c] = {}
  /\ call[c].op = "register" /\ ~call[c].written =>
       declared[c] = call[c].takers /\ call[c].takers \subseteq call[c].names

Registry ==
  /\ \A k \in Keys : Linked(k)
  /\ \A c \in Connections : Socketed(c)

(* A step that leaves a key's link alone, or a socket alone. *)
LEMMA LinkStays ==
  ASSUME TypeOK, NEW k \in Keys, Linked(k),
         attached'[k] = attached[k], serving'[k] = serving[k],
         attached[k] # None => /\ phase'[attached[k]] = phase[attached[k]]
                               /\ published'[attached[k]] = published[attached[k]]
  PROVE  Linked(k)'
  BY DEF Linked

LEMMA SocketStays ==
  ASSUME NEW c \in Connections, Socketed(c), phase'[c] = phase[c], call'[c] = call[c],
         published'[c] = published[c], declared'[c] = declared[c]
  PROVE  Socketed(c)'
  BY DEF Socketed

LEMMA RegistryInit == Init => Registry
  BY CallTypes DEF Init, Registry, Linked, Socketed

(* Steps that are about nothing but frames, the wire and the watcher. *)
LEMMA RegistryQuiet ==
  ASSUME TypeOK, Registry, UNCHANGED <<phase, call, linkVars, attached, serving>>
  PROVE  Registry'
  BY DEF Registry, Linked, Socketed, linkVars

LEMMA RegistrySocket ==
  ASSUME TypeOK, Registry, NEW c \in Connections, SocketStep(c)
  PROVE  Registry'
  <1> DEFINE k == KeyOf[c]
  <1>0. /\ k \in Keys
        /\ \A j \in Keys : attached[j] \in Connections \cup {None}
        /\ attached \in [Keys -> Connections \cup {None}]
        /\ serving \in [Keys -> SUBSET Names]
        /\ \A j \in Keys : attached[j] = c => j = k
        /\ None \notin Connections
    BY ProviderAssumption DEF TypeOK, Registry, Linked
  <1>1. CASE Accept(c) \/ HandshakeFails(c)
    <2>1. /\ UNCHANGED <<call, published, declared, attached, serving>>
          /\ \E p \in {"hello", "closed"} : phase' = [phase EXCEPT ![c] = p]
          /\ phase[c] \in {"idle", "hello"}
      BY <1>1 DEF Accept, HandshakeFails, linkVars, coreVars
    <2>2. ASSUME NEW j \in Keys PROVE Linked(j)'
      BY <1>0, <2>1 DEF Registry, Linked, TypeOK
    <2>3. ASSUME NEW d \in Connections PROVE Socketed(d)'
      BY <2>1 DEF Registry, Socketed, TypeOK
    <2>4. QED
      BY <2>2, <2>3 DEF Registry
  <1>2. CASE Attach(c)
    <2>1. /\ phase[c] = "hello" /\ phase' = [phase EXCEPT ![c] = "open"]
          /\ attached' = [attached EXCEPT ![k] = c] /\ serving' = [serving EXCEPT ![k] = {}]
          /\ UNCHANGED <<call, published, declared>>
      BY <1>2 DEF Attach, AttachLink, linkVars
    <2>2. published[c] = {} /\ call[c] = NoCall
      BY <2>1 DEF Registry, Socketed
    <2>3. ASSUME NEW j \in Keys PROVE Linked(j)'
      <3>1. CASE j = k
        BY <1>0, <2>1, <2>2, <3>1 DEF Linked, TypeOK
      <3>2. CASE j # k
        BY <1>0, <2>1, <3>2 DEF Registry, Linked, TypeOK
      <3>3. QED
        BY <3>1, <3>2
    <2>4. ASSUME NEW d \in Connections PROVE Socketed(d)'
      BY <2>1, <2>2, CallTypes DEF Registry, Socketed, TypeOK
    <2>5. QED
      BY <2>3, <2>4 DEF Registry
  <1>3. CASE Teardown(c)
    <2>1. /\ phase' = [phase EXCEPT ![c] = "closed"] /\ call' = [call EXCEPT ![c] = NoCall]
          /\ UNCHANGED <<published, declared>>
          /\ Detach(c)
      BY <1>3 DEF Teardown, linkVars
    <2>2. ASSUME NEW j \in Keys PROVE Linked(j)'
      <3>1. CASE attached[j] = c
        <4>1. attached'[j] = None /\ serving'[j] = {}
          BY <1>0, <2>1, <3>1 DEF Detach
        <4>2. QED
          BY <4>1 DEF Linked
      <3>2. CASE attached[j] # c
        <4>1. attached'[j] = attached[j] /\ serving'[j] = serving[j]
          BY <1>0, <2>1, <3>2 DEF Detach
        <4>2. \A d \in Connections \ {c} : phase'[d] = phase[d]
          BY <2>1 DEF TypeOK
        <4>3. QED
          BY <1>0, <2>1, <3>2, <4>1, <4>2, LinkStays DEF Registry
      <3>3. QED
        BY <3>1, <3>2
    <2>3. ASSUME NEW d \in Connections PROVE Socketed(d)'
      <3>1. CASE d = c
        <4>1. phase'[c] = "closed" /\ call'[c] = NoCall
          BY <2>1 DEF TypeOK
        <4>2. QED
          BY <3>1, <4>1, CallTypes DEF Socketed
      <3>2. CASE d # c
        BY <2>1, <3>2, SocketStays DEF Registry, TypeOK
      <3>3. QED
        BY <3>1, <3>2
    <2>4. QED
      BY <2>2, <2>3 DEF Registry
  (* From here on only this socket's call moves, and with a call it is open. *)
  <1>4. ASSUME phase' = phase, attached' = attached,
               call' = [call EXCEPT ![c] = call'[c]],
               published' = [published EXCEPT ![c] = published'[c]],
               declared' = [declared EXCEPT ![c] = declared'[c]],
               Socketed(c)',
               \A j \in Keys : serving'[j] = serving[j] \/ (j = k /\ attached[k] = c),
               attached[k] = c => published'[c] = serving'[k]
        PROVE  Registry'
    <2>1. ASSUME NEW j \in Keys PROVE Linked(j)'
      <3>1. CASE attached[j] = c
        BY <1>0, <1>4, <2>1, <3>1 DEF Registry, Linked
      <3>2. CASE attached[j] # c
        <4>1. attached[j] # None => published'[attached[j]] = published[attached[j]]
          BY <1>0, <1>4, <3>2 DEF TypeOK
        <4>2. serving'[j] = serving[j]
          BY <1>4, <3>2
        <4>3. QED
          BY <1>4, <4>1, <4>2, LinkStays DEF Registry
      <3>3. QED
        BY <3>1, <3>2
    <2>2. ASSUME NEW d \in Connections PROVE Socketed(d)'
      <3>1. CASE d # c
        BY <1>4, <3>1, SocketStays DEF Registry, TypeOK
      <3>2. QED
        BY <1>4, <3>1
    <2>3. QED
      BY <2>1, <2>2 DEF Registry
  <1>5. /\ call[c] # NoCall => phase[c] = "open"
        /\ attached[k] = c => published[c] = serving[k]
        /\ call \in [Connections -> Calls \cup {NoCall}]
        /\ published \in [Connections -> SUBSET Names]
        /\ declared \in [Connections -> SUBSET Names]
    BY <1>0 DEF Registry, Linked, Socketed, TypeOK
  <1>6. CASE ReceiveRegister(c) \/ ReceiveDelete(c)
    <2>1. /\ UNCHANGED <<phase, attached, serving, published>> /\ phase[c] = "open"
          /\ call' = [call EXCEPT ![c] = call'[c]]
          /\ declared' = [declared EXCEPT ![c] = declared'[c]]
          /\ call'[c].op = "register" =>
               declared'[c] = call'[c].takers /\ call'[c].takers \subseteq call'[c].names
      <3>1. CASE ReceiveRegister(c)
        BY <1>5, <3>1 DEF ReceiveRegister, Reading, Declare, coreVars
      <3>2. CASE ReceiveDelete(c)
        BY <1>5, <3>2 DEF ReceiveDelete, Reading, linkVars, coreVars
      <3>3. QED
        BY <1>6, <3>1, <3>2
    <2>2. Socketed(c)'
      BY <2>1 DEF Socketed
    <2>3. published' = [published EXCEPT ![c] = published'[c]]
      BY <1>5, <2>1
    <2>4. QED
      BY <1>4, <1>5, <2>1, <2>2, <2>3
  <1>7. CASE CoreWrites(c)
    <2>1. /\ UNCHANGED <<phase, attached, serving, published, declared>> /\ phase[c] = "open"
          /\ call' = [call EXCEPT ![c].written = TRUE]
      BY <1>5, <1>7 DEF CoreWrites, linkVars
    <2>2. call'[c].written = TRUE /\ call' = [call EXCEPT ![c] = call'[c]]
      <3>1. call'[c] = [call[c] EXCEPT !.written = TRUE] /\ call[c] \in Calls
        BY <1>5, <1>7, <2>1 DEF CoreWrites
      <3>2. QED
        BY <1>5, <2>1, <3>1 DEF Calls
    <2>3. Socketed(c)'
      BY <2>1, <2>2 DEF Socketed
    <2>4. /\ published' = [published EXCEPT ![c] = published'[c]]
          /\ declared' = [declared EXCEPT ![c] = declared'[c]]
      BY <1>5, <2>1
    <2>5. QED
      BY <1>4, <1>5, <2>1, <2>2, <2>3, <2>4
  <1>8. CASE FinishRegister(c) \/ FinishDelete(c) \/ CallRefused(c)
    <2>1. /\ UNCHANGED <<phase, attached, declared>> /\ phase[c] = "open"
          /\ call' = [call EXCEPT ![c] = NoCall]
      BY <1>5, <1>8, CallTypes DEF FinishRegister, FinishDelete, CallRefused, linkVars, coreVars
    <2>2. /\ published' = [published EXCEPT ![c] = published'[c]]
          /\ \A j \in Keys : serving'[j] = serving[j] \/ (j = k /\ attached[k] = c)
          /\ attached[k] = c => published'[c] = serving'[k]
      <3>1. CASE FinishRegister(c)
        BY <1>0, <1>5, <3>1 DEF FinishRegister, GoLive
      <3>2. CASE FinishDelete(c)
        BY <1>0, <1>5, <3>2 DEF FinishDelete, GoLive, Unpublish
      <3>3. CASE CallRefused(c)
        BY <1>5, <3>3 DEF CallRefused, linkVars, coreVars
      <3>4. QED
        BY <1>8, <3>1, <3>2, <3>3
    <2>3. call'[c] = NoCall /\ call' = [call EXCEPT ![c] = call'[c]]
      BY <1>5, <2>1
    <2>4. Socketed(c)'
      BY <2>1, <2>3, CallTypes DEF Socketed
    <2>5. declared' = [declared EXCEPT ![c] = declared'[c]]
      BY <1>5, <2>1
    <2>6. QED
      BY <1>4, <2>1, <2>2, <2>3, <2>4, <2>5
  <1>9. CASE RejectFrame(c) \/ WriterStep(c) \/ WatcherStep(c) \/ WireBreaks(c)
    BY <1>9, RegistryQuiet DEF RejectFrame, WriterStep, WriteFrame, WriteClose, WriterFails,
       WatcherStep, WatcherWakes, WatcherAsks, WatcherRaises, WatcherRests, WatcherCloses,
       WireBreaks, coreVars
  <1>10. QED
    BY <1>1, <1>2, <1>3, <1>6, <1>7, <1>8, <1>9, SocketCases

LEMMA RegistryNext == TypeOK /\ Registry /\ [Next]_vars => Registry'
  <1> SUFFICES ASSUME TypeOK, Registry, [Next]_vars PROVE Registry'
    OBVIOUS
  <1>1. ASSUME NEW k \in Keys, Delist(k) PROVE Registry'
    BY <1>1, RegistryQuiet DEF Delist
  <1>2. CASE UNCHANGED vars
    BY <1>2, RegistryQuiet DEF vars, coreVars
  <1>3. QED
    BY <1>1, <1>2, RegistrySocket, Cases

(***************************************************************************)
(* What the watcher takes for the account of what its link is live for is  *)
(* that, through every history of rosters, deletes, refusals, faults and   *)
(* replaced links.                                                         *)
(***************************************************************************)
THEOREM TheAccountIsTrue == Spec => []PublishedIsServed
  <1>1. TypeOK /\ Registry => PublishedIsServed
    BY ProviderAssumption DEF Registry, Linked, PublishedIsServed
  <1>2. QED
    BY <1>1, TypeInit, TypeNext, RegistryInit, RegistryNext, PTL DEF Spec

-----------------------------------------------------------------------------
(* Which steps write a call, and which take a name offline. *)
LEMMA WrittenByCore ==
  ASSUME TypeOK, [Next]_vars, NEW c \in Connections,
         call[c].op = "register", ~call[c].written, call'[c].written
  PROVE  CoreWrites(c)
  <1>1. call \in [Connections -> Calls \cup {NoCall}]
    BY DEF TypeOK
  <1>2. ASSUME NEW d \in Connections, SocketStep(d), ~CoreWrites(d)
        PROVE  call'[c] = call[c] \/ ~call'[c].written
    <2>1. CASE \/ Teardown(d) \/ ReceiveRegister(d) \/ ReceiveDelete(d)
              \/ FinishRegister(d) \/ FinishDelete(d) \/ CallRefused(d)
      BY <1>1, <2>1, CallTypes
      DEF Teardown, ReceiveRegister, ReceiveDelete, FinishRegister, FinishDelete, CallRefused
    <2>2. CASE call' = call
      BY <2>2
    <2>3. QED
      BY <1>2, <2>1, <2>2, SocketCases
      DEF Accept, HandshakeFails, Attach, RejectFrame, WriterStep, WriteFrame, WriteClose,
          WriterFails, WatcherStep, WatcherWakes, WatcherAsks, WatcherRaises, WatcherRests,
          WatcherCloses, WireBreaks
  <1>3. ASSUME NEW d \in Connections \ {c}, CoreWrites(d) PROVE call'[c] = call[c]
    BY <1>1, <1>3 DEF CoreWrites
  <1>4. ASSUME NEW k \in Keys, Delist(k) PROVE call' = call
    BY <1>4 DEF Delist
  <1>5. UNCHANGED vars => call' = call
    BY DEF vars
  <1>6. QED
    BY <1>2, <1>3, <1>4, <1>5, Cases

(***************************************************************************)
(* The card core writes in the middle of a register says of every name     *)
(* what that roster said of it, not what an earlier one did.               *)
(***************************************************************************)
THEOREM CardsAreTheRosters == Spec => CardsFollowTheRoster
  <1>1. ASSUME TypeOK, Registry, [Next]_vars, NEW c \in Connections,
               call[c].op = "register", ~call[c].written, call'[c].written
        PROVE  card'[KeyOf[c]] \cap call[c].names = call[c].takers
    <2>1. CoreWrites(c)
      BY <1>1, WrittenByCore
    <2>2. declared[c] = call[c].takers /\ call[c].takers \subseteq call[c].names
      BY <1>1 DEF Registry, Socketed
    <2>3. card' = [card EXCEPT ![KeyOf[c]] =
                     (@ \ call[c].names) \cup {n \in call[c].names : n \in declared[c]}]
      BY <1>1, <2>1 DEF CoreWrites, TakesInterjections
    <2>4. QED
      BY <1>1, <2>2, <2>3, ProviderAssumption DEF TypeOK
  <1>2. TypeOK /\ Registry /\ [Next]_vars =>
          [\A c \in Connections :
             (call[c].op = "register" /\ ~call[c].written /\ call'[c].written)
               => card'[KeyOf[c]] \cap call[c].names = call[c].takers]_vars
    BY <1>1
  <1>3. QED
    BY <1>2, TypeInit, TypeNext, RegistryInit, RegistryNext, PTL DEF Spec, CardsFollowTheRoster

(***************************************************************************)
(* The late teardown of a socket whose link was replaced takes no agent    *)
(* offline, whatever the live link is waiting for: only the link that      *)
(* serves it does, by the answer to a call that takes that agent off, its  *)
(* end or its replacement.                                                 *)
(***************************************************************************)
THEOREM OnlyItsOwnLinkTakesItOffline == Spec => OfflineOnlyByItsOwnLink
  <1> DEFINE Own(k, c, n) == \/ TakenOff(c, n)
                             \/ phase'[c] = "closed" /\ phase[c] = "open"
                             \/ attached'[k] \notin {c, None}
  <1>1. ASSUME TypeOK, Registry, NEW d \in Connections, SocketStep(d),
               NEW k \in Keys, NEW n \in serving[k], n \notin serving'[k]
        PROVE  Own(k, attached[k], n)
    <2>1. /\ attached[k] \in Connections /\ phase[attached[k]] = "open" /\ KeyOf[attached[k]] = k
          /\ attached \in [Keys -> Connections \cup {None}] /\ serving \in [Keys -> SUBSET Names]
          /\ phase \in [Connections -> {"idle", "hello", "open", "closed"}]
          /\ KeyOf[d] \in Keys
      BY <1>1, ProviderAssumption DEF TypeOK, Registry, Linked
    <2>2. CASE Attach(d)
      BY <1>1, <2>1, <2>2, ProviderAssumption DEF Attach, AttachLink
    <2>3. CASE Teardown(d)
      BY <1>1, <2>1, <2>3 DEF Teardown, Detach
    <2>4. CASE FinishRegister(d) \/ FinishDelete(d)
      <3>1. call[d].written /\ call'[d] = NoCall
        BY <1>1, <2>4, CallTypes DEF FinishRegister, FinishDelete, TypeOK
      <3>2. attached[k] = d
        BY <1>1, <2>1, <2>4 DEF FinishRegister, FinishDelete, GoLive
      <3>3. CASE FinishRegister(d)
        BY <1>1, <2>1, <3>1, <3>2, <3>3 DEF FinishRegister, GoLive, TakenOff
      <3>4. CASE FinishDelete(d)
        BY <1>1, <2>1, <3>1, <3>2, <3>4 DEF FinishDelete, GoLive, TakenOff
      <3>5. QED
        BY <2>4, <3>3, <3>4
    <2>5. CASE serving' = serving
      BY <1>1, <2>5
    <2>6. QED
      BY <1>1, <2>2, <2>3, <2>4, <2>5, SocketCases
      DEF Accept, HandshakeFails, RejectFrame, ReceiveRegister, ReceiveDelete, CoreWrites,
          CallRefused, WriterStep, WriteFrame, WriteClose, WriterFails, WatcherStep, WatcherWakes,
          WatcherAsks, WatcherRaises, WatcherRests, WatcherCloses, WireBreaks, coreVars
  <1>2. ASSUME TypeOK, Registry, [Next]_vars,
               NEW k \in Keys, NEW n \in serving[k], n \notin serving'[k]
        PROVE  Own(k, attached[k], n)
    <2>1. (\E j \in Keys : Delist(j)) \/ UNCHANGED vars => serving' = serving
      BY DEF Delist, vars, coreVars
    <2>2. QED
      BY <1>1, <1>2, <2>1, Cases
  <1>3. TypeOK /\ Registry /\ [Next]_vars =>
          [\A k \in Keys : \A n \in serving[k] \ serving'[k] :
             LET c == attached[k] IN
               \/ TakenOff(c, n)
               \/ phase'[c] = "closed" /\ phase[c] = "open"
               \/ attached'[k] \notin {c, None}]_vars
    BY <1>2
  <1>4. QED
    BY <1>3, TypeInit, TypeNext, RegistryInit, RegistryNext, PTL DEF Spec, OfflineOnlyByItsOwnLink
=============================================================================
