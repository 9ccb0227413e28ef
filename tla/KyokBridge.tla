------------------------------ MODULE KyokBridge ------------------------------
(***************************************************************************)
(* The caller's end of the KYOK relay composed with the gateway's:         *)
(* souk_client_sdk/kyok_bridge.py over the sockets of KyokSocket.          *)
(*                                                                         *)
(* A bridge is one task (serve_forever) that connects, registers, serves   *)
(* and reconnects; one writer task per connection; one task per completion *)
(* that calls the LLM; and the serving() block of the caller that wraps    *)
(* them.  Frames travel in up[c] and down[c]; a connection that broke is   *)
(* noticed by each end, and by each end's writer, at its own time.         *)
(***************************************************************************)
EXTENDS KyokSocket

CONSTANTS
  Self,        \* the bridge's identity
  Offering,    \* the one model it serves
  Ephemeral    \* the identity was minted by this bridge: withdraw on exit

\* Every connection here is one of the bridge's: its hello proves Self.
ASSUME BridgeAssumption ==
  /\ Self \in Keys
  /\ \A c \in Connections : KeyOf[c] = Self
  /\ Offering \in Models
  /\ Ephemeral \in BOOLEAN

VARIABLES
  task,      \* where serve_forever is
  at,        \* the connection it is on
  isAttached, \* self.attached
  deleted,   \* self._deleted
  queue,     \* the outbound queue of the connection it is on
  bwriter,   \* its _write_loop task
  calls,     \* the _serve_one task of each completion
  produced,  \* history: chunks its LLM call gave
  block,     \* the caller's serving() block
  wire,      \* each connection: "none", "up", "broken"
  up, down   \* what is on the way to the gateway, and to the bridge

bridgeVars == <<task, at, isAttached, deleted, queue, bwriter, calls, produced, block>>
wireVars == <<wire, up, down>>
allVars == <<vars, bridgeVars, wireVars>>

Tasks == {"off", "hello", "register", "serving", "waiting"}
Blocks == {"out", "entering", "released", "inside", "withdrawing", "joining"}

BridgeInit ==
  /\ Init
  /\ task = "off"
  /\ at = None
  /\ isAttached = FALSE
  /\ deleted = FALSE
  /\ queue = <<>>
  /\ bwriter = "off"
  /\ calls = [r \in Requests |-> "none"]
  /\ produced = [r \in Requests |-> 0]
  /\ block = "out"
  /\ wire = [c \in Connections |-> "none"]
  /\ up = [c \in Connections |-> <<>>]
  /\ down = [c \in Connections |-> <<>>]

Says(type, r) == [type |-> type, request |-> r]
Hello == Says("hello", None)
Spoken == {Hello, Says("register", None), Says("deleteModel", None)}
            \cup [type : AnswerKinds, request : Requests]
Send(c, f) == up' = IF wire[c] = "up" THEN [up EXCEPT ![c] = Append(@, f)] ELSE up

\* An end that closes its side reads no more of what was on the way to it.
Close(c) ==
  /\ wire' = [wire EXCEPT ![c] = "broken"]
  /\ down' = [down EXCEPT ![c] = <<>>]

\* The next frame from the gateway on the connection the bridge is on.
Arrived(types) == at # None /\ down[at] # <<>> /\ Head(down[at]).type \in types
Consumed == down' = [down EXCEPT ![at] = Tail(@)]

-----------------------------------------------------------------------------
(* Connecting: a fresh ticket each time, the hello, the registration. *)

\* reconnect_delay passed, POST /tickets gave a ticket and a key the pin
\* accepts, and the socket opened: any fresh one, they are alike.  Every way of
\* not getting there ends the attempt and leaves serve_forever waiting.  A
\* sleeping task is behind the ones that are ready.
Connect ==
  LET c == CHOOSE d \in Connections : phase[d] = "idle" IN
  /\ task = "waiting"
  /\ ~(block = "withdrawing" /\ deleted)
  /\ \E d \in Connections : phase[d] = "idle"
  /\ Accept(c)
  /\ task' = "hello"
  /\ at' = c
  /\ wire' = [wire EXCEPT ![c] = "up"]
  /\ up' = [up EXCEPT ![c] = <<Hello>>]
  /\ UNCHANGED <<isAttached, deleted, queue, bwriter, calls, produced, block, down>>

ReadWelcome_TakenForRegistered ==
  /\ task = "hello"
  /\ Arrived({"welcome"})
  /\ Consumed
  /\ task' = "serving"
  /\ isAttached' = TRUE
  /\ bwriter' = "running"
  /\ block' = IF block = "entering" THEN "released" ELSE block
  /\ UNCHANGED <<vars, at, deleted, queue, calls, produced, wire, up>>

\* A welcome whose answer verifies; the registration follows at once.
ReadWelcome ==
  /\ task = "hello"
  /\ Arrived({"welcome"})
  /\ Consumed
  /\ Send(at, Says("register", None))
  /\ task' = "register"
  /\ UNCHANGED <<vars, at, isAttached, deleted, queue, bwriter, calls, produced, block, wire>>

\* Event.set() resolves the block's waiter, whatever clears the event later.
ReadRegistered ==
  /\ task = "register"
  /\ Arrived({"registered"})
  /\ Consumed
  /\ task' = "serving"
  /\ isAttached' = TRUE
  /\ queue' = <<>>
  /\ bwriter' = "running"
  /\ block' = IF block = "entering" THEN "released" ELSE block
  /\ UNCHANGED <<vars, at, deleted, calls, produced, wire, up>>

HandshakeEnds ==
  /\ task \in {"hello", "register"}
  /\ task' = "waiting"
  /\ at' = None
  /\ Close(at)
  /\ UNCHANGED <<vars, isAttached, deleted, queue, bwriter, calls, produced, block, up>>

-----------------------------------------------------------------------------
(* Serving. *)

\* One task per completion, and the read loop goes on.
ReadRequest ==
  /\ task = "serving"
  /\ Arrived({"completionRequest"})
  /\ Consumed
  /\ calls' = [calls EXCEPT ![Head(down[at]).request] = "working"]
  /\ UNCHANGED <<vars, task, at, isAttached, deleted, queue, bwriter, produced, block, wire, up>>

ReadOther ==
  /\ task = "serving"
  /\ Arrived({"deleted", "error"})
  /\ Consumed
  /\ deleted' = (deleted \/ Head(down[at]).type = "deleted")
  /\ UNCHANGED <<vars, task, at, isAttached, queue, bwriter, calls, produced, block, wire, up>>

InFlightHere == {r \in Requests : calls[r] = "working" /\ link[r] = at}

\* The finally of _serve_connection.  `await writer` is shielded from the
\* writer's cancellation only: a writer that died of its own raises there, and
\* the loop that cancels the completions is not reached.
Unwind ==
  /\ isAttached' = FALSE
  /\ queue' = <<>>
  /\ bwriter' = "off"
  /\ at' = None
  /\ Close(at)
  /\ calls' = IF bwriter = "dead" THEN calls
              ELSE [r \in Requests |-> IF r \in InFlightHere THEN "cancelled" ELSE calls[r]]

\* The read loop hears that the connection is gone.
LinkLost ==
  /\ task = "serving"
  /\ wire[at] = "broken"
  /\ Unwind
  /\ task' = "waiting"
  /\ UNCHANGED <<vars, deleted, produced, block, up>>

BridgeWrites ==
  /\ bwriter = "running"
  /\ queue # <<>>
  /\ queue' = Tail(queue)
  /\ Send(at, Head(queue))
  /\ UNCHANGED <<vars, task, at, isAttached, deleted, bwriter, calls, produced, block, wire, down>>

\* ws.send raises, in a task nobody watches.
BridgeWriterFails ==
  /\ bwriter = "running"
  /\ queue # <<>>
  /\ wire[at] = "broken"
  /\ queue' = Tail(queue)
  /\ bwriter' = "dead"
  /\ UNCHANGED <<vars, task, at, isAttached, deleted, calls, produced, block, wireVars>>

\* _serve_one puts into the queue of the connection its request came by.
Answer_OnTheCurrentLink(r, kind) ==
  queue' = IF task = "serving" THEN Append(queue, Says(kind, r)) ELSE queue

Answer(r, kind) ==
  queue' = IF task = "serving" /\ at = link[r] THEN Append(queue, Says(kind, r)) ELSE queue

\* MaxFrames bounds an answer: its chunks and the frame that ends it.
LlmChunk(r) ==
  /\ calls[r] = "working"
  /\ produced[r] + 1 < MaxFrames
  /\ produced' = [produced EXCEPT ![r] = @ + 1]
  /\ Answer(r, "chunk")
  /\ UNCHANGED <<vars, task, at, isAttached, deleted, bwriter, calls, block, wireVars>>

Outcome_AlwaysDone == [whole |-> "done", broke |-> "done", refused |-> "refused"]

\* The generator ended, raised (a malformed request does before it starts), or
\* was refused by the handler.
Outcome == [whole |-> "done", broke |-> "error", refused |-> "refused"]

LlmEnds(r) ==
  /\ calls[r] = "working"
  /\ \E how \in {"whole", "broke", "refused"} :
       /\ calls' = [calls EXCEPT ![r] = how]
       /\ Answer(r, Outcome[how])
  /\ UNCHANGED <<vars, task, at, isAttached, deleted, bwriter, produced, block, wireVars>>

-----------------------------------------------------------------------------
(* The caller's block: async with bridge.serving(). *)

Enter ==
  /\ block = "out"
  /\ block' = "entering"
  /\ task' = "waiting"
  /\ UNCHANGED <<vars, at, isAttached, deleted, queue, bwriter, calls, produced, wireVars>>

Yield ==
  /\ block = "released"
  /\ block' = "inside"
  /\ UNCHANGED <<vars, task, at, isAttached, deleted, queue, bwriter, calls, produced, wireVars>>

AskWithdrawal_StaleEvent ==
  /\ block' = "withdrawing"
  /\ queue' = Append(queue, Says("deleteModel", None))
  /\ UNCHANGED <<task, at, isAttached, deleted, bwriter, calls, wire, down>>

\* deregister, up to its wait.
AskWithdrawal ==
  /\ block' = "withdrawing"
  /\ deleted' = FALSE
  /\ queue' = Append(queue, Says("deleteModel", None))
  /\ UNCHANGED <<task, at, isAttached, bwriter, calls, wire, down>>

\* The serve task is cancelled wherever it is, and awaited.  Unwinding past a
\* dead writer, the cancellation becomes the writer's error: serve_forever
\* takes it for a lost connection and goes on, and the block goes on waiting.
CancelTask ==
  \/ /\ task = "serving"
     /\ Unwind
     /\ task' = IF bwriter = "dead" THEN "waiting" ELSE "off"
     /\ block' = IF bwriter = "dead" THEN "joining" ELSE "out"
     /\ UNCHANGED deleted
  \/ /\ task # "serving"
     /\ task' = "off"
     /\ block' = "out"
     /\ at' = None
     /\ IF at = None THEN UNCHANGED <<wire, down>> ELSE Close(at)
     /\ UNCHANGED <<isAttached, deleted, queue, bwriter, calls>>

\* The body ends, raises or is cancelled, while it waits for the first attach
\* as well.  Nothing to withdraw on when no link is open.
LeaveBlock ==
  /\ block \in {"entering", "released", "inside"}
  /\ IF Ephemeral /\ isAttached THEN AskWithdrawal ELSE CancelTask
  /\ UNCHANGED <<vars, produced, up>>

Withdrawn ==
  /\ block = "withdrawing"
  /\ deleted
  /\ CancelTask
  /\ UNCHANGED <<vars, produced, up>>

\* WELCOME_TIMEOUT_SECONDS without a deleted.
WithdrawalTimeout ==
  /\ block = "withdrawing"
  /\ ~deleted
  /\ CancelTask
  /\ UNCHANGED <<vars, produced, up>>

-----------------------------------------------------------------------------
(* The gateway's half: KyokSocket's actions, fed from up and writing down. *)

Handle(c, f) ==
  \/ /\ f = Hello
     /\ \/ Attach(c) /\ UNCHANGED wire
        \/ HandshakeFails(c) /\ wire' = [wire EXCEPT ![c] = "broken"]
  \/ f.type = "register" /\ AskCore(c, "register", {Offering}) /\ UNCHANGED wire
  \/ f.type = "deleteModel" /\ AskCore(c, "delete", {Offering}) /\ UNCHANGED wire
  \/ f.type \in AnswerKinds /\ ReceiveAnswer(c, f.request, f.type) /\ UNCHANGED wire

GatewayReads(c) ==
  /\ up[c] # <<>>
  /\ up' = [up EXCEPT ![c] = Tail(@)]
  /\ Handle(c, Head(up[c]))
  /\ UNCHANGED <<down, bridgeVars>>

GatewayWrites(c) ==
  /\ WriteFrame(c)
  /\ down' = IF wire[c] = "up" THEN [down EXCEPT ![c] = Append(@, Head(outbound[c]))] ELSE down
  /\ UNCHANGED <<wire, up, bridgeVars>>

GatewayWriterFails(c) ==
  /\ wire[c] = "broken"
  /\ WriterFails(c)
  /\ UNCHANGED <<wireVars, bridgeVars>>

GatewayHears(c) ==
  /\ wire[c] = "broken"
  /\ Disconnect(c)
  /\ up' = [up EXCEPT ![c] = <<>>]
  /\ UNCHANGED <<wire, down, bridgeVars>>

GatewayFaults(c) ==
  /\ HandlerFault(c)
  /\ wire' = [wire EXCEPT ![c] = "broken"]
  /\ up' = [up EXCEPT ![c] = <<>>]
  /\ UNCHANGED <<down, bridgeVars>>

GatewayFinishes(c) == FinishOperation(c) /\ UNCHANGED <<bridgeVars, wireVars>>

GatewayStep(c) ==
  \/ GatewayReads(c) \/ GatewayWrites(c) \/ GatewayWriterFails(c)
  \/ GatewayHears(c) \/ GatewayFaults(c) \/ GatewayFinishes(c)

\* The caller opts in by naming this bridge's key and offering.
AskBridge(r) == Complete(r, Self, Offering) \/ Unavailable(r, Self, Offering)

\* The one who asked stays to the end; its leaving is in KyokSocket's own runs.
CompletionStep(r) ==
  /\ AskBridge(r) \/ Start(r) \/ Take(r) \/ Resume(r) \/ GapTimeout(r)
  /\ UNCHANGED <<bridgeVars, wireVars>>

Break(c) ==
  /\ wire[c] = "up"
  /\ wire' = [wire EXCEPT ![c] = "broken"]
  /\ UNCHANGED <<vars, bridgeVars, up, down>>

BlockStep == Enter \/ Yield \/ LeaveBlock \/ Withdrawn \/ WithdrawalTimeout

TaskStep ==
  \/ Connect \/ ReadWelcome \/ ReadRegistered \/ HandshakeEnds
  \/ ReadRequest \/ ReadOther \/ LinkLost \/ BridgeWrites \/ BridgeWriterFails

BridgeNext ==
  \/ BlockStep \/ TaskStep
  \/ \E r \in Requests : LlmChunk(r) \/ LlmEnds(r) \/ CompletionStep(r)
  \/ \E c \in Connections : GatewayStep(c) \/ Break(c)

BridgeSpec == BridgeInit /\ [][BridgeNext]_allVars

\* A socket's handler reads what arrived, core answers it, and a connection
\* that is gone is reported to it.
GatewayRuns ==
  \A c \in Connections :
    /\ WF_allVars(GatewayReads(c) \/ GatewayHears(c))
    /\ WF_allVars(GatewayFinishes(c))
    /\ WF_allVars(GatewayWrites(c) \/ GatewayWriterFails(c))

\* Ready tasks and expired timers run; nothing says a ticket is given, a
\* connection opens, a frame is sent or the LLM answers.
BridgeFairSpec == BridgeSpec /\ ConsumersRun /\ GatewayRuns

-----------------------------------------------------------------------------
BridgeTypeOK ==
  /\ task \in Tasks
  /\ at \in Connections \cup {None}
  /\ isAttached \in BOOLEAN /\ deleted \in BOOLEAN
  /\ bwriter \in {"off", "running", "dead"}
  /\ calls \in [Requests -> {"none", "working", "cancelled", "whole", "broke", "refused"}]
  /\ produced \in [Requests -> 0..MaxFrames]
  /\ block \in Blocks
  /\ wire \in [Connections -> {"none", "up", "broken"}]
  /\ queue \in Seq(Spoken) /\ up \in [Connections -> Seq(Spoken)]
  /\ down \in [Connections -> Seq(Frames)]
  /\ at # None <=> task \in {"hello", "register", "serving"}

(***************************************************************************)
(* serving() yields, and attached says, what the roster shows: as long as  *)
(* the bridge counts itself attached and is not withdrawing, core serves   *)
(* its offering on that connection, unless the gateway has lost or         *)
(* replaced it, which the bridge has yet to hear.                          *)
(***************************************************************************)
AttachedIsServed ==
  (isAttached /\ block # "withdrawing" /\ phase[at] = "open" /\ attached[Self] = at)
    => Offering \in serving[Self]

(***************************************************************************)
(* deregister takes for its confirmation only the answer to its own        *)
(* deleteModel, not one left from an earlier block: when it stops waiting  *)
(* because of `deleted`, the offering is withdrawn.                        *)
(***************************************************************************)
ConfirmedIsWithdrawn ==
  (block = "withdrawing" /\ deleted) => Offering \notin serving[Self]

(***************************************************************************)
(* From the LLM to the caller's [DONE]: an answer that reads as complete   *)
(* is one whose LLM call ended by itself, with every chunk it gave.        *)
(***************************************************************************)
NothingCutShort ==
  \A r \in Requests :
    (body[r] # <<>> /\ body[r][Len(body[r])] = "[DONE]") =>
      calls[r] = "whole" /\ Len(body[r]) = produced[r] + 1

(***************************************************************************)
(* An answer goes up the connection its request came down, reconnects or   *)
(* not: the gateway turns one away only when nobody waits for it.          *)
(***************************************************************************)
NoLiveAnswerTurnedAway ==
  \A c \in Connections, r \in Requests :
    Frame("error", r) \in {outbound[c][i] : i \in 1..Len(outbound[c])} => stage[r] \notin Live

(***************************************************************************)
(* Whatever became of the withdrawal, and though its row may stay, core    *)
(* does not go on resolving an offering to a link nobody is behind: once   *)
(* the caller has left its block for good, the link detaches with its      *)
(* socket, also when a registration was still on the way then.             *)
(***************************************************************************)
NothingServedAfterTheBlock == []<>(Offering \in serving[Self] => block # "out")

(***************************************************************************)
(* The comment at kyok_bridge.py:399: answers are only accepted on the     *)
(* socket their request arrived on; when it is gone, stop paying the LLM   *)
(* for output with nowhere to go.                                          *)
(***************************************************************************)
StopsPaying == \A r \in Requests : calls[r] = "working" => at = link[r]
=============================================================================
