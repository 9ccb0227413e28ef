----------------------------- MODULE KyokSocket -----------------------------
(***************************************************************************)
(* The gateway's KYOK completion relay: souk_server/ws_kyok.py, the parts  *)
(* of ws_common.py it runs on, and the HTTP route of api_llm_bridge.py     *)
(* that reads what it relays.                                              *)
(*                                                                         *)
(* An LLM provider opens a socket, publishes model offerings on it, and    *)
(* answers completion requests with chunk / done / error frames.  Several  *)
(* sockets of one identity may be open at once (a reconnect overlaps the   *)
(* socket it replaces).  Each completion is an asynchronous generator      *)
(* (_answer_stream) that a caller's HTTP request iterates; between the     *)
(* read loop and the generator stands one queue per completion.            *)
(*                                                                         *)
(* Everything between two awaits is one action: asyncio runs the handlers  *)
(* on one thread and only an await lets another one in.                    *)
(*                                                                         *)
(* The queue is kept whole: said[r] is every item ever put in it and       *)
(* taken[r] how many the generator has taken out, so the queue proper is   *)
(* what said[r] holds past taken[r].                                       *)
(***************************************************************************)
EXTENDS Naturals, Sequences, FiniteSets

CONSTANTS
  Connections,   \* sockets ever opened on /ws/kyok
  Keys,          \* LLM provider identities
  KeyOf,         \* the identity each socket proves in its hello
  Models,        \* offering names
  Requests,      \* completions: the requestIds complete() mints
  None,          \* no socket, no request
  MaxFrames,     \* bound: answer frames put in one completion's queue
  MaxOutbound    \* bound: frames parked in one socket's outbound queue

ASSUME ConstantsAssumption ==
  /\ KeyOf \in [Connections -> Keys]
  /\ None \notin Connections \cup Requests
  /\ MaxFrames \in Nat
  /\ MaxOutbound \in Nat

VARIABLES
  phase,      \* where each socket's handler is
  pending,    \* the core call its read loop is awaiting
  writer,     \* its write_loop task
  outbound,   \* the queue that task drains
  attached,   \* core: the one link each identity has attached
  serving,    \* core: the offerings that link last published
  table,      \* SocketLLMProvider._answers: requestIds in flight on a socket
  link,       \* the socket each completion was delivered to
  stage,      \* where each completion's generator is
  said,       \* items put in its queue, oldest first
  taken,      \* how many of them the generator has taken
  body        \* the frames of the caller's event stream

socketVars == <<phase, pending, writer, outbound>>
coreVars   == <<attached, serving>>
streamVars == <<link, stage, taken, body>>
vars == <<socketVars, coreVars, table, said, streamVars>>

-----------------------------------------------------------------------------
Phases == {"idle", "hello", "open", "closed"}

\* What a provider may send for a completion: a chunk that validates as a
\* ChatCompletionChunk or one that does not, the end, an error in prose, or
\* one carrying a structured refusal.
AnswerKinds == {"chunk", "bad", "done", "error", "refused"}

\* "gone" is what fail_pending adds when the socket drops.
ItemKinds == AnswerKinds \cup {"gone"}

\* Each item remembers the socket whose frame it came from.
Items == [kind : ItemKinds, from : Connections]
Item(kind, c) == [kind |-> kind, from |-> c]

Frames == [type : {"welcome", "registered", "deleted", "error", "completionRequest"},
           request : Requests \cup {None}]
Frame(type, r) == [type |-> type, request |-> r]

Operations == [op : {"none", "register", "delete"}, names : SUBSET Models]
NoOperation == [op |-> "none", names |-> {}]

\* unstarted: complete() returned the generator, nobody has iterated it yet.
\* reading: parked in wait_for(queue.get()).  yielded: suspended at its yield
\* while the caller's response is written.  orphaned: suspended there with the
\* caller gone.  discarded: dropped before its first iteration.
Live    == {"unstarted", "reading", "yielded"}
Stages  == Live \cup {"none", "rejected", "orphaned", "discarded",
                      "left", "complete", "failed"}

Init ==
  /\ phase = [c \in Connections |-> "idle"]
  /\ pending = [c \in Connections |-> NoOperation]
  /\ writer = [c \in Connections |-> "off"]
  /\ outbound = [c \in Connections |-> <<>>]
  /\ attached = [k \in Keys |-> None]
  /\ serving = [k \in Keys |-> {}]
  /\ table = [c \in Connections |-> {}]
  /\ link = [r \in Requests |-> None]
  /\ stage = [r \in Requests |-> "none"]
  /\ said = [r \in Requests |-> <<>>]
  /\ taken = [r \in Requests |-> 0]
  /\ body = [r \in Requests |-> <<>>]

-----------------------------------------------------------------------------
(* The socket's life, up to the welcome. *)

Post(c, frame) == outbound' = [outbound EXCEPT ![c] = Append(@, frame)]
Room(c) == Len(outbound[c]) < MaxOutbound

\* The read loop is at its receive(), not inside a call to core.
Reading(c) == phase[c] = "open" /\ pending[c] = NoOperation

Accept(c) ==
  /\ phase[c] = "idle"
  /\ phase' = [phase EXCEPT ![c] = "hello"]
  /\ UNCHANGED <<pending, writer, outbound, coreVars, table, said, streamVars>>

\* No hello in time, a first frame that is not one, a hello refused by name,
\* or a ticket or proof core does not accept: closed before anything exists.
HandshakeFails(c) ==
  /\ phase[c] = "hello"
  /\ phase' = [phase EXCEPT ![c] = "closed"]
  /\ UNCHANGED <<pending, writer, outbound, coreVars, table, said, streamVars>>

\* External: attaching is nameless and replaces the identity's earlier link.
AttachLink(c) ==
  /\ attached' = [attached EXCEPT ![KeyOf[c]] = c]
  /\ serving' = [serving EXCEPT ![KeyOf[c]] = {}]

Attach(c) ==
  /\ phase[c] = "hello"
  /\ AttachLink(c)
  /\ phase' = [phase EXCEPT ![c] = "open"]
  /\ writer' = [writer EXCEPT ![c] = "running"]
  /\ outbound' = [outbound EXCEPT ![c] = <<Frame("welcome", None)>>]
  /\ UNCHANGED <<pending, table, said, streamVars>>

WriteFrame(c) ==
  /\ writer[c] = "running"
  /\ outbound[c] # <<>>
  /\ outbound' = [outbound EXCEPT ![c] = Tail(@)]
  /\ UNCHANGED <<phase, pending, writer, coreVars, table, said, streamVars>>

\* send_text raises on a connection that broke: the task ends, the frame it
\* held is lost, and the read loop does not learn of it.
WriterFails(c) ==
  /\ writer[c] = "running"
  /\ outbound[c] # <<>>
  /\ writer' = [writer EXCEPT ![c] = "dead"]
  /\ outbound' = [outbound EXCEPT ![c] = Tail(@)]
  /\ UNCHANGED <<phase, pending, coreVars, table, said, streamVars>>

-----------------------------------------------------------------------------
(* Teardown: the finally block of kyok_socket, with no await before the    *)
(* writer is cancelled.                                                    *)

Detach_WholeKey(c) ==
  /\ attached' = [attached EXCEPT ![KeyOf[c]] = None]
  /\ serving' = [serving EXCEPT ![KeyOf[c]] = {}]

Detach_Forgotten(c) == UNCHANGED coreVars

\* Scoped to this connection: a link that was replaced detaches nothing.
Detach(c) ==
  IF attached[KeyOf[c]] = c
  THEN /\ attached' = [attached EXCEPT ![KeyOf[c]] = None]
       /\ serving' = [serving EXCEPT ![KeyOf[c]] = {}]
  ELSE UNCHANGED coreVars

FailPending_Silent(c) ==
  /\ table' = [table EXCEPT ![c] = {}]
  /\ UNCHANGED said

FailPending_KeepsTable(c) ==
  /\ said' = [r \in Requests |->
                IF r \in table[c] THEN Append(said[r], Item("gone", c)) ELSE said[r]]
  /\ UNCHANGED table

FailPending(c) ==
  /\ said' = [r \in Requests |->
                IF r \in table[c] THEN Append(said[r], Item("gone", c)) ELSE said[r]]
  /\ table' = [table EXCEPT ![c] = {}]

Teardown(c) ==
  /\ phase' = [phase EXCEPT ![c] = "closed"]
  /\ pending' = [pending EXCEPT ![c] = NoOperation]
  /\ Detach(c)
  /\ FailPending(c)
  /\ writer' = [writer EXCEPT ![c] = "stopped"]
  /\ outbound' = [outbound EXCEPT ![c] = <<>>]
  /\ UNCHANGED streamVars

Disconnect(c) == Reading(c) /\ Teardown(c)

\* A call to core raises something the handler does not catch.
HandlerFault(c) == pending[c] # NoOperation /\ Teardown(c)

-----------------------------------------------------------------------------
(* Inbound frames. *)

\* Unparseable, of no known type, or malformed: answered, and the loop goes on.
RejectFrame(c) ==
  /\ Reading(c)
  /\ Room(c)
  /\ Post(c, Frame("error", None))
  /\ UNCHANGED <<phase, pending, writer, coreVars, table, said, streamVars>>

AskCore(c, op, names) ==
  /\ Reading(c)
  /\ pending' = [pending EXCEPT ![c] = [op |-> op, names |-> names]]
  /\ UNCHANGED <<phase, writer, outbound, coreVars, table, said, streamVars>>

\* register carries the full roster; deleteModel one name.
ReceiveRegister(c) == \E names \in (SUBSET Models) \ {{}} : AskCore(c, "register", names)
ReceiveDelete(c) == \E m \in Models : AskCore(c, "delete", {m})

\* External: what the awaited call does to the offerings.  Core refuses a link
\* that is not the attached one, and may refuse for reasons of its own.
CoreAccepts(c) ==
  /\ attached[KeyOf[c]] = c
  /\ serving' = [serving EXCEPT ![KeyOf[c]] =
                   IF pending[c].op = "register" THEN pending[c].names
                                                 ELSE @ \ pending[c].names]
  /\ UNCHANGED attached

FinishOperation(c) ==
  /\ pending[c] # NoOperation
  /\ Room(c)
  /\ pending' = [pending EXCEPT ![c] = NoOperation]
  /\ \/ /\ CoreAccepts(c)
        /\ Post(c, Frame(IF pending[c].op = "register" THEN "registered" ELSE "deleted", None))
     \/ /\ Post(c, Frame("error", None))
        /\ UNCHANGED coreVars
  /\ UNCHANGED <<phase, writer, table, said, streamVars>>

InFlight_Anywhere(c, r) == \E d \in Connections : r \in table[d]

\* Membership in this connection's table is what authorises an answer.
InFlight(c, r) == r \in table[c]

ReceiveAnswer(c, r, kind) ==
  /\ Reading(c)
  /\ Len(said[r]) < MaxFrames
  /\ \/ /\ InFlight(c, r)
        /\ said' = [said EXCEPT ![r] = Append(@, Item(kind, c))]
        /\ UNCHANGED outbound
     \/ /\ ~InFlight(c, r)
        /\ Room(c)
        /\ Post(c, Frame("error", r))
        /\ UNCHANGED said
  /\ UNCHANGED <<phase, pending, writer, coreVars, table, streamVars>>

-----------------------------------------------------------------------------
(* The completion's side: KyokAdapter.complete (core) resolves the run's   *)
(* offering to the attached link and calls complete() on it.               *)

Complete(r, k, m) ==
  LET c == attached[k] IN
  /\ stage[r] = "none"
  /\ c # None
  /\ m \in serving[k]
  /\ Room(c)
  /\ table' = [table EXCEPT ![c] = @ \cup {r}]
  /\ Post(c, Frame("completionRequest", r))
  /\ link' = [link EXCEPT ![r] = c]
  /\ stage' = [stage EXCEPT ![r] = "unstarted"]
  /\ UNCHANGED <<phase, pending, writer, coreVars, said, taken, body>>

\* Nothing attached serves the offering: a 503 at once.
Unavailable(r, k, m) ==
  /\ stage[r] = "none"
  /\ m \notin serving[k]
  /\ stage' = [stage EXCEPT ![r] = "rejected"]
  /\ UNCHANGED <<socketVars, coreVars, table, said, link, taken, body>>

Start(r) ==
  /\ stage[r] = "unstarted"
  /\ stage' = [stage EXCEPT ![r] = "reading"]
  /\ UNCHANGED <<socketVars, coreVars, table, said, link, taken, body>>

\* The caller was gone before the first iteration: a generator that never ran
\* has no finally to run, so the entry stays in the table.
Discard(r) ==
  /\ stage[r] = "unstarted"
  /\ stage' = [stage EXCEPT ![r] = "discarded"]
  /\ UNCHANGED <<socketVars, coreVars, table, said, link, taken, body>>

\* The finally of _answer_stream.
Pop(r) == table' = [table EXCEPT ![link[r]] = @ \ {r}]

Closing_AsItCame(kind) == kind

Closing_DropIsAnEnd(kind) ==
  CASE kind \in {"done", "gone"} -> "[DONE]"
    [] kind = "refused" -> "refusal"
    [] OTHER            -> "error"

\* The last frame of the caller's stream: [DONE] only after a clean end.
Closing(kind) ==
  CASE kind = "done"    -> "[DONE]"
    [] kind = "refused" -> "refusal"
    [] OTHER            -> "error"

End(r, kind) ==
  /\ stage' = [stage EXCEPT ![r] = IF kind = "done" THEN "complete" ELSE "failed"]
  /\ body' = [body EXCEPT ![r] = Append(@, Closing(kind))]
  /\ Pop(r)

TakeChunk(r) ==
  /\ body' = [body EXCEPT ![r] = Append(@, "chunk")]
  /\ stage' = [stage EXCEPT ![r] = "yielded"]
  /\ UNCHANGED table

\* The generator is resumed with the next item of its queue.
Take(r) ==
  /\ stage[r] = "reading"
  /\ taken[r] < Len(said[r])
  /\ taken' = [taken EXCEPT ![r] = @ + 1]
  /\ LET kind == said[r][taken[r] + 1].kind
     IN IF kind = "chunk" THEN TakeChunk(r) ELSE End(r, kind)
  /\ UNCHANGED <<socketVars, coreVars, said, link>>

\* The caller's frame was written; the generator is asked for the next.
Resume(r) ==
  /\ stage[r] = "yielded"
  /\ stage' = [stage EXCEPT ![r] = "reading"]
  /\ UNCHANGED <<socketVars, coreVars, table, said, link, taken, body>>

GapTimeout_Unset(r) == FALSE

GapTimeout_EndsCleanly(r) ==
  /\ stage[r] = "reading"
  /\ taken[r] = Len(said[r])
  /\ End(r, "done")
  /\ UNCHANGED <<socketVars, coreVars, said, link, taken>>

\* CHUNK_GAP_TIMEOUT_SECONDS without an item while parked on the queue.
GapTimeout(r) ==
  /\ stage[r] = "reading"
  /\ taken[r] = Len(said[r])
  /\ End(r, "error")
  /\ UNCHANGED <<socketVars, coreVars, said, link, taken>>

\* The caller hangs up.  Parked on the queue, the cancellation runs the
\* finally at once; suspended at its yield, the generator waits to be closed
\* by the event loop's finaliser.
CallerLeaves(r) ==
  /\ \/ /\ stage[r] = "reading"
        /\ stage' = [stage EXCEPT ![r] = "left"]
        /\ Pop(r)
     \/ /\ stage[r] = "yielded"
        /\ stage' = [stage EXCEPT ![r] = "orphaned"]
        /\ UNCHANGED table
  /\ UNCHANGED <<socketVars, coreVars, said, link, taken, body>>

Finalize(r) ==
  /\ stage[r] = "orphaned"
  /\ stage' = [stage EXCEPT ![r] = "left"]
  /\ Pop(r)
  /\ UNCHANGED <<socketVars, coreVars, said, link, taken, body>>

-----------------------------------------------------------------------------
SocketStep(c) ==
  \/ Accept(c) \/ HandshakeFails(c) \/ Attach(c)
  \/ WriteFrame(c) \/ WriterFails(c)
  \/ RejectFrame(c) \/ ReceiveRegister(c) \/ ReceiveDelete(c) \/ FinishOperation(c)
  \/ \E r \in Requests, kind \in AnswerKinds : ReceiveAnswer(c, r, kind)
  \/ Disconnect(c) \/ HandlerFault(c)

Ask(r) == \E k \in Keys, m \in Models : Complete(r, k, m) \/ Unavailable(r, k, m)

\* What the event loop owes a completion whose caller is there: the generator
\* is iterated or dropped, and runs when its queue has something.
ConsumerStep(r) == Start(r) \/ Discard(r) \/ Take(r) \/ Resume(r) \/ CallerLeaves(r)

RequestStep(r) == Ask(r) \/ ConsumerStep(r) \/ GapTimeout(r) \/ Finalize(r)

Next ==
  \/ \E c \in Connections : SocketStep(c)
  \/ \E r \in Requests : RequestStep(r)

Spec == Init /\ [][Next]_vars

-----------------------------------------------------------------------------
(* Fairness.  asyncio runs a ready task, and a timer that expired; nothing *)
(* says that a provider sends, that a caller asks, or that a socket drops. *)

\* Iterating: Start or Discard, Take when there is an item; at a yield the
\* response is written, or its caller is found gone.  A caller parked with the
\* generator on its queue is owed nothing but an item: it need not leave.
ConsumersRun ==
  \A r \in Requests :
    /\ WF_vars(Start(r) \/ Discard(r))
    /\ WF_vars(Take(r))
    /\ WF_vars(stage[r] = "yielded" /\ (Resume(r) \/ CallerLeaves(r)))

TimersRun == \A r \in Requests : WF_vars(GapTimeout(r))

-----------------------------------------------------------------------------
TypeOK ==
  /\ phase \in [Connections -> Phases]
  /\ pending \in [Connections -> Operations]
  /\ writer \in [Connections -> {"off", "running", "dead", "stopped"}]
  /\ outbound \in [Connections -> Seq(Frames)]
  /\ attached \in [Keys -> Connections \cup {None}]
  /\ serving \in [Keys -> SUBSET Models]
  /\ table \in [Connections -> SUBSET Requests]
  /\ link \in [Requests -> Connections \cup {None}]
  /\ stage \in [Requests -> Stages]
  /\ said \in [Requests -> Seq(Items)]
  /\ taken \in [Requests -> Nat]
  /\ body \in [Requests -> Seq({"chunk", "[DONE]", "refusal", "error"})]

(***************************************************************************)
(* An answer is accepted only on the connection its request was delivered  *)
(* to, even from a second socket of the same identity that took the        *)
(* offering over: nothing in a completion's queue came from elsewhere.     *)
(***************************************************************************)
AnsweredOnItsOwnLink ==
  \A r \in Requests : \A i \in 1..Len(said[r]) : said[r][i].from = link[r]

(***************************************************************************)
(* A truncated answer never passes as a complete one: a stream that ends   *)
(* in [DONE] carries exactly the chunks its provider sent before its first *)
(* done, that done was the provider's own, and no error, invalid chunk or  *)
(* drop came before it.                                                    *)
(***************************************************************************)
WholeAnswers ==
  \A r \in Requests :
    (body[r] # <<>> /\ body[r][Len(body[r])] = "[DONE]") =>
      /\ Len(body[r]) <= Len(said[r])
      /\ said[r][Len(body[r])].kind = "done"
      /\ \A i \in 1..Len(body[r]) - 1 : body[r][i] = "chunk" /\ said[r][i].kind = "chunk"

(***************************************************************************)
(* The in-flight table is the binding: an entry stands for a completion    *)
(* delivered on that very socket, a closed socket has none left, and while *)
(* the socket is open every completion still being read keeps its entry,   *)
(* so a provider that answers can be heard.                                *)
(***************************************************************************)
TableIsTheBinding ==
  /\ \A c \in Connections : \A r \in table[c] : link[r] = c /\ phase[c] = "open"
  /\ \A r \in Requests :
       (stage[r] \in Live /\ phase[link[r]] = "open") => r \in table[link[r]]

(***************************************************************************)
(* A socket that drops fails its completions now and not at the gap        *)
(* timeout: a generator still running after its socket closed always has a *)
(* closing item ahead of it in its queue.                                  *)
(***************************************************************************)
NobodyWaitsOnAClosedSocket ==
  \A r \in Requests :
    (stage[r] \in Live /\ phase[link[r]] = "closed") =>
      \E i \in taken[r] + 1 .. Len(said[r]) : said[r][i].kind # "chunk"

(***************************************************************************)
(* What core may resolve a completion to is an open socket of the identity *)
(* that was asked for.                                                     *)
(***************************************************************************)
AttachedLinksAreOpen ==
  \A k \in Keys : attached[k] # None => phase[attached[k]] = "open" /\ KeyOf[attached[k]] = k

(***************************************************************************)
(* The teardown of a replaced socket cannot take its replacement offline:  *)
(* an identity loses its link only by that link's own socket closing.      *)
(***************************************************************************)
ReplacementSurvives ==
  [][\A k \in Keys :
       (attached[k] # None /\ attached'[k] = None) => phase'[attached[k]] = "closed"]_vars

(***************************************************************************)
(* No caller hangs: with a timer that fires, a completion that was         *)
(* delivered ends, even when its provider falls silent on a socket that    *)
(* never closes, or the frame that carried the request was lost with the   *)
(* writer.                                                                 *)
(***************************************************************************)
EveryCompletionEnds ==
  TimersRun => \A r \in Requests : stage[r] \in Live ~> stage[r] \notin Live

-----------------------------------------------------------------------------
(* Refinement.  The caller's side of a completion: how many chunks it was  *)
(* given, and how the answer stands from where it sits.                    *)

ChunksHeard(r) == Cardinality({i \in 1..Len(body[r]) : body[r][i] = "chunk"})

KindsOf(items) == [i \in 1..Len(items) |-> items[i].kind]

Fate(r) ==
  CASE stage[r] = "none"     -> "idle"
    [] stage[r] = "rejected" -> "refused"
    [] stage[r] \in Live     -> "open"
    [] stage[r] \in {"orphaned", "discarded", "left"} -> "abandoned"
    [] OTHER -> stage[r]

Contract ==
  INSTANCE CompletionContract WITH
    Asks   <- Requests,
    Links  <- Connections,
    Nobody <- None,
    Words  <- ItemKinds,
    holder <- link,
    words  <- [r \in Requests |-> KindsOf(said[r])],
    heard  <- [r \in Requests |-> ChunksHeard(r)],
    fate   <- [r \in Requests |-> Fate(r)]

(***************************************************************************)
(* The relay keeps its contract: whatever sockets, timers and callers do,  *)
(* each step is one the abstract exchange allows, or none of its business. *)
(***************************************************************************)
ContractKept == Contract!Spec
=============================================================================
