------------------------------ MODULE AgentLink ------------------------------
(***************************************************************************)
(* The Python provider link, souk_agent_sdk/client.py, composed with       *)
(* RunRelay: connect, register, serve and reconnect; offers answered with  *)
(* the runtime's verdict; and the history queries an agent makes in the    *)
(* middle of a run, with the task of ws_provider.py that answers them.     *)
(*                                                                         *)
(* What the agents say goes into one queue that outlives every connection; *)
(* a writer task per connection drains it.  A query belongs to the socket  *)
(* it was asked of, a run to no socket at all.                             *)
(***************************************************************************)
EXTENDS RunRelay

CONSTANTS
  Executions,  \* bound: one number per offer the runtime accepts
  Story,       \* how many events an execution reports
  MaxQueries   \* bound: questions asked

ASSUME AgentAssumption ==
  /\ Executions \subseteq Nat \ {0}
  /\ None \notin Executions
  /\ Story \in Nat
  /\ MaxQueries \in Nat

VARIABLES
  at,        \* run_forever: "waiting", "welcome", "registered", "serving"
  link,      \* the connection it is on
  outbound,  \* self._outbound
  writer,    \* the connection's _write_loop task
  exec,      \* the runtime's tasks, one per accepted offer
  pending,   \* self._pending: for each execution, the question it waits on
  asks,      \* how many questions were asked, which numbers them
  answering, \* gateway: the _answer_query tasks
  stray      \* history: the runs a yes off a replaced connection claimed

agentVars == <<at, link, outbound, writer, exec, pending, asks>>
linkVars == <<relayVars, agentVars, answering>>
vars == <<linkVars, stray>>

Idle == [run |-> None, stage |-> "free", told |-> 0]
Working(x) == exec[x].stage = "working"

\* No question; or its number and the connection that served when it was asked.
NoQuestion == [n |-> 0, on |-> None]

Init ==
  /\ RelayInit
  /\ at = "waiting"
  /\ link = None
  /\ outbound = <<>>
  /\ writer = "off"
  /\ exec = [x \in Executions |-> Idle]
  /\ pending = [x \in Executions |-> NoQuestion]
  /\ asks = 0
  /\ answering = {}
  /\ stray = {}

-----------------------------------------------------------------------------
(* run_forever and _run_connection. *)

Say_WhileConnected(f) == outbound' = IF at = "serving" THEN Append(outbound, f) ELSE outbound

Say(f) == outbound' = Append(outbound, f)
Send(f) == up' = IF wire[link] = "up" THEN [up EXCEPT ![link] = Append(@, f)] ELSE up

Heard == link # None /\ down[link] # <<>>
Hears(type) == Heard /\ Head(down[link]).type = type
Took == down' = [down EXCEPT ![link] = Tail(@)]

Fresh == {c \in Connections : wire[c] = "none"}

\* A ticket whose key the pin accepts, the dial (any fresh connection, they
\* are alike), and the hello.  A failure on the way leaves the loop where it
\* is, reconnect_delay later.
Dial ==
  LET c == CHOOSE d \in Fresh : TRUE IN
  /\ at = "waiting"
  /\ Fresh # {}
  /\ wire' = [wire EXCEPT ![c] = "up"]
  /\ up' = [up EXCEPT ![c] = <<Note("hello")>>]
  /\ link' = c
  /\ at' = "welcome"
  /\ UNCHANGED <<phase, down, attached, serving, runVars, outbound, writer, exec, pending, asks, answering>>

Welcomed_ThroughTheQueue ==
  /\ at = "welcome"
  /\ Hears("welcome")
  /\ Took
  /\ Say(Note("register"))
  /\ at' = "registered"
  /\ writer' = "running"
  /\ UNCHANGED <<wire, phase, up, attached, serving, runVars, link, exec, pending, asks, answering>>

Welcomed ==
  /\ at = "welcome"
  /\ Hears("welcome")
  /\ Took
  /\ Send(Note("register"))
  /\ at' = "registered"
  /\ UNCHANGED <<wire, phase, attached, serving, runVars, link, outbound, writer, exec, pending, asks, answering>>

\* The frame after the register is read as its answer; only then a writer.
Registered ==
  /\ at = "registered"
  /\ Hears("registered")
  /\ Took
  /\ at' = "serving"
  /\ writer' = "running"
  /\ UNCHANGED <<wire, phase, up, attached, serving, runVars, link, outbound, exec, pending, asks, answering>>

LinkEnds ==
  /\ wire' = [wire EXCEPT ![link] = "broken"]
  /\ down' = [down EXCEPT ![link] = <<>>]
  /\ link' = None
  /\ at' = "waiting"
  /\ writer' = "off"

\* Ten seconds without an answer, an answer that is not the one awaited or
\* does not verify, a connection that broke.
CeremonyFails ==
  /\ at \in {"welcome", "registered"}
  /\ LinkEnds
  /\ UNCHANGED <<phase, up, attached, serving, runVars, outbound, exec, pending, asks, answering>>

FailPendingQueries_LeftToTimeOut == UNCHANGED pending

\* _fail_pending_queries: every question, whatever connection it was for.
FailPendingQueries == pending' = [x \in Executions |-> NoQuestion]

\* The finally block: questions die with the socket, the queue does not, and
\* neither do the executions.
ConnectionEnds ==
  /\ at = "serving"
  /\ wire[link] = "broken"
  /\ FailPendingQueries
  /\ LinkEnds
  /\ UNCHANGED <<phase, up, attached, serving, runVars, outbound, exec, asks, answering>>

Write ==
  /\ writer = "running"
  /\ outbound # <<>>
  /\ outbound' = Tail(outbound)
  /\ Send(Head(outbound))
  /\ UNCHANGED <<wire, phase, down, attached, serving, runVars, at, link, writer, exec, pending, asks, answering>>

\* ws.send raises, or is cancelled, on a connection that broke; json.dumps raises
\* on an event it cannot carry, and the socket stays up.  The frame is neither
\* sent nor kept.
WriterFails ==
  /\ writer = "running"
  /\ outbound # <<>>
  /\ wire[link] = "broken" \/ Head(outbound).type = "event"
  /\ outbound' = Tail(outbound)
  /\ writer' = "dead"
  /\ UNCHANGED <<relayVars, at, link, exec, pending, asks, answering>>

-----------------------------------------------------------------------------
(* The read loop. *)

Serving(type) == at = "serving" /\ Hears(type) /\ Took

Ack(r, verdict, x) == Say(Frame("ack", r, [verdict |-> verdict, who |-> x]))

\* runtime.deliver took it: the yes is queued, and the agent's task started.
TakeRun(x) ==
  /\ Serving("run")
  /\ exec[x].stage = "free"
  /\ \A y \in Executions : exec[y].stage = "free" => x <= y
  /\ Cardinality({y \in Executions : Working(y)}) < Capacity
  /\ LET r == Head(down[link]).run
     IN  /\ Ack(r, "accepted", x)
         /\ exec' = [exec EXCEPT ![x] = [run |-> r, stage |-> "working", told |-> 0]]
  /\ UNCHANGED <<wire, phase, up, attached, serving, runVars, at, link, writer, pending, asks, answering>>

\* Full, or an agent it does not host: a bare no.  A frame that does not
\* validate, or an interjection for an agent that takes none: a refusal with
\* its reason.
TurnDown ==
  /\ Serving("run")
  /\ \E verdict \in {"declined", "refused"} : Ack(Head(down[link]).run, verdict, None)
  /\ UNCHANGED <<wire, phase, up, attached, serving, runVars, at, link, writer, exec, pending, asks, answering>>

\* "The run ends when the agent's generator ends, and finish is what says so."
Ends(S) == [x \in Executions |-> IF x \in S THEN [exec[x] EXCEPT !.stage = "ending"] ELSE exec[x]]

\* A task that is cancelled at its wait leaves it through the finally.
TakeCancel ==
  /\ Serving("cancel")
  /\ LET S == {x \in Executions : Working(x) /\ exec[x].run = Head(down[link]).run}
     IN  /\ exec' = Ends(S)
         /\ pending' = [x \in Executions |-> IF x \in S THEN NoQuestion ELSE pending[x]]
  /\ UNCHANGED <<wire, phase, up, attached, serving, runVars, at, link, outbound, writer, asks, answering>>

TakeError ==
  /\ Serving("error")
  /\ UNCHANGED <<wire, phase, up, attached, serving, runVars, agentVars, answering>>

\* _resolve_query, by queryId: nobody waits for it any more, and it is dropped.
Resolve(x, n) ==
  pending' = IF pending[x].n = n THEN [pending EXCEPT ![x] = NoQuestion] ELSE pending

TakeResult ==
  /\ Serving("queryResult")
  /\ LET q == Head(down[link]).body IN Resolve(q.who, q.nth)
  /\ UNCHANGED <<wire, phase, up, attached, serving, runVars, at, link, outbound, writer, exec, asks, answering>>

-----------------------------------------------------------------------------
(* The agents, through the link: connected or not makes no difference. *)

Told(x) == [who |-> x, nth |-> exec[x].told + 1]

\* An execution that waits for an answer says nothing meanwhile.
Report(x) ==
  /\ Working(x)
  /\ pending[x] = NoQuestion
  /\ exec[x].told < Story
  /\ Say(Frame("event", exec[x].run, Told(x)))
  /\ exec' = [exec EXCEPT ![x].told = @ + 1]
  /\ UNCHANGED <<relayVars, at, link, writer, pending, asks, answering>>

\* The generator ended, or was cancelled.
Over(x) ==
  \/ exec[x].stage = "ending"
  \/ Working(x) /\ pending[x] = NoQuestion /\ exec[x].told = Story

Finish_UnlessCancelled(x) ==
  /\ Over(x)
  /\ exec' = [exec EXCEPT ![x].stage = "done"]
  /\ IF exec[x].told = Story THEN Say(Frame("finish", exec[x].run, None)) ELSE UNCHANGED outbound
  /\ UNCHANGED <<relayVars, at, link, writer, pending, asks, answering>>

Finish(x) ==
  /\ Over(x)
  /\ exec' = [exec EXCEPT ![x].stage = "done"]
  /\ Say(Frame("finish", exec[x].run, None))
  /\ UNCHANGED <<relayVars, at, link, writer, pending, asks, answering>>

\* thread_messages, up to its wait.  An agent asks for the history first.
Ask(x) ==
  /\ Working(x)
  /\ exec[x].told = 0
  /\ pending[x] = NoQuestion
  /\ asks < MaxQueries
  /\ asks' = asks + 1
  /\ pending' = [pending EXCEPT ![x] =
                    [n |-> asks + 1, on |-> IF at = "serving" THEN link ELSE None]]
  /\ Say(Frame("query", None, [who |-> x, nth |-> asks + 1]))
  /\ UNCHANGED <<relayVars, at, link, writer, exec, answering>>

QueryTimeout_Unset(x) == FALSE

\* QUERY_TIMEOUT_SECONDS: a failure, never an empty answer.
QueryTimeout(x) ==
  /\ pending[x] # NoQuestion
  /\ pending' = [pending EXCEPT ![x] = NoQuestion]
  /\ UNCHANGED <<relayVars, at, link, outbound, writer, exec, asks, answering>>

-----------------------------------------------------------------------------
(* The gateway's side of a query: a task beside the read loop, so that acks *)
(* and events do not wait for its reads.                                    *)

ReadQuery(c) ==
  /\ Reading(c)
  /\ Head(up[c]).type = "query"
  /\ up' = [up EXCEPT ![c] = Tail(@)]
  /\ answering' = answering \cup {[on |-> c, question |-> Head(up[c]).body]}
  /\ UNCHANGED <<wire, phase, down, attached, serving, runVars, agentVars>>

\* Its reads raise: nothing is answered.
AnswerQuery(t) ==
  /\ answering' = answering \ {t}
  /\ \/ Post(t.on, Frame("queryResult", None, t.question))
     \/ UNCHANGED down
  /\ UNCHANGED <<wire, phase, up, attached, serving, runVars, agentVars>>

WireBreaks(c) ==
  /\ wire[c] = "up"
  /\ wire' = [wire EXCEPT ![c] = "broken"]
  /\ down' = [down EXCEPT ![c] = <<>>]
  /\ UNCHANGED <<phase, up, attached, serving, runVars, agentVars, answering>>

-----------------------------------------------------------------------------
LoopStep ==
  \/ Dial \/ Welcomed \/ Registered \/ CeremonyFails \/ ConnectionEnds \/ Write \/ WriterFails
  \/ TurnDown \/ TakeCancel \/ TakeError \/ TakeResult

AgentStep(x) ==
  \/ TakeRun(x) \/ Report(x) \/ Finish(x)
  \/ Ask(x) \/ QueryTimeout(x)

Elsewhere ==
  \/ LoopStep
  \/ \E x \in Executions : AgentStep(x)
  \/ \E c \in Connections : ReadQuery(c) \/ WireBreaks(c)
  \/ \E t \in answering : AnswerQuery(t)

\* A yes counts for the run on offer, whatever connection it is read off.
Astray == {r \in Runs : claim'[r] # claim[r] /\ up'[attached] = up[attached]}

Next ==
  \/ GatewayNext /\ stray' = stray \cup Astray /\ UNCHANGED <<agentVars, answering>>
  \/ Elsewhere /\ UNCHANGED stray

Spec == Init /\ [][Next]_vars

\* Both event loops run what is ready, and a timer that expired.  An agent
\* gets on with its run unless it waits; nothing says that it asks.
FairSpec ==
  /\ Spec
  /\ GatewayRuns
  /\ WF_linkVars(ConnectionEnds) /\ WF_linkVars(Write) /\ WF_linkVars(TakeCancel)
  /\ WF_linkVars(TakeError) /\ WF_linkVars(TakeResult)
  /\ \A c \in Connections : WF_linkVars(ReadQuery(c))
  /\ \A x \in Executions :
       /\ WF_linkVars(Report(x)) /\ WF_linkVars(Finish(x))
       /\ WF_linkVars(TakeRun(x) \/ TurnDown)
       /\ WF_linkVars(QueryTimeout(x))

-----------------------------------------------------------------------------
TypeOK ==
  /\ at \in {"waiting", "welcome", "registered", "serving"}
  /\ (link = None) = (at = "waiting")
  /\ writer \in {"off", "running", "dead"}
  /\ exec \in [Executions ->
        [run : Runs \cup {None}, stage : {"free", "working", "ending", "done"},
         told : 0..Story]]
  /\ pending \in [Executions -> [n : 0..asks, on : Connections \cup {None}]]
  /\ asks \in 0..MaxQueries
  /\ \A t \in answering : t.on \in Connections

(***************************************************************************)
(* "A question was asked of this connection and nothing will ever answer   *)
(* it": no agent waits for a socket that is gone.                          *)
(***************************************************************************)
NoQueryWaitsOnADeadSocket ==
  \A x \in Executions : pending[x].on # None => pending[x].on = link

(***************************************************************************)
(* What the link reads after its register is the answer to it: nothing     *)
(* that the queue still held from an earlier connection gets an answer in  *)
(* first, which would be taken for a refusal.                              *)
(***************************************************************************)
RegisterIsAnsweredFirst ==
  at \in {"welcome", "registered"} /\ Heard =>
    Head(down[link]) \in {Note("welcome"), Note("registered"), Note("error")}

(***************************************************************************)
(* Every question comes to an end for the agent that waits on it.          *)
(***************************************************************************)
EveryQueryEnds == \A x \in Executions : pending[x] # NoQuestion ~> pending[x] = NoQuestion

\* Connected, and nothing that is said gets out.
Mute == writer = "dead" /\ wire[link] = "up"

(***************************************************************************)
(* A run core gave this provider ends, by its finish or with its link,     *)
(* through drops, cancels and questions nobody answers: the finish of a    *)
(* run whose socket dropped goes out on the next one, or the run failed    *)
(* with the drop.  Two things can hold one for ever: a link that stays     *)
(* connected with a dead writer, and a claim by a yes that was read off a  *)
(* connection after its replacement, when the execution behind it is over  *)
(* and the run's second offer is turned down.                              *)
(***************************************************************************)
HeldRunsEnd ==
  []<>~Mute => \A r \in Runs : Held(r) ~> (~Held(r) \/ r \in stray)

Fate(r) == IF status[r] \in {"queued", "offered"} THEN "waiting" ELSE status[r]

Crew(r) == {x \in Executions : exec[x].stage # "free" /\ exec[x].run = r}

Contract ==
  INSTANCE RunContract WITH
    Workers  <- Executions,
    Nobody   <- None,
    Length   <- Story,
    Thorough <- FALSE,
    MayStray <- TRUE,
    fate     <- [r \in Runs |-> Fate(r)],
    crew     <- [r \in Runs |-> Crew(r)],
    holder   <- [r \in Runs |-> IF r \in stray THEN None ELSE claim[r]],
    record   <- record

(***************************************************************************)
(* Through every drop and reconnection: what core has on record of the     *)
(* execution whose yes gave it a run is what that execution said, from the *)
(* first event on, in order and with nothing left out, because the yes and *)
(* the events go out of one queue that outlives the connections; its       *)
(* finish comes behind the last event; and a run whose connection is gone  *)
(* has failed, whatever is said about it later.                            *)
(***************************************************************************)
RunContractKept == Contract!Spec
=============================================================================
