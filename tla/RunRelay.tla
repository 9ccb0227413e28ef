------------------------------ MODULE RunRelay ------------------------------
(***************************************************************************)
(* How a run crosses souk_server/ws_provider.py: core offers it, deliver   *)
(* and cancel queue frames for the provider, and the read loop posts the   *)
(* provider's ack, event and finish frames at core's door in the order it  *)
(* reads them.  The gateway keeps nothing per run; the routing table is    *)
(* core's (external), keyed by the provider's identity and not by socket.  *)
(*                                                                         *)
(* One identity and its successive sockets.  A frame queued for the writer *)
(* task is on the wire at once here: what the writer does is in            *)
(* ProviderSocket.  The provider is whoever writes into up; PodProbe is.   *)
(***************************************************************************)
EXTENDS Naturals, Sequences, FiniteSets

CONSTANTS
  Connections,      \* the sockets of one identity, each used once
  Runs,             \* run ids
  None,             \* no socket, no execution
  Capacity,         \* maxConcurrentRuns, declared in the hello
  DeliverTimesOut,  \* core takes an offer back that nobody answered in time
  MaxOffers         \* bound: offers of one run

ASSUME RelayAssumption ==
  /\ None \notin Connections
  /\ Capacity \in Nat \ {0}
  /\ DeliverTimesOut \in BOOLEAN
  /\ MaxOffers \in Nat

VARIABLES
  wire,      \* each connection: "none", "up", "broken"
  phase,     \* provider_socket: "new", "attached", "closed"
  up, down,  \* what is on the way to the gateway, and to the provider
  attached,  \* core: the identity's link
  serving,   \* core: the link has published its agent
  status,    \* core: each run
  claim,     \* history: the execution whose yes gave it the run
  offers,    \* how often each run was offered
  record     \* core: the events each run is known by

relayVars == <<wire, phase, up, down, attached, serving, status, claim, offers, record>>

Frame(type, run, body) == [type |-> type, run |-> run, body |-> body]
Note(type) == Frame(type, None, None)

Known == {"queued", "offered", "held", "cancelling"}
Held(r) == status[r] \in {"held", "cancelling"}

RelayInit ==
  /\ wire = [c \in Connections |-> "none"]
  /\ phase = [c \in Connections |-> "new"]
  /\ up = [c \in Connections |-> <<>>]
  /\ down = [c \in Connections |-> <<>>]
  /\ attached = None
  /\ serving = FALSE
  /\ status = [r \in Runs |-> "none"]
  /\ claim = [r \in Runs |-> None]
  /\ offers = [r \in Runs |-> 0]
  /\ record = [r \in Runs |-> <<>>]

\* Nobody will read what is queued for a connection that broke.
Post(c, f) == down' = IF wire[c] = "up" THEN [down EXCEPT ![c] = Append(@, f)] ELSE down

-----------------------------------------------------------------------------
(* Core's broker, external. *)

runVars == <<status, claim, offers, record>>

StartRun(r) ==
  /\ status[r] = "none"
  /\ status' = [status EXCEPT ![r] = "queued"]
  /\ UNCHANGED <<wire, phase, up, down, attached, serving, claim, offers, record>>

\* "A provider that stops serving while still holding a claimed run has taken
\* work and never ended it"; an offer nobody answered goes back in the queue.
LinkGone ==
  /\ status' = [r \in Runs |-> CASE Held(r) -> "failed"
                                 [] status[r] = "offered" -> "queued"
                                 [] OTHER -> status[r]]
  /\ UNCHANGED <<claim, offers, record>>

Busy == {r \in Runs : status[r] = "offered" \/ Held(r)}

\* SocketProvider.deliver: the offer is a frame, and nothing comes back here.
Offer(r) ==
  /\ status[r] = "queued"
  /\ serving
  /\ Cardinality(Busy) < Capacity
  /\ offers[r] < MaxOffers
  /\ status' = [status EXCEPT ![r] = "offered"]
  /\ offers' = [offers EXCEPT ![r] = @ + 1]
  /\ Post(attached, Frame("run", r, None))
  /\ UNCHANGED <<wire, phase, up, attached, serving, claim, record>>

\* deliver_timeout_seconds: core will offer the run again.
TakeBack(r) ==
  /\ DeliverTimesOut
  /\ status[r] = "offered"
  /\ status' = [status EXCEPT ![r] = "queued"]
  /\ UNCHANGED <<wire, phase, up, down, attached, serving, claim, offers, record>>

\* SocketProvider.cancel: the ask is on the wire, and the outcome is read off
\* what the run's stream does next.
CancelRun(r) ==
  /\ status[r] = "held"
  /\ status' = [status EXCEPT ![r] = "cancelling"]
  /\ Post(attached, Frame("cancel", r, None))
  /\ UNCHANGED <<wire, phase, up, attached, serving, claim, offers, record>>

\* answer_offer: a verdict for a run that is not on offer matches nothing.
AfterVerdict == [accepted |-> "held", declined |-> "queued", refused |-> "failed"]

AnswerOffer(r, verdict, who) ==
  IF status[r] = "offered"
  THEN /\ status' = [status EXCEPT ![r] = AfterVerdict[verdict]]
       /\ claim' = [claim EXCEPT ![r] = IF verdict = "accepted" THEN who ELSE @]
       /\ UNCHANGED <<offers, record>>
  ELSE UNCHANGED runVars

\* report_event and finish_run: attributed to the identity and posted; from
\* one that does not hold the run they are dropped.
ReportEvent(r, e) ==
  /\ record' = IF Held(r) THEN [record EXCEPT ![r] = Append(@, e)] ELSE record
  /\ UNCHANGED <<status, claim, offers>>

AfterFinish(r) ==
  CASE status[r] = "held" -> "ended"
    [] status[r] = "cancelling" -> "cancelled"
    [] OTHER -> status[r]

FinishRun(r) ==
  /\ status' = [status EXCEPT ![r] = AfterFinish(r)]
  /\ UNCHANGED <<claim, offers, record>>

-----------------------------------------------------------------------------
(* provider_socket. *)

\* A fresh link serves nothing, and replaces the one before it.
Attach(c) ==
  /\ phase' = [phase EXCEPT ![c] = "attached"]
  /\ attached' = c
  /\ serving' = FALSE
  /\ LinkGone
  /\ Post(c, Note("welcome"))

\* Names and `registered` in one turn; a link that was replaced is refused.
Register(c) ==
  /\ serving' = (serving \/ attached = c)
  /\ Post(c, Note(IF attached = c THEN "registered" ELSE "error"))
  /\ UNCHANGED <<phase, attached, runVars>>

\* What is read next is handled next: the ack is posted in the handler that
\* read it, so whatever the connection says about the run queues behind it.
ReadAck(c, f) ==
  /\ AnswerOffer(f.run, f.body.verdict, f.body.who)
  /\ UNCHANGED <<down, phase, attached, serving>>

\* "Answers False for one thing only: a run funduq does not know."
ReadReport(c, f) ==
  /\ IF f.type = "event" THEN ReportEvent(f.run, f.body) ELSE FinishRun(f.run)
  /\ IF status[f.run] \in Known THEN UNCHANGED down ELSE Post(c, Frame("error", f.run, None))
  /\ UNCHANGED <<phase, attached, serving>>

Reading(c) == phase[c] # "closed" /\ up[c] # <<>>

Handle(c) ==
  /\ up' = [up EXCEPT ![c] = Tail(@)]
  /\ LET f == Head(up[c])
     IN  \/ f.type = "hello" /\ Attach(c)
         \/ f.type = "register" /\ Register(c)
         \/ f.type = "ack" /\ ReadAck(c, f)
         \/ f.type \in {"event", "finish"} /\ ReadReport(c, f)

Overtaken(c) ==
  /\ up' = [up EXCEPT ![c] = <<@[2], @[1]>> \o SubSeq(@, 3, Len(@))]
  /\ UNCHANGED <<phase, down, attached, serving, runVars>>

Read_VerdictInATask(c) ==
  /\ Reading(c)
  /\ IF Head(up[c]).type = "ack" /\ Len(up[c]) > 1 THEN Overtaken(c) ELSE Handle(c)
  /\ UNCHANGED wire

Read(c) ==
  /\ Reading(c)
  /\ Handle(c)
  /\ UNCHANGED wire

\* A hello that does not open the link, or its ticket expired.
RefuseHello(c) ==
  /\ phase[c] = "new"
  /\ up[c] # <<>>
  /\ phase' = [phase EXCEPT ![c] = "closed"]
  /\ wire' = [wire EXCEPT ![c] = "broken"]
  /\ up' = [up EXCEPT ![c] = <<>>]
  /\ UNCHANGED <<down, attached, serving, runVars>>

\* The read loop hears of the end, whatever was still on the way; the finally
\* block detaches this link, if it still is the identity's.
Disconnect(c) ==
  /\ wire[c] = "broken"
  /\ phase[c] # "closed"
  /\ phase' = [phase EXCEPT ![c] = "closed"]
  /\ up' = [up EXCEPT ![c] = <<>>]
  /\ IF attached = c
     THEN attached' = None /\ serving' = FALSE /\ LinkGone
     ELSE UNCHANGED <<attached, serving, runVars>>
  /\ UNCHANGED <<wire, down>>

GatewayNext ==
  \/ \E r \in Runs : StartRun(r) \/ Offer(r) \/ TakeBack(r) \/ CancelRun(r)
  \/ \E c \in Connections : Read(c) \/ RefuseHello(c) \/ Disconnect(c)

\* The event loop reads what arrives and hears of a connection that ended.
GatewayRuns == \A c \in Connections : WF_relayVars(Read(c)) /\ WF_relayVars(Disconnect(c))
=============================================================================
