--------------------------- MODULE ProviderSocket ---------------------------
(***************************************************************************)
(* The gateway's half of an agent provider's connection: souk_server/      *)
(* ws_provider.py, the parts of ws_common.py it runs on, and what it needs *)
(* of core's registry.  Publishing, deleting and losing agents, and the    *)
(* three tasks that share a socket: the read loop, the writer, and the     *)
(* watcher that closes a socket whose agents the registry no longer lists. *)
(* What travels for a run (offers, verdicts, events) is not here.          *)
(*                                                                         *)
(* Everything between two awaits is one action.  Names are numbers because *)
(* the watcher asks about them in sorted order, one await for each.        *)
(***************************************************************************)
EXTENDS Naturals, Sequences

CONSTANTS
  Connections,   \* sockets ever opened on /ws/provider
  Keys,          \* agent provider identities
  KeyOf,         \* the identity each socket proves in its hello
  Names,         \* agent names
  None,          \* no socket
  DbMayFail,     \* whether a registry read can raise
  MaxOutbound    \* bound: frames parked in one socket's outbound queue

ASSUME ProviderAssumption ==
  /\ KeyOf \in [Connections -> Keys]
  /\ None \notin Connections
  /\ Names \subseteq Nat
  /\ DbMayFail \in BOOLEAN
  /\ MaxOutbound \in Nat

VARIABLES
  phase,      \* where each socket's handler is
  call,       \* the core call its read loop is awaiting
  wire,       \* the connection under it
  writer,     \* its write_loop task
  outbound,   \* the queue that task drains
  watcher,    \* its _watch_registration task
  published,  \* SocketProvider.registered_names
  declared,   \* SocketProvider._interjections: the names it holds True for
  attached,   \* core: the one link each identity has attached
  serving,    \* core: the names that link is live for
  listed,     \* the registry's rows, by identity
  card        \* the rows whose agent card announces interjections

linkVars  == <<published, declared>>
coreVars  == <<attached, serving, listed, card>>
writeVars == <<writer, outbound>>
vars == <<phase, call, wire, writeVars, watcher, linkVars, coreVars>>

-----------------------------------------------------------------------------
Frames == {"welcome", "registered", "deleted", "error", "close"}

Calls == [op : {"register", "delete"}, names : SUBSET Names, takers : SUBSET Names,
          written : BOOLEAN]
NoCall == [op |-> "none", names |-> {}, takers |-> {}, written |-> FALSE]

\* at: off before the attach; asleep between two checks; asking with the names
\* still to be looked up and whether one was found; returned, after its close
\* or cancelled; raised, ended by an exception nobody awaits.
Watchers == [at : {"off", "asleep", "returned", "raised"}, todo : {{}}, found : {FALSE}]
            \cup [at : {"asking"}, todo : SUBSET Names, found : BOOLEAN]
Watcher(at) == [at |-> at, todo |-> {}, found |-> FALSE]

Init ==
  /\ phase = [c \in Connections |-> "idle"]
  /\ call = [c \in Connections |-> NoCall]
  /\ wire = [c \in Connections |-> "up"]
  /\ writer = [c \in Connections |-> "off"]
  /\ outbound = [c \in Connections |-> <<>>]
  /\ watcher = [c \in Connections |-> Watcher("off")]
  /\ published = [c \in Connections |-> {}]
  /\ declared = [c \in Connections |-> {}]
  /\ attached = [k \in Keys |-> None]
  /\ serving = [k \in Keys |-> {}]
  /\ listed = [k \in Keys |-> {}]
  /\ card = [k \in Keys |-> {}]

-----------------------------------------------------------------------------
(* Frames out.  Once its writer has ended nothing reads a queue again, so  *)
(* what is put in it afterwards is not kept.                               *)

Room(c) == writer[c] = "running" => Len(outbound[c]) < MaxOutbound

Post(c, frame) ==
  outbound' = IF writer[c] = "running"
              THEN [outbound EXCEPT ![c] = Append(@, frame)] ELSE outbound

WriteFrame(c) ==
  /\ writer[c] = "running"
  /\ outbound[c] # <<>>
  /\ Head(outbound[c]) # "close"
  /\ outbound' = [outbound EXCEPT ![c] = Tail(@)]
  /\ UNCHANGED <<phase, call, wire, writer, watcher, linkVars, coreVars>>

\* The close goes through the queue like every frame, and ends the writer.
WriteClose(c) ==
  /\ writer[c] = "running"
  /\ outbound[c] # <<>>
  /\ Head(outbound[c]) = "close"
  /\ wire' = [wire EXCEPT ![c] = "shut"]
  /\ writer' = [writer EXCEPT ![c] = "ended"]
  /\ outbound' = [outbound EXCEPT ![c] = <<>>]
  /\ UNCHANGED <<phase, call, watcher, linkVars, coreVars>>

\* A send on a connection that broke raises; the read loop is not told.
WriterFails(c) ==
  /\ writer[c] = "running"
  /\ outbound[c] # <<>>
  /\ wire[c] = "broken"
  /\ writer' = [writer EXCEPT ![c] = "ended"]
  /\ outbound' = [outbound EXCEPT ![c] = <<>>]
  /\ UNCHANGED <<phase, call, wire, watcher, linkVars, coreVars>>

WireBreaks(c) ==
  /\ phase[c] = "open"
  /\ wire[c] = "up"
  /\ wire' = [wire EXCEPT ![c] = "broken"]
  /\ UNCHANGED <<phase, call, writeVars, watcher, linkVars, coreVars>>

-----------------------------------------------------------------------------
(* The socket's life. *)

Reading(c) == phase[c] = "open" /\ call[c] = NoCall

Accept(c) ==
  /\ phase[c] = "idle"
  /\ phase' = [phase EXCEPT ![c] = "hello"]
  /\ UNCHANGED <<call, wire, writeVars, watcher, linkVars, coreVars>>

\* No hello in time, a hello refused by name, or a ticket or proof core does
\* not accept.
HandshakeFails(c) ==
  /\ phase[c] = "hello"
  /\ phase' = [phase EXCEPT ![c] = "closed"]
  /\ UNCHANGED <<call, wire, writeVars, watcher, linkVars, coreVars>>

\* External: nameless, and in place of the identity's earlier link.
AttachLink(c) ==
  /\ attached' = [attached EXCEPT ![KeyOf[c]] = c]
  /\ serving' = [serving EXCEPT ![KeyOf[c]] = {}]
  /\ UNCHANGED <<listed, card>>

Attach(c) ==
  /\ phase[c] = "hello"
  /\ AttachLink(c)
  /\ phase' = [phase EXCEPT ![c] = "open"]
  /\ writer' = [writer EXCEPT ![c] = "running"]
  /\ outbound' = [outbound EXCEPT ![c] = <<"welcome">>]
  /\ watcher' = [watcher EXCEPT ![c] = Watcher("asleep")]
  /\ UNCHANGED <<call, wire, linkVars>>

Detach_WholeKey(c) ==
  /\ attached' = [attached EXCEPT ![KeyOf[c]] = None]
  /\ serving' = [serving EXCEPT ![KeyOf[c]] = {}]
  /\ UNCHANGED <<listed, card>>

\* Scoped to this connection: a link that was replaced detaches nothing.
\* The rows stay, offline.
Detach(c) ==
  /\ IF attached[KeyOf[c]] = c
     THEN /\ attached' = [attached EXCEPT ![KeyOf[c]] = None]
          /\ serving' = [serving EXCEPT ![KeyOf[c]] = {}]
     ELSE UNCHANGED <<attached, serving>>
  /\ UNCHANGED <<listed, card>>

\* The finally block awaits the watcher first.  One that raised raises again
\* there, and the writer behind it is never cancelled.
Teardown(c) ==
  /\ phase' = [phase EXCEPT ![c] = "closed"]
  /\ call' = [call EXCEPT ![c] = NoCall]
  /\ Detach(c)
  /\ IF watcher[c].at = "raised"
     THEN UNCHANGED <<watcher, writeVars>>
     ELSE /\ watcher' = [watcher EXCEPT ![c] = Watcher("returned")]
          /\ writer' = [writer EXCEPT ![c] = "ended"]
          /\ outbound' = [outbound EXCEPT ![c] = <<>>]
  /\ UNCHANGED <<wire, linkVars>>

Disconnect(c) == Reading(c) /\ Teardown(c)

\* A call to core raises something the handler does not catch.
HandlerFault(c) == call[c] # NoCall /\ Teardown(c)

-----------------------------------------------------------------------------
(* The registry's frames. *)

RejectFrame(c) ==
  /\ Reading(c)
  /\ Room(c)
  /\ Post(c, "error")
  /\ UNCHANGED <<phase, call, wire, writer, watcher, linkVars, coreVars>>

Declare_Merged(c, takers) == declared' = [declared EXCEPT ![c] = @ \cup takers]

\* declare_interjections: replaced, and before core is asked.
Declare(c, takers) == declared' = [declared EXCEPT ![c] = takers]

TakesInterjections(c, n) == n \in declared[c]

ReceiveRegister(c) ==
  \E names \in (SUBSET Names) \ {{}} : \E takers \in SUBSET names :
    /\ Reading(c)
    /\ Declare(c, takers)
    /\ call' = [call EXCEPT ![c] = [op |-> "register", names |-> names,
                                    takers |-> takers, written |-> FALSE]]
    /\ UNCHANGED <<phase, wire, writeVars, watcher, published, coreVars>>

ReceiveDelete(c) ==
  \E n \in Names :
    /\ Reading(c)
    /\ call' = [call EXCEPT ![c] = [op |-> "delete", names |-> {n},
                                    takers |-> {}, written |-> FALSE]]
    /\ UNCHANGED <<phase, wire, writeVars, watcher, linkVars, coreVars>>

\* External: inside the awaited call the rows are committed, each card with
\* what the link answers for that name.  Only the attached link is served.
CoreWrites(c) ==
  LET k == KeyOf[c]
      names == call[c].names
  IN
  /\ call[c] # NoCall
  /\ ~call[c].written
  /\ attached[k] = c
  /\ call' = [call EXCEPT ![c].written = TRUE]
  /\ \/ /\ call[c].op = "register"
        /\ listed' = [listed EXCEPT ![k] = @ \cup names]
        /\ card' = [card EXCEPT ![k] =
                      (@ \ names) \cup {n \in names : TakesInterjections(c, n)}]
     \/ /\ call[c].op = "delete"
        /\ names \subseteq listed[k]
        /\ listed' = [listed EXCEPT ![k] = @ \ names]
        /\ card' = [card EXCEPT ![k] = @ \ names]
  /\ UNCHANGED <<phase, wire, writeVars, watcher, linkVars, attached, serving>>

\* External: the live names follow, if the link was not replaced meanwhile.
GoLive(c, names) ==
  serving' = IF attached[KeyOf[c]] = c
             THEN [serving EXCEPT ![KeyOf[c]] = names] ELSE serving

FinishRegister(c) ==
  /\ call[c].op = "register"
  /\ call[c].written
  /\ Room(c)
  /\ GoLive(c, call[c].names)
  /\ published' = [published EXCEPT ![c] = call[c].names]
  /\ call' = [call EXCEPT ![c] = NoCall]
  /\ Post(c, "registered")
  /\ UNCHANGED <<phase, wire, writer, watcher, declared, attached, listed, card>>

Unpublish_Forgotten(c, names) == UNCHANGED published
Unpublish(c, names) == published' = [published EXCEPT ![c] = @ \ names]

FinishDelete(c) ==
  /\ call[c].op = "delete"
  /\ call[c].written
  /\ Room(c)
  /\ GoLive(c, serving[KeyOf[c]] \ call[c].names)
  /\ Unpublish(c, call[c].names)
  /\ call' = [call EXCEPT ![c] = NoCall]
  /\ Post(c, "deleted")
  /\ UNCHANGED <<phase, wire, writer, watcher, declared, attached, listed, card>>

\* A refusal: not the attached link, no such agent, a conversation behind it.
CallRefused(c) ==
  /\ call[c] # NoCall
  /\ ~call[c].written
  /\ Room(c)
  /\ call' = [call EXCEPT ![c] = NoCall]
  /\ Post(c, "error")
  /\ UNCHANGED <<phase, wire, writer, watcher, linkVars, coreVars>>

\* Underneath every socket: a restored database, a de-listing by hand.
Delist(k) ==
  \E n \in listed[k] :
    /\ listed' = [listed EXCEPT ![k] = @ \ {n}]
    /\ card' = [card EXCEPT ![k] = @ \ {n}]
    /\ UNCHANGED <<phase, call, wire, writeVars, watcher, linkVars, attached, serving>>

-----------------------------------------------------------------------------
(* _watch_registration. *)

\* Every OWNERSHIP_RECHECK_SECONDS, unless nothing is published.
WatcherWakes(c) ==
  /\ watcher[c].at = "asleep"
  /\ published[c] # {}
  /\ watcher' = [watcher EXCEPT ![c] = [at |-> "asking", todo |-> published[c], found |-> FALSE]]
  /\ UNCHANGED <<phase, call, wire, writeVars, linkVars, coreVars>>

\* One get_agent after the other, all of them, whatever the first ones say.
WatcherAsks(c) ==
  \E n \in watcher[c].todo :
    /\ watcher[c].at = "asking"
    /\ \A other \in watcher[c].todo : n <= other
    /\ watcher' = [watcher EXCEPT ![c].todo = @ \ {n},
                                  ![c].found = @ \/ n \in listed[KeyOf[c]]]
    /\ UNCHANGED <<phase, call, wire, writeVars, linkVars, coreVars>>

\* get_agent raises: nothing in the task catches it, nobody awaits the task.
WatcherRaises(c) ==
  /\ DbMayFail
  /\ watcher[c].at = "asking"
  /\ watcher[c].todo # {}
  /\ watcher' = [watcher EXCEPT ![c] = Watcher("raised")]
  /\ UNCHANGED <<phase, call, wire, writeVars, linkVars, coreVars>>

Asked(c) == watcher[c].at = "asking" /\ watcher[c].todo = {}

WatcherRests_KeepsFound(c) ==
  /\ Asked(c)
  /\ watcher[c].found
  /\ watcher' = [watcher EXCEPT ![c].at = "asleep"]
  /\ UNCHANGED <<phase, call, wire, writeVars, linkVars, coreVars>>

WatcherRests_Returns(c) ==
  /\ Asked(c)
  /\ watcher[c].found
  /\ watcher' = [watcher EXCEPT ![c] = Watcher("returned")]
  /\ UNCHANGED <<phase, call, wire, writeVars, linkVars, coreVars>>

\* One of the names is still listed: back to sleep.
WatcherRests(c) ==
  /\ Asked(c)
  /\ watcher[c].found
  /\ watcher' = [watcher EXCEPT ![c] = Watcher("asleep")]
  /\ UNCHANGED <<phase, call, wire, writeVars, linkVars, coreVars>>

\* None is: the close is queued behind whatever the writer still holds.  There
\* is one for each socket, and MaxOutbound does not hold it back.
WatcherCloses(c) ==
  /\ Asked(c)
  /\ ~watcher[c].found
  /\ Post(c, "close")
  /\ watcher' = [watcher EXCEPT ![c] = Watcher("returned")]
  /\ UNCHANGED <<phase, call, wire, writer, linkVars, coreVars>>

-----------------------------------------------------------------------------
WriterStep(c) == WriteFrame(c) \/ WriteClose(c) \/ WriterFails(c)

CallStep(c) ==
  CoreWrites(c) \/ FinishRegister(c) \/ FinishDelete(c) \/ CallRefused(c) \/ HandlerFault(c)

WatcherStep(c) ==
  WatcherWakes(c) \/ WatcherAsks(c) \/ WatcherRaises(c) \/ WatcherRests(c) \/ WatcherCloses(c)

SocketStep(c) ==
  \/ Accept(c) \/ HandshakeFails(c) \/ Attach(c) \/ Disconnect(c)
  \/ RejectFrame(c) \/ ReceiveRegister(c) \/ ReceiveDelete(c)
  \/ CallStep(c) \/ WriterStep(c) \/ WatcherStep(c) \/ WireBreaks(c)

Next ==
  \/ \E c \in Connections : SocketStep(c)
  \/ \E k \in Keys : Delist(k)

Spec == Init /\ [][Next]_vars

(***************************************************************************)
(* Fairness.  Tasks run and timers fire; core answers a call it was asked; *)
(* a connection that is gone is reported to the read loop once the frames  *)
(* that came before are through, and those are finitely many.  Nothing     *)
(* says that a provider publishes, or that a registry is tampered with.    *)
(***************************************************************************)
TasksRun ==
  \A c \in Connections :
    /\ WF_vars(CallStep(c))
    /\ WF_vars(WriterStep(c))
    /\ WF_vars(WatcherStep(c))
    /\ SF_vars(wire[c] # "up" /\ Disconnect(c))

FairSpec == Spec /\ TasksRun

-----------------------------------------------------------------------------
TypeOK ==
  /\ phase \in [Connections -> {"idle", "hello", "open", "closed"}]
  /\ call \in [Connections -> Calls \cup {NoCall}]
  /\ wire \in [Connections -> {"up", "broken", "shut"}]
  /\ writer \in [Connections -> {"off", "running", "ended"}]
  /\ outbound \in [Connections -> Seq(Frames)]
  /\ watcher \in [Connections -> Watchers]
  /\ published \in [Connections -> SUBSET Names]
  /\ declared \in [Connections -> SUBSET Names]
  /\ attached \in [Keys -> Connections \cup {None}]
  /\ serving \in [Keys -> SUBSET Names]
  /\ listed \in [Keys -> SUBSET Names]
  /\ card \in [Keys -> SUBSET Names]

(***************************************************************************)
(* The watcher reads registered_names as the account of what the link is   *)
(* live for.  Between two calls, on the attached link, it is just that,    *)
(* through any history of registers, shorter rosters, deletes, refusals    *)
(* and replaced links.                                                     *)
(***************************************************************************)
PublishedIsServed ==
  \A c \in Connections :
    (attached[KeyOf[c]] = c /\ call[c] = NoCall) => published[c] = serving[KeyOf[c]]

(***************************************************************************)
(* A card announces interjections exactly for the names its roster said,   *)
(* though core overwrites the registration by asking the link in the       *)
(* middle of the call, and earlier rosters said other things.              *)
(***************************************************************************)
CardsFollowTheRoster ==
  [][\A c \in Connections :
       (call[c].op = "register" /\ ~call[c].written /\ call'[c].written)
         => card'[KeyOf[c]] \cap call[c].names = call[c].takers]_vars

\* The step answers this socket's own call, and that call is for taking the
\* name off: a delete that names it, or a register that leaves it out.
TakenOff(c, n) ==
  /\ call[c].written
  /\ call'[c] = NoCall
  /\ n \in call[c].names <=> call[c].op = "delete"

(***************************************************************************)
(* An agent goes offline only by its own link: by the answer to that       *)
(* link's register or delete, by its socket's end, or by its replacement.  *)
(* Above all not by the late teardown of a socket the link has already     *)
(* replaced, also not while the live link has a call of its own under way. *)
(***************************************************************************)
OfflineOnlyByItsOwnLink ==
  [][\A k \in Keys : \A n \in serving[k] \ serving'[k] :
       LET c == attached[k] IN
         \/ TakenOff(c, n)
         \/ phase'[c] = "closed" /\ phase[c] = "open"
         \/ attached'[k] \notin {c, None}]_vars

\* An open socket with this roster, and nothing of it in the registry.
Invisible(c, roster) ==
  /\ phase[c] = "open"
  /\ published[c] = roster
  /\ roster \cap listed[KeyOf[c]] = {}

(***************************************************************************)
(* "A healthy container and an invisible agent, indefinitely" is what the  *)
(* watcher is there to end: no socket stays open for good with a roster    *)
(* the registry has lost.  It is closed, or what it publishes changes, or  *)
(* one of its names comes back.                                            *)
(***************************************************************************)
NoRosterStaysInvisible ==
  \A c \in Connections : \A roster \in (SUBSET Names) \ {{}} : []<>~Invisible(c, roster)

=============================================================================
