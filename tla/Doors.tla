------------------------------- MODULE Doors -------------------------------
(***************************************************************************)
(* The two protocol doors of the gateway: souk_server/api_a2a.py and       *)
(* api_agui.py, with the read gate (reads.py) and the presenter's key      *)
(* (presenter.py).  Core (the funduq package, external) keeps threads and  *)
(* runs; a door answers one request from several reads of core, each a     *)
(* transaction of its own, with everybody else's writes between them.      *)
(*                                                                         *)
(* One request is followed, again and again: call.  Requests come by the   *)
(* route of the thread's own agent, and a task is its lineage's first run, *)
(* the task id.  Bounds: MaxThreads, MaxRuns.                              *)
(***************************************************************************)
EXTENDS Naturals, FiniteSetsExt

CONSTANTS
  Agents,           \* provider keys that may keep an agent of the one name
  Party, Stranger,   \* who may present a request: a thread's party, and not
  Asks,             \* interrupt and tool call ids
  None,             \* nobody, nothing
  Ops,              \* the requests followed
  MaxThreads, MaxRuns

ASSUME DoorsAssumption ==
  /\ Party # Stranger
  /\ None \notin Agents \cup {Party, Stranger}
  /\ \A p \in Agents : {Party, p} # None
  /\ IsFiniteSet(Agents)
  /\ MaxThreads \in Nat
  /\ MaxRuns \in Nat

Threads == 1..MaxThreads
Runs    == 1..MaxRuns
Nowhere == 0         \* an id that names nothing

VARIABLES
  roster,    \* core: the providers listed with the name
  alone,     \* history: who was ever listed alone
  thread,    \* core: each thread's agent, and whether a chain bound it
  run,       \* core: each run
  call,      \* the request being answered
  moments    \* history: what was true of what it asks, at each moment of it

doorVars == <<roster, alone, thread, run, call>>

-----------------------------------------------------------------------------
(* Core, external. *)

NoRun  == [thread |-> Nowhere, root |-> Nowhere, st |-> "none", asks |-> {}, cancelled |-> FALSE]
NoCall == [op |-> "none", key |-> None, id |-> Nowhere, at |-> "idle", run |-> Nowhere,
           said |-> "nothing", asks |-> {}]

DoorsInit ==
  /\ roster \in SUBSET Agents
  /\ alone = {p \in Agents : roster = {p}}
  /\ thread = [t \in Threads |-> [agent |-> None, bound |-> FALSE]]
  /\ run = [r \in Runs |-> NoRun]
  /\ call = NoCall
  /\ moments = {}

Minted(t)   == t # Nowhere /\ thread[t].agent # None
Opened(r)   == r # Nowhere /\ run[r].st # "none"
Open(r)     == run[r].st = "open"
Lineage(id) == {r \in Runs : Opened(r) /\ run[r].root = id}
RunsOf(t)   == {r \in Runs : Opened(r) /\ run[r].thread = t}
Newest(S)   == IF S = {} THEN Nowhere ELSE Max(S)
TailOf(id)    == Newest(Lineage(id))

\* funduq.pause.open_asks: nothing is open until a run has finished asking.
OpenAsks(r) == IF r # Nowhere /\ run[r].st = "completed" THEN run[r].asks ELSE {}

\* parties_of: None for a thread nobody bound, and for no thread at all.
PartiesOf(t) == IF Minted(t) /\ thread[t].bound THEN {Party, thread[t].agent} ELSE None

Unused(id, ids) == id \in ids /\ \A j \in ids : j < id => Minted(j)

\* Runs of one thread wait for each other; an answer joins the asking lineage.
OpenRun(r, t, root) ==
  /\ ~Opened(r)
  /\ \A q \in Runs : q < r => Opened(q)
  /\ run' = [run EXCEPT ![r] = [NoRun EXCEPT !.thread = t, !.st = "open",
                                             !.root = IF root = Nowhere THEN r ELSE root]]

RunEnds(r) ==
  /\ Open(r)
  /\ \A q \in RunsOf(run[r].thread) : Open(q) => r <= q
  /\ \/ \E A \in SUBSET Asks : run' = [run EXCEPT ![r].st = "completed", ![r].asks = A]
     \/ run' = [run EXCEPT ![r].st = "failed"]
  /\ UNCHANGED <<roster, alone, thread, call>>

Register(p) ==
  /\ p \notin roster
  /\ roster' = roster \cup {p}
  /\ alone' = IF roster = {} THEN alone \cup {p} ELSE alone
  /\ UNCHANGED <<thread, run, call>>

\* POST /threads: the agent has to be registered, and nobody binds the thread.
CreateThread(p, t) ==
  /\ p \in roster
  /\ Unused(t, Threads)
  /\ ~Minted(t)
  /\ thread' = [thread EXCEPT ![t].agent = p]
  /\ UNCHANGED <<roster, alone, run, call>>

\* POST /agui: a message on a thread that waits is its answer; on one with a
\* run in flight nothing starts, and the caller is handed the snapshot.
AguiRun(t, r) ==
  /\ Minted(t)
  /\ \A q \in RunsOf(t) : ~Open(q)
  /\ LET last == Newest(RunsOf(t)) IN
     OpenRun(r, t, IF OpenAsks(last) # {} THEN run[last].root ELSE Nowhere)
  /\ UNCHANGED <<roster, alone, thread, call>>

\* A message that addresses no task, with its sender's actor chain: on the
\* thread it names, or on a new one, which the chain binds.  It is a run of
\* its own, behind whatever the thread has in flight.
Message(context, p, t, r) ==
  /\ IF context # Nowhere
     THEN t = context /\ UNCHANGED thread
     ELSE /\ Unused(t, Threads) /\ ~Minted(t)
          /\ thread' = [thread EXCEPT ![t] = [agent |-> p, bound |-> TRUE]]
  /\ OpenRun(r, t, Nowhere)
  /\ UNCHANGED <<roster, alone, call>>

-----------------------------------------------------------------------------
(* What every door decides first. *)

\* Every way a Funduq-Presenter header can fail to prove a key is nobody.
presenter_key_of(who, proof) == IF proof = "verifies" THEN who ELSE None

may_read_WhoeverIsSomebody(t, key) == Minted(t) /\ (PartiesOf(t) # None => key # None)

\* The gate: a missing thread is not an unbound one.
may_read(t, key) ==
  /\ Minted(t)
  /\ PartiesOf(t) # None => key \in PartiesOf(t)

Answered(said, r, A) ==
  call' = [call EXCEPT !.at = "answered", !.said = said, !.run = r, !.asks = A]
GoTo(at) == call' = [call EXCEPT !.at = at]

OnThreads == {"ListTasks", "Snapshot"}
OnTasks   == {"Send", "GetTask", "CancelTask", "Subscribe"}

Named(op) == CASE op \in OnThreads -> {t \in Threads : Minted(t)} \cup {Nowhere}
               [] op \in OnTasks   -> {r \in Runs : run[r].root = r} \cup {Nowhere}

Ask(op, who, proof, id) ==
  /\ call.op = "none"
  /\ id \in Named(op)
  /\ call' = [NoCall EXCEPT !.op = op, !.key = presenter_key_of(who, proof),
                            !.id = id, !.at = "begin"]
  /\ UNCHANGED <<roster, alone, thread, run>>

Receive ==
  /\ call.at = "answered"
  /\ call' = NoCall
  /\ UNCHANGED <<roster, alone, thread, run>>

-----------------------------------------------------------------------------
(* The A2A door. *)

\* Core reads the task; the gate is passed on the way out, off its thread.
on_get_task ==
  /\ call.op = "GetTask"
  /\ \/ call.at = "begin" /\ ~Opened(call.id) /\ Answered("absent", Nowhere, {})
     \/ call.at = "begin" /\ Opened(call.id) /\ GoTo("read")
     \/ /\ call.at = "read"
        /\ IF may_read(run[call.id].thread, call.key)
           THEN GoTo("annotate") ELSE Answered("absent", Nowhere, {})
  /\ UNCHANGED <<roster, alone, thread, run>>

\* Not gated: cancelling is an act, and core asks for its own authority.
on_cancel_task ==
  /\ call.op = "CancelTask" /\ call.at = "begin"
  /\ LET tail == TailOf(call.id)
         parties == PartiesOf(run[call.id].thread)
         authorised == parties # None => call.key \in parties
     IN \/ /\ ~Opened(call.id)
           /\ Answered("absent", Nowhere, {}) /\ UNCHANGED run
        \/ /\ Opened(call.id)
           /\ ~Open(tail) \/ ~authorised
           /\ Answered("refused", Nowhere, {}) /\ UNCHANGED run
        \/ /\ Opened(call.id) /\ Open(tail) /\ authorised
           /\ run' = [run EXCEPT ![tail].cancelled = TRUE]
           /\ GoTo("annotate")
  /\ UNCHANGED <<roster, alone, thread>>

\* An answer to a waiting task: a new run of its lineage.  Core takes it from
\* the head, over the open asks; the response waits for the run to settle,
\* unless it was asked to return at once.
on_message_send ==
  /\ call.op = "Send"
  /\ \/ /\ call.at = "begin"
        /\ Opened(call.id) => call.key # Party \/ OpenAsks(TailOf(call.id)) = {}
        /\ Answered("refused", Nowhere, {}) /\ UNCHANGED run
     \/ /\ call.at = "begin"
        /\ Opened(call.id) /\ call.key = Party /\ OpenAsks(TailOf(call.id)) # {}
        /\ \E r \in Runs : OpenRun(r, run[call.id].thread, call.id)
        /\ \E at \in {"settle", "annotate"} : GoTo(at)
     \/ /\ call.at = "settle" /\ ~Open(TailOf(call.id))
        /\ GoTo("annotate") /\ UNCHANGED run
  /\ UNCHANGED <<roster, alone, thread>>

\* Gated before core is asked to stream.  A run this door does not find is
\* left to core to refuse; so is one that has nothing left to stream.
on_subscribe_to_task ==
  /\ call.op = "Subscribe"
  /\ \/ call.at = "begin" /\ ~Opened(call.id) /\ Answered("absent", Nowhere, {})
     \/ call.at = "begin" /\ Opened(call.id) /\ GoTo("read")
     \/ /\ call.at = "read"
        /\ IF may_read(run[call.id].thread, call.key)
           THEN GoTo("stream") ELSE Answered("absent", Nowhere, {})
     \/ call.at = "stream" /\ Open(TailOf(call.id)) /\ Answered("stream", Nowhere, {})
     \/ call.at = "stream" /\ Answered("refused", Nowhere, {})
  /\ UNCHANGED <<roster, alone, thread, run>>

\* An empty page is how a stranger is told no.
on_list_tasks ==
  /\ call.op = "ListTasks"
  /\ \/ /\ call.at = "begin"
        /\ IF may_read(call.id, call.key) THEN GoTo("list") ELSE Answered("absent", Nowhere, {})
     \/ /\ call.at = "list"
        /\ IF RunsOf(call.id) = {} THEN Answered("absent", Nowhere, {})
                                   ELSE Answered("page", Nowhere, {})
  /\ UNCHANGED <<roster, alone, thread, run>>

TheOneToRead_Root(id) == id

\* The tail is who waits, not the root the task is named by.
TheOneToRead(id) == TailOf(id)

\* _annotate_asks: one read for the lineage, one for that run's events.
annotate_asks ==
  /\ \/ call.at = "annotate" /\ call' = [call EXCEPT !.at = "events", !.run = TheOneToRead(call.id)]
     \/ call.at = "events" /\ Answered("task", call.run, OpenAsks(call.run))
  /\ UNCHANGED <<roster, alone, thread, run>>

-----------------------------------------------------------------------------
(* The AG-UI door's snapshot. *)

IsWaiting_WhateverWasAsked(r) == r # Nowhere

\* A run somebody asked to stop is not waiting for anybody.
IsWaiting(r) == r # Nowhere /\ ~run[r].cancelled

\* The snapshot, then the thread's latest run, then that run's events.
get_thread_snapshot ==
  /\ call.op = "Snapshot"
  /\ \/ call.at = "begin" /\ ~Minted(call.id) /\ Answered("absent", Nowhere, {})
     \/ call.at = "begin" /\ Minted(call.id) /\ GoTo("read")
     \/ /\ call.at = "read"
        /\ LET latest == Newest(RunsOf(call.id)) IN
           IF IsWaiting(latest)
           THEN call' = [call EXCEPT !.at = "look", !.run = latest]
           ELSE Answered("snapshot", Nowhere, {})
     \/ /\ call.at = "look"
        /\ IF OpenAsks(call.run) # {}
           THEN Answered("snapshot", call.run, OpenAsks(call.run))
           ELSE Answered("snapshot", Nowhere, {})
  /\ UNCHANGED <<roster, alone, thread, run>>

-----------------------------------------------------------------------------
Request ==
  \/ \E op \in Ops, who \in {Party, Stranger}, proof \in {"verifies", "fails"},
        id \in Threads \cup Runs \cup {Nowhere} : Ask(op, who, proof, id)
  \/ on_get_task \/ on_cancel_task \/ on_message_send \/ on_subscribe_to_task
  \/ on_list_tasks \/ annotate_asks \/ get_thread_snapshot
  \/ Receive

Core ==
  \/ \E r \in Runs : RunEnds(r)
  \/ \E p \in Agents : Register(p)

Senders ==
  \E p \in Agents, t \in Threads :
     \/ CreateThread(p, t)
     \/ \E r \in Runs : AguiRun(t, r)
     \/ \E r \in Runs : p \in roster /\ Message(Nowhere, p, t, r)
     \/ \E r \in Runs : p = thread[t].agent /\ Message(t, p, t, r)

\* Which run the request is about, and what is open on it, just now.
Truth ==
  LET r == IF call.op = "Snapshot" THEN Newest(RunsOf(call.id)) ELSE TailOf(call.id)
  IN  [run |-> r, asks |-> OpenAsks(r), cancelled |-> r # Nowhere /\ run[r].cancelled]

Followed == call.op \in OnTasks \cup {"Snapshot"} /\ call.at # "answered"
Watch == moments' = IF call'.op = "none" THEN {}
                    ELSE moments \cup (IF Followed' THEN {Truth'} ELSE {})

DoorsNext == (Request \/ Core \/ Senders) /\ Watch

DoorsSpec == DoorsInit /\ [][DoorsNext]_<<doorVars, moments>>

-----------------------------------------------------------------------------
(* Properties of the doors. *)

RunRecords == [thread : Threads \cup {Nowhere}, root : Runs \cup {Nowhere},
               st : {"none", "open", "completed", "failed"}, asks : SUBSET Asks,
               cancelled : BOOLEAN]

DoorsTypeOK ==
  /\ roster \in SUBSET Agents
  /\ alone \in SUBSET Agents
  /\ thread \in [Threads -> [agent : Agents \cup {None}, bound : BOOLEAN]]
  /\ run \in [Runs -> RunRecords]
  /\ call.op \in Ops \cup {"none"}
  /\ call.run \in Runs \cup {Nowhere}

\* api_a2a.py _annotate_asks and api_agui.py _with_outstanding_asks.  The asks
\* a caller is handed are what it has to sign, and they come from several
\* reads.  Still, at some moment while a task was answered they were the open
\* asks, all of them or none if none were, of the run that came last in it;
\* and the run a snapshot names was at one of them the last of its thread
\* and not cancelled, and waits for just those asks.
AsksWereOpen ==
  call.at = "answered" =>
    /\ call.said = "task" => \E m \in moments : m.run = call.run /\ m.asks = call.asks
    /\ call.said = "snapshot" /\ call.run # Nowhere =>
         /\ \E m \in moments : m.run = call.run /\ ~m.cancelled
         /\ call.asks = OpenAsks(call.run)

\* reads.py may_read and the four A2A reads.  Whoever is not a party to a
\* bound thread is told of it exactly what is told of one that does not
\* exist, whatever happens to the thread meanwhile; and a party, or the
\* holder of an unbound thread's id, is never told that.
Concerns(t, key) == ~thread[t].bound \/ key \in {Party, thread[t].agent}
AbsenceIsOneAnswer ==
  call.at = "answered" /\ call.id # Nowhere /\ call.op \in {"GetTask", "Subscribe", "ListTasks"} =>
    LET t == IF call.op = "ListTasks" THEN call.id ELSE run[call.id].thread
    IN  IF Concerns(t, call.key)
        THEN call.said = "absent" => call.op = "ListTasks"
        ELSE call.said = "absent"

=============================================================================
