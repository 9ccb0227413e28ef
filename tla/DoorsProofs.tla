----------------------------- MODULE DoorsProofs -----------------------------
(***************************************************************************)
(* Proofs about Doors: the asks an answer hands out were open at a moment  *)
(* of the request, and a stranger is told one thing of a thread that is    *)
(* not his and of one that does not exist.                                 *)
(***************************************************************************)
EXTENDS Doors, WellFoundedInduction, TLAPS

(* The last of some runs is one of them. *)
LEMMA NewestIn ==
  ASSUME NEW S \in SUBSET Runs
  PROVE  /\ S = {} => Newest(S) = Nowhere
         /\ S # {} => Newest(S) \in S /\ \A r \in S : r <= Newest(S)
  <1>1. CASE S = {}
    BY <1>1 DEF Newest
  <1>2. CASE S # {}
    <2> DEFINE T == {MaxRuns - r : r \in S}
               R == OpToRel(<, Nat)
    <2>1. T \subseteq Nat /\ T # {}
      <3>1. \A r \in S : MaxRuns - r \in Nat
        BY DoorsAssumption DEF Runs
      <3>2. QED
        BY <1>2, <3>1
    <2>2. PICK x \in T : \A y \in T : ~(<<y, x>> \in R)
      <3>1. IsWellFoundedOn(R, Nat)
        BY NatLessThanWellFounded
      <3>2. QED
        BY <2>1, <3>1, WFMin
    <2>3. \A y \in T : ~(y < x)
      BY <2>1, <2>2 DEF OpToRel
    <2>4. PICK r \in S : x = MaxRuns - r
      OBVIOUS
    <2>5. ASSUME NEW q \in S PROVE r >= q
      <3>1. q \in Nat /\ r \in Nat /\ MaxRuns \in Nat
        BY DoorsAssumption DEF Runs
      <3>2. ~(MaxRuns - q < MaxRuns - r)
        BY <2>3, <2>4
      <3>3. QED
        BY <3>1, <3>2
    <2>6. Newest(S) \in S /\ \A q \in S : Newest(S) >= q
      BY <1>2, <2>5 DEF Newest, Max
    <2>7. QED
      BY <1>2, <2>6 DEF Runs
  <1>3. QED
    BY <1>1, <1>2

-----------------------------------------------------------------------------
(***************************************************************************)
(* Types.                                                                  *)
(***************************************************************************)
ThreadRecords == [agent : Agents \cup {None}, bound : BOOLEAN]

Calls == [op : Ops \cup {"none"}, key : {Party, Stranger, None}, id : Threads \cup Runs \cup {Nowhere},
          at : {"idle", "begin", "read", "annotate", "events", "settle", "stream", "list", "look",
                "answered"},
          run : Runs \cup {Nowhere},
          said : {"nothing", "absent", "refused", "stream", "page", "task", "snapshot"},
          asks : SUBSET Asks]

Types ==
  /\ roster \in SUBSET Agents
  /\ alone \in SUBSET Agents
  /\ thread \in [Threads -> ThreadRecords]
  /\ run \in [Runs -> RunRecords]
  /\ call \in Calls

LEMMA Ids == Nowhere \notin Threads /\ Nowhere \notin Runs /\ None \notin Agents
  BY DoorsAssumption DEF Nowhere, Threads, Runs

LEMMA NoRunType == /\ NoRun \in RunRecords /\ NoRun.st = "none" /\ NoRun.asks = {}
                   /\ NoRun.thread = Nowhere /\ NoRun.root = Nowhere /\ ~NoRun.cancelled
  BY DEF NoRun, RunRecords

LEMMA NoCallType == /\ NoCall \in Calls /\ NoCall.op = "none" /\ NoCall.at = "idle"
                    /\ NoCall.run = Nowhere /\ NoCall.said = "nothing"
  BY DEF NoCall, Calls

(***************************************************************************)
(* Core's record: a run is of a thread that exists, its lineage begins     *)
(* with a run of that thread; and where a request is, by what it asks.     *)
(***************************************************************************)
Placed ==
  \A r \in Runs :
    /\ ~Opened(r) => run[r] = NoRun
    /\ Opened(r) => /\ run[r].thread \in Threads /\ Minted(run[r].thread)
                    /\ run[r].root \in Runs /\ Opened(run[r].root)
                    /\ run[run[r].root].root = run[r].root
                    /\ run[run[r].root].thread = run[r].thread

Stages ==
  /\ call.op \in OnTasks /\ call.id # Nowhere =>
       call.id \in Runs /\ Opened(call.id) /\ run[call.id].root = call.id
  /\ call.op \in OnThreads /\ call.id # Nowhere => call.id \in Threads /\ Minted(call.id)
  /\ call.at \in {"annotate", "events"} => call.op \in {"GetTask", "CancelTask", "Send"}
  /\ call.at \in {"annotate", "events", "settle"} => call.id # Nowhere
  /\ call.at = "settle" => call.op = "Send"
  /\ call.at = "stream" => call.op = "Subscribe"
  /\ call.at = "list" => call.op = "ListTasks"
  /\ call.at = "look" => call.op = "Snapshot"
  /\ call.at = "read" => call.op \in {"GetTask", "Subscribe", "Snapshot"} /\ call.id # Nowhere

Base == Types /\ Placed /\ Stages

(* A thread that exists stays as it was made; a run keeps its thread and   *)
(* its lineage, and one that is over does not change at all.               *)
ThreadsKeep == \A t \in Threads : Minted(t) => thread'[t] = thread[t]
RunsKeep ==
  \A q \in Runs : Opened(q) =>
    /\ run'[q].st # "none"
    /\ run'[q].thread = run[q].thread /\ run'[q].root = run[q].root
    /\ run[q].st # "open" => run'[q] = run[q]

LEMMA OpenRunEffect ==
  ASSUME Types, NEW r \in Runs, NEW t \in Threads, NEW root \in Runs \cup {Nowhere},
         OpenRun(r, t, root)
  PROVE  /\ run' \in [Runs -> RunRecords] /\ ~Opened(r) /\ RunsKeep
         /\ \A q \in Runs \ {r} : run'[q] = run[q]
         /\ run'[r].thread = t /\ run'[r].st = "open" /\ run'[r].asks = {} /\ ~run'[r].cancelled
         /\ run'[r].root = IF root = Nowhere THEN r ELSE root
  <1> DEFINE new == [NoRun EXCEPT !.thread = t, !.st = "open",
                                  !.root = IF root = Nowhere THEN r ELSE root]
  <1>1. /\ new \in RunRecords /\ new.thread = t /\ new.st = "open" /\ new.asks = {} /\ ~new.cancelled
        /\ new.root = IF root = Nowhere THEN r ELSE root
    BY DEF NoRun, RunRecords
  <1>2. run' = [run EXCEPT ![r] = new] /\ ~Opened(r) /\ run \in [Runs -> RunRecords]
    BY DEF OpenRun, Types
  <1> HIDE DEF new
  <1>3. run'[r] = new /\ \A q \in Runs \ {r} : run'[q] = run[q]
    BY <1>2
  <1>4. RunsKeep
    BY <1>2, <1>3 DEF RunsKeep, Opened
  <1>5. QED
    BY <1>1, <1>2, <1>3, <1>4

(* The new run takes its place in its thread and its lineage. *)
LEMMA OpenRunPlaced ==
  ASSUME Types, Placed, NEW r \in Runs, NEW t \in Threads, NEW root \in Runs \cup {Nowhere},
         OpenRun(r, t, root), ThreadsKeep, Minted(t)',
         root # Nowhere => Opened(root) /\ run[root].root = root /\ run[root].thread = t
  PROVE  Placed'
  <1> SUFFICES ASSUME NEW q \in Runs
               PROVE  /\ ~Opened(q)' => run'[q] = NoRun
                      /\ Opened(q)' => /\ run'[q].thread \in Threads /\ Minted(run[q].thread)'
                                       /\ run'[q].root \in Runs /\ Opened(run[q].root)'
                                       /\ run'[run'[q].root].root = run'[q].root
                                       /\ run'[run'[q].root].thread = run'[q].thread
    BY DEF Placed
  <1>0. /\ \A p \in Runs \ {r} : run'[p] = run[p]
        /\ run'[r].thread = t /\ run'[r].st = "open"
        /\ run'[r].root = IF root = Nowhere THEN r ELSE root
        /\ ~Opened(r) /\ r # Nowhere
    BY OpenRunEffect, Ids
  <1>1. CASE q = r
    BY <1>0, <1>1, Ids DEF Opened, Minted
  <1>2. CASE q # r
    <2>1. run'[q] = run[q] /\ q # Nowhere
      BY <1>0, <1>2, Ids
    <2>2. CASE Opened(q)
      <3>1. /\ run[q].thread \in Threads /\ Minted(run[q].thread)
            /\ run[q].root \in Runs /\ Opened(run[q].root)
            /\ run[run[q].root].root = run[q].root
            /\ run[run[q].root].thread = run[q].thread
        BY <2>2 DEF Placed
      <3>2. run[q].root # r /\ run'[run[q].root] = run[run[q].root]
        BY <1>0, <3>1
      <3>3. thread'[run[q].thread] = thread[run[q].thread]
        BY <3>1 DEF ThreadsKeep
      <3>4. QED
        BY <2>1, <2>2, <3>1, <3>2, <3>3 DEF Opened, Minted
    <2>3. CASE ~Opened(q)
      BY <2>1, <2>3 DEF Placed, Opened
    <2>4. QED
      BY <2>2, <2>3
  <1>3. QED
    BY <1>1, <1>2

(* Everything that writes to core's record. *)
Writes ==
  \/ \E r \in Runs : RunEnds(r)
  \/ \E p \in Agents : Register(p)
  \/ Senders
  \/ on_cancel_task
  \/ on_message_send

LEMMA Waiting ==
  ASSUME Types, NEW r \in Runs \cup {Nowhere}, OpenAsks(r) # {}
  PROVE  r \in Runs /\ Opened(r) /\ run[r].st = "completed"
  BY Ids DEF OpenAsks, Opened

LEMMA RunOf ==
  ASSUME Types, NEW t
  PROVE  /\ RunsOf(t) \in SUBSET Runs
         /\ Newest(RunsOf(t)) \in Runs \cup {Nowhere}
         /\ Newest(RunsOf(t)) # Nowhere =>
              /\ Newest(RunsOf(t)) \in Runs /\ Opened(Newest(RunsOf(t)))
              /\ run[Newest(RunsOf(t))].thread = t
  <1>1. RunsOf(t) \in SUBSET Runs /\ \A r \in RunsOf(t) : Opened(r) /\ run[r].thread = t
    BY DEF RunsOf
  <1>2. QED
    BY <1>1, NewestIn

LEMMA TailIs ==
  ASSUME Types, NEW id
  PROVE  /\ TailOf(id) \in Runs \cup {Nowhere}
         /\ TailOf(id) # Nowhere => TailOf(id) \in Lineage(id)
         /\ \A r \in Lineage(id) : r <= TailOf(id)
         /\ Lineage(id) # {} => TailOf(id) \in Lineage(id)
  <1>1. Lineage(id) \in SUBSET Runs
    BY DEF Lineage
  <1>2. QED
    BY <1>1, NewestIn DEF TailOf

(* One run's record changes, and not its thread or its lineage. *)
LEMMA RunMoves ==
  ASSUME Types, Placed, NEW r \in Runs, Open(r), thread' = thread,
         run' \in [Runs -> RunRecords], \A q \in Runs \ {r} : run'[q] = run[q],
         run'[r].thread = run[r].thread, run'[r].root = run[r].root, run'[r].st # "none"
  PROVE  Placed' /\ ThreadsKeep /\ RunsKeep
  <1>1. /\ \A q \in Runs : run'[q].thread = run[q].thread /\ run'[q].root = run[q].root
        /\ \A q \in Runs : Opened(q)' <=> Opened(q)
        /\ Opened(r)
    BY Ids DEF Opened, Open
  <1>2. ThreadsKeep /\ RunsKeep
    BY <1>1 DEF ThreadsKeep, RunsKeep, Open, Opened
  <1>3. \A t \in Threads : Minted(t)' <=> Minted(t)
    BY DEF Minted
  <1>4. Placed'
    BY <1>1, <1>3 DEF Placed
  <1>5. QED
    BY <1>2, <1>4

LEMMA WritesEffect ==
  ASSUME Base, Writes
  PROVE  /\ roster' \in SUBSET Agents /\ alone' \in SUBSET Agents
         /\ thread' \in [Threads -> ThreadRecords] /\ run' \in [Runs -> RunRecords]
         /\ Placed' /\ ThreadsKeep /\ RunsKeep
  <1> USE DEF Base
  <1>0. UNCHANGED thread => ThreadsKeep
    BY DEF ThreadsKeep
  <1>00. UNCHANGED <<thread, run>> => Placed' /\ ThreadsKeep /\ RunsKeep
    BY DEF ThreadsKeep, RunsKeep, Placed, Minted, Opened
  <1>1. ASSUME NEW r \in Runs, RunEnds(r)
        PROVE  /\ roster' \in SUBSET Agents /\ alone' \in SUBSET Agents
               /\ thread' \in [Threads -> ThreadRecords] /\ run' \in [Runs -> RunRecords]
               /\ Placed' /\ ThreadsKeep /\ RunsKeep
    <2>1. /\ UNCHANGED <<roster, alone, thread>> /\ Open(r)
          /\ \E st \in {"completed", "failed"}, A \in SUBSET Asks :
               run' = [run EXCEPT ![r] = [run[r] EXCEPT !.st = st, !.asks = A]]
      <3>1. UNCHANGED <<roster, alone, thread>> /\ Open(r)
        BY <1>1 DEF RunEnds
      <3>2. ASSUME NEW A \in SUBSET Asks, run' = [run EXCEPT ![r].st = "completed", ![r].asks = A]
            PROVE  run' = [run EXCEPT ![r] = [run[r] EXCEPT !.st = "completed", !.asks = A]]
        BY <3>2 DEF Types
      <3>3. ASSUME run' = [run EXCEPT ![r].st = "failed"]
            PROVE  /\ run[r].asks \in SUBSET Asks
                   /\ run' = [run EXCEPT ![r] = [run[r] EXCEPT !.st = "failed", !.asks = run[r].asks]]
        BY <3>3 DEF Types, RunRecords
      <3>4. QED
        BY <1>1, <3>1, <3>2, <3>3 DEF RunEnds
    <2>2. PICK st \in {"completed", "failed"}, A \in SUBSET Asks :
            run' = [run EXCEPT ![r] = [run[r] EXCEPT !.st = st, !.asks = A]]
      BY <2>1
    <2> DEFINE new == [run[r] EXCEPT !.st = st, !.asks = A]
    <2>3. /\ new \in RunRecords /\ new.st = st /\ new.thread = run[r].thread /\ new.root = run[r].root
          /\ run \in [Runs -> RunRecords]
      BY DEF Types, RunRecords
    <2> HIDE DEF new
    <2>4. /\ run' \in [Runs -> RunRecords] /\ \A q \in Runs \ {r} : run'[q] = run[q]
          /\ run'[r] = new
      BY <2>2, <2>3 DEF new
    <2>5. QED
      BY <2>1, <2>3, <2>4, RunMoves DEF Types
  <1>2. ASSUME NEW p \in Agents, Register(p)
        PROVE  /\ roster' \in SUBSET Agents /\ alone' \in SUBSET Agents
               /\ thread' \in [Threads -> ThreadRecords] /\ run' \in [Runs -> RunRecords]
               /\ Placed' /\ ThreadsKeep /\ RunsKeep
    BY <1>00, <1>2 DEF Register, Types
  <1>3. ASSUME NEW p \in Agents, NEW t \in Threads, CreateThread(p, t)
        PROVE  /\ roster' \in SUBSET Agents /\ alone' \in SUBSET Agents
               /\ thread' \in [Threads -> ThreadRecords] /\ run' \in [Runs -> RunRecords]
               /\ Placed' /\ ThreadsKeep /\ RunsKeep
    <2>1. /\ thread' = [thread EXCEPT ![t].agent = p] /\ ~Minted(t)
          /\ UNCHANGED <<roster, alone, run>>
      BY <1>3 DEF CreateThread
    <2>2. thread' \in [Threads -> ThreadRecords] /\ \A u \in Threads \ {t} : thread'[u] = thread[u]
      BY <2>1 DEF Types, ThreadRecords
    <2>3. ThreadsKeep /\ RunsKeep
      BY <2>1, <2>2 DEF ThreadsKeep, RunsKeep, Opened
    <2>4. Placed'
      BY <2>1, <2>3 DEF Placed, ThreadsKeep, Minted, Opened
    <2>5. QED
      BY <2>1, <2>2, <2>3, <2>4 DEF Types
  <1>4. ASSUME NEW t \in Threads, NEW r \in Runs, AguiRun(t, r)
        PROVE  /\ roster' \in SUBSET Agents /\ alone' \in SUBSET Agents
               /\ thread' \in [Threads -> ThreadRecords] /\ run' \in [Runs -> RunRecords]
               /\ Placed' /\ ThreadsKeep /\ RunsKeep
    <2> DEFINE last == Newest(RunsOf(t))
               root == IF OpenAsks(last) # {} THEN run[last].root ELSE Nowhere
    <2>1. UNCHANGED <<roster, alone, thread>> /\ OpenRun(r, t, root) /\ Minted(t)
      BY <1>4 DEF AguiRun
    <2>2. /\ root \in Runs \cup {Nowhere}
          /\ root # Nowhere => Opened(root) /\ run[root].root = root /\ run[root].thread = t
      <3>1. OpenAsks(last) # {} => last \in Runs /\ Opened(last) /\ run[last].thread = t
        BY RunOf, Waiting, Ids
      <3>2. QED
        BY <3>1 DEF Placed
    <2> HIDE DEF root
    <2>3. ThreadsKeep /\ Minted(t)'
      BY <2>1 DEF ThreadsKeep, Minted
    <2>4. QED
      BY <2>1, <2>2, <2>3, OpenRunEffect, OpenRunPlaced DEF Types
  <1>5. ASSUME NEW context \in Threads \cup {Nowhere}, NEW p \in Agents, NEW t \in Threads, NEW r \in Runs,
               context # Nowhere => p = thread[t].agent, Message(context, p, t, r)
        PROVE  /\ roster' \in SUBSET Agents /\ alone' \in SUBSET Agents
               /\ thread' \in [Threads -> ThreadRecords] /\ run' \in [Runs -> RunRecords]
               /\ Placed' /\ ThreadsKeep /\ RunsKeep
    <2>1. /\ UNCHANGED <<roster, alone>> /\ OpenRun(r, t, Nowhere)
          /\ \/ thread' = thread /\ thread[t].agent \in Agents
             \/ thread' = [thread EXCEPT ![t] = [agent |-> p, bound |-> TRUE]] /\ ~Minted(t)
      BY <1>5 DEF Message
    <2>2. [agent |-> p, bound |-> TRUE] \in ThreadRecords
      BY DEF ThreadRecords
    <2>3. thread' \in [Threads -> ThreadRecords] /\ ThreadsKeep /\ Minted(t)'
      <3>1. CASE thread' = thread /\ thread[t].agent \in Agents
        BY <3>1, Ids DEF Types, ThreadsKeep, Minted
      <3>2. CASE thread' = [thread EXCEPT ![t] = [agent |-> p, bound |-> TRUE]] /\ ~Minted(t)
        <4>1. /\ thread' \in [Threads -> ThreadRecords]
              /\ thread'[t] = [agent |-> p, bound |-> TRUE]
              /\ \A u \in Threads \ {t} : thread'[u] = thread[u]
          BY <2>2, <3>2 DEF Types
        <4>2. thread'[t].agent # None /\ t # Nowhere
          BY <4>1, Ids
        <4>3. QED
          BY <3>2, <4>1, <4>2 DEF ThreadsKeep, Minted
      <3>3. QED
        BY <2>1, <3>1, <3>2
    <2>4. QED
      BY <2>1, <2>3, OpenRunEffect, OpenRunPlaced DEF Types
  <1>6. CASE on_cancel_task
    <2> DEFINE tail == TailOf(call.id)
    <2>1. UNCHANGED <<roster, alone, thread>>
      BY <1>6 DEF on_cancel_task
    <2>2. CASE run' = run
      BY <1>00, <2>1, <2>2 DEF Types
    <2>3. CASE run' = [run EXCEPT ![tail].cancelled = TRUE] /\ Open(tail) /\ Opened(call.id)
      <3>1. tail \in Runs
        <4>1. call.op \in OnTasks /\ call.id # Nowhere
          BY <1>6, <2>3 DEF on_cancel_task, OnTasks, Opened
        <4>2. call.id \in Lineage(call.id)
          BY <4>1 DEF Stages, Lineage
        <4>3. QED
          BY <4>2, TailIs DEF Lineage
      <3>2. [run[tail] EXCEPT !.cancelled = TRUE] \in RunRecords
        BY <3>1 DEF Types, RunRecords
      <3>3. /\ run' \in [Runs -> RunRecords] /\ \A q \in Runs \ {tail} : run'[q] = run[q]
            /\ run'[tail] = [run[tail] EXCEPT !.cancelled = TRUE]
        BY <2>3, <3>1, <3>2 DEF Types
      <3>4. /\ run'[tail].thread = run[tail].thread /\ run'[tail].root = run[tail].root
            /\ run'[tail].st # "none"
        BY <2>3, <3>1, <3>3 DEF Open, Types, RunRecords
      <3>5. QED
        BY <2>1, <2>3, <3>1, <3>3, <3>4, RunMoves DEF Types
    <2>4. QED
      BY <1>6, <2>2, <2>3 DEF on_cancel_task
  <1>7. CASE on_message_send
    <2>1. UNCHANGED <<roster, alone, thread>> /\ call.op = "Send"
      BY <1>7 DEF on_message_send
    <2>2. CASE run' = run
      BY <1>00, <2>1, <2>2 DEF Types
    <2>3. ASSUME Opened(call.id), NEW r \in Runs, OpenRun(r, run[call.id].thread, call.id)
          PROVE  run' \in [Runs -> RunRecords] /\ Placed' /\ RunsKeep
      <3>1. call.id \in Runs /\ run[call.id].root = call.id
        BY <2>1, <2>3 DEF Stages, OnTasks, Opened
      <3>2. run[call.id].thread \in Threads /\ Minted(run[call.id].thread)
        BY <2>3, <3>1 DEF Placed
      <3>3. PICK t \in Threads : t = run[call.id].thread /\ Minted(t)
        BY <3>2
      <3>4. PICK root \in Runs : root = call.id
        BY <3>1
      <3>5. OpenRun(r, t, root) /\ Opened(root) /\ run[root].root = root /\ run[root].thread = t
        BY <2>3, <3>1, <3>3, <3>4
      <3>6. ThreadsKeep /\ Minted(t)'
        BY <1>0, <2>1, <3>3 DEF Minted
      <3>7. QED
        BY <3>5, <3>6, OpenRunEffect, OpenRunPlaced
    <2>4. QED
      BY <1>0, <1>7, <2>1, <2>2, <2>3 DEF on_message_send, Types
  <1>8. QED
    BY <1>1, <1>2, <1>3, <1>4, <1>5, <1>6, <1>7 DEF Writes, Senders

LEMMA OpenAsksType ==
  ASSUME Types, NEW r \in Runs \cup {Nowhere}
  PROVE  OpenAsks(r) \in SUBSET Asks
  BY DEF OpenAsks, Types, RunRecords

(* What a request's step makes of it. *)
SameRequest == call'.op = call.op /\ call'.key = call.key /\ call'.id = call.id

LEMMA GoToType ==
  ASSUME call \in Calls, NEW at \in {"annotate", "events", "settle", "read", "stream", "list", "look"},
         GoTo(at)
  PROVE  /\ call' \in Calls /\ SameRequest /\ call'.at = at
         /\ call'.said = call.said /\ call'.run = call.run
  BY DEF GoTo, Calls, SameRequest

LEMMA AnsweredType ==
  ASSUME call \in Calls, NEW r \in Runs \cup {Nowhere}, NEW A \in SUBSET Asks,
         NEW said \in {"absent", "refused", "stream", "page", "task", "snapshot"},
         Answered(said, r, A)
  PROVE  /\ call' \in Calls /\ SameRequest /\ call'.at = "answered"
         /\ call'.said = said /\ call'.run = r /\ call'.asks = A
  BY DEF Answered, Calls, SameRequest

LEMMA RunAtType ==
  ASSUME call \in Calls, NEW r \in Runs \cup {Nowhere}, NEW at \in {"events", "look"},
         call' = [call EXCEPT !.at = at, !.run = r]
  PROVE  /\ call' \in Calls /\ SameRequest /\ call'.at = at
         /\ call'.said = call.said /\ call'.run = r
  BY DEF Calls, SameRequest

(* Where a step leaves the request it answers. *)
Arrives ==
  /\ call' \in Calls /\ SameRequest
  /\ call'.at \in {"annotate", "events"} =>
       call.op \in {"GetTask", "CancelTask", "Send"} /\ call.id # Nowhere
  /\ call'.at = "settle" => call.op = "Send" /\ call.id # Nowhere
  /\ call'.at = "stream" => call.op = "Subscribe"
  /\ call'.at = "list" => call.op = "ListTasks"
  /\ call'.at = "look" => call.op = "Snapshot"
  /\ call'.at = "read" => call.op \in {"GetTask", "Subscribe", "Snapshot"} /\ call.id # Nowhere

LEMMA GetTaskArrives ==
  ASSUME Base, on_get_task
  PROVE  Arrives
  <1>1. CASE \E r \in {Nowhere}, A \in {{}} : Answered("absent", r, A)
    BY <1>1, AnsweredType DEF Arrives, Base, Types
  <1>2. CASE GoTo("read") /\ call.at = "begin" /\ Opened(call.id)
    BY <1>2, GoToType DEF Arrives, Base, Types, on_get_task, Opened
  <1>3. CASE GoTo("annotate") /\ call.at = "read"
    BY <1>3, GoToType DEF Arrives, Base, Types, on_get_task, Stages
  <1>4. QED
    BY <1>1, <1>2, <1>3 DEF on_get_task

LEMMA SendArrives ==
  ASSUME Base, on_message_send \/ on_cancel_task
  PROVE  Arrives
  <1>1. CASE \E said \in {"absent", "refused"} : Answered(said, Nowhere, {})
    BY <1>1, AnsweredType DEF Arrives, Base, Types
  <1>2. CASE (\E at \in {"annotate", "settle"} : GoTo(at)) /\ call.op = "Send" /\ call.id # Nowhere
    BY <1>2, GoToType DEF Arrives, Base, Types
  <1>3. CASE GoTo("annotate") /\ call.op \in {"Send", "CancelTask"} /\ call.id # Nowhere
    BY <1>3, GoToType DEF Arrives, Base, Types
  <1>4. CASE on_message_send
    BY <1>1, <1>2, <1>3, <1>4 DEF on_message_send, Opened, Base, Stages
  <1>5. CASE on_cancel_task
    BY <1>1, <1>3, <1>5 DEF on_cancel_task, Opened
  <1>6. QED
    BY <1>4, <1>5

LEMMA ReadsArrive ==
  ASSUME Base, on_subscribe_to_task \/ on_list_tasks
  PROVE  Arrives
  <1>1. CASE \E said \in {"absent", "refused", "stream", "page"} : Answered(said, Nowhere, {})
    BY <1>1, AnsweredType DEF Arrives, Base, Types
  <1>2. CASE GoTo("read") /\ call.op = "Subscribe" /\ Opened(call.id)
    BY <1>2, GoToType DEF Arrives, Base, Types, Opened
  <1>3. CASE GoTo("stream") /\ call.op = "Subscribe"
    BY <1>3, GoToType DEF Arrives, Base, Types
  <1>4. CASE GoTo("list") /\ call.op = "ListTasks"
    BY <1>4, GoToType DEF Arrives, Base, Types
  <1>5. QED
    BY <1>1, <1>2, <1>3, <1>4 DEF on_subscribe_to_task, on_list_tasks

LEMMA AnnotateArrives ==
  ASSUME Base, annotate_asks
  PROVE  Arrives
  <1>1. CASE call.at = "annotate" /\ call' = [call EXCEPT !.at = "events", !.run = TheOneToRead(call.id)]
    <2>1. TheOneToRead(call.id) \in Runs \cup {Nowhere}
      BY TailIs DEF Base, TheOneToRead
    <2>2. QED
      BY <1>1, <2>1, RunAtType DEF Arrives, Base, Types, Stages
  <1>2. CASE Answered("task", call.run, OpenAsks(call.run))
    <2>1. call.run \in Runs \cup {Nowhere}
      BY DEF Base, Types, Calls
    <2>2. QED
      BY <1>2, <2>1, OpenAsksType, AnsweredType DEF Arrives, Base, Types
  <1>3. QED
    BY <1>1, <1>2 DEF annotate_asks

LEMMA SnapshotArrives ==
  ASSUME Base, get_thread_snapshot
  PROVE  Arrives
  <1>1. CASE \E said \in {"absent", "snapshot"} : Answered(said, Nowhere, {})
    BY <1>1, AnsweredType DEF Arrives, Base, Types
  <1>2. CASE GoTo("read") /\ Minted(call.id)
    BY <1>2, GoToType DEF Arrives, Base, Types, get_thread_snapshot, Minted
  <1>3. CASE call' = [call EXCEPT !.at = "look", !.run = Newest(RunsOf(call.id))]
    <2>1. Newest(RunsOf(call.id)) \in Runs \cup {Nowhere}
      BY RunOf DEF Base
    <2>2. QED
      BY <1>3, <2>1, RunAtType DEF Arrives, Base, Types, get_thread_snapshot
  <1>4. CASE Answered("snapshot", call.run, OpenAsks(call.run))
    <2>1. call.run \in Runs \cup {Nowhere}
      BY DEF Base, Types, Calls
    <2>2. QED
      BY <1>4, <2>1, OpenAsksType, AnsweredType DEF Arrives, Base, Types
  <1>5. QED
    BY <1>1, <1>2, <1>3, <1>4 DEF get_thread_snapshot

(* Every step of the doors, but for the request that begins or ends. *)
Handles ==
  \/ on_get_task \/ on_cancel_task \/ on_message_send \/ on_subscribe_to_task
  \/ on_list_tasks \/ annotate_asks \/ get_thread_snapshot

LEMMA StepCases ==
  ASSUME DoorsNext
  PROVE  /\ Watch
         /\ \/ \E op \in Ops, who \in {Party, Stranger}, proof \in {"verifies", "fails"},
                 id \in Threads \cup Runs \cup {Nowhere} : Ask(op, who, proof, id)
            \/ Handles \/ Receive
            \/ (\E r \in Runs : RunEnds(r)) \/ (\E p \in Agents : Register(p)) \/ Senders
  BY DEF DoorsNext, Request, Core, Handles

(* The record's side of a step. *)
LEMMA DataNext ==
  ASSUME Base, [DoorsNext]_<<doorVars, moments>>
  PROVE  /\ roster' \in SUBSET Agents /\ alone' \in SUBSET Agents
         /\ thread' \in [Threads -> ThreadRecords] /\ run' \in [Runs -> RunRecords]
         /\ Placed' /\ ThreadsKeep /\ RunsKeep
  <1>1. CASE Writes
    BY <1>1, WritesEffect
  <1>2. CASE UNCHANGED <<roster, alone, thread, run>>
    BY <1>2 DEF Base, Types, ThreadsKeep, RunsKeep, Placed, Minted, Opened
  <1>3. QED
    BY <1>1, <1>2, StepCases DEF Writes, Handles, Ask, Receive, on_get_task, on_subscribe_to_task,
       on_list_tasks, annotate_asks, get_thread_snapshot, doorVars

LEMMA NamedIds ==
  ASSUME Types, NEW op, NEW id \in Named(op)
  PROVE  /\ op \in OnTasks /\ id # Nowhere => id \in Runs /\ run[id].root = id
         /\ op \in OnThreads /\ id # Nowhere => id \in Threads /\ Minted(id)
  BY DEF Named, OnTasks, OnThreads

LEMMA BaseNext == Base /\ [DoorsNext]_<<doorVars, moments>> => Base'
  <1> SUFFICES ASSUME Base, [DoorsNext]_<<doorVars, moments>> PROVE Base'
    OBVIOUS
  <1>0. Types /\ Placed /\ Stages /\ call \in Calls
    BY DEF Base, Types
  <1>1. /\ roster' \in SUBSET Agents /\ alone' \in SUBSET Agents
        /\ thread' \in [Threads -> ThreadRecords] /\ run' \in [Runs -> RunRecords]
        /\ Placed' /\ ThreadsKeep /\ RunsKeep
    BY DataNext
  <1>2. ASSUME SameRequest, Arrives \/ call' = call PROVE Base'
    <2>1. /\ call.op \in OnTasks /\ call.id # Nowhere =>
               call.id \in Runs /\ Opened(call.id)' /\ run'[call.id].root = call.id
          /\ call.op \in OnThreads /\ call.id # Nowhere => call.id \in Threads /\ Minted(call.id)'
      <3>1. ASSUME call.op \in OnTasks, call.id # Nowhere
            PROVE  call.id \in Runs /\ Opened(call.id)' /\ run'[call.id].root = call.id
        <4>1. /\ call.id \in Runs /\ Opened(call.id) /\ run[call.id].root = call.id
              /\ call'.id = call.id
          BY <1>0, <1>2, <3>1 DEF Stages, SameRequest
        <4>2. run'[call.id].st # "none" /\ run'[call.id].root = call.id
          BY <1>1, <4>1 DEF RunsKeep
        <4>3. QED
          BY <3>1, <4>1, <4>2 DEF Opened
      <3>2. ASSUME call.op \in OnThreads, call.id # Nowhere
            PROVE  call.id \in Threads /\ Minted(call.id)'
        <4>1. call.id \in Threads /\ Minted(call.id) /\ call'.id = call.id
          BY <1>0, <1>2, <3>2 DEF Stages, SameRequest
        <4>2. thread'[call.id] = thread[call.id]
          BY <1>1, <4>1 DEF ThreadsKeep
        <4>3. QED
          BY <4>1, <4>2 DEF Minted
      <3>3. QED
        BY <3>1, <3>2
    <2>3. call'.op = call.op /\ call'.id = call.id
      BY <1>2 DEF SameRequest
    <2>4. /\ (call.op \in OnTasks /\ call.id # Nowhere =>
                call.id \in Runs /\ Opened(call.id) /\ run[call.id].root = call.id)'
          /\ (call.op \in OnThreads /\ call.id # Nowhere =>
                call.id \in Threads /\ Minted(call.id))'
      BY <2>1, <2>3 DEF Opened, Minted
    <2>5. CASE Arrives
      BY <1>1, <2>3, <2>4, <2>5 DEF Arrives, Base, Types, Stages
    <2>6. CASE call' = call
      BY <1>0, <1>1, <2>3, <2>4, <2>6 DEF Base, Types, Stages
    <2>7. QED
      BY <1>2, <2>5, <2>6
  <1>3. ASSUME NEW op \in Ops, NEW who \in {Party, Stranger}, NEW proof,
               NEW id \in Threads \cup Runs \cup {Nowhere}, Ask(op, who, proof, id)
        PROVE  Base'
    <2>1. /\ call' = [NoCall EXCEPT !.op = op, !.key = presenter_key_of(who, proof),
                                    !.id = id, !.at = "begin"]
          /\ id \in Named(op) /\ UNCHANGED <<roster, alone, thread, run>>
      BY <1>3 DEF Ask
    <2>2. presenter_key_of(who, proof) \in {Party, Stranger, None}
      BY DEF presenter_key_of
    <2>3. call' \in Calls /\ call'.op = op /\ call'.id = id /\ call'.at = "begin"
      BY <2>1, <2>2 DEF NoCall, Calls
    <2>4. /\ op \in OnTasks /\ id # Nowhere => id \in Runs /\ Opened(id) /\ run[id].root = id
          /\ op \in OnThreads /\ id # Nowhere => id \in Threads /\ Minted(id)
      <3>1. ASSUME op \in OnTasks, id # Nowhere PROVE id \in Runs /\ Opened(id) /\ run[id].root = id
        BY <1>0, <2>1, <3>1, NamedIds, NoRunType DEF Placed
      <3>2. QED
        BY <1>0, <2>1, <3>1, NamedIds
    <2>5. Stages'
      BY <2>1, <2>3, <2>4 DEF Stages, Opened, Minted
    <2>6. QED
      BY <1>1, <2>3, <2>5 DEF Base, Types
  <1>4. CASE Receive
    <2>1. call' \in Calls /\ call'.op = "none" /\ call'.at = "idle"
      BY <1>4, NoCallType DEF Receive
    <2>2. Stages'
      BY <2>1 DEF Stages, OnTasks, OnThreads
    <2>3. QED
      BY <1>1, <2>1, <2>2 DEF Base, Types
  <1>5. Handles => Arrives /\ SameRequest
    BY GetTaskArrives, SendArrives, ReadsArrive, AnnotateArrives, SnapshotArrives DEF Handles, Arrives
  <1>6. \/ (\E r \in Runs : RunEnds(r)) \/ (\E p \in Agents : Register(p)) \/ Senders
        \/ UNCHANGED <<doorVars, moments>>
        => call' = call
    BY DEF RunEnds, Register, Senders, CreateThread, AguiRun, Message, doorVars
  <1>7. call' = call => SameRequest
    BY DEF SameRequest
  <1>8. QED
    BY <1>2, <1>3, <1>4, <1>5, <1>6, <1>7, StepCases

LEMMA BaseInit == DoorsInit => Base
  <1> SUFFICES ASSUME DoorsInit PROVE Base
    OBVIOUS
  <1>1. [agent |-> None, bound |-> FALSE] \in ThreadRecords
    BY DEF ThreadRecords
  <1>2. Types
    BY <1>1, NoRunType, NoCallType DEF DoorsInit, Types
  <1>3. Placed
    BY NoRunType DEF DoorsInit, Placed, Opened
  <1>4. Stages
    BY NoCallType DEF DoorsInit, Stages, OnTasks, OnThreads
  <1>5. QED
    BY <1>2, <1>3, <1>4 DEF Base

(***************************************************************************)
(* Core's record, the request and what the doors make of it keep their     *)
(* types.                                                                  *)
(***************************************************************************)
THEOREM DoorsTypeCorrect == DoorsSpec => []DoorsTypeOK
  <1>1. Base => DoorsTypeOK
    BY DEF Base, Types, ThreadRecords, Calls, DoorsTypeOK
  <1>2. QED
    BY <1>1, BaseInit, BaseNext, PTL DEF DoorsSpec

-----------------------------------------------------------------------------
(***************************************************************************)
(* The read gate.  Who a thread concerns does not change once it exists,   *)
(* nor what a request is about: so what one read decided is still right    *)
(* when the answer goes out, several reads later.                          *)
(***************************************************************************)
Gated == {"GetTask", "Subscribe", "ListTasks"}
About == IF call.op = "ListTasks" THEN call.id ELSE run[call.id].thread
Allowed == Concerns(About, call.key)

Told ==
  call.op \in Gated /\ call.id # Nowhere =>
    /\ call.at \in {"annotate", "events", "stream", "list"} => Allowed
    /\ call.at = "answered" =>
         IF Allowed THEN call.said = "absent" => call.op = "ListTasks" ELSE call.said = "absent"

LEMMA GateIs ==
  ASSUME Base, NEW t \in Threads, NEW key, Minted(t)
  PROVE  may_read(t, key) <=> Concerns(t, key)
  <1>1. thread[t].agent \in Agents /\ thread[t].bound \in BOOLEAN
    BY DEF Base, Types, ThreadRecords, Minted
  <1>2. CASE thread[t].bound
    BY <1>1, <1>2, DoorsAssumption DEF may_read, PartiesOf, Concerns
  <1>3. CASE ~thread[t].bound
    BY <1>3 DEF may_read, PartiesOf, Concerns
  <1>4. QED
    BY <1>2, <1>3

LEMMA AboutIs ==
  ASSUME Base, call.op \in Gated, call.id # Nowhere
  PROVE  About \in Threads /\ Minted(About)
  BY DEF Base, Stages, Placed, Gated, OnTasks, OnThreads, About

LEMMA AllowedStays ==
  ASSUME Base, [DoorsNext]_<<doorVars, moments>>, SameRequest, call.op \in Gated, call.id # Nowhere
  PROVE  Allowed' <=> Allowed
  <1>1. ThreadsKeep /\ RunsKeep
    BY DataNext
  <1>2. About' = About
    BY <1>1 DEF Base, Stages, Gated, OnTasks, About, SameRequest, RunsKeep
  <1>3. thread'[About] = thread[About]
    BY <1>1, AboutIs DEF ThreadsKeep
  <1>4. QED
    BY <1>2, <1>3 DEF Allowed, Concerns, SameRequest

LEMMA ToldNext == Base /\ Told /\ [DoorsNext]_<<doorVars, moments>> => Told'
  <1> SUFFICES ASSUME Base, Told, [DoorsNext]_<<doorVars, moments>>,
                      call'.op \in Gated, call'.id # Nowhere
               PROVE  /\ call'.at \in {"annotate", "events", "stream", "list"} => Allowed'
                      /\ call'.at = "answered" =>
                           IF Allowed' THEN call'.said = "absent" => call'.op = "ListTasks"
                                       ELSE call'.said = "absent"
    BY DEF Told
  <1>0. call \in Calls
    BY DEF Base, Types
  <1>1. CASE call' = call
    <2>1. SameRequest /\ call.op \in Gated /\ call.id # Nowhere
      BY <1>1 DEF SameRequest
    <2>2. QED
      BY <1>1, <2>1, AllowedStays DEF Told
  <1>2. CASE Handles
    <2>1. SameRequest
      BY <1>2, GetTaskArrives, SendArrives, ReadsArrive, AnnotateArrives, SnapshotArrives
      DEF Handles, Arrives
    <2>2. call.op \in Gated /\ call.id # Nowhere /\ call'.op = call.op /\ (Allowed' <=> Allowed)
      BY <2>1, AllowedStays DEF SameRequest
    <2>3. /\ may_read(About, call.key) <=> Allowed
          /\ call.op # "ListTasks" => About = run[call.id].thread /\ Opened(call.id)
          /\ call.op = "ListTasks" => About = call.id
      BY <2>2, AboutIs, GateIs DEF Allowed, About, Base, Stages, Gated, OnTasks
    (* An answer: the gate's no, or what comes after its yes. *)
    <2>4. ASSUME NEW said \in {"absent", "refused", "stream", "page", "task"},
                 NEW r \in Runs \cup {Nowhere}, NEW A \in SUBSET Asks, Answered(said, r, A),
                 IF Allowed THEN said = "absent" => call.op = "ListTasks" ELSE said = "absent"
          PROVE  /\ call'.at \notin {"annotate", "events", "stream", "list"}
                 /\ IF Allowed' THEN call'.said = "absent" => call'.op = "ListTasks"
                                ELSE call'.said = "absent"
      <3>1. call'.at = "answered" /\ call'.said = said
        BY <1>0, <2>4, AnsweredType
      <3>2. QED
        BY <2>2, <2>4, <3>1
    <2>5. ASSUME NEW at \in {"annotate", "events", "settle", "read", "stream", "list", "look"},
                 GoTo(at), at # "read" => Allowed
          PROVE  call'.at = at /\ call'.at # "answered" /\ (at # "read" => Allowed')
      BY <1>0, <2>2, <2>5, GoToType
    <2>6. CASE on_get_task
      <3>1. \/ Answered("absent", Nowhere, {}) /\ ~Allowed
            \/ GoTo("read")
            \/ GoTo("annotate") /\ Allowed
        BY <2>3, <2>6 DEF on_get_task
      <3>2. CASE Answered("absent", Nowhere, {}) /\ ~Allowed
        <4>1. call'.at = "answered" /\ call'.said = "absent"
          BY <1>0, <3>2, AnsweredType
        <4>2. QED
          BY <2>2, <3>2, <4>1
      <3>3. CASE GoTo("read") \/ (GoTo("annotate") /\ Allowed)
        BY <2>5, <3>3
      <3>4. QED
        BY <3>1, <3>2, <3>3
    <2>7. CASE on_subscribe_to_task
      <3>1. \/ Answered("absent", Nowhere, {}) /\ ~Allowed
            \/ GoTo("read")
            \/ GoTo("stream") /\ Allowed
            \/ (\E said \in {"stream", "refused"} : Answered(said, Nowhere, {})) /\ call.at = "stream"
        BY <2>3, <2>7 DEF on_subscribe_to_task
      <3>2. CASE Answered("absent", Nowhere, {}) /\ ~Allowed
        <4>1. call'.at = "answered" /\ call'.said = "absent"
          BY <1>0, <3>2, AnsweredType
        <4>2. QED
          BY <2>2, <3>2, <4>1
      <3>3. CASE GoTo("read") \/ (GoTo("stream") /\ Allowed)
        BY <2>5, <3>3
      <3>4. CASE (\E said \in {"stream", "refused"} : Answered(said, Nowhere, {})) /\ call.at = "stream"
        <4>1. Allowed
          BY <2>2, <3>4 DEF Told
        <4>2. QED
          BY <2>4, <3>4, <4>1
      <3>5. QED
        BY <3>1, <3>2, <3>3, <3>4
    <2>8. CASE on_list_tasks
      <3>1. \/ Answered("absent", Nowhere, {}) /\ call.op = "ListTasks"
            \/ GoTo("list") /\ Allowed
            \/ Answered("page", Nowhere, {}) /\ call.at = "list"
        BY <2>3, <2>8 DEF on_list_tasks
      <3>2. call.at = "list" => Allowed
        BY <2>2 DEF Told
      <3>3. QED
        BY <2>4, <2>5, <3>1, <3>2
    <2>9. CASE annotate_asks
      <3>1. Allowed
        BY <2>2, <2>9 DEF Told, annotate_asks
      <3>2. CASE call.at = "annotate" /\ call' = [call EXCEPT !.at = "events", !.run = TheOneToRead(call.id)]
        BY <1>0, <2>2, <3>1, <3>2 DEF Calls
      <3>3. CASE Answered("task", call.run, OpenAsks(call.run))
        <4>1. call.run \in Runs \cup {Nowhere} /\ OpenAsks(call.run) \in SUBSET Asks
          BY <1>0, OpenAsksType DEF Calls, Base
        <4>2. QED
          BY <2>4, <3>1, <3>3, <4>1
      <3>4. QED
        BY <2>9, <3>2, <3>3 DEF annotate_asks
    <2>10. QED
      BY <1>2, <2>2, <2>6, <2>7, <2>8, <2>9
      DEF Handles, Gated, on_cancel_task, on_message_send, get_thread_snapshot
  <1>3. CASE Receive \/ \E op \in Ops, who \in {Party, Stranger}, proof \in {"verifies", "fails"},
                          id \in Threads \cup Runs \cup {Nowhere} : Ask(op, who, proof, id)
    BY <1>3, NoCallType DEF Receive, Ask, NoCall
  <1>4. QED
    BY <1>1, <1>2, <1>3, StepCases
    DEF RunEnds, Register, Senders, CreateThread, AguiRun, Message, doorVars

(***************************************************************************)
(* Whoever a bound thread does not concern is told of it what he would be  *)
(* told if there were none, and nobody whom it concerns is told that.      *)
(***************************************************************************)
THEOREM StrangersAreToldNothing == DoorsSpec => []AbsenceIsOneAnswer
  <1>1. DoorsInit => Told
    BY NoCallType DEF DoorsInit, Told, Gated
  <1>2. Told => AbsenceIsOneAnswer
    BY DEF Told, Gated, Allowed, About, AbsenceIsOneAnswer
  <1>3. QED
    BY <1>1, <1>2, BaseInit, BaseNext, ToldNext, PTL DEF DoorsSpec

-----------------------------------------------------------------------------
(***************************************************************************)
(* The asks that are signed.  From the moment the tail of a lineage is     *)
(* read, no run joins that lineage while the tail is open: so when its     *)
(* events are read, whatever is open on it was open at some moment of the  *)
(* request.  A run that is over keeps its asks.                            *)
(***************************************************************************)
Answerable == {"GetTask", "CancelTask", "Send"}
WasOpen(A)  == \E m \in moments : m.run = call.run /\ m.asks = A
WasWaiting  == \E m \in moments : m.run = call.run /\ ~m.cancelled

Seen ==
  /\ call.at = "events" =>
       /\ call.run \in Lineage(call.id)
       /\ Open(call.run) => call.run = TailOf(call.id)
       /\ WasOpen(OpenAsks(call.run))
  /\ call.at = "look" => call.run \in Runs /\ WasWaiting
  /\ call.at = "answered" /\ call.said = "task" => call.op \in Answerable /\ WasOpen(call.asks)
  /\ call.at = "answered" /\ call.said = "snapshot" =>
       /\ call.op = "Snapshot"
       /\ call.run # Nowhere => /\ WasWaiting
                                /\ call.asks = OpenAsks(call.run) /\ call.asks # {}

LEMMA Watched ==
  ASSUME Watch, call'.op \in Answerable \cup {"Snapshot"}
  PROVE  /\ moments \subseteq moments'
         /\ call'.at # "answered" => (Truth)' \in moments'
  <1>1. call'.op # "none" /\ call'.op \in OnTasks \cup {"Snapshot"}
    BY DEF Answerable, OnTasks
  <1>2. moments' = moments \cup (IF Followed' THEN {Truth'} ELSE {})
    BY <1>1 DEF Watch
  <1>3. call'.at # "answered" => Followed'
    BY <1>1 DEF Followed
  <1>4. QED
    BY <1>2, <1>3

(* What the last run of a lineage asks is what is true of the task. *)
LEMMA TruthOfATask ==
  ASSUME call.op \in Answerable
  PROVE  /\ Truth.run = TailOf(call.id)
         /\ Truth.asks = OpenAsks(TailOf(call.id))
  BY DEF Truth, Answerable

LEMMA TruthOfAThread ==
  ASSUME call.op = "Snapshot"
  PROVE  LET r == Newest(RunsOf(call.id))
         IN  Truth.run = r /\ (Truth.cancelled <=> (r # Nowhere /\ run[r].cancelled))
  BY DEF Truth

(* While a run of it is open, nothing joins a lineage that is being read. *)
LEMMA LineageStays ==
  ASSUME Base, [DoorsNext]_<<doorVars, moments>>, call' = call, call.at = "events",
         call.run \in Lineage(call.id), Open(call.run)
  PROVE  Lineage(call.id)' = Lineage(call.id)
  <1>0. /\ Types /\ Placed /\ call.id \in Runs /\ Opened(call.id)
        /\ call.run \in Runs /\ Opened(call.run) /\ run[call.run].root = call.id
    BY DEF Base, Stages, OnTasks, Lineage
  <1>1. RunsKeep
    BY DataNext
  <1>2. ASSUME NEW r \in Runs, NEW t \in Threads, NEW root \in Runs \cup {Nowhere},
               OpenRun(r, t, root), root # call.id
        PROVE  Lineage(call.id)' = Lineage(call.id)
    <2>1. /\ ~Opened(r) /\ \A q \in Runs \ {r} : run'[q] = run[q]
          /\ run'[r].root = IF root = Nowhere THEN r ELSE root
      BY <1>0, <1>2, OpenRunEffect
    <2>2. r # call.id /\ run'[r].root # call.id
      BY <1>0, <1>2, <2>1
    <2>3. \A q \in Runs : q \in Lineage(call.id)' <=> q \in Lineage(call.id)
      BY <2>1, <2>2 DEF Lineage, Opened
    <2>4. QED
      BY <2>3 DEF Lineage
  <1>3. ASSUME UNCHANGED run PROVE Lineage(call.id)' = Lineage(call.id)
    BY <1>3 DEF Lineage, Opened
  <1>4. ASSUME NEW r \in Runs, RunEnds(r) PROVE Lineage(call.id)' = Lineage(call.id)
    <2>1. Open(r) /\ \A q \in Runs \ {r} : run'[q] = run[q]
      BY <1>0, <1>4 DEF RunEnds, Types
    <2>2. /\ \A q \in Runs : Opened(q)' <=> Opened(q)
          /\ \A q \in Runs : Opened(q) => run'[q].root = run[q].root
      BY <1>1, <2>1 DEF RunsKeep, Opened, Open
    <2>3. QED
      BY <2>2 DEF Lineage
  <1>5. ASSUME NEW t \in Threads, NEW r \in Runs, AguiRun(t, r)
        PROVE  Lineage(call.id)' = Lineage(call.id)
    <2>1. PICK last \in {Newest(RunsOf(t))} : TRUE
      OBVIOUS
    <2>2. /\ \A q \in RunsOf(t) : ~Open(q)
          /\ OpenRun(r, t, IF OpenAsks(last) # {} THEN run[last].root ELSE Nowhere)
      BY <1>5, <2>1 DEF AguiRun
    <2>3. run[call.id].thread = run[call.run].thread /\ run[call.run].thread # t
      <3>1. call.run \notin RunsOf(t)
        BY <2>2
      <3>2. QED
        BY <1>0, <3>1 DEF Placed, RunsOf
    <2>4. CASE OpenAsks(last) # {}
      <3>1. last \in Runs /\ Opened(last) /\ run[last].thread = t
        BY <1>0, <2>1, <2>4, RunOf, Waiting, Ids
      <3>2. run[last].root \in Runs /\ run[run[last].root].thread = t
        BY <1>0, <3>1 DEF Placed
      <3>3. QED
        BY <1>2, <2>2, <2>3, <2>4, <3>2
    <2>5. CASE OpenAsks(last) = {}
      BY <1>0, <1>2, <2>2, <2>5, Ids
    <2>6. QED
      BY <2>4, <2>5
  <1>6. ASSUME NEW p, NEW context, NEW t \in Threads, NEW r \in Runs, Message(context, p, t, r)
        PROVE  Lineage(call.id)' = Lineage(call.id)
    BY <1>0, <1>2, <1>6, Ids DEF Message
  <1>7. CASE Handles
    <2>1. call.at # "begin"
      OBVIOUS
    <2>2. UNCHANGED run
      BY <1>7, <2>1
      DEF Handles, on_get_task, on_cancel_task, on_message_send, on_subscribe_to_task,
          on_list_tasks, annotate_asks, get_thread_snapshot
    <2>3. QED
      BY <1>3, <2>2
  <1>8. CASE Senders
    BY <1>3, <1>5, <1>6, <1>8 DEF Senders, CreateThread
  <1>9. QED
    BY <1>3, <1>4, <1>7, <1>8, StepCases DEF Ask, Receive, Register, doorVars

(* The request waits while the record moves on, or nothing moves at all. *)
LEMMA SeenStays ==
  ASSUME Base, Seen, [DoorsNext]_<<doorVars, moments>>, call' = call
  PROVE  Seen'
  <1>0. /\ Types /\ run \in [Runs -> RunRecords] /\ RunsKeep /\ call \in Calls
        /\ call.run \in Runs \cup {Nowhere}
    BY DataNext DEF Base, Types, Calls
  <1>1. ASSUME call.op \in Answerable \cup {"Snapshot"}
        PROVE  /\ \A m \in moments : m \in moments'
               /\ call.at # "answered" => (Truth)' \in moments' \/ UNCHANGED <<doorVars, moments>>
    BY <1>1, Watched, StepCases
  (* A run that is over, and what it asks. *)
  <1>2. ASSUME NEW r \in Runs, Opened(r), ~Open(r)
        PROVE  Opened(r)' /\ run'[r] = run[r] /\ OpenAsks(r)' = OpenAsks(r)
    BY <1>0, <1>2 DEF RunsKeep, Opened, Open, OpenAsks
  <1>3. ASSUME call.at = "events"
        PROVE  /\ call.run \in Lineage(call.id)'
               /\ Open(call.run)' => call.run = TailOf(call.id)'
               /\ WasOpen(OpenAsks(call.run))'
    <2>1. /\ call.run \in Lineage(call.id) /\ WasOpen(OpenAsks(call.run))
          /\ Open(call.run) => call.run = TailOf(call.id)
          /\ call.op \in Answerable
      BY <1>3 DEF Seen, Base, Stages, Answerable
    <2>2. call.run \in Runs /\ Opened(call.run) /\ run[call.run].root = call.id
      BY <2>1 DEF Lineage
    <2>3. call.run \in Lineage(call.id)'
      BY <1>0, <2>2 DEF RunsKeep, Lineage, Opened
    <2>4. CASE UNCHANGED <<doorVars, moments>>
      BY <2>1, <2>4 DEF doorVars, Lineage, Opened, Open, TailOf, WasOpen, OpenAsks
    <2>5. CASE ~Open(call.run)
      <3>1. ~Open(call.run)' /\ OpenAsks(call.run)' = OpenAsks(call.run)
        BY <1>2, <2>2, <2>5 DEF Open
      <3>2. WasOpen(OpenAsks(call.run))'
        BY <1>1, <2>1, <3>1 DEF WasOpen
      <3>3. QED
        BY <2>3, <3>1, <3>2
    <2>6. CASE Open(call.run) /\ (Truth)' \in moments'
      <3>1. Lineage(call.id)' = Lineage(call.id)
        BY <1>3, <2>1, <2>6, LineageStays
      <3>2. TailOf(call.id)' = TailOf(call.id) /\ TailOf(call.id) = call.run
        BY <2>1, <2>6, <3>1 DEF TailOf
      <3>3. (Truth)'.run = call.run /\ (Truth)'.asks = OpenAsks(call.run)'
        BY <2>1, <3>2 DEF Truth, Answerable, OpenAsks, TailOf
      <3>4. WasOpen(OpenAsks(call.run))'
        BY <2>6, <3>3 DEF WasOpen
      <3>5. QED
        BY <2>3, <3>2, <3>4
    <2>7. QED
      BY <1>1, <1>3, <2>1, <2>4, <2>5, <2>6
  <1>4. ASSUME call.at = "look" PROVE call.run \in Runs /\ WasWaiting'
    <2>1. call.run \in Runs /\ WasWaiting /\ call.op = "Snapshot"
      BY <1>4 DEF Seen, Base, Stages
    <2>2. QED
      BY <1>1, <2>1 DEF WasWaiting
  <1>5. ASSUME call.at = "answered", call.said = "task"
        PROVE  call.op \in Answerable /\ WasOpen(call.asks)'
    <2>1. call.op \in Answerable /\ WasOpen(call.asks)
      BY <1>5 DEF Seen
    <2>2. QED
      BY <1>1, <2>1 DEF WasOpen
  <1>6. ASSUME call.at = "answered", call.said = "snapshot"
        PROVE  /\ call.op = "Snapshot"
               /\ call.run # Nowhere => /\ WasWaiting'
                                        /\ call.asks = OpenAsks(call.run)' /\ call.asks # {}
    <2>1. /\ call.op = "Snapshot"
          /\ call.run # Nowhere => /\ WasWaiting
                                   /\ call.asks = OpenAsks(call.run) /\ call.asks # {}
      BY <1>6 DEF Seen
    <2>2. ASSUME call.run # Nowhere
          PROVE  WasWaiting' /\ call.asks = OpenAsks(call.run)'
      <3>1. call.run \in Runs /\ Opened(call.run) /\ ~Open(call.run)
        BY <1>0, <2>1, <2>2, Waiting DEF Open
      <3>2. QED
        BY <1>1, <1>2, <2>1, <2>2, <3>1 DEF WasWaiting
    <2>3. QED
      BY <2>1, <2>2
  <1>7. QED
    BY <1>3, <1>4, <1>5, <1>6 DEF Seen

(* A step of the request itself. *)
LEMMA SeenHandles ==
  ASSUME Base, Seen, Handles, Watch
  PROVE  Seen'
  <1>0. /\ Types /\ Placed /\ Stages /\ call \in Calls
    BY DEF Base, Types
  <1>1. CASE call.at = "annotate" /\ annotate_asks
    <2>1. /\ call' = [call EXCEPT !.at = "events", !.run = TailOf(call.id)]
          /\ UNCHANGED <<thread, run>>
          /\ call.op \in Answerable /\ call.id \in Runs
          /\ Opened(call.id) /\ run[call.id].root = call.id
      BY <1>0, <1>1 DEF annotate_asks, TheOneToRead, Answered, Stages, Answerable, OnTasks
    <2>2. TailOf(call.id) \in Lineage(call.id) /\ TailOf(call.id) \in Runs
      BY <1>0, <2>1, TailIs DEF Lineage
    <2>3. /\ SameRequest /\ call'.at = "events" /\ call'.run = TailOf(call.id)
      BY <1>0, <2>1, <2>2, RunAtType
    <2>4. /\ Lineage(call.id)' = Lineage(call.id) /\ TailOf(call.id)' = TailOf(call.id)
          /\ OpenAsks(call.run)' = OpenAsks(TailOf(call.id))
      BY <2>1, <2>3 DEF SameRequest, Lineage, TailOf, Opened, OpenAsks
    <2>5. (Truth)' \in moments'
      BY <2>1, <2>3, Watched DEF SameRequest
    <2>6. (Truth)'.run = call'.run /\ (Truth)'.asks = OpenAsks(call.run)'
      BY <2>1, <2>3, <2>4 DEF Truth, Answerable, SameRequest, OpenAsks, TailOf
    <2>7. WasOpen(OpenAsks(call.run))'
      BY <2>5, <2>6 DEF WasOpen
    <2>8. QED
      BY <2>2, <2>3, <2>4, <2>7 DEF Seen, SameRequest
  <1>2. CASE call.at = "events" /\ annotate_asks
    <2>1. /\ Answered("task", call.run, OpenAsks(call.run))
          /\ call.op \in Answerable /\ WasOpen(OpenAsks(call.run))
          /\ call.run \in Runs \cup {Nowhere}
      BY <1>0, <1>2 DEF annotate_asks, Seen, Stages, Answerable, Calls
    <2>2. /\ SameRequest /\ call'.at = "answered" /\ call'.said = "task"
          /\ call'.run = call.run /\ call'.asks = OpenAsks(call.run)
      BY <1>0, <2>1, AnsweredType, OpenAsksType
    <2>3. \A m \in moments : m \in moments'
      BY <2>1, <2>2, Watched DEF SameRequest
    <2>4. WasOpen(call.asks)'
      BY <2>1, <2>2, <2>3 DEF WasOpen
    <2>5. QED
      BY <2>1, <2>2, <2>4 DEF Seen, SameRequest
  <1>3. CASE get_thread_snapshot
    <2>1. call.op = "Snapshot" /\ UNCHANGED <<thread, run>>
      BY <1>3 DEF get_thread_snapshot
    <2>2. ASSUME SameRequest
          PROVE  /\ \A m \in moments : m \in moments'
                 /\ call'.at # "answered" => (Truth)' \in moments'
      BY <2>1, <2>2, Watched DEF SameRequest
    <2>3. CASE \E said \in {"absent", "snapshot"} : Answered(said, Nowhere, {})
      <3>1. SameRequest /\ call'.at = "answered" /\ call'.run = Nowhere
            /\ call'.said \in {"absent", "snapshot"}
        BY <1>0, <2>3, AnsweredType
      <3>2. QED
        BY <2>1, <3>1 DEF Seen, SameRequest
    <2>4. CASE GoTo("read")
      <3>1. call'.at = "read"
        BY <1>0, <2>4, GoToType
      <3>2. QED
        BY <3>1 DEF Seen
    <2>5. ASSUME NEW r, r = Newest(RunsOf(call.id)), IsWaiting(r),
                 call' = [call EXCEPT !.at = "look", !.run = r]
          PROVE  Seen'
      <3>1. r \in Runs /\ ~run[r].cancelled
        BY <1>0, <2>5, RunOf DEF IsWaiting
      <3>2. SameRequest /\ call'.at = "look" /\ call'.run = r
        BY <1>0, <2>5, <3>1, RunAtType
      <3>3. (Truth)'.run = r /\ ~(Truth)'.cancelled
        <4>1. Newest(RunsOf(call.id))' = r
          BY <2>1, <2>5, <3>2 DEF SameRequest, RunsOf, Opened
        <4>2. QED
          BY <2>1, <3>1, <3>2, <4>1 DEF Truth, SameRequest
      <3>4. WasWaiting'
        BY <2>2, <3>2, <3>3 DEF WasWaiting
      <3>5. QED
        BY <3>1, <3>2, <3>4 DEF Seen
    <2>6. CASE call.at = "look" /\ OpenAsks(call.run) # {}
               /\ Answered("snapshot", call.run, OpenAsks(call.run))
      <3>1. call.run \in Runs /\ WasWaiting
        BY <2>6 DEF Seen
      <3>2. /\ SameRequest /\ call'.at = "answered" /\ call'.said = "snapshot"
            /\ call'.run = call.run /\ call'.asks = OpenAsks(call.run)
        BY <1>0, <2>6, <3>1, AnsweredType, OpenAsksType
      <3>3. WasWaiting' /\ OpenAsks(call.run)' = OpenAsks(call.run)
        BY <2>1, <2>2, <3>1, <3>2 DEF WasWaiting, OpenAsks
      <3>4. QED
        BY <2>1, <2>6, <3>2, <3>3 DEF Seen, SameRequest
    <2>7. QED
      BY <1>3, <2>3, <2>4, <2>5, <2>6 DEF get_thread_snapshot
  <1>4. ASSUME call'.at \notin {"events", "look"},
               call'.at = "answered" => call'.said \notin {"task", "snapshot"}
        PROVE  Seen'
    BY <1>4 DEF Seen
  <1>5. ASSUME \/ \E said \in {"absent", "refused", "stream", "page"} : Answered(said, Nowhere, {})
               \/ \E at \in {"annotate", "settle", "read", "stream", "list"} : GoTo(at)
        PROVE  Seen'
    <2>1. CASE \E said \in {"absent", "refused", "stream", "page"} : Answered(said, Nowhere, {})
      BY <1>0, <1>4, <2>1, AnsweredType
    <2>2. CASE \E at \in {"annotate", "settle", "read", "stream", "list"} : GoTo(at)
      BY <1>0, <1>4, <2>2, GoToType
    <2>3. QED
      BY <1>5, <2>1, <2>2
  <1>6. CASE on_get_task \/ on_subscribe_to_task \/ on_list_tasks
    BY <1>5, <1>6 DEF on_get_task, on_subscribe_to_task, on_list_tasks
  <1>7. CASE on_message_send \/ on_cancel_task
    BY <1>5, <1>7 DEF on_message_send, on_cancel_task
  <1>8. QED
    BY <1>1, <1>2, <1>3, <1>6, <1>7 DEF Handles, annotate_asks

LEMMA SeenNext == Base /\ Seen /\ [DoorsNext]_<<doorVars, moments>> => Seen'
  <1> SUFFICES ASSUME Base, Seen, [DoorsNext]_<<doorVars, moments>> PROVE Seen'
    OBVIOUS
  <1>1. CASE call' = call
    BY <1>1, SeenStays
  <1>2. CASE Handles /\ Watch
    BY <1>2, SeenHandles
  <1>3. CASE Receive \/ \E op \in Ops, who \in {Party, Stranger}, proof \in {"verifies", "fails"},
                          id \in Threads \cup Runs \cup {Nowhere} : Ask(op, who, proof, id)
    <2>1. call'.at \in {"idle", "begin"}
      BY <1>3, NoCallType DEF Receive, Ask, NoCall
    <2>2. QED
      BY <2>1 DEF Seen
  <1>4. QED
    BY <1>1, <1>2, <1>3, StepCases
    DEF RunEnds, Register, Senders, CreateThread, AguiRun, Message, doorVars

(***************************************************************************)
(* What a caller is handed to sign was open when it asked.                 *)
(***************************************************************************)
THEOREM TheAsksWereOpen == DoorsSpec => []AsksWereOpen
  <1>1. DoorsInit => Seen
    BY NoCallType DEF DoorsInit, Seen
  <1>2. Seen => AsksWereOpen
    BY DEF Seen, AsksWereOpen, WasOpen, WasWaiting
  <1>3. QED
    BY <1>1, <1>2, BaseInit, BaseNext, SeenNext, PTL DEF DoorsSpec
=============================================================================
