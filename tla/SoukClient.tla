----------------------------- MODULE SoukClient -----------------------------
(***************************************************************************)
(* A caller's view of its conversation: souk_client_sdk/client.py's run(), *)
(* the four last_* fields it keeps between runs, and what of core they     *)
(* mirror.  A run that ends waiting (an interrupt, a tool call nobody      *)
(* answered) is answered by a new run of the same lineage, and the answer  *)
(* is proved by a signature over the lineage's first run and the open      *)
(* asks.  The client builds that proof from last_task_id and               *)
(* last_outstanding_asks, so they have to agree with core's record.        *)
(*                                                                         *)
(* One call at a time, as the fields allow.  What can go wrong with one is *)
(* in Disturbances, so a configuration says which of them it admits.       *)
(***************************************************************************)
EXTENDS Naturals, Sequences

CONSTANTS
  Threads,       \* conversations
  Runs,          \* the run ids core mints
  Asks,          \* interrupt and tool call ids
  None,          \* no run, no thread
  Disturbances,  \* unreachable, lost, refused, cut, switch
  MaxEvents      \* bound: events of one run

ASSUME ClientAssumption ==
  /\ None \notin Threads \cup Runs
  /\ Disturbances \subseteq {"unreachable", "lost", "refused", "cut", "switch"}
  /\ MaxEvents \in Nat

VARIABLES
  last_thread_id, last_run_id, last_task_id, last_outstanding_asks,
  call,       \* the run() in progress
  latest,     \* core: each thread's latest run
  root,       \* core: the first run of each run's lineage
  log,        \* core: each run's events
  knows       \* history: what the client can still know of its conversation

clientVars == <<last_thread_id, last_run_id, last_task_id, last_outstanding_asks>>
coreVars   == <<latest, root, log>>
vars == <<clientVars, call, coreVars, knows>>

-----------------------------------------------------------------------------
Event(kind, asks) == [kind |-> kind, asks |-> asks]
ToolEvents == {Event(kind, {a}) : kind \in {"TOOL_CALL_START", "TOOL_CALL_RESULT"}, a \in Asks}
LastEvents == {Event("RUN_FINISHED", I) : I \in SUBSET Asks} \cup {Event("RUN_ERROR", {})}
Events == {Event("RUN_STARTED", {})} \cup ToolEvents \cup LastEvents

NoCall == [at |-> "idle", thread |-> None, run |-> None, continues |-> FALSE,
           announced |-> {}, answered |-> {}, read |-> 0]

Init ==
  /\ last_thread_id = None
  /\ last_run_id = None
  /\ last_task_id = None
  /\ last_outstanding_asks = {}
  /\ call = NoCall
  /\ latest = [t \in Threads |-> None]
  /\ root = [r \in Runs |-> None]
  /\ log = [r \in Runs |-> <<>>]
  /\ knows = "all"

-----------------------------------------------------------------------------
(* Core, external: a run's record, and funduq.pause.open_asks over it.     *)

Ended(r)    == log[r] # <<>> /\ log[r][Len(log[r])] \in LastEvents
Active(r)   == r # None /\ ~Ended(r)
Said(r, kind) == UNION {log[r][i].asks : i \in {j \in 1..Len(log[r]) : log[r][j].kind = kind}}

\* Nothing is open before the run has finished, or if it failed.
OpenAsks(r) ==
  IF r # None /\ Ended(r) /\ log[r][Len(log[r])].kind = "RUN_FINISHED"
  THEN (Said(r, "TOOL_CALL_START") \ Said(r, "TOOL_CALL_RESULT")) \cup Said(r, "RUN_FINISHED")
  ELSE {}

\* A run on a waiting thread answers it and joins its lineage.
Open(r, t) ==
  /\ root[r] = None
  /\ \A q \in Runs : root[q] = None => r <= q
  /\ ~Active(latest[t])
  /\ root' = [root EXCEPT ![r] = IF OpenAsks(latest[t]) # {} THEN root[latest[t]] ELSE r]
  /\ latest' = [latest EXCEPT ![t] = r]
  /\ log' = [log EXCEPT ![r] = <<Event("RUN_STARTED", {})>>]

\* The provider's events, until one that is the last.
Report(r, e) ==
  /\ root[r] # None
  /\ ~Ended(r)
  /\ \/ e \in ToolEvents /\ Len(log[r]) < MaxEvents - 1
     \/ e \in LastEvents /\ Len(log[r]) < MaxEvents
  /\ log' = [log EXCEPT ![r] = Append(@, e)]
  /\ UNCHANGED <<clientVars, call, latest, root, knows>>

-----------------------------------------------------------------------------
(* run(): the request. *)

Continues_AfterTheFact(t) == FALSE

\* Decided before the request goes out, from what the last stream left.
Continues(t) == last_outstanding_asks # {} /\ t = last_thread_id

\* Out of reach it missed nothing; a refusal it was at least told of.
Disturbed(d) ==
  /\ d \in Disturbances
  /\ knows' = CASE d = "unreachable" -> knows
                [] d = "refused" /\ knows # "less" -> "refusals"
                [] OTHER -> "less"

\* A caller answers a pause before it speaks elsewhere, unless it switches.
Stays(t) == \A u \in Threads \ {t} : ~Active(latest[u]) /\ OpenAsks(latest[u]) = {}

Call(t) ==
  /\ call = NoCall
  /\ \/ Stays(t) /\ UNCHANGED knows
     \/ ~Stays(t) /\ Disturbed("switch")
  /\ call' = [NoCall EXCEPT !.at = "posting", !.thread = t, !.continues = Continues(t)]
  /\ UNCHANGED <<clientVars, coreVars>>

Connect_KeepsAsks(t) ==
  /\ last_thread_id' = t
  /\ UNCHANGED <<last_run_id, last_task_id, last_outstanding_asks>>

\* The response has begun: what the previous stream left is forgotten.
Connect(t) ==
  /\ last_thread_id' = t
  /\ last_outstanding_asks' = {}
  /\ UNCHANGED <<last_run_id, last_task_id>>

Accepted(r) ==
  /\ call.at = "posting"
  /\ Open(r, call.thread)
  /\ Connect(call.thread)
  /\ call' = [call EXCEPT !.at = "streaming", !.run = r]
  /\ UNCHANGED knows

\* A response that is not an event stream (an error status, the snapshot of a
\* thread whose run is still active): connected all the same, and the first
\* read raises.
Refused ==
  /\ call.at = "posting"
  /\ \/ Active(latest[call.thread]) /\ UNCHANGED knows
     \/ Disturbed("refused")
  /\ Connect(call.thread)
  /\ call' = NoCall
  /\ UNCHANGED coreVars

\* The request never arrived, or its response did not: run() raises before it
\* connects, and only core knows which.
Unreachable ==
  /\ call.at = "posting"
  /\ Disturbed("unreachable")
  /\ call' = NoCall
  /\ UNCHANGED <<clientVars, coreVars>>

Lost(r) ==
  /\ call.at = "posting"
  /\ Disturbed("lost")
  /\ Open(r, call.thread)
  /\ call' = NoCall
  /\ UNCHANGED clientVars

-----------------------------------------------------------------------------
(* run(): the stream. *)

NextEvent(r) == log[r][call.read + 1]

ReadStarted ==
  /\ last_thread_id' = call.thread
  /\ last_run_id' = call.run
  /\ last_task_id' = IF call.continues THEN last_task_id ELSE call.run
  /\ call' = [call EXCEPT !.read = @ + 1]
  /\ UNCHANGED last_outstanding_asks

ReadTool(e) ==
  /\ call' = [call EXCEPT !.read = @ + 1,
                !.announced = IF e.kind = "TOOL_CALL_START" THEN @ \cup e.asks ELSE @,
                !.answered = IF e.kind = "TOOL_CALL_RESULT" THEN @ \cup e.asks ELSE @]
  /\ UNCHANGED clientVars

Outstanding_Appended(interrupts) == (call.announced \ call.answered) \cup {interrupts}

\* Tool calls nobody answered, and the interrupts the outcome names.
Outstanding(interrupts) == (call.announced \ call.answered) \cup interrupts

ReadFinished(e) ==
  /\ last_outstanding_asks' = Outstanding(e.asks)
  /\ call' = [call EXCEPT !.read = @ + 1]
  /\ UNCHANGED <<last_thread_id, last_run_id, last_task_id>>

\* Any other event is yielded and changes nothing here.
ReadOther == call' = [call EXCEPT !.read = @ + 1] /\ UNCHANGED clientVars

Read ==
  /\ call.at = "streaming"
  /\ call.read < Len(log[call.run])
  /\ LET e == NextEvent(call.run)
     IN  \/ e.kind = "RUN_STARTED" /\ ReadStarted
         \/ e \in ToolEvents /\ ReadTool(e)
         \/ e.kind = "RUN_FINISHED" /\ ReadFinished(e)
         \/ e.kind = "RUN_ERROR" /\ ReadOther
  /\ UNCHANGED <<coreVars, knows>>

\* core closes the stream after the run's last event.
StreamEnds ==
  /\ call.at = "streaming"
  /\ Ended(call.run)
  /\ call.read = Len(log[call.run])
  /\ call' = NoCall
  /\ UNCHANGED <<clientVars, coreVars, knows>>

\* The connection breaks under the stream, or the caller stops iterating.
Cut ==
  /\ call.at = "streaming"
  /\ Disturbed("cut")
  /\ call' = NoCall
  /\ UNCHANGED <<clientVars, coreVars>>

-----------------------------------------------------------------------------
Next ==
  \/ \E t \in Threads : Call(t)
  \/ \E r \in Runs : Accepted(r) \/ Lost(r)
  \/ \E r \in Runs, e \in Events : Report(r, e)
  \/ Refused \/ Unreachable \/ Read \/ StreamEnds \/ Cut

Spec == Init /\ [][Next]_vars

-----------------------------------------------------------------------------
TypeOK ==
  /\ last_thread_id \in Threads \cup {None}
  /\ last_run_id \in Runs \cup {None}
  /\ last_task_id \in Runs \cup {None}
  /\ last_outstanding_asks \in SUBSET Asks
  /\ call \in [at : {"idle", "posting", "streaming"}, thread : Threads \cup {None},
               run : Runs \cup {None}, continues : BOOLEAN,
               announced : SUBSET Asks, answered : SUBSET Asks, read : Nat]
  /\ latest \in [Threads -> Runs \cup {None}]
  /\ root \in [Runs -> Runs \cup {None}]
  /\ log \in [Runs -> Seq(Events)]
  /\ knows \in {"all", "refusals", "less"}

\* Between two calls, the client says that the run it last saw is waiting.
SaysWaiting == call = NoCall /\ last_outstanding_asks # {}

(***************************************************************************)
(* The asks the client reports are those of the run it names, all of them: *)
(* never a subset, and never left over from an earlier run, whatever       *)
(* happened to the calls in between.                                       *)
(***************************************************************************)
AsksAreTheLastRuns == SaysWaiting => last_outstanding_asks = OpenAsks(last_run_id)

SignsTheTask == SaysWaiting => last_task_id = root[last_run_id]

(***************************************************************************)
(* "A run that answers the previous run's open asks continues its lineage  *)
(* and keeps this id": a proof signed over last_task_id and                *)
(* last_outstanding_asks is the one core verifies, at any depth of pauses, *)
(* for a client that was told everything and answers before it moves on.   *)
(***************************************************************************)
ProofVerifies == knows = "all" => SignsTheTask

(***************************************************************************)
(* The same words of a client whose answer was refused now and then.       *)
(***************************************************************************)
RefusedAnswerKeepsTheTask == knows # "less" => SignsTheTask
=============================================================================
