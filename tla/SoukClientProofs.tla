-------------------------- MODULE SoukClientProofs --------------------------
(***************************************************************************)
(* Proofs about SoukClient: the asks a client reports are those of the run *)
(* it names, and for a client that missed nothing the task is core's.      *)
(***************************************************************************)
EXTENDS SoukClient, TLAPS

(* What a step does to core, and to its record. *)
LEMMA Cases ==
  ASSUME Next
  PROVE  \/ \E t \in Threads : Call(t)
         \/ \E r \in Runs : Accepted(r) \/ Lost(r)
         \/ \E r \in Runs, e \in Events : Report(r, e)
         \/ Refused \/ Unreachable \/ Read \/ StreamEnds \/ Cut
  BY DEF Next

LEMMA KindTypes ==
  /\ \A e \in Events : e.asks \in SUBSET Asks
  /\ Event("RUN_STARTED", {}) \in Events
  /\ Event("RUN_STARTED", {}).kind = "RUN_STARTED"
  /\ \A e \in ToolEvents : e \in Events /\ e.kind \in {"TOOL_CALL_START", "TOOL_CALL_RESULT"}
  /\ \A e \in LastEvents : e \in Events /\ e.kind \in {"RUN_FINISHED", "RUN_ERROR"}
  /\ \A e \in Events : e.kind \in {"RUN_FINISHED", "RUN_ERROR"} => e \in LastEvents
  <1>1. \A e \in ToolEvents : /\ e.asks \in SUBSET Asks
                              /\ e.kind \in {"TOOL_CALL_START", "TOOL_CALL_RESULT"}
    BY DEF ToolEvents, Event
  <1>2. \A e \in LastEvents : /\ e.asks \in SUBSET Asks
                              /\ e.kind \in {"RUN_FINISHED", "RUN_ERROR"}
    BY DEF LastEvents, Event
  <1>3. /\ Event("RUN_STARTED", {}).kind = "RUN_STARTED"
        /\ Event("RUN_STARTED", {}).asks = {}
    BY DEF Event
  <1>4. QED
    BY <1>1, <1>2, <1>3 DEF Events

CallTypes == [at : {"idle", "posting", "streaming"}, thread : Threads \cup {None},
              run : Runs \cup {None}, continues : BOOLEAN,
              announced : SUBSET Asks, answered : SUBSET Asks, read : Nat]

LEMMA NoCallType == NoCall \in CallTypes /\ NoCall.at = "idle"
  BY DEF NoCall, CallTypes

(* A call is about a thread, a stream about a run. *)
Placed ==
  /\ call.at # "idle" => call.thread \in Threads
  /\ call.at = "streaming" => call.run \in Runs

Base == TypeOK /\ Placed

LEMMA OpenType ==
  ASSUME TypeOK, NEW r \in Runs, NEW t \in Threads, Open(r, t)
  PROVE  /\ root' \in [Runs -> Runs \cup {None}]
         /\ latest' \in [Threads -> Runs \cup {None}]
         /\ log' \in [Runs -> Seq(Events)]
  <1>1. <<Event("RUN_STARTED", {})>> \in Seq(Events)
    BY KindTypes
  <1>2. (IF OpenAsks(latest[t]) # {} THEN root[latest[t]] ELSE r) \in Runs \cup {None}
    <2>1. OpenAsks(latest[t]) # {} => latest[t] \in Runs
      BY DEF OpenAsks, TypeOK
    <2>2. QED
      BY <2>1 DEF TypeOK
  <1>3. QED
    BY <1>1, <1>2 DEF Open, TypeOK

LEMMA DisturbedType ==
  ASSUME NEW d, Disturbed(d), knows \in {"all", "refusals", "less"}
  PROVE  knows' \in {"all", "refusals", "less"}
  BY DEF Disturbed

LEMMA ReadEvent ==
  ASSUME Base, Read
  PROVE  /\ call.at = "streaming" /\ call.run \in Runs
         /\ call.read + 1 \in 1..Len(log[call.run]) /\ NextEvent(call.run) \in Events
  <1>1. /\ call.at = "streaming" /\ call.run \in Runs
        /\ log[call.run] \in Seq(Events) /\ call.read \in Nat
        /\ call.read < Len(log[call.run])
    BY DEF Base, TypeOK, Placed, Read
  <1>2. call.read + 1 \in 1..Len(log[call.run])
    BY <1>1
  <1>3. QED
    BY <1>1, <1>2 DEF NextEvent

LEMMA ReadType == Base /\ Read => Base'
  <1> SUFFICES ASSUME Base, Read PROVE Base'
    OBVIOUS
  <1> DEFINE e == NextEvent(call.run)
  <1>0. call \in CallTypes /\ call.read \in Nat
    BY DEF Base, TypeOK, CallTypes
  <1>1. e.asks \in SUBSET Asks /\ call.run \in Runs /\ call.at = "streaming"
    BY ReadEvent, KindTypes
  <1>2. call' \in CallTypes /\ call'.at = call.at /\ call'.thread = call.thread /\ call'.run = call.run
    <2>1. CASE call' = [call EXCEPT !.read = @ + 1]
      <3>1. call' = [call EXCEPT !.read = call.read + 1] /\ call.read + 1 \in Nat
        BY <1>0, <2>1
      <3>2. QED
        BY <1>0, <3>1 DEF CallTypes
    <2>2. CASE ReadTool(e)
      <3>1. PICK A \in SUBSET Asks, B \in SUBSET Asks :
              call' = [call EXCEPT !.read = call.read + 1, !.announced = A, !.answered = B]
        BY <1>0, <1>1, <2>2 DEF ReadTool, CallTypes
      <3>2. call.read + 1 \in Nat
        BY <1>0
      <3>3. QED
        BY <1>0, <3>1, <3>2 DEF CallTypes
    <2>3. QED
      BY <2>1, <2>2 DEF Read, ReadStarted, ReadFinished, ReadOther
  <1>3. /\ last_thread_id' \in Threads \cup {None} /\ last_run_id' \in Runs \cup {None}
        /\ last_task_id' \in Runs \cup {None} /\ last_outstanding_asks' \in SUBSET Asks
    <2>1. CASE ReadStarted
      BY <1>1, <2>1 DEF ReadStarted, Base, TypeOK, Placed
    <2>2. CASE ReadFinished(e)
      BY <1>0, <1>1, <2>2 DEF ReadFinished, Outstanding, Base, TypeOK, CallTypes
    <2>3. CASE UNCHANGED clientVars
      BY <2>3 DEF clientVars, Base, TypeOK
    <2>4. QED
      BY <2>1, <2>2, <2>3 DEF Read, ReadTool, ReadOther
  <1>4. UNCHANGED <<coreVars, knows>>
    BY DEF Read
  <1>5. QED
    BY <1>2, <1>3, <1>4 DEF Base, TypeOK, Placed, CallTypes, coreVars

LEMMA BaseNext == Base /\ [Next]_vars => Base'
  <1> SUFFICES ASSUME Base, [Next]_vars PROVE Base'
    OBVIOUS
  <1> USE DEF Base
  <1>0. call \in CallTypes
    BY DEF TypeOK, CallTypes
  <1>1. ASSUME NEW t \in Threads, Call(t) PROVE Base'
    <2>1. Continues(t) \in BOOLEAN
      BY DEF Continues
    <2>2. call' = [at |-> "posting", thread |-> t, run |-> None, continues |-> Continues(t),
                   announced |-> {}, answered |-> {}, read |-> 0]
      BY <1>1 DEF Call, NoCall
    <2>3. call' \in CallTypes
      BY <2>1, <2>2 DEF CallTypes
    <2>4. knows' \in {"all", "refusals", "less"}
      BY <1>1, DisturbedType DEF Call, TypeOK
    <2>5. QED
      BY <1>1, <2>2, <2>3, <2>4 DEF Call, TypeOK, Placed, clientVars, coreVars, CallTypes
  <1>2. ASSUME NEW r \in Runs, Accepted(r) PROVE Base'
    <2>1. call.thread \in Threads
      BY <1>2 DEF Accepted, Placed
    <2>2. call' \in CallTypes /\ call'.thread = call.thread /\ call'.run = r
      BY <1>0, <1>2 DEF Accepted, CallTypes
    <2>3. QED
      BY <1>2, <2>1, <2>2, OpenType DEF Accepted, Connect, TypeOK, Placed, CallTypes
  <1>3. ASSUME NEW r \in Runs, Lost(r) PROVE Base'
    <2>1. call.thread \in Threads
      BY <1>3 DEF Lost, Placed
    <2>2. knows' \in {"all", "refusals", "less"}
      BY <1>3, DisturbedType DEF Lost, TypeOK
    <2>3. QED
      BY <1>3, <2>1, <2>2, OpenType, NoCallType DEF Lost, TypeOK, Placed, CallTypes, clientVars
  <1>4. ASSUME NEW r \in Runs, NEW e \in Events, Report(r, e) PROVE Base'
    BY <1>4 DEF Report, TypeOK, Placed, clientVars
  <1>5. CASE Refused
    <2>1. call.thread \in Threads /\ knows' \in {"all", "refusals", "less"}
      BY <1>5, DisturbedType DEF Refused, TypeOK, Placed
    <2>2. QED
      BY <1>5, <2>1, NoCallType DEF Refused, Connect, TypeOK, Placed, CallTypes, coreVars
  <1>6. CASE Unreachable \/ StreamEnds \/ Cut
    <2>1. knows' \in {"all", "refusals", "less"}
      BY <1>6, DisturbedType DEF Unreachable, StreamEnds, Cut, TypeOK
    <2>2. QED
      BY <1>6, <2>1, NoCallType
      DEF Unreachable, StreamEnds, Cut, TypeOK, Placed, CallTypes, clientVars, coreVars
  <1>7. CASE UNCHANGED vars
    BY <1>7 DEF vars, clientVars, coreVars, TypeOK, Placed
  <1>8. QED
    BY <1>1, <1>2, <1>3, <1>4, <1>5, <1>6, <1>7, ReadType, Cases

LEMMA BaseInit == Init => Base
  <1>1. <<>> \in Seq(Events)
    OBVIOUS
  <1>2. QED
    BY <1>1, NoCallType DEF Init, Base, TypeOK, Placed, CallTypes

(***************************************************************************)
(* Every variable of the client and of core's record keeps its type.       *)
(***************************************************************************)
THEOREM ClientTypeCorrect == Spec => []TypeOK
  BY BaseInit, BaseNext, PTL DEF Spec, Base

-----------------------------------------------------------------------------
(***************************************************************************)
(* The asks.  A run's record starts once and ends once; what the stream    *)
(* has made of it so far is what was said up to there; and the client      *)
(* reports asks when it has read the last event, which stays the last.     *)
(***************************************************************************)
SaidUpTo(r, kind, n) == UNION {log[r][i].asks : i \in {j \in 1..n : log[r][j].kind = kind}}

Recorded ==
  \A r \in Runs :
    /\ root[r] = None <=> log[r] = <<>>
    /\ \A i \in 1..Len(log[r]) :
         /\ i = 1 <=> log[r][i].kind = "RUN_STARTED"
         /\ log[r][i] \in LastEvents => i = Len(log[r])

Followed ==
  /\ call.at = "posting" => call.read = 0 /\ call.announced = {} /\ call.answered = {}
  /\ call.at = "streaming" =>
      /\ root[call.run] # None
      /\ call.read <= Len(log[call.run])
      /\ call.read > 0 => last_run_id = call.run
      /\ call.announced = SaidUpTo(call.run, "TOOL_CALL_START", call.read)
      /\ call.answered = SaidUpTo(call.run, "TOOL_CALL_RESULT", call.read)
      /\ last_outstanding_asks =
           IF Ended(call.run) /\ call.read = Len(log[call.run]) THEN OpenAsks(call.run) ELSE {}

Reported ==
  last_outstanding_asks # {} =>
    /\ last_run_id \in Runs /\ Ended(last_run_id)
    /\ last_outstanding_asks = OpenAsks(last_run_id)

AsksInv == Recorded /\ Followed /\ Reported

(* How a step can change a run's record. *)
Starts(r) == root[r] = None /\ root'[r] # None /\ log'[r] = <<Event("RUN_STARTED", {})>>
Grows(r) == /\ root[r] # None /\ root'[r] = root[r] /\ ~Ended(r)
            /\ \E e \in ToolEvents \cup LastEvents : log'[r] = Append(log[r], e)
Still(r) == root'[r] = root[r] /\ log'[r] = log[r]

LEMMA EndedRuns ==
  ASSUME Base, Recorded, NEW r, OpenAsks(r) # {}, r \in Runs \cup {None}
  PROVE  r \in Runs /\ Ended(r) /\ root[r] # None
  BY DEF OpenAsks, Ended, Recorded

LEMMA OpenEffect ==
  ASSUME Base, Recorded, NEW r \in Runs, NEW t \in Threads, Open(r, t)
  PROVE  Starts(r) /\ \A q \in Runs \ {r} : Still(q)
  <1>1. latest[t] \in Runs \cup {None}
    BY DEF Base, TypeOK
  <1>2. (IF OpenAsks(latest[t]) # {} THEN root[latest[t]] ELSE r) # None
    BY <1>1, EndedRuns, ClientAssumption
  <1>3. QED
    BY <1>2 DEF Open, Starts, Still, Base, TypeOK

LEMMA ReportEffect ==
  ASSUME Base, NEW r \in Runs, NEW e \in Events, Report(r, e)
  PROVE  Grows(r) /\ \A q \in Runs \ {r} : Still(q)
  BY DEF Report, Grows, Still, Base, TypeOK

LEMMA Changes ==
  ASSUME Base, Recorded, [Next]_vars, NEW r \in Runs
  PROVE  Starts(r) \/ Grows(r) \/ Still(r)
  <1>1. ASSUME NEW q \in Runs, Accepted(q) \/ Lost(q) PROVE Starts(r) \/ Still(r)
    <2>1. call.thread \in Threads /\ Open(q, call.thread)
      BY <1>1 DEF Accepted, Lost, Base, Placed
    <2>2. QED
      BY <2>1, OpenEffect
  <1>2. ASSUME NEW q \in Runs, NEW e \in Events, Report(q, e) PROVE Grows(r) \/ Still(r)
    BY <1>2, ReportEffect
  <1>3. CASE \/ \E t \in Threads : Call(t)
            \/ Refused \/ Unreachable \/ Read \/ StreamEnds \/ Cut \/ UNCHANGED vars
    BY <1>3 DEF Call, Refused, Unreachable, Read, StreamEnds, Cut, vars, coreVars, Still
  <1>4. QED
    BY <1>1, <1>2, <1>3, Cases

LEMMA SeqFacts ==
  ASSUME NEW S, NEW s \in Seq(S), NEW x \in S
  PROVE  /\ Len(s) \in Nat /\ (s = <<>> <=> Len(s) = 0)
         /\ Len(Append(s, x)) = Len(s) + 1 /\ Append(s, x) # <<>>
         /\ \A i \in 1..Len(s) : Append(s, x)[i] = s[i]
         /\ Append(s, x)[Len(s) + 1] = x
  OBVIOUS

(* A record only grows, and not behind its end. *)
LEMMA RecordKept ==
  ASSUME Base, Recorded, [Next]_vars, NEW r \in Runs, root[r] # None
  PROVE  /\ root'[r] = root[r]
         /\ Len(log[r]) \in Nat /\ Len(log'[r]) \in Nat /\ Len(log[r]) <= Len(log'[r])
         /\ \A i \in 1..Len(log[r]) : log'[r][i] = log[r][i]
         /\ log'[r] = log[r] \/ Len(log[r]) < Len(log'[r])
         /\ Ended(r) => Ended(r)' /\ log'[r] = log[r] /\ OpenAsks(r)' = OpenAsks(r)
  <1>1. log[r] \in Seq(Events)
    BY DEF Base, TypeOK
  <1>2. CASE Grows(r)
    BY <1>1, <1>2, SeqFacts, KindTypes DEF Grows
  <1>3. CASE Still(r)
    BY <1>1, <1>3 DEF Still, Ended, OpenAsks, Said
  <1>4. QED
    BY <1>2, <1>3, Changes DEF Starts

LEMMA RecordedNext ==
  ASSUME Base, Recorded, [Next]_vars
  PROVE  Recorded'
  <1> SUFFICES ASSUME NEW r \in Runs
               PROVE  /\ root'[r] = None <=> log'[r] = <<>>
                      /\ \A i \in 1..Len(log'[r]) :
                           /\ i = 1 <=> log'[r][i].kind = "RUN_STARTED"
                           /\ log'[r][i] \in LastEvents => i = Len(log'[r])
    BY DEF Recorded
  <1>0. log[r] \in Seq(Events)
    BY DEF Base, TypeOK
  <1>1. CASE Still(r)
    BY <1>1 DEF Still, Recorded
  <1>2. CASE Starts(r)
    <2>1. Len(log'[r]) = 1 /\ log'[r] # <<>> /\ log'[r][1] = Event("RUN_STARTED", {})
      BY <1>2 DEF Starts
    <2>2. QED
      BY <1>2, <2>1, KindTypes DEF Starts
  <1>3. CASE Grows(r)
    <2>1. PICK e \in ToolEvents \cup LastEvents : log'[r] = Append(log[r], e)
      BY <1>3 DEF Grows
    <2>2. e \in Events /\ e.kind # "RUN_STARTED"
      BY KindTypes
    <2> DEFINE n == Len(log[r])
    <2>3. /\ n \in Nat /\ n > 0 /\ Len(log'[r]) = n + 1 /\ log'[r] # <<>>
          /\ \A i \in 1..n : log'[r][i] = log[r][i]
          /\ log'[r][n + 1] = e
      BY <1>0, <1>3, <2>1, <2>2, SeqFacts DEF Grows, Recorded
    <2>4. \A i \in 1..n : log[r][i] \notin LastEvents
      BY <1>3, <2>3 DEF Grows, Ended, Recorded
    <2>5. root'[r] # None
      BY <1>3 DEF Grows
    <2>6. ASSUME NEW i \in 1..n + 1
          PROVE  /\ i = 1 <=> log'[r][i].kind = "RUN_STARTED"
                 /\ log'[r][i] \in LastEvents => i = n + 1
      <3>1. CASE i = n + 1
        BY <2>2, <2>3, <3>1
      <3>2. CASE i \in 1..n
        BY <2>3, <2>4, <3>2 DEF Recorded
      <3>3. QED
        BY <2>3, <3>1, <3>2
    <2>7. QED
      BY <2>3, <2>5, <2>6
  <1>4. QED
    BY <1>1, <1>2, <1>3, Changes

(* What was said up to some point stays said, and one event adds its asks. *)
LEMMA SaidStays ==
  ASSUME NEW r, NEW kind, NEW n, \A i \in 1..n : log'[r][i] = log[r][i]
  PROVE  SaidUpTo(r, kind, n)' = SaidUpTo(r, kind, n)
  BY DEF SaidUpTo

LEMMA SaidMore ==
  ASSUME NEW r, NEW kind, NEW n \in Nat
  PROVE  SaidUpTo(r, kind, n + 1) =
           IF log[r][n + 1].kind = kind THEN SaidUpTo(r, kind, n) \cup log[r][n + 1].asks
                                        ELSE SaidUpTo(r, kind, n)
  <1>1. \A i : i \in 1..n + 1 <=> i \in 1..n \/ i = n + 1
    OBVIOUS
  <1>2. \A x, m : x \in SaidUpTo(r, kind, m) <=>
           \E i \in 1..m : log[r][i].kind = kind /\ x \in log[r][i].asks
    BY DEF SaidUpTo
  <1>3. \A x : x \in SaidUpTo(r, kind, n + 1) <=>
          \/ x \in SaidUpTo(r, kind, n)
          \/ log[r][n + 1].kind = kind /\ x \in log[r][n + 1].asks
    BY <1>1, <1>2
  <1>4. CASE log[r][n + 1].kind = kind
    BY <1>3, <1>4
  <1>5. CASE log[r][n + 1].kind # kind
    BY <1>3, <1>5
  <1>6. QED
    BY <1>4, <1>5

LEMMA SaidNothing ==
  ASSUME NEW r, NEW kind
  PROVE  SaidUpTo(r, kind, 0) = {}
  BY DEF SaidUpTo

(* Reading one event. *)
LEMMA FollowedRead ==
  ASSUME Base, Recorded, Followed, Read
  PROVE  Followed'
  <1> DEFINE q == call.run
             n == call.read + 1
             e == log[q][n]
  <1>1. /\ call.at = "streaming" /\ q \in Runs /\ call.read \in Nat /\ n \in Nat
        /\ n \in 1..Len(log[q]) /\ e \in Events /\ log[q] \in Seq(Events)
        /\ Len(log[q]) \in Nat /\ e = NextEvent(call.run)
    BY ReadEvent DEF NextEvent, Base, TypeOK
  <1>2. UNCHANGED <<root, log, latest>>
    BY DEF Read, coreVars
  <1>3. call' \in CallTypes /\ call \in CallTypes
    BY ReadType DEF Base, TypeOK, CallTypes
  <1>4. /\ n = 1 <=> e.kind = "RUN_STARTED"
        /\ e \in LastEvents => n = Len(log[q])
        /\ n = Len(log[q]) => (Ended(q) <=> e \in LastEvents)
    BY <1>1 DEF Recorded, Ended
  <1>5. /\ root[q] # None /\ last_outstanding_asks = {}
        /\ call.read > 0 => last_run_id = q
        /\ call.announced = SaidUpTo(q, "TOOL_CALL_START", call.read)
        /\ call.answered = SaidUpTo(q, "TOOL_CALL_RESULT", call.read)
    BY <1>1 DEF Followed
  <1>6. \A kind : SaidUpTo(q, kind, n) = IF e.kind = kind THEN SaidUpTo(q, kind, call.read) \cup e.asks
                                                         ELSE SaidUpTo(q, kind, call.read)
    BY <1>1, SaidMore
  <1>7. ASSUME e.kind = "RUN_FINISHED"
        PROVE  Outstanding(e.asks) = OpenAsks(q)
    <2>1. e \in LastEvents /\ n = Len(log[q]) /\ Ended(q) /\ q # None
      BY <1>1, <1>4, <1>7, KindTypes, ClientAssumption
    <2>2. \A i \in 1..call.read : log[q][i].kind # "RUN_FINISHED"
      BY <1>1, <2>1, KindTypes DEF Recorded, Base, TypeOK
    <2>3. SaidUpTo(q, "RUN_FINISHED", call.read) = {}
      BY <2>2 DEF SaidUpTo
    <2>4. /\ SaidUpTo(q, "RUN_FINISHED", n) = e.asks
          /\ SaidUpTo(q, "TOOL_CALL_START", n) = call.announced
          /\ SaidUpTo(q, "TOOL_CALL_RESULT", n) = call.answered
      BY <1>5, <1>6, <1>7, <2>3
    <2>5. \A kind : Said(q, kind) = SaidUpTo(q, kind, n)
      BY <2>1 DEF Said, SaidUpTo
    <2>6. log[q][Len(log[q])].kind = "RUN_FINISHED"
      BY <1>7, <2>1
    <2>7. OpenAsks(q) = (Said(q, "TOOL_CALL_START") \ Said(q, "TOOL_CALL_RESULT"))
                          \cup Said(q, "RUN_FINISHED")
      BY <2>1, <2>6 DEF OpenAsks
    <2>8. QED
      BY <2>4, <2>5, <2>7 DEF Outstanding
  <1>8. e.kind = "RUN_ERROR" => OpenAsks(q) = {} /\ n = Len(log[q]) /\ Ended(q)
    BY <1>1, <1>4, KindTypes DEF OpenAsks
  <1>9. /\ call'.at = "streaming" /\ call'.run = q /\ call'.read = n
        /\ last_run_id' = q
        /\ call'.announced = SaidUpTo(q, "TOOL_CALL_START", n)
        /\ call'.answered = SaidUpTo(q, "TOOL_CALL_RESULT", n)
        /\ last_outstanding_asks' = IF Ended(q) /\ n = Len(log[q]) THEN OpenAsks(q) ELSE {}
    <2>1. CASE e.kind = "RUN_STARTED" /\ ReadStarted
      <3>1. ~(Ended(q) /\ n = Len(log[q]))
        BY <1>4, <2>1, KindTypes
      <3>2. call' = [call EXCEPT !.read = call.read + 1]
        BY <2>1 DEF ReadStarted
      <3>3. QED
        BY <1>1, <1>3, <1>5, <1>6, <2>1, <3>1, <3>2 DEF ReadStarted, CallTypes
    <2>2. CASE e \in ToolEvents /\ ReadTool(e)
      <3>1. /\ ~(Ended(q) /\ n = Len(log[q])) /\ call.read > 0
            /\ e.kind \in {"TOOL_CALL_START", "TOOL_CALL_RESULT"}
        BY <1>1, <1>4, <2>2, KindTypes
      <3>2. /\ call'.at = "streaming" /\ call'.run = q /\ call'.read = n
            /\ call'.announced = IF e.kind = "TOOL_CALL_START" THEN call.announced \cup e.asks
                                                              ELSE call.announced
            /\ call'.answered = IF e.kind = "TOOL_CALL_RESULT" THEN call.answered \cup e.asks
                                                              ELSE call.answered
        BY <1>1, <1>3, <2>2 DEF ReadTool, CallTypes
      <3>3. last_run_id' = q /\ last_outstanding_asks' = {}
        BY <1>5, <2>2, <3>1 DEF ReadTool, clientVars
      <3>4. QED
        BY <1>5, <1>6, <3>1, <3>2, <3>3
    <2>3. CASE e.kind = "RUN_FINISHED" /\ ReadFinished(e)
      <3>1. Ended(q) /\ n = Len(log[q]) /\ call.read > 0
        BY <1>1, <1>4, <2>3, KindTypes
      <3>2. call' = [call EXCEPT !.read = call.read + 1]
        BY <2>3 DEF ReadFinished
      <3>3. last_run_id' = q /\ last_outstanding_asks' = OpenAsks(q)
        BY <1>5, <1>7, <2>3, <3>1 DEF ReadFinished
      <3>4. QED
        BY <1>1, <1>3, <1>5, <1>6, <2>3, <3>1, <3>2, <3>3 DEF CallTypes
    <2>4. CASE e.kind = "RUN_ERROR" /\ ReadOther
      <3>1. call.read > 0
        BY <1>1, <1>4, <2>4
      <3>2. call' = [call EXCEPT !.read = call.read + 1]
        BY <2>4 DEF ReadOther
      <3>3. QED
        BY <1>1, <1>3, <1>5, <1>6, <1>8, <2>4, <3>1, <3>2 DEF ReadOther, clientVars, CallTypes
    <2>5. QED
      BY <1>1, <2>1, <2>2, <2>3, <2>4 DEF Read
  <1>10. /\ (root[call.run] # None)'
         /\ (call.read <= Len(log[call.run]))'
         /\ (last_run_id = call.run)'
    BY <1>1, <1>2, <1>5, <1>9
  <1>11. /\ (call.announced = SaidUpTo(call.run, "TOOL_CALL_START", call.read))'
         /\ (call.answered = SaidUpTo(call.run, "TOOL_CALL_RESULT", call.read))'
    BY <1>2, <1>9 DEF SaidUpTo
  <1>12. (last_outstanding_asks = IF Ended(call.run) /\ call.read = Len(log[call.run])
                                    THEN OpenAsks(call.run) ELSE {})'
    BY <1>2, <1>9 DEF Ended, OpenAsks, Said
  <1>13. QED
    BY <1>9, <1>10, <1>11, <1>12 DEF Followed

(* The record grows under the stream: what was read stays as it was. *)
LEMMA FollowedKept ==
  ASSUME Base, Recorded, Followed, [Next]_vars, call' = call, UNCHANGED clientVars
  PROVE  Followed'
  <1> DEFINE q == call.run
             n == call.read
  <1> SUFFICES ASSUME call.at = "streaming" PROVE Followed'
    BY DEF Followed
  <1>1. /\ q \in Runs /\ n \in Nat /\ root[q] # None /\ n <= Len(log[q])
        /\ n > 0 => last_run_id = q
        /\ last_outstanding_asks = IF Ended(q) /\ n = Len(log[q]) THEN OpenAsks(q) ELSE {}
    BY DEF Followed, Base, TypeOK, Placed
  <1>2. /\ root'[q] = root[q]
        /\ Len(log[q]) \in Nat /\ Len(log'[q]) \in Nat /\ Len(log[q]) <= Len(log'[q])
        /\ \A i \in 1..Len(log[q]) : log'[q][i] = log[q][i]
        /\ log'[q] = log[q] \/ Len(log[q]) < Len(log'[q])
        /\ Ended(q) => log'[q] = log[q]
    BY <1>1, RecordKept
  <1>3. last_outstanding_asks = {} \/ log'[q] = log[q]
    BY <1>1, <1>2
  <1>4. /\ (root[call.run] # None)'
        /\ (call.read <= Len(log[call.run]))'
        /\ (call.read > 0 => last_run_id = call.run)'
    BY <1>1, <1>2 DEF clientVars
  <1>5. \A i \in 1..n : log'[q][i] = log[q][i]
    BY <1>1, <1>2
  <1>6. /\ (call.announced = SaidUpTo(call.run, "TOOL_CALL_START", call.read))'
        /\ (call.answered = SaidUpTo(call.run, "TOOL_CALL_RESULT", call.read))'
    <2>1. ASSUME NEW kind
          PROVE  UNION {log'[q][i].asks : i \in {j \in 1..n : log'[q][j].kind = kind}} =
                 UNION {log[q][i].asks : i \in {j \in 1..n : log[q][j].kind = kind}}
      BY <1>5
    <2>2. /\ call.announced = SaidUpTo(q, "TOOL_CALL_START", n)
          /\ call.answered = SaidUpTo(q, "TOOL_CALL_RESULT", n)
      BY DEF Followed
    <2>3. /\ call.announced' = SaidUpTo(q, "TOOL_CALL_START", n)'
          /\ call.answered' = SaidUpTo(q, "TOOL_CALL_RESULT", n)'
      <3>1. /\ call.announced =
                 UNION {log'[q][i].asks : i \in {j \in 1..n : log'[q][j].kind = "TOOL_CALL_START"}}
            /\ call.answered =
                 UNION {log'[q][i].asks : i \in {j \in 1..n : log'[q][j].kind = "TOOL_CALL_RESULT"}}
        BY <2>1, <2>2 DEF SaidUpTo
      <3>2. QED
        BY <3>1 DEF SaidUpTo
    <2>4. QED
      BY <2>3
  <1>7. (last_outstanding_asks = IF Ended(call.run) /\ call.read = Len(log[call.run])
                                   THEN OpenAsks(call.run) ELSE {})'
    <2>1. CASE log'[q] = log[q]
      BY <1>1, <1>2, <2>1 DEF clientVars, Ended, OpenAsks, Said
    <2>2. CASE log'[q] # log[q]
      BY <1>1, <1>2, <1>3, <2>2 DEF clientVars
    <2>3. QED
      BY <2>1, <2>2
  <1>8. QED
    BY <1>4, <1>6, <1>7 DEF Followed

LEMMA FollowedNext ==
  ASSUME Base, Recorded, Followed, [Next]_vars
  PROVE  Followed'
  <1>1. ASSUME NEW t \in Threads, Call(t) PROVE Followed'
    BY <1>1 DEF Call, NoCall, Followed
  <1>2. ASSUME NEW r \in Runs, Accepted(r) PROVE Followed'
    <2>1. /\ call.at = "posting" /\ call.thread \in Threads
          /\ call.read = 0 /\ call.announced = {} /\ call.answered = {}
      BY <1>2 DEF Accepted, Base, Placed, Followed
    <2>2. root'[r] # None /\ log'[r] = <<Event("RUN_STARTED", {})>>
      BY <1>2, <2>1, OpenEffect DEF Accepted, Starts
    <2>3. /\ call'.at = "streaming" /\ call'.run = r
          /\ call'.read = 0 /\ call'.announced = {} /\ call'.answered = {}
          /\ last_outstanding_asks' = {}
      BY <1>2, <2>1 DEF Accepted, Connect, Base, TypeOK
    <2>4. Len(log'[r]) = 1
      BY <2>2
    <2>5. /\ (call.announced = SaidUpTo(call.run, "TOOL_CALL_START", call.read))'
          /\ (call.answered = SaidUpTo(call.run, "TOOL_CALL_RESULT", call.read))'
      BY <2>3 DEF SaidUpTo
    <2>6. /\ (root[call.run] # None)'
          /\ (call.read <= Len(log[call.run]))'
          /\ (~(call.read > 0))'
          /\ (call.read # Len(log[call.run]))'
      <3>1. root'[call'.run] # None /\ Len(log'[call'.run]) = 1 /\ call'.read = 0
        BY <2>2, <2>3, <2>4
      <3>2. QED
        BY <3>1
    <2>7. (last_outstanding_asks = IF Ended(call.run) /\ call.read = Len(log[call.run])
                                     THEN OpenAsks(call.run) ELSE {})'
      BY <2>3, <2>6
    <2>8. QED
      BY <2>3, <2>5, <2>6, <2>7 DEF Followed
  <1>3. CASE call' = NoCall
    BY <1>3 DEF NoCall, Followed
  <1>4. ASSUME NEW r \in Runs, NEW e \in Events, Report(r, e) PROVE Followed'
    BY <1>4, FollowedKept DEF Report
  <1>5. CASE UNCHANGED vars
    BY <1>5, FollowedKept DEF vars
  <1>6. QED
    BY <1>1, <1>2, <1>3, <1>4, <1>5, FollowedRead, Cases DEF Lost, Refused, Unreachable, StreamEnds, Cut

(* The asks reported, while the stream goes on and after it. *)
LEMMA ReportedNext ==
  ASSUME Base, Recorded, Followed, Reported, [Next]_vars
  PROVE  Reported'
  <1> SUFFICES ASSUME last_outstanding_asks' # {}
               PROVE  /\ last_run_id' \in Runs /\ Ended(last_run_id)'
                      /\ last_outstanding_asks' = OpenAsks(last_run_id)'
    BY DEF Reported
  <1>1. CASE UNCHANGED <<last_run_id, last_outstanding_asks>>
    <2> DEFINE r == last_run_id
    <2>1. r \in Runs /\ Ended(r) /\ last_outstanding_asks = OpenAsks(r)
      BY <1>1 DEF Reported
    <2>2. root[r] # None
      BY <2>1 DEF Recorded, Ended
    <2>3. log'[r] = log[r]
      BY <2>1, <2>2, RecordKept
    <2>4. QED
      BY <1>1, <2>1, <2>3 DEF Ended, OpenAsks, Said
  <1>2. CASE Read
    <2>1. Followed' /\ UNCHANGED <<root, log, latest>>
      BY <1>2, FollowedRead DEF Read, coreVars
    <2>2. call'.at = "streaming"
      BY <1>2, ReadEvent DEF Read, ReadStarted, ReadTool, ReadFinished, ReadOther, Base, TypeOK
    <2>3. (last_outstanding_asks = IF Ended(call.run) /\ call.read = Len(log[call.run])
                                     THEN OpenAsks(call.run) ELSE {})'
      BY <2>1, <2>2 DEF Followed
    <2>4. /\ (Ended(call.run) /\ call.read = Len(log[call.run]))'
          /\ (last_outstanding_asks = OpenAsks(call.run))'
      BY <2>3
    <2>5. call'.run \in Runs /\ log'[call'.run] \in Seq(Events)
      BY <1>2, <2>2, BaseNext DEF Base, TypeOK, Placed
    <2>6. (call.read > 0)'
      BY <2>4, <2>5 DEF Ended
    <2>7. (last_run_id = call.run)'
      BY <2>1, <2>2, <2>6 DEF Followed
    <2>8. QED
      BY <2>4, <2>5, <2>7 DEF Ended, OpenAsks, Said
  <1>3. CASE ~Read
    <2>1. \/ UNCHANGED <<last_run_id, last_outstanding_asks>>
          \/ last_outstanding_asks' = {}
      BY <1>3, Cases DEF Call, Accepted, Lost, Report, Refused, Connect, Unreachable, StreamEnds,
         Cut, clientVars, vars
    <2>2. QED
      BY <1>1, <2>1
  <1>4. QED
    BY <1>2, <1>3

LEMMA AsksNext == Base /\ AsksInv /\ [Next]_vars => Base' /\ AsksInv'
  BY BaseNext, RecordedNext, FollowedNext, ReportedNext DEF AsksInv

LEMMA AsksInit == Init => AsksInv
  BY DEF Init, AsksInv, Recorded, Followed, Reported, NoCall

(***************************************************************************)
(* Whatever the calls met, the asks a client reports between two of them   *)
(* are all the asks of the run it names, and of no other: what core would  *)
(* compute from that run's record.                                         *)
(***************************************************************************)
THEOREM AsksAreTrue == Spec => []AsksAreTheLastRuns
  <1>1. AsksInv => AsksAreTheLastRuns
    BY DEF AsksInv, Reported, AsksAreTheLastRuns, SaysWaiting
  <1>2. QED
    BY <1>1, BaseInit, AsksInit, AsksNext, PTL DEF Spec

-----------------------------------------------------------------------------
(***************************************************************************)
(* The task a client signs, while it was told everything.  Between calls   *)
(* no thread's latest run is active, and one waits only if the client says *)
(* so; while a run streams the carried task is the lineage it joined.      *)
(***************************************************************************)
Quiet(t) == ~Active(latest[t]) /\ OpenAsks(latest[t]) = {}

(* Nothing is open but what the client was told of, which is the latest run *)
(* of the conversation it was last in.                                      *)
Between ==
  /\ \A t \in Threads : ~Active(latest[t])
  /\ \A t \in Threads : OpenAsks(latest[t]) # {} => t = last_thread_id /\ last_outstanding_asks # {}
  /\ last_outstanding_asks # {} =>
       /\ last_thread_id \in Threads
       /\ latest[last_thread_id] = last_run_id
       /\ last_task_id = root[last_run_id]
  /\ call.at = "posting" =>
       /\ call.continues = Continues(call.thread)
       /\ \A u \in Threads \ {call.thread} : Quiet(u)

(* While it streams: what it carries over is the lineage it answered. *)
During ==
  /\ last_thread_id = call.thread
  /\ latest[call.thread] = call.run
  /\ \A u \in Threads \ {call.thread} : Quiet(u)
  /\ IF call.read = 0
     THEN root[call.run] = IF call.continues THEN last_task_id ELSE call.run
     ELSE last_task_id = root[call.run]

TaskInv == knows = "all" => IF call.at = "streaming" THEN During ELSE Between

(* A latest run that is over stays over, and what it left open stays so. *)
LEMMA QuietStays ==
  ASSUME Base, Recorded, [Next]_vars, NEW t \in Threads, ~Active(latest[t]), latest'[t] = latest[t]
  PROVE  /\ (~Active(latest[t]))'
         /\ (OpenAsks(latest[t]))' = OpenAsks(latest[t])
         /\ latest[t] # None => /\ root[latest[t]] # None
                                /\ root'[latest[t]] = root[latest[t]]
  <1>1. CASE latest[t] = None
    BY <1>1 DEF Active, OpenAsks
  <1>2. CASE latest[t] # None
    <2>1. Ended(latest[t]) /\ latest[t] \in Runs
      BY <1>2 DEF Active, Base, TypeOK
    <2>2. root[latest[t]] # None
      BY <2>1 DEF Ended, Recorded
    <2>3. root'[latest[t]] = root[latest[t]] /\ log'[latest[t]] = log[latest[t]]
      BY <2>1, <2>2, RecordKept
    <2>4. QED
      BY <1>2, <2>1, <2>2, <2>3 DEF Active, Ended, OpenAsks, Said
  <1>3. QED
    BY <1>1, <1>2

LEMMA KnewAll ==
  ASSUME [Next]_vars, knows' = "all"
  PROVE  knows = "all"
  BY Cases DEF Disturbed, Call, Accepted, Lost, Report, Refused, Unreachable, Read, StreamEnds, Cut, vars

(* Between two calls nothing of the client or of the latest runs moves. *)
LEMMA BetweenKept ==
  ASSUME Base, Recorded, Reported, Between, [Next]_vars, UNCHANGED <<clientVars, latest>>,
         call'.at = "posting" =>
           /\ call'.continues = Continues(call'.thread)
           /\ \A u \in Threads \ {call'.thread} : OpenAsks(latest[u]) = {}
  PROVE  Between'
  <1>1. ASSUME NEW t \in Threads
        PROVE  /\ (~Active(latest[t]))'
               /\ (OpenAsks(latest[t]))' = OpenAsks(latest[t])
               /\ latest[t] # None => root'[latest[t]] = root[latest[t]]
    BY QuietStays DEF Between
  <1>2. /\ (\A t \in Threads : ~Active(latest[t]))'
        /\ (\A t \in Threads : OpenAsks(latest[t]) # {} =>
                t = last_thread_id /\ last_outstanding_asks # {})'
    BY <1>1 DEF Between, clientVars
  <1>3. ASSUME last_outstanding_asks' # {}
        PROVE  /\ last_thread_id' \in Threads
               /\ latest'[last_thread_id'] = last_run_id'
               /\ last_task_id' = root'[last_run_id']
    <2>1. /\ last_outstanding_asks # {} /\ last_thread_id \in Threads
          /\ latest[last_thread_id] = last_run_id /\ last_task_id = root[last_run_id]
      BY <1>3 DEF Between, clientVars
    <2>2. last_run_id # None
      BY <1>3, <2>1, ClientAssumption DEF Reported
    <2>3. root'[last_run_id] = root[last_run_id]
      BY <1>1, <2>1, <2>2
    <2>4. QED
      BY <2>1, <2>3 DEF clientVars
  <1>4. (call.at = "posting" =>
          /\ call.continues = Continues(call.thread)
          /\ \A u \in Threads \ {call.thread} : Quiet(u))'
    <2> SUFFICES ASSUME call'.at = "posting"
                 PROVE  /\ call'.continues = Continues(call.thread)'
                        /\ \A u \in Threads \ {call'.thread} : Quiet(u)'
      OBVIOUS
    <2>1. /\ call'.continues = Continues(call'.thread)
          /\ \A u \in Threads \ {call'.thread} : OpenAsks(latest[u]) = {}
      OBVIOUS
    <2>3. call'.continues = Continues(call.thread)'
      BY <2>1 DEF Continues, clientVars
    <2>4. ASSUME NEW u \in Threads \ {call'.thread} PROVE Quiet(u)'
      BY <1>1, <2>1, <2>4 DEF Quiet
    <2>5. QED
      BY <2>3, <2>4
  <1>5. QED
    BY <1>2, <1>3, <1>4 DEF Between

LEMMA TaskBetween ==
  ASSUME Base, AsksInv, Between, [Next]_vars, call.at # "streaming", knows = "all", knows' = "all"
  PROVE  IF call'.at = "streaming" THEN During' ELSE Between'
  <1> USE DEF AsksInv
  <1>0. call \in CallTypes
    BY DEF Base, TypeOK, CallTypes
  <1>1. ASSUME NEW t \in Threads, Call(t) PROVE call'.at # "streaming" /\ Between'
    <2>1. Stays(t)
      BY <1>1 DEF Call, Disturbed
    <2>2. call'.at = "posting" /\ call'.thread = t /\ call'.continues = Continues(t)
      BY <1>1 DEF Call, NoCall
    <2>3. UNCHANGED <<clientVars, latest>>
      BY <1>1 DEF Call, coreVars
    <2>4. \A u \in Threads \ {call'.thread} : OpenAsks(latest[u]) = {}
      BY <2>1, <2>2 DEF Stays
    <2>5. QED
      BY <2>2, <2>3, <2>4, BetweenKept
  <1>2. ASSUME NEW r \in Runs, Accepted(r) PROVE call'.at = "streaming" /\ During'
    <2> DEFINE t == call.thread
    <2>1. /\ call.at = "posting" /\ t \in Threads /\ call.read = 0
          /\ call.continues = Continues(t)
          /\ \A u \in Threads \ {t} : Quiet(u)
      BY <1>2 DEF Accepted, Base, Placed, Between, Followed
    <2>2. /\ call'.at = "streaming" /\ call'.run = r /\ call'.thread = t
          /\ call'.read = 0 /\ call'.continues = call.continues
          /\ last_thread_id' = t /\ last_task_id' = last_task_id
      BY <1>0, <1>2, <2>1 DEF Accepted, Connect, CallTypes
    <2>3. /\ latest' = [latest EXCEPT ![t] = r]
          /\ root'[r] = IF OpenAsks(latest[t]) # {} THEN root[latest[t]] ELSE r
      BY <1>2 DEF Accepted, Open, Base, TypeOK
    <2>4. call.continues => OpenAsks(latest[t]) # {} /\ last_task_id = root[latest[t]]
      BY <2>1 DEF Continues, Between, Reported
    <2>5. ~call.continues => OpenAsks(latest[t]) = {}
      BY <2>1 DEF Continues, Between
    <2>6. root'[r] = IF call.continues THEN last_task_id ELSE r
      BY <2>3, <2>4, <2>5
    <2>7. latest'[t] = r /\ \A u \in Threads \ {t} : latest'[u] = latest[u]
      BY <2>1, <2>3 DEF Base, TypeOK
    <2>8. ASSUME NEW u \in Threads \ {t} PROVE Quiet(u)'
      BY <2>1, <2>7, QuietStays DEF Quiet
    <2>9. /\ (last_thread_id = call.thread)'
          /\ (latest[call.thread] = call.run)'
          /\ (\A u \in Threads \ {call.thread} : Quiet(u))'
          /\ (root[call.run] = IF call.continues THEN last_task_id ELSE call.run)'
      BY <2>2, <2>6, <2>7, <2>8
    <2>10. QED
      BY <2>2, <2>9 DEF During
  <1>3. ASSUME NEW r \in Runs, NEW e \in Events, Report(r, e)
        PROVE  call'.at # "streaming" /\ Between'
    <2>1. call' = call /\ UNCHANGED <<clientVars, latest>>
      BY <1>3 DEF Report
    <2>2. QED
      BY <2>1, BetweenKept DEF Between, Quiet
  <1>4. CASE Unreachable \/ UNCHANGED vars
    <2>1. (call' = call \/ call'.at = "idle") /\ UNCHANGED <<clientVars, latest>>
      BY <1>4, NoCallType DEF Unreachable, vars, coreVars
    <2>2. QED
      BY <2>1, BetweenKept DEF Between, Quiet
  <1>5. ~Refused
    BY DEF Refused, Disturbed, Between, Base, Placed
  <1>6. \A r \in Runs : ~Lost(r)
    BY DEF Lost, Disturbed
  <1>7. ~Read /\ ~StreamEnds /\ ~Cut
    BY DEF Read, StreamEnds, Cut
  <1>8. QED
    BY <1>1, <1>2, <1>3, <1>4, <1>5, <1>6, <1>7, Cases

LEMMA TaskDuring ==
  ASSUME Base, AsksInv, During, [Next]_vars, call.at = "streaming", knows = "all", knows' = "all"
  PROVE  IF call'.at = "streaming" THEN During' ELSE Between'
  <1> USE DEF AsksInv
  <1> DEFINE t == call.thread
  <1>0. /\ call \in CallTypes /\ t \in Threads /\ call.run \in Runs /\ root[call.run] # None
        /\ root'[call.run] = root[call.run]
    <2>1. call \in CallTypes /\ t \in Threads /\ call.run \in Runs /\ root[call.run] # None
      BY DEF Base, TypeOK, Placed, CallTypes, Followed
    <2>2. QED
      BY <2>1, RecordKept
  <1>1. ASSUME latest' = latest, NEW u \in Threads \ {t} PROVE Quiet(u)'
    BY <1>1, QuietStays DEF During, Quiet
  <1>2. ASSUME NEW r \in Runs, NEW e \in Events, Report(r, e) PROVE call'.at = "streaming" /\ During'
    <2>1. call' = call /\ UNCHANGED <<clientVars, latest>>
      BY <1>2 DEF Report
    <2>2. QED
      BY <1>0, <1>1, <2>1 DEF During, clientVars
  <1>3. CASE UNCHANGED vars
    BY <1>0, <1>1, <1>3 DEF vars, clientVars, coreVars, During
  <1>4. CASE Read
    <2>1. /\ call'.at = "streaming" /\ call'.thread = t /\ call'.run = call.run
          /\ call'.read = call.read + 1 /\ call'.continues = call.continues
          /\ latest' = latest /\ root' = root
      BY <1>0, <1>4 DEF Read, ReadStarted, ReadTool, ReadFinished, ReadOther, CallTypes, coreVars
    <2>2. last_thread_id' = t
      BY <1>4 DEF Read, ReadStarted, ReadTool, ReadFinished, ReadOther, During, clientVars
    <2>3. last_task_id' = root[call.run]
      <3>1. call.read \in Nat /\ (call.read = 0 <=> NextEvent(call.run).kind = "RUN_STARTED")
        BY <1>4, ReadEvent DEF NextEvent, Recorded, Base, TypeOK
      <3>2. CASE ReadStarted /\ NextEvent(call.run).kind = "RUN_STARTED"
        BY <3>1, <3>2 DEF ReadStarted, During
      <3>3. CASE last_task_id' = last_task_id /\ NextEvent(call.run).kind # "RUN_STARTED"
        BY <3>1, <3>3 DEF During
      <3>4. QED
        BY <1>4, <3>2, <3>3, KindTypes DEF Read, ReadTool, ReadFinished, ReadOther, clientVars
    <2>4. QED
      BY <1>0, <1>1, <2>1, <2>2, <2>3 DEF During, CallTypes
  <1>5. CASE StreamEnds
    <2>1. /\ call' = NoCall /\ UNCHANGED <<clientVars, coreVars>>
          /\ Ended(call.run) /\ call.read = Len(log[call.run])
      BY <1>5 DEF StreamEnds
    <2>2. call.read > 0
      BY <1>0, <2>1 DEF Ended, Base, TypeOK
    <2>3. /\ last_thread_id = t /\ latest[t] = call.run /\ last_run_id = call.run
          /\ last_outstanding_asks = OpenAsks(call.run) /\ last_task_id = root[call.run]
          /\ \A u \in Threads \ {t} : Quiet(u)
      BY <2>1, <2>2 DEF Followed, During
    <2>4. Between
      <3>1. \A u \in Threads : ~Active(latest[u])
        BY <2>1, <2>3 DEF Quiet, Active
      <3>2. \A u \in Threads : OpenAsks(latest[u]) # {} =>
              u = last_thread_id /\ last_outstanding_asks # {}
        BY <2>3 DEF Quiet
      <3>3. QED
        BY <1>0, <2>3, <3>1, <3>2 DEF Between
    <2>5. call'.at = "idle" /\ UNCHANGED latest
      BY <2>1, NoCallType DEF coreVars
    <2>6. QED
      BY <2>1, <2>4, <2>5, BetweenKept
  <1>6. ~Cut /\ ~Refused /\ ~Unreachable
    BY DEF Cut, Disturbed, Refused, Unreachable
  <1>7. /\ \A u \in Threads : ~Call(u)
        /\ \A r \in Runs : ~Accepted(r) /\ ~Lost(r)
    BY NoCallType DEF Call, Accepted, Lost
  <1>8. QED
    BY <1>2, <1>3, <1>4, <1>5, <1>6, <1>7, Cases

LEMMA TaskNext == Base /\ AsksInv /\ TaskInv /\ [Next]_vars => TaskInv'
  BY KnewAll, TaskBetween, TaskDuring DEF TaskInv

LEMMA TaskInit == Init => TaskInv
  BY NoCallType DEF Init, TaskInv, Between, Active, OpenAsks, NoCall

(***************************************************************************)
(* At any depth of pauses, the proof of a client that was told everything  *)
(* is over the task core holds for the run that waits: last_task_id is the *)
(* first run of that run's lineage.                                        *)
(***************************************************************************)
THEOREM TheProofVerifies == Spec => []ProofVerifies
  <1>1. Base /\ AsksInv /\ TaskInv => ProofVerifies
    BY NoCallType DEF AsksInv, Reported, TaskInv, Between, ProofVerifies, SignsTheTask, SaysWaiting
  <1>2. QED
    BY <1>1, BaseInit, BaseNext, AsksInit, AsksNext, TaskInit, TaskNext, PTL DEF Spec
=============================================================================
