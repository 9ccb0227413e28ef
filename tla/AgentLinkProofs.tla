--------------------------- MODULE AgentLinkProofs ---------------------------
(***************************************************************************)
(* Proofs about AgentLink: no agent waits for a socket that is gone or is  *)
(* given the answer to another question, nothing comes between a register  *)
(* and its answer, and with the gateway the link implements RunContract.   *)
(***************************************************************************)
EXTENDS AgentLink, SequenceTheorems, TLAPS

(* One step, unfolded to the actions. *)
LEMMA LinkCases ==
  ASSUME Next
  PROVE  \/ GatewayNext /\ UNCHANGED <<agentVars, answering>>
         \/ Dial \/ Welcomed \/ Registered \/ CeremonyFails \/ ConnectionEnds
         \/ Write \/ WriterFails \/ TurnDown \/ TakeCancel \/ TakeError \/ TakeResult
         \/ \E x \in Executions :
              TakeRun(x) \/ Report(x) \/ Finish(x) \/ Ask(x) \/ QueryTimeout(x)
         \/ \E c \in Connections : ReadQuery(c) \/ WireBreaks(c)
         \/ \E t \in answering : AnswerQuery(t)
  BY DEF Next, Elsewhere, LoopStep, AgentStep

-----------------------------------------------------------------------------
(***************************************************************************)
(* Where the loop is, and whom the questions were asked of: one that was   *)
(* asked of a connection was asked of this one, while it serves.           *)
(***************************************************************************)
Whereabouts ==
  /\ at \in {"waiting", "welcome", "registered", "serving"}
  /\ link \in Connections \cup {None}
  /\ link = None <=> at = "waiting"

Questions ==
  /\ asks \in Nat
  /\ pending \in [Executions -> [n : Nat, on : Connections \cup {None}]]
  /\ \A x \in Executions : pending[x].on # None => pending[x].on = link /\ at = "serving"

QueryInv == Whereabouts /\ Questions

LEMMA NoQuestionType ==
  NoQuestion \in [n : Nat, on : Connections \cup {None}] /\ NoQuestion.on = None
  BY DEF NoQuestion

LEMMA QueryInit == Init => QueryInv
  BY NoQuestionType DEF Init, QueryInv, Whereabouts, Questions

(* Some questions are over, none is new, and the link is where it was. *)
LEMMA QuestionsEnd ==
  ASSUME QueryInv, UNCHANGED <<at, link, asks>>, NEW S,
         pending' = [x \in Executions |-> IF x \in S THEN NoQuestion ELSE pending[x]]
  PROVE  QueryInv'
  BY NoQuestionType DEF QueryInv, Whereabouts, Questions

LEMMA QueryNext == QueryInv /\ [Next]_vars => QueryInv'
  <1> SUFFICES ASSUME QueryInv, [Next]_vars PROVE QueryInv'
    OBVIOUS
  <1> USE DEF QueryInv, Whereabouts, Questions
  <1>1. CASE UNCHANGED <<at, link, asks, pending>>
    BY <1>1
  <1>2. CASE Dial
    <2>1. link' \in Connections /\ at = "waiting" /\ at' = "welcome"
      BY <1>2 DEF Dial, Fresh
    <2>2. UNCHANGED <<pending, asks>> /\ link' # None
      BY <1>2, <2>1, RelayAssumption DEF Dial
    <2>3. QED
      BY <2>1, <2>2
  <1>3. CASE Welcomed \/ Registered \/ CeremonyFails
    BY <1>3 DEF Welcomed, Registered, CeremonyFails, LinkEnds
  <1>4. CASE ConnectionEnds
    BY <1>4, NoQuestionType DEF ConnectionEnds, LinkEnds, FailPendingQueries
  <1>5. ASSUME NEW x \in Executions, UNCHANGED <<at, link, asks>>,
               pending' = [pending EXCEPT ![x] = NoQuestion]
        PROVE  QueryInv'
    BY <1>5, NoQuestionType
  <1>6. CASE TakeResult
    <2>1. UNCHANGED <<at, link, asks>>
      BY <1>6 DEF TakeResult
    <2>2. PICK q, n : pending' = IF pending[q].n = n THEN [pending EXCEPT ![q] = NoQuestion] ELSE pending
      BY <1>6 DEF TakeResult, Resolve
    <2>3. pending' = pending \/ pending' = [pending EXCEPT ![q] = NoQuestion]
      BY <2>2
    <2>4. QED
      BY <2>1, <2>3, NoQuestionType
  <1>7. CASE TakeCancel
    BY <1>7, QuestionsEnd DEF TakeCancel
  <1>8. ASSUME NEW x \in Executions, Ask(x) PROVE QueryInv'
    <2>1. [n |-> asks + 1, on |-> IF at = "serving" THEN link ELSE None]
            \in [n : Nat, on : Connections \cup {None}]
      OBVIOUS
    <2>2. QED
      BY <1>8, <2>1 DEF Ask
  <1>9. ASSUME NEW x \in Executions, QueryTimeout(x) PROVE QueryInv'
    BY <1>5, <1>9 DEF QueryTimeout
  <1>10. CASE \/ Write \/ WriterFails \/ TurnDown \/ TakeError
              \/ \E x \in Executions : TakeRun(x) \/ Report(x) \/ Finish(x)
    BY <1>1, <1>10 DEF Write, WriterFails, TurnDown, TakeError, TakeRun, Report, Finish, agentVars
  <1>11. CASE \/ GatewayNext /\ UNCHANGED <<agentVars, answering>>
              \/ \E c \in Connections : ReadQuery(c) \/ WireBreaks(c)
              \/ \E t \in answering : AnswerQuery(t)
              \/ UNCHANGED vars
    BY <1>1, <1>11 DEF ReadQuery, WireBreaks, AnswerQuery, agentVars, vars, linkVars
  <1>12. QED
    BY <1>2, <1>3, <1>4, <1>6, <1>7, <1>8, <1>9, <1>10, <1>11, LinkCases

(***************************************************************************)
(* No agent waits for the answer of a socket that is gone: a question that *)
(* was asked of a connection was asked of the one the link is on.          *)
(***************************************************************************)
THEOREM QueriesDieWithTheirSocket == Spec => []NoQueryWaitsOnADeadSocket
  <1>1. QueryInv => NoQueryWaitsOnADeadSocket
    BY DEF QueryInv, Questions, NoQueryWaitsOnADeadSocket
  <1>2. QED
    BY <1>1, QueryInit, QueryNext, PTL DEF Spec

-----------------------------------------------------------------------------
(***************************************************************************)
(* Type correctness.  Frames carry what the link and the gateway put in.   *)
(***************************************************************************)
Verdicts == [verdict : {"accepted", "declined", "refused"}, who : Executions \cup {None}]
Tellings == [who : Executions, nth : Nat]
Bodies == {None} \cup Verdicts \cup Tellings
FrameTypes == {"hello", "register", "ack", "event", "finish", "query",
               "welcome", "registered", "error", "run", "cancel", "queryResult"}
Frames == {f \in [type : FrameTypes, run : Runs \cup {None}, body : Bodies] :
             f.type \in {"query", "queryResult"} => f.body \in Tellings}

WireTypes ==
  /\ wire \in [Connections -> {"none", "up", "broken"}]
  /\ phase \in [Connections -> {"new", "attached", "closed"}]
  /\ up \in [Connections -> Seq(Frames)]
  /\ down \in [Connections -> Seq(Frames)]
  /\ attached \in Connections \cup {None}
  /\ DOMAIN status = Runs
  /\ attached = None => ~serving

ExecRecords ==
  [run : Runs \cup {None}, stage : {"free", "working", "ending", "done"}, told : 0..Story]

LoopTypes ==
  /\ outbound \in Seq(Frames)
  /\ writer \in {"off", "running", "dead"}
  /\ writer # "off" => at = "serving"
  /\ exec \in [Executions -> ExecRecords]
  /\ asks \in 0..MaxQueries
  /\ \A x \in Executions : pending[x].n <= asks
  /\ answering \subseteq [on : Connections, question : Tellings]

Types == WireTypes /\ LoopTypes

LEMMA ExecType ==
  ASSUME NEW r \in Runs \cup {None}, NEW s \in {"free", "working", "ending", "done"},
         NEW n \in 0..Story
  PROVE  [run |-> r, stage |-> s, told |-> n] \in ExecRecords
  BY DEF ExecRecords

LEMMA IdleType ==
  /\ Idle \in ExecRecords
  /\ \A r \in Runs \cup {None} : [run |-> r, stage |-> "working", told |-> 0] \in ExecRecords
  <1>1. 0 \in 0..Story
    BY AgentAssumption
  <1>2. Idle \in ExecRecords
    BY <1>1, ExecType DEF Idle
  <1>3. ASSUME NEW r \in Runs \cup {None}
        PROVE  [run |-> r, stage |-> "working", told |-> 0] \in ExecRecords
    BY <1>1, ExecType
  <1>4. QED
    BY <1>2, <1>3

LEMMA NoteType ==
  /\ Note("hello") \in Frames /\ Note("register") \in Frames
  /\ Note("welcome") \in Frames /\ Note("registered") \in Frames /\ Note("error") \in Frames
  BY DEF Note, Frame, Frames, FrameTypes, Bodies

LEMMA HeadTail ==
  ASSUME NEW S, NEW s \in Seq(S), s # <<>>
  PROVE  Head(s) \in S /\ Tail(s) \in Seq(S)
  OBVIOUS

LEMMA PostType ==
  ASSUME WireTypes, NEW c, NEW f \in Frames, Post(c, f)
  PROVE  down' \in [Connections -> Seq(Frames)]
  <1>1. CASE c \in Connections
    BY <1>1 DEF Post, WireTypes
  <1>2. CASE c \notin Connections
    <2>1. [down EXCEPT ![c] = Append(@, f)] = down
      BY <1>2 DEF WireTypes
    <2>2. QED
      BY <2>1 DEF Post, WireTypes
  <1>3. QED
    BY <1>1, <1>2

LEMMA GatewayTypes ==
  ASSUME WireTypes, GatewayNext
  PROVE  WireTypes'
  <1> USE DEF WireTypes
  <1>0. None \notin Connections
    BY RelayAssumption
  <1>1. ASSUME NEW r \in Runs, StartRun(r) \/ TakeBack(r) PROVE WireTypes'
    BY <1>1 DEF StartRun, TakeBack
  <1>2. ASSUME NEW r \in Runs, Offer(r) \/ CancelRun(r) PROVE WireTypes'
    <2>1. Frame("run", r, None) \in Frames /\ Frame("cancel", r, None) \in Frames
      BY DEF Frame, Frames, FrameTypes, Bodies
    <2>2. down' \in [Connections -> Seq(Frames)]
      BY <1>2, <2>1, PostType DEF Offer, CancelRun
    <2>3. QED
      BY <1>2, <2>2 DEF Offer, CancelRun
  <1>3. ASSUME NEW c \in Connections, RefuseHello(c) \/ Disconnect(c) PROVE WireTypes'
    <2>1. <<>> \in Seq(Frames)
      OBVIOUS
    <2>2. QED
      BY <1>3, <2>1 DEF RefuseHello, Disconnect, LinkGone, runVars
  <1>4. ASSUME NEW c \in Connections, Read(c) PROVE WireTypes'
    <2>1. up[c] # <<>> /\ up' = [up EXCEPT ![c] = Tail(@)] /\ UNCHANGED wire
      BY <1>4 DEF Read, Reading, Handle
    <2>2. Head(up[c]) \in Frames /\ up' \in [Connections -> Seq(Frames)]
      BY <2>1, HeadTail
    <2> DEFINE f == Head(up[c])
    <2>3. CASE Attach(c)
      <3>1. down' \in [Connections -> Seq(Frames)]
        BY <2>3, NoteType, PostType DEF Attach
      <3>2. DOMAIN status' = Runs
        BY <2>3 DEF Attach, LinkGone
      <3>3. QED
        BY <1>0, <2>1, <2>2, <2>3, <3>1, <3>2 DEF Attach
    <2>4. CASE Register(c)
      <3>1. down' \in [Connections -> Seq(Frames)]
        <4>1. Note(IF attached = c THEN "registered" ELSE "error") \in Frames
          BY NoteType
        <4>2. QED
          BY <2>4, <4>1, PostType DEF Register
      <3>2. QED
        BY <1>0, <2>1, <2>2, <2>4, <3>1 DEF Register, runVars
    <2>5. CASE ReadAck(c, f)
      BY <2>1, <2>2, <2>5 DEF ReadAck, AnswerOffer, runVars
    <2>6. CASE ReadReport(c, f)
      <3>1. Frame("error", f.run, None) \in Frames
        BY <2>2 DEF Frame, Frames, FrameTypes, Bodies
      <3>2. down' \in [Connections -> Seq(Frames)]
        BY <2>6, <3>1, PostType DEF ReadReport
      <3>3. DOMAIN status' = Runs
        BY <2>6 DEF ReadReport, ReportEvent, FinishRun
      <3>4. QED
        BY <2>1, <2>2, <2>6, <3>2, <3>3 DEF ReadReport
    <2>7. QED
      BY <1>4, <2>3, <2>4, <2>5, <2>6 DEF Read, Handle
  <1>5. QED
    BY <1>1, <1>2, <1>3, <1>4 DEF GatewayNext

LEMMA SendType ==
  ASSUME WireTypes, NEW f \in Frames, Send(f)
  PROVE  up' \in [Connections -> Seq(Frames)]
  <1>1. CASE link \in Connections
    BY <1>1 DEF Send, WireTypes
  <1>2. CASE link \notin Connections
    <2>1. [up EXCEPT ![link] = Append(@, f)] = up
      BY <1>2 DEF WireTypes
    <2>2. QED
      BY <2>1 DEF Send, WireTypes
  <1>3. QED
    BY <1>1, <1>2

LEMMA TookType ==
  ASSUME WireTypes, Whereabouts, Heard, Took
  PROVE  down' \in [Connections -> Seq(Frames)] /\ Head(down[link]) \in Frames
  BY HeadTail DEF Heard, Took, WireTypes, Whereabouts

LEMMA SayType ==
  ASSUME LoopTypes, NEW f \in Frames, Say(f)
  PROVE  outbound' \in Seq(Frames)
  BY DEF Say, LoopTypes

LEMMA EndsType ==
  ASSUME WireTypes, LinkEnds
  PROVE  /\ wire' \in [Connections -> {"none", "up", "broken"}]
         /\ down' \in [Connections -> Seq(Frames)]
  <1>1. <<>> \in Seq(Frames)
    OBVIOUS
  <1>2. QED
    BY <1>1 DEF LinkEnds, WireTypes

(* The connection's own steps. *)
LEMMA ConnectionTypes ==
  ASSUME Types, QueryInv,
         \/ Dial \/ Welcomed \/ Registered \/ CeremonyFails \/ ConnectionEnds
         \/ Write \/ WriterFails
  PROVE  Types'
  <1> USE DEF Types, WireTypes, LoopTypes
  <1>1. CASE Dial
    <2> DEFINE c == CHOOSE d \in Fresh : TRUE
    <2>1. wire' = [wire EXCEPT ![c] = "up"] /\ up' = [up EXCEPT ![c] = <<Note("hello")>>]
      BY <1>1 DEF Dial
    <2>6. c \in Connections
      BY <1>1 DEF Dial, Fresh
    <2>2. <<Note("hello")>> \in Seq(Frames)
      BY NoteType
    <2>3. WireTypes'
      <3> HIDE DEF c
      <3>1. UNCHANGED <<phase, down, attached, serving, runVars>>
        BY <1>1 DEF Dial
      <3>2. /\ wire' \in [Connections -> {"none", "up", "broken"}]
            /\ up' \in [Connections -> Seq(Frames)]
        BY <2>1, <2>2, <2>6
      <3>3. QED
        BY <3>1, <3>2 DEF runVars
    <2>4. LoopTypes'
      BY <1>1 DEF Dial
    <2>5. QED
      BY <2>3, <2>4
  <1>2. CASE Welcomed
    <2>1. up' \in [Connections -> Seq(Frames)]
      BY <1>2, NoteType, SendType DEF Welcomed
    <2>2. down' \in [Connections -> Seq(Frames)]
      BY <1>2, TookType DEF Welcomed, Hears, QueryInv
    <2>3. writer = "off"
      BY <1>2 DEF Welcomed
    <2>4. QED
      BY <1>2, <2>1, <2>2, <2>3 DEF Welcomed, runVars
  <1>3. CASE Registered
    <2>1. down' \in [Connections -> Seq(Frames)]
      BY <1>3, TookType DEF Registered, Hears, QueryInv
    <2>2. QED
      BY <1>3, <2>1 DEF Registered, runVars
  <1>4. CASE CeremonyFails
    <2>1. /\ wire' \in [Connections -> {"none", "up", "broken"}]
          /\ down' \in [Connections -> Seq(Frames)]
          /\ writer' = "off"
      BY <1>4, EndsType DEF CeremonyFails, LinkEnds
    <2>2. QED
      BY <1>4, <2>1 DEF CeremonyFails, runVars
  <1>5. CASE ConnectionEnds
    <2>1. /\ wire' \in [Connections -> {"none", "up", "broken"}]
          /\ down' \in [Connections -> Seq(Frames)]
          /\ writer' = "off"
      BY <1>5, EndsType DEF ConnectionEnds, LinkEnds
    <2>2. \A x \in Executions : pending'[x].n <= asks
      BY <1>5, AgentAssumption DEF ConnectionEnds, FailPendingQueries, NoQuestion
    <2>3. QED
      BY <1>5, <2>1, <2>2 DEF ConnectionEnds, runVars
  <1>6. CASE Write
    <2>1. Head(outbound) \in Frames /\ outbound' \in Seq(Frames)
      BY <1>6, HeadTail DEF Write
    <2>2. up' \in [Connections -> Seq(Frames)]
      BY <1>6, <2>1, SendType DEF Write
    <2>3. QED
      BY <1>6, <2>1, <2>2 DEF Write, runVars
  <1>7. CASE WriterFails
    <2>1. outbound' \in Seq(Frames)
      BY <1>7, HeadTail DEF WriterFails
    <2>2. QED
      BY <1>7, <2>1 DEF WriterFails, relayVars
  <1>8. QED
    BY <1>1, <1>2, <1>3, <1>4, <1>5, <1>6, <1>7

(* What it reads. *)
LEMMA ReadingTypes ==
  ASSUME Types, QueryInv,
         \/ TurnDown \/ TakeCancel \/ TakeError \/ TakeResult
         \/ \E x \in Executions : TakeRun(x)
  PROVE  Types'
  <1> USE DEF Types, WireTypes, LoopTypes
  <1>1. ASSUME NEW t, Serving(t)
        PROVE  /\ down' \in [Connections -> Seq(Frames)] /\ Head(down[link]) \in Frames
               /\ Head(down[link]).run \in Runs \cup {None}
    BY <1>1, TookType DEF Serving, Hears, QueryInv, Frames
  <1>2. ASSUME NEW r \in Runs \cup {None}, NEW v \in {"accepted", "declined", "refused"},
               NEW x \in Executions \cup {None}, Ack(r, v, x)
        PROVE  outbound' \in Seq(Frames)
    <2>1. [verdict |-> v, who |-> x] \in Bodies
      BY DEF Bodies, Verdicts
    <2>2. Frame("ack", r, [verdict |-> v, who |-> x]) \in Frames
      BY <2>1 DEF Frame, Frames, FrameTypes
    <2>3. QED
      BY <1>2, <2>2, SayType DEF Ack
  <1>3. ASSUME NEW x \in Executions, TakeRun(x) PROVE Types'
    <2>1. outbound' \in Seq(Frames)
      BY <1>1, <1>2, <1>3 DEF TakeRun
    <2>2. exec' = [exec EXCEPT ![x] = [run |-> Head(down[link]).run, stage |-> "working", told |-> 0]]
      BY <1>3 DEF TakeRun
    <2>3. Head(down[link]).run \in Runs \cup {None}
      BY <1>1, <1>3 DEF TakeRun
    <2>5. [run |-> Head(down[link]).run, stage |-> "working", told |-> 0] \in ExecRecords
      BY <2>3, IdleType
    <2>4. QED
      BY <1>1, <1>3, <2>1, <2>2, <2>5 DEF TakeRun, runVars
  <1>4. CASE TurnDown
    <2>1. outbound' \in Seq(Frames)
      BY <1>1, <1>2, <1>4 DEF TurnDown
    <2>2. QED
      BY <1>1, <1>4, <2>1 DEF TurnDown, runVars
  <1>5. CASE TakeCancel
    <2>1. PICK S : /\ exec' = Ends(S)
                   /\ pending' = [x \in Executions |-> IF x \in S THEN NoQuestion ELSE pending[x]]
      BY <1>5 DEF TakeCancel
    <2>2. exec' \in [Executions -> ExecRecords]
      BY <2>1 DEF Ends, ExecRecords
    <2>3. NoQuestion.n <= asks
      BY AgentAssumption DEF NoQuestion
    <2>4. ASSUME NEW x \in Executions PROVE pending'[x].n <= asks
      <3>1. pending'[x] = NoQuestion \/ pending'[x] = pending[x]
        BY <2>1
      <3>2. QED
        BY <2>3, <3>1
    <2>5. QED
      BY <1>1, <1>5, <2>2, <2>4 DEF TakeCancel, runVars
  <1>6. CASE TakeError
    BY <1>1, <1>6 DEF TakeError, runVars, agentVars
  <1>7. CASE TakeResult
    <2>1. PICK q, n : pending' = IF pending[q].n = n THEN [pending EXCEPT ![q] = NoQuestion] ELSE pending
      BY <1>7 DEF TakeResult, Resolve
    <2>2. \A x \in Executions : pending'[x].n <= asks
      BY <2>1, AgentAssumption DEF NoQuestion, QueryInv, Questions
    <2>3. QED
      BY <1>1, <1>7, <2>2 DEF TakeResult, runVars
  <1>8. QED
    BY <1>3, <1>4, <1>5, <1>6, <1>7

(* What its agents say, and the gateway's tasks that answer them. *)
LEMMA SayingTypes ==
  ASSUME Types, QueryInv,
         \/ \E x \in Executions : Report(x) \/ Finish(x) \/ Ask(x) \/ QueryTimeout(x)
         \/ \E c \in Connections : ReadQuery(c) \/ WireBreaks(c)
         \/ \E t \in answering : AnswerQuery(t)
  PROVE  Types'
  <1> USE DEF Types, WireTypes, LoopTypes
  <1>1. ASSUME NEW x \in Executions, Report(x) PROVE Types'
    <2>1. exec[x].told + 1 \in 0..Story /\ exec[x].run \in Runs \cup {None}
      BY <1>1, AgentAssumption DEF Report, ExecRecords
    <2>2. Told(x) \in Bodies
      BY <2>1 DEF Told, Bodies, Tellings
    <2>3. Frame("event", exec[x].run, Told(x)) \in Frames
      BY <2>1, <2>2 DEF Frame, Frames, FrameTypes
    <2>4. outbound' \in Seq(Frames)
      BY <1>1, <2>3, SayType DEF Report
    <2>5. exec' \in [Executions -> ExecRecords]
      <3>1. exec' = [exec EXCEPT ![x] = [exec[x] EXCEPT !.told = exec[x].told + 1]]
        BY <1>1 DEF Report
      <3>2. [exec[x] EXCEPT !.told = exec[x].told + 1] \in ExecRecords
        BY <2>1 DEF ExecRecords
      <3>3. QED
        BY <3>1, <3>2
    <2>6. QED
      BY <1>1, <2>4, <2>5 DEF Report, relayVars
  <1>2. ASSUME NEW x \in Executions, Finish(x) PROVE Types'
    <2>1. Frame("finish", exec[x].run, None) \in Frames
      <3>1. exec[x].run \in Runs \cup {None}
        BY DEF ExecRecords
      <3>2. QED
        BY <3>1 DEF Frame, Frames, FrameTypes, Bodies
    <2>2. outbound' \in Seq(Frames)
      BY <1>2, <2>1, SayType DEF Finish
    <2>3. exec' \in [Executions -> ExecRecords]
      <3>1. exec' = [exec EXCEPT ![x] = [exec[x] EXCEPT !.stage = "done"]]
        BY <1>2 DEF Finish
      <3>2. [exec[x] EXCEPT !.stage = "done"] \in ExecRecords
        BY DEF ExecRecords
      <3>3. QED
        BY <3>1, <3>2
    <2>4. QED
      BY <1>2, <2>2, <2>3 DEF Finish, relayVars
  <1>3. ASSUME NEW x \in Executions, Ask(x) PROVE Types'
    <2>1. asks \in Nat /\ asks + 1 \in 0..MaxQueries
      BY <1>3, AgentAssumption DEF Ask
    <2>2. [who |-> x, nth |-> asks + 1] \in Tellings
      BY <2>1 DEF Tellings
    <2>3. Frame("query", None, [who |-> x, nth |-> asks + 1]) \in Frames
      BY <2>2 DEF Frame, Frames, FrameTypes, Bodies
    <2>4. outbound' \in Seq(Frames)
      BY <1>3, <2>3, SayType DEF Ask
    <2>5. \A y \in Executions : pending'[y].n <= asks'
      BY <1>3, <2>1 DEF Ask, QueryInv, Questions
    <2>6. QED
      BY <1>3, <2>1, <2>4, <2>5 DEF Ask, relayVars
  <1>4. ASSUME NEW x \in Executions, QueryTimeout(x) PROVE Types'
    <2>1. \A y \in Executions : pending'[y].n <= asks
      BY <1>4, AgentAssumption DEF QueryTimeout, NoQuestion, QueryInv, Questions
    <2>2. QED
      BY <1>4, <2>1 DEF QueryTimeout, relayVars
  <1>5. ASSUME NEW c \in Connections, ReadQuery(c) PROVE Types'
    <2>1. Head(up[c]) \in Frames /\ up' \in [Connections -> Seq(Frames)]
      BY <1>5, HeadTail DEF ReadQuery, Reading
    <2>2. [on |-> c, question |-> Head(up[c]).body] \in [on : Connections, question : Tellings]
      BY <1>5, <2>1 DEF ReadQuery, Frames
    <2>3. QED
      BY <1>5, <2>1, <2>2 DEF ReadQuery, runVars, agentVars
  <1>6. ASSUME NEW c \in Connections, WireBreaks(c) PROVE Types'
    <2>1. <<>> \in Seq(Frames)
      OBVIOUS
    <2>2. QED
      BY <1>6, <2>1 DEF WireBreaks, runVars, agentVars
  <1>7. ASSUME NEW t \in answering, AnswerQuery(t) PROVE Types'
    <2>1. Frame("queryResult", None, t.question) \in Frames
      BY DEF Frame, Frames, FrameTypes, Bodies
    <2>2. down' \in [Connections -> Seq(Frames)]
      BY <1>7, <2>1, PostType DEF AnswerQuery
    <2>3. QED
      BY <1>7, <2>2 DEF AnswerQuery, runVars, agentVars
  <1>8. QED
    BY <1>1, <1>2, <1>3, <1>4, <1>5, <1>6, <1>7

LEMMA TypesInit == Init => Types
  <1>1. <<>> \in Seq(Frames)
    OBVIOUS
  <1>2. Init => WireTypes
    BY <1>1 DEF Init, RelayInit, WireTypes
  <1>3. Init => LoopTypes
    <2> SUFFICES ASSUME Init PROVE LoopTypes
      OBVIOUS
    <2>1. exec \in [Executions -> ExecRecords]
      BY IdleType DEF Init
    <2>2. \A x \in Executions : pending[x].n = 0
      BY DEF Init, NoQuestion
    <2>3. QED
      BY <1>1, <2>1, <2>2, AgentAssumption DEF Init, LoopTypes
  <1>4. QED
    BY <1>2, <1>3 DEF Types

LEMMA TypesNext == QueryInv /\ Types /\ [Next]_vars => Types'
  <1>1. CASE UNCHANGED vars
    BY <1>1 DEF vars, linkVars, relayVars, agentVars, Types, WireTypes, LoopTypes
  <1>2. CASE GatewayNext /\ UNCHANGED <<agentVars, answering>>
    BY <1>2, GatewayTypes DEF agentVars, Types, LoopTypes
  <1>3. QED
    BY <1>1, <1>2, LinkCases, ConnectionTypes, ReadingTypes, SayingTypes

(***************************************************************************)
(* Every variable of the link keeps its type.                              *)
(***************************************************************************)
THEOREM LinkTypeCorrect == Spec => []TypeOK
  <1>1. QueryInv /\ Types => TypeOK
    <2> SUFFICES ASSUME QueryInv, Types PROVE TypeOK
      OBVIOUS
    <2>1. (link = None) = (at = "waiting")
      BY DEF QueryInv, Whereabouts
    <2>2. pending \in [Executions -> [n : 0..asks, on : Connections \cup {None}]]
      BY DEF QueryInv, Questions, Types, LoopTypes
    <2>3. \A t \in answering : t.on \in Connections
      BY DEF Types, LoopTypes
    <2>4. QED
      BY <2>1, <2>2, <2>3 DEF TypeOK, QueryInv, Whereabouts, Types, LoopTypes, ExecRecords
  <1>2. QueryInv /\ Types /\ [Next]_vars => (QueryInv /\ Types)'
    BY QueryNext, TypesNext
  <1>3. QED
    BY <1>1, <1>2, QueryInit, TypesInit, PTL DEF Spec

-----------------------------------------------------------------------------
(***************************************************************************)
(* The opening of a connection.  A connection that was never dialled has   *)
(* nothing on it; core gives work only to a link that serves; and until    *)
(* the register is answered the link's connection holds the opening frames *)
(* alone: it serves nothing, and no task has anything to say on it.        *)
(***************************************************************************)
Untouched ==
  \A c \in Connections : wire[c] = "none" =>
    /\ up[c] = <<>> /\ down[c] = <<>>
    /\ attached # c
    /\ \A t \in answering : t.on # c

WorkIsServed == \A r \in Runs : status[r] \in {"offered", "held", "cancelling"} => serving

Idling == attached = link => ~serving
Unanswered == at \in {"welcome", "registered"} => \A t \in answering : t.on # link

Greeting ==
  at = "welcome" =>
    /\ Idling
    /\ \/ up[link] = <<Note("hello")>> /\ down[link] = <<>>
       \/ up[link] = <<>> /\ down[link] \in {<<>>, <<Note("welcome")>>}

Answer == {Note("registered"), Note("error")}

Registering ==
  at = "registered" =>
    \/ up[link] = <<Note("register")>> /\ down[link] = <<>> /\ Idling
    \/ up[link] = <<>> /\ down[link] = <<>> /\ wire[link] # "up"
    \/ up[link] = <<>> /\ down[link] # <<>> /\ Head(down[link]) \in Answer

Opening == Untouched /\ WorkIsServed /\ Unanswered /\ Greeting /\ Registering

LEMMA PostEffect ==
  ASSUME WireTypes, NEW c, NEW f, Post(c, f), NEW d \in Connections
  PROVE  \/ down'[d] = down[d]
         \/ d = c /\ wire[d] = "up" /\ down'[d] = Append(down[d], f)
  BY DEF Post, WireTypes

LEMMA AppendHead ==
  ASSUME NEW S, NEW s \in Seq(S), NEW f \in S
  PROVE  Append(s, f) # <<>> /\ (s # <<>> => Head(Append(s, f)) = Head(s))
  OBVIOUS

LEMMA One ==
  ASSUME NEW x
  PROVE  <<x>> # <<>> /\ Head(<<x>>) = x /\ Tail(<<x>>) = <<>>
  OBVIOUS

LEMMA FirstPost ==
  ASSUME WireTypes, NEW c \in Connections, NEW f, Post(c, f), down[c] = <<>>
  PROVE  \/ down'[c] = <<>> /\ wire[c] # "up"
         \/ down'[c] = <<f>>
  <1>1. Append(<<>>, f) = <<f>>
    OBVIOUS
  <1>2. CASE wire[c] = "up"
    <2>1. down'[c] = Append(down[c], f)
      BY <1>2 DEF Post, WireTypes
    <2>2. QED
      BY <1>1, <2>1
  <1>3. CASE wire[c] # "up"
    BY <1>3 DEF Post
  <1>4. QED
    BY <1>2, <1>3

(* Nothing on an opening connection changes but that its wire may break. *)
LEMMA StillOpening ==
  ASSUME Unanswered, Greeting, Registering, UNCHANGED <<at, link>>,
         at \in {"welcome", "registered"} =>
           /\ up'[link] = up[link] /\ down'[link] = down[link]
           /\ wire'[link] = "up" => wire[link] = "up"
           /\ Idling => Idling'
           /\ \A t \in answering' : t.on = link => t \in answering
  PROVE  Unanswered' /\ Greeting' /\ Registering'
  <1>1. CASE at = "welcome"
    BY <1>1 DEF Unanswered, Greeting, Registering
  <1>2. CASE at = "registered"
    BY <1>2 DEF Unanswered, Greeting, Registering
  <1>3. CASE at \notin {"welcome", "registered"}
    BY <1>3 DEF Unanswered, Greeting, Registering
  <1>4. QED
    BY <1>1, <1>2, <1>3

(* Something is posted: behind the answer, if it is on the link at all. *)
LEMMA OpeningPost ==
  ASSUME WireTypes, Whereabouts, Unanswered, Greeting, Registering,
         NEW c, NEW f \in Frames, Post(c, f), UNCHANGED <<at, link, wire>>,
         at \in {"welcome", "registered"} =>
           /\ up'[link] = up[link]
           /\ Idling => Idling'
           /\ \A t \in answering' : t.on = link => t \in answering,
         c = link => at # "welcome" /\ (at = "registered" => up[link] = <<>>)
  PROVE  Unanswered' /\ Greeting' /\ Registering'
  <1>1. CASE at = "registered" /\ c = link
    <2>1. link \in Connections /\ down[link] \in Seq(Frames)
      BY <1>1 DEF Whereabouts, WireTypes
    <2>2. \/ down'[link] = down[link]
          \/ wire[link] = "up" /\ down'[link] = Append(down[link], f)
      BY <2>1, PostEffect
    <2>3. \/ down[link] = <<>> /\ wire[link] # "up"
          \/ down[link] # <<>> /\ Head(down[link]) \in Answer
      BY <1>1, One DEF Registering
    <2>4. Registering'
      BY <1>1, <2>1, <2>2, <2>3, AppendHead DEF Registering
    <2>5. QED
      BY <1>1, <2>4 DEF Unanswered, Greeting
  <1>2. CASE at \notin {"welcome", "registered"} \/ c # link
    <2>1. at \in {"welcome", "registered"} => down'[link] = down[link]
      BY <1>2, PostEffect DEF Whereabouts
    <2>2. QED
      BY <2>1, StillOpening
  <1>3. QED
    BY <1>1, <1>2

(* What the gateway reads off the link's connection while it opens. *)
LEMMA OpeningReads ==
  ASSUME Greeting, Registering, at \in {"welcome", "registered"}, up[link] # <<>>
  PROVE  /\ down[link] = <<>> /\ Idling
         /\ at = "welcome" => up[link] = <<Note("hello")>> /\ Head(up[link]).type = "hello"
         /\ at = "registered" => up[link] = <<Note("register")>> /\ Head(up[link]).type = "register"
  BY One DEF Greeting, Registering, Note, Frame

LEMMA PostUntouched ==
  ASSUME WireTypes, Untouched, NEW c, NEW f, Post(c, f), UNCHANGED <<wire, answering>>,
         \A d \in Connections : wire[d] = "none" => up'[d] = <<>> /\ attached' # d
  PROVE  Untouched'
  BY PostEffect DEF Untouched

LEMMA OpeningRead ==
  ASSUME Types, QueryInv, Opening, NEW c \in Connections, Read(c),
         UNCHANGED <<agentVars, answering>>
  PROVE  Opening'
  <1> USE DEF Opening, QueryInv, Types
  <1> DEFINE f == Head(up[c])
             opens == at \in {"welcome", "registered"}
  <1>1. /\ up[c] # <<>> /\ up' = [up EXCEPT ![c] = Tail(@)]
        /\ UNCHANGED <<wire, at, link, answering>>
    BY DEF Read, Reading, Handle, agentVars
  <1>2. up \in [Connections -> Seq(Frames)] /\ f \in Frames
    BY <1>1, HeadTail DEF WireTypes
  <1>3. wire[c] # "none" /\ \A d \in Connections : wire[d] = "none" => up'[d] = <<>>
    BY <1>1, <1>2 DEF Untouched
  <1>4. opens /\ c # link => up'[link] = up[link]
    BY <1>1, <1>2 DEF Whereabouts
  <1>5. opens /\ c = link =>
          /\ up'[link] = <<>> /\ down[link] = <<>> /\ Idling
          /\ at = "welcome" => f.type = "hello"
          /\ at = "registered" => f.type = "register"
    BY <1>1, <1>2, OpeningReads, One DEF Whereabouts
  <1>6. CASE f.type = "hello" /\ Attach(c)
    <2>1. /\ attached' = c /\ Idling' /\ Post(c, Note("welcome"))
          /\ \A r \in Runs : status'[r] \notin {"offered", "held", "cancelling"}
      BY <1>6 DEF Attach, Idling, LinkGone, Held
    <2>2. WorkIsServed' /\ Untouched'
      BY <1>1, <1>3, <2>1, PostUntouched DEF WorkIsServed
    <2>3. CASE opens /\ c = link
      <3>1. at = "welcome"
        BY <1>5, <1>6, <2>3
      <3>2. down'[link] \in {<<>>, <<Note("welcome")>>}
        BY <1>5, <2>1, <2>3, FirstPost
      <3>3. Greeting'
        BY <1>1, <1>5, <2>1, <2>3, <3>2 DEF Greeting
      <3>4. QED
        BY <1>1, <2>2, <3>1, <3>3 DEF Unanswered, Registering
    <2>4. CASE ~(opens /\ c = link)
      <3>1. Unanswered' /\ Greeting' /\ Registering'
        BY <1>1, <1>4, <2>1, <2>4, NoteType, OpeningPost
      <3>2. QED
        BY <2>2, <3>1
    <2>5. QED
      BY <2>3, <2>4
  <1>7. CASE f.type = "register" /\ Register(c)
    <2> DEFINE n == Note(IF attached = c THEN "registered" ELSE "error")
    <2>1. /\ attached' = attached /\ Post(c, n) /\ UNCHANGED status
          /\ serving => serving'
          /\ attached # c => (serving' => serving)
      BY <1>7 DEF Register, runVars
    <2>2. n \in Frames /\ n \in Answer
      BY NoteType DEF Answer
    <2> HIDE DEF n
    <2>3. \A d \in Connections : wire[d] = "none" => attached' # d
      BY <2>1 DEF Untouched
    <2>4. WorkIsServed' /\ Untouched'
      BY <1>1, <1>3, <2>1, <2>3, PostUntouched DEF WorkIsServed
    <2>5. CASE opens /\ c = link
      <3>1. at = "registered"
        BY <1>5, <1>7, <2>5
      <3>2. \/ down'[link] = <<>> /\ wire'[link] # "up"
            \/ down'[link] = <<n>>
        BY <1>1, <1>5, <2>1, <2>5, FirstPost
      <3>3. Registering'
        BY <1>1, <1>5, <2>2, <2>5, <3>2, One DEF Registering
      <3>4. QED
        BY <1>1, <2>4, <3>1, <3>3 DEF Unanswered, Greeting
    <2>6. CASE ~(opens /\ c = link)
      <3>1. opens /\ Idling => Idling'
        BY <1>1, <2>1, <2>6 DEF Idling
      <3>2. Unanswered' /\ Greeting' /\ Registering'
        BY <1>1, <1>4, <2>1, <2>2, <2>6, <3>1, OpeningPost
      <3>3. QED
        BY <2>4, <3>2
    <2>7. QED
      BY <2>5, <2>6
  <1>8. CASE f.type = "ack" /\ ReadAck(c, f)
    <2>1. UNCHANGED <<down, attached, serving>>
      BY <1>8 DEF ReadAck
    <2>2. \A r \in Runs : status'[r] \in {"offered", "held", "cancelling"}
                            => status[r] \in {"offered", "held", "cancelling"}
      BY <1>8 DEF ReadAck, AnswerOffer, runVars, WireTypes
    <2>3. WorkIsServed' /\ Untouched'
      BY <1>1, <1>3, <2>1, <2>2 DEF WorkIsServed, Untouched
    <2>4. opens => c # link
      BY <1>5, <1>8
    <2>5. Unanswered' /\ Greeting' /\ Registering'
      BY <1>1, <1>4, <2>1, <2>4, StillOpening DEF Idling
    <2>6. QED
      BY <2>3, <2>5
  <1>9. CASE f.type \in {"event", "finish"} /\ ReadReport(c, f)
    <2>1. UNCHANGED <<attached, serving>>
      BY <1>9 DEF ReadReport
    <2>2. \A r \in Runs : status'[r] \in {"offered", "held", "cancelling"}
                            => status[r] \in {"offered", "held", "cancelling"}
      BY <1>9 DEF ReadReport, ReportEvent, FinishRun, AfterFinish, WireTypes
    <2>3. WorkIsServed'
      BY <2>1, <2>2 DEF WorkIsServed
    <2>4. opens => c # link
      BY <1>5, <1>9
    <2>5. \A d \in Connections : wire[d] = "none" => attached' # d
      BY <2>1 DEF Untouched
    <2>6. CASE UNCHANGED down
      <3>1. Untouched'
        BY <1>1, <1>3, <2>5, <2>6 DEF Untouched
      <3>2. Unanswered' /\ Greeting' /\ Registering'
        BY <1>1, <1>4, <2>1, <2>4, <2>6, StillOpening DEF Idling
      <3>3. QED
        BY <2>3, <3>1, <3>2
    <2>7. CASE Post(c, Frame("error", f.run, None))
      <3>1. Frame("error", f.run, None) \in Frames
        BY <1>2 DEF Frame, Frames, FrameTypes, Bodies
      <3>2. Untouched'
        BY <1>1, <1>3, <2>5, <2>7, PostUntouched
      <3>3. Idling => Idling'
        BY <1>1, <2>1 DEF Idling
      <3>4. c = link => at # "welcome" /\ (at = "registered" => up[link] = <<>>)
        BY <2>4
      <3>5. Unanswered' /\ Greeting' /\ Registering'
        BY <1>1, <1>4, <2>4, <2>7, <3>1, <3>3, <3>4, OpeningPost
      <3>6. QED
        BY <2>3, <3>2, <3>5
    <2>8. QED
      BY <1>9, <2>6, <2>7 DEF ReadReport
  <1>10. QED
    BY <1>6, <1>7, <1>8, <1>9 DEF Read, Handle

(* The rest of the gateway. *)
LEMMA OpeningGateway ==
  ASSUME Types, QueryInv, Opening, GatewayNext, UNCHANGED <<agentVars, answering>>
  PROVE  Opening'
  <1> USE DEF Opening, QueryInv, Types
  <1>1. UNCHANGED <<at, link>>
    BY DEF agentVars
  <1>2. ASSUME NEW r \in Runs, StartRun(r) \/ TakeBack(r) PROVE Opening'
    <2>1. UNCHANGED <<wire, up, down, attached, serving>>
      BY <1>2 DEF StartRun, TakeBack
    <2>2. \A q \in Runs : status'[q] \in {"offered", "held", "cancelling"}
                            => status[q] \in {"offered", "held", "cancelling"}
      BY <1>2 DEF StartRun, TakeBack, WireTypes
    <2>3. WorkIsServed' /\ Untouched'
      BY <2>1, <2>2 DEF WorkIsServed, Untouched
    <2>4. QED
      BY <1>1, <2>1, <2>3, StillOpening DEF Idling
  <1>3. ASSUME NEW r \in Runs, Offer(r) \/ CancelRun(r) PROVE Opening'
    <2>1. UNCHANGED <<wire, up, attached, serving>> /\ serving
      BY <1>3 DEF Offer, CancelRun, WorkIsServed
    <2>2. PICK f \in Frames : Post(attached, f)
      <3>1. Frame("run", r, None) \in Frames /\ Frame("cancel", r, None) \in Frames
        BY DEF Frame, Frames, FrameTypes, Bodies
      <3>2. QED
        BY <1>3, <3>1 DEF Offer, CancelRun
    <2>3. \A d \in Connections : wire[d] = "none" => up'[d] = <<>> /\ attached' # d
      BY <2>1 DEF Untouched
    <2>4. WorkIsServed' /\ Untouched'
      BY <2>1, <2>2, <2>3, PostUntouched DEF WorkIsServed
    <2>5. attached = link => at # "welcome" /\ (at = "registered" => up[link] = <<>>)
      BY <2>1, One DEF Greeting, Registering, Idling
    <2>6. Idling => Idling'
      BY <1>1, <2>1 DEF Idling
    <2>7. Unanswered' /\ Greeting' /\ Registering'
      BY <1>1, <2>1, <2>2, <2>5, <2>6, OpeningPost
    <2>8. QED
      BY <2>4, <2>7
  <1>4. ASSUME NEW c \in Connections, RefuseHello(c) \/ Disconnect(c) PROVE Opening'
    <2>1. /\ wire[c] # "none" /\ wire' = [wire EXCEPT ![c] = "broken"]
          /\ up' = [up EXCEPT ![c] = <<>>]
          /\ UNCHANGED down
      BY <1>4 DEF RefuseHello, Disconnect, Untouched, WireTypes
    <2>2. /\ serving' => serving
          /\ \/ UNCHANGED <<attached, serving>>
             \/ attached' = None /\ ~serving'
      BY <1>4 DEF RefuseHello, Disconnect
    <2>3. WorkIsServed'
      <3>1. CASE LinkGone
        BY <3>1 DEF LinkGone, Held, WorkIsServed
      <3>2. CASE UNCHANGED <<serving, status>>
        BY <3>2 DEF WorkIsServed
      <3>3. QED
        BY <1>4, <3>1, <3>2 DEF RefuseHello, Disconnect, runVars
    <2>4. Untouched'
      BY <2>1, <2>2, RelayAssumption DEF Untouched, WireTypes
    <2>5. at \in {"welcome", "registered"} => link \in Connections /\ link # None
      BY DEF Whereabouts
    <2>6. at \in {"welcome", "registered"} /\ Idling => Idling'
      BY <1>1, <2>2, <2>5 DEF Idling
    <2>7. CASE c = link /\ at \in {"welcome", "registered"} /\ up[link] # <<>>
      <3>1. up'[link] = <<>> /\ down'[link] = <<>> /\ wire'[link] = "broken" /\ Idling'
        BY <2>1, <2>5, <2>6, <2>7, OpeningReads DEF WireTypes
      <3>2. QED
        BY <1>1, <2>3, <2>4, <3>1 DEF Unanswered, Greeting, Registering
    <2>8. CASE ~(c = link /\ at \in {"welcome", "registered"} /\ up[link] # <<>>)
      <3>1. at \in {"welcome", "registered"} =>
              up'[link] = up[link] /\ (wire'[link] = "up" => wire[link] = "up")
        BY <2>1, <2>5, <2>8 DEF WireTypes
      <3>2. Unanswered' /\ Greeting' /\ Registering'
        BY <1>1, <2>1, <2>6, <3>1, StillOpening
      <3>3. QED
        BY <2>3, <2>4, <3>2
    <2>9. QED
      BY <2>7, <2>8
  <1>5. QED
    BY <1>2, <1>3, <1>4, OpeningRead DEF GatewayNext

(* The link's own steps. *)
LEMMA OpeningLink ==
  ASSUME Types, QueryInv, Opening,
         \/ Dial \/ Welcomed \/ Registered \/ CeremonyFails \/ ConnectionEnds
         \/ Write \/ WriterFails \/ TurnDown \/ TakeCancel \/ TakeError \/ TakeResult
  PROVE  Opening'
  <1> USE DEF Opening, QueryInv, Types
  <1>1. CASE Dial
    <2> DEFINE c == CHOOSE d \in Fresh : TRUE
    <2>1. /\ wire' = [wire EXCEPT ![c] = "up"] /\ up' = [up EXCEPT ![c] = <<Note("hello")>>]
          /\ link' = c /\ at' = "welcome"
          /\ UNCHANGED <<down, attached, serving, status, answering>>
      BY <1>1 DEF Dial, runVars
    <2>2. c \in Connections /\ wire[c] = "none"
      BY <1>1 DEF Dial, Fresh
    <2> HIDE DEF c
    <2>3. /\ attached # c /\ down[c] = <<>> /\ up'[c] = <<Note("hello")>>
          /\ \A t \in answering : t.on # c
      BY <2>1, <2>2 DEF Untouched, WireTypes
    <2>4. Greeting' /\ Unanswered' /\ Registering'
      BY <2>1, <2>3 DEF Greeting, Idling, Unanswered, Registering
    <2>5. Untouched' /\ WorkIsServed'
      BY <2>1, <2>2 DEF Untouched, WorkIsServed, WireTypes
    <2>6. QED
      BY <2>4, <2>5
  <1>2. CASE Welcomed
    <2>1. /\ at = "welcome" /\ at' = "registered" /\ link \in Connections /\ Took
          /\ UNCHANGED <<wire, link, attached, serving, status, answering>>
          /\ Send(Note("register")) /\ down[link] # <<>>
      BY <1>2 DEF Welcomed, Hears, Heard, Whereabouts, runVars
    <2>2. Idling /\ up[link] = <<>> /\ down[link] = <<Note("welcome")>>
      BY <2>1 DEF Greeting
    <2>3. down'[link] = <<>> /\ \A d \in Connections : d # link => down'[d] = down[d]
      BY <2>1, <2>2, One DEF Took, WireTypes
    <2>4. /\ \/ up'[link] = <<Note("register")>> /\ wire[link] = "up"
             \/ up'[link] = <<>> /\ wire[link] # "up"
          /\ \A d \in Connections : d # link \/ wire[link] # "up" => up'[d] = up[d]
      <3>1. Append(<<>>, Note("register")) = <<Note("register")>>
        OBVIOUS
      <3>2. QED
        BY <2>1, <2>2, <3>1 DEF Send, WireTypes
    <2>5. Registering' /\ Unanswered' /\ Greeting'
      BY <2>1, <2>2, <2>3, <2>4 DEF Registering, Unanswered, Greeting, Idling
    <2>6. Untouched' /\ WorkIsServed'
      BY <2>1, <2>3, <2>4 DEF Untouched, WorkIsServed
    <2>7. QED
      BY <2>5, <2>6
  <1>3. ASSUME at' \notin {"welcome", "registered"}, UNCHANGED <<attached, serving, status, answering>>,
               \A d \in Connections :
                 wire'[d] = "none" => wire[d] = "none" /\ (up'[d] = up[d]) /\ (down'[d] = down[d])
        PROVE  Opening'
    BY <1>3 DEF Unanswered, Greeting, Registering, Untouched, WorkIsServed
  <1>4. ASSUME Heard, Took
        PROVE  \A d \in Connections : wire[d] = "none" => down'[d] = down[d]
    BY <1>4 DEF Heard, Took, WireTypes, Untouched
  <1>5. CASE Registered \/ TurnDown \/ TakeCancel \/ TakeError \/ TakeResult
    <2>1. /\ Heard /\ Took /\ at' = "serving"
          /\ UNCHANGED <<wire, up, attached, serving, status, answering>>
      BY <1>5 DEF Registered, TurnDown, TakeCancel, TakeError, TakeResult, Serving, Hears, runVars, agentVars
    <2>2. QED
      BY <1>3, <1>4, <2>1
  <1>6. CASE CeremonyFails \/ ConnectionEnds
    <2>1. LinkEnds /\ UNCHANGED <<up, attached, serving, status, answering>>
      BY <1>6 DEF CeremonyFails, ConnectionEnds, runVars
    <2>2. \A d \in Connections : wire'[d] = "none" => wire[d] = "none" /\ down'[d] = down[d]
      BY <2>1 DEF LinkEnds, WireTypes
    <2>3. QED
      BY <1>3, <2>1, <2>2 DEF LinkEnds
  <1>7. CASE Write \/ WriterFails
    <2>1. /\ at = "serving" /\ at' = at /\ UNCHANGED <<wire, down, attached, serving, status, answering>>
      BY <1>7 DEF Write, WriterFails, LoopTypes, runVars, relayVars
    <2>2. \A d \in Connections : wire[d] = "none" => up'[d] = up[d]
      BY <1>7 DEF Write, WriterFails, Send, WireTypes, relayVars
    <2>3. QED
      BY <1>3, <2>1, <2>2
  <1>8. QED
    BY <1>1, <1>2, <1>5, <1>6, <1>7

(* The agents, and the tasks that answer them. *)
LEMMA OpeningAgents ==
  ASSUME Types, QueryInv, Opening,
         \/ \E x \in Executions :
              TakeRun(x) \/ Report(x) \/ Finish(x) \/ Ask(x) \/ QueryTimeout(x)
         \/ \E c \in Connections : ReadQuery(c) \/ WireBreaks(c)
         \/ \E t \in answering : AnswerQuery(t)
  PROVE  Opening'
  <1> USE DEF Opening, QueryInv, Types
  <1>1. ASSUME NEW x \in Executions, TakeRun(x) PROVE Opening'
    <2>1. /\ Heard /\ Took /\ at = "serving"
          /\ UNCHANGED <<wire, up, attached, serving, status, answering, at>>
      BY <1>1 DEF TakeRun, Serving, Hears, runVars
    <2>2. \A d \in Connections : wire[d] = "none" => down'[d] = down[d]
      BY <2>1 DEF Heard, Took, WireTypes, Untouched
    <2>3. QED
      BY <2>1, <2>2 DEF Unanswered, Greeting, Registering, Untouched, WorkIsServed
  <1>2. ASSUME NEW x \in Executions, Report(x) \/ Finish(x) \/ Ask(x) \/ QueryTimeout(x)
        PROVE  Opening'
    <2>1. UNCHANGED <<wire, up, down, attached, serving, status, answering, at, link>>
      BY <1>2 DEF Report, Finish, Ask, QueryTimeout, relayVars
    <2>2. QED
      BY <2>1, StillOpening DEF Untouched, WorkIsServed, Idling
  <1>3. ASSUME NEW c \in Connections, ReadQuery(c) PROVE Opening'
    <2>1. /\ up[c] # <<>> /\ Head(up[c]).type = "query"
          /\ up' = [up EXCEPT ![c] = Tail(@)]
          /\ \A t \in answering' : t.on # c => t \in answering
          /\ UNCHANGED <<wire, down, attached, serving, status, at, link>>
      BY <1>3 DEF ReadQuery, Reading, runVars, agentVars
    <2>2. at \in {"welcome", "registered"} => c # link
      BY <2>1, OpeningReads
    <2>3. \A d \in Connections : d # c => up'[d] = up[d]
      BY <2>1 DEF WireTypes
    <2>4. Untouched' /\ WorkIsServed'
      BY <2>1, <2>3 DEF Untouched, WorkIsServed
    <2>5. Unanswered' /\ Greeting' /\ Registering'
      BY <2>1, <2>2, <2>3, StillOpening DEF Whereabouts, Idling
    <2>6. QED
      BY <2>4, <2>5
  <1>4. ASSUME NEW c \in Connections, WireBreaks(c) PROVE Opening'
    <2>1. /\ wire' = [wire EXCEPT ![c] = "broken"] /\ down' = [down EXCEPT ![c] = <<>>]
          /\ UNCHANGED <<up, attached, serving, status, at, link, answering>>
      BY <1>4 DEF WireBreaks, runVars, agentVars
    <2>2. Untouched' /\ WorkIsServed'
      BY <2>1 DEF Untouched, WorkIsServed, WireTypes
    <2>3. CASE c = link /\ at \in {"welcome", "registered"}
      <3>1. down'[link] = <<>> /\ wire'[link] = "broken"
        BY <2>1, <2>3 DEF WireTypes
      <3>2. Idling' = Idling
        BY <2>1 DEF Idling
      <3>3. Unanswered' /\ Greeting' /\ Registering'
        BY <2>1, <3>1, <3>2 DEF Unanswered, Greeting, Registering
      <3>4. QED
        BY <2>2, <3>3
    <2>4. CASE ~(c = link /\ at \in {"welcome", "registered"})
      <3>1. at \in {"welcome", "registered"} => down'[link] = down[link] /\ wire'[link] = wire[link]
        BY <2>1, <2>4 DEF Whereabouts, WireTypes
      <3>2. Unanswered' /\ Greeting' /\ Registering'
        BY <2>1, <3>1, StillOpening DEF Idling
      <3>3. QED
        BY <2>2, <3>2
    <2>5. QED
      BY <2>3, <2>4
  <1>5. ASSUME NEW t \in answering, AnswerQuery(t) PROVE Opening'
    <2>1. /\ answering' = answering \ {t}
          /\ UNCHANGED <<wire, up, attached, serving, status, at, link>>
      BY <1>5 DEF AnswerQuery, runVars, agentVars
    <2>2. Idling => Idling'
      BY <2>1 DEF Idling
    <2>3. WorkIsServed'
      BY <2>1 DEF WorkIsServed
    <2>4. CASE Post(t.on, Frame("queryResult", None, t.question))
      <3>1. Frame("queryResult", None, t.question) \in Frames
        BY DEF Frame, Frames, FrameTypes, Bodies, LoopTypes
      <3>2. t.on = link => at \notin {"welcome", "registered"}
        BY DEF Unanswered
      <3>3. Unanswered' /\ Greeting' /\ Registering'
        BY <2>1, <2>2, <2>4, <3>1, <3>2, OpeningPost
      <3>4. Untouched'
        BY <2>1, <2>4, PostEffect DEF Untouched
      <3>5. QED
        BY <2>3, <3>3, <3>4
    <2>5. CASE UNCHANGED down
      BY <2>1, <2>2, <2>3, <2>5, StillOpening DEF Untouched
    <2>6. QED
      BY <1>5, <2>4, <2>5 DEF AnswerQuery
  <1>6. QED
    BY <1>1, <1>2, <1>3, <1>4, <1>5

LEMMA OpeningInit == Init => Opening
  BY RelayAssumption DEF Init, RelayInit, Opening, Untouched, WorkIsServed, Unanswered, Greeting, Registering

LEMMA OpeningNext == QueryInv /\ Types /\ Opening /\ [Next]_vars => Opening'
  <1>1. CASE UNCHANGED vars
    BY <1>1 DEF vars, linkVars, relayVars, agentVars, Opening, Untouched, WorkIsServed, Unanswered,
                Greeting, Registering, Idling
  <1>2. QED
    BY <1>1, LinkCases, OpeningGateway, OpeningLink, OpeningAgents

(***************************************************************************)
(* The frame the link reads after its hello is the gateway's welcome, and  *)
(* the one after its register is the answer to that: neither the queue an  *)
(* earlier connection left behind, nor core, nor a late answer to an old   *)
(* question gets in first.                                                 *)
(***************************************************************************)
THEOREM TheOpeningIsUndisturbed == Spec => []RegisterIsAnsweredFirst
  <1>1. Opening => RegisterIsAnsweredFirst
    BY One DEF Opening, Greeting, Registering, Answer, RegisterIsAnsweredFirst, Heard
  <1>2. QueryInv /\ Types /\ Opening /\ [Next]_vars => (QueryInv /\ Types /\ Opening)'
    BY QueryNext, TypesNext, OpeningNext
  <1>3. QED
    BY <1>1, <1>2, QueryInit, TypesInit, OpeningInit, PTL DEF Spec

-----------------------------------------------------------------------------
(***************************************************************************)
(* Whose the frames are.  What an execution says goes out under its number *)
(* and for the run it was started on.                                      *)
(***************************************************************************)
Began(x, r) == x \in Executions /\ r \in Runs /\ exec[x].stage # "free" /\ exec[x].run = r

Opener(f) == f.type \in {"hello", "register", "query"}

Verdict(f) ==
  /\ f.type = "ack" /\ f.body \in Verdicts /\ f.run \in Runs
  /\ f.body.verdict = "accepted" => Began(f.body.who, f.run)

Event(f) ==
  /\ f.type = "event" /\ f.body \in Tellings
  /\ Began(f.body.who, f.run)
  /\ f.body.nth \in 1..exec[f.body.who].told

Closing(f) == f.type = "finish" /\ \E x \in Executions : Began(x, f.run) /\ exec[x].stage = "done"

Meant == {f \in Frames : Opener(f) \/ Verdict(f) \/ Event(f) \/ Closing(f)}
Sayings == {f \in Meant : f.type # "hello"}
Orders == {f \in Frames : f.type \in {"run", "cancel"} => f.run \in Runs}

Owned ==
  /\ up \in [Connections -> Seq(Meant)]
  /\ outbound \in Seq(Sayings)
  /\ down \in [Connections -> Seq(Orders)]
  /\ \A x \in Executions : exec[x].stage # "free" => exec[x].run \in Runs

\* A hello is alone on its connection until it is read.
Quiet == {f \in Frames : f.type # "hello"}
Hellos ==
  \A c \in Connections :
    up[c] \in Seq(Quiet) \/ (Len(up[c]) = 1 /\ (c = link => at = "welcome"))

\* Once the link was welcomed, core has it, or one that serves nothing.
Met == at \in {"registered", "serving"} \/ (at = "welcome" /\ down[link] # <<>>)
Succession == Met /\ attached \notin {link, None} => up[attached] = <<>> /\ ~serving

-----------------------------------------------------------------------------
(***************************************************************************)
(* What core has for a run nobody was given is nothing; what it has on     *)
(* record was said; and who is told to stop was on a run core is done with *)
(* or about to be.                                                         *)
(***************************************************************************)
Recorded(r, e) == Began(e.who, r) /\ e.nth \in 1..exec[e.who].told

Unclaimed ==
  /\ claim \in [Runs -> Executions \cup {None}]
  /\ \A r \in Runs : claim[r] # None => Began(claim[r], r)
  /\ record \in [Runs -> Seq(Tellings)]
  /\ \A r \in Runs : status[r] \in {"none", "queued", "offered"} =>
       claim[r] = None /\ record[r] = <<>> /\ r \notin stray
  /\ \A r \in Runs : \A i \in DOMAIN record[r] : Recorded(r, record[r][i])

Past(r) == status[r] \in {"cancelling", "ended", "cancelled", "failed"}

Cuts == {f \in Orders : f.type = "cancel" => Past(f.run)}

CutShort ==
  /\ down \in [Connections -> Seq(Cuts)]
  /\ \A x \in Executions :
       exec[x].stage = "ending" \/ (exec[x].stage = "done" /\ exec[x].told # Story) => Past(exec[x].run)

-----------------------------------------------------------------------------
(***************************************************************************)
(* What a queue has of execution x of run r, beyond the words H that were  *)
(* heard.  One yes, in front of all the rest; the words in order, behind   *)
(* those heard, and before each the one before it, heard or in the queue;  *)
(* and if nobody else works on r (a), its end behind the last word it      *)
(* said (t).                                                               *)
(***************************************************************************)
YesAt(q, i, x) ==
  i \in DOMAIN q /\ q[i].type = "ack" /\ q[i].body.verdict = "accepted" /\ q[i].body.who = x
WordAt(q, i, x, n) ==
  i \in DOMAIN q /\ q[i].type = "event" /\ q[i].body = [who |-> x, nth |-> n]
CloseAt(q, i, r) == i \in DOMAIN q /\ q[i].type = "finish" /\ q[i].run = r

NoYes(q, x) == \A i \in Nat : ~YesAt(q, i, x)
Silent(q, x, r, a) ==
  \A i \in Nat : (\A n \in Nat : ~WordAt(q, i, x, n)) /\ (a => ~CloseAt(q, i, r))

YesFirst(q, x, r, a) ==
  \A i, j \in Nat : YesAt(q, i, x) =>
    /\ YesAt(q, j, x) => i = j
    /\ \A n \in Nat : WordAt(q, j, x, n) => i < j
    /\ a /\ CloseAt(q, j, r) => i < j

InOrder(q, x, H) ==
  /\ \A i, j, m, n \in Nat : WordAt(q, i, x, m) /\ WordAt(q, j, x, n) /\ i < j => m < n
  /\ \A i, n \in Nat : \A k \in H : WordAt(q, i, x, n) => k < n

Before(q, i, x, H, n) == n \in H \/ \E j \in Nat : j < i /\ WordAt(q, j, x, n)

NoGap(q, x, H) == \A i, n \in Nat : WordAt(q, i, x, n + 1) => n = 0 \/ Before(q, i, x, H, n)

EndLast(q, x, r, a, H, t) ==
  \A i \in Nat : a /\ CloseAt(q, i, r) => t = 0 \/ Before(q, i, x, H, t)

Line(q, x, r, a, H, t) ==
  YesFirst(q, x, r, a) /\ InOrder(q, x, H) /\ NoGap(q, x, H) /\ EndLast(q, x, r, a, H, t)

SaidAll(q, x, H, t) == t = 0 \/ t \in H \/ \E i \in Nat : WordAt(q, i, x, t)

-----------------------------------------------------------------------------
(***************************************************************************)
(* Where that line is.  With its yes in the outbound queue, all of it is   *)
(* there and nothing of it on a connection; with its yes on a connection,  *)
(* it goes on in the outbound queue if the link is on that connection      *)
(* still and its writer lives, and is cut there if not; with the yes read, *)
(* the run is held, and the line goes on behind what is on record.         *)
(***************************************************************************)
Alone(x) == Crew(exec[x].run) = {x}
Joined(c) == c = link /\ wire[c] = "up" /\ writer # "dead"
Way(c) == IF Joined(c) THEN up[c] \o outbound ELSE up[c]

HeardOf(x) ==
  {n \in Nat : \E i \in DOMAIN record[exec[x].run] : record[exec[x].run][i] = [who |-> x, nth |-> n]}

OnTheWay(c, x, H) ==
  /\ Line(Way(c), x, exec[x].run, Alone(x), H, exec[x].told)
  /\ Joined(c) => SaidAll(Way(c), x, H, exec[x].told)

Hushed(c, x) == Silent(up[c], x, exec[x].run, Alone(x))

Holds(x) ==
  LET r == exec[x].run
  IN  exec[x].stage # "free" /\ r \in Runs /\ claim[r] = x /\ r \notin stray /\ Held(r)

Queued ==
  \A x \in Executions : ~NoYes(outbound, x) =>
    /\ \A c \in Connections : NoYes(up[c], x) /\ Hushed(c, x)
    /\ Line(outbound, x, exec[x].run, Alone(x), {}, exec[x].told)
    /\ SaidAll(outbound, x, {}, exec[x].told)

Sent ==
  \A x \in Executions, c \in Connections : ~NoYes(up[c], x) =>
    /\ \A d \in Connections \ {c} : NoYes(up[d], x) /\ (attached = c => Hushed(d, x))
    /\ OnTheWay(c, x, {})

Granted ==
  \A x \in Executions : Holds(x) =>
    /\ NoYes(outbound, x) /\ \A c \in Connections : NoYes(up[c], x)
    /\ \A d \in Connections \ {attached} : Hushed(d, x)
    /\ OnTheWay(attached, x, HeardOf(x))
    /\ \E k \in Nat : HeardOf(x) = 1..k

-----------------------------------------------------------------------------
(* Queues, read at one end and written at the other. *)

LEMMA AfterTail ==
  ASSUME NEW S, NEW q \in Seq(S), q # <<>>, NEW i \in Nat, NEW x, NEW r
  PROVE  /\ YesAt(Tail(q), i, x) <=> i # 0 /\ YesAt(q, i + 1, x)
         /\ \A n : WordAt(Tail(q), i, x, n) <=> i # 0 /\ WordAt(q, i + 1, x, n)
         /\ CloseAt(Tail(q), i, r) <=> i # 0 /\ CloseAt(q, i + 1, r)
  <1>1. Tail(q) \in Seq(S) /\ Len(Tail(q)) = Len(q) - 1 /\ Len(q) \in Nat /\ Len(q) # 0
    OBVIOUS
  <1>2. i \in DOMAIN Tail(q) <=> i # 0 /\ i + 1 \in DOMAIN q
    BY <1>1
  <1>3. i \in DOMAIN Tail(q) => Tail(q)[i] = q[i + 1]
    BY <1>1
  <1>4. QED
    BY <1>2, <1>3 DEF YesAt, WordAt, CloseAt

LEMMA AfterAppend ==
  ASSUME NEW S, NEW q \in Seq(S), NEW f \in S, NEW i \in Nat, NEW x, NEW r
  PROVE  /\ YesAt(Append(q, f), i, x) <=>
              \/ YesAt(q, i, x)
              \/ i = Len(q) + 1 /\ f.type = "ack" /\ f.body.verdict = "accepted" /\ f.body.who = x
         /\ \A n : WordAt(Append(q, f), i, x, n) <=>
              \/ WordAt(q, i, x, n)
              \/ i = Len(q) + 1 /\ f.type = "event" /\ f.body = [who |-> x, nth |-> n]
         /\ CloseAt(Append(q, f), i, r) <=>
              \/ CloseAt(q, i, r)
              \/ i = Len(q) + 1 /\ f.type = "finish" /\ f.run = r
  <1>1. Len(q) \in Nat /\ DOMAIN q = 1..Len(q) /\ DOMAIN Append(q, f) = 1..(Len(q) + 1)
    OBVIOUS
  <1>2. /\ \A j \in DOMAIN q : Append(q, f)[j] = q[j]
        /\ Append(q, f)[Len(q) + 1] = f
    OBVIOUS
  <1>3. i \in DOMAIN Append(q, f) <=> i \in DOMAIN q \/ i = Len(q) + 1
    BY <1>1
  <1>4. ~(Len(q) + 1 \in DOMAIN q)
    BY <1>1
  <1>5. QED
    BY <1>2, <1>3, <1>4 DEF YesAt, WordAt, CloseAt

LEMMA AfterConcat ==
  ASSUME NEW S, NEW p \in Seq(S), NEW q \in Seq(S), NEW i \in Nat, NEW x, NEW r
  PROVE  /\ i <= Len(p) =>
              /\ YesAt(p \o q, i, x) <=> YesAt(p, i, x)
              /\ \A n : WordAt(p \o q, i, x, n) <=> WordAt(p, i, x, n)
              /\ CloseAt(p \o q, i, r) <=> CloseAt(p, i, r)
         /\ ~(i <= Len(p)) =>
              /\ i - Len(p) \in Nat
              /\ YesAt(p \o q, i, x) <=> YesAt(q, i - Len(p), x)
              /\ \A n : WordAt(p \o q, i, x, n) <=> WordAt(q, i - Len(p), x, n)
              /\ CloseAt(p \o q, i, r) <=> CloseAt(q, i - Len(p), r)
  <1>1. /\ p \o q \in Seq(S) /\ Len(p \o q) = Len(p) + Len(q)
        /\ \A j \in 1..(Len(p) + Len(q)) :
             (p \o q)[j] = IF j <= Len(p) THEN p[j] ELSE q[j - Len(p)]
    BY ConcatProperties
  <1>2. Len(p) \in Nat /\ Len(q) \in Nat /\ DOMAIN p = 1..Len(p) /\ DOMAIN q = 1..Len(q)
    OBVIOUS
  <1>3. DOMAIN (p \o q) = 1..(Len(p) + Len(q))
    BY <1>1
  <1>4. CASE i <= Len(p)
    <2>1. i \in DOMAIN (p \o q) <=> i \in DOMAIN p
      BY <1>2, <1>3, <1>4
    <2>2. i \in DOMAIN (p \o q) => (p \o q)[i] = p[i]
      BY <1>1, <1>3, <1>4
    <2>3. QED
      BY <1>4, <2>1, <2>2 DEF YesAt, WordAt, CloseAt
  <1>5. CASE ~(i <= Len(p))
    <2>1. i - Len(p) \in Nat /\ (i \in DOMAIN (p \o q) <=> i - Len(p) \in DOMAIN q)
      BY <1>2, <1>3, <1>5
    <2>2. i \in DOMAIN (p \o q) => (p \o q)[i] = q[i - Len(p)]
      BY <1>1, <1>3, <1>5
    <2>3. QED
      BY <1>5, <2>1, <2>2 DEF YesAt, WordAt, CloseAt
  <1>6. QED
    BY <1>4, <1>5

\* Positions are within the queue, and one frame is one thing.
LEMMA Within ==
  ASSUME NEW S, NEW q \in Seq(S), NEW i \in Nat, NEW x, NEW r
  PROVE  /\ YesAt(q, i, x) => i # 0 /\ i <= Len(q)
         /\ \A n : WordAt(q, i, x, n) => i # 0 /\ i <= Len(q)
         /\ CloseAt(q, i, r) => i # 0 /\ i <= Len(q)
         /\ \A n, m : WordAt(q, i, x, n) /\ WordAt(q, i, x, m) => n = m
         /\ \A n : WordAt(q, i, x, n) => ~YesAt(q, i, x) /\ ~CloseAt(q, i, r)
         /\ YesAt(q, i, x) => ~CloseAt(q, i, r)
  BY DEF YesAt, WordAt, CloseAt

LEMMA EmptyQueue ==
  ASSUME NEW x, NEW r, NEW a, NEW H, NEW t
  PROVE  NoYes(<<>>, x) /\ Silent(<<>>, x, r, a) /\ Line(<<>>, x, r, a, H, t)
  <1>1. \A i \in Nat : ~YesAt(<<>>, i, x) /\ ~CloseAt(<<>>, i, r) /\ \A n : ~WordAt(<<>>, i, x, n)
    BY DEF YesAt, WordAt, CloseAt
  <1>2. QED
    BY <1>1 DEF NoYes, Silent, Line, YesFirst, InOrder, NoGap, EndLast

(* What a read takes from a line. *)
LEMMA LineRead ==
  ASSUME NEW S, NEW q \in Seq(S), q # <<>>, NEW x, NEW r, NEW a \in BOOLEAN,
         NEW H \in SUBSET Nat, NEW t \in Nat, NEW G,
         G = H \cup {n \in Nat : WordAt(q, 1, x, n)}
  PROVE  /\ Line(q, x, r, a, H, t) => Line(Tail(q), x, r, a, G, t)
         /\ SaidAll(q, x, H, t) => SaidAll(Tail(q), x, G, t)
         /\ NoYes(q, x) => NoYes(Tail(q), x)
         /\ Silent(q, x, r, a) => Silent(Tail(q), x, r, a)
  <1>1. ASSUME NEW i \in Nat
        PROVE  /\ i + 1 \in Nat
               /\ YesAt(Tail(q), i, x) <=> i # 0 /\ YesAt(q, i + 1, x)
               /\ \A n : WordAt(Tail(q), i, x, n) <=> i # 0 /\ WordAt(q, i + 1, x, n)
               /\ CloseAt(Tail(q), i, r) <=> i # 0 /\ CloseAt(q, i + 1, r)
    <2>1. i + 1 \in Nat
      OBVIOUS
    <2>2. QED
      BY <2>1, AfterTail
  <1>2. ASSUME NEW j \in Nat, NEW n \in Nat, WordAt(q, j, x, n)
        PROVE  n \in G \/ (j - 1 \in Nat /\ WordAt(Tail(q), j - 1, x, n))
    <2>1. j # 0
      BY <1>2, Within
    <2>2. CASE j = 1
      BY <1>2, <2>2
    <2>3. CASE j # 1
      <3>1. j - 1 \in Nat /\ j - 1 # 0 /\ (j - 1) + 1 = j
        BY <2>1, <2>3
      <3>2. QED
        BY <1>1, <1>2, <3>1
    <2>4. QED
      BY <2>2, <2>3
  <1>3. ASSUME NEW i \in Nat, NEW n \in Nat, Before(q, i + 1, x, H, n)
        PROVE  Before(Tail(q), i, x, G, n)
    <2>1. CASE n \in H
      BY <2>1 DEF Before
    <2>2. ASSUME NEW j \in Nat, j < i + 1, WordAt(q, j, x, n)
          PROVE  Before(Tail(q), i, x, G, n)
      <3>1. CASE n \in G
        BY <3>1 DEF Before
      <3>2. CASE j - 1 \in Nat /\ WordAt(Tail(q), j - 1, x, n)
        <4>1. j - 1 < i
          BY <2>2
        <4>2. QED
          BY <3>2, <4>1 DEF Before
      <3>3. QED
        BY <1>2, <2>2, <3>1, <3>2
    <2>3. QED
      BY <1>3, <2>1, <2>2 DEF Before
  <1>4. ASSUME Line(q, x, r, a, H, t) PROVE Line(Tail(q), x, r, a, G, t)
    <2>1. YesFirst(Tail(q), x, r, a)
      <3> SUFFICES ASSUME NEW i \in Nat, NEW j \in Nat, YesAt(Tail(q), i, x)
                   PROVE  /\ YesAt(Tail(q), j, x) => i = j
                          /\ \A n \in Nat : WordAt(Tail(q), j, x, n) => i < j
                          /\ a /\ CloseAt(Tail(q), j, r) => i < j
        BY DEF YesFirst
      <3>1. /\ YesAt(q, j + 1, x) => i + 1 = j + 1
            /\ \A n \in Nat : WordAt(q, j + 1, x, n) => i + 1 < j + 1
            /\ a /\ CloseAt(q, j + 1, r) => i + 1 < j + 1
        BY <1>1, <1>4 DEF Line, YesFirst
      <3>2. (i + 1 = j + 1 => i = j) /\ (i + 1 < j + 1 => i < j)
        OBVIOUS
      <3>3. QED
        BY <1>1, <3>1, <3>2
    <2>2. InOrder(Tail(q), x, G)
      <3>1. ASSUME NEW i \in Nat, NEW j \in Nat, NEW m \in Nat, NEW n \in Nat,
                   WordAt(q, i, x, m), WordAt(q, j, x, n), i < j
            PROVE  m < n
        BY <1>4, <3>1 DEF Line, InOrder
      <3>2. ASSUME NEW i \in Nat, NEW j \in Nat, NEW m \in Nat, NEW n \in Nat,
                   WordAt(Tail(q), i, x, m), WordAt(Tail(q), j, x, n), i < j
            PROVE  m < n
        <4>1. i + 1 < j + 1
          BY <3>2
        <4>2. QED
          BY <1>1, <3>1, <3>2, <4>1
      <3>3. ASSUME NEW i \in Nat, NEW n \in Nat, NEW k \in G, WordAt(Tail(q), i, x, n)
            PROVE  k < n
        <4>1. i # 0 /\ WordAt(q, i + 1, x, n)
          BY <1>1, <3>3
        <4>2. CASE k \in H
          BY <1>1, <1>4, <4>1, <4>2 DEF Line, InOrder
        <4>3. CASE k \in Nat /\ WordAt(q, 1, x, k)
          <5>1. 1 < i + 1
            BY <4>1
          <5>2. QED
            BY <1>1, <3>1, <4>1, <4>3, <5>1
        <4>4. QED
          BY <4>2, <4>3
      <3>4. QED
        BY <3>2, <3>3 DEF InOrder
    <2>3. NoGap(Tail(q), x, G)
      <3> SUFFICES ASSUME NEW i \in Nat, NEW n \in Nat, WordAt(Tail(q), i, x, n + 1), n # 0
                   PROVE  Before(Tail(q), i, x, G, n)
        BY DEF NoGap
      <3>1. WordAt(q, i + 1, x, n + 1)
        BY <1>1
      <3>2. Before(q, i + 1, x, H, n)
        BY <1>1, <1>4, <3>1 DEF Line, NoGap
      <3>3. QED
        BY <1>3, <3>2
    <2>4. EndLast(Tail(q), x, r, a, G, t)
      <3> SUFFICES ASSUME NEW i \in Nat, a, CloseAt(Tail(q), i, r), t # 0
                   PROVE  Before(Tail(q), i, x, G, t)
        BY DEF EndLast
      <3>1. Before(q, i + 1, x, H, t)
        BY <1>1, <1>4 DEF Line, EndLast
      <3>2. QED
        BY <1>3, <3>1
    <2>5. QED
      BY <2>1, <2>2, <2>3, <2>4 DEF Line
  <1>5. ASSUME SaidAll(q, x, H, t) PROVE SaidAll(Tail(q), x, G, t)
    BY <1>2, <1>5 DEF SaidAll
  <1>6. QED
    BY <1>1, <1>4, <1>5 DEF NoYes, Silent

Apart(f, x, r, a) ==
  /\ ~(f.type = "ack" /\ f.body.verdict = "accepted" /\ f.body.who = x)
  /\ \A n \in Nat : ~(f.type = "event" /\ f.body = [who |-> x, nth |-> n])
  /\ a => ~(f.type = "finish" /\ f.run = r)

(* What is written behind a line: nothing of its own ... *)
LEMMA LineBeside ==
  ASSUME NEW S, NEW q \in Seq(S), NEW f \in S, NEW x, NEW r, NEW a \in BOOLEAN,
         NEW H \in SUBSET Nat, NEW t \in Nat, Apart(f, x, r, a)
  PROVE  /\ Line(q, x, r, a, H, t) => Line(Append(q, f), x, r, a, H, t)
         /\ SaidAll(q, x, H, t) => SaidAll(Append(q, f), x, H, t)
         /\ NoYes(q, x) => NoYes(Append(q, f), x)
         /\ Silent(q, x, r, a) => Silent(Append(q, f), x, r, a)
  <1>1. ASSUME NEW i \in Nat
        PROVE  /\ YesAt(Append(q, f), i, x) <=> YesAt(q, i, x)
               /\ \A n \in Nat : WordAt(Append(q, f), i, x, n) <=> WordAt(q, i, x, n)
               /\ a => (CloseAt(Append(q, f), i, r) <=> CloseAt(q, i, r))
    <2>1. /\ YesAt(Append(q, f), i, x) <=>
               \/ YesAt(q, i, x)
               \/ i = Len(q) + 1 /\ f.type = "ack" /\ f.body.verdict = "accepted" /\ f.body.who = x
          /\ \A n : WordAt(Append(q, f), i, x, n) <=>
               \/ WordAt(q, i, x, n)
               \/ i = Len(q) + 1 /\ f.type = "event" /\ f.body = [who |-> x, nth |-> n]
          /\ CloseAt(Append(q, f), i, r) <=>
               \/ CloseAt(q, i, r)
               \/ i = Len(q) + 1 /\ f.type = "finish" /\ f.run = r
      BY AfterAppend
    <2>2. QED
      BY <2>1 DEF Apart
  <1>2. \A i, n \in Nat : Before(Append(q, f), i, x, H, n) <=> Before(q, i, x, H, n)
    BY <1>1 DEF Before
  <1>3. \A n \in Nat : n + 1 \in Nat
    OBVIOUS
  <1>4. ASSUME Line(q, x, r, a, H, t) PROVE Line(Append(q, f), x, r, a, H, t)
    <2>1. YesFirst(Append(q, f), x, r, a)
      BY <1>1, <1>4 DEF Line, YesFirst
    <2>2. InOrder(Append(q, f), x, H)
      BY <1>1, <1>4 DEF Line, InOrder
    <2>3. NoGap(Append(q, f), x, H)
      BY <1>1, <1>2, <1>3, <1>4 DEF Line, NoGap
    <2>4. EndLast(Append(q, f), x, r, a, H, t)
      BY <1>1, <1>2, <1>4 DEF Line, EndLast
    <2>5. QED
      BY <2>1, <2>2, <2>3, <2>4 DEF Line
  <1>5. QED
    BY <1>1, <1>4 DEF SaidAll, NoYes, Silent

\* Nobody has heard of more than was said.
Bound(q, x, H, t) ==
  /\ \A k \in H : k <= t
  /\ \A i, n \in Nat : WordAt(q, i, x, n) => n <= t

(* ... or its next word ... *)
LEMMA LineSpeaks ==
  ASSUME NEW S, NEW q \in Seq(S), NEW f \in S, NEW x, NEW r, NEW a \in BOOLEAN,
         NEW H \in SUBSET Nat, NEW t \in Nat,
         f.type = "event", f.body = [who |-> x, nth |-> t + 1],
         Line(q, x, r, a, H, t), SaidAll(q, x, H, t), Bound(q, x, H, t),
         a => \A i \in Nat : ~CloseAt(q, i, r)
  PROVE  /\ Line(Append(q, f), x, r, a, H, t + 1)
         /\ SaidAll(Append(q, f), x, H, t + 1)
         /\ NoYes(q, x) => NoYes(Append(q, f), x)
  <1> DEFINE L == Len(q) + 1
             p == Append(q, f)
  <1>1. L \in Nat /\ Len(q) \in Nat /\ t + 1 \in Nat /\ \A i \in Nat : i <= Len(q) => i < L
    OBVIOUS
  <1>2. ASSUME NEW i \in Nat
        PROVE  /\ YesAt(p, i, x) <=> YesAt(q, i, x)
               /\ \A n \in Nat : WordAt(p, i, x, n) <=> WordAt(q, i, x, n) \/ (i = L /\ n = t + 1)
               /\ CloseAt(p, i, r) <=> CloseAt(q, i, r)
               /\ YesAt(q, i, x) => i < L
               /\ \A n \in Nat : WordAt(q, i, x, n) => i < L
    <2>1. \A n : [who |-> x, nth |-> t + 1] = [who |-> x, nth |-> n] <=> n = t + 1
      OBVIOUS
    <2>2. /\ YesAt(p, i, x) <=> YesAt(q, i, x)
          /\ \A n \in Nat : WordAt(p, i, x, n) <=> WordAt(q, i, x, n) \/ (i = L /\ n = t + 1)
          /\ CloseAt(p, i, r) <=> CloseAt(q, i, r)
      <3>1. f.type # "ack" /\ f.type # "finish"
        OBVIOUS
      <3>2. YesAt(p, i, x) <=> YesAt(q, i, x)
        BY <3>1, AfterAppend, SMTT(30)
      <3>3. CloseAt(p, i, r) <=> CloseAt(q, i, r)
        BY <3>1, AfterAppend, SMTT(30)
      <3>4. ASSUME NEW n \in Nat
            PROVE  WordAt(p, i, x, n) <=> WordAt(q, i, x, n) \/ (i = L /\ n = t + 1)
        <4>1. WordAt(p, i, x, n) <=>
                \/ WordAt(q, i, x, n)
                \/ i = L /\ f.type = "event" /\ f.body = [who |-> x, nth |-> n]
          BY AfterAppend, ZenonT(60)
        <4>2. QED
          BY <2>1, <4>1
      <3>5. QED
        BY <3>2, <3>3, <3>4
    <2>3. /\ YesAt(q, i, x) => i <= Len(q)
          /\ \A n \in Nat : WordAt(q, i, x, n) => i <= Len(q)
      BY Within
    <2>4. QED
      BY <1>1, <2>2, <2>3
  <1> HIDE DEF p, L
  <1>3. \A i, n \in Nat : Before(q, i, x, H, n) => Before(p, i, x, H, n)
    BY <1>2 DEF Before
  <1>4. YesFirst(p, x, r, a)
    BY <1>2 DEF Line, YesFirst
  <1>5. InOrder(p, x, H)
    <2>1. ASSUME NEW i \in Nat, NEW j \in Nat, NEW m \in Nat, NEW n \in Nat,
                 WordAt(p, i, x, m), WordAt(p, j, x, n), i < j
          PROVE  m < n
      <3>1. CASE WordAt(q, i, x, m) /\ WordAt(q, j, x, n)
        BY <2>1, <3>1 DEF Line, InOrder
      <3>2. CASE WordAt(q, i, x, m) /\ n = t + 1
        <4>1. m <= t
          BY <3>2 DEF Bound
        <4>2. QED
          BY <3>2, <4>1
      <3>3. CASE i = L
        <4>1. ~WordAt(q, j, x, n) /\ j # L
          BY <1>1, <1>2, <2>1, <3>3
        <4>2. QED
          BY <1>2, <2>1, <4>1
      <3>4. QED
        BY <1>2, <2>1, <3>1, <3>2, <3>3
    <2>2. ASSUME NEW i \in Nat, NEW n \in Nat, NEW k \in H, WordAt(p, i, x, n) PROVE k < n
      <3>1. CASE WordAt(q, i, x, n)
        BY <3>1 DEF Line, InOrder
      <3>2. CASE n = t + 1
        <4>1. k <= t /\ k \in Nat
          BY DEF Bound
        <4>2. QED
          BY <3>2, <4>1
      <3>3. QED
        BY <1>2, <2>2, <3>1, <3>2
    <2>3. QED
      BY <2>1, <2>2 DEF InOrder
  <1>6. NoGap(p, x, H)
    <2> SUFFICES ASSUME NEW i \in Nat, NEW n \in Nat, WordAt(p, i, x, n + 1), n # 0
                 PROVE  Before(p, i, x, H, n)
      BY DEF NoGap
    <2>1. n + 1 \in Nat
      OBVIOUS
    <2>2. CASE WordAt(q, i, x, n + 1)
      BY <1>3, <2>2 DEF Line, NoGap
    <2>3. CASE i = L /\ n + 1 = t + 1
      <3>1. n = t
        BY <2>3
      <3>2. t \in H \/ \E j \in Nat : WordAt(q, j, x, t)
        BY <3>1 DEF SaidAll
      <3>3. QED
        BY <1>2, <2>3, <3>1, <3>2 DEF Before
    <2>4. QED
      BY <1>2, <2>1, <2>2, <2>3
  <1>7. EndLast(p, x, r, a, H, t + 1)
    BY <1>2 DEF EndLast
  <1>8. SaidAll(p, x, H, t + 1)
    BY <1>1, <1>2 DEF SaidAll
  <1>9. NoYes(q, x) => NoYes(p, x)
    BY <1>2 DEF NoYes
  <1>10. QED
    BY <1>4, <1>5, <1>6, <1>7, <1>8, <1>9 DEF Line, p

(* ... or its end. *)
LEMMA LineEnds ==
  ASSUME NEW S, NEW q \in Seq(S), NEW f \in S, NEW x, NEW r, NEW a \in BOOLEAN,
         NEW H \in SUBSET Nat, NEW t \in Nat, f.type = "finish",
         Line(q, x, r, a, H, t), SaidAll(q, x, H, t)
  PROVE  /\ Line(Append(q, f), x, r, a, H, t)
         /\ SaidAll(Append(q, f), x, H, t)
         /\ NoYes(q, x) => NoYes(Append(q, f), x)
  <1> DEFINE L == Len(q) + 1
             p == Append(q, f)
  <1>1. L \in Nat /\ Len(q) \in Nat /\ \A i \in Nat : i <= Len(q) => i < L
    OBVIOUS
  <1>2. ASSUME NEW i \in Nat
        PROVE  /\ YesAt(p, i, x) <=> YesAt(q, i, x)
               /\ \A n \in Nat : WordAt(p, i, x, n) <=> WordAt(q, i, x, n)
               /\ CloseAt(p, i, r) => CloseAt(q, i, r) \/ i = L
               /\ YesAt(q, i, x) => i < L
               /\ \A n \in Nat : WordAt(q, i, x, n) => i < L
    <2>1. /\ YesAt(p, i, x) <=> YesAt(q, i, x)
          /\ \A n \in Nat : WordAt(p, i, x, n) <=> WordAt(q, i, x, n)
          /\ CloseAt(p, i, r) => CloseAt(q, i, r) \/ i = L
      BY AfterAppend
    <2>2. /\ YesAt(q, i, x) => i <= Len(q)
          /\ \A n \in Nat : WordAt(q, i, x, n) => i <= Len(q)
      BY Within
    <2>3. QED
      BY <1>1, <2>1, <2>2
  <1> HIDE DEF p, L
  <1>3. \A i, n \in Nat : Before(q, i, x, H, n) <=> Before(p, i, x, H, n)
    BY <1>2 DEF Before
  <1>4. \A n \in Nat : n + 1 \in Nat
    OBVIOUS
  <1>5. YesFirst(p, x, r, a)
    BY <1>2 DEF Line, YesFirst
  <1>6. InOrder(p, x, H) /\ SaidAll(p, x, H, t) /\ (NoYes(q, x) => NoYes(p, x))
    BY <1>2 DEF Line, InOrder, SaidAll, NoYes
  <1>7. NoGap(p, x, H)
    BY <1>2, <1>3, <1>4 DEF Line, NoGap
  <1>8. EndLast(p, x, r, a, H, t)
    <2> SUFFICES ASSUME NEW i \in Nat, a, CloseAt(p, i, r), t # 0
                 PROVE  Before(p, i, x, H, t)
      BY DEF EndLast
    <2>1. CASE CloseAt(q, i, r)
      BY <1>3, <2>1 DEF Line, EndLast
    <2>2. CASE i = L
      BY <1>2, <2>2 DEF SaidAll, Before
    <2>3. QED
      BY <1>2, <2>1, <2>2
  <1>9. QED
    BY <1>5, <1>6, <1>7, <1>8 DEF Line, p

(* The part of a line that is on a connection, when the rest never will be. *)
LEMMA LineStart ==
  ASSUME NEW S, NEW p \in Seq(S), NEW q \in Seq(S), NEW x, NEW r, NEW a \in BOOLEAN,
         NEW H \in SUBSET Nat, NEW t \in Nat, Line(p \o q, x, r, a, H, t)
  PROVE  Line(p, x, r, a, H, t)
  <1>0. Len(p) \in Nat
    OBVIOUS
  <1>1. ASSUME NEW i \in Nat
        PROVE  /\ YesAt(p, i, x) => YesAt(p \o q, i, x)
               /\ \A n \in Nat : WordAt(p, i, x, n) => WordAt(p \o q, i, x, n)
               /\ CloseAt(p, i, r) => CloseAt(p \o q, i, r)
               /\ i <= Len(p) => \A n \in Nat : WordAt(p \o q, i, x, n) => WordAt(p, i, x, n)
               /\ \A n \in Nat : WordAt(p, i, x, n) => i <= Len(p)
               /\ CloseAt(p, i, r) => i <= Len(p)
    <2>1. /\ YesAt(p, i, x) => i <= Len(p)
          /\ \A n \in Nat : WordAt(p, i, x, n) => i <= Len(p)
          /\ CloseAt(p, i, r) => i <= Len(p)
      BY Within
    <2>2. i <= Len(p) =>
            /\ YesAt(p \o q, i, x) <=> YesAt(p, i, x)
            /\ \A n : WordAt(p \o q, i, x, n) <=> WordAt(p, i, x, n)
            /\ CloseAt(p \o q, i, r) <=> CloseAt(p, i, r)
      BY AfterConcat
    <2>3. QED
      BY <2>1, <2>2
  <1>2. ASSUME NEW i \in Nat, NEW n \in Nat, i <= Len(p), Before(p \o q, i, x, H, n)
        PROVE  Before(p, i, x, H, n)
    <2>1. \A j \in Nat : j < i => j <= Len(p)
      BY <1>0, <1>2
    <2>2. QED
      BY <1>1, <1>2, <2>1 DEF Before
  <1>3. \A n \in Nat : n + 1 \in Nat
    OBVIOUS
  <1>4. YesFirst(p, x, r, a)
    BY <1>1 DEF Line, YesFirst
  <1>5. InOrder(p, x, H)
    BY <1>1 DEF Line, InOrder
  <1>6. NoGap(p, x, H)
    BY <1>1, <1>2, <1>3 DEF Line, NoGap
  <1>7. EndLast(p, x, r, a, H, t)
    BY <1>1, <1>2 DEF Line, EndLast
  <1>8. QED
    BY <1>4, <1>5, <1>6, <1>7 DEF Line

(* A line behind frames that are others'. *)
LEMMA LineBehind ==
  ASSUME NEW S, NEW p \in Seq(S), NEW q \in Seq(S), NEW x, NEW r, NEW a \in BOOLEAN,
         NEW H \in SUBSET Nat, NEW t \in Nat, NoYes(p, x), Silent(p, x, r, a)
  PROVE  /\ Line(q, x, r, a, H, t) => Line(p \o q, x, r, a, H, t)
         /\ SaidAll(q, x, H, t) => SaidAll(p \o q, x, H, t)
  <1> DEFINE L == Len(p)
             s == p \o q
  <1>0. L \in Nat
    OBVIOUS
  <1>1. ASSUME NEW i \in Nat
        PROVE  /\ YesAt(s, i, x) <=> i - L \in Nat /\ YesAt(q, i - L, x)
               /\ \A n \in Nat : WordAt(s, i, x, n) <=> i - L \in Nat /\ WordAt(q, i - L, x, n)
               /\ a => (CloseAt(s, i, r) <=> i - L \in Nat /\ CloseAt(q, i - L, r))
    <2>1. CASE i <= L
      <3>1. /\ YesAt(s, i, x) <=> YesAt(p, i, x)
            /\ \A n : WordAt(s, i, x, n) <=> WordAt(p, i, x, n)
            /\ CloseAt(s, i, r) <=> CloseAt(p, i, r)
        BY <2>1, AfterConcat
      <3>2. i - L \in Nat => i - L = 0
        BY <1>0, <2>1
      <3>3. ~YesAt(q, 0, x) /\ ~CloseAt(q, 0, r) /\ \A n \in Nat : ~WordAt(q, 0, x, n)
        BY Within
      <3>4. QED
        BY <3>1, <3>2, <3>3 DEF NoYes, Silent
    <2>2. CASE ~(i <= L)
      <3>1. /\ i - L \in Nat
            /\ YesAt(s, i, x) <=> YesAt(q, i - L, x)
            /\ \A n : WordAt(s, i, x, n) <=> WordAt(q, i - L, x, n)
            /\ CloseAt(s, i, r) <=> CloseAt(q, i - L, r)
        BY <2>2, AfterConcat
      <3>2. QED
        BY <3>1
    <2>3. QED
      BY <2>1, <2>2
  <1>2. ASSUME NEW j \in Nat, NEW n \in Nat, WordAt(q, j, x, n)
        PROVE  j + L \in Nat /\ WordAt(s, j + L, x, n)
    <2>1. j + L \in Nat /\ (j + L) - L = j
      BY <1>0
    <2>2. QED
      BY <1>1, <1>2, <2>1
  <1> HIDE DEF s
  <1>3. ASSUME NEW i \in Nat, NEW n \in Nat, i - L \in Nat, Before(q, i - L, x, H, n)
        PROVE  Before(s, i, x, H, n)
    <2>1. ASSUME NEW j \in Nat, j < i - L, WordAt(q, j, x, n)
          PROVE  j + L \in Nat /\ j + L < i /\ WordAt(s, j + L, x, n)
      <3>1. j + L < i
        BY <1>0, <2>1
      <3>2. QED
        BY <1>2, <2>1, <3>1
    <2>2. QED
      BY <1>3, <2>1 DEF Before
  <1>4. \A i, j \in Nat : i - L = j - L => i = j
    BY <1>0
  <1>5. \A i, j \in Nat : i < j <=> i - L < j - L
    BY <1>0
  <1>6. \A n \in Nat : n + 1 \in Nat
    OBVIOUS
  <1> HIDE DEF L
  <1>7. ASSUME Line(q, x, r, a, H, t) PROVE Line(s, x, r, a, H, t)
    <2>1. YesFirst(s, x, r, a)
      BY <1>1, <1>4, <1>5, <1>7 DEF Line, YesFirst
    <2>2. InOrder(s, x, H)
      BY <1>1, <1>5, <1>7 DEF Line, InOrder
    <2>3. NoGap(s, x, H)
      BY <1>1, <1>3, <1>6, <1>7 DEF Line, NoGap
    <2>4. EndLast(s, x, r, a, H, t)
      BY <1>1, <1>3, <1>7 DEF Line, EndLast
    <2>5. QED
      BY <2>1, <2>2, <2>3, <2>4 DEF Line
  <1>8. SaidAll(q, x, H, t) => SaidAll(s, x, H, t)
    BY <1>2 DEF SaidAll
  <1>9. QED
    BY <1>7, <1>8 DEF s

(* Less is claimed of a run that somebody else has too. *)
LEMMA LineLoses ==
  ASSUME NEW q, NEW x, NEW r, NEW a \in BOOLEAN, NEW b \in BOOLEAN, b => a, NEW H, NEW t
  PROVE  /\ Line(q, x, r, a, H, t) => Line(q, x, r, b, H, t)
         /\ Silent(q, x, r, a) => Silent(q, x, r, b)
  BY DEF Line, YesFirst, EndLast, Silent

\* Nothing is claimed of the end of one that goes on.
LEMMA LineGoesOn ==
  ASSUME NEW q, NEW x, NEW r, NEW a, NEW H, NEW t, NEW u, a => \A i \in Nat : ~CloseAt(q, i, r),
         Line(q, x, r, a, H, t)
  PROVE  Line(q, x, r, a, H, u)
  BY DEF Line, EndLast

\* The word at the head of a line is the one that is due.
LEMMA LineIsDue ==
  ASSUME NEW S, NEW q \in Seq(S), NEW x, NEW r, NEW a, NEW H \in SUBSET Nat, NEW t,
         NEW n \in Nat, Line(q, x, r, a, H, t), WordAt(q, 1, x, n + 1)
  PROVE  (n = 0 \/ n \in H) /\ \A k \in H : k < n + 1
  <1>1. ASSUME NEW j \in Nat, j < 1 PROVE ~WordAt(q, j, x, n)
    <2>1. j = 0
      BY <1>1
    <2>2. QED
      BY <2>1, Within
  <1>2. n = 0 \/ n \in H
    BY <1>1 DEF Line, NoGap, Before
  <1>3. n + 1 \in Nat
    OBVIOUS
  <1>4. \A k \in H : k < n + 1
    BY <1>3 DEF Line, InOrder
  <1>5. QED
    BY <1>2, <1>4

\* An end at the head of a line is behind all that was said.
LEMMA LineIsOver ==
  ASSUME NEW S, NEW q \in Seq(S), NEW x, NEW r, NEW H, NEW t \in Nat,
         Line(q, x, r, TRUE, H, t), CloseAt(q, 1, r)
  PROVE  t = 0 \/ t \in H
  <1>1. ASSUME NEW j \in Nat, j < 1 PROVE ~WordAt(q, j, x, t)
    <2>1. j = 0
      BY <1>1
    <2>2. QED
      BY <2>1, Within
  <1>2. QED
    BY <1>1 DEF Line, EndLast, Before

\* Behind its yes, at the head of a line, nothing of it was there before.
LEMMA YesIsFirst ==
  ASSUME NEW S, NEW q \in Seq(S), NEW x, NEW r, NEW a \in BOOLEAN, NEW H, NEW t,
         q # <<>>, Line(q, x, r, a, H, t)
  PROVE  /\ YesAt(q, 1, x) => NoYes(Tail(q), x)
         /\ ~NoYes(q, x) => \A n \in Nat : ~WordAt(q, 1, x, n)
         /\ ~NoYes(q, x) /\ a => ~CloseAt(q, 1, r)
  <1>1. ASSUME YesAt(q, 1, x), NEW i \in Nat, YesAt(Tail(q), i, x) PROVE FALSE
    <2>1. i # 0 /\ YesAt(q, i + 1, x) /\ i + 1 \in Nat
      <3>1. i + 1 \in Nat
        OBVIOUS
      <3>2. QED
        BY <1>1, <3>1, AfterTail
    <2>2. i + 1 = 1
      BY <1>1, <2>1 DEF Line, YesFirst
    <2>3. QED
      BY <2>1, <2>2
  <1>2. ASSUME NEW i \in Nat, YesAt(q, i, x), i < 1 PROVE FALSE
    <2>1. i = 0
      BY <1>2
    <2>2. QED
      BY <1>2, <2>1, Within
  <1>3. QED
    BY <1>1, <1>2 DEF Line, YesFirst, NoYes

-----------------------------------------------------------------------------
(* What a step does to an execution, and to the queues. *)

LEMMA ExecSteps ==
  ASSUME Types, [Next]_vars, NEW x \in Executions
  PROVE  \/ exec'[x] = exec[x]
         \/ TakeRun(x) /\ exec[x].stage = "free"
         \/ Report(x) /\ exec'[x] = [exec[x] EXCEPT !.told = exec[x].told + 1]
         \/ /\ TakeCancel /\ Working(x) /\ exec[x].run = Head(down[link]).run
            /\ exec'[x] = [exec[x] EXCEPT !.stage = "ending"]
         \/ Finish(x) /\ exec'[x] = [exec[x] EXCEPT !.stage = "done"]
  <1>0. exec \in [Executions -> ExecRecords]
    BY DEF Types, LoopTypes
  <1>1. ASSUME NEW y \in Executions, TakeRun(y)
        PROVE  exec'[x] = exec[x] \/ (TakeRun(x) /\ exec[x].stage = "free")
    <2>1. exec[y].stage = "free" /\ (x # y => exec'[x] = exec[x])
      BY <1>0, <1>1 DEF TakeRun
    <2>2. QED
      BY <1>1, <2>1
  <1>2. ASSUME NEW y \in Executions, Report(y)
        PROVE  \/ exec'[x] = exec[x]
               \/ Report(x) /\ exec'[x] = [exec[x] EXCEPT !.told = exec[x].told + 1]
    <2>1. /\ x # y => exec'[x] = exec[x]
          /\ exec'[y] = [exec[y] EXCEPT !.told = exec[y].told + 1]
      BY <1>0, <1>2 DEF Report
    <2>2. QED
      BY <1>2, <2>1
  <1>3. ASSUME NEW y \in Executions, Finish(y)
        PROVE  \/ exec'[x] = exec[x]
               \/ Finish(x) /\ exec'[x] = [exec[x] EXCEPT !.stage = "done"]
    <2>1. /\ x # y => exec'[x] = exec[x]
          /\ exec'[y] = [exec[y] EXCEPT !.stage = "done"]
      BY <1>0, <1>3 DEF Finish
    <2>2. QED
      BY <1>3, <2>1
  <1>4. CASE TakeCancel
    BY <1>4 DEF TakeCancel, Ends
  <1>5. CASE UNCHANGED exec
    BY <1>5
  <1>6. CASE \E y \in Executions : Ask(y) \/ QueryTimeout(y)
    BY <1>5, <1>6 DEF Ask, QueryTimeout
  <1>7. CASE \/ GatewayNext /\ UNCHANGED <<agentVars, answering>>
             \/ \E c \in Connections : ReadQuery(c) \/ WireBreaks(c)
             \/ \E t \in answering : AnswerQuery(t)
             \/ UNCHANGED vars
    BY <1>5, <1>7 DEF ReadQuery, WireBreaks, AnswerQuery, agentVars, vars, linkVars
  <1>8. CASE \/ Dial \/ Welcomed \/ Registered \/ CeremonyFails \/ ConnectionEnds
             \/ Write \/ WriterFails \/ TurnDown \/ TakeError \/ TakeResult
    BY <1>5, <1>8 DEF Dial, Welcomed, Registered, CeremonyFails, ConnectionEnds, Write, WriterFails,
                      TurnDown, TakeError, TakeResult, agentVars
  <1>9. QED
    BY <1>1, <1>2, <1>3, <1>4, <1>6, <1>7, <1>8, LinkCases

\* An execution stays on its run, and says more or the same.
LEMMA ExecStays ==
  ASSUME Types, [Next]_vars, NEW x \in Executions, exec[x].stage # "free"
  PROVE  /\ exec'[x].stage # "free" /\ exec'[x].run = exec[x].run
         /\ exec'[x].told = exec[x].told \/ (Report(x) /\ exec'[x].told = exec[x].told + 1)
         /\ exec'[x].told \in Nat /\ exec[x].told \in Nat /\ exec[x].told <= exec'[x].told
         /\ exec[x].stage = "done" => exec'[x] = exec[x]
  <1>1. exec[x] \in ExecRecords /\ exec[x].told \in Nat
    BY AgentAssumption DEF Types, LoopTypes, ExecRecords
  <1>2. CASE exec'[x] = exec[x]
    BY <1>1, <1>2
  <1>3. CASE Report(x) /\ exec'[x] = [exec[x] EXCEPT !.told = exec[x].told + 1]
    <2>1. exec[x].stage # "done"
      BY <1>3 DEF Report, Working
    <2>2. exec'[x].stage = exec[x].stage /\ exec'[x].run = exec[x].run /\ exec'[x].told = exec[x].told + 1
      BY <1>1, <1>3 DEF ExecRecords
    <2>3. QED
      BY <1>1, <1>3, <2>1, <2>2
  <1>4. CASE Working(x) /\ exec'[x] = [exec[x] EXCEPT !.stage = "ending"]
    <2>1. exec'[x].stage = "ending" /\ exec'[x].run = exec[x].run /\ exec'[x].told = exec[x].told
      BY <1>1, <1>4 DEF ExecRecords
    <2>2. QED
      BY <1>1, <1>4, <2>1 DEF Working
  <1>5. CASE Finish(x) /\ exec'[x] = [exec[x] EXCEPT !.stage = "done"]
    <2>1. exec'[x].stage = "done" /\ exec'[x].run = exec[x].run /\ exec'[x].told = exec[x].told
      BY <1>1, <1>5 DEF ExecRecords
    <2>2. exec[x].stage # "done"
      BY <1>5 DEF Finish, Over, Working
    <2>3. QED
      BY <1>1, <2>1, <2>2
  <1>6. QED
    BY <1>2, <1>3, <1>4, <1>5, ExecSteps

LEMMA BeganStays ==
  ASSUME Types, [Next]_vars, NEW x, NEW r, Began(x, r)
  PROVE  Began(x, r)'
  BY ExecStays DEF Began

\* What was meant once stays so.
LEMMA MeantStays ==
  ASSUME Types, [Next]_vars
  PROVE  Meant \subseteq Meant'
  <1> SUFFICES ASSUME NEW f \in Meant PROVE f \in Meant'
    OBVIOUS
  <1>1. f \in Frames
    BY DEF Meant
  <1>2. CASE Opener(f)
    BY <1>1, <1>2 DEF Meant, Opener
  <1>3. CASE Verdict(f)
    <2>1. Verdict(f)'
      BY <1>3, BeganStays DEF Verdict
    <2>2. QED
      BY <1>1, <2>1 DEF Meant
  <1>4. CASE Event(f)
    <2>1. Began(f.body.who, f.run) /\ f.body.who \in Executions /\ exec[f.body.who].stage # "free"
      BY <1>4 DEF Event, Began
    <2>2. exec[f.body.who].told <= exec'[f.body.who].told
          /\ exec'[f.body.who].told \in Nat /\ exec[f.body.who].told \in Nat
      BY <2>1, ExecStays
    <2>3. f.body.nth \in 1..exec'[f.body.who].told
      <3>1. f.body.nth \in 1..exec[f.body.who].told
        BY <1>4 DEF Event
      <3>2. QED
        BY <2>2, <3>1
    <2>4. Began(f.body.who, f.run)'
      BY <2>1, BeganStays
    <2>5. Event(f)'
      BY <1>4, <2>3, <2>4 DEF Event
    <2>6. QED
      BY <1>1, <2>5 DEF Meant
  <1>5. CASE Closing(f)
    <2>1. PICK x \in Executions : Began(x, f.run) /\ exec[x].stage = "done"
      BY <1>5 DEF Closing
    <2>2. Began(x, f.run)' /\ exec'[x].stage = "done"
      BY <2>1, BeganStays, ExecStays DEF Began
    <2>3. Closing(f)'
      BY <1>5, <2>2 DEF Closing
    <2>4. QED
      BY <1>1, <2>3 DEF Meant
  <1>6. QED
    BY <1>2, <1>3, <1>4, <1>5 DEF Meant

LEMMA UpSteps ==
  ASSUME Types, QueryInv, [Next]_vars
  PROVE  \/ UNCHANGED up
         \/ \E c \in Connections :
              /\ Read(c) \/ ReadQuery(c)
              /\ up[c] # <<>> /\ up' = [up EXCEPT ![c] = Tail(@)] /\ UNCHANGED wire
         \/ \E c \in Connections :
              /\ RefuseHello(c) \/ Disconnect(c)
              /\ up' = [up EXCEPT ![c] = <<>>] /\ wire' = [wire EXCEPT ![c] = "broken"]
         \/ Dial \/ Welcomed \/ Write
  <1>1. CASE GatewayNext
    <2>1. ASSUME NEW r \in Runs, StartRun(r) \/ Offer(r) \/ TakeBack(r) \/ CancelRun(r)
          PROVE  UNCHANGED up
      BY <2>1 DEF StartRun, Offer, TakeBack, CancelRun
    <2>2. ASSUME NEW c \in Connections, Read(c)
          PROVE  up[c] # <<>> /\ up' = [up EXCEPT ![c] = Tail(@)] /\ UNCHANGED wire
      BY <2>2 DEF Read, Reading, Handle
    <2>3. ASSUME NEW c \in Connections, RefuseHello(c) \/ Disconnect(c)
          PROVE  up' = [up EXCEPT ![c] = <<>>] /\ wire' = [wire EXCEPT ![c] = "broken"]
      BY <2>3 DEF RefuseHello, Disconnect, Types, WireTypes
    <2>4. QED
      BY <1>1, <2>1, <2>2, <2>3 DEF GatewayNext
  <1>2. ASSUME NEW c \in Connections, ReadQuery(c)
        PROVE  up[c] # <<>> /\ up' = [up EXCEPT ![c] = Tail(@)] /\ UNCHANGED wire
    BY <1>2 DEF ReadQuery, Reading
  <1>3. CASE \/ Registered \/ CeremonyFails \/ ConnectionEnds \/ WriterFails
             \/ TurnDown \/ TakeCancel \/ TakeError \/ TakeResult
    BY <1>3 DEF Registered, CeremonyFails, ConnectionEnds, WriterFails, TurnDown, TakeCancel, TakeError,
                TakeResult, relayVars
  <1>4. CASE \E x \in Executions : TakeRun(x) \/ Report(x) \/ Finish(x) \/ Ask(x) \/ QueryTimeout(x)
    BY <1>4 DEF TakeRun, Report, Finish, Ask, QueryTimeout, relayVars
  <1>5. CASE \/ \E c \in Connections : WireBreaks(c)
             \/ \E t \in answering : AnswerQuery(t)
             \/ UNCHANGED vars
    BY <1>5 DEF WireBreaks, AnswerQuery, vars, linkVars, relayVars
  <1>6. QED
    BY <1>1, <1>2, <1>3, <1>4, <1>5, LinkCases

LEMMA OutSteps ==
  ASSUME [Next]_vars
  PROVE  \/ UNCHANGED outbound
         \/ (Write \/ WriterFails) /\ outbound # <<>> /\ outbound' = Tail(outbound)
         \/ TurnDown
         \/ \E x \in Executions : TakeRun(x) \/ Report(x) \/ Finish(x) \/ Ask(x)
  <1>1. CASE GatewayNext /\ UNCHANGED <<agentVars, answering>>
    BY <1>1 DEF agentVars
  <1>2. CASE \/ Dial \/ Welcomed \/ Registered \/ CeremonyFails \/ ConnectionEnds
             \/ TakeCancel \/ TakeError \/ TakeResult
    BY <1>2 DEF Dial, Welcomed, Registered, CeremonyFails, ConnectionEnds, TakeCancel, TakeError,
                TakeResult, agentVars
  <1>3. CASE Write \/ WriterFails
    BY <1>3 DEF Write, WriterFails
  <1>4. CASE \/ \E x \in Executions : QueryTimeout(x)
             \/ \E c \in Connections : ReadQuery(c) \/ WireBreaks(c)
             \/ \E t \in answering : AnswerQuery(t)
             \/ UNCHANGED vars
    BY <1>4 DEF QueryTimeout, ReadQuery, WireBreaks, AnswerQuery, vars, linkVars, agentVars
  <1>5. QED
    BY <1>1, <1>2, <1>3, <1>4, LinkCases

LEMMA DownSteps ==
  ASSUME Types, QueryInv, [Next]_vars
  PROVE  \/ UNCHANGED down
         \/ \E r \in Runs : Offer(r) \/ CancelRun(r)
         \/ \E c \in Connections, f \in Frames : f.type \notin {"run", "cancel"} /\ Post(c, f)
         \/ Heard /\ Took
         \/ \E c \in Connections : down' = [down EXCEPT ![c] = <<>>]
  <1> USE DEF Types, QueryInv
  <1>1. CASE GatewayNext
    <2>1. ASSUME NEW r \in Runs, StartRun(r) \/ TakeBack(r) PROVE UNCHANGED down
      BY <2>1 DEF StartRun, TakeBack
    <2>2. ASSUME NEW c \in Connections, RefuseHello(c) \/ Disconnect(c) PROVE UNCHANGED down
      BY <2>2 DEF RefuseHello, Disconnect
    <2>3. ASSUME NEW c \in Connections, Read(c)
          PROVE  \/ UNCHANGED down
                 \/ \E f \in Frames : f.type \notin {"run", "cancel"} /\ Post(c, f)
      <3> DEFINE f == Head(up[c])
      <3>1. /\ Note("welcome").type = "welcome"
            /\ Note("registered").type = "registered" /\ Note("error").type = "error"
            /\ Frame("error", f.run, None).type = "error"
        BY DEF Note, Frame
      <3>2. f \in Frames
        BY <2>3, HeadTail DEF Read, Reading, WireTypes
      <3>3. Frame("error", f.run, None) \in Frames
        BY <3>2 DEF Frame, Frames, FrameTypes, Bodies
      <3>4. CASE Attach(c)
        BY <3>1, <3>4, NoteType DEF Attach
      <3>5. CASE Register(c)
        BY <3>1, <3>5, NoteType DEF Register
      <3>6. CASE ReadAck(c, f)
        BY <3>6 DEF ReadAck
      <3>7. CASE ReadReport(c, f)
        BY <3>1, <3>3, <3>7 DEF ReadReport
      <3>8. QED
        BY <2>3, <3>4, <3>5, <3>6, <3>7 DEF Read, Handle
    <2>4. QED
      BY <1>1, <2>1, <2>2, <2>3 DEF GatewayNext
  <1>2. ASSUME NEW t \in answering, AnswerQuery(t)
        PROVE  \/ UNCHANGED down
               \/ \E c \in Connections, f \in Frames : f.type \notin {"run", "cancel"} /\ Post(c, f)
    <2>1. /\ Frame("queryResult", None, t.question) \in Frames
          /\ Frame("queryResult", None, t.question).type = "queryResult"
          /\ t.on \in Connections
      BY DEF Frame, Frames, FrameTypes, Bodies, LoopTypes
    <2>2. QED
      BY <1>2, <2>1 DEF AnswerQuery
  <1>3. CASE Dial \/ Write \/ WriterFails
    BY <1>3 DEF Dial, Write, WriterFails, relayVars
  <1>4. CASE Welcomed \/ Registered \/ TurnDown \/ TakeCancel \/ TakeError \/ TakeResult
    BY <1>4 DEF Welcomed, Registered, TurnDown, TakeCancel, TakeError, TakeResult, Serving, Hears
  <1>5. CASE CeremonyFails \/ ConnectionEnds
    <2>1. link \in Connections /\ down' = [down EXCEPT ![link] = <<>>]
      BY <1>5 DEF CeremonyFails, ConnectionEnds, LinkEnds, Whereabouts
    <2>2. QED
      BY <2>1
  <1>6. ASSUME NEW x \in Executions, TakeRun(x) \/ Report(x) \/ Finish(x) \/ Ask(x) \/ QueryTimeout(x)
        PROVE  UNCHANGED down \/ (Heard /\ Took)
    BY <1>6 DEF TakeRun, Report, Finish, Ask, QueryTimeout, Serving, Hears, relayVars
  <1>7. CASE \E c \in Connections : ReadQuery(c) \/ WireBreaks(c)
    BY <1>7 DEF ReadQuery, WireBreaks
  <1>8. CASE UNCHANGED vars
    BY <1>8 DEF vars, linkVars, relayVars
  <1>9. QED
    BY <1>1, <1>2, <1>3, <1>4, <1>5, <1>6, <1>7, <1>8, LinkCases

LEMMA SeqMore ==
  ASSUME NEW S, NEW T, S \subseteq T, NEW s \in Seq(S)
  PROVE  s \in Seq(T)
  OBVIOUS

LEMMA QueueTypes ==
  ASSUME NEW S, NEW F \in [Connections -> Seq(S)], NEW c \in Connections
  PROVE  /\ F[c] # <<>> => Head(F[c]) \in S /\ [F EXCEPT ![c] = Tail(@)] \in [Connections -> Seq(S)]
         /\ [F EXCEPT ![c] = <<>>] \in [Connections -> Seq(S)]
         /\ \A f \in S : /\ [F EXCEPT ![c] = <<f>>] \in [Connections -> Seq(S)]
                         /\ [F EXCEPT ![c] = Append(@, f)] \in [Connections -> Seq(S)]
  <1>1. F[c] \in Seq(S)
    OBVIOUS
  <1>2. /\ F[c] # <<>> => Head(F[c]) \in S /\ Tail(F[c]) \in Seq(S)
        /\ <<>> \in Seq(S)
        /\ \A f \in S : <<f>> \in Seq(S) /\ Append(F[c], f) \in Seq(S)
    BY <1>1
  <1>3. QED
    BY <1>2

LEMMA SendQueue ==
  ASSUME WireTypes, Whereabouts, at # "waiting", NEW f, Send(f)
  PROVE  /\ link \in Connections
         /\ \/ UNCHANGED up /\ wire[link] # "up"
            \/ up' = [up EXCEPT ![link] = Append(@, f)] /\ wire[link] = "up"
  BY DEF Send, Whereabouts

LEMMA FrameIs ==
  ASSUME NEW type, NEW run, NEW body
  PROVE  /\ Frame(type, run, body).type = type /\ Frame(type, run, body).run = run
         /\ Frame(type, run, body).body = body
  BY DEF Frame

LEMMA TakesOrder ==
  ASSUME Types, QueryInv, Owned, NEW type, Serving(type)
  PROVE  /\ link \in Connections /\ down[link] # <<>> /\ Head(down[link]) \in Orders
         /\ Head(down[link]).type = type
         /\ down' = [down EXCEPT ![link] = Tail(@)]
         /\ type \in {"run", "cancel"} => Head(down[link]).run \in Runs
  <1>1. link \in Connections /\ down[link] # <<>> /\ Head(down[link]).type = type
    BY DEF Serving, Hears, Heard, QueryInv, Whereabouts
  <1>2. Head(down[link]) \in Orders
    BY <1>1, QueueTypes DEF Owned
  <1>3. QED
    BY <1>1, <1>2 DEF Orders, Serving, Took

(* What the link writes in its queue. *)
LEMMA SayingMeant ==
  ASSUME Types, QueryInv, Owned, [Next]_vars,
         TurnDown \/ \E x \in Executions : TakeRun(x) \/ Report(x) \/ Finish(x) \/ Ask(x)
  PROVE  \E f \in Sayings' : outbound' = Append(outbound, f)
  <1>0. exec \in [Executions -> ExecRecords] /\ exec' \in [Executions -> ExecRecords]
    BY TypesNext DEF Types, LoopTypes
  <1>1. CASE TurnDown
    <2>1. PICK r, v : r = Head(down[link]).run /\ v \in {"declined", "refused"} /\ Ack(r, v, None)
      BY <1>1 DEF TurnDown
    <2>2. r \in Runs
      BY <1>1, <2>1, TakesOrder DEF TurnDown
    <2>3. [verdict |-> v, who |-> None] \in Verdicts /\ v # "accepted"
      BY <2>1 DEF Verdicts
    <2>4. PICK f : f = Frame("ack", r, [verdict |-> v, who |-> None])
      OBVIOUS
    <2>5. f.type = "ack" /\ f.run = r /\ f.body = [verdict |-> v, who |-> None] /\ f.body.verdict = v
      BY <2>4, FrameIs
    <2>6. f \in Frames
      BY <2>2, <2>3, <2>4 DEF Frame, Frames, FrameTypes, Bodies
    <2>7. Verdict(f)'
      BY <2>2, <2>3, <2>5 DEF Verdict
    <2>8. f \in Sayings'
      BY <2>5, <2>6, <2>7 DEF Meant, Sayings
    <2>9. QED
      BY <2>1, <2>4, <2>8 DEF Ack, Say
  <1>2. ASSUME NEW x \in Executions, TakeRun(x) PROVE \E f \in Sayings' : outbound' = Append(outbound, f)
    <2>1. PICK r : r = Head(down[link]).run
      OBVIOUS
    <2>2. /\ Ack(r, "accepted", x)
          /\ exec' = [exec EXCEPT ![x] = [run |-> r, stage |-> "working", told |-> 0]]
      BY <1>2, <2>1 DEF TakeRun
    <2>3. r \in Runs
      BY <1>2, <2>1, TakesOrder DEF TakeRun
    <2>4. [verdict |-> "accepted", who |-> x] \in Verdicts
      BY DEF Verdicts
    <2>5. PICK f : f = Frame("ack", r, [verdict |-> "accepted", who |-> x])
      OBVIOUS
    <2>6. f.type = "ack" /\ f.run = r /\ f.body = [verdict |-> "accepted", who |-> x] /\ f.body.who = x
      BY <2>5, FrameIs
    <2>7. f \in Frames
      BY <2>3, <2>4, <2>5 DEF Frame, Frames, FrameTypes, Bodies
    <2>8. Began(x, r)'
      BY <1>0, <2>2, <2>3 DEF Began
    <2>9. Verdict(f)'
      BY <2>3, <2>4, <2>6, <2>8 DEF Verdict
    <2>10. f \in Sayings'
      BY <2>6, <2>7, <2>9 DEF Meant, Sayings
    <2>11. QED
      BY <2>2, <2>5, <2>10 DEF Ack, Say
  <1>3. ASSUME NEW x \in Executions, Report(x)
        PROVE  \E f \in Sayings' : outbound' = Append(outbound, f)
    <2>1. PICK r, n, f : /\ r = exec[x].run /\ n = exec[x].told + 1
                         /\ f = Frame("event", r, [who |-> x, nth |-> n])
      OBVIOUS
    <2>2. exec' = [exec EXCEPT ![x] = [exec[x] EXCEPT !.told = n]] /\ exec[x].stage = "working" /\ Say(f)
      BY <1>3, <2>1 DEF Report, Working, Told
    <2>3. n \in Nat /\ n \in 1..n
      BY <1>0, <2>1, AgentAssumption DEF ExecRecords
    <2>4. exec'[x].told = n /\ exec'[x].run = r /\ exec'[x].stage # "free" /\ r \in Runs
      BY <1>0, <2>1, <2>2 DEF ExecRecords, Owned
    <2>5. [who |-> x, nth |-> n] \in Tellings
      BY <2>3 DEF Tellings
    <2>6. f.type = "event" /\ f.run = r /\ f.body = [who |-> x, nth |-> n] /\ f.body.who = x /\ f.body.nth = n
      BY <2>1, FrameIs
    <2>7. f \in Frames
      BY <2>1, <2>4, <2>5 DEF Frame, Frames, FrameTypes, Bodies
    <2>8. Began(x, r)'
      BY <2>4 DEF Began
    <2>9. Event(f)'
      BY <2>3, <2>4, <2>5, <2>6, <2>8 DEF Event
    <2>10. f \in Sayings'
      BY <2>6, <2>7, <2>9 DEF Meant, Sayings
    <2>11. QED
      BY <2>2, <2>10 DEF Say
  <1>4. ASSUME NEW x \in Executions, Finish(x)
        PROVE  \E f \in Sayings' : outbound' = Append(outbound, f)
    <2>1. PICK r, f : r = exec[x].run /\ f = Frame("finish", r, None)
      OBVIOUS
    <2>2. /\ exec' = [exec EXCEPT ![x] = [exec[x] EXCEPT !.stage = "done"]] /\ Say(f)
          /\ exec[x].stage # "free"
      BY <1>4, <2>1 DEF Finish, Over, Working
    <2>3. exec'[x].run = r /\ exec'[x].stage = "done" /\ r \in Runs
      BY <1>0, <2>1, <2>2 DEF ExecRecords, Owned
    <2>4. f.type = "finish" /\ f.run = r
      BY <2>1, FrameIs
    <2>5. f \in Frames
      BY <2>1, <2>3 DEF Frame, Frames, FrameTypes, Bodies
    <2>6. Began(x, r)'
      BY <2>3 DEF Began
    <2>7. Closing(f)'
      BY <2>3, <2>4, <2>6 DEF Closing
    <2>8. f \in Sayings'
      BY <2>4, <2>5, <2>7 DEF Meant, Sayings
    <2>9. QED
      BY <2>2, <2>8 DEF Say
  <1>5. ASSUME NEW x \in Executions, Ask(x) PROVE \E f \in Sayings' : outbound' = Append(outbound, f)
    <2>1. PICK b, f : b = [who |-> x, nth |-> asks + 1] /\ f = Frame("query", None, b)
      OBVIOUS
    <2>2. Say(f)
      BY <1>5, <2>1 DEF Ask
    <2>3. b \in Tellings
      BY <2>1, AgentAssumption DEF Types, LoopTypes, Tellings
    <2>4. f.type = "query"
      BY <2>1, FrameIs
    <2>5. f \in Frames
      BY <2>1, <2>3 DEF Frame, Frames, FrameTypes, Bodies
    <2>6. f \in Sayings'
      BY <2>4, <2>5 DEF Meant, Sayings, Opener
    <2>7. QED
      BY <2>2, <2>6 DEF Say
  <1>6. QED
    BY <1>1, <1>2, <1>3, <1>4, <1>5

LEMMA PostOrder ==
  ASSUME Owned, NEW c, NEW f \in Orders, Post(c, f)
  PROVE  down' \in [Connections -> Seq(Orders)]
  <1>1. down \in [Connections -> Seq(Orders)]
    BY DEF Owned
  <1>2. CASE c \in Connections
    BY <1>1, <1>2, QueueTypes DEF Post
  <1>3. CASE c \notin Connections
    <2>1. [down EXCEPT ![c] = Append(@, f)] = down
      BY <1>1, <1>3
    <2>2. QED
      BY <1>1, <2>1 DEF Post
  <1>4. QED
    BY <1>2, <1>3

LEMMA OwnedInit == Init => Owned
  <1>1. \A S : <<>> \in Seq(S)
    OBVIOUS
  <1>2. QED
    BY <1>1 DEF Init, RelayInit, Owned, Idle

LEMMA OwnedNext == QueryInv /\ Types /\ Owned /\ [Next]_vars => Owned'
  <1> SUFFICES ASSUME QueryInv, Types, Owned, [Next]_vars PROVE Owned'
    OBVIOUS
  <1>1. Meant \subseteq Meant' /\ Sayings \subseteq Sayings' /\ Sayings \subseteq Meant
    BY MeantStays DEF Sayings
  <1>2. outbound' \in Seq(Sayings')
    <2>0. outbound \in Seq(Sayings)
      BY DEF Owned
    <2>1. outbound \in Seq(Sayings')
      BY <1>1, <2>0, SeqMore
    <2>2. CASE outbound # <<>> /\ outbound' = Tail(outbound)
      BY <2>1, <2>2, HeadTail
    <2>3. ASSUME NEW f \in Sayings', outbound' = Append(outbound, f) PROVE outbound' \in Seq(Sayings')
      BY <2>1, <2>3
    <2>4. QED
      BY <2>1, <2>2, <2>3, OutSteps, SayingMeant
  <1>3. up' \in [Connections -> Seq(Meant')]
    <2>1. up \in [Connections -> Seq(Meant')]
      BY <1>1, SeqMore DEF Owned
    <2>2. ASSUME NEW f, f \in Meant', at # "waiting", Send(f) PROVE up' \in [Connections -> Seq(Meant')]
      <3>1. link \in Connections /\ (UNCHANGED up \/ up' = [up EXCEPT ![link] = Append(@, f)])
        BY <2>2, SendQueue DEF Types, QueryInv
      <3>2. PICK S : S = Meant'
        OBVIOUS
      <3>3. up \in [Connections -> Seq(S)] /\ f \in S
        BY <2>1, <2>2, <3>2
      <3>4. up' \in [Connections -> Seq(S)]
        BY <3>1, <3>3, QueueTypes
      <3>5. QED
        BY <3>2, <3>4
    <2>3. CASE Dial
      <3>1. PICK c \in Connections : up' = [up EXCEPT ![c] = <<Note("hello")>>]
        BY <2>3 DEF Dial, Fresh
      <3>2. Note("hello") \in Meant'
        BY NoteType, FrameIs DEF Meant, Opener, Note
      <3>3. QED
        BY <2>1, <3>1, <3>2, QueueTypes
    <2>4. CASE Welcomed
      <3>1. PICK f : f = Note("register")
        OBVIOUS
      <3>2. f \in Meant'
        BY <3>1, NoteType, FrameIs DEF Meant, Opener, Note
      <3>3. QED
        BY <2>2, <2>4, <3>1, <3>2 DEF Welcomed
    <2>5. CASE Write
      <3>1. PICK f : f = Head(outbound)
        OBVIOUS
      <3>2. f \in Sayings
        BY <2>5, <3>1, HeadTail DEF Write, Owned
      <3>3. at # "waiting"
        BY <2>5 DEF Write, Types, LoopTypes
      <3>4. QED
        BY <1>1, <2>2, <2>5, <3>1, <3>2, <3>3 DEF Write
    <2>6. ASSUME NEW c \in Connections,
                 \/ up[c] # <<>> /\ up' = [up EXCEPT ![c] = Tail(@)]
                 \/ up' = [up EXCEPT ![c] = <<>>]
          PROVE  up' \in [Connections -> Seq(Meant')]
      <3>1. PICK S : S = Meant'
        OBVIOUS
      <3>2. up \in [Connections -> Seq(S)]
        BY <2>1, <3>1
      <3>3. /\ up[c] # <<>> => [up EXCEPT ![c] = Tail(@)] \in [Connections -> Seq(S)]
            /\ [up EXCEPT ![c] = <<>>] \in [Connections -> Seq(S)]
        BY <3>2, QueueTypes
      <3>5. up' \in [Connections -> Seq(S)]
        BY <2>6, <3>3
      <3>4. QED
        BY <3>1, <3>5
    <2>7. QED
      BY <2>1, <2>3, <2>4, <2>5, <2>6, UpSteps
  <1>4. down' \in [Connections -> Seq(Orders)]
    <2>0. down \in [Connections -> Seq(Orders)]
      BY DEF Owned
    <2>1. ASSUME NEW r \in Runs, Offer(r) \/ CancelRun(r) PROVE down' \in [Connections -> Seq(Orders)]
      <3>1. Frame("run", r, None) \in Orders /\ Frame("cancel", r, None) \in Orders
        BY DEF Frame, Frames, FrameTypes, Bodies, Orders
      <3>2. QED
        BY <2>1, <3>1, PostOrder DEF Offer, CancelRun
    <2>2. ASSUME NEW c \in Connections, NEW f \in Frames, f.type \notin {"run", "cancel"}, Post(c, f)
          PROVE  down' \in [Connections -> Seq(Orders)]
      BY <2>2, PostOrder DEF Orders
    <2>3. CASE Heard /\ Took
      <3>1. link \in Connections /\ down[link] # <<>> /\ down' = [down EXCEPT ![link] = Tail(@)]
        BY <2>3 DEF Heard, Took, QueryInv, Whereabouts
      <3>2. QED
        BY <2>0, <3>1, QueueTypes
    <2>4. ASSUME NEW c \in Connections, down' = [down EXCEPT ![c] = <<>>]
          PROVE  down' \in [Connections -> Seq(Orders)]
      BY <2>0, <2>4, QueueTypes
    <2>5. QED
      BY <2>0, <2>1, <2>2, <2>3, <2>4, DownSteps
  <1>5. ASSUME NEW x \in Executions, exec'[x].stage # "free" PROVE exec'[x].run \in Runs
    <2>1. CASE exec[x].stage = "free"
      <3>1. PICK r : r = Head(down[link]).run
        OBVIOUS
      <3>2. TakeRun(x)
        BY <1>5, <2>1, ExecSteps DEF Report, Finish, Over, Working
      <3>3. exec'[x] = [run |-> r, stage |-> "working", told |-> 0] /\ r \in Runs
        BY <3>1, <3>2, TakesOrder DEF TakeRun, Types, LoopTypes
      <3>4. QED
        BY <3>3
    <2>2. CASE exec[x].stage # "free"
      BY <2>2, ExecStays DEF Owned
    <2>3. QED
      BY <2>1, <2>2
  <1>6. QED
    BY <1>2, <1>3, <1>4, <1>5 DEF Owned

(* How a connection opens, and what the one before it may still do. *)

LEMMA AtSteps ==
  ASSUME [Next]_vars
  PROVE  \/ UNCHANGED <<at, link>>
         \/ Dial \/ Welcomed \/ Registered
         \/ (CeremonyFails \/ ConnectionEnds) /\ at' = "waiting" /\ link' = None /\ UNCHANGED up
  <1>1. CASE \/ GatewayNext /\ UNCHANGED <<agentVars, answering>>
             \/ \E c \in Connections : ReadQuery(c) \/ WireBreaks(c)
             \/ \E t \in answering : AnswerQuery(t)
             \/ UNCHANGED vars
    BY <1>1 DEF ReadQuery, WireBreaks, AnswerQuery, vars, linkVars, agentVars
  <1>2. CASE Write \/ WriterFails \/ TurnDown \/ TakeCancel \/ TakeError \/ TakeResult
    BY <1>2 DEF Write, WriterFails, TurnDown, TakeCancel, TakeError, TakeResult, agentVars
  <1>3. CASE \E x \in Executions : TakeRun(x) \/ Report(x) \/ Finish(x) \/ Ask(x) \/ QueryTimeout(x)
    BY <1>3 DEF TakeRun, Report, Finish, Ask, QueryTimeout
  <1>4. CASE CeremonyFails \/ ConnectionEnds
    BY <1>4 DEF CeremonyFails, ConnectionEnds, LinkEnds
  <1>5. QED
    BY <1>1, <1>2, <1>3, <1>4, LinkCases

LEMMA HellosInit == Init => Hellos
  <1>1. <<>> \in Seq(Quiet)
    OBVIOUS
  <1>2. QED
    BY <1>1 DEF Init, RelayInit, Hellos

LEMMA QuietQueue ==
  ASSUME NEW q \in Seq(Frames), q # <<>>, q \in Seq(Quiet) \/ Len(q) = 1
  PROVE  /\ Tail(q) \in Seq(Quiet)
         /\ Head(q).type = "hello" => Tail(q) = <<>>
  <1>1. CASE q \in Seq(Quiet)
    <2>1. Head(q) \in Quiet /\ Tail(q) \in Seq(Quiet)
      BY <1>1, HeadTail
    <2>2. QED
      BY <2>1 DEF Quiet
  <1>2. CASE Len(q) = 1
    <2>1. Tail(q) \in Seq(Frames) /\ Len(Tail(q)) = 0
      BY <1>2, HeadTailProperties
    <2>2. Tail(q) = <<>>
      BY <2>1, EmptySeq
    <2>3. <<>> \in Seq(Quiet)
      OBVIOUS
    <2>4. QED
      BY <2>2, <2>3
  <1>3. QED
    BY <1>1, <1>2

LEMMA HellosNext == QueryInv /\ Types /\ Owned /\ Opening /\ Hellos /\ [Next]_vars => Hellos'
  <1> SUFFICES ASSUME QueryInv, Types, Owned, Opening, Hellos, [Next]_vars,
                      NEW c \in Connections, up'[c] \notin Seq(Quiet)
               PROVE  Len(up'[c]) = 1 /\ (c = link' => at' = "welcome")
    BY DEF Hellos
  <1>0. up \in [Connections -> Seq(Frames)] /\ c # None
    BY RelayAssumption DEF Types, WireTypes
  <1>1. <<>> \in Seq(Quiet)
    OBVIOUS
  <1>2. CASE up'[c] = up[c]
    <2>1. Len(up[c]) = 1 /\ (c = link => at = "welcome")
      BY <1>2 DEF Hellos
    <2>2. CASE UNCHANGED <<at, link>>
      BY <1>2, <2>1, <2>2
    <2>3. CASE Dial
      BY <1>2, <2>1, <2>3 DEF Dial
    <2>4. CASE Welcomed
      <3>1. at = "welcome" /\ down[link] # <<>> /\ link' = link
        BY <2>4 DEF Welcomed, Hears, Heard
      <3>2. up[link] = <<>>
        BY <3>1 DEF Opening, Greeting
      <3>3. c # link
        BY <1>1, <1>2, <3>2
      <3>4. QED
        BY <1>2, <2>1, <3>1, <3>3
    <2>5. CASE Registered
      BY <1>2, <2>1, <2>5 DEF Registered
    <2>6. CASE link' = None
      BY <1>0, <1>2, <2>1, <2>6
    <2>7. QED
      BY <2>2, <2>3, <2>4, <2>5, <2>6, AtSteps
  <1>3. ASSUME NEW d \in Connections, up[d] # <<>>, up' = [up EXCEPT ![d] = Tail(@)], up'[c] # up[c] PROVE FALSE
    <2>1. c = d /\ up'[c] = Tail(up[c]) /\ up[c] \in Seq(Frames)
      BY <1>0, <1>3
    <2>2. up[c] \in Seq(Quiet) \/ Len(up[c]) = 1
      BY DEF Hellos
    <2>3. QED
      BY <1>3, <2>1, <2>2, QuietQueue
  <1>4. ASSUME NEW d \in Connections, up' = [up EXCEPT ![d] = <<>>], up'[c] # up[c] PROVE FALSE
    BY <1>0, <1>1, <1>4
  <1>5. CASE Dial /\ up'[c] # up[c]
    <2>1. PICK d : link' = d /\ at' = "welcome" /\ up' = [up EXCEPT ![d] = <<Note("hello")>>]
      BY <1>5 DEF Dial
    <2>2. up'[c] = <<Note("hello")>>
      BY <1>0, <1>5, <2>1
    <2>3. QED
      BY <2>1, <2>2
  <1>6. CASE Welcomed /\ up'[c] # up[c]
    <2>1. Send(Note("register")) /\ link \in Connections /\ up[link] = <<>>
      BY <1>6 DEF Welcomed, Hears, Heard, Opening, Greeting, QueryInv, Whereabouts
    <2>2. c = link /\ up'[c] = Append(<<>>, Note("register"))
      BY <1>0, <1>6, <2>1 DEF Send
    <2>3. Note("register") \in Quiet
      BY NoteType, FrameIs DEF Quiet, Note
    <2>4. QED
      BY <1>1, <2>2, <2>3
  <1>7. CASE Write /\ up'[c] # up[c]
    <2>1. PICK f : f = Head(outbound)
      OBVIOUS
    <2>2. f \in Sayings /\ at = "serving" /\ Send(f)
      BY <1>7, <2>1, HeadTail DEF Write, Owned, Types, LoopTypes
    <2>3. c = link /\ up'[c] = Append(up[c], f)
      BY <1>0, <1>7, <2>2 DEF Send
    <2>4. up[c] \in Seq(Quiet)
      BY <2>2, <2>3 DEF Hellos
    <2>5. f \in Quiet
      BY <2>2 DEF Quiet, Sayings, Meant
    <2>6. QED
      BY <2>3, <2>4, <2>5
  <1>8. QED
    BY <1>2, <1>3, <1>4, <1>5, <1>6, <1>7, UpSteps

LEMMA SuccessionInit == Init => Succession
  BY DEF Init, RelayInit, Succession, Met

\* The link is welcomed by the hello it sent.
LEMMA WelcomedByAttach ==
  ASSUME QueryInv, Types, Opening, [Next]_vars, UNCHANGED <<at, link>>, Met', ~Met
  PROVE  Attach(link) /\ link \in Connections
  <1> USE DEF Types, QueryInv, Opening
  <1>1. /\ at = "welcome" /\ link \in Connections /\ link # None
        /\ down[link] = <<>> /\ down'[link] # <<>>
    BY DEF Met, Whereabouts
  <1>2. ASSUME NEW c, NEW f, Post(c, f) PROVE c = link
    BY <1>1, <1>2, PostEffect
  <1>3. CASE \E r \in Runs : Offer(r) \/ CancelRun(r)
    <2>1. attached = link /\ serving
      BY <1>2, <1>3 DEF Offer, CancelRun, WorkIsServed
    <2>2. QED
      BY <1>1, <2>1 DEF Greeting, Idling
  <1>4. CASE \E r \in Runs : StartRun(r) \/ TakeBack(r)
    BY <1>1, <1>4 DEF StartRun, TakeBack
  <1>5. ASSUME NEW c \in Connections, Read(c) PROVE Attach(link)
    <2> DEFINE f == Head(up[c])
    <2>1. up[c] # <<>>
      BY <1>5 DEF Read, Reading
    <2>2. CASE c = link
      <3>1. f.type = "hello"
        BY <1>1, <2>1, <2>2, OpeningReads
      <3>2. QED
        BY <1>5, <2>2, <3>1 DEF Read, Handle
    <2>3. CASE c # link
      <3>1. UNCHANGED down \/ \E g : Post(c, g)
        BY <1>5 DEF Read, Handle, Attach, Register, ReadAck, ReadReport
      <3>2. QED
        BY <1>1, <1>2, <2>3, <3>1
    <2>4. QED
      BY <2>2, <2>3
  <1>6. CASE \E c \in Connections : RefuseHello(c) \/ Disconnect(c)
    BY <1>1, <1>6 DEF RefuseHello, Disconnect
  <1>7. CASE Dial \/ Welcomed \/ Registered \/ CeremonyFails \/ ConnectionEnds
    BY <1>1, <1>7 DEF Dial, Welcomed, Registered, CeremonyFails, ConnectionEnds, LinkEnds
  <1>8. CASE Write \/ WriterFails \/ TurnDown \/ TakeCancel \/ TakeError \/ TakeResult
    BY <1>1, <1>8 DEF Write, WriterFails, LoopTypes, TurnDown, TakeCancel, TakeError, TakeResult, Serving
  <1>9. CASE \E x \in Executions : TakeRun(x) \/ Report(x) \/ Finish(x) \/ Ask(x) \/ QueryTimeout(x)
    BY <1>1, <1>9 DEF TakeRun, Serving, Report, Finish, Ask, QueryTimeout, relayVars
  <1>10. CASE \E c \in Connections : ReadQuery(c) \/ WireBreaks(c)
    BY <1>1, <1>10 DEF ReadQuery, WireBreaks, WireTypes
  <1>11. ASSUME NEW t \in answering, AnswerQuery(t) PROVE FALSE
    <2>1. t.on # link
      BY <1>1 DEF Unanswered
    <2>2. QED
      BY <1>1, <1>2, <1>11, <2>1 DEF AnswerQuery
  <1>12. CASE UNCHANGED vars
    BY <1>1, <1>12 DEF vars, linkVars, relayVars
  <1>13. QED
    BY <1>1, <1>3, <1>4, <1>5, <1>6, <1>7, <1>8, <1>9, <1>10, <1>11, <1>12, LinkCases DEF GatewayNext

\* Who is attached and serves, only the gateway changes.
LEMMA AttachedSteps ==
  ASSUME [Next]_vars
  PROVE  \/ UNCHANGED <<attached, serving>>
         \/ \E c \in Connections : Read(c) /\ Head(up[c]).type = "hello" /\ Attach(c)
         \/ \E c \in Connections : /\ Read(c) /\ Register(c)
                                   /\ attached' = attached /\ serving' = (serving \/ attached = c)
         \/ attached' = None /\ serving' = FALSE /\ GatewayNext
  <1>1. CASE \E r \in Runs : StartRun(r) \/ Offer(r) \/ TakeBack(r) \/ CancelRun(r)
    BY <1>1 DEF StartRun, Offer, TakeBack, CancelRun
  <1>2. CASE \E c \in Connections : Read(c)
    BY <1>2 DEF Read, Handle, Register, ReadAck, ReadReport
  <1>3. ASSUME NEW c \in Connections, RefuseHello(c) \/ Disconnect(c)
        PROVE  UNCHANGED <<attached, serving>> \/ (attached' = None /\ serving' = FALSE)
    BY <1>3 DEF RefuseHello, Disconnect
  <1>4. CASE \/ Dial \/ Welcomed \/ Registered \/ CeremonyFails \/ ConnectionEnds
             \/ Write \/ WriterFails \/ TurnDown \/ TakeCancel \/ TakeError \/ TakeResult
    BY <1>4 DEF Dial, Welcomed, Registered, CeremonyFails, ConnectionEnds, Write, WriterFails,
                TurnDown, TakeCancel, TakeError, TakeResult, relayVars
  <1>5. CASE \E x \in Executions : TakeRun(x) \/ Report(x) \/ Finish(x) \/ Ask(x) \/ QueryTimeout(x)
    BY <1>5 DEF TakeRun, Report, Finish, Ask, QueryTimeout, relayVars
  <1>6. CASE \/ \E c \in Connections : ReadQuery(c) \/ WireBreaks(c)
             \/ \E t \in answering : AnswerQuery(t)
             \/ UNCHANGED vars
    BY <1>6 DEF ReadQuery, WireBreaks, AnswerQuery, vars, linkVars, relayVars
  <1>7. QED
    BY <1>1, <1>2, <1>3, <1>4, <1>5, <1>6, LinkCases DEF GatewayNext

LEMMA SuccessionNext ==
  QueryInv /\ Types /\ Owned /\ Opening /\ Hellos /\ Succession /\ [Next]_vars => Succession'
  <1> SUFFICES ASSUME QueryInv, Types, Owned, Opening, Hellos, Succession, [Next]_vars,
                      Met', attached' \notin {link', None}
               PROVE  up'[attached'] = <<>> /\ ~serving'
    BY DEF Succession
  <1>0. /\ up \in [Connections -> Seq(Frames)] /\ attached \in Connections \cup {None}
        /\ attached' \in Connections \cup {None}
    BY TypesNext DEF Types, WireTypes
  <1>1. \A c \in Connections : up[c] \in Seq(Frames)
    BY <1>0
  <1>2. ASSUME NEW c \in Connections, Read(c), Head(up[c]).type = "hello", Attach(c)
        PROVE  up'[attached'] = <<>> /\ ~serving'
    <2>1. attached' = c /\ ~serving' /\ up[c] # <<>> /\ up' = [up EXCEPT ![c] = Tail(@)]
      BY <1>2 DEF Attach, Read, Reading, Handle
    <2>2. up[c] \in Seq(Quiet) \/ Len(up[c]) = 1
      BY DEF Hellos
    <2>3. Tail(up[c]) = <<>>
      BY <1>1, <1>2, <2>1, <2>2, QuietQueue
    <2>4. QED
      BY <1>0, <2>1, <2>3
  <1>3. CASE /\ Met /\ link' = link /\ attached' = attached
             /\ ~(\E c \in Connections : Read(c) /\ Head(up[c]).type = "hello" /\ Attach(c))
    <2>1. up[attached] = <<>> /\ ~serving /\ attached # link /\ attached \in Connections /\ attached # None
      BY <1>0, <1>3 DEF Succession
    <2>2. ~serving'
      <3>1. ASSUME NEW c \in Connections, Read(c), serving' = (serving \/ attached = c) PROVE ~serving'
        <4>1. up[c] # <<>>
          BY <3>1 DEF Read, Reading
        <4>2. QED
          BY <2>1, <3>1, <4>1
      <3>2. QED
        BY <1>3, <2>1, <3>1, AttachedSteps
    <2>3. up'[attached] = <<>>
      <3>1. CASE Dial
        BY <1>3, <3>1 DEF Dial, Met, QueryInv, Whereabouts
      <3>2. CASE Welcomed \/ Write
        <4>1. PICK f : Send(f)
          BY <3>2 DEF Welcomed, Write
        <4>2. QED
          BY <1>0, <2>1, <4>1 DEF Send
      <3>3. ASSUME NEW c \in Connections, up[c] # <<>>, up' = [up EXCEPT ![c] = Tail(@)]
            PROVE  up'[attached] = <<>>
        <4>1. c # attached
          BY <2>1, <3>3
        <4>2. QED
          BY <1>0, <2>1, <3>3, <4>1
      <3>4. ASSUME NEW c \in Connections, up' = [up EXCEPT ![c] = <<>>]
            PROVE  up'[attached] = <<>>
        BY <1>0, <2>1, <3>4
      <3>5. QED
        BY <2>1, <3>1, <3>2, <3>3, <3>4, UpSteps
    <2>4. QED
      BY <1>3, <2>2, <2>3
  <1>4. CASE UNCHANGED <<at, link>>
    <2>1. CASE Met
      BY <1>2, <1>3, <1>4, <2>1, AttachedSteps
    <2>2. CASE ~Met
      <3>1. Attach(link)
        BY <1>4, <2>2, WelcomedByAttach
      <3>2. QED
        BY <1>4, <3>1 DEF Attach
    <2>3. QED
      BY <2>1, <2>2
  <1>5. CASE Dial
    <2>1. PICK c \in Connections : wire[c] = "none" /\ link' = c /\ at' = "welcome" /\ UNCHANGED down
      BY <1>5 DEF Dial, Fresh
    <2>2. down'[link'] = <<>>
      BY <2>1 DEF Opening, Untouched
    <2>3. QED
      BY <2>1, <2>2 DEF Met
  <1>6. CASE Welcomed \/ Registered
    <2>1. Met /\ link' = link /\ UNCHANGED <<attached, serving>>
      BY <1>6 DEF Welcomed, Registered, Hears, Heard, Met
    <2>2. UNCHANGED up \/ \E f : Send(f)
      BY <1>6 DEF Welcomed, Registered
    <2>3. attached # link /\ up[attached] = <<>> /\ ~serving
      BY <2>1 DEF Succession
    <2>4. up'[attached] = up[attached]
      BY <1>0, <2>1, <2>2, <2>3 DEF Send
    <2>5. QED
      BY <2>1, <2>3, <2>4
  <1>7. CASE at' = "waiting"
    BY <1>7 DEF Met
  <1>8. QED
    BY <1>4, <1>5, <1>6, <1>7, AtSteps

(* What core has for the runs, only the gateway's side changes. *)

Acked(c) == Read(c) /\ Head(up[c]).type = "ack" /\ ReadAck(c, Head(up[c]))
Reported(c) == Read(c) /\ Head(up[c]).type \in {"event", "finish"} /\ ReadReport(c, Head(up[c]))

LEMMA RunsSteps ==
  ASSUME [Next]_vars
  PROVE  \/ UNCHANGED <<status, claim, record, stray>>
         \/ /\ \E r \in Runs : StartRun(r) \/ Offer(r) \/ TakeBack(r) \/ CancelRun(r)
            /\ UNCHANGED <<claim, record, stray>>
         \/ LinkGone /\ UNCHANGED stray
         \/ \E c \in Connections : Acked(c) /\ stray' = stray \cup Astray
         \/ \E c \in Connections : Reported(c) /\ UNCHANGED <<claim, stray>>
  <1>0. UNCHANGED claim => Astray = {}
    BY DEF Astray
  <1>1. CASE GatewayNext /\ stray' = stray \cup Astray
    <2>1. ASSUME NEW r \in Runs, StartRun(r) \/ Offer(r) \/ TakeBack(r) \/ CancelRun(r)
          PROVE  UNCHANGED <<claim, record, stray>>
      BY <1>0, <1>1, <2>1 DEF StartRun, Offer, TakeBack, CancelRun
    <2>2. ASSUME NEW c \in Connections, RefuseHello(c) \/ Disconnect(c)
          PROVE  UNCHANGED <<status, claim, record, stray>> \/ (LinkGone /\ UNCHANGED stray)
      BY <1>0, <1>1, <2>2 DEF RefuseHello, Disconnect, runVars, LinkGone
    <2>3. ASSUME NEW c \in Connections, Read(c)
          PROVE  \/ UNCHANGED <<status, claim, record, stray>>
                 \/ LinkGone /\ UNCHANGED stray
                 \/ Acked(c) /\ stray' = stray \cup Astray
                 \/ Reported(c) /\ UNCHANGED <<claim, stray>>
      <3> DEFINE f == Head(up[c])
      <3>1. \/ Attach(c) \/ Register(c)
            \/ f.type = "ack" /\ ReadAck(c, f)
            \/ f.type \in {"event", "finish"} /\ ReadReport(c, f)
        BY <2>3 DEF Read, Handle
      <3>2. CASE Attach(c)
        BY <1>0, <1>1, <3>2 DEF Attach, LinkGone
      <3>3. CASE Register(c)
        BY <1>0, <1>1, <3>3 DEF Register, runVars
      <3>4. CASE f.type \in {"event", "finish"} /\ ReadReport(c, f)
        <4>1. UNCHANGED claim
          BY <3>4 DEF ReadReport, ReportEvent, FinishRun
        <4>2. QED
          BY <1>0, <1>1, <2>3, <3>4, <4>1 DEF Reported
      <3>5. QED
        BY <1>1, <2>3, <3>1, <3>2, <3>3, <3>4 DEF Acked
    <2>4. QED
      BY <1>1, <2>1, <2>2, <2>3 DEF GatewayNext
  <1>2. CASE Elsewhere /\ UNCHANGED stray
    <2>1. CASE \/ Dial \/ Welcomed \/ Registered \/ CeremonyFails \/ ConnectionEnds
               \/ Write \/ WriterFails \/ TurnDown \/ TakeCancel \/ TakeError \/ TakeResult
      BY <1>2, <2>1 DEF Dial, Welcomed, Registered, CeremonyFails, ConnectionEnds, Write, WriterFails,
                        TurnDown, TakeCancel, TakeError, TakeResult, relayVars, runVars
    <2>2. CASE \E x \in Executions : TakeRun(x) \/ Report(x) \/ Finish(x) \/ Ask(x) \/ QueryTimeout(x)
      BY <1>2, <2>2 DEF TakeRun, Report, Finish, Ask, QueryTimeout, relayVars, runVars
    <2>3. CASE \/ \E c \in Connections : ReadQuery(c) \/ WireBreaks(c)
               \/ \E t \in answering : AnswerQuery(t)
      BY <1>2, <2>3 DEF ReadQuery, WireBreaks, AnswerQuery, runVars
    <2>4. QED
      BY <1>2, <2>1, <2>2, <2>3 DEF Elsewhere, LoopStep, AgentStep
  <1>3. CASE UNCHANGED vars
    BY <1>3 DEF vars, linkVars, relayVars
  <1>4. QED
    BY <1>1, <1>2, <1>3 DEF Next

\* What was read: it was meant.
LEMMA HeadMeant ==
  ASSUME Types, Owned, NEW c \in Connections, Read(c)
  PROVE  /\ up[c] # <<>> /\ up[c] \in Seq(Frames) /\ Head(up[c]) = up[c][1] /\ 1 \in DOMAIN up[c]
         /\ Head(up[c]) \in Frames
         /\ Head(up[c]).type = "ack" => Verdict(Head(up[c])) /\ Head(up[c]).run \in Runs
         /\ Head(up[c]).type = "event" => Event(Head(up[c])) /\ Head(up[c]).run \in Runs
         /\ Head(up[c]).type = "finish" => Closing(Head(up[c])) /\ Head(up[c]).run \in Runs
  <1>1. up[c] # <<>> /\ up[c] \in Seq(Frames) /\ up[c] \in Seq(Meant)
    BY DEF Read, Reading, Types, WireTypes, Owned
  <1>2. Head(up[c]) \in Meant /\ Head(up[c]) = up[c][1] /\ 1 \in DOMAIN up[c]
    BY <1>1, HeadTail
  <1>3. QED
    BY <1>1, <1>2 DEF Meant, Opener, Verdict, Event, Closing, Began

LEMMA UnclaimedInit == Init => Unclaimed
  <1>1. <<>> \in Seq(Tellings) /\ DOMAIN <<>> = {}
    OBVIOUS
  <1>2. QED
    BY <1>1 DEF Init, RelayInit, Unclaimed

LEMMA UnclaimedNext == QueryInv /\ Types /\ Owned /\ Unclaimed /\ [Next]_vars => Unclaimed'
  <1> SUFFICES ASSUME QueryInv, Types, Owned, Unclaimed, [Next]_vars PROVE Unclaimed'
    OBVIOUS
  <1>0. DOMAIN status = Runs
    BY DEF Types, WireTypes
  <1>1. ASSUME NEW r, NEW e, Recorded(r, e) PROVE Recorded(r, e)'
    <2>1. e.who \in Executions /\ exec[e.who].stage # "free"
      BY <1>1 DEF Recorded, Began
    <2>2. /\ exec[e.who].told <= exec'[e.who].told
          /\ exec'[e.who].told \in Nat /\ exec[e.who].told \in Nat
      BY <2>1, ExecStays
    <2>3. e.nth \in 1..exec'[e.who].told
      BY <1>1, <2>2 DEF Recorded
    <2>4. QED
      BY <1>1, <2>3, BeganStays DEF Recorded
  <1>9. \A r \in Runs : \A i \in DOMAIN record[r] : Recorded(r, record[r][i])
    BY DEF Unclaimed
  <1>10. ASSUME NEW r \in Runs, NEW i \in DOMAIN record[r], record'[r][i] = record[r][i]
         PROVE  (Recorded(r, record[r][i]))'
    <2>1. PICK e : e = record[r][i]
      OBVIOUS
    <2>2. Recorded(r, e)'
      BY <1>1, <1>9, <2>1
    <2>3. QED
      BY <1>10, <2>1, <2>2 DEF Recorded, Began
  <1>11. ASSUME NEW r \in Runs, claim'[r] = claim[r], claim[r] # None PROVE (Began(claim[r], r))'
    <2>1. PICK x : x = claim[r]
      OBVIOUS
    <2>2. Began(x, r)'
      BY <1>11, <2>1, BeganStays DEF Unclaimed
    <2>3. QED
      BY <1>11, <2>1, <2>2 DEF Began
  <1>2. ASSUME UNCHANGED <<claim, record, stray>>,
               \A r \in Runs : status'[r] \in {"none", "queued", "offered"}
                                 => status[r] \in {"none", "queued", "offered"}
        PROVE  Unclaimed'
    <2>1. (\A r \in Runs : \A i \in DOMAIN record[r] : Recorded(r, record[r][i]))'
      BY <1>2, <1>10
    <2>2. (\A r \in Runs : claim[r] # None => Began(claim[r], r))'
      BY <1>2, <1>11
    <2>3. QED
      BY <1>2, <2>1, <2>2 DEF Unclaimed
  <1>3. ASSUME NEW r \in Runs, StartRun(r) \/ Offer(r) \/ TakeBack(r) \/ CancelRun(r),
               UNCHANGED <<claim, record, stray>>
        PROVE  Unclaimed'
    BY <1>0, <1>2, <1>3 DEF StartRun, Offer, TakeBack, CancelRun
  <1>4. CASE LinkGone /\ UNCHANGED stray
    BY <1>2, <1>4 DEF LinkGone, Held
  <1>5. ASSUME NEW c \in Connections, Acked(c), stray' = stray \cup Astray PROVE Unclaimed'
    <2>1. PICK f : f = Head(up[c]) /\ f.run \in Runs /\ f.body.verdict \in {"accepted", "declined", "refused"}
      BY <1>5, HeadMeant DEF Acked, Verdict, Verdicts
    <2>2. CASE status[f.run] = "offered"
      <3>1. /\ status' = [status EXCEPT ![f.run] = AfterVerdict[f.body.verdict]]
            /\ claim' = [claim EXCEPT ![f.run] = IF f.body.verdict = "accepted" THEN f.body.who ELSE @]
            /\ UNCHANGED record
        BY <1>5, <2>1, <2>2 DEF Acked, ReadAck, AnswerOffer
      <3>2. CASE f.body.verdict = "accepted"
        <4>1. status'[f.run] = "held" /\ \A r \in Runs \ {f.run} : status'[r] = status[r] /\ claim'[r] = claim[r]
          BY <1>0, <2>1, <3>1, <3>2 DEF AfterVerdict, Unclaimed
        <4>2. \A r \in Runs \ {f.run} : r \in stray' => r \in stray
          BY <1>5, <4>1 DEF Astray
        <4>3. (\A r \in Runs : \A i \in DOMAIN record[r] : Recorded(r, record[r][i]))'
          BY <1>10, <3>1
        <4>4. f.body.who \in Executions /\ Began(f.body.who, f.run) /\ Began(f.body.who, f.run)'
          <5>1. Began(f.body.who, f.run)
            BY <1>5, <2>1, <3>2, HeadMeant DEF Acked, Verdict
          <5>2. QED
            BY <5>1, BeganStays DEF Began
        <4>8. (\A r \in Runs : claim[r] # None => Began(claim[r], r))'
          <5>1. claim'[f.run] = f.body.who
            BY <2>1, <3>1, <3>2 DEF Unclaimed
          <5>2. ASSUME NEW r \in Runs, claim'[r] # None PROVE (Began(claim[r], r))'
            <6>1. CASE r = f.run
              BY <4>4, <5>1, <6>1 DEF Began
            <6>2. CASE r # f.run
              BY <1>11, <4>1, <5>2, <6>2
            <6>3. QED
              BY <6>1, <6>2
          <5>3. QED
            BY <5>2
        <4>5. claim' \in [Runs -> Executions \cup {None}] /\ record' \in [Runs -> Seq(Tellings)]
          BY <3>1, <4>4 DEF Unclaimed
        <4>6. \A r \in Runs : status'[r] \in {"none", "queued", "offered"} =>
                claim'[r] = None /\ record'[r] = <<>> /\ r \notin stray'
          BY <3>1, <4>1, <4>2 DEF Unclaimed
        <4>7. QED
          BY <4>3, <4>5, <4>6, <4>8 DEF Unclaimed
      <3>3. CASE f.body.verdict # "accepted"
        <4>1. UNCHANGED claim
          BY <3>1, <3>3 DEF Unclaimed
        <4>2. UNCHANGED stray
          BY <1>5, <4>1 DEF Astray
        <4>3. QED
          BY <1>0, <1>2, <2>2, <3>1, <4>1, <4>2
      <3>4. QED
        BY <3>2, <3>3
    <2>3. CASE status[f.run] # "offered"
      <3>1. UNCHANGED <<status, claim, record>>
        BY <1>5, <2>1, <2>3 DEF Acked, ReadAck, AnswerOffer, runVars
      <3>2. UNCHANGED stray
        BY <1>5, <3>1 DEF Astray
      <3>3. QED
        BY <1>2, <3>1, <3>2
    <2>4. QED
      BY <2>2, <2>3
  <1>6. ASSUME NEW c \in Connections, Reported(c), UNCHANGED <<claim, stray>> PROVE Unclaimed'
    <2>1. PICK f : f = Head(up[c]) /\ f.run \in Runs /\ ReadReport(c, f) /\ f.type \in {"event", "finish"}
                   /\ (f.type = "event" => Event(f))
      BY <1>6, HeadMeant DEF Reported
    <2>2. CASE f.type = "finish"
      <3>1. UNCHANGED record /\ status' = [status EXCEPT ![f.run] = AfterFinish(f.run)]
        BY <2>1, <2>2 DEF ReadReport, FinishRun
      <3>2. QED
        BY <1>0, <1>2, <1>6, <3>1 DEF AfterFinish
    <2>3. CASE f.type = "event" /\ ~Held(f.run)
      BY <1>2, <1>6, <2>1, <2>3 DEF ReadReport, ReportEvent
    <2>4. CASE f.type = "event" /\ Held(f.run)
      <3>1. UNCHANGED status /\ record' = [record EXCEPT ![f.run] = Append(@, f.body)]
        BY <2>1, <2>4 DEF ReadReport, ReportEvent
      <3>2. f.body \in Tellings /\ Recorded(f.run, f.body)
        BY <2>1, <2>4 DEF Event, Recorded
      <3>3. record[f.run] \in Seq(Tellings) /\ record \in [Runs -> Seq(Tellings)]
        BY <2>1 DEF Unclaimed
      <3>11. Append(record[f.run], f.body) \in Seq(Tellings)
        BY <3>2, <3>3
      <3>4. record' \in [Runs -> Seq(Tellings)]
        BY <3>1, <3>3, <3>11
      <3>5. ASSUME NEW r \in Runs, NEW i \in DOMAIN record'[r]
            PROVE  \/ i \in DOMAIN record[r] /\ record'[r][i] = record[r][i]
                   \/ r = f.run /\ record'[r][i] = f.body
        <4>1. CASE r = f.run
          <5>1. record'[r] = Append(record[r], f.body)
            BY <3>1, <3>3, <4>1
          <5>2. QED
            BY <3>3, <3>5, <4>1, <5>1
        <4>2. CASE r # f.run
          BY <3>1, <3>3, <3>5, <4>2
        <4>3. QED
          BY <4>1, <4>2
      <3>6. (\A r \in Runs : \A i \in DOMAIN record[r] : Recorded(r, record[r][i]))'
        <4> SUFFICES ASSUME NEW r \in Runs, NEW i \in DOMAIN record'[r]
                     PROVE  (Recorded(r, record[r][i]))'
          OBVIOUS
        <4>1. PICK e : e = record'[r][i]
          OBVIOUS
        <4>2. Recorded(r, e)
          BY <1>9, <3>2, <3>5, <4>1
        <4>3. Recorded(r, e)'
          BY <1>1, <4>2
        <4>4. QED
          BY <4>1, <4>3 DEF Recorded, Began
      <3>7. \A r \in Runs : status[r] \in {"none", "queued", "offered"} => r # f.run
        BY <2>4 DEF Held
      <3>8. \A r \in Runs : status'[r] \in {"none", "queued", "offered"}
                              => claim'[r] = None /\ record'[r] = <<>> /\ r \notin stray'
        BY <1>6, <3>1, <3>3, <3>7 DEF Unclaimed
      <3>9. claim' \in [Runs -> Executions \cup {None}]
        BY <1>6 DEF Unclaimed
      <3>12. (\A r \in Runs : claim[r] # None => Began(claim[r], r))'
        BY <1>6, <1>11
      <3>10. QED
        BY <3>4, <3>6, <3>8, <3>9, <3>12 DEF Unclaimed
    <2>5. QED
      BY <2>1, <2>2, <2>3, <2>4
  <1>7. CASE UNCHANGED <<status, claim, record, stray>>
    BY <1>2, <1>7
  <1>8. QED
    BY <1>3, <1>4, <1>5, <1>6, <1>7, RunsSteps

LEMMA PastStays ==
  ASSUME Types, Owned, [Next]_vars, NEW r \in Runs, Past(r)
  PROVE  Past(r)'
  <1>0. DOMAIN status = Runs
    BY DEF Types, WireTypes
  <1>1. CASE \E q \in Runs : StartRun(q) \/ Offer(q) \/ TakeBack(q) \/ CancelRun(q)
    BY <1>0, <1>1 DEF StartRun, Offer, TakeBack, CancelRun, Past
  <1>2. CASE LinkGone
    BY <1>2 DEF LinkGone, Past, Held
  <1>3. ASSUME NEW c \in Connections, Acked(c) PROVE Past(r)'
    BY <1>0, <1>3 DEF Acked, ReadAck, AnswerOffer, runVars, Past
  <1>4. ASSUME NEW c \in Connections, Reported(c) PROVE Past(r)'
    BY <1>0, <1>4 DEF Reported, ReadReport, ReportEvent, FinishRun, AfterFinish, Past
  <1>5. CASE UNCHANGED status
    BY <1>5 DEF Past
  <1>6. QED
    BY <1>1, <1>2, <1>3, <1>4, <1>5, RunsSteps

LEMMA CutShortInit == Init => CutShort
  <1>1. <<>> \in Seq(Cuts)
    OBVIOUS
  <1>2. QED
    BY <1>1 DEF Init, RelayInit, CutShort, Idle

LEMMA CutShortNext == QueryInv /\ Types /\ Owned /\ CutShort /\ [Next]_vars => CutShort'
  <1> SUFFICES ASSUME QueryInv, Types, Owned, CutShort, [Next]_vars PROVE CutShort'
    OBVIOUS
  <1>0. exec' \in [Executions -> ExecRecords] /\ exec \in [Executions -> ExecRecords]
        /\ DOMAIN status = Runs
    BY TypesNext DEF Types, LoopTypes, WireTypes
  <1>1. Cuts \subseteq Cuts'
    BY PastStays DEF Cuts, Orders
  <1>2. PICK S : S = Cuts'
    OBVIOUS
  <1>3. down \in [Connections -> Seq(S)]
    BY <1>1, <1>2, SeqMore DEF CutShort
  <1>4. ASSUME NEW c, NEW f \in S, Post(c, f) PROVE down' \in [Connections -> Seq(S)]
    <2>1. CASE c \in Connections
      BY <1>3, <1>4, <2>1, QueueTypes DEF Post
    <2>2. CASE c \notin Connections
      <3>1. [down EXCEPT ![c] = Append(@, f)] = down
        BY <1>3, <2>2
      <3>2. QED
        BY <1>3, <1>4, <3>1 DEF Post
    <2>3. QED
      BY <2>1, <2>2
  <1>5. down' \in [Connections -> Seq(S)]
    <2>1. ASSUME NEW r \in Runs, Offer(r) PROVE down' \in [Connections -> Seq(S)]
      <3>1. Frame("run", r, None) \in Orders /\ Frame("run", r, None).type = "run"
        BY FrameIs DEF Frame, Frames, FrameTypes, Bodies, Orders
      <3>2. Frame("run", r, None) \in S
        BY <1>2, <3>1 DEF Cuts
      <3>3. QED
        BY <1>4, <2>1, <3>2 DEF Offer
    <2>2. ASSUME NEW r \in Runs, CancelRun(r) PROVE down' \in [Connections -> Seq(S)]
      <3>1. PICK f : f = Frame("cancel", r, None)
        OBVIOUS
      <3>2. f \in Orders /\ f.run = r
        BY <3>1, FrameIs DEF Frame, Frames, FrameTypes, Bodies, Orders
      <3>3. Past(r)'
        BY <1>0, <2>2 DEF CancelRun, Past
      <3>4. f \in S
        BY <1>2, <3>2, <3>3 DEF Cuts
      <3>5. QED
        BY <1>4, <2>2, <3>1, <3>4 DEF CancelRun
    <2>3. ASSUME NEW c \in Connections, NEW f \in Frames, f.type \notin {"run", "cancel"}, Post(c, f)
          PROVE  down' \in [Connections -> Seq(S)]
      <3>1. f \in S
        BY <1>2, <2>3 DEF Cuts, Orders
      <3>2. QED
        BY <1>4, <2>3, <3>1
    <2>4. CASE Heard /\ Took
      <3>1. link \in Connections /\ down[link] # <<>> /\ down' = [down EXCEPT ![link] = Tail(@)]
        BY <2>4 DEF Heard, Took, QueryInv, Whereabouts
      <3>2. QED
        BY <1>3, <3>1, QueueTypes
    <2>5. ASSUME NEW c \in Connections, down' = [down EXCEPT ![c] = <<>>]
          PROVE  down' \in [Connections -> Seq(S)]
      BY <1>3, <2>5, QueueTypes
    <2>6. QED
      BY <1>3, <2>1, <2>2, <2>3, <2>4, <2>5, DownSteps
  <1>6. ASSUME NEW x \in Executions,
               exec'[x].stage = "ending" \/ (exec'[x].stage = "done" /\ exec'[x].told # Story)
        PROVE  (Past(exec[x].run))'
    <2>1. ASSUME NEW r \in Runs, r = exec'[x].run, Past(r) PROVE (Past(exec[x].run))'
      BY <2>1, PastStays DEF Past
    <2>2. CASE exec'[x] = exec[x]
      <3>1. exec[x].run \in Runs /\ Past(exec[x].run)
        BY <1>6, <2>2 DEF CutShort, Owned
      <3>2. QED
        BY <2>1, <2>2, <3>1
    <2>3. CASE TakeRun(x)
      BY <1>0, <1>6, <2>3 DEF TakeRun
    <2>4. CASE Report(x) /\ exec'[x] = [exec[x] EXCEPT !.told = exec[x].told + 1]
      BY <1>0, <1>6, <2>4 DEF Report, Working, ExecRecords
    <2>5. CASE /\ TakeCancel /\ Working(x) /\ exec[x].run = Head(down[link]).run
               /\ exec'[x] = [exec[x] EXCEPT !.stage = "ending"]
      <3>1. link \in Connections /\ down[link] # <<>> /\ Head(down[link]).type = "cancel"
            /\ Head(down[link]).run \in Runs
        BY <2>5, TakesOrder DEF TakeCancel
      <3>2. Head(down[link]) \in Cuts
        BY <3>1, QueueTypes DEF CutShort
      <3>3. Past(exec[x].run) /\ exec[x].run \in Runs
        BY <2>5, <3>1, <3>2 DEF Cuts
      <3>4. exec'[x].run = exec[x].run
        BY <1>0, <2>5 DEF ExecRecords
      <3>5. QED
        BY <2>1, <3>3, <3>4
    <2>6. CASE Finish(x) /\ exec'[x] = [exec[x] EXCEPT !.stage = "done"]
      <3>1. exec'[x].stage = "done" /\ exec'[x].run = exec[x].run /\ exec'[x].told = exec[x].told
        BY <1>0, <2>6 DEF ExecRecords
      <3>2. exec[x].stage = "ending" /\ exec[x].run \in Runs
        BY <1>6, <2>6, <3>1 DEF Finish, Over, Owned
      <3>3. QED
        BY <2>1, <3>1, <3>2 DEF CutShort
    <2>7. QED
      BY <2>2, <2>3, <2>4, <2>5, <2>6, ExecSteps
  <1>7. QED
    BY <1>2, <1>5, <1>6 DEF CutShort

-----------------------------------------------------------------------------
(* Executions and what the queues hold of them. *)

Yes(f, x) == f.type = "ack" /\ f.body.verdict = "accepted" /\ f.body.who = x

LEMMA AloneStays ==
  ASSUME Types, [Next]_vars, NEW x \in Executions, exec[x].stage # "free"
  PROVE  /\ Alone(x) \in BOOLEAN /\ Alone(x)' \in BOOLEAN
         /\ Alone(x)' => Alone(x)
  <1>1. \A y \in Crew(exec[x].run) : exec'[y].stage # "free" /\ exec'[y].run = exec'[x].run
    BY ExecStays DEF Crew
  <1>2. x \in Crew(exec[x].run)
    BY DEF Crew
  <1>3. \A y \in Crew(exec[x].run) : y \in Executions
    BY DEF Crew
  <1>4. ASSUME Alone(x)' PROVE Alone(x)
    <2>1. {y \in Executions : exec'[y].stage # "free" /\ exec'[y].run = exec'[x].run} = {x}
      BY <1>4 DEF Alone, Crew
    <2>2. \A y \in Crew(exec[x].run) : y = x
      BY <1>1, <1>3, <2>1
    <2>3. QED
      BY <1>2, <2>2 DEF Alone
  <1>5. QED
    BY <1>4 DEF Alone

\* A run with one worker is closed when that worker is done.
LEMMA NoClose ==
  ASSUME NEW x \in Executions, Alone(x), exec[x].stage # "done", NEW q \in Seq(Meant), NEW i \in Nat
  PROVE  ~CloseAt(q, i, exec[x].run)
  <1> SUFFICES ASSUME CloseAt(q, i, exec[x].run) PROVE FALSE
    OBVIOUS
  <1>1. PICK f : f = q[i]
    OBVIOUS
  <1>2. f \in Meant /\ f.type = "finish" /\ f.run = exec[x].run
    BY <1>1 DEF CloseAt
  <1>3. PICK y \in Executions : Began(y, f.run) /\ exec[y].stage = "done"
    BY <1>2 DEF Meant, Opener, Verdict, Event, Closing
  <1>4. y \in Crew(exec[x].run)
    BY <1>2, <1>3 DEF Began, Crew
  <1>5. QED
    BY <1>3, <1>4 DEF Alone

LEMMA WordBound ==
  ASSUME NEW x \in Executions, NEW q \in Seq(Meant), NEW i \in Nat, NEW n, WordAt(q, i, x, n)
  PROVE  Began(x, q[i].run) /\ n \in 1..exec[x].told
  <1>1. PICK f : f = q[i]
    OBVIOUS
  <1>2. f \in Meant /\ f.type = "event" /\ f.body = [who |-> x, nth |-> n]
    BY <1>1 DEF WordAt
  <1>3. Event(f)
    BY <1>2 DEF Meant, Opener, Verdict, Closing
  <1>4. f.body.who = x /\ f.body.nth = n
    BY <1>2
  <1>5. QED
    BY <1>1, <1>3, <1>4 DEF Event

LEMMA YesBegan ==
  ASSUME NEW x \in Executions, NEW q \in Seq(Meant), ~NoYes(q, x)
  PROVE  exec[x].stage # "free" /\ q # <<>>
  <1>1. PICK i \in Nat : YesAt(q, i, x)
    BY DEF NoYes
  <1>2. PICK f : f = q[i]
    OBVIOUS
  <1>3. f \in Meant /\ f.type = "ack" /\ f.body.verdict = "accepted" /\ f.body.who = x /\ q # <<>>
    BY <1>1, <1>2 DEF YesAt
  <1>4. QED
    BY <1>3 DEF Meant, Opener, Verdict, Event, Closing, Began

LEMMA BoundHere ==
  ASSUME Types, NEW x \in Executions, NEW q \in Seq(Meant), NEW H \in SUBSET (1..exec[x].told)
  PROVE  H \in SUBSET Nat /\ exec[x].told \in Nat /\ Bound(q, x, H, exec[x].told)
  <1>1. exec[x].told \in Nat
    BY AgentAssumption DEF Types, LoopTypes, ExecRecords
  <1>2. PICK t \in Nat : t = exec[x].told
    BY <1>1
  <1>3. \A k \in H : k \in Nat /\ k <= t
    BY <1>2
  <1>4. \A i, n \in Nat : WordAt(q, i, x, n) => n \in 1..t
    BY <1>2, WordBound
  <1>5. \A i, n \in Nat : WordAt(q, i, x, n) => n <= t
    BY <1>4
  <1>6. QED
    BY <1>1, <1>2, <1>3, <1>5 DEF Bound

LEMMA HeardBound ==
  ASSUME Owned, Unclaimed, NEW x \in Executions, exec[x].stage # "free"
  PROVE  HeardOf(x) \in SUBSET (1..exec[x].told)
  <1>1. exec[x].run \in Runs
    BY DEF Owned
  <1>2. ASSUME NEW n \in Nat, NEW i \in DOMAIN record[exec[x].run],
               record[exec[x].run][i] = [who |-> x, nth |-> n]
        PROVE  n \in 1..exec[x].told
    <2>1. Recorded(exec[x].run, [who |-> x, nth |-> n])
      BY <1>1, <1>2 DEF Unclaimed
    <2>2. QED
      BY <2>1 DEF Recorded
  <1>3. QED
    BY <1>2 DEF HeardOf

LEMMA NoYesAppend ==
  ASSUME NEW S, NEW q \in Seq(S), NEW f \in S, NEW x, NoYes(q, x), ~Yes(f, x)
  PROVE  NoYes(Append(q, f), x)
  <1>1. \A i \in Nat : YesAt(Append(q, f), i, x) <=>
              \/ YesAt(q, i, x)
              \/ i = Len(q) + 1 /\ f.type = "ack" /\ f.body.verdict = "accepted" /\ f.body.who = x
    BY AfterAppend
  <1>2. QED
    BY <1>1 DEF NoYes, Yes

\* A line begins with its yes.
LEMMA LineBegins ==
  ASSUME NEW S, NEW q \in Seq(S), NEW f \in S, NEW x, NEW r, NEW a \in BOOLEAN, NEW H,
         f.type = "ack", NoYes(q, x), Silent(q, x, r, a)
  PROVE  Line(Append(q, f), x, r, a, H, 0)
  <1>1. ASSUME NEW i \in Nat
        PROVE  /\ YesAt(Append(q, f), i, x) => i = Len(q) + 1
               /\ \A n \in Nat : ~WordAt(Append(q, f), i, x, n)
               /\ a => ~CloseAt(Append(q, f), i, r)
    <2>1. /\ YesAt(Append(q, f), i, x) <=>
               \/ YesAt(q, i, x)
               \/ i = Len(q) + 1 /\ f.type = "ack" /\ f.body.verdict = "accepted" /\ f.body.who = x
          /\ \A n : WordAt(Append(q, f), i, x, n) <=>
               \/ WordAt(q, i, x, n)
               \/ i = Len(q) + 1 /\ f.type = "event" /\ f.body = [who |-> x, nth |-> n]
          /\ CloseAt(Append(q, f), i, r) <=>
               \/ CloseAt(q, i, r)
               \/ i = Len(q) + 1 /\ f.type = "finish" /\ f.run = r
      BY AfterAppend
    <2>2. QED
      BY <2>1 DEF NoYes, Silent
  <1>2. \A n \in Nat : n + 1 \in Nat
    OBVIOUS
  <1>3. YesFirst(Append(q, f), x, r, a) /\ InOrder(Append(q, f), x, H) /\ EndLast(Append(q, f), x, r, a, H, 0)
    BY <1>1 DEF YesFirst, InOrder, EndLast
  <1>4. NoGap(Append(q, f), x, H)
    BY <1>1, <1>2 DEF NoGap
  <1>5. QED
    BY <1>3, <1>4 DEF Line

Speaking == TurnDown \/ \E x \in Executions : TakeRun(x) \/ Report(x) \/ Finish(x) \/ Ask(x)

\* What is said, from the side of an execution that is under way.
LEMMA WhatIsSaid ==
  ASSUME Types, QueryInv, Owned, [Next]_vars, NEW x \in Executions, exec[x].stage # "free", Speaking
  PROVE  \E f \in Frames :
           /\ outbound' = Append(outbound, f)
           /\ ~Yes(f, x)
           /\ \/ Apart(f, x, exec[x].run, Alone(x)) /\ exec'[x].told = exec[x].told
              \/ /\ f.type = "event" /\ f.body = [who |-> x, nth |-> exec[x].told + 1]
                 /\ exec'[x].told = exec[x].told + 1 /\ exec[x].stage # "done"
              \/ f.type = "finish" /\ exec'[x].told = exec[x].told
  <1>0. PICK f \in Frames : outbound' = Append(outbound, f)
    BY SayingMeant DEF Speaking, Sayings, Meant
  <1>1. outbound \in Seq(Frames) /\ exec \in [Executions -> ExecRecords]
    BY DEF Types, LoopTypes
  <1>2. ASSUME NEW g, Say(g) PROVE f = g
    <2>1. outbound' = Append(outbound, g) /\ outbound' = Append(outbound, f)
      BY <1>0, <1>2 DEF Say
    <2>2. Append(outbound, g)[Len(outbound) + 1] = g /\ Append(outbound, f)[Len(outbound) + 1] = f
      BY <1>1
    <2>3. QED
      BY <2>1, <2>2
  <1>3. CASE TurnDown
    <2>1. PICK r, v : v \in {"declined", "refused"} /\ Ack(r, v, None)
      BY <1>3 DEF TurnDown
    <2>2. f.type = "ack" /\ f.body = [verdict |-> v, who |-> None]
      BY <1>2, <2>1, FrameIs DEF Ack
    <2>3. f.type = "ack" /\ f.body.verdict # "accepted"
      BY <2>1, <2>2
    <2>4. exec' = exec
      BY <1>3 DEF TurnDown
    <2>5. QED
      BY <1>0, <2>3, <2>4 DEF Yes, Apart
  <1>4. ASSUME NEW y \in Executions, TakeRun(y)
        PROVE  /\ ~Yes(f, x) /\ Apart(f, x, exec[x].run, Alone(x)) /\ exec'[x].told = exec[x].told
    <2>1. exec[y].stage = "free" /\ Ack(Head(down[link]).run, "accepted", y)
          /\ \E e : exec' = [exec EXCEPT ![y] = e]
      BY <1>4 DEF TakeRun
    <2>2. x # y /\ exec'[x] = exec[x]
      BY <1>1, <2>1
    <2>3. f.type = "ack" /\ f.body = [verdict |-> "accepted", who |-> y]
      BY <1>2, <2>1, FrameIs DEF Ack
    <2>4. f.type = "ack" /\ f.body.who = y
      BY <2>3
    <2>5. QED
      BY <2>2, <2>4 DEF Yes, Apart
  <1>5. ASSUME NEW y \in Executions, Report(y)
        PROVE  /\ ~Yes(f, x)
               /\ \/ Apart(f, x, exec[x].run, Alone(x)) /\ exec'[x].told = exec[x].told
                  \/ /\ f.type = "event" /\ f.body = [who |-> x, nth |-> exec[x].told + 1]
                     /\ exec'[x].told = exec[x].told + 1 /\ exec[x].stage # "done"
    <2>1. f.type = "event" /\ f.body = [who |-> y, nth |-> exec[y].told + 1]
      BY <1>2, <1>5, FrameIs DEF Report, Told
    <2>2. CASE y = x
      <3>1. exec'[x] = [exec[x] EXCEPT !.told = exec[x].told + 1] /\ exec[x] \in ExecRecords
            /\ exec[x].stage = "working"
        BY <1>1, <1>5, <2>2 DEF Report, Working
      <3>2. exec'[x].told = exec[x].told + 1
        BY <3>1 DEF ExecRecords
      <3>3. QED
        BY <2>1, <2>2, <3>1, <3>2 DEF Yes
    <2>3. CASE y # x
      <3>1. exec'[x] = exec[x]
        BY <1>1, <1>5, <2>3 DEF Report
      <3>2. \A n : f.body # [who |-> x, nth |-> n]
        BY <2>1, <2>3
      <3>3. QED
        BY <2>1, <3>1, <3>2 DEF Yes, Apart
    <2>4. QED
      BY <2>2, <2>3
  <1>6. ASSUME NEW y \in Executions, Finish(y)
        PROVE  /\ ~Yes(f, x)
               /\ f.type = "finish" /\ exec'[x].told = exec[x].told
    <2>1. f.type = "finish"
      BY <1>2, <1>6, FrameIs DEF Finish
    <2>2. CASE y = x
      <3>1. exec'[x] = [exec[x] EXCEPT !.stage = "done"] /\ exec[x] \in ExecRecords
        BY <1>1, <1>6, <2>2 DEF Finish
      <3>2. exec'[x].told = exec[x].told
        BY <3>1 DEF ExecRecords
      <3>3. QED
        BY <2>1, <3>2 DEF Yes
    <2>3. CASE y # x
      <3>1. exec'[x] = exec[x]
        BY <1>1, <1>6, <2>3 DEF Finish
      <3>2. QED
        BY <2>1, <3>1 DEF Yes
    <2>4. QED
      BY <2>2, <2>3
  <1>7. ASSUME NEW y \in Executions, Ask(y)
        PROVE  /\ ~Yes(f, x) /\ Apart(f, x, exec[x].run, Alone(x)) /\ exec'[x].told = exec[x].told
    <2>1. f.type = "query"
      BY <1>2, <1>7, FrameIs DEF Ask
    <2>2. exec' = exec
      BY <1>7 DEF Ask
    <2>3. QED
      BY <2>1, <2>2 DEF Yes, Apart
  <1>8. QED
    BY <1>0, <1>3, <1>4, <1>5, <1>6, <1>7 DEF Speaking

\* Written behind its line, what is said keeps the line.
LEMMA SpeaksInLine ==
  ASSUME Types, QueryInv, Owned, [Next]_vars, NEW x \in Executions, exec[x].stage # "free", Speaking,
         NEW r, NEW a, NEW b, NEW t, NEW u,
         r = exec[x].run, a = Alone(x), b = Alone(x)', t = exec[x].told, u = exec'[x].told
  PROVE  \E f \in Frames :
           /\ outbound' = Append(outbound, f)
           /\ ~Yes(f, x)
           /\ \A q \in Seq(Meant), H \in SUBSET (1..t) :
                Line(q, x, r, a, H, t) /\ SaidAll(q, x, H, t) =>
                  Line(Append(q, f), x, r, b, H, u) /\ SaidAll(Append(q, f), x, H, u)
  <1>0. a \in BOOLEAN /\ b \in BOOLEAN /\ (b => a) /\ t \in Nat
    BY AloneStays, AgentAssumption DEF Types, LoopTypes, ExecRecords
  <1>1. PICK f \in Frames :
           /\ outbound' = Append(outbound, f)
           /\ ~Yes(f, x)
           /\ \/ Apart(f, x, r, a) /\ u = t
              \/ /\ f.type = "event" /\ f.body = [who |-> x, nth |-> t + 1]
                 /\ u = t + 1 /\ exec[x].stage # "done"
              \/ f.type = "finish" /\ u = t
    BY WhatIsSaid
  <1>2. ASSUME NEW q \in Seq(Meant), NEW H \in SUBSET (1..t), Line(q, x, r, a, H, t), SaidAll(q, x, H, t)
        PROVE  Line(Append(q, f), x, r, b, H, u) /\ SaidAll(Append(q, f), x, H, u)
    <2>1. q \in Seq(Frames)
      BY SeqMore DEF Meant
    <2>2. H \in SUBSET Nat /\ Bound(q, x, H, t)
      BY BoundHere
    <2>3. Line(Append(q, f), x, r, a, H, u) /\ SaidAll(Append(q, f), x, H, u)
      <3>1. CASE Apart(f, x, r, a) /\ u = t
        BY <1>0, <1>2, <2>1, <2>2, <3>1, LineBeside
      <3>2. CASE /\ f.type = "event" /\ f.body = [who |-> x, nth |-> t + 1]
                 /\ u = t + 1 /\ exec[x].stage # "done"
        <4>1. a => \A i \in Nat : ~CloseAt(q, i, r)
          BY <3>2, NoClose
        <4>2. QED
          BY <1>0, <1>2, <2>1, <2>2, <3>2, <4>1, LineSpeaks
      <3>3. CASE f.type = "finish" /\ u = t
        BY <1>0, <1>2, <2>1, <2>2, <3>3, LineEnds
      <3>4. QED
        BY <1>1, <3>1, <3>2, <3>3
    <2>4. QED
      BY <1>0, <2>3, LineLoses
  <1>3. QED
    BY <1>1, <1>2

LEMMA TellingIsSpeaking ==
  ASSUME Types, [Next]_vars, NEW x \in Executions, exec[x].stage # "free", ~Speaking
  PROVE  exec'[x].told = exec[x].told
  BY ExecStays DEF Speaking

(* What comes to a connection that is not the one where a line is. *)
LEMMA UpSilence ==
  ASSUME Types, QueryInv, Owned, [Next]_vars, NEW c \in Connections, NEW x, NEW r, NEW a \in BOOLEAN
  PROVE  /\ NoYes(up[c], x) /\ (Write /\ c = link => ~Yes(Head(outbound), x)) => NoYes(up'[c], x)
         /\ Silent(up[c], x, r, a) /\ (Write /\ c = link => Apart(Head(outbound), x, r, a))
              => Silent(up'[c], x, r, a)
  <1>0. up \in [Connections -> Seq(Frames)] /\ up[c] \in Seq(Frames) /\ <<>> \in Seq(Frames)
    BY DEF Types, WireTypes
  <1>1. CASE up'[c] = up[c]
    BY <1>1
  <1>2. CASE up[c] # <<>> /\ up'[c] = Tail(up[c])
    <2>1. PICK q \in Seq(Frames) : q = up[c]
      BY <1>0
    <2>2. /\ NoYes(q, x) => NoYes(Tail(q), x)
          /\ Silent(q, x, r, a) => Silent(Tail(q), x, r, a)
      BY <1>2, <2>1, LineRead
    <2>3. QED
      BY <1>2, <2>1, <2>2
  <1>3. CASE up'[c] = <<>>
    BY <1>3, EmptyQueue
  <1>4. ASSUME NEW f \in Frames, up'[c] = Append(up[c], f)
        PROVE  /\ NoYes(up[c], x) /\ ~Yes(f, x) => NoYes(up'[c], x)
               /\ Silent(up[c], x, r, a) /\ Apart(f, x, r, a) => Silent(up'[c], x, r, a)
    <2>1. NoYes(up[c], x) /\ ~Yes(f, x) => NoYes(Append(up[c], f), x)
      BY <1>0, NoYesAppend
    <2>2. PICK q \in Seq(Frames) : q = up[c]
      BY <1>0
    <2>3. Silent(q, x, r, a) /\ Apart(f, x, r, a) => Silent(Append(q, f), x, r, a)
      BY LineBeside
    <2>4. QED
      BY <1>4, <2>1, <2>2, <2>3
  <1>5. ASSUME NEW type, Note(type) \in Frames, type \in {"hello", "register"}
        PROVE  ~Yes(Note(type), x) /\ Apart(Note(type), x, r, a)
    <2>1. Note(type).type = type
      BY FrameIs DEF Note
    <2>2. QED
      BY <1>5, <2>1 DEF Yes, Apart
  <1>6. CASE Dial
    <2>1. PICK d \in Connections : up' = [up EXCEPT ![d] = <<Note("hello")>>]
      BY <1>6 DEF Dial, Fresh
    <2>2. CASE c = d
      <3>1. up'[c] = Append(<<>>, Note("hello"))
        BY <1>0, <2>1, <2>2
      <3>2. NoYes(<<>>, x) /\ Silent(<<>>, x, r, a)
        BY EmptyQueue
      <3>3. NoYes(Append(<<>>, Note("hello")), x)
        BY <1>0, <1>5, <3>2, NoteType, NoYesAppend
      <3>4. Silent(Append(<<>>, Note("hello")), x, r, a)
        <4>1. PICK H, t : H = {} /\ t = 0
          OBVIOUS
        <4>2. H \in SUBSET Nat /\ t \in Nat
          BY <4>1
        <4>3. QED
          BY <1>0, <1>5, <3>2, <4>2, NoteType, LineBeside
      <3>5. QED
        BY <3>1, <3>3, <3>4
    <2>3. CASE c # d
      BY <1>0, <1>1, <2>1, <2>3
    <2>4. QED
      BY <2>2, <2>3
  <1>7. CASE Welcomed
    <2>1. up'[c] = up[c] \/ up'[c] = Append(up[c], Note("register"))
      BY <1>0, <1>7 DEF Welcomed, Send
    <2>2. QED
      BY <1>1, <1>4, <1>5, <2>1, NoteType
  <1>8. CASE Write
    <2>1. up'[c] = up[c] \/ (c = link /\ up'[c] = Append(up[c], Head(outbound)))
      BY <1>0, <1>8 DEF Write, Send
    <2>2. Head(outbound) \in Frames
      BY <1>8, HeadTail DEF Write, Types, LoopTypes
    <2>3. QED
      BY <1>1, <1>4, <1>8, <2>1, <2>2
  <1>9. QED
    <2>1. ASSUME NEW d \in Connections, up[d] # <<>>, up' = [up EXCEPT ![d] = Tail(@)]
          PROVE  up'[c] = up[c] \/ (up[c] # <<>> /\ up'[c] = Tail(up[c]))
      BY <1>0, <2>1
    <2>2. ASSUME NEW d \in Connections, up' = [up EXCEPT ![d] = <<>>]
          PROVE  up'[c] = up[c] \/ up'[c] = <<>>
      BY <1>0, <2>2
    <2>3. CASE UNCHANGED up
      BY <1>1, <2>3
    <2>4. CASE \E d \in Connections : up[d] # <<>> /\ up' = [up EXCEPT ![d] = Tail(@)]
      BY <1>1, <1>2, <2>1, <2>4
    <2>5. CASE \E d \in Connections : up' = [up EXCEPT ![d] = <<>>]
      BY <1>1, <1>3, <2>2, <2>5
    <2>6. QED
      BY <1>6, <1>7, <1>8, <2>3, <2>4, <2>5, UpSteps

(* A connection and the queue that goes out on it. *)

LEMMA QueueMoves ==
  ASSUME NEW S, NEW p \in Seq(S), NEW q \in Seq(S)
  PROVE  /\ q # <<>> => Append(p, Head(q)) \o Tail(q) = p \o q
         /\ p # <<>> => Tail(p) \o q = Tail(p \o q) /\ p \o q # <<>>
         /\ \A f \in S : p \o Append(q, f) = Append(p \o q, f)
         /\ p \o <<>> = p
  <1>0. /\ p \o q \in Seq(S) /\ Len(p \o q) = Len(p) + Len(q)
        /\ Len(p) \in Nat /\ Len(q) \in Nat
        /\ \A i \in 1..(Len(p) + Len(q)) : (p \o q)[i] = IF i <= Len(p) THEN p[i] ELSE q[i - Len(p)]
    BY ConcatProperties
  <1>1. ASSUME q # <<>> PROVE Append(p, Head(q)) \o Tail(q) = p \o q
    <2>1. PICK s, t : s = Append(p, Head(q)) /\ t = Tail(q)
      OBVIOUS
    <2>2. /\ s \in Seq(S) /\ t \in Seq(S) /\ Len(s) = Len(p) + 1 /\ Len(t) = Len(q) - 1
          /\ Len(q) # 0
          /\ \A i \in 1..Len(p) : s[i] = p[i]
          /\ s[Len(p) + 1] = q[1]
          /\ \A i \in 1..Len(t) : t[i] = q[i + 1]
      BY <1>1, <2>1
    <2>3. /\ s \o t \in Seq(S) /\ Len(s \o t) = Len(s) + Len(t)
          /\ \A i \in 1..(Len(s) + Len(t)) : (s \o t)[i] = IF i <= Len(s) THEN s[i] ELSE t[i - Len(s)]
      BY <2>2, ConcatProperties
    <2>4. Len(s \o t) = Len(p \o q)
      BY <1>0, <2>2, <2>3
    <2>5. ASSUME NEW i \in 1..Len(s \o t) PROVE (s \o t)[i] = (p \o q)[i]
      <3>1. CASE i <= Len(p)
        BY <1>0, <2>2, <2>3, <3>1
      <3>2. CASE i = Len(p) + 1
        BY <1>0, <2>2, <2>3, <3>2
      <3>3. CASE i > Len(p) + 1
        <4>1. i - Len(s) \in 1..Len(t) /\ (i - Len(s)) + 1 = i - Len(p)
          BY <1>0, <2>2, <2>3, <3>3
        <4>2. (s \o t)[i] = t[i - Len(s)]
          BY <1>0, <2>2, <2>3, <3>3
        <4>5. t[i - Len(s)] = q[(i - Len(s)) + 1]
          BY <2>2, <4>1
        <4>3. (p \o q)[i] = q[i - Len(p)]
          BY <1>0, <2>2, <2>3, <3>3
        <4>4. QED
          BY <4>1, <4>2, <4>3, <4>5
      <3>4. QED
        BY <1>0, <2>3, <2>2, <3>1, <3>2, <3>3
    <2>6. s \o t = p \o q
      BY <1>0, <2>3, <2>4, <2>5, SeqEqual
    <2>7. QED
      BY <2>1, <2>6
  <1>2. ASSUME p # <<>> PROVE Tail(p) \o q = Tail(p \o q) /\ p \o q # <<>>
    <2>1. PICK s : s = Tail(p)
      OBVIOUS
    <2>2. /\ s \in Seq(S) /\ Len(s) = Len(p) - 1 /\ Len(p) # 0
          /\ \A i \in 1..Len(s) : s[i] = p[i + 1]
      BY <1>2, <2>1
    <2>3. /\ s \o q \in Seq(S) /\ Len(s \o q) = Len(s) + Len(q)
          /\ \A i \in 1..(Len(s) + Len(q)) : (s \o q)[i] = IF i <= Len(s) THEN s[i] ELSE q[i - Len(s)]
      BY <2>2, ConcatProperties
    <2>4. p \o q # <<>>
      BY <1>2, ConcatEqualIffEmpty
    <2>5. PICK w \in Seq(S) : w = p \o q
      BY <1>0
    <2>6. /\ Tail(w) \in Seq(S) /\ Len(Tail(w)) = Len(w) - 1
          /\ \A i \in 1..Len(Tail(w)) : Tail(w)[i] = w[i + 1]
      BY <2>4, <2>5, HeadTailProperties
    <2>7. Len(s \o q) = Len(Tail(w))
      BY <1>0, <2>2, <2>3, <2>5, <2>6
    <2>8. ASSUME NEW i \in 1..Len(s \o q) PROVE (s \o q)[i] = Tail(w)[i]
      <3>1. Tail(w)[i] = w[i + 1] /\ i + 1 \in 1..(Len(p) + Len(q))
        BY <1>0, <2>2, <2>3, <2>6, <2>7
      <3>2. CASE i <= Len(s)
        <4>1. (s \o q)[i] = p[i + 1]
          BY <1>0, <2>2, <2>3, <3>2
        <4>2. w[i + 1] = p[i + 1]
          BY <1>0, <2>2, <2>5, <3>1, <3>2
        <4>3. QED
          BY <3>1, <4>1, <4>2
      <3>3. CASE ~(i <= Len(s))
        <4>1. (s \o q)[i] = q[i - Len(s)]
          BY <1>0, <2>2, <2>3, <3>3
        <4>2. w[i + 1] = q[(i + 1) - Len(p)]
          BY <1>0, <2>2, <2>3, <2>5, <3>1, <3>3
        <4>3. (i + 1) - Len(p) = i - Len(s)
          BY <1>0, <2>2, <2>3
        <4>4. QED
          BY <3>1, <4>1, <4>2, <4>3
      <3>4. QED
        BY <3>2, <3>3
    <2>9. s \o q = Tail(w)
      BY <2>3, <2>6, <2>7, <2>8, SeqEqual
    <2>10. QED
      BY <2>1, <2>4, <2>5, <2>9
  <1>3. ASSUME NEW f \in S PROVE p \o Append(q, f) = Append(p \o q, f)
    <2>1. PICK t : t = Append(q, f)
      OBVIOUS
    <2>2. /\ t \in Seq(S) /\ Len(t) = Len(q) + 1
          /\ \A i \in 1..Len(q) : t[i] = q[i]
          /\ t[Len(q) + 1] = f
      BY <2>1
    <2>3. /\ p \o t \in Seq(S) /\ Len(p \o t) = Len(p) + Len(t)
          /\ \A i \in 1..(Len(p) + Len(t)) : (p \o t)[i] = IF i <= Len(p) THEN p[i] ELSE t[i - Len(p)]
      BY <2>2, ConcatProperties
    <2>4. PICK w \in Seq(S) : w = p \o q
      BY <1>0
    <2>5. /\ Append(w, f) \in Seq(S) /\ Len(Append(w, f)) = Len(w) + 1
          /\ \A i \in 1..Len(w) : Append(w, f)[i] = w[i]
          /\ Append(w, f)[Len(w) + 1] = f
      OBVIOUS
    <2>6. Len(p \o t) = Len(Append(w, f))
      BY <1>0, <2>2, <2>3, <2>4, <2>5
    <2>7. ASSUME NEW i \in 1..Len(p \o t) PROVE (p \o t)[i] = Append(w, f)[i]
      <3>1. CASE i <= Len(p)
        BY <1>0, <2>2, <2>3, <2>4, <2>5, <3>1
      <3>2. CASE ~(i <= Len(p)) /\ i <= Len(w)
        <4>1. i - Len(p) \in 1..Len(q)
          BY <1>0, <2>3, <2>4, <3>2
        <4>2. (p \o t)[i] = t[i - Len(p)]
          BY <2>3, <3>2
        <4>3. w[i] = q[i - Len(p)]
          BY <1>0, <2>4, <3>2
        <4>5. t[i - Len(p)] = q[i - Len(p)]
          BY <2>2, <4>1
        <4>6. i \in 1..Len(w)
          BY <1>0, <2>4, <3>2
        <4>7. Append(w, f)[i] = w[i]
          BY <2>5, <4>6
        <4>4. QED
          BY <4>2, <4>3, <4>5, <4>7
      <3>3. CASE i = Len(w) + 1
        <4>1. ~(i <= Len(p)) /\ i - Len(p) = Len(q) + 1
          BY <1>0, <2>4, <3>3
        <4>2. QED
          BY <2>2, <2>3, <2>5, <3>3, <4>1
      <3>4. QED
        BY <1>0, <2>2, <2>3, <2>4, <3>1, <3>2, <3>3
    <2>8. p \o t = Append(w, f)
      BY <2>3, <2>5, <2>6, <2>7, SeqEqual
    <2>9. QED
      BY <2>1, <2>4, <2>8
  <1>4. p \o <<>> = p
    BY ConcatEmptySeq
  <1>5. QED
    BY <1>1, <1>2, <1>3, <1>4

Reads(c) == Read(c) \/ ReadQuery(c)

LEMMA ReadsFacts ==
  ASSUME Types, NEW c \in Connections
  PROVE  /\ Reads(c) => /\ up[c] # <<>> /\ up' = [up EXCEPT ![c] = Tail(@)] /\ UNCHANGED wire
                        /\ phase'[c] # "closed"
         /\ up'[c] = up[c] => ~Reads(c)
         /\ \A f \in Frames : up'[c] = Append(up[c], f) => ~Reads(c)
  <1>0. up \in [Connections -> Seq(Frames)] /\ up[c] \in Seq(Frames)
        /\ phase \in [Connections -> {"new", "attached", "closed"}]
    BY DEF Types, WireTypes
  <1>1. ASSUME Reads(c)
        PROVE  /\ up[c] # <<>> /\ up' = [up EXCEPT ![c] = Tail(@)] /\ UNCHANGED wire
               /\ phase'[c] # "closed"
    <2>1. CASE ReadQuery(c)
      BY <2>1 DEF ReadQuery, Reading
    <2>2. CASE Read(c)
      <3>1. /\ up[c] # <<>> /\ up' = [up EXCEPT ![c] = Tail(@)] /\ UNCHANGED wire
            /\ phase[c] # "closed"
        BY <2>2 DEF Read, Reading, Handle
      <3>2. phase' = phase \/ phase' = [phase EXCEPT ![c] = "attached"]
        BY <2>2 DEF Read, Handle, Attach, Register, ReadAck, ReadReport
      <3>3. QED
        BY <1>0, <3>1, <3>2
    <2>3. QED
      BY <1>1, <2>1, <2>2 DEF Reads
  <1>2. PICK q \in Seq(Frames) : q = up[c]
    BY <1>0
  <1>3. q # <<>> => Tail(q) # q /\ \A f \in Frames : Tail(q) # Append(q, f)
    <2>1. SUFFICES ASSUME q # <<>> PROVE Tail(q) # q /\ \A f \in Frames : Tail(q) # Append(q, f)
      OBVIOUS
    <2>2. PICK n, m : n = Len(q) /\ m = Len(Tail(q))
      OBVIOUS
    <2>3. n \in Nat /\ m = n - 1
      BY <2>1, <2>2
    <2>4. m # n /\ m # n + 1
      BY <2>3
    <2>5. \A f \in Frames : Len(Append(q, f)) = n + 1
      BY <2>2
    <2>6. QED
      BY <2>2, <2>4, <2>5
  <1>4. Reads(c) => q # <<>> /\ up'[c] = Tail(q)
    BY <1>0, <1>1, <1>2
  <1>5. QED
    BY <1>1, <1>2, <1>3, <1>4

LEMMA WayTypes ==
  ASSUME Types, Owned, NEW c \in Connections
  PROVE  /\ up[c] \in Seq(Meant) /\ outbound \in Seq(Meant) /\ Way(c) \in Seq(Meant)
         /\ Way(c) \in Seq(Frames) /\ up[c] \in Seq(Frames) /\ outbound \in Seq(Frames)
         /\ up[c] # <<>> => Way(c) # <<>>
  <1>1. up[c] \in Seq(Meant)
    BY DEF Owned
  <1>2. outbound \in Seq(Meant)
    BY SeqMore DEF Owned, Sayings
  <1>3. up[c] \o outbound \in Seq(Meant)
    BY <1>1, <1>2, ConcatProperties
  <1>4. up[c] # <<>> => up[c] \o outbound # <<>>
    BY <1>1, <1>2, ConcatEqualIffEmpty
  <1>5. Meant \subseteq Frames
    BY DEF Meant
  <1>6. up[c] \in Seq(Frames) /\ outbound \in Seq(Frames)
    BY <1>1, <1>2, <1>5, SeqMore
  <1>7. up[c] \o outbound \in Seq(Frames)
    BY <1>6, ConcatProperties
  <1>8. QED
    BY <1>1, <1>2, <1>3, <1>4, <1>6, <1>7 DEF Way

\* Where no read takes from a connection and the link stays, its way stays.
LEMMA WayStill ==
  ASSUME Types, Owned, NEW c \in Connections, up'[c] = up[c], UNCHANGED outbound,
         (Joined(c))' <=> Joined(c)
  PROVE  Way(c)' = Way(c)
  BY DEF Way

Shortened(c) == Way(c)' \in Seq(Meant) /\ \E q \in Seq(Meant) : Way(c) = Way(c)' \o q

\* A connection the link is no longer on: the rest will not come on it.
LEMMA WayEnds ==
  ASSUME Types, Owned, NEW c \in Connections, up'[c] = up[c], ~(Joined(c))'
  PROVE  Shortened(c)
  <1>1. up[c] \in Seq(Meant) /\ outbound \in Seq(Meant) /\ <<>> \in Seq(Meant)
    BY WayTypes
  <1>2. Way(c)' = up[c]
    BY DEF Way
  <1>3. up[c] \o <<>> = up[c]
    BY <1>1, QueueMoves
  <1>4. QED
    BY <1>1, <1>2, <1>3 DEF Way, Shortened

LEMMA WaySteps ==
  ASSUME Types, QueryInv, Owned, [Next]_vars, NEW c \in Connections, wire[c] # "none",
         ~(Welcomed /\ c = link)
  PROVE  \/ ~Speaking /\ ~Reads(c) /\ Way(c)' = Way(c) /\ ((Joined(c))' => Joined(c))
         \/ Speaking /\ ~Reads(c) /\ Way(c)' = Way(c) /\ ~(Joined(c))'
         \/ ~Speaking /\ Reads(c) /\ Way(c)' = Tail(Way(c)) /\ ((Joined(c))' => Joined(c))
         \/ ~Reads(c) /\ Way(c)' = <<>> /\ ~(Joined(c))'
         \/ ~Speaking /\ ~Reads(c) /\ ~(Joined(c))' /\ Shortened(c)
         \/ /\ Speaking /\ ~Reads(c) /\ Joined(c)
            /\ \A f \in Frames : outbound' = Append(outbound, f) => Way(c)' = Append(Way(c), f)
  <1>0. /\ up \in [Connections -> Seq(Frames)] /\ wire \in [Connections -> {"none", "up", "broken"}]
        /\ up[c] \in Seq(Frames) /\ outbound \in Seq(Frames) /\ c # None
        /\ phase \in [Connections -> {"new", "attached", "closed"}]
    BY RelayAssumption DEF Types, WireTypes, LoopTypes
  <1>1. ASSUME up'[c] = up[c], UNCHANGED outbound, (Joined(c))' <=> Joined(c), ~Speaking
        PROVE  ~Speaking /\ ~Reads(c) /\ Way(c)' = Way(c) /\ ((Joined(c))' => Joined(c))
    BY <1>1, WayStill, ReadsFacts
  <1>2. ASSUME up'[c] = up[c], ~(Joined(c))', ~Speaking
        PROVE  ~Speaking /\ ~Reads(c) /\ ~(Joined(c))' /\ Shortened(c)
    BY <1>2, WayEnds, ReadsFacts
  <1>3. CASE Speaking
    <2>1. up' = up /\ wire' = wire /\ link' = link /\ writer' = writer
      BY <1>3 DEF Speaking, TurnDown, TakeRun, Report, Finish, Ask, relayVars
    <2>2. ((Joined(c))' <=> Joined(c)) /\ ~Reads(c)
      BY <2>1, ReadsFacts DEF Joined
    <2>3. CASE Joined(c)
      <3>1. Way(c) = up[c] \o outbound /\ Way(c)' = up[c] \o outbound'
        BY <2>1, <2>2, <2>3 DEF Way
      <3>2. \A f \in Frames : up[c] \o Append(outbound, f) = Append(up[c] \o outbound, f)
        BY <1>0, QueueMoves
      <3>3. QED
        BY <1>3, <2>2, <2>3, <3>1, <3>2
    <2>4. CASE ~Joined(c)
      BY <1>3, <2>1, <2>2, <2>4 DEF Way
    <2>5. QED
      BY <2>3, <2>4
  <1>4. CASE GatewayNext /\ UNCHANGED <<agentVars, answering>> /\ ~Speaking
    <2>0. outbound' = outbound /\ link' = link /\ writer' = writer
      BY <1>4 DEF agentVars
    <2>1. CASE \E r \in Runs : StartRun(r) \/ Offer(r) \/ TakeBack(r) \/ CancelRun(r)
      <3>1. up' = up /\ wire' = wire
        BY <2>1 DEF StartRun, Offer, TakeBack, CancelRun
      <3>2. (Joined(c))' <=> Joined(c)
        BY <2>0, <3>1 DEF Joined
      <3>3. QED
        BY <1>1, <1>4, <2>0, <3>1, <3>2
    <2>2. ASSUME NEW d \in Connections, Read(d)
          PROVE  \/ ~Speaking /\ ~Reads(c) /\ Way(c)' = Way(c) /\ ((Joined(c))' => Joined(c))
                 \/ ~Speaking /\ Reads(c) /\ Way(c)' = Tail(Way(c)) /\ ((Joined(c))' => Joined(c))
      <3>1. up[d] # <<>> /\ up' = [up EXCEPT ![d] = Tail(@)] /\ wire' = wire
        BY <2>2, ReadsFacts DEF Reads
      <3>2. (Joined(c))' <=> Joined(c)
        BY <2>0, <3>1 DEF Joined
      <3>3. CASE d # c
        <4>1. up'[c] = up[c]
          BY <1>0, <3>1, <3>3
        <4>2. QED
          BY <1>1, <1>4, <2>0, <3>2, <4>1
      <3>4. CASE d = c
        <4>1. up'[c] = Tail(up[c]) /\ up[c] # <<>> /\ Reads(c)
          BY <1>0, <2>2, <3>1, <3>4 DEF Reads
        <4>2. Tail(up[c]) \o outbound = Tail(up[c] \o outbound)
          BY <1>0, <4>1, QueueMoves
        <4>3. Way(c)' = Tail(Way(c))
          BY <2>0, <3>2, <4>1, <4>2 DEF Way
        <4>4. QED
          BY <1>4, <3>2, <4>1, <4>3
      <3>5. QED
        BY <3>3, <3>4
    <2>3. ASSUME NEW d \in Connections, RefuseHello(d) \/ Disconnect(d)
          PROVE  \/ ~Speaking /\ ~Reads(c) /\ Way(c)' = Way(c) /\ ((Joined(c))' => Joined(c))
                 \/ ~Reads(c) /\ Way(c)' = <<>> /\ ~(Joined(c))'
      <3>1. /\ up' = [up EXCEPT ![d] = <<>>] /\ phase' = [phase EXCEPT ![d] = "closed"]
            /\ wire' = [wire EXCEPT ![d] = "broken"]
        BY <1>0, <2>3 DEF RefuseHello, Disconnect
      <3>2. CASE d # c
        <4>1. up'[c] = up[c] /\ wire'[c] = wire[c]
          BY <1>0, <3>1, <3>2
        <4>2. (Joined(c))' <=> Joined(c)
          BY <2>0, <4>1 DEF Joined
        <4>3. QED
          BY <1>1, <1>4, <2>0, <4>1, <4>2
      <3>3. CASE d = c
        <4>1. up'[c] = <<>> /\ wire'[c] = "broken" /\ phase'[c] = "closed"
          BY <1>0, <3>1, <3>3
        <4>2. ~(Joined(c))' /\ ~Reads(c)
          BY <4>1, ReadsFacts DEF Joined
        <4>3. QED
          BY <4>1, <4>2 DEF Way
      <3>4. QED
        BY <3>2, <3>3
    <2>4. QED
      BY <1>4, <2>1, <2>2, <2>3 DEF GatewayNext
  <1>5. CASE Dial /\ ~Speaking
    <2>1. PICK d \in Connections : /\ wire[d] = "none" /\ link' = d /\ up' = [up EXCEPT ![d] = <<Note("hello")>>]
                                   /\ at = "waiting"
      BY <1>5 DEF Dial, Fresh
    <2>2. c # d /\ link = None
      BY <2>1 DEF QueryInv, Whereabouts
    <2>3. up'[c] = up[c] /\ outbound' = outbound
      BY <1>0, <1>5, <2>1, <2>2 DEF Dial
    <2>4. ~Joined(c) /\ ~(Joined(c))'
      BY <1>0, <2>1, <2>2 DEF Joined
    <2>5. QED
      BY <1>1, <1>5, <2>3, <2>4
  <1>6. CASE Welcomed /\ ~Speaking
    <2>1. c # link /\ link' = link /\ outbound' = outbound /\ wire' = wire
      BY <1>6 DEF Welcomed
    <2>2. up'[c] = up[c]
      BY <1>0, <1>6, <2>1 DEF Welcomed, Send
    <2>3. (Joined(c))' <=> Joined(c)
      BY <2>1 DEF Joined
    <2>4. QED
      BY <1>1, <1>6, <2>1, <2>2, <2>3
  <1>7. CASE (Registered \/ TakeCancel \/ TakeError \/ TakeResult) /\ ~Speaking
    <2>1. /\ up' = up /\ wire' = wire /\ link' = link /\ outbound' = outbound
          /\ writer' # "dead" <=> writer # "dead"
      BY <1>7 DEF Registered, TakeCancel, TakeError, TakeResult, agentVars, Types, LoopTypes
    <2>2. (Joined(c))' <=> Joined(c)
      BY <2>1 DEF Joined
    <2>3. QED
      BY <1>1, <1>7, <2>1, <2>2
  <1>8. CASE (CeremonyFails \/ ConnectionEnds) /\ ~Speaking
    <2>1. up' = up /\ link' = None
      BY <1>8 DEF CeremonyFails, ConnectionEnds, LinkEnds
    <2>2. ~(Joined(c))'
      BY <1>0, <2>1 DEF Joined
    <2>3. QED
      BY <1>2, <1>8, <2>1, <2>2
  <1>9. CASE Write /\ ~Speaking
    <2>1. wire' = wire /\ link' = link /\ outbound # <<>> /\ outbound' = Tail(outbound)
          /\ writer' = writer /\ writer = "running"
          /\ Send(Head(outbound)) /\ Head(outbound) \in Frames
      BY <1>0, <1>9, HeadTail DEF Write
    <2>2. (Joined(c))' <=> Joined(c)
      BY <2>1 DEF Joined
    <2>3. CASE Joined(c)
      <3>1. up'[c] = Append(up[c], Head(outbound))
        BY <1>0, <2>1, <2>3 DEF Joined, Send
      <3>2. ~Reads(c)
        BY <2>1, <3>1, ReadsFacts
      <3>3. Append(up[c], Head(outbound)) \o Tail(outbound) = up[c] \o outbound
        BY <1>0, <2>1, QueueMoves
      <3>4. Way(c)' = Way(c)
        BY <2>1, <2>2, <2>3, <3>1, <3>3 DEF Way
      <3>5. QED
        BY <1>9, <2>2, <3>2, <3>4
    <2>4. CASE ~Joined(c)
      <3>1. up'[c] = up[c]
        BY <1>0, <2>1, <2>4 DEF Joined, Send
      <3>2. Way(c)' = Way(c) /\ ~Reads(c)
        BY <2>2, <2>4, <3>1, ReadsFacts DEF Way
      <3>3. QED
        BY <1>9, <2>2, <3>2
    <2>5. QED
      BY <2>3, <2>4
  <1>10. CASE WriterFails /\ ~Speaking
    <2>1. up' = up /\ writer' = "dead"
      BY <1>10 DEF WriterFails, relayVars
    <2>2. ~(Joined(c))'
      BY <2>1 DEF Joined
    <2>3. QED
      BY <1>2, <1>10, <2>1, <2>2
  <1>11. CASE (\E x \in Executions : QueryTimeout(x)) /\ ~Speaking
    <2>1. up' = up /\ wire' = wire /\ link' = link /\ outbound' = outbound /\ writer' = writer
      BY <1>11 DEF QueryTimeout, relayVars
    <2>2. (Joined(c))' <=> Joined(c)
      BY <2>1 DEF Joined
    <2>3. QED
      BY <1>1, <1>11, <2>1, <2>2
  <1>12. ASSUME NEW d \in Connections, ReadQuery(d), ~Speaking
         PROVE  \/ ~Speaking /\ ~Reads(c) /\ Way(c)' = Way(c) /\ ((Joined(c))' => Joined(c))
                \/ ~Speaking /\ Reads(c) /\ Way(c)' = Tail(Way(c)) /\ ((Joined(c))' => Joined(c))
    <2>1. up[d] # <<>> /\ up' = [up EXCEPT ![d] = Tail(@)] /\ wire' = wire
      BY <1>12, ReadsFacts DEF Reads
    <2>0. outbound' = outbound /\ link' = link /\ writer' = writer
      BY <1>12 DEF ReadQuery, agentVars
    <2>2. (Joined(c))' <=> Joined(c)
      BY <2>0, <2>1 DEF Joined
    <2>3. CASE d # c
      <3>1. up'[c] = up[c]
        BY <1>0, <2>1, <2>3
      <3>2. QED
        BY <1>1, <1>12, <2>0, <2>2, <3>1
    <2>4. CASE d = c
      <3>1. up'[c] = Tail(up[c]) /\ up[c] # <<>> /\ Reads(c)
        BY <1>0, <1>12, <2>1, <2>4 DEF Reads
      <3>2. Tail(up[c]) \o outbound = Tail(up[c] \o outbound)
        BY <1>0, <3>1, QueueMoves
      <3>3. Way(c)' = Tail(Way(c))
        BY <2>0, <2>2, <3>1, <3>2 DEF Way
      <3>4. QED
        BY <1>12, <2>2, <3>1, <3>3
    <2>5. QED
      BY <2>3, <2>4
  <1>13. ASSUME NEW d \in Connections, WireBreaks(d), ~Speaking
         PROVE  \/ ~Speaking /\ ~Reads(c) /\ Way(c)' = Way(c) /\ ((Joined(c))' => Joined(c))
                \/ ~Speaking /\ ~Reads(c) /\ ~(Joined(c))' /\ Shortened(c)
    <2>1. /\ up' = up /\ outbound' = outbound /\ link' = link /\ writer' = writer
          /\ wire' = [wire EXCEPT ![d] = "broken"]
      BY <1>13 DEF WireBreaks, agentVars
    <2>2. CASE d # c
      <3>1. (Joined(c))' <=> Joined(c)
        BY <1>0, <2>1, <2>2 DEF Joined
      <3>2. QED
        BY <1>1, <1>13, <2>1, <3>1
    <2>3. CASE d = c
      <3>1. ~(Joined(c))'
        BY <1>0, <2>1, <2>3 DEF Joined
      <3>2. QED
        BY <1>2, <1>13, <2>1, <3>1
    <2>4. QED
      BY <2>2, <2>3
  <1>14. CASE (UNCHANGED vars \/ \E t \in answering : AnswerQuery(t)) /\ ~Speaking
    <2>1. up' = up /\ wire' = wire /\ link' = link /\ outbound' = outbound /\ writer' = writer
      BY <1>14 DEF AnswerQuery, vars, linkVars, relayVars, agentVars
    <2>2. (Joined(c))' <=> Joined(c)
      BY <2>1 DEF Joined
    <2>3. QED
      BY <1>1, <1>14, <2>1, <2>2
  <1>15. QED
    BY <1>3, <1>4, <1>5, <1>6, <1>7, <1>8, <1>9, <1>10, <1>11, <1>12, <1>13, <1>14, LinkCases DEF Speaking

(* What is behind a yes stays in line, and comes off it in order. *)
LEMMA OnTheWayNext ==
  ASSUME Types, QueryInv, Owned, [Next]_vars, NEW c \in Connections, NEW x \in Executions,
         exec[x].stage # "free", wire[c] # "none", ~(Welcomed /\ c = link),
         NEW H, H \in SUBSET (1..exec[x].told), OnTheWay(c, x, H),
         NEW G, G = H \cup {n \in Nat : WordAt(up[c], 1, x, n)}
  PROVE  /\ Reads(c) => OnTheWay(c, x, G)'
         /\ ~Reads(c) => OnTheWay(c, x, H)'
  <1>1. PICK r, a, b, t, u, w, v :
          /\ r = exec[x].run /\ a = Alone(x) /\ b = Alone(x)' /\ t = exec[x].told /\ u = exec'[x].told
          /\ w = Way(c) /\ v = Way(c)'
    OBVIOUS
  <1>2. /\ a \in BOOLEAN /\ b \in BOOLEAN /\ (b => a) /\ t \in Nat /\ u \in Nat /\ exec'[x].run = r
        /\ w \in Seq(Meant) /\ w \in Seq(Frames) /\ H \in SUBSET Nat
    BY <1>1, AloneStays, ExecStays, WayTypes, BoundHere
  <1>3. Line(w, x, r, a, H, t) /\ (Joined(c) => SaidAll(w, x, H, t))
    BY <1>1 DEF OnTheWay
  <1>4. ASSUME NEW K, Line(v, x, r, b, K, u), (Joined(c))' => SaidAll(v, x, K, u)
        PROVE  OnTheWay(c, x, K)'
    BY <1>1, <1>2, <1>4 DEF OnTheWay
  <1>5. Line(w, x, r, b, H, t)
    BY <1>2, <1>3, LineLoses
  <1>6. ~Speaking => u = t
    BY <1>1, TellingIsSpeaking
  <1>7. CASE ~Speaking /\ ~Reads(c) /\ v = w /\ ((Joined(c))' => Joined(c))
    BY <1>3, <1>4, <1>5, <1>6, <1>7
  <1>8. CASE Speaking /\ ~Reads(c) /\ v = w /\ ~(Joined(c))'
    <2>1. CASE u = t
      BY <1>4, <1>5, <1>8, <2>1
    <2>2. CASE Report(x)
      <3>1. exec[x].stage # "done"
        BY <2>2 DEF Report, Working
      <3>2. a => \A i \in Nat : ~CloseAt(w, i, r)
        BY <1>1, <1>2, <3>1, NoClose
      <3>3. Line(w, x, r, a, H, u)
        BY <1>3, <3>2, LineGoesOn
      <3>4. Line(w, x, r, b, H, u)
        BY <1>2, <3>3, LineLoses
      <3>5. QED
        BY <1>4, <1>8, <3>4
    <2>3. QED
      BY <1>1, <2>1, <2>2, ExecStays
  <1>9. CASE ~Speaking /\ Reads(c) /\ v = Tail(w) /\ ((Joined(c))' => Joined(c))
    <2>1. up[c] # <<>> /\ up[c] \in Seq(Frames) /\ outbound \in Seq(Frames) /\ w # <<>>
      BY <1>1, <1>9, ReadsFacts, WayTypes
    <2>2. \A n \in Nat : WordAt(w, 1, x, n) <=> WordAt(up[c], 1, x, n)
      <3>1. 1 <= Len(up[c]) /\ 1 \in Nat
        BY <2>1
      <3>2. \A n : WordAt(up[c] \o outbound, 1, x, n) <=> WordAt(up[c], 1, x, n)
        BY <2>1, <3>1, AfterConcat
      <3>3. QED
        BY <1>1, <3>2 DEF Way
    <2>3. G = H \cup {n \in Nat : WordAt(w, 1, x, n)}
      BY <2>2
    <2>4. Line(v, x, r, b, G, t) /\ (SaidAll(w, x, H, t) => SaidAll(v, x, G, t))
      BY <1>2, <1>5, <1>9, <2>1, <2>3, LineRead
    <2>5. QED
      BY <1>3, <1>4, <1>6, <1>9, <2>4
  <1>10. CASE ~Reads(c) /\ v = <<>> /\ ~(Joined(c))'
    BY <1>4, <1>10, EmptyQueue
  <1>11. CASE ~Speaking /\ ~Reads(c) /\ ~(Joined(c))' /\ Shortened(c)
    <2>1. v \in Seq(Meant) /\ \E q \in Seq(Meant) : w = v \o q
      BY <1>1, <1>11 DEF Shortened
    <2>2. PICK q \in Seq(Meant) : w = v \o q
      BY <2>1
    <2>3. Line(v, x, r, b, H, t)
      BY <1>2, <1>5, <2>1, <2>2, LineStart
    <2>4. QED
      BY <1>4, <1>6, <1>11, <2>3
  <1>12. CASE /\ Speaking /\ ~Reads(c) /\ Joined(c)
              /\ \A f \in Frames : outbound' = Append(outbound, f) => v = Append(w, f)
    <2>1. PICK f \in Frames :
           /\ outbound' = Append(outbound, f)
           /\ \A q \in Seq(Meant), K \in SUBSET (1..t) :
                Line(q, x, r, a, K, t) /\ SaidAll(q, x, K, t) =>
                  Line(Append(q, f), x, r, b, K, u) /\ SaidAll(Append(q, f), x, K, u)
      BY <1>1, <1>12, SpeaksInLine
    <2>2. v = Append(w, f) /\ H \in SUBSET (1..t)
      BY <1>1, <1>12, <2>1
    <2>3. Line(v, x, r, b, H, u) /\ SaidAll(v, x, H, u)
      BY <1>2, <1>3, <1>12, <2>1, <2>2
    <2>4. QED
      BY <1>4, <1>12, <2>3
  <1>13. QED
    BY <1>1, <1>7, <1>8, <1>9, <1>10, <1>11, <1>12, WaySteps

\* Nothing is on the way of an execution that starts.
LEMMA Novice ==
  ASSUME Types, QueryInv, Owned, [Next]_vars, NEW x \in Executions, TakeRun(x),
         NEW r, NEW b, r = exec'[x].run, b = Alone(x)'
  PROVE  /\ exec'[x].told = 0 /\ up' = up /\ UNCHANGED <<claim, record>>
         /\ \E f \in Frames : f.type = "ack" /\ outbound' = Append(outbound, f)
         /\ \A q \in Seq(Meant) : NoYes(q, x) /\ Silent(q, x, r, b)
  <1>0. exec \in [Executions -> ExecRecords] /\ outbound \in Seq(Frames)
    BY DEF Types, LoopTypes
  <1>1. /\ exec' = [exec EXCEPT ![x] = [run |-> Head(down[link]).run, stage |-> "working", told |-> 0]]
        /\ exec[x].stage = "free" /\ up' = up
        /\ Ack(Head(down[link]).run, "accepted", x) /\ UNCHANGED <<claim, record>>
    BY DEF TakeRun, runVars
  <1>2. exec'[x] = [run |-> Head(down[link]).run, stage |-> "working", told |-> 0]
    BY <1>0, <1>1
  <1>3. exec'[x].told = 0 /\ exec'[x].stage # "free"
    BY <1>2
  <1>4. \E f \in Frames : f.type = "ack" /\ outbound' = Append(outbound, f)
    <2>1. PICK f \in Frames : outbound' = Append(outbound, f)
      BY SayingMeant DEF Sayings, Meant
    <2>2. PICK g : g = Frame("ack", Head(down[link]).run, [verdict |-> "accepted", who |-> x])
      OBVIOUS
    <2>3. outbound' = Append(outbound, g) /\ g.type = "ack"
      BY <1>1, <2>2, FrameIs DEF Ack, Say
    <2>4. Append(outbound, g)[Len(outbound) + 1] = g /\ Append(outbound, f)[Len(outbound) + 1] = f
      BY <1>0
    <2>5. f = g
      BY <2>1, <2>3, <2>4
    <2>6. QED
      BY <2>1, <2>3, <2>5
  <1>5. ASSUME NEW q \in Seq(Meant) PROVE NoYes(q, x) /\ Silent(q, x, r, b)
    <2>1. NoYes(q, x)
      BY <1>1, YesBegan
    <2>2. \A i, n \in Nat : ~WordAt(q, i, x, n)
      BY <1>1, WordBound DEF Began
    <2>3. ASSUME NEW i \in Nat, b, CloseAt(q, i, r) PROVE FALSE
      <3>1. PICK f : f = q[i]
        OBVIOUS
      <3>2. f \in Meant /\ f.type = "finish" /\ f.run = r
        BY <2>3, <3>1 DEF CloseAt
      <3>3. PICK y \in Executions : Began(y, r) /\ exec[y].stage = "done"
        BY <3>2 DEF Meant, Opener, Verdict, Event, Closing
      <3>4. y # x /\ exec'[y] = exec[y]
        BY <1>0, <1>1, <3>3
      <3>5. {z \in Executions : exec'[z].stage # "free" /\ exec'[z].run = exec'[x].run} = {x}
        BY <2>3 DEF Alone, Crew
      <3>6. exec'[y].stage # "free" /\ exec'[y].run = exec'[x].run
        BY <3>3, <3>4 DEF Began
      <3>7. QED
        BY <3>4, <3>5, <3>6
    <2>4. QED
      BY <2>1, <2>2, <2>3 DEF Silent
  <1>6. QED
    BY <1>1, <1>3, <1>4, <1>5

\* What is said with a yes for an execution in it: that execution starts.
LEMMA YesStarts ==
  ASSUME Types, QueryInv, Owned, [Next]_vars, NEW x \in Executions, NoYes(outbound, x), ~NoYes(outbound', x)
  PROVE  TakeRun(x)
  <1>0. outbound \in Seq(Frames)
    BY DEF Types, LoopTypes
  <1>1. ~UNCHANGED outbound
    OBVIOUS
  <1>2. ~(outbound # <<>> /\ outbound' = Tail(outbound))
    <2>1. outbound # <<>> => NoYes(Tail(outbound), x)
      <3>1. PICK q \in Seq(Frames) : q = outbound
        BY <1>0
      <3>2. PICK H \in SUBSET Nat, a \in BOOLEAN, t \in Nat : TRUE
        <4>1. {} \in SUBSET Nat /\ TRUE \in BOOLEAN /\ 0 \in Nat
          OBVIOUS
        <4>2. QED
          BY <4>1
      <3>3. ASSUME q # <<>>, NEW r PROVE NoYes(q, x) => NoYes(Tail(q), x)
        BY <3>2, <3>3, LineRead
      <3>4. QED
        BY <3>1, <3>3
    <2>2. QED
      BY <2>1
  <1>3. Speaking
    BY <1>1, <1>2, OutSteps DEF Speaking
  <1>4. ASSUME NEW f \in Frames, outbound' = Append(outbound, f) PROVE Yes(f, x)
    BY <1>0, <1>4, NoYesAppend
  <1>5. CASE exec[x].stage # "free"
    <2>1. PICK f \in Frames : outbound' = Append(outbound, f) /\ ~Yes(f, x)
      BY <1>3, <1>5, WhatIsSaid
    <2>2. QED
      BY <1>4, <2>1
  <1>6. CASE exec[x].stage = "free"
    <2>1. PICK f \in Sayings' : outbound' = Append(outbound, f)
      BY <1>3, SayingMeant DEF Speaking
    <2>2. f \in Meant' /\ f \in Frames
      BY <2>1 DEF Sayings, Meant
    <2>3. Yes(f, x)
      BY <1>4, <2>1, <2>2
    <2>4. Verdict(f)'
      BY <2>2, <2>3 DEF Meant, Opener, Event, Closing, Yes
    <2>5. exec'[x].stage # "free"
      BY <2>3, <2>4 DEF Verdict, Yes, Began
    <2>6. ~Report(x) /\ ~Finish(x) /\ ~Working(x)
      BY <1>6 DEF Report, Finish, Over, Working
    <2>7. QED
      BY <1>6, <2>5, <2>6, ExecSteps
  <1>7. QED
    BY <1>5, <1>6

LEMMA QueuedInit == Init => Queued
  BY EmptyQueue DEF Init, Queued

\* The head of a line that still has its yes to come.
LEMMA HeadOfLine ==
  ASSUME NEW q \in Seq(Frames), q # <<>>, NEW x, NEW r, NEW a \in BOOLEAN, NEW t,
         Line(q, x, r, a, {}, t), ~NoYes(q, x)
  PROVE  /\ \A n \in Nat : ~WordAt(q, 1, x, n)
         /\ {} = {} \cup {n \in Nat : WordAt(q, 1, x, n)}
         /\ ~NoYes(Tail(q), x) => Apart(Head(q), x, r, a)
  <1>1. /\ YesAt(q, 1, x) => NoYes(Tail(q), x)
        /\ \A n \in Nat : ~WordAt(q, 1, x, n)
        /\ a => ~CloseAt(q, 1, r)
    BY YesIsFirst
  <1>2. Head(q) = q[1] /\ 1 \in DOMAIN q
    OBVIOUS
  <1>3. QED
    BY <1>1, <1>2 DEF YesAt, WordAt, CloseAt, Apart

LEMMA QueuedNext ==
  ASSUME Types, QueryInv, Owned, Queued, [Next]_vars
  PROVE  Queued'
  <1> SUFFICES ASSUME NEW x \in Executions, ~NoYes(outbound', x)
               PROVE  /\ (\A c \in Connections : NoYes(up[c], x) /\ Hushed(c, x))'
                      /\ (Line(outbound, x, exec[x].run, Alone(x), {}, exec[x].told))'
                      /\ (SaidAll(outbound, x, {}, exec[x].told))'
    BY DEF Queued
  <1>0. outbound \in Seq(Meant) /\ outbound \in Seq(Frames)
    <2>1. outbound \in Seq(Meant)
      BY SeqMore DEF Owned, Sayings
    <2>2. QED
      BY <2>1 DEF Types, LoopTypes
  <1>1. CASE NoYes(outbound, x)
    <2>1. TakeRun(x)
      BY <1>1, YesStarts
    <2>2. PICK r, b : r = exec'[x].run /\ b = Alone(x)' /\ b \in BOOLEAN
      BY DEF Alone
    <2>3. /\ exec'[x].told = 0 /\ up' = up
          /\ \E f \in Frames : f.type = "ack" /\ outbound' = Append(outbound, f)
          /\ \A q \in Seq(Meant) : NoYes(q, x) /\ Silent(q, x, r, b)
      BY <2>1, <2>2, Novice
    <2>4. \A c \in Connections : NoYes(up'[c], x) /\ Silent(up'[c], x, r, b)
      BY <2>3, WayTypes
    <2>5. PICK f \in Frames : f.type = "ack" /\ outbound' = Append(outbound, f)
      BY <2>3
    <2>6. PICK H : H = {}
      OBVIOUS
    <2>7. Line(outbound', x, r, b, H, 0)
      BY <1>0, <2>2, <2>3, <2>5, LineBegins
    <2>8. SaidAll(outbound', x, {}, 0)
      BY DEF SaidAll
    <2>9. QED
      BY <2>2, <2>3, <2>4, <2>6, <2>7, <2>8 DEF Hushed
  <1>2. CASE ~NoYes(outbound, x)
    <2>1. exec[x].stage # "free" /\ outbound # <<>>
      BY <1>0, <1>2, YesBegan
    <2>2. PICK r, a, b, t, u :
            /\ r = exec[x].run /\ a = Alone(x) /\ b = Alone(x)' /\ t = exec[x].told /\ u = exec'[x].told
      OBVIOUS
    <2>3. a \in BOOLEAN /\ b \in BOOLEAN /\ (b => a) /\ exec'[x].run = r /\ t \in Nat
      BY <2>1, <2>2, AloneStays, ExecStays
    <2>4. /\ \A c \in Connections : NoYes(up[c], x) /\ Silent(up[c], x, r, a)
          /\ Line(outbound, x, r, a, {}, t)
          /\ SaidAll(outbound, x, {}, t)
      BY <1>2, <2>2 DEF Queued, Hushed
    <2>5. /\ {} = {} \cup {n \in Nat : WordAt(outbound, 1, x, n)}
          /\ ~NoYes(Tail(outbound), x) => Apart(Head(outbound), x, r, a)
      BY <1>0, <1>2, <2>1, <2>3, <2>4, HeadOfLine
    <2>6. Write => Apart(Head(outbound), x, r, a)
      BY <2>5 DEF Write
    <2>7. ASSUME NEW c \in Connections PROVE NoYes(up'[c], x) /\ Silent(up'[c], x, r, b)
      <3>1. Write => ~Yes(Head(outbound), x)
        BY <2>6 DEF Apart, Yes
      <3>2. NoYes(up'[c], x) /\ Silent(up'[c], x, r, a)
        BY <2>3, <2>4, <2>6, <3>1, UpSilence
      <3>3. QED
        BY <2>3, <3>2, LineLoses
    <2>8. Line(outbound', x, r, b, {}, u) /\ SaidAll(outbound', x, {}, u)
      <3>1. CASE Speaking
        <4>1. PICK f \in Frames :
                /\ outbound' = Append(outbound, f)
                /\ \A q \in Seq(Meant), H \in SUBSET (1..t) :
                     Line(q, x, r, a, H, t) /\ SaidAll(q, x, H, t) =>
                       Line(Append(q, f), x, r, b, H, u) /\ SaidAll(Append(q, f), x, H, u)
          BY <2>1, <2>2, <3>1, SpeaksInLine
        <4>2. {} \in SUBSET (1..t)
          OBVIOUS
        <4>3. QED
          BY <1>0, <2>4, <4>1, <4>2
      <3>2. CASE ~Speaking
        <4>1. u = t
          BY <2>1, <2>2, <3>2, TellingIsSpeaking
        <4>2. Line(outbound, x, r, b, {}, t)
          BY <2>3, <2>4, LineLoses
        <4>3. CASE UNCHANGED outbound
          BY <2>4, <4>1, <4>2, <4>3
        <4>4. CASE outbound' = Tail(outbound)
          <5>1. PICK H : H = {}
            OBVIOUS
          <5>2. H \in SUBSET Nat /\ H = H \cup {n \in Nat : WordAt(outbound, 1, x, n)}
            BY <2>5, <5>1
          <5>3. Line(outbound, x, r, b, H, t) /\ SaidAll(outbound, x, H, t)
            BY <2>4, <4>2, <5>1
          <5>4. Line(Tail(outbound), x, r, b, H, t) /\ SaidAll(Tail(outbound), x, H, t)
            BY <1>0, <2>1, <2>3, <5>2, <5>3, LineRead
          <5>5. QED
            BY <4>1, <4>4, <5>1, <5>4
        <4>5. QED
          BY <3>2, <4>3, <4>4, OutSteps DEF Speaking
      <3>3. QED
        BY <3>1, <3>2
    <2>9. QED
      BY <2>2, <2>3, <2>7, <2>8 DEF Hushed
  <1>3. QED
    BY <1>1, <1>2

LEMMA SentInit == Init => Sent
  BY EmptyQueue DEF Init, RelayInit, Sent

LEMMA SentNext ==
  ASSUME Types, QueryInv, Owned, Opening, Hellos, Succession, Queued, Sent, [Next]_vars
  PROVE  Sent'
  <1> SUFFICES ASSUME NEW x \in Executions, NEW c \in Connections, ~NoYes(up'[c], x)
               PROVE  /\ \A d \in Connections \ {c} :
                           NoYes(up'[d], x) /\ (attached' = c => Hushed(d, x)')
                      /\ OnTheWay(c, x, {})'
    BY DEF Sent
  <1>0. /\ up[c] \in Seq(Meant) /\ outbound \in Seq(Meant) /\ outbound \in Seq(Frames)
        /\ up \in [Connections -> Seq(Frames)] /\ up[c] \in Seq(Frames) /\ <<>> \in Seq(Frames)
    BY WayTypes DEF Types, WireTypes
  <1>1. PICK r, a, b, t, u :
          /\ r = exec[x].run /\ a = Alone(x) /\ b = Alone(x)' /\ t = exec[x].told /\ u = exec'[x].told
    OBVIOUS
  <1>2. CASE ~NoYes(up[c], x)
    <2>1. exec[x].stage # "free" /\ up[c] # <<>> /\ wire[c] # "none"
      BY <1>0, <1>2, YesBegan DEF Opening, Untouched
    <2>2. a \in BOOLEAN /\ b \in BOOLEAN /\ (b => a) /\ exec'[x].run = r
      BY <1>1, <2>1, AloneStays, ExecStays
    <2>3. NoYes(outbound, x)
      BY <1>2 DEF Queued
    <2>4. /\ \A d \in Connections \ {c} : NoYes(up[d], x) /\ (attached = c => Hushed(d, x))
          /\ OnTheWay(c, x, {})
      BY <1>2 DEF Sent
    <2>5. Write => outbound # <<>> /\ ~Yes(Head(outbound), x)
      <3>1. outbound # <<>> => Head(outbound) = outbound[1] /\ 1 \in DOMAIN outbound
        BY <1>0
      <3>2. QED
        BY <2>3, <3>1 DEF Write, NoYes, YesAt, Yes
    <2>6. attached' = c => attached = c
      <3>1. ASSUME NEW d \in Connections, Read(d), Head(up[d]).type = "hello", Attach(d), attached' = c
            PROVE  FALSE
        <4>1. d = c /\ up'[c] = Tail(up[c])
          BY <1>0, <3>1, ReadsFacts DEF Attach, Reads
        <4>2. up[c] \in Seq(Quiet) \/ Len(up[c]) = 1
          BY DEF Hellos
        <4>3. up'[c] = <<>>
          BY <1>0, <2>1, <3>1, <4>1, <4>2, QuietQueue
        <4>4. QED
          BY <4>3, EmptyQueue
      <3>2. QED
        BY <3>1, AttachedSteps, RelayAssumption
    <2>7. ASSUME attached = c, Write PROVE c = link
      <3>1. Met /\ c # None
        BY <2>7, RelayAssumption DEF Write, Types, LoopTypes, Met
      <3>2. QED
        BY <2>1, <2>7, <3>1 DEF Succession
    <2>8. ASSUME NEW d \in Connections \ {c}
          PROVE  NoYes(up'[d], x) /\ (attached' = c => Hushed(d, x)')
      <3>1. NoYes(up'[d], x)
        BY <2>2, <2>4, <2>5, UpSilence
      <3>2. ASSUME attached' = c PROVE Silent(up'[d], x, r, b)
        <4>1. Silent(up[d], x, r, a)
          BY <1>1, <2>4, <2>6, <3>2 DEF Hushed
        <4>2. ~(Write /\ d = link)
          BY <2>6, <2>7, <3>2
        <4>3. Silent(up'[d], x, r, a)
          BY <2>2, <4>1, <4>2, UpSilence
        <4>4. QED
          BY <2>2, <4>3, LineLoses
      <3>3. QED
        BY <1>1, <2>2, <3>1, <3>2 DEF Hushed
    <2>9. OnTheWay(c, x, {})'
      <3>1. ~(Welcomed /\ c = link)
        BY <2>1 DEF Welcomed, Hears, Heard, Opening, Greeting
      <3>2. PICK H : H = {}
        OBVIOUS
      <3>3. H \in SUBSET (1..exec[x].told) /\ OnTheWay(c, x, H)
        BY <2>4, <3>2
      <3>4. H = H \cup {n \in Nat : WordAt(up[c], 1, x, n)}
        <4>1. Line(Way(c), x, r, a, {}, t) /\ Way(c) \in Seq(Frames)
          BY <1>1, <2>4, WayTypes DEF OnTheWay
        <4>2. Line(up[c], x, r, a, {}, t)
          <5>1. CASE Way(c) = up[c]
            BY <4>1, <5>1
          <5>2. CASE Way(c) = up[c] \o outbound
            <6>1. t \in Nat
              BY <1>1, <2>1, ExecStays
            <6>2. PICK K \in SUBSET Nat : K = {}
              OBVIOUS
            <6>3. Line(up[c] \o outbound, x, r, a, K, t)
              BY <4>1, <5>2, <6>2
            <6>4. Line(up[c], x, r, a, K, t)
              BY <1>0, <2>2, <6>1, <6>3, LineStart
            <6>5. QED
              BY <6>2, <6>4
          <5>3. QED
            BY <5>1, <5>2 DEF Way
        <4>3. {} = {} \cup {n \in Nat : WordAt(up[c], 1, x, n)}
          BY <1>0, <1>2, <2>1, <2>2, <4>2, HeadOfLine
        <4>4. QED
          BY <3>2, <4>3
      <3>5. OnTheWay(c, x, H)'
        BY <2>1, <3>1, <3>3, <3>4, OnTheWayNext
      <3>6. QED
        BY <3>2, <3>5
    <2>10. QED
      BY <2>8, <2>9
  <1>3. CASE NoYes(up[c], x)
    <2>1. Write /\ c = link /\ Yes(Head(outbound), x)
      BY <1>3, UpSilence
    <2>2. /\ outbound # <<>> /\ outbound' = Tail(outbound) /\ exec' = exec /\ wire' = wire /\ link' = link
          /\ attached' = attached /\ writer' = "running"
          /\ up' = [up EXCEPT ![c] = Append(@, Head(outbound))] /\ wire[c] = "up"
      BY <1>3, <2>1 DEF Write, Send
    <2>3. /\ up'[c] = Append(up[c], Head(outbound))
          /\ \A d \in Connections \ {c} : up'[d] = up[d]
      BY <1>0, <2>2
    <2>4. ~NoYes(outbound, x)
      <3>1. Head(outbound) = outbound[1] /\ 1 \in DOMAIN outbound /\ 1 \in Nat
        BY <1>0, <2>2
      <3>2. QED
        BY <2>1, <3>1 DEF NoYes, YesAt, Yes
    <2>5. /\ \A d \in Connections : NoYes(up[d], x) /\ Silent(up[d], x, r, a)
          /\ Line(outbound, x, r, a, {}, t)
          /\ SaidAll(outbound, x, {}, t)
      BY <1>1, <2>4 DEF Queued, Hushed
    <2>6. a = b /\ t = u /\ a \in BOOLEAN /\ t \in Nat /\ exec'[x].run = r
      <3>1. exec[x].stage # "free"
        BY <1>0, <2>4, YesBegan
      <3>2. QED
        BY <1>1, <2>2, <3>1, AloneStays, ExecStays DEF Alone, Crew
    <2>7. \A d \in Connections \ {c} : NoYes(up'[d], x) /\ Silent(up'[d], x, r, b)
      BY <2>3, <2>5, <2>6
    <2>8. (Joined(c))' /\ Way(c)' = up[c] \o outbound
      <3>1. (Joined(c))'
        BY <2>1, <2>2 DEF Joined
      <3>2. Append(up[c], Head(outbound)) \o Tail(outbound) = up[c] \o outbound
        BY <1>0, <2>2, QueueMoves
      <3>3. QED
        BY <2>2, <2>3, <3>1, <3>2 DEF Way
    <2>9. Line(up[c] \o outbound, x, r, a, {}, t) /\ SaidAll(up[c] \o outbound, x, {}, t)
      <3>1. PICK H \in SUBSET Nat : H = {}
        OBVIOUS
      <3>2. Line(outbound, x, r, a, H, t) /\ SaidAll(outbound, x, H, t)
        BY <2>5, <3>1
      <3>3. Line(up[c] \o outbound, x, r, a, H, t) /\ SaidAll(up[c] \o outbound, x, H, t)
        BY <1>0, <2>5, <2>6, <3>2, LineBehind
      <3>4. QED
        BY <3>1, <3>3
    <2>10. OnTheWay(c, x, {})'
      BY <1>1, <2>6, <2>8, <2>9 DEF OnTheWay
    <2>11. QED
      BY <1>1, <2>6, <2>7, <2>10 DEF Hushed
  <1>4. QED
    BY <1>2, <1>3

\* A report read off a connection puts that word on record.
LEMMA HeardSteps ==
  ASSUME Types, Owned, Unclaimed, [Next]_vars, NEW x \in Executions, exec[x].stage # "free",
         Held(exec[x].run), NEW d \in Connections, Reported(d)
  PROVE  HeardOf(x)' = HeardOf(x) \cup {n \in Nat : WordAt(up[d], 1, x, n)}
  <1>1. PICK r, f : r = exec[x].run /\ f = Head(up[d])
    OBVIOUS
  <1>2. r \in Runs /\ exec'[x].run = r /\ record \in [Runs -> Seq(Tellings)] /\ record[r] \in Seq(Tellings)
    BY <1>1, ExecStays DEF Owned, Unclaimed
  <1>3. /\ f \in Frames /\ f = up[d][1] /\ 1 \in DOMAIN up[d] /\ f.type \in {"event", "finish"} /\ f.run \in Runs
        /\ ReadReport(d, f)
        /\ f.type = "event" => Event(f)
    BY <1>1, HeadMeant DEF Reported
  <1>4. \A n : WordAt(up[d], 1, x, n) <=> f.type = "event" /\ f.body = [who |-> x, nth |-> n]
    BY <1>3 DEF WordAt
  <1>5. ASSUME record' = record, \A n : ~WordAt(up[d], 1, x, n)
        PROVE  HeardOf(x)' = HeardOf(x) \cup {n \in Nat : WordAt(up[d], 1, x, n)}
    BY <1>1, <1>2, <1>5 DEF HeardOf
  <1>6. CASE f.type = "finish"
    BY <1>3, <1>4, <1>5, <1>6 DEF ReadReport, FinishRun
  <1>7. CASE f.type = "event" /\ ~Held(f.run)
    <2>1. \A n : ~WordAt(up[d], 1, x, n)
      <3>1. ASSUME NEW n, WordAt(up[d], 1, x, n) PROVE f.run = r
        <4>1. f.body = [who |-> x, nth |-> n]
          BY <1>4, <3>1
        <4>2. f.body.who = x
          BY <4>1
        <4>3. QED
          BY <1>1, <1>3, <1>7, <4>2 DEF Event, Began
      <3>2. QED
        BY <1>1, <1>7, <3>1
    <2>2. QED
      BY <1>3, <1>5, <1>7, <2>1 DEF ReadReport, ReportEvent
  <1>8. CASE f.type = "event" /\ Held(f.run)
    <2>1. record' = [record EXCEPT ![f.run] = Append(@, f.body)]
      BY <1>3, <1>8 DEF ReadReport, ReportEvent
    <2>2. CASE f.run = r
      <3>1. record'[r] = Append(record[r], f.body) /\ f.body \in Tellings
        BY <1>2, <1>3, <1>8, <2>1, <2>2 DEF Event
      <3>2. PICK s \in Seq(Tellings) : s = record[r]
        BY <1>2
      <3>3. \A e : (\E i \in DOMAIN Append(s, f.body) : Append(s, f.body)[i] = e)
                     <=> (\E i \in DOMAIN s : s[i] = e) \/ e = f.body
        <4>1. /\ DOMAIN s = 1..Len(s) /\ Len(s) \in Nat /\ DOMAIN Append(s, f.body) = 1..(Len(s) + 1)
              /\ \A i \in 1..Len(s) : Append(s, f.body)[i] = s[i]
              /\ Append(s, f.body)[Len(s) + 1] = f.body
          BY <3>1, <3>2
        <4>2. \A i \in 1..(Len(s) + 1) : i \in 1..Len(s) \/ i = Len(s) + 1
          BY <4>1
        <4>3. \A i \in 1..Len(s) : i \in 1..(Len(s) + 1)
          BY <4>1
        <4>4. Len(s) + 1 \in 1..(Len(s) + 1)
          BY <4>1
        <4>5. QED
          BY <4>1, <4>2, <4>3, <4>4
      <3>4. HeardOf(x)' = {n \in Nat : \E i \in DOMAIN record'[r] : record'[r][i] = [who |-> x, nth |-> n]}
        BY <1>2 DEF HeardOf
      <3>5. HeardOf(x) = {n \in Nat : \E i \in DOMAIN s : s[i] = [who |-> x, nth |-> n]}
        BY <1>1, <3>2 DEF HeardOf
      <3>6. \A n : WordAt(up[d], 1, x, n) <=> [who |-> x, nth |-> n] = f.body
        BY <1>4, <1>8
      <3>7. HeardOf(x)' = {n \in Nat : \E i \in DOMAIN Append(s, f.body) :
                                          Append(s, f.body)[i] = [who |-> x, nth |-> n]}
        BY ONLY <3>1, <3>2, <3>4
      <3>8. ASSUME NEW n \in Nat
            PROVE  (\E i \in DOMAIN Append(s, f.body) : Append(s, f.body)[i] = [who |-> x, nth |-> n])
                   <=> (\E i \in DOMAIN s : s[i] = [who |-> x, nth |-> n]) \/ WordAt(up[d], 1, x, n)
        <4>1. (\E i \in DOMAIN Append(s, f.body) : Append(s, f.body)[i] = [who |-> x, nth |-> n])
              <=> (\E i \in DOMAIN s : s[i] = [who |-> x, nth |-> n]) \/ [who |-> x, nth |-> n] = f.body
          BY ONLY <3>3, Zenon
        <4>2. QED
          BY ONLY <4>1, <3>6
      <3>9. QED
        BY ONLY <3>5, <3>7, <3>8, Zenon
    <2>3. CASE f.run # r
      <3>1. record'[r] = record[r]
        BY <1>2, <2>1, <2>3
      <3>2. \A n : ~WordAt(up[d], 1, x, n)
        <4>1. ASSUME NEW n, WordAt(up[d], 1, x, n) PROVE FALSE
          <5>1. f.body = [who |-> x, nth |-> n]
            BY <1>4, <4>1
          <5>2. f.body.who = x
            BY <5>1
          <5>3. QED
            BY <1>1, <1>3, <1>8, <2>3, <5>2 DEF Event, Began
        <4>2. QED
          BY <4>1
      <3>3. QED
        BY <1>1, <1>2, <3>1, <3>2 DEF HeardOf
    <2>4. QED
      BY <2>2, <2>3
  <1>9. QED
    BY <1>3, <1>6, <1>7, <1>8

LEMMA NoReportNoRecord ==
  ASSUME [Next]_vars, \A d \in Connections : ~Reported(d)
  PROVE  UNCHANGED record
  <1>1. ASSUME NEW c \in Connections, Acked(c) PROVE UNCHANGED record
    BY <1>1 DEF Acked, ReadAck, AnswerOffer, runVars
  <1>2. QED
    BY <1>1, RunsSteps DEF LinkGone

LEMMA OneMore ==
  ASSUME NEW k \in Nat, NEW H, H = 1..k, NEW W, W \in SUBSET Nat,
         \A n, m \in W : n = m,
         \A n \in W : \E m \in Nat : n = m + 1 /\ (m = 0 \/ m \in H) /\ \A j \in H : j < m + 1
  PROVE  \E j \in Nat : H \cup W = 1..j
  <1>1. CASE W = {}
    BY <1>1
  <1>2. ASSUME NEW n \in W PROVE H \cup W = 1..(k + 1) /\ k + 1 \in Nat
    <2>1. W = {n}
      BY <1>2
    <2>2. PICK m \in Nat : n = m + 1 /\ (m = 0 \/ m \in H) /\ \A j \in H : j < m + 1
      BY <1>2
    <2>3. m = k
      <3>1. CASE k = 0
        BY <2>2, <3>1
      <3>2. CASE k # 0
        <4>1. k \in H
          BY <3>2
        <4>2. k < m + 1
          BY <2>2, <4>1
        <4>3. m # 0 /\ m \in 1..k
          BY <2>2, <3>2, <4>2
        <4>4. QED
          BY <4>2, <4>3
      <3>3. QED
        BY <3>1, <3>2
    <2>4. (1..k) \cup {k + 1} = 1..(k + 1)
      OBVIOUS
    <2>5. QED
      BY <2>1, <2>2, <2>3, <2>4
  <1>3. QED
    BY <1>1, <1>2

LEMMA ElsewhereLeavesRuns ==
  ASSUME Elsewhere
  PROVE  UNCHANGED <<status, claim, record>>
  <1>1. CASE \/ Dial \/ Welcomed \/ Registered \/ CeremonyFails \/ ConnectionEnds
             \/ Write \/ WriterFails \/ TurnDown \/ TakeCancel \/ TakeError \/ TakeResult
    BY <1>1 DEF Dial, Welcomed, Registered, CeremonyFails, ConnectionEnds, Write, WriterFails, TurnDown,
                TakeCancel, TakeError, TakeResult, relayVars, runVars
  <1>2. CASE \E x \in Executions : TakeRun(x) \/ Report(x) \/ Finish(x) \/ Ask(x) \/ QueryTimeout(x)
    BY <1>2 DEF TakeRun, Report, Finish, Ask, QueryTimeout, relayVars, runVars
  <1>3. CASE \/ \E c \in Connections : ReadQuery(c) \/ WireBreaks(c)
             \/ \E t \in answering : AnswerQuery(t)
    BY <1>3 DEF ReadQuery, WireBreaks, AnswerQuery, runVars
  <1>4. QED
    BY <1>1, <1>2, <1>3 DEF Elsewhere, LoopStep, AgentStep

\* An execution that holds a run it did not hold: its yes was read, off the
\* connection that serves.
LEMMA GivenBy ==
  ASSUME Types, QueryInv, Owned, Opening, Unclaimed, [Next]_vars, NEW x \in Executions, Holds(x)'
  PROVE  /\ exec[x].stage # "free" /\ exec'[x].run = exec[x].run
         /\ ~Holds(x) => /\ Acked(attached) /\ attached \in Connections /\ YesAt(up[attached], 1, x)
                         /\ record'[exec[x].run] = <<>>
                         /\ UNCHANGED <<agentVars, wire, attached>>
  <1>0. /\ up \in [Connections -> Seq(Frames)] /\ exec \in [Executions -> ExecRecords]
        /\ DOMAIN status = Runs /\ x # None
    BY AgentAssumption DEF Types, WireTypes, LoopTypes
  <1>1. PICK r : r = exec'[x].run
    OBVIOUS
  <1>2. exec'[x].stage # "free" /\ r \in Runs /\ claim'[r] = x /\ r \notin stray' /\ Held(r)'
    BY <1>1 DEF Holds, Held
  <1>3. exec[x].stage # "free"
    <2> SUFFICES ASSUME exec[x].stage = "free" PROVE FALSE
      OBVIOUS
    <2>1. TakeRun(x)
      BY <1>2, ExecSteps DEF Report, Finish, Over, Working
    <2>2. claim' = claim
      BY <2>1 DEF TakeRun, runVars
    <2>3. QED
      BY <1>0, <1>2, <2>2 DEF Unclaimed, Began
  <1>4. exec[x].run = r
    BY <1>1, <1>3, ExecStays
  <1>5. ASSUME ~Holds(x)
        PROVE  \E c \in Connections : Acked(c) /\ stray' = stray \cup Astray /\ status[r] = "offered"
    <2>1. r \notin stray
      BY <1>2, RunsSteps
    <2>2. ~(claim[r] = x /\ Held(r))
      BY <1>2, <1>3, <1>4, <1>5, <2>1 DEF Holds
    <2>3. ~UNCHANGED <<status, claim>>
      BY <1>2, <2>2 DEF Held
    <2>4. ASSUME UNCHANGED claim PROVE status[r] \notin {"held", "cancelling", "none", "queued", "offered"}
      BY <1>0, <1>2, <2>2, <2>4 DEF Held, Unclaimed
    <2>5. ASSUME NEW q \in Runs, StartRun(q) \/ Offer(q) \/ TakeBack(q) \/ CancelRun(q) PROVE FALSE
      <3>1. claim' = claim
        BY <2>5 DEF StartRun, Offer, TakeBack, CancelRun
      <3>2. status'[r] = status[r] \/ status[r] \in {"none", "queued", "offered", "held"}
        BY <1>0, <1>2, <2>5 DEF StartRun, Offer, TakeBack, CancelRun
      <3>3. QED
        BY <1>2, <2>4, <3>1, <3>2 DEF Held
    <2>6. ~LinkGone
      BY <1>0, <1>2, <2>4 DEF LinkGone, Held
    <2>7. ASSUME NEW c \in Connections, Reported(c), UNCHANGED claim PROVE FALSE
      <3>1. status'[r] = status[r] \/ status'[r] \in {"ended", "cancelled"}
        <4>1. ASSUME NEW q, status' = [status EXCEPT ![q] = AfterFinish(q)]
              PROVE  status'[r] = status[r] \/ status'[r] \in {"ended", "cancelled"}
          BY <1>0, <1>2, <4>1 DEF AfterFinish
        <4>2. QED
          BY <2>7, <4>1 DEF Reported, ReadReport, ReportEvent, FinishRun
      <3>2. QED
        BY <1>2, <2>4, <2>7, <3>1 DEF Held
    <2>8. PICK c \in Connections : Acked(c) /\ stray' = stray \cup Astray
      BY <2>3, <2>5, <2>6, <2>7, RunsSteps
    <2>9. status[r] = "offered"
      <3>1. PICK f : f = Head(up[c])
        OBVIOUS
      <3>2. CASE status[f.run] # "offered"
        BY <2>3, <2>8, <3>1, <3>2 DEF Acked, ReadAck, AnswerOffer, runVars
      <3>3. CASE status[f.run] = "offered" /\ f.run # r
        <4>1. status'[r] = status[r] /\ claim'[r] = claim[r]
          BY <1>0, <1>2, <2>8, <3>1, <3>3 DEF Acked, ReadAck, AnswerOffer, Unclaimed
        <4>2. QED
          BY <1>2, <2>2, <4>1 DEF Held
      <3>4. QED
        BY <3>2, <3>3
    <2>10. QED
      BY <2>8, <2>9
  <1>6. ASSUME ~Holds(x)
        PROVE  /\ Acked(attached) /\ attached \in Connections /\ YesAt(up[attached], 1, x)
               /\ record'[r] = <<>>
               /\ UNCHANGED <<agentVars, wire, attached>>
    <2>1. PICK c \in Connections : Acked(c) /\ stray' = stray \cup Astray /\ status[r] = "offered"
      BY <1>5, <1>6
    <2>2. claim[r] = None /\ record[r] = <<>> /\ r \notin Astray
      BY <1>2, <2>1 DEF Unclaimed
    <2>3. claim'[r] # claim[r] /\ up'[attached] # up[attached]
      BY <1>0, <1>2, <2>2 DEF Astray
    <2>4. serving /\ attached \in Connections
      <3>1. serving
        BY <1>2, <2>1 DEF Opening, WorkIsServed
      <3>2. QED
        BY <3>1 DEF Types, WireTypes
    <2>5. attached = c
      <3>1. up' = [up EXCEPT ![c] = Tail(@)]
        BY <2>1, ReadsFacts DEF Acked, Reads
      <3>2. QED
        BY <1>0, <2>3, <2>4, <3>1
    <2>6. PICK f : f = Head(up[c])
      OBVIOUS
    <2>7. /\ f = up[c][1] /\ 1 \in DOMAIN up[c] /\ f.type = "ack" /\ f.run \in Runs
          /\ AnswerOffer(f.run, f.body.verdict, f.body.who)
      BY <2>1, <2>6, HeadMeant DEF Acked, ReadAck
    <2>8. f.body.verdict = "accepted" /\ f.body.who = x
      <3>1. /\ claim' = [claim EXCEPT ![f.run] = IF f.body.verdict = "accepted" THEN f.body.who ELSE @]
            /\ claim \in [Runs -> Executions \cup {None}]
        BY <2>3, <2>7 DEF AnswerOffer, runVars, Unclaimed
      <3>2. f.run = r
        BY <1>2, <2>3, <3>1
      <3>3. QED
        BY <1>2, <2>3, <3>1, <3>2
    <2>9. YesAt(up[c], 1, x)
      BY <2>7, <2>8 DEF YesAt
    <2>10. record' = record
      BY <2>7 DEF AnswerOffer, runVars
    <2>11. UNCHANGED agentVars
      BY <2>3, ElsewhereLeavesRuns DEF Next, vars, linkVars, relayVars
    <2>12. UNCHANGED <<wire, attached>>
      BY <2>1 DEF Acked, Read, ReadAck
    <2>13. QED
      BY <2>1, <2>2, <2>4, <2>5, <2>9, <2>10, <2>11, <2>12
  <1>7. QED
    BY <1>1, <1>3, <1>4, <1>6

(* The run's holder: what it says comes on record off the one connection. *)
LEMMA HeardHere ==
  ASSUME Types, Owned, Unclaimed, [Next]_vars, NEW x \in Executions, exec[x].stage # "free",
         Held(exec[x].run), NEW c \in Connections, \A d \in Connections \ {c} : Hushed(d, x),
         NEW H, H = HeardOf(x), NEW G, G = H \cup {n \in Nat : WordAt(up[c], 1, x, n)}
  PROVE  /\ Reads(c) => HeardOf(x)' = G
         /\ ~Reads(c) => HeardOf(x)' = H
  <1>0. up \in [Connections -> Seq(Frames)] /\ exec'[x].run = exec[x].run
    BY ExecStays DEF Types, WireTypes
  <1>1. ASSUME NEW d \in Connections, Reported(d)
        PROVE  /\ Reads(c) => HeardOf(x)' = G
               /\ ~Reads(c) => HeardOf(x)' = H
    <2>1. HeardOf(x)' = H \cup {n \in Nat : WordAt(up[d], 1, x, n)} /\ Reads(d)
      BY <1>1, HeardSteps DEF Reported, Reads
    <2>2. CASE d = c
      BY <2>1, <2>2
    <2>3. CASE d # c
      <3>1. up'[c] = up[c]
        BY <1>0, <2>1, <2>3, ReadsFacts
      <3>2. ~Reads(c)
        BY <3>1, ReadsFacts
      <3>3. \A n \in Nat : ~WordAt(up[d], 1, x, n)
        BY <2>3 DEF Hushed, Silent
      <3>4. QED
        BY <2>1, <3>2, <3>3
    <2>4. QED
      BY <2>2, <2>3
  <1>2. CASE \A d \in Connections : ~Reported(d)
    <2>1. HeardOf(x)' = H
      BY <1>0, <1>2, NoReportNoRecord DEF HeardOf
    <2>2. ASSUME Reads(c) PROVE \A n : ~WordAt(up[c], 1, x, n)
      <3>1. up[c] # <<>> /\ Head(up[c]) = up[c][1]
        BY <1>0, <2>2, ReadsFacts
      <3>2. Head(up[c]).type # "event"
        BY <1>2, <2>2 DEF Reads, ReadQuery, Read, Handle, Reported
      <3>3. QED
        BY <3>1, <3>2 DEF WordAt
    <2>3. QED
      BY <2>1, <2>2
  <1>3. QED
    BY <1>1, <1>2

\* With one more word of a line, what was heard is a beginning still.
LEMMA HeardMore ==
  ASSUME NEW q \in Seq(Meant), NEW x \in Executions, NEW r, NEW a, NEW t, NEW k \in Nat, NEW H, H = 1..k,
         Line(q, x, r, a, H, t)
  PROVE  \E j \in Nat : H \cup {n \in Nat : WordAt(q, 1, x, n)} = 1..j
  <1>1. PICK W : W = {n \in Nat : WordAt(q, 1, x, n)}
    OBVIOUS
  <1>2. W \in SUBSET Nat /\ H \in SUBSET Nat
    BY <1>1
  <1>3. \A n, m \in W : n = m
    BY <1>1, Within
  <1>4. ASSUME NEW n \in W
        PROVE  \E m \in Nat : n = m + 1 /\ (m = 0 \/ m \in H) /\ \A j \in H : j < m + 1
    <2>1. n \in Nat /\ n # 0 /\ WordAt(q, 1, x, n)
      <3>1. WordAt(q, 1, x, n) /\ n \in Nat
        BY <1>1
      <3>2. n \in 1..exec[x].told
        BY <3>1, WordBound
      <3>3. n # 0
        BY <3>1, <3>2
      <3>4. QED
        BY <3>1, <3>3
    <2>2. PICK m \in Nat : n = m + 1
      <3>1. n - 1 \in Nat /\ n = (n - 1) + 1
        BY <2>1
      <3>2. QED
        BY <3>1
    <2>3. WordAt(q, 1, x, m + 1)
      BY <2>1, <2>2
    <2>4. (m = 0 \/ m \in H) /\ \A j \in H : j < m + 1
      BY <1>2, <2>3, LineIsDue
    <2>5. QED
      BY <2>2, <2>4
  <1>5. \E j \in Nat : H \cup W = 1..j
    BY <1>2, <1>3, <1>4, OneMore
  <1>6. QED
    BY <1>1, <1>5

\* On a connection, of what is on its way.
LEMMA OnTheWayHere ==
  ASSUME Types, Owned, NEW c \in Connections, NEW x \in Executions, exec[x].stage # "free",
         NEW H \in SUBSET Nat, OnTheWay(c, x, H)
  PROVE  Line(up[c], x, exec[x].run, Alone(x), H, exec[x].told)
  <1>1. PICK r, a, t : r = exec[x].run /\ a = Alone(x) /\ t = exec[x].told
    OBVIOUS
  <1>2. a \in BOOLEAN /\ t \in Nat /\ up[c] \in Seq(Frames) /\ outbound \in Seq(Frames)
    <2>1. exec[x] \in ExecRecords /\ Story \in Nat
      BY AgentAssumption DEF Types, LoopTypes
    <2>2. exec[x].told \in 0..Story
      BY <2>1 DEF ExecRecords
    <2>3. t \in Nat
      BY <1>1, <2>1, <2>2
    <2>4. QED
      BY <1>1, <2>3, WayTypes DEF Alone
  <1>3. Line(Way(c), x, r, a, H, t)
    BY <1>1 DEF OnTheWay
  <1>4. CASE Way(c) = up[c]
    BY <1>1, <1>3, <1>4
  <1>5. CASE Way(c) = up[c] \o outbound
    <2>1. Line(up[c] \o outbound, x, r, a, H, t)
      BY <1>3, <1>5
    <2>2. Line(up[c], x, r, a, H, t)
      BY <1>2, <2>1, LineStart
    <2>3. QED
      BY <1>1, <2>2
  <1>6. QED
    BY <1>4, <1>5 DEF Way

\* A run that stays held stays with the link it was given to.
LEMMA HeldStays ==
  ASSUME Types, Opening, Opening', [Next]_vars, NEW r \in Runs, Held(r), Held(r)'
  PROVE  /\ serving /\ attached \in Connections /\ attached' = attached
         /\ wire[attached] # "none" /\ ~(Welcomed /\ attached = link)
  <1>1. serving /\ serving'
    BY DEF Opening, WorkIsServed, Held
  <1>2. attached \in Connections
    BY <1>1 DEF Types, WireTypes
  <1>3. attached' = attached
    BY <1>1, AttachedSteps DEF Attach
  <1>4. wire[attached] # "none"
    BY <1>2 DEF Opening, Untouched
  <1>5. ~(Welcomed /\ attached = link)
    BY <1>1 DEF Opening, Greeting, Idling, Welcomed
  <1>6. QED
    BY <1>1, <1>2, <1>3, <1>4, <1>5

LEMMA GrantedStill ==
  ASSUME Types, QueryInv, Owned, Opening, Opening', Succession, Unclaimed, Granted, [Next]_vars,
         NEW x \in Executions, Holds(x), Holds(x)'
  PROVE  /\ (NoYes(outbound, x))' /\ \A c \in Connections : (NoYes(up[c], x))'
         /\ \A d \in Connections \ {attached'} : Hushed(d, x)'
         /\ OnTheWay(attached, x, HeardOf(x))'
         /\ \E k \in Nat : HeardOf(x)' = 1..k
  <1>1. PICK r, c, a, b : r = exec[x].run /\ c = attached /\ a = Alone(x) /\ b = Alone(x)'
    OBVIOUS
  <1>2. exec[x].stage # "free" /\ r \in Runs /\ Held(r)
    BY <1>1 DEF Holds
  <1>3. exec'[x].run = r /\ Held(r)' /\ a \in BOOLEAN /\ b \in BOOLEAN /\ (b => a)
    <2>1. exec'[x].run = r
      BY <1>1, <1>2, ExecStays
    <2>2. PICK q : q = exec'[x].run
      OBVIOUS
    <2>3. Held(q)'
      BY <2>2 DEF Holds, Held
    <2>4. QED
      BY <1>1, <1>2, <2>1, <2>2, <2>3, AloneStays
  <1>4. /\ serving /\ c \in Connections /\ attached' = c
        /\ wire[c] # "none" /\ ~(Welcomed /\ c = link)
    BY <1>1, <1>2, <1>3, HeldStays
  <1>5. PICK H : H = HeardOf(x)
    OBVIOUS
  <1>6. /\ NoYes(outbound, x) /\ \A d \in Connections : NoYes(up[d], x)
        /\ \A d \in Connections \ {c} : Hushed(d, x)
        /\ OnTheWay(c, x, H)
        /\ \E k \in Nat : H = 1..k
    BY <1>1, <1>5 DEF Granted
  <1>7. Write => c = link /\ ~Yes(Head(outbound), x)
    <2>1. Write => c = link
      <3>1. Write => Met
        BY DEF Write, Types, LoopTypes, Met
      <3>2. c # None
        BY <1>4, RelayAssumption
      <3>3. QED
        BY <1>1, <1>4, <3>1, <3>2 DEF Succession
    <2>2. Write => outbound # <<>> /\ outbound \in Seq(Frames)
      BY DEF Write, Types, LoopTypes
    <2>3. Write => Head(outbound) = outbound[1] /\ 1 \in DOMAIN outbound /\ 1 \in Nat
      BY <2>2
    <2>4. Write => ~Yes(Head(outbound), x)
      BY <1>6, <2>3 DEF NoYes, YesAt, Yes
    <2>5. QED
      BY <2>1, <2>4
  <1>8. NoYes(outbound', x)
    BY <1>2, <1>6, YesStarts DEF TakeRun
  <1>9. \A d \in Connections : NoYes(up'[d], x)
    BY <1>6, <1>7, <1>3, UpSilence
  <1>10. ASSUME NEW d \in Connections \ {c} PROVE Silent(up'[d], x, r, b)
    <2>1. Silent(up[d], x, r, a)
      BY <1>1, <1>6 DEF Hushed
    <2>2. ~(Write /\ d = link)
      BY <1>7
    <2>3. Silent(up'[d], x, r, a)
      BY <1>3, <2>1, <2>2, UpSilence
    <2>4. QED
      BY <1>3, <2>3, LineLoses
  <1>11. H \in SUBSET (1..exec[x].told) /\ H \in SUBSET Nat
    <2>1. H \in SUBSET (1..exec[x].told)
      BY <1>2, <1>5, HeardBound
    <2>2. QED
      BY <2>1
  <1>12. PICK G : G = H \cup {n \in Nat : WordAt(up[c], 1, x, n)}
    OBVIOUS
  <1>13. /\ Reads(c) => HeardOf(x)' = G
         /\ ~Reads(c) => HeardOf(x)' = H
    BY <1>1, <1>2, <1>4, <1>5, <1>6, <1>12, HeardHere
  <1>14. /\ Reads(c) => OnTheWay(c, x, G)'
         /\ ~Reads(c) => OnTheWay(c, x, H)'
    BY <1>2, <1>4, <1>6, <1>11, <1>12, OnTheWayNext
  <1>15. PICK K : K = HeardOf(x)'
    OBVIOUS
  <1>16. OnTheWay(c, x, K)'
    BY <1>13, <1>14, <1>15
  <1>17. \E k \in Nat : K = 1..k
    <2>1. PICK k \in Nat : H = 1..k
      BY <1>6
    <2>2. Line(up[c], x, r, a, H, exec[x].told) /\ up[c] \in Seq(Meant)
      BY <1>1, <1>2, <1>4, <1>6, <1>11, OnTheWayHere, WayTypes
    <2>3. \E j \in Nat : G = 1..j
      BY <1>12, <2>1, <2>2, HeardMore
    <2>4. QED
      BY <1>13, <1>15, <2>1, <2>3
  <1>18. QED
    BY <1>1, <1>3, <1>4, <1>8, <1>9, <1>10, <1>15, <1>16, <1>17 DEF Hushed

LEMMA GrantedFirst ==
  ASSUME Types, QueryInv, Owned, Opening, Unclaimed, Queued, Sent, [Next]_vars,
         NEW x \in Executions, ~Holds(x), Holds(x)'
  PROVE  /\ (NoYes(outbound, x))' /\ \A c \in Connections : (NoYes(up[c], x))'
         /\ \A d \in Connections \ {attached'} : Hushed(d, x)'
         /\ OnTheWay(attached, x, HeardOf(x))'
         /\ \E k \in Nat : HeardOf(x)' = 1..k
  <1>1. PICK r, c, a, t : r = exec[x].run /\ c = attached /\ a = Alone(x) /\ t = exec[x].told
    OBVIOUS
  <1>2. /\ exec[x].stage # "free" /\ exec'[x].run = r
        /\ Acked(c) /\ c \in Connections /\ YesAt(up[c], 1, x)
        /\ record'[r] = <<>> /\ UNCHANGED <<agentVars, wire, attached>>
    BY <1>1, GivenBy
  <1>3. ~NoYes(up[c], x)
    BY <1>2 DEF NoYes
  <1>4. /\ \A d \in Connections \ {c} : NoYes(up[d], x) /\ Hushed(d, x)
        /\ OnTheWay(c, x, {})
    BY <1>1, <1>2, <1>3 DEF Sent
  <1>5. NoYes(outbound, x)
    BY <1>2, <1>3 DEF Queued
  <1>6. /\ Reads(c) /\ up[c] # <<>> /\ up' = [up EXCEPT ![c] = Tail(@)]
        /\ up \in [Connections -> Seq(Frames)]
    BY <1>2, ReadsFacts DEF Acked, Reads, Types, WireTypes
  <1>7. up'[c] = Tail(up[c]) /\ \A d \in Connections \ {c} : up'[d] = up[d]
    BY <1>2, <1>6
  <1>8. UNCHANGED <<exec, outbound, link>> /\ a \in BOOLEAN /\ Alone(x)' = a
    BY <1>1, <1>2 DEF agentVars, Alone, Crew
  <1>9. Line(up[c], x, r, a, {}, t) /\ up[c] \in Seq(Frames)
    <2>1. PICK H \in SUBSET Nat : H = {}
      OBVIOUS
    <2>2. Line(up[c], x, r, a, H, t)
      BY <1>1, <1>2, <1>4, <2>1, OnTheWayHere
    <2>3. QED
      BY <1>2, <2>1, <2>2, WayTypes
  <1>10. NoYes(Tail(up[c]), x)
    BY <1>2, <1>6, <1>8, <1>9, YesIsFirst
  <1>11. {} = {} \cup {n \in Nat : WordAt(up[c], 1, x, n)}
    BY <1>3, <1>6, <1>8, <1>9, HeadOfLine
  <1>12. OnTheWay(c, x, {})'
    <2>1. wire[c] # "none" /\ ~(Welcomed /\ c = link)
      <3>1. wire[c] # "none"
        BY <1>2, <1>6 DEF Opening, Untouched
      <3>2. ~Welcomed
        BY <1>8, <1>2 DEF Welcomed, agentVars
      <3>3. QED
        BY <3>1, <3>2
    <2>2. PICK H : H = {}
      OBVIOUS
    <2>3. H \in SUBSET (1..exec[x].told) /\ OnTheWay(c, x, H)
          /\ H = H \cup {n \in Nat : WordAt(up[c], 1, x, n)}
      BY <1>4, <1>11, <2>2
    <2>4. OnTheWay(c, x, H)'
      BY <1>2, <1>6, <2>1, <2>3, OnTheWayNext
    <2>5. QED
      BY <2>2, <2>4
  <1>13. HeardOf(x)' = {}
    <2>1. HeardOf(x)' = {n \in Nat : \E i \in DOMAIN record'[r] : record'[r][i] = [who |-> x, nth |-> n]}
      BY <1>2 DEF HeardOf
    <2>2. DOMAIN record'[r] = {}
      BY <1>2
    <2>3. QED
      BY <2>1, <2>2
  <1>14. \E k \in Nat : HeardOf(x)' = 1..k
    <2>1. 1..0 = {} /\ 0 \in Nat
      OBVIOUS
    <2>2. QED
      BY <1>13, <2>1
  <1>15. NoYes(outbound', x) /\ \A d \in Connections : NoYes(up'[d], x)
    BY <1>4, <1>5, <1>7, <1>8, <1>10
  <1>16. \A d \in Connections \ {c} : Hushed(d, x)'
    BY <1>1, <1>2, <1>4, <1>7, <1>8 DEF Hushed
  <1>17. PICK K : K = HeardOf(x)'
    OBVIOUS
  <1>18. OnTheWay(c, x, K)' /\ attached' = c
    BY <1>1, <1>2, <1>12, <1>13, <1>17
  <1>19. QED
    BY <1>14, <1>15, <1>16, <1>17, <1>18

LEMMA GrantedInit == Init => Granted
  BY DEF Init, Idle, Granted, Holds

LEMMA GrantedNext ==
  ASSUME Types, QueryInv, Owned, Opening, Opening', Succession, Unclaimed, Queued, Sent, Granted, [Next]_vars
  PROVE  Granted'
  <1> SUFFICES ASSUME NEW x \in Executions, Holds(x)'
               PROVE  /\ (NoYes(outbound, x))' /\ \A c \in Connections : (NoYes(up[c], x))'
                      /\ \A d \in Connections \ {attached'} : Hushed(d, x)'
                      /\ OnTheWay(attached, x, HeardOf(x))'
                      /\ \E k \in Nat : HeardOf(x)' = 1..k
    BY DEF Granted
  <1>1. CASE Holds(x)
    BY <1>1, GrantedStill
  <1>2. CASE ~Holds(x)
    BY <1>2, GrantedFirst
  <1>3. QED
    BY <1>1, <1>2

-----------------------------------------------------------------------------
(* A run as the contract sees it. *)
FateOf(s) == IF s \in {"queued", "offered"} THEN "waiting" ELSE s

Fates == [r \in Runs |-> Fate(r)]
Crews == [r \in Runs |-> Crew(r)]
Holder(r) == IF r \in stray THEN None ELSE claim[r]
Holders == [r \in Runs |-> Holder(r)]

LEMMA Turned ==
  ASSUME Types, NEW r \in Runs, NEW s, status' = [status EXCEPT ![r] = s]
  PROVE  /\ Contract!Turns(r, Fate(r), FateOf(s))
         /\ FateOf(s) = Fate(r) => Fates' = Fates
  <1>1. \A q \in Runs : Fate(q)' = IF q = r THEN FateOf(s) ELSE Fate(q)
    BY DEF Types, WireTypes, Fate, FateOf
  <1>2. Fates' = [Fates EXCEPT ![r] = FateOf(s)]
    BY <1>1 DEF Fates
  <1>3. Contract!Turns(r, Fate(r), FateOf(s))
    BY <1>2 DEF Contract!Turns, Fates
  <1>4. QED
    BY <1>1, <1>3 DEF Fates

LEMMA SameFates == UNCHANGED status => Fates' = Fates
  BY DEF Fates, Fate

LEMMA SameHolders == UNCHANGED <<claim, stray>> => Holders' = Holders
  BY DEF Holders, Holder

LEMMA CrewStays ==
  ASSUME Types, [Next]_vars, \A x \in Executions : ~TakeRun(x)
  PROVE  Crews' = Crews
  <1>1. ASSUME NEW x \in Executions
        PROVE  \A r \in Runs : exec'[x].stage # "free" /\ exec'[x].run = r
                                 <=> exec[x].stage # "free" /\ exec[x].run = r
    <2>1. CASE exec[x].stage = "free"
      BY <2>1, ExecSteps DEF Report, Finish, Over, Working
    <2>2. CASE exec[x].stage # "free"
      BY <2>2, ExecStays
    <2>3. QED
      BY <2>1, <2>2
  <1>2. \A r \in Runs : Crew(r)' = Crew(r)
    BY <1>1 DEF Crew
  <1>3. QED
    BY <1>2 DEF Crews

LEMMA ContractStutters ==
  ASSUME Fates' = Fates, Crews' = Crews, Holders' = Holders, UNCHANGED record
  PROVE  UNCHANGED Contract!vars
  BY DEF Contract!vars, Fates, Crews, Holders, Holder

LEMMA ContractRuns ==
  ASSUME Types, Crews' = Crews, UNCHANGED <<claim, record, stray>>,
         NEW r \in Runs, StartRun(r) \/ Offer(r) \/ TakeBack(r) \/ CancelRun(r)
  PROVE  [Contract!Next]_Contract!vars
  <1>1. UNCHANGED <<record, Crews, Holders>>
    BY SameHolders
  <1>2. CASE StartRun(r)
    <2>1. Contract!Turns(r, "none", "waiting")
      BY <1>2, Turned DEF StartRun, Fate, FateOf
    <2>2. Contract!Begin(r)
      BY <1>1, <2>1 DEF Contract!Begin, Crews, Holders, Holder
    <2>3. QED
      BY <2>2 DEF Contract!Next
  <1>3. CASE Offer(r) \/ TakeBack(r)
    <2>1. Fates' = Fates
      BY <1>3, Turned DEF Offer, TakeBack, Fate, FateOf
    <2>2. QED
      BY <1>1, <2>1, ContractStutters
  <1>4. CASE CancelRun(r)
    <2>1. Contract!Turns(r, "held", "cancelling")
      BY <1>4, Turned DEF CancelRun, Fate, FateOf
    <2>2. Contract!Cancel(r)
      BY <1>1, <2>1 DEF Contract!Cancel, Crews, Holders, Holder
    <2>3. QED
      BY <2>2 DEF Contract!Next
  <1>5. QED
    BY <1>2, <1>3, <1>4

\* The link is gone, and what it held fails with it.
LEMMA ContractLinkGone ==
  ASSUME LinkGone, UNCHANGED stray, Crews' = Crews
  PROVE  Contract!Next
  <1>0. PICK S : S = {r \in Runs : Held(r)}
    OBVIOUS
  <1>1. \A r \in Runs : Fate(r)' = IF r \in S THEN "failed" ELSE Fate(r)
    BY <1>0 DEF LinkGone, Fate, Held
  <1>2. S \subseteq Runs /\ \A r \in S : Fate(r) \in {"held", "cancelling"}
    BY <1>0 DEF Fate, Held
  <1>3. UNCHANGED <<claim, record, stray>>
    BY DEF LinkGone
  <1>4. Contract!Fail(S)
    BY <1>1, <1>2, <1>3 DEF Contract!Fail, Contract!Underway, Crews
  <1>5. QED
    BY <1>2, <1>4 DEF Contract!Next

\* The link takes a run up, and core hears of it later or never.
LEMMA ContractTake ==
  ASSUME Types, QueryInv, Owned, [Next]_vars, NEW x \in Executions, TakeRun(x)
  PROVE  Contract!Next
  <1>1. PICK r : r = Head(down[link]).run
    OBVIOUS
  <1>2. r \in Runs
    BY <1>1, TakesOrder DEF TakeRun
  <1>3. /\ exec' = [exec EXCEPT ![x] = [run |-> r, stage |-> "working", told |-> 0]]
        /\ exec[x].stage = "free" /\ exec \in [Executions -> ExecRecords]
    BY <1>1 DEF TakeRun, Types, LoopTypes
  <1>4. exec'[x].run = r /\ exec'[x].stage # "free"
    BY <1>3
  <1>5. UNCHANGED <<status, claim, record>>
    BY DEF TakeRun, runVars
  <1>6. UNCHANGED stray
    <2>1. exec' # exec
      BY <1>3, <1>4
    <2>2. QED
      BY <2>1 DEF Next, agentVars, vars
  <1>7. \A q \in Runs : Crew(q)' = IF q = r THEN Crew(q) \cup {x} ELSE Crew(q)
    <2>1. ASSUME NEW y \in Executions, y # x PROVE exec'[y] = exec[y]
      BY <1>3, <2>1
    <2>2. QED
      BY <1>3, <1>4, <2>1 DEF Crew
  <1>8. \A q \in Runs : x \notin Crew(q)
    BY <1>3 DEF Crew
  <1>9. Fates' = Fates /\ Holders' = Holders
    BY <1>5, <1>6, SameFates, SameHolders
  <1>10. Contract!Take(r, x)
    BY <1>2, <1>5, <1>7, <1>8, <1>9 DEF Contract!Take, Fates, Holders, Holder
  <1>11. QED
    BY <1>2, <1>10 DEF Contract!Next

\* A verdict: a yes gives the run, or a stray one does.
LEMMA ContractAck ==
  ASSUME Types, Owned, Unclaimed, [Next]_vars, Crews' = Crews, NEW c \in Connections, Acked(c),
         stray' = stray \cup Astray
  PROVE  [Contract!Next]_Contract!vars
  <1>1. PICK f, r, v, x : f = Head(up[c]) /\ r = f.run /\ v = f.body.verdict /\ x = f.body.who
    OBVIOUS
  <1>2. r \in Runs /\ v \in {"accepted", "declined", "refused"} /\ (v = "accepted" => Began(x, r))
    <2>1. Verdict(f) /\ f.run \in Runs
      BY <1>1, HeadMeant DEF Acked
    <2>2. f.body \in Verdicts
      BY <2>1 DEF Verdict
    <2>3. QED
      BY <1>1, <2>1, <2>2 DEF Verdict, Verdicts
  <1>3. AnswerOffer(r, v, x)
    BY <1>1 DEF Acked, ReadAck
  <1>4. ASSUME UNCHANGED <<claim, record>>, Fates' = Fates PROVE UNCHANGED Contract!vars
    <2>1. Astray = {}
      BY <1>4 DEF Astray
    <2>2. QED
      BY <1>4, <2>1, SameHolders, ContractStutters
  <1>5. CASE status[r] # "offered"
    BY <1>3, <1>4, <1>5, SameFates DEF AnswerOffer, runVars
  <1>6. CASE status[r] = "offered"
    <2>1. claim[r] = None /\ r \notin stray /\ claim \in [Runs -> Executions \cup {None}] /\ Fate(r) = "waiting"
      BY <1>2, <1>6 DEF Unclaimed, Fate
    <2>2. /\ status' = [status EXCEPT ![r] = AfterVerdict[v]] /\ UNCHANGED record
          /\ claim' = [claim EXCEPT ![r] = IF v = "accepted" THEN x ELSE @]
      BY <1>3, <1>6 DEF AnswerOffer
    <2>3. CASE v = "declined"
      <3>1. status' = [status EXCEPT ![r] = "queued"] /\ claim' = claim
        BY <2>1, <2>2, <2>3 DEF AfterVerdict
      <3>2. QED
        BY <1>2, <1>4, <2>1, <2>2, <3>1, Turned DEF FateOf
    <2>4. CASE v = "refused"
      <3>1. status' = [status EXCEPT ![r] = "failed"] /\ claim' = claim
        BY <2>1, <2>2, <2>4 DEF AfterVerdict
      <3>2. Contract!Turns(r, "waiting", "failed")
        BY <1>2, <2>1, <3>1, Turned DEF FateOf
      <3>3. Holders' = Holders
        BY <3>1, SameHolders DEF Astray
      <3>4. Contract!Refuse(r)
        BY <2>2, <3>2, <3>3 DEF Contract!Refuse, Crews, Holders, Holder
      <3>5. QED
        BY <1>2, <3>4 DEF Contract!Next
    <2>5. CASE v = "accepted"
      <3>1. status' = [status EXCEPT ![r] = "held"] /\ claim' = [claim EXCEPT ![r] = x]
        BY <2>2, <2>5 DEF AfterVerdict
      <3>2. Contract!Turns(r, "waiting", "held")
        BY <1>2, <2>1, <3>1, Turned DEF FateOf
      <3>3. \A q \in Runs : q # r => claim'[q] = claim[q]
        BY <2>1, <3>1
      <3>4. Astray \subseteq {r} /\ Holder(r) = None
        BY <2>1, <3>3 DEF Astray, Holder
      <3>5. CASE r \in Astray
        <4>1. \A q \in Runs : Holder(q)' = Holder(q)
          BY <3>3, <3>4, <3>5 DEF Holder
        <4>2. Holders' = Holders
          BY <4>1 DEF Holders
        <4>3. Contract!Stray(r)
          BY <2>2, <3>2, <4>2 DEF Contract!Stray, Crews, Holders, Holder
        <4>4. QED
          BY <1>2, <4>3 DEF Contract!Next
      <3>6. CASE r \notin Astray
        <4>1. \A q \in Runs : Holder(q)' = IF q = r THEN x ELSE Holder(q)
          BY <2>1, <3>1, <3>3, <3>4, <3>6 DEF Holder
        <4>2. Holders' = [Holders EXCEPT ![r] = x]
          BY <4>1 DEF Holders
        <4>3. x \in Executions /\ x \in Crew(r)
          BY <1>2, <2>5 DEF Began, Crew
        <4>4. Contract!Give(r, x)
          BY <1>2, <2>2, <3>2, <3>4, <4>2, <4>3 DEF Contract!Give, Crews, Holders, Holder
        <4>5. QED
          BY <1>2, <4>3, <4>4 DEF Contract!Next
      <3>7. QED
        BY <3>5, <3>6
    <2>6. QED
      BY <1>2, <2>3, <2>4, <2>5
  <1>7. QED
    BY <1>5, <1>6

\* The one whose yes gave it the run, as the contract has it.
LEMMA HolderHolds ==
  ASSUME NEW x \in Executions, NEW r \in Runs, Began(x, r), Holder(r) = x, Held(r)
  PROVE  Holds(x)
  <1>1. x # None
    BY AgentAssumption
  <1>2. QED
    BY <1>1 DEF Began, Holder, Holds

\* What is read of the holder is read off the connection that serves.
LEMMA HolderIsRead ==
  ASSUME Types, Owned, Unclaimed, Granted, NEW x \in Executions, Holds(x), NEW c \in Connections,
         \/ \E n \in Nat : WordAt(up[c], 1, x, n)
         \/ Alone(x) /\ CloseAt(up[c], 1, exec[x].run)
  PROVE  /\ Line(up[c], x, exec[x].run, Alone(x), HeardOf(x), exec[x].told)
         /\ HeardOf(x) \in SUBSET Nat
  <1>1. exec[x].stage # "free"
    BY DEF Holds
  <1>2. ~Hushed(c, x)
    <2>1. 1 \in Nat
      OBVIOUS
    <2>2. QED
      BY <2>1 DEF Hushed, Silent
  <1>3. c = attached /\ OnTheWay(c, x, HeardOf(x))
    BY <1>2 DEF Granted
  <1>4. HeardOf(x) \in SUBSET Nat
    BY DEF HeardOf
  <1>5. PICK H \in SUBSET Nat : H = HeardOf(x)
    BY <1>4
  <1>6. Line(up[c], x, exec[x].run, Alone(x), H, exec[x].told)
    BY <1>1, <1>3, <1>5, OnTheWayHere
  <1>7. QED
    BY <1>4, <1>5, <1>6

LEMMA HeardIsOnRecord ==
  ASSUME NEW x \in Executions, NEW k \in Nat
  PROVE  Contract!Heard(exec[x].run, x, k) <=> k \in HeardOf(x)
  BY DEF Contract!Heard, HeardOf

\* An event: of the run's holder, the one that is due.
LEMMA ContractEvent ==
  ASSUME Types, Owned, Unclaimed, Granted, Crews' = Crews, UNCHANGED <<claim, stray>>,
         NEW c \in Connections, Reported(c), Head(up[c]).type = "event"
  PROVE  [Contract!Next]_Contract!vars
  <1>1. PICK f, r, x, n : f = Head(up[c]) /\ r = f.run /\ x = f.body.who /\ n = f.body.nth
    OBVIOUS
  <1>2. /\ f = up[c][1] /\ 1 \in DOMAIN up[c] /\ Event(f) /\ r \in Runs /\ ReportEvent(r, f.body)
    BY <1>1, HeadMeant DEF Reported, ReadReport
  <1>3. f.body = [who |-> x, nth |-> n] /\ x \in Executions
    BY <1>1, <1>2 DEF Event, Tellings
  <1>4. Began(x, r) /\ n \in 1..exec[x].told /\ x \in Crew(r)
    BY <1>1, <1>2 DEF Event, Began, Crew
  <1>5. n \in Nat /\ n \in 1..Story
    <2>1. exec[x] \in ExecRecords /\ Story \in Nat
      BY <1>3, AgentAssumption DEF Types, LoopTypes
    <2>2. exec[x].told \in 0..Story
      BY <2>1 DEF ExecRecords
    <2>3. QED
      BY <1>4, <2>1, <2>2
  <1>6. UNCHANGED status /\ Fates' = Fates /\ Holders' = Holders
    BY <1>2, SameFates, SameHolders DEF ReportEvent
  <1>7. CASE Held(r)
    <2>1. record' = [record EXCEPT ![r] = Append(@, [who |-> x, nth |-> n])]
      BY <1>2, <1>3, <1>7 DEF ReportEvent
    <2>2. ASSUME Holder(r) = x PROVE Contract!Due(r, x, n)
      <3>1. Holds(x) /\ exec[x].run = r
        BY <1>3, <1>2, <1>4, <1>7, <2>2, HolderHolds DEF Began
      <3>2. WordAt(up[c], 1, x, n)
        BY <1>1, <1>2, <1>3 DEF WordAt, Event
      <3>3. PICK m \in Nat : n = m + 1
        <4>1. n - 1 \in Nat /\ n = (n - 1) + 1
          BY <1>5
        <4>2. QED
          BY <4>1
      <3>4. Line(up[c], x, r, Alone(x), HeardOf(x), exec[x].told) /\ HeardOf(x) \in SUBSET Nat
        BY <1>3, <1>5, <3>1, <3>2, HolderIsRead
      <3>5. up[c] \in Seq(Meant) /\ WordAt(up[c], 1, x, m + 1)
        BY <3>2, <3>3, WayTypes
      <3>6. (m = 0 \/ m \in HeardOf(x)) /\ \A k \in HeardOf(x) : k < m + 1
        <4>1. PICK H, a, t : H = HeardOf(x) /\ a = Alone(x) /\ t = exec[x].told
          OBVIOUS
        <4>2. Line(up[c], x, r, a, H, t) /\ H \in SUBSET Nat
          BY <3>4, <4>1
        <4>3. (m = 0 \/ m \in H) /\ \A k \in H : k < m + 1
          BY <3>3, <3>5, <4>2, LineIsDue
        <4>4. QED
          BY <4>1, <4>3
      <3>7. \A k \in Nat : Contract!Heard(r, x, k) <=> k \in HeardOf(x)
        BY <1>3, <3>1, HeardIsOnRecord
      <3>8. n = 1 \/ Contract!Heard(r, x, n - 1)
        <4>1. n - 1 = m
          BY <3>3
        <4>2. m = 0 => n = 1
          BY <3>3
        <4>3. QED
          BY <3>3, <3>6, <3>7, <4>1, <4>2
      <3>9. ASSUME NEW k \in 1..Story, Contract!Heard(r, x, k) PROVE k < n
        <4>1. k \in Nat
          BY <3>9, AgentAssumption
        <4>2. QED
          BY <3>3, <3>6, <3>7, <3>9, <4>1
      <3>10. QED
        BY <3>8, <3>9 DEF Contract!Due
    <2>3. Fate(r) \in {"held", "cancelling"}
      BY <1>7 DEF Held, Fate
    <2>4. Contract!Tell(r, x, n)
      BY <1>2, <1>4, <1>6, <2>1, <2>2, <2>3 DEF Contract!Tell, Contract!Underway, Fates, Crews, Holders, Holder
    <2>5. QED
      BY <1>2, <1>3, <1>5, <2>4 DEF Contract!Next
  <1>8. CASE ~Held(r)
    <2>1. UNCHANGED record
      BY <1>2, <1>8 DEF ReportEvent
    <2>2. QED
      BY <1>6, <2>1, ContractStutters
  <1>9. QED
    BY <1>7, <1>8

\* A finish, of a run only its holder took up and nobody cancelled: the whole
\* story is on record.
LEMMA TheStoryIsTold ==
  ASSUME Types, Owned, Unclaimed, CutShort, Granted, NEW c \in Connections, Reported(c),
         Head(up[c]).type = "finish", NEW r, r = Head(up[c]).run, status[r] = "held",
         Crew(r) = {Holder(r)}
  PROVE  Contract!Whole(r, Holder(r))
  <1>1. PICK f : f = Head(up[c])
    OBVIOUS
  <1>2. /\ f = up[c][1] /\ 1 \in DOMAIN up[c] /\ Closing(f) /\ r \in Runs
        /\ f.run = r /\ f.type = "finish"
    BY <1>1, HeadMeant DEF Reported
  <1>3. PICK x \in Executions : Began(x, r) /\ exec[x].stage = "done"
    BY <1>2 DEF Closing
  <1>4. x = Holder(r) /\ exec[x].run = r /\ Alone(x)
    <2>1. x \in Crew(r)
      BY <1>3 DEF Began, Crew
    <2>2. x = Holder(r)
      BY <2>1
    <2>3. QED
      BY <1>3, <2>2 DEF Began, Alone
  <1>5. Holds(x)
    BY <1>2, <1>3, <1>4, HolderHolds DEF Held
  <1>6. CloseAt(up[c], 1, r)
    BY <1>2 DEF CloseAt
  <1>7. PICK H, t : H = HeardOf(x) /\ t = exec[x].told
    OBVIOUS
  <1>8. Line(up[c], x, r, TRUE, H, t) /\ H \in SUBSET Nat
    <2>1. /\ Line(up[c], x, exec[x].run, Alone(x), HeardOf(x), exec[x].told)
          /\ HeardOf(x) \in SUBSET Nat
      BY <1>4, <1>5, <1>6, HolderIsRead
    <2>2. Alone(x) = TRUE
      BY <1>4 DEF Alone
    <2>3. QED
      BY <1>4, <1>7, <2>1, <2>2
  <1>9. t = Story /\ t \in Nat
    <2>1. ~Past(r)
      BY DEF Past
    <2>2. QED
      BY <1>3, <1>4, <1>7, <2>1, AgentAssumption DEF CutShort
  <1>10. up[c] \in Seq(Meant)
    BY WayTypes
  <1>11. t = 0 \/ t \in H
    BY <1>6, <1>8, <1>9, <1>10, LineIsOver
  <1>12. PICK k \in Nat : H = 1..k
    BY <1>5, <1>7 DEF Granted
  <1>13. \A n \in 1..t : n \in H /\ n \in Nat
    BY <1>9, <1>11, <1>12
  <1>14. \A n \in 1..Story : Contract!Heard(r, x, n)
    BY <1>4, <1>7, <1>9, <1>13, HeardIsOnRecord
  <1>15. QED
    BY <1>4, <1>14 DEF Contract!Whole

LEMMA ContractFinish ==
  ASSUME Types, Owned, Unclaimed, CutShort, Granted, Crews' = Crews, UNCHANGED <<claim, stray>>,
         NEW c \in Connections, Reported(c), Head(up[c]).type = "finish"
  PROVE  [Contract!Next]_Contract!vars
  <1>1. PICK r : r = Head(up[c]).run
    OBVIOUS
  <1>2. r \in Runs /\ FinishRun(r)
    BY <1>1, HeadMeant DEF Reported, ReadReport
  <1>3. UNCHANGED record /\ Holders' = Holders /\ status' = [status EXCEPT ![r] = AfterFinish(r)]
    BY <1>2, SameHolders DEF FinishRun
  <1>4. CASE Held(r)
    <2>1. Contract!Turns(r, "held", "ended") \/ Contract!Turns(r, "cancelling", "cancelled")
      <3>1. /\ Fate(r) = "held" => FateOf(AfterFinish(r)) = "ended"
            /\ Fate(r) = "cancelling" => FateOf(AfterFinish(r)) = "cancelled"
            /\ Fate(r) \in {"held", "cancelling"}
        BY <1>4 DEF Held, Fate, FateOf, AfterFinish
      <3>2. Contract!Turns(r, Fate(r), FateOf(AfterFinish(r)))
        BY <1>2, <1>3, Turned
      <3>3. QED
        BY <3>1, <3>2
    <2>2. ASSUME Crew(r) = {Holder(r)}, Fate(r) = "held" PROVE Contract!Whole(r, Holder(r))
      <3>1. status[r] = "held"
        BY <1>4, <2>2 DEF Held, Fate
      <3>2. QED
        BY <1>1, <2>2, <3>1, TheStoryIsTold
    <2>3. Contract!End(r)
      BY <1>2, <1>3, <2>1, <2>2 DEF Contract!End, Crews, Holders, Holder
    <2>4. QED
      BY <1>2, <2>3 DEF Contract!Next
  <1>5. CASE ~Held(r)
    <2>1. AfterFinish(r) = status[r]
      BY <1>5 DEF AfterFinish, Held
    <2>2. Fates' = Fates
      BY <1>2, <1>3, <2>1, Turned DEF Fate, FateOf
    <2>3. QED
      BY <1>3, <2>2, ContractStutters
  <1>6. QED
    BY <1>4, <1>5

LEMMA ContractInit == Init => Contract!Init
  <1> SUFFICES ASSUME Init PROVE Contract!Init
    OBVIOUS
  <1>1. \A r \in Runs : Fate(r) = "none" /\ Crew(r) = {} /\ Holder(r) = None
    BY DEF Init, RelayInit, Idle, Fate, Crew, Holder
  <1>2. QED
    BY <1>1 DEF Init, RelayInit, Contract!Init, Holder

-----------------------------------------------------------------------------
Wiring == QueryInv /\ Types /\ Opening /\ Owned /\ Hellos /\ Succession
Keeping == Wiring /\ Unclaimed /\ CutShort /\ Queued /\ Sent /\ Granted

LEMMA KeepingInit == Init => Keeping
  BY QueryInit, TypesInit, OpeningInit, OwnedInit, HellosInit, SuccessionInit, UnclaimedInit,
     CutShortInit, QueuedInit, SentInit, GrantedInit DEF Keeping, Wiring

LEMMA KeepingNext == Keeping /\ [Next]_vars => Keeping'
  <1> SUFFICES ASSUME Keeping, [Next]_vars PROVE Keeping'
    OBVIOUS
  <1>1. Wiring'
    BY QueryNext, TypesNext, OpeningNext, OwnedNext, HellosNext, SuccessionNext DEF Keeping, Wiring
  <1>2. Unclaimed' /\ CutShort'
    BY UnclaimedNext, CutShortNext DEF Keeping, Wiring
  <1>3. Queued'
    BY QueuedNext DEF Keeping, Wiring
  <1>4. Sent'
    BY SentNext DEF Keeping, Wiring
  <1>5. Granted'
    BY <1>1, GrantedNext DEF Keeping, Wiring
  <1>6. QED
    BY <1>1, <1>2, <1>3, <1>4, <1>5 DEF Keeping

LEMMA ContractNext == Keeping /\ [Next]_vars => [Contract!Next]_Contract!vars
  <1> SUFFICES ASSUME Keeping, [Next]_vars PROVE [Contract!Next]_Contract!vars
    OBVIOUS
  <1>1. Types /\ QueryInv /\ Owned /\ Unclaimed /\ CutShort /\ Granted
    BY DEF Keeping, Wiring
  <1>2. ASSUME NEW x \in Executions, TakeRun(x) PROVE Contract!Next
    BY <1>1, <1>2, ContractTake
  <1>3. CASE \A x \in Executions : ~TakeRun(x)
    <2>1. Crews' = Crews
      BY <1>1, <1>3, CrewStays
    <2>2. CASE UNCHANGED <<status, claim, record, stray>>
      BY <2>1, <2>2, SameFates, SameHolders, ContractStutters
    <2>3. CASE /\ \E r \in Runs : StartRun(r) \/ Offer(r) \/ TakeBack(r) \/ CancelRun(r)
               /\ UNCHANGED <<claim, record, stray>>
      BY <1>1, <2>1, <2>3, ContractRuns
    <2>4. CASE LinkGone /\ UNCHANGED stray
      BY <2>1, <2>4, ContractLinkGone
    <2>5. CASE \E c \in Connections : Acked(c) /\ stray' = stray \cup Astray
      BY <1>1, <2>1, <2>5, ContractAck
    <2>6. CASE \E c \in Connections : Reported(c) /\ UNCHANGED <<claim, stray>>
      <3>1. PICK c \in Connections : Reported(c) /\ UNCHANGED <<claim, stray>>
        BY <2>6
      <3>2. Head(up[c]).type = "event" \/ Head(up[c]).type = "finish"
        BY <3>1 DEF Reported
      <3>3. QED
        BY <1>1, <2>1, <3>1, <3>2, ContractEvent, ContractFinish
    <2>7. QED
      BY <2>2, <2>3, <2>4, <2>5, <2>6, RunsSteps
  <1>4. QED
    BY <1>2, <1>3

(***************************************************************************)
(* Gateway and link implement RunContract, through every drop, replacement *)
(* and reconnection, for any number of connections, runs, offers and       *)
(* executions: a run is given once; what comes on record of the one whose  *)
(* yes the serving connection brought is its story from the beginning, in  *)
(* order and without a gap; and a run only that one worked on, and nobody  *)
(* cancelled, ends with the whole story on record.  It rests on the queue  *)
(* that outlives the connections (client.py), on a yes that goes ahead of  *)
(* what its agent says there, and on core failing what a connection held   *)
(* when it is gone (ws_provider.py).                                       *)
(***************************************************************************)
THEOREM LinkKeepsTheContract == Spec => RunContractKept
  BY KeepingInit, KeepingNext, ContractInit, ContractNext,
     PTL DEF Spec, RunContractKept, Contract!Spec

==============================================================================
