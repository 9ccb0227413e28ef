--------------------------- MODULE PodProbeProofs ---------------------------
(***************************************************************************)
(* Proofs about PodProbe: of an execution whose yes gave it the run the    *)
(* record misses nothing up to where it ends, a cancel finds the work, and *)
(* gateway and probe together keep RunContract.                            *)
(***************************************************************************)
EXTENDS PodProbe, TLAPS

Kinds == {"hello", "welcome", "register", "registered", "run", "cancel", "error",
          "ack", "event", "finish"}

LEMMA StoryLength == Len(Story) = 2 /\ Len(Story) \in Nat
  BY DEF Story

LEMMA FrameFacts ==
  ASSUME NEW f \in Frames
  PROVE  /\ f.type \in Kinds
         /\ f.type \in {"ack", "event", "finish", "run", "cancel"} => f.run \in Runs
         /\ f.type = "ack" => f.body \in Verdict
         /\ f.type = "event" => f.body \in Entry
  <1>1. CASE f \in {Note(type) : type \in {"hello", "welcome", "register", "registered", "error"}}
    BY <1>1 DEF Note, Frame, Kinds
  <1>2. CASE f \in {Frame(type, r, None) : type \in {"run", "cancel", "error", "finish"}, r \in Runs}
    BY <1>2 DEF Frame, Kinds
  <1>3. CASE f \in {Frame("ack", r, v) : r \in Runs, v \in Verdict}
    BY <1>3 DEF Frame, Kinds
  <1>4. CASE f \in {Frame("event", r, e) : r \in Runs, e \in Entry}
    BY <1>4 DEF Frame, Kinds
  <1>5. QED
    BY <1>1, <1>2, <1>3, <1>4 DEF Frames

LEMMA FramesOf ==
  /\ \A type \in {"hello", "welcome", "register", "registered", "error"} : Note(type) \in Frames
  /\ \A type \in {"run", "cancel", "error", "finish"}, r \in Runs : Frame(type, r, None) \in Frames
  /\ \A r \in Runs, v \in Verdict : Frame("ack", r, v) \in Frames
  /\ \A r \in Runs, e \in Entry : Frame("event", r, e) \in Frames
  BY DEF Frames

LEMMA AcceptedIsAVerdict ==
  ASSUME NEW x \in Executions
  PROVE  [verdict |-> "accepted", who |-> x] \in Verdict
  BY DEF Verdict, AfterVerdict

(* One frame fewer at the head of a queue, or one more at its end. *)
LEMMA Popped ==
  ASSUME NEW S, NEW q \in [Connections -> Seq(S)], NEW c \in Connections, q[c] # <<>>
  PROVE  /\ Head(q[c]) \in S /\ Head(q[c]) = q[c][1]
         /\ [q EXCEPT ![c] = Tail(@)] \in [Connections -> Seq(S)]
  <1>1. Head(q[c]) \in S /\ Tail(q[c]) \in Seq(S) /\ Head(q[c]) = q[c][1]
    OBVIOUS
  <1>2. QED
    BY <1>1

LEMMA Pushed ==
  ASSUME NEW S, NEW q \in [Connections -> Seq(S)], NEW c, NEW f \in S
  PROVE  [q EXCEPT ![c] = Append(@, f)] \in [Connections -> Seq(S)]
  <1>1. CASE c \in Connections
    <2>1. Append(q[c], f) \in Seq(S)
      BY <1>1
    <2>2. QED
      BY <2>1
  <1>2. CASE c \notin Connections
    BY <1>2
  <1>3. QED
    BY <1>1, <1>2

LEMMA Emptied ==
  ASSUME NEW S, NEW q \in [Connections -> Seq(S)], NEW c
  PROVE  [q EXCEPT ![c] = <<>>] \in [Connections -> Seq(S)]
  <1>1. <<>> \in Seq(S)
    OBVIOUS
  <1>2. QED
    BY <1>1

LEMMA PostType ==
  ASSUME TypeOK, NEW c, NEW f \in Frames, Post(c, f)
  PROVE  down' \in [Connections -> Seq(Frames)]
  BY Pushed DEF Post, TypeOK

LEMMA SendType ==
  ASSUME TypeOK, NEW f \in Frames, Send(f)
  PROVE  up' \in [Connections -> Seq(Frames)]
  BY Pushed DEF Send, TypeOK

-----------------------------------------------------------------------------
(* Types. *)

Executed == [run : Runs \cup {None}, on : Connections \cup {None},
             stage : {"free", "answering", "telling", "done"},
             told : 0..Len(Story), cancelled : BOOLEAN]

RunTypes ==
  /\ status \in [Runs -> {"none", "ended", "cancelled", "failed"} \cup Known]
  /\ claim \in [Runs -> Executions \cup {None}]
  /\ offers \in [Runs -> 0..MaxOffers]
  /\ record \in [Runs -> Seq(Entry)]

Links ==
  /\ link = None <=> at \in {"ticket", "waiting"}
  /\ \A c \in Connections : wire[c] = "up" => c = link
  /\ \A x \in Executions : exec[x].stage # "free" =>
        exec[x].run \in Runs /\ exec[x].on \in Connections /\ wire[exec[x].on] # "none"

LEMMA TypeInit == Init => TypeOK
  <1> SUFFICES ASSUME Init PROVE TypeOK
    OBVIOUS
  <1>1. Idle \in Executed
    BY StoryLength DEF Idle, Executed
  <1>2. 1 \in 1..(2 * MaxBackoff) /\ 0 \in 0..MaxOffers
    BY ProbeAssumption, RelayAssumption
  <1>3. <<>> \in Seq(Frames) /\ <<>> \in Seq(Entry)
    OBVIOUS
  <1>4. RunTypes
    BY <1>2, <1>3 DEF Init, RelayInit, RunTypes
  <1>5. exec \in [Executions -> Executed]
    BY <1>1 DEF Init
  <1>6. up \in [Connections -> Seq(Frames)] /\ down \in [Connections -> Seq(Frames)]
    BY <1>3 DEF Init, RelayInit
  <1>7. QED
    BY <1>2, <1>4, <1>5, <1>6 DEF Init, RelayInit, TypeOK, Executed, NoCancels, RunTypes

LEMMA LinkGoneType == TypeOK /\ LinkGone => RunTypes'
  BY DEF TypeOK, LinkGone, RunTypes, Known

LEMMA GatewayTypes ==
  ASSUME TypeOK, GatewayNext
  PROVE  /\ wire' \in [Connections -> {"none", "up", "broken"}]
         /\ phase' \in [Connections -> {"new", "attached", "closed"}]
         /\ up' \in [Connections -> Seq(Frames)]
         /\ down' \in [Connections -> Seq(Frames)]
         /\ attached' \in Connections \cup {None}
         /\ serving' \in BOOLEAN
         /\ RunTypes'
  <1> DEFINE Goal == /\ wire' \in [Connections -> {"none", "up", "broken"}]
                     /\ phase' \in [Connections -> {"new", "attached", "closed"}]
                     /\ up' \in [Connections -> Seq(Frames)]
                     /\ down' \in [Connections -> Seq(Frames)]
                     /\ attached' \in Connections \cup {None}
                     /\ serving' \in BOOLEAN
                     /\ RunTypes'
  <1>1. ASSUME NEW r \in Runs, StartRun(r) \/ TakeBack(r) PROVE Goal
    BY <1>1 DEF StartRun, TakeBack, TypeOK, RunTypes, Known
  <1>2. ASSUME NEW r \in Runs, Offer(r) PROVE Goal
    <2>1. down' \in [Connections -> Seq(Frames)]
      BY <1>2, PostType, FramesOf DEF Offer
    <2>2. offers[r] + 1 \in 0..MaxOffers
      BY <1>2, RelayAssumption DEF Offer, TypeOK
    <2>3. QED
      BY <1>2, <2>1, <2>2 DEF Offer, TypeOK, RunTypes, Known
  <1>3. ASSUME NEW r \in Runs, CancelRun(r) PROVE Goal
    <2>1. down' \in [Connections -> Seq(Frames)]
      BY <1>3, PostType, FramesOf DEF CancelRun
    <2>2. QED
      BY <1>3, <2>1 DEF CancelRun, TypeOK, RunTypes, Known
  <1>4. ASSUME NEW c \in Connections, Read(c) PROVE Goal
    <2> DEFINE f == Head(up[c])
    <2>1. /\ f \in Frames /\ up' \in [Connections -> Seq(Frames)]
          /\ UNCHANGED wire
      BY <1>4, Popped DEF Read, Reading, Handle, TypeOK
    <2>2. CASE f.type = "hello" /\ Attach(c)
      BY <2>1, <2>2, LinkGoneType, PostType, FramesOf DEF Attach, TypeOK
    <2>3. CASE f.type = "register" /\ Register(c)
      BY <2>1, <2>3, PostType, FramesOf DEF Register, TypeOK, runVars, RunTypes
    <2>4. CASE f.type = "ack" /\ ReadAck(c, f)
      <3>1. /\ f.run \in Runs /\ f.body.who \in Executions
            /\ AfterVerdict[f.body.verdict] \in Known \cup {"failed"}
        BY <2>1, <2>4, FrameFacts DEF Verdict, AfterVerdict, Known
      <3>2. RunTypes'
        <4>1. CASE status[f.run] = "offered"
          <5>1. /\ status' = [status EXCEPT ![f.run] = AfterVerdict[f.body.verdict]]
                /\ claim' = [claim EXCEPT ![f.run] = IF f.body.verdict = "accepted" THEN f.body.who ELSE @]
                /\ UNCHANGED <<offers, record>>
            BY <2>4, <4>1 DEF ReadAck, AnswerOffer
          <5>2. status' \in [Runs -> {"none", "ended", "cancelled", "failed"} \cup Known]
            BY <3>1, <5>1 DEF TypeOK
          <5>3. claim' \in [Runs -> Executions \cup {None}]
            BY <3>1, <5>1 DEF TypeOK
          <5>4. QED
            BY <5>1, <5>2, <5>3 DEF TypeOK, RunTypes
        <4>2. CASE status[f.run] # "offered"
          BY <2>4, <4>2 DEF ReadAck, AnswerOffer, TypeOK, runVars, RunTypes
        <4>3. QED
          BY <4>1, <4>2
      <3>3. QED
        BY <2>1, <2>4, <3>2 DEF ReadAck, TypeOK
    <2>5. CASE f.type \in {"event", "finish"} /\ ReadReport(c, f)
      <3>1. f.run \in Runs /\ (f.type = "event" => f.body \in Entry)
        BY <2>1, <2>5, FrameFacts
      <3>2. down' \in [Connections -> Seq(Frames)]
        BY <2>5, <3>1, PostType, FramesOf DEF ReadReport, TypeOK
      <3>3. CASE f.type = "event"
        <4>1. Append(record[f.run], f.body) \in Seq(Entry)
          BY <3>1, <3>3 DEF TypeOK
        <4>2. RunTypes'
          BY <2>5, <3>1, <3>3, <4>1 DEF ReadReport, ReportEvent, TypeOK, RunTypes
        <4>3. QED
          BY <2>1, <2>5, <3>2, <4>2 DEF ReadReport, TypeOK
      <3>4. CASE f.type = "finish"
        <4>1. AfterFinish(f.run) \in {"none", "ended", "cancelled", "failed"} \cup Known
          BY <3>1 DEF AfterFinish, TypeOK
        <4>2. RunTypes'
          BY <2>5, <3>1, <3>4, <4>1 DEF ReadReport, FinishRun, TypeOK, RunTypes
        <4>3. QED
          BY <2>1, <2>5, <3>2, <4>2 DEF ReadReport, TypeOK
      <3>5. QED
        BY <2>5, <3>3, <3>4
    <2>6. QED
      BY <1>4, <2>2, <2>3, <2>4, <2>5 DEF Read, Handle
  <1>5. ASSUME NEW c \in Connections, RefuseHello(c) PROVE Goal
    BY <1>5 DEF RefuseHello, TypeOK, runVars, RunTypes
  <1>6. ASSUME NEW c \in Connections, Disconnect(c) PROVE Goal
    <2>1. up' \in [Connections -> Seq(Frames)]
      BY <1>6, Emptied DEF Disconnect, TypeOK
    <2>2. RunTypes' /\ attached' \in Connections \cup {None} /\ serving' \in BOOLEAN
      BY <1>6, LinkGoneType DEF Disconnect, TypeOK, runVars, RunTypes
    <2>3. QED
      BY <1>6, <2>1, <2>2 DEF Disconnect, TypeOK
  <1>7. QED
    BY <1>1, <1>2, <1>3, <1>4, <1>5, <1>6 DEF GatewayNext

LEMMA ExecTypes ==
  ASSUME TypeOK, NEW x \in Executions
  PROVE  /\ exec \in [Executions -> Executed] /\ exec[x] \in Executed
         /\ Done(x) \in Executed /\ Done(x).stage = "done" /\ Done(x).run = exec[x].run
         /\ Done(x).on = exec[x].on
         /\ \A r \in Runs, c \in Connections \cup {None} :
              [Idle EXCEPT !.run = r, !.on = c, !.stage = "answering"] \in Executed
  <1>1. exec \in [Executions -> Executed] /\ exec[x] \in Executed
    BY DEF TypeOK, Executed
  <1>2. 0 \in 0..Len(Story)
    BY StoryLength
  <1> HIDE DEF Story
  <1>3. QED
    BY <1>1, <1>2 DEF Executed, Done, Idle

LEMMA ExecEdits ==
  ASSUME TypeOK, NEW x \in Executions
  PROVE  /\ \A told \in 0..Len(Story) : [exec[x] EXCEPT !.told = told] \in Executed
         /\ [exec[x] EXCEPT !.stage = "telling"] \in Executed
         /\ Emit(x) => exec[x].told + 1 \in 1..Len(Story) /\ exec[x].told + 1 \in 0..Len(Story)
  <1>1. exec[x] \in Executed
    BY ExecTypes
  <1>2. ASSUME NEW told \in 0..Len(Story)
        PROVE  [exec[x] EXCEPT !.told = told] \in Executed
    BY <1>1, <1>2 DEF Executed
  <1>3. [exec[x] EXCEPT !.stage = "telling"] \in Executed
    BY <1>1 DEF Executed
  <1>4. ASSUME Emit(x)
        PROVE  exec[x].told + 1 \in 1..Len(Story) /\ exec[x].told + 1 \in 0..Len(Story)
    <2>1. exec[x].told \in 0..Len(Story)
      BY <1>1 DEF Executed
    <2>2. exec[x].told = 0 \/ exec[x].told < Len(Story)
      BY <1>4 DEF Emit
    <2>3. QED
      BY <2>1, <2>2, StoryLength
  <1>5. QED
    BY <1>2, <1>3, <1>4

LEMMA ProbeTypes ==
  ASSUME TypeOK, Links, Next, ~(GatewayNext /\ UNCHANGED probeVars)
  PROVE  TypeOK'
  <1> USE DEF Executed
  <1>1. ASSUME NEW c \in Connections, Dial(c) PROVE TypeOK'
    <2>1. <<Note("hello")>> \in Seq(Frames)
      BY FramesOf
    <2>2. QED
      BY <1>1, <2>1 DEF Dial, TypeOK, runVars
  <1>2. ASSUME NEW c \in Connections, WireBreaks(c) PROVE TypeOK'
    BY <1>2 DEF WireBreaks, TypeOK, runVars, probeVars
  <1>3. CASE CannotDial
    BY <1>3 DEF CannotDial, TypeOK, relayVars
  <1>4. ASSUME NEW type, Hears(type), Took, link \in Connections
        PROVE  down' \in [Connections -> Seq(Frames)] /\ Head(down[link]) \in Frames
    BY <1>4, Popped DEF Hears, Heard, Took, TypeOK
  <1>5. ASSUME NEW type, Hears(type), Took
        PROVE  down' \in [Connections -> Seq(Frames)]
    <2>1. CASE link \in Connections
      BY <1>4, <1>5, <2>1
    <2>2. CASE link \notin Connections
      BY <1>5, <2>2 DEF Took, TypeOK
    <2>3. QED
      BY <2>1, <2>2
  <1>6. CASE Welcomed
    <2>1. up' \in [Connections -> Seq(Frames)]
      BY <1>6, SendType, FramesOf DEF Welcomed
    <2>2. QED
      BY <1>5, <1>6, <2>1 DEF Welcomed, TypeOK, runVars
  <1>7. CASE Registered
    BY <1>5, <1>7 DEF Registered, TypeOK, runVars
  <1>8. LinkEnds => /\ wire' \in [Connections -> {"none", "up", "broken"}]
                    /\ down' \in [Connections -> Seq(Frames)]
                    /\ link' \in Connections \cup {None}
                    /\ cancels' \in [Runs -> Executions \cup {None}]
    <2> SUFFICES ASSUME LinkEnds
                 PROVE  /\ wire' \in [Connections -> {"none", "up", "broken"}]
                        /\ down' \in [Connections -> Seq(Frames)]
                        /\ link' \in Connections \cup {None}
                        /\ cancels' \in [Runs -> Executions \cup {None}]
      OBVIOUS
    <2>1. down' \in [Connections -> Seq(Frames)]
      BY Emptied DEF LinkEnds, TypeOK
    <2>2. wire' \in [Connections -> {"none", "up", "broken"}]
      BY DEF LinkEnds, TypeOK
    <2>3. QED
      BY <2>1, <2>2 DEF LinkEnds, NoCancels
  <1>9. CASE ConnectionEnds
    BY <1>8, <1>9 DEF ConnectionEnds, TypeOK, runVars
  <1>10. CASE Wait
    <2>1. Backoff \in 1..(2 * MaxBackoff)
      BY ProbeAssumption DEF Backoff, TypeOK
    <2>2. QED
      BY <1>10, <2>1 DEF Wait, TypeOK, relayVars
  <1>11. CASE Restart
    <2>1. exec' \in [Executions -> Executed]
      BY <1>11, ExecTypes DEF Restart, TypeOK
    <2>2. 1 \in 1..(2 * MaxBackoff)
      BY ProbeAssumption
    <2>3. QED
      BY <1>8, <1>11, <2>1, <2>2 DEF Restart, TypeOK, runVars
  <1>12. ASSUME NEW x \in Executions, TakeRun(x), link \in Connections PROVE TypeOK'
    <2> DEFINE r == Head(down[link]).run
    <2>1. r \in Runs /\ down' \in [Connections -> Seq(Frames)]
      BY <1>4, <1>12, FrameFacts DEF TakeRun, Serving, Hears
    <2>2. up' \in [Connections -> Seq(Frames)]
      BY <1>12, <2>1, SendType, FramesOf, AcceptedIsAVerdict DEF TakeRun
    <2>3. exec' \in [Executions -> Executed] /\ cancels' \in [Runs -> Executions \cup {None}]
      BY <1>12, <2>1, ExecTypes DEF TakeRun, StartGoroutine, TypeOK
    <2>4. QED
      BY <1>12, <2>1, <2>2, <2>3 DEF TakeRun, TypeOK, runVars
  <1>13. ASSUME NEW x \in Executions, TakeRun(x), link \notin Connections PROVE FALSE
    BY <1>13 DEF TakeRun, Serving, Hears, Heard, Links, TypeOK
  <1>14. CASE TakeCancel
    <2>1. exec' \in [Executions -> Executed]
      <3>1. \A x \in Executions : [exec[x] EXCEPT !.cancelled = TRUE] \in Executed
        BY DEF TypeOK
      <3>2. QED
        BY <1>14, <3>1 DEF TakeCancel, Cancelled, TypeOK
    <2>2. QED
      BY <1>5, <1>14, <2>1 DEF TakeCancel, Serving, TypeOK, runVars
  <1>15. CASE TakeError
    BY <1>5, <1>15 DEF TakeError, Serving, TypeOK, runVars, probeVars
  <1>16. ASSUME NEW x \in Executions, Answered(x) PROVE TypeOK'
    <2>1. [exec[x] EXCEPT !.stage = "telling"] \in Executed
      BY ExecEdits
    <2>2. QED
      BY <1>16, <2>1 DEF Answered, TypeOK, relayVars
  <1>17. ASSUME NEW x \in Executions, Emit(x) PROVE TypeOK'
    <2>1. /\ exec[x].told + 1 \in 1..Len(Story) /\ exec[x].told + 1 \in 0..Len(Story)
          /\ exec[x].run \in Runs
      BY <1>17, ExecEdits DEF Emit, Live, Links
    <2>2. [who |-> x, nth |-> exec[x].told + 1] \in Entry
      BY <2>1 DEF Entry
    <2>3. up' \in [Connections -> Seq(Frames)]
      BY <1>17, <2>1, <2>2, FramesOf, Pushed DEF Emit, Say, TypeOK
    <2>5. [exec[x] EXCEPT !.told = exec[x].told + 1] \in Executed
      BY <2>1, ExecEdits
    <2>6. exec' \in [Executions -> Executed]
      BY <1>17, <2>5 DEF Emit, TypeOK
    <2>7. QED
      BY <1>17, <2>3, <2>6 DEF Emit, TypeOK, runVars
  <1>18. ASSUME NEW x \in Executions, Finish(x) PROVE TypeOK'
    <2>1. exec[x].run \in Runs
      BY <1>18, ExecTypes DEF Finish, Links
    <2>2. up' \in [Connections -> Seq(Frames)]
      BY <1>18, <2>1, FramesOf, Pushed DEF Finish, Say, TypeOK
    <2>3. exec' \in [Executions -> Executed]
      BY <1>18, ExecTypes DEF Finish
    <2>4. QED
      BY <1>18, <2>2, <2>3 DEF Finish, TypeOK, runVars
  <1>19. ASSUME NEW x \in Executions, WorksOn(x) PROVE TypeOK'
    <2>1. exec' \in [Executions -> Executed]
      BY <1>19, ExecTypes DEF WorksOn
    <2>2. QED
      BY <1>19, <2>1 DEF WorksOn, TypeOK, relayVars
  <1>20. QED
    BY <1>1, <1>2, <1>3, <1>6, <1>7, <1>9, <1>10, <1>11, <1>12, <1>13, <1>14, <1>15,
       <1>16, <1>17, <1>18, <1>19 DEF Next

LEMMA TypeNext == TypeOK /\ Links /\ [Next]_vars => TypeOK'
  <1> SUFFICES ASSUME TypeOK, Links, [Next]_vars PROVE TypeOK'
    OBVIOUS
  <1>1. CASE UNCHANGED vars
    BY <1>1 DEF vars, relayVars, probeVars, TypeOK
  <1>2. CASE GatewayNext /\ UNCHANGED probeVars
    BY <1>2, GatewayTypes DEF TypeOK, RunTypes, probeVars
  <1>3. QED
    BY <1>1, <1>2, ProbeTypes

-----------------------------------------------------------------------------
(* The probe is on one connection at a time, and that is the only one that *)
(* is up; the executions that were started have a run and a connection.    *)

LEMMA LinksInit == Init => Links
  BY RelayAssumption DEF Init, RelayInit, Links, Idle

(* What the goroutines' steps make of them. *)
LEMMA ExecChanges ==
  ASSUME TypeOK, NEW x \in Executions
  PROVE  /\ Answered(x) => exec' = [exec EXCEPT ![x] = [exec[x] EXCEPT !.stage = "telling"]] /\ Live(x)
         /\ Emit(x) => exec' = [exec EXCEPT ![x] = [exec[x] EXCEPT !.told = exec[x].told + 1]] /\ Live(x)
         /\ Finish(x) \/ WorksOn(x) => exec' = [exec EXCEPT ![x] = Done(x)] /\ Live(x)
  BY ExecTypes DEF Answered, Emit, Finish, WorksOn, Live

LEMMA LinksNext == TypeOK /\ Links /\ [Next]_vars => Links'
  <1> SUFFICES ASSUME TypeOK, Links, [Next]_vars PROVE Links'
    OBVIOUS
  <1> USE RelayAssumption
  <1>1. CASE UNCHANGED vars
    BY <1>1 DEF vars, relayVars, probeVars, Links
  <1>2. CASE GatewayNext /\ UNCHANGED probeVars
    <2>1. /\ \A c \in Connections : wire'[c] = "up" => wire[c] = "up"
          /\ \A c \in Connections : wire[c] # "none" => wire'[c] # "none"
      BY <1>2 DEF GatewayNext, StartRun, Offer, TakeBack, CancelRun, Read, RefuseHello, Disconnect, TypeOK
    <2>2. QED
      BY <1>2, <2>1 DEF Links, probeVars
  <1>3. ASSUME NEW c \in Connections, Dial(c) PROVE Links'
    BY <1>3 DEF Dial, Links, TypeOK
  <1>4. ASSUME NEW c \in Connections, WireBreaks(c) PROVE Links'
    BY <1>4 DEF WireBreaks, Links, TypeOK, probeVars
  <1>5. CASE CannotDial \/ Welcomed \/ Registered \/ Wait
    BY <1>5 DEF CannotDial, Welcomed, Registered, Wait, Links, relayVars
  <1>6. CASE ConnectionEnds
    BY <1>6 DEF ConnectionEnds, LinkEnds, Links, TypeOK
  <1>7. CASE Restart
    <2>1. \A x \in Executions : /\ exec'[x].stage # "free" => exec[x].stage # "free"
                                 /\ exec'[x].run = exec[x].run /\ exec'[x].on = exec[x].on
      BY <1>7, ExecTypes DEF Restart, Live
    <2>2. QED
      BY <1>7, <2>1 DEF Restart, LinkEnds, Links, TypeOK
  <1>8. ASSUME NEW x \in Executions, TakeRun(x) PROVE Links'
    <2>1. link \in Connections /\ wire[link] = "up" /\ down[link] # <<>>
      BY <1>8 DEF TakeRun, Serving, Hears, Heard, Links, TypeOK
    <2>2. Head(down[link]).run \in Runs
      BY <1>8, <2>1, Popped, FrameFacts DEF TakeRun, Serving, Hears, TypeOK
    <2>3. /\ \A y \in Executions : y # x => exec'[y] = exec[y]
          /\ exec'[x].run = Head(down[link]).run /\ exec'[x].on = link
      BY <1>8 DEF TakeRun, StartGoroutine, TypeOK, Idle
    <2>4. QED
      BY <1>8, <2>1, <2>2, <2>3 DEF TakeRun, Links
  <1>9. ASSUME NEW x \in Executions, Answered(x) \/ Emit(x) \/ Finish(x) \/ WorksOn(x) PROVE Links'
    <2>1. \A y \in Executions : /\ exec'[y].stage # "free" => exec[y].stage # "free"
                                 /\ exec'[y].run = exec[y].run /\ exec'[y].on = exec[y].on
      <3>1. PICK e : exec' = [exec EXCEPT ![x] = e] /\ e.run = exec[x].run /\ e.on = exec[x].on
        <4>0. exec[x] \in Executed
          BY ExecTypes
        <4>1. CASE Answered(x)
          <5> DEFINE e == [exec[x] EXCEPT !.stage = "telling"]
          <5>1. e.run = exec[x].run /\ e.on = exec[x].on
            BY <4>0 DEF Executed
          <5>2. exec' = [exec EXCEPT ![x] = e]
            BY <4>1, ExecChanges
          <5>3. QED
            BY <5>1, <5>2
        <4>2. CASE Emit(x)
          <5> DEFINE e == [exec[x] EXCEPT !.told = exec[x].told + 1]
          <5>1. e.run = exec[x].run /\ e.on = exec[x].on
            BY <4>0 DEF Executed
          <5>2. exec' = [exec EXCEPT ![x] = e]
            BY <4>2, ExecChanges
          <5>3. QED
            BY <5>1, <5>2
        <4>3. CASE Finish(x) \/ WorksOn(x)
          BY <4>3, ExecTypes, ExecChanges
        <4>4. QED
          BY <1>9, <4>1, <4>2, <4>3
      <3>2. exec[x].stage # "free" /\ exec \in [Executions -> Executed]
        BY <1>9, ExecTypes, ExecChanges DEF Live
      <3>3. QED
        BY <3>1, <3>2
    <2>2. UNCHANGED <<wire, link, at>>
      BY <1>9 DEF Answered, Emit, Finish, WorksOn, relayVars
    <2>3. QED
      BY <2>1, <2>2 DEF Links
  <1>10. CASE TakeCancel
    <2>1. \A y \in Executions : /\ exec'[y].stage = exec[y].stage
                                 /\ exec'[y].run = exec[y].run /\ exec'[y].on = exec[y].on
      BY <1>10 DEF TakeCancel, Cancelled, TypeOK
    <2>2. QED
      BY <1>10, <2>1 DEF TakeCancel, Links
  <1>11. CASE TakeError
    BY <1>11 DEF TakeError, Links, probeVars
  <1>12. QED
    BY <1>1, <1>2, <1>3, <1>4, <1>5, <1>6, <1>7, <1>8, <1>9, <1>10, <1>11 DEF Next

(***************************************************************************)
(* The sockets, the frames under way, core's record and the goroutines     *)
(* keep their types.                                                       *)
(***************************************************************************)
THEOREM ProbeTypeCorrect == Spec => []TypeOK
  BY TypeInit, TypeNext, LinksInit, LinksNext, PTL DEF Spec

-----------------------------------------------------------------------------
(***************************************************************************)
(* One execution's line: what it said on its connection, in the queue and  *)
(* in its run's record together.  The yes is in front of every event, the  *)
(* events are in order, and none is missing from where the record stops.   *)
(* mine: the run is its; kept: and core still holds it.                    *)
(***************************************************************************)
AckAt(q, i, x) == i \in DOMAIN q /\ q[i].type = "ack" /\ q[i].body.who = x
EventAt(q, i, x, k) == i \in DOMAIN q /\ q[i].type = "event" /\ q[i].body = [who |-> x, nth |-> k]
KeptIn(rec, x, k) == \E i \in DOMAIN rec : rec[i] = [who |-> x, nth |-> k]

\* Whatever held its k-th event is behind it.
Passed(q, rec, x, k, kept) ==
  /\ \A i \in Nat : ~AckAt(q, i, x)
  /\ kept => KeptIn(rec, x, k)

YesFirst(q, rec, x, mine) == \A i \in Nat : AckAt(q, i, x) =>
  /\ ~mine
  /\ \A j \in Nat : AckAt(q, j, x) => i = j
  /\ \A j, k \in Nat : EventAt(q, j, x, k) => i < j
  /\ \A k \in Nat : ~KeptIn(rec, x, k)

InOrder(q, rec, x) ==
  /\ \A i, j, k, n \in Nat : EventAt(q, i, x, k) /\ EventAt(q, j, x, n) /\ i < j => k < n
  /\ \A i, k, n \in Nat : EventAt(q, i, x, k) /\ KeptIn(rec, x, n) => n < k

NoneMissing(q, rec, x, kept) ==
  \A i, k \in Nat : EventAt(q, i, x, k + 1) /\ k # 0 =>
    \/ \E j \in Nat : j < i /\ EventAt(q, j, x, k)
    \/ Passed(q, rec, x, k, kept)

SaidSoFar(q, rec, x, kept, told, connected) ==
  /\ \A i, k \in Nat : EventAt(q, i, x, k) => k <= told
  /\ \A k \in Nat : KeptIn(rec, x, k) => k <= told
  /\ connected /\ told # 0 =>
       \/ \E i \in Nat : EventAt(q, i, x, told)
       \/ Passed(q, rec, x, told, kept)

Line(q, rec, x, mine, kept) ==
  YesFirst(q, rec, x, mine) /\ InOrder(q, rec, x) /\ NoneMissing(q, rec, x, kept)

LEMMA TailShifts ==
  ASSUME NEW S, NEW q \in Seq(S), q # <<>>, NEW i \in Nat, NEW x
  PROVE  /\ AckAt(Tail(q), i, x) <=> i # 0 /\ AckAt(q, i + 1, x)
         /\ \A k : EventAt(Tail(q), i, x, k) <=> i # 0 /\ EventAt(q, i + 1, x, k)
  <1>1. Tail(q) \in Seq(S) /\ Len(Tail(q)) = Len(q) - 1 /\ Len(q) \in Nat /\ Len(q) # 0
    OBVIOUS
  <1>2. i \in DOMAIN Tail(q) <=> i # 0 /\ i + 1 \in DOMAIN q
    BY <1>1
  <1>3. i \in DOMAIN Tail(q) => Tail(q)[i] = q[i + 1]
    BY <1>1
  <1>4. QED
    BY <1>2, <1>3 DEF AckAt, EventAt

LEMMA AppendAdds ==
  ASSUME NEW S, NEW q \in Seq(S), NEW f \in S, NEW i \in Nat, NEW x
  PROVE  /\ AckAt(Append(q, f), i, x) <=>
              AckAt(q, i, x) \/ (i = Len(q) + 1 /\ f.type = "ack" /\ f.body.who = x)
         /\ \A k : EventAt(Append(q, f), i, x, k) <=>
              \/ EventAt(q, i, x, k)
              \/ i = Len(q) + 1 /\ f.type = "event" /\ f.body = [who |-> x, nth |-> k]
  <1>1. Len(q) \in Nat /\ DOMAIN q = 1..Len(q) /\ DOMAIN Append(q, f) = 1..(Len(q) + 1)
    OBVIOUS
  <1>2. /\ \A j \in DOMAIN q : Append(q, f)[j] = q[j]
        /\ Append(q, f)[Len(q) + 1] = f
    OBVIOUS
  <1>3. i \in DOMAIN Append(q, f) <=> i \in DOMAIN q \/ i = Len(q) + 1
    BY <1>1
  <1>4. ~(Len(q) + 1 \in DOMAIN q)
    BY <1>1
  <1>5. QED
    BY <1>2, <1>3, <1>4 DEF AckAt, EventAt

\* Positions are within the queue.
LEMMA Positions ==
  ASSUME NEW S, NEW q \in Seq(S), NEW i \in Nat, NEW x
  PROVE  /\ AckAt(q, i, x) => i # 0 /\ i <= Len(q)
         /\ \A k : EventAt(q, i, x, k) => i # 0 /\ i <= Len(q)
  BY DEF AckAt, EventAt

LEMMA KeptAppend ==
  ASSUME NEW rec \in Seq(Entry), NEW e \in Entry, NEW x, NEW k
  PROVE  KeptIn(Append(rec, e), x, k) <=> KeptIn(rec, x, k) \/ e = [who |-> x, nth |-> k]
  <1>1. Len(rec) \in Nat /\ DOMAIN rec = 1..Len(rec) /\ DOMAIN Append(rec, e) = 1..(Len(rec) + 1)
    OBVIOUS
  <1>2. /\ \A j \in DOMAIN rec : Append(rec, e)[j] = rec[j]
        /\ Append(rec, e)[Len(rec) + 1] = e
    OBVIOUS
  <1>3. Len(rec) + 1 \in DOMAIN Append(rec, e) /\ DOMAIN rec \subseteq DOMAIN Append(rec, e)
    BY <1>1
  <1>4. \A j \in DOMAIN Append(rec, e) : j \in DOMAIN rec \/ j = Len(rec) + 1
    BY <1>1
  <1>5. QED
    BY <1>2, <1>3, <1>4 DEF KeptIn

(* What a step of the system does to a line. *)

\* Less is claimed of an execution that lost its run or its connection.
LEMMA LineLess ==
  ASSUME NEW q, NEW rec, NEW x, NEW told,
         NEW mine \in BOOLEAN, NEW kept \in BOOLEAN, NEW connected \in BOOLEAN,
         NEW mine2 \in BOOLEAN, NEW kept2 \in BOOLEAN, NEW connected2 \in BOOLEAN,
         mine2 => mine, kept2 => kept, connected2 => connected
  PROVE  /\ Line(q, rec, x, mine, kept) => Line(q, rec, x, mine2, kept2)
         /\ SaidSoFar(q, rec, x, kept, told, connected) => SaidSoFar(q, rec, x, kept2, told, connected2)
  <1>1. \A k : Passed(q, rec, x, k, kept) => Passed(q, rec, x, k, kept2)
    BY DEF Passed
  <1>2. YesFirst(q, rec, x, mine) => YesFirst(q, rec, x, mine2)
    BY DEF YesFirst
  <1>3. NoneMissing(q, rec, x, kept) => NoneMissing(q, rec, x, kept2)
    BY <1>1 DEF NoneMissing
  <1>4. SaidSoFar(q, rec, x, kept, told, connected) => SaidSoFar(q, rec, x, kept2, told, connected2)
    BY <1>1 DEF SaidSoFar
  <1>5. QED
    BY <1>2, <1>3, <1>4 DEF Line

\* The connection is gone, and what was on the way with it.
LEMMA LineEmptied ==
  ASSUME NEW q, NEW rec, NEW x, NEW told, NEW mine, NEW kept, NEW connected, NEW kept2
  PROVE  /\ Line(<<>>, rec, x, mine, kept)
         /\ SaidSoFar(q, rec, x, kept, told, connected) => SaidSoFar(<<>>, rec, x, kept2, told, FALSE)
  <1>1. \A i : i \notin DOMAIN <<>>
    OBVIOUS
  <1>2. \A i, k : ~AckAt(<<>>, i, x) /\ ~EventAt(<<>>, i, x, k)
    BY <1>1 DEF AckAt, EventAt
  <1>3. Line(<<>>, rec, x, mine, kept)
    BY <1>2 DEF Line, YesFirst, InOrder, NoneMissing
  <1>4. SaidSoFar(q, rec, x, kept, told, connected) => SaidSoFar(<<>>, rec, x, kept2, told, FALSE)
    BY <1>2 DEF SaidSoFar
  <1>5. QED
    BY <1>3, <1>4

\* A record that gained another's event.
LEMMA LineBeside ==
  ASSUME NEW q, NEW rec, NEW rec2, NEW x, NEW told, NEW mine, NEW kept, NEW connected,
         \A k \in Nat : KeptIn(rec2, x, k) <=> KeptIn(rec, x, k), told \in Nat
  PROVE  /\ Line(q, rec, x, mine, kept) => Line(q, rec2, x, mine, kept)
         /\ SaidSoFar(q, rec, x, kept, told, connected) => SaidSoFar(q, rec2, x, kept, told, connected)
  <1>1. \A k \in Nat : Passed(q, rec, x, k, kept) => Passed(q, rec2, x, k, kept)
    BY DEF Passed
  <1>2. YesFirst(q, rec, x, mine) => YesFirst(q, rec2, x, mine)
    BY DEF YesFirst
  <1>3. InOrder(q, rec, x) => InOrder(q, rec2, x)
    BY DEF InOrder
  <1>4. NoneMissing(q, rec, x, kept) => NoneMissing(q, rec2, x, kept)
    BY <1>1 DEF NoneMissing
  <1>5. SaidSoFar(q, rec, x, kept, told, connected) => SaidSoFar(q, rec2, x, kept, told, connected)
    BY <1>1 DEF SaidSoFar
  <1>6. QED
    BY <1>2, <1>3, <1>4, <1>5 DEF Line

Foreign(f, x) == f.type \in {"ack", "event"} => f.body.who # x

\* A frame of no concern to it is read.
LEMMA LineReadsOther ==
  ASSUME NEW S, NEW q \in Seq(S), q # <<>>, NEW rec, NEW x, NEW told \in Nat, NEW mine, NEW kept,
         NEW connected, Foreign(q[1], x)
  PROVE  /\ Line(q, rec, x, mine, kept) => Line(Tail(q), rec, x, mine, kept)
         /\ SaidSoFar(q, rec, x, kept, told, connected)
              => SaidSoFar(Tail(q), rec, x, kept, told, connected)
  <1>1. \A k : ~AckAt(q, 1, x) /\ ~EventAt(q, 1, x, k)
    BY DEF Foreign, AckAt, EventAt
  <1>2. \A i \in Nat : AckAt(Tail(q), i, x) <=> i # 0 /\ AckAt(q, i + 1, x)
    BY TailShifts
  <1>3. \A i \in Nat : \A k : EventAt(Tail(q), i, x, k) <=> i # 0 /\ EventAt(q, i + 1, x, k)
    BY TailShifts
  <1>4. \A i \in Nat : AckAt(q, i, x) => i # 0 /\ i # 1 /\ i - 1 \in Nat /\ AckAt(Tail(q), i - 1, x)
    <2>1. \A i \in Nat : AckAt(q, i, x) => i # 0 /\ i # 1 /\ i - 1 \in Nat
      BY <1>1, Positions
    <2>2. QED
      BY <2>1, <1>2
  <1>5. \A i \in Nat : \A k : EventAt(q, i, x, k) =>
          i # 0 /\ i # 1 /\ i - 1 \in Nat /\ EventAt(Tail(q), i - 1, x, k)
    <2> SUFFICES ASSUME NEW i \in Nat, NEW k, EventAt(q, i, x, k)
                 PROVE  i # 0 /\ i # 1 /\ i - 1 \in Nat /\ EventAt(Tail(q), i - 1, x, k)
      OBVIOUS
    <2>1. i # 0 /\ i # 1
      BY <1>1, Positions
    <2>2. i - 1 \in Nat /\ i - 1 # 0 /\ (i - 1) + 1 = i
      BY <2>1
    <2>3. QED
      BY <2>1, <2>2, <1>3
  <1>6. \A k : Passed(q, rec, x, k, kept) => Passed(Tail(q), rec, x, k, kept)
    BY <1>2 DEF Passed
  <1>7. YesFirst(q, rec, x, mine) => YesFirst(Tail(q), rec, x, mine)
    BY <1>2, <1>3 DEF YesFirst
  <1>8. InOrder(q, rec, x) => InOrder(Tail(q), rec, x)
    BY <1>3 DEF InOrder
  <1>9. NoneMissing(q, rec, x, kept) => NoneMissing(Tail(q), rec, x, kept)
    <2> SUFFICES ASSUME NoneMissing(q, rec, x, kept), NEW i \in Nat, NEW k \in Nat,
                        EventAt(Tail(q), i, x, k + 1), k # 0
                 PROVE  \/ \E j \in Nat : j < i /\ EventAt(Tail(q), j, x, k)
                        \/ Passed(Tail(q), rec, x, k, kept)
      BY DEF NoneMissing
    <2>1. EventAt(q, i + 1, x, k + 1)
      BY <1>3
    <2>2. CASE \E j \in Nat : j < i + 1 /\ EventAt(q, j, x, k)
      <3>1. PICK j \in Nat : j < i + 1 /\ EventAt(q, j, x, k)
        BY <2>2
      <3>2. j - 1 \in Nat /\ j - 1 < i /\ EventAt(Tail(q), j - 1, x, k)
        BY <3>1, <1>5
      <3>3. QED
        BY <3>2
    <2>3. CASE Passed(q, rec, x, k, kept)
      BY <2>3, <1>6
    <2>4. QED
      BY <2>1, <2>2, <2>3 DEF NoneMissing
  <1>10. SaidSoFar(q, rec, x, kept, told, connected)
           => SaidSoFar(Tail(q), rec, x, kept, told, connected)
    BY <1>3, <1>5, <1>6 DEF SaidSoFar
  <1>11. QED
    BY <1>7, <1>8, <1>9, <1>10 DEF Line

\* A frame of no concern to it is written behind.
LEMMA LineWritesOther ==
  ASSUME NEW S, NEW q \in Seq(S), NEW f \in S, NEW rec, NEW x, NEW told \in Nat, NEW mine, NEW kept,
         NEW connected, Foreign(f, x)
  PROVE  /\ Line(q, rec, x, mine, kept) => Line(Append(q, f), rec, x, mine, kept)
         /\ SaidSoFar(q, rec, x, kept, told, connected)
              => SaidSoFar(Append(q, f), rec, x, kept, told, connected)
  <1>1. /\ ~(f.type = "ack" /\ f.body.who = x)
        /\ \A k : ~(f.type = "event" /\ f.body = [who |-> x, nth |-> k])
    BY DEF Foreign
  <1>2. \A i \in Nat : AckAt(Append(q, f), i, x) <=> AckAt(q, i, x)
    BY <1>1, AppendAdds
  <1>3. \A i \in Nat : \A k : EventAt(Append(q, f), i, x, k) <=> EventAt(q, i, x, k)
    BY <1>1, AppendAdds
  <1>4. \A k : Passed(q, rec, x, k, kept) => Passed(Append(q, f), rec, x, k, kept)
    BY <1>2 DEF Passed
  <1>5. YesFirst(q, rec, x, mine) => YesFirst(Append(q, f), rec, x, mine)
    BY <1>2, <1>3 DEF YesFirst
  <1>6. InOrder(q, rec, x) => InOrder(Append(q, f), rec, x)
    BY <1>3 DEF InOrder
  <1>7. NoneMissing(q, rec, x, kept) => NoneMissing(Append(q, f), rec, x, kept)
    BY <1>3, <1>4 DEF NoneMissing
  <1>8. SaidSoFar(q, rec, x, kept, told, connected)
          => SaidSoFar(Append(q, f), rec, x, kept, told, connected)
    BY <1>3, <1>4 DEF SaidSoFar
  <1>9. QED
    BY <1>5, <1>6, <1>7, <1>8 DEF Line

\* Its yes is read: from here on the events behind it count, if core gave it
\* the run.
LEMMA LineReadsYes ==
  ASSUME NEW S, NEW q \in Seq(S), q # <<>>, NEW rec, NEW x, NEW told \in Nat, NEW mine, NEW kept,
         NEW connected, NEW mine2, NEW kept2, AckAt(q, 1, x), Line(q, rec, x, mine, kept)
  PROVE  /\ Line(Tail(q), rec, x, mine2, kept2)
         /\ SaidSoFar(q, rec, x, kept, told, connected)
              => SaidSoFar(Tail(q), rec, x, kept2, told, connected)
  <1>1. /\ \A j \in Nat : AckAt(q, j, x) => j = 1
        /\ \A k \in Nat : ~KeptIn(rec, x, k)
        /\ \A j, k \in Nat : EventAt(q, j, x, k) => 1 < j
    BY DEF Line, YesFirst
  <1>2. \A i \in Nat : ~AckAt(Tail(q), i, x)
    <2>1. \A i \in Nat : i # 0 => i + 1 # 1 /\ i + 1 \in Nat
      OBVIOUS
    <2>2. QED
      BY <1>1, <2>1, TailShifts
  <1>3. \A i \in Nat : \A k : EventAt(Tail(q), i, x, k) <=> i # 0 /\ EventAt(q, i + 1, x, k)
    BY TailShifts
  <1>4. \A i, k \in Nat : EventAt(q, i, x, k) => i - 1 \in Nat /\ EventAt(Tail(q), i - 1, x, k)
    <2> SUFFICES ASSUME NEW i \in Nat, NEW k \in Nat, EventAt(q, i, x, k)
                 PROVE  i - 1 \in Nat /\ EventAt(Tail(q), i - 1, x, k)
      OBVIOUS
    <2>1. i - 1 \in Nat /\ i - 1 # 0 /\ (i - 1) + 1 = i
      BY <1>1
    <2>2. QED
      BY <2>1, <1>3
  <1>5. \A k : ~Passed(q, rec, x, k, kept)
    BY DEF Passed
  <1>6. YesFirst(Tail(q), rec, x, mine2)
    BY <1>2 DEF YesFirst
  <1>7. InOrder(Tail(q), rec, x)
    BY <1>3 DEF InOrder, Line
  <1>8. NoneMissing(Tail(q), rec, x, kept2)
    <2> SUFFICES ASSUME NEW i \in Nat, NEW k \in Nat, EventAt(Tail(q), i, x, k + 1), k # 0
                 PROVE  \E j \in Nat : j < i /\ EventAt(Tail(q), j, x, k)
      BY DEF NoneMissing
    <2>1. EventAt(q, i + 1, x, k + 1) /\ i + 1 \in Nat
      BY <1>3
    <2>2. PICK j \in Nat : j < i + 1 /\ EventAt(q, j, x, k)
      BY <2>1, <1>5 DEF Line, NoneMissing
    <2>3. j - 1 \in Nat /\ j - 1 < i /\ EventAt(Tail(q), j - 1, x, k)
      BY <2>2, <1>4
    <2>4. QED
      BY <2>3
  <1>9. SaidSoFar(q, rec, x, kept, told, connected)
          => SaidSoFar(Tail(q), rec, x, kept2, told, connected)
    BY <1>3, <1>4, <1>5 DEF SaidSoFar
  <1>10. QED
    BY <1>6, <1>7, <1>8, <1>9 DEF Line

\* The next of its events is read, and kept if core holds its run.
LEMMA LineReadsEvent ==
  ASSUME NEW S, NEW q \in Seq(S), q # <<>>, NEW rec, NEW rec2, NEW x, NEW told \in Nat, NEW mine,
         NEW kept, NEW connected, NEW n \in Nat, EventAt(q, 1, x, n), Line(q, rec, x, mine, kept),
         \A k \in Nat : KeptIn(rec, x, k) => KeptIn(rec2, x, k),
         \A k \in Nat : KeptIn(rec2, x, k) => KeptIn(rec, x, k) \/ k = n,
         kept => KeptIn(rec2, x, n)
  PROVE  /\ Line(Tail(q), rec2, x, mine, kept)
         /\ SaidSoFar(q, rec, x, kept, told, connected)
              => SaidSoFar(Tail(q), rec2, x, kept, told, connected)
  <1>1. \A i \in Nat : ~AckAt(q, i, x)
    <2> SUFFICES ASSUME NEW i \in Nat, AckAt(q, i, x) PROVE FALSE
      OBVIOUS
    <2>1. i < 1
      BY DEF Line, YesFirst
    <2>2. i # 0
      BY Positions
    <2>3. QED
      BY <2>1, <2>2
  <1>2. \A i \in Nat : ~AckAt(Tail(q), i, x)
    BY <1>1, TailShifts
  <1>3. \A i \in Nat : \A k : EventAt(Tail(q), i, x, k) <=> i # 0 /\ EventAt(q, i + 1, x, k)
    BY TailShifts
  <1>4. \A i, k \in Nat : EventAt(q, i, x, k)
          => k = n \/ (i - 1 \in Nat /\ EventAt(Tail(q), i - 1, x, k))
    <2> SUFFICES ASSUME NEW i \in Nat, NEW k \in Nat, EventAt(q, i, x, k), k # n
                 PROVE  i - 1 \in Nat /\ EventAt(Tail(q), i - 1, x, k)
      OBVIOUS
    <2>1. i # 1
      BY DEF EventAt
    <2>2. i # 0
      BY Positions
    <2>3. i - 1 \in Nat /\ i - 1 # 0 /\ (i - 1) + 1 = i
      BY <2>1, <2>2
    <2>4. QED
      BY <2>3, <1>3
  <1>5. Passed(Tail(q), rec2, x, n, kept)
    BY <1>2 DEF Passed
  <1>6. \A k \in Nat : Passed(q, rec, x, k, kept) => Passed(Tail(q), rec2, x, k, kept)
    BY <1>2 DEF Passed
  <1>7. YesFirst(Tail(q), rec2, x, mine)
    BY <1>2 DEF YesFirst
  <1>8. InOrder(Tail(q), rec2, x)
    <2>1. \A i, k \in Nat : EventAt(Tail(q), i, x, k) => n < k
      <3> SUFFICES ASSUME NEW i \in Nat, NEW k \in Nat, EventAt(Tail(q), i, x, k) PROVE n < k
        OBVIOUS
      <3>1. i + 1 \in Nat /\ 1 < i + 1 /\ EventAt(q, i + 1, x, k)
        BY <1>3
      <3>2. QED
        BY <3>1 DEF Line, InOrder
    <2>2. \A i, j, k, m \in Nat : EventAt(Tail(q), i, x, k) /\ EventAt(Tail(q), j, x, m) /\ i < j => k < m
      BY <1>3 DEF Line, InOrder
    <2>3. \A i, k, m \in Nat : EventAt(Tail(q), i, x, k) /\ KeptIn(rec2, x, m) => m < k
      BY <1>3, <2>1 DEF Line, InOrder
    <2>4. QED
      BY <2>2, <2>3 DEF InOrder
  <1>9. NoneMissing(Tail(q), rec2, x, kept)
    <2> SUFFICES ASSUME NEW i \in Nat, NEW k \in Nat, EventAt(Tail(q), i, x, k + 1), k # 0
                 PROVE  \/ \E j \in Nat : j < i /\ EventAt(Tail(q), j, x, k)
                        \/ Passed(Tail(q), rec2, x, k, kept)
      BY DEF NoneMissing
    <2>1. EventAt(q, i + 1, x, k + 1) /\ i + 1 \in Nat
      BY <1>3
    <2>2. CASE \E j \in Nat : j < i + 1 /\ EventAt(q, j, x, k)
      <3>1. PICK j \in Nat : j < i + 1 /\ EventAt(q, j, x, k)
        BY <2>2
      <3>2. k = n \/ (j - 1 \in Nat /\ j - 1 < i /\ EventAt(Tail(q), j - 1, x, k))
        BY <3>1, <1>4
      <3>3. QED
        BY <3>2, <1>5
    <2>3. CASE Passed(q, rec, x, k, kept)
      BY <2>3, <1>6
    <2>4. QED
      BY <2>1, <2>2, <2>3 DEF Line, NoneMissing
  <1>10. ASSUME SaidSoFar(q, rec, x, kept, told, connected)
         PROVE  SaidSoFar(Tail(q), rec2, x, kept, told, connected)
    <2>1. n <= told
      BY <1>10 DEF SaidSoFar
    <2>2. \A i, k \in Nat : EventAt(Tail(q), i, x, k) => k <= told
      BY <1>3, <1>10 DEF SaidSoFar
    <2>3. \A k \in Nat : KeptIn(rec2, x, k) => k <= told
      BY <2>1, <1>10 DEF SaidSoFar
    <2>4. ASSUME connected, told # 0
          PROVE  (\E i \in Nat : EventAt(Tail(q), i, x, told)) \/ Passed(Tail(q), rec2, x, told, kept)
      BY <1>4, <1>5, <1>6, <1>10, <2>4 DEF SaidSoFar
    <2>5. QED
      BY <2>2, <2>3, <2>4 DEF SaidSoFar
  <1>11. QED
    BY <1>7, <1>8, <1>9, <1>10 DEF Line

\* What the record then gains is the one that was due.
LEMMA NextInLine ==
  ASSUME NEW S, NEW q \in Seq(S), NEW rec, NEW x, NEW mine, NEW n \in Nat \ {0},
         EventAt(q, 1, x, n), Line(q, rec, x, mine, TRUE)
  PROVE  /\ n = 1 \/ KeptIn(rec, x, n - 1)
         /\ \A k \in Nat : KeptIn(rec, x, k) => k < n
  <1>1. ASSUME n # 1 PROVE KeptIn(rec, x, n - 1)
    <2>1. n - 1 \in Nat /\ n - 1 # 0 /\ (n - 1) + 1 = n
      BY <1>1
    <2>2. ~\E j \in Nat : j < 1 /\ EventAt(q, j, x, n - 1)
      BY Positions
    <2>3. Passed(q, rec, x, n - 1, TRUE)
      BY <2>1, <2>2 DEF Line, NoneMissing
    <2>4. QED
      BY <2>3 DEF Passed
  <1>2. QED
    BY <1>1 DEF Line, InOrder

\* It says one more.
LEMMA LineEmits ==
  ASSUME NEW S, NEW q \in Seq(S), NEW f \in S, NEW rec, NEW x, NEW told \in Nat, NEW mine, NEW kept,
         f.type = "event", f.body = [who |-> x, nth |-> told + 1],
         Line(q, rec, x, mine, kept), SaidSoFar(q, rec, x, kept, told, TRUE)
  PROVE  /\ Line(Append(q, f), rec, x, mine, kept)
         /\ SaidSoFar(Append(q, f), rec, x, kept, told + 1, TRUE)
  <1>1. \A i \in Nat : AckAt(Append(q, f), i, x) <=> AckAt(q, i, x)
    BY AppendAdds
  <1>2. \A i, k \in Nat : EventAt(Append(q, f), i, x, k) <=>
          EventAt(q, i, x, k) \/ (i = Len(q) + 1 /\ k = told + 1)
    <2>1. \A k \in Nat : f.body = [who |-> x, nth |-> k] <=> k = told + 1
      <3>1. \A k \in Nat : [who |-> x, nth |-> k].nth = k
        OBVIOUS
      <3>2. f.body.nth = told + 1
        OBVIOUS
      <3>3. QED
        BY <3>1, <3>2
    <2>2. \A i \in Nat : \A k : EventAt(Append(q, f), i, x, k) <=>
            \/ EventAt(q, i, x, k)
            \/ i = Len(q) + 1 /\ f.type = "event" /\ f.body = [who |-> x, nth |-> k]
      BY AppendAdds
    <2>3. QED
      BY <2>1, <2>2
  <1>3. Len(q) + 1 \in Nat /\ told + 1 \in Nat
    OBVIOUS
  <1>4. /\ \A i \in Nat : AckAt(q, i, x) => i < Len(q) + 1
        /\ \A i, k \in Nat : EventAt(q, i, x, k) => i < Len(q) + 1 /\ k < told + 1
    <2>1. \A i \in Nat : AckAt(q, i, x) => i <= Len(q)
      BY Positions
    <2>2. \A i, k \in Nat : EventAt(q, i, x, k) => i <= Len(q)
      BY Positions
    <2>3. \A i, k \in Nat : EventAt(q, i, x, k) => k <= told
      BY DEF SaidSoFar
    <2>4. Len(q) \in Nat
      OBVIOUS
    <2>5. \A i \in Nat : i <= Len(q) => i < Len(q) + 1
      BY <2>4
    <2>6. \A k \in Nat : k <= told => k < told + 1
      OBVIOUS
    <2>7. QED
      BY <2>1, <2>2, <2>3, <2>5, <2>6
  <1>5. \A k : Passed(q, rec, x, k, kept) => Passed(Append(q, f), rec, x, k, kept)
    BY <1>1 DEF Passed
  <1>6. YesFirst(Append(q, f), rec, x, mine)
    BY <1>1, <1>2, <1>4 DEF YesFirst, Line
  <1>7. InOrder(Append(q, f), rec, x)
    <2>1. \A i, j, k, m \in Nat :
            EventAt(Append(q, f), i, x, k) /\ EventAt(Append(q, f), j, x, m) /\ i < j => k < m
      BY <1>2, <1>4 DEF Line, InOrder
    <2>2. \A k \in Nat : KeptIn(rec, x, k) => k < told + 1
      BY DEF SaidSoFar
    <2>3. QED
      BY <1>2, <2>1, <2>2 DEF Line, InOrder
  <1>8. NoneMissing(Append(q, f), rec, x, kept)
    <2> SUFFICES ASSUME NEW i \in Nat, NEW k \in Nat, EventAt(Append(q, f), i, x, k + 1), k # 0
                 PROVE  \/ \E j \in Nat : j < i /\ EventAt(q, j, x, k)
                        \/ Passed(q, rec, x, k, kept)
      BY <1>2, <1>5 DEF NoneMissing
    <2>1. CASE EventAt(q, i, x, k + 1)
      BY <2>1 DEF Line, NoneMissing
    <2>2. CASE i = Len(q) + 1 /\ k = told
      BY <2>2, <1>4 DEF SaidSoFar
    <2>3. QED
      BY <1>2, <2>1, <2>2
  <1>9. SaidSoFar(Append(q, f), rec, x, kept, told + 1, TRUE)
    <2>1. EventAt(Append(q, f), Len(q) + 1, x, told + 1)
      BY <1>2, <1>3
    <2>2. \A i, k \in Nat : EventAt(Append(q, f), i, x, k) => k <= told + 1
      BY <1>2, <1>4
    <2>3. \A k \in Nat : KeptIn(rec, x, k) => k <= told + 1
      BY DEF SaidSoFar
    <2>4. QED
      BY <1>3, <2>1, <2>2, <2>3 DEF SaidSoFar
  <1>10. QED
    BY <1>6, <1>7, <1>8, <1>9 DEF Line

\* It begins, with its yes.
LEMMA LineBegins ==
  ASSUME NEW S, NEW q \in Seq(S), NEW f \in S, NEW rec, NEW x, NEW kept, NEW connected,
         f.type = "ack", \A i, k \in Nat : ~EventAt(q, i, x, k) /\ ~AckAt(q, i, x),
         \A k \in Nat : ~KeptIn(rec, x, k)
  PROVE  /\ Line(Append(q, f), rec, x, FALSE, kept)
         /\ SaidSoFar(Append(q, f), rec, x, kept, 0, connected)
  <1>1. \A i, k \in Nat : ~EventAt(Append(q, f), i, x, k)
    BY AppendAdds
  <1>2. \A i \in Nat : AckAt(Append(q, f), i, x) => i = Len(q) + 1
    BY AppendAdds
  <1>3. YesFirst(Append(q, f), rec, x, FALSE)
    BY <1>1, <1>2 DEF YesFirst
  <1>4. InOrder(Append(q, f), rec, x)
    BY <1>1 DEF InOrder
  <1>5. NoneMissing(Append(q, f), rec, x, kept)
    <2>1. \A k \in Nat : k + 1 \in Nat
      OBVIOUS
    <2>2. QED
      BY <1>1, <2>1 DEF NoneMissing
  <1>6. SaidSoFar(Append(q, f), rec, x, kept, 0, connected)
    BY <1>1 DEF SaidSoFar
  <1>7. QED
    BY <1>3, <1>4, <1>5, <1>6 DEF Line

-----------------------------------------------------------------------------
(* Every frame, every entry and every claim is of an execution that was    *)
(* started, about the run and by the connection it was started for.        *)
FrameOwned(f, c, started) == f.type \in {"ack", "event"} =>
  /\ started[f.body.who].stage # "free"
  /\ started[f.body.who].run = f.run
  /\ started[f.body.who].on = c
  /\ f.type = "ack" => f.body.verdict = "accepted"

Owned ==
  /\ \A c \in Connections : \A i \in DOMAIN up[c] : FrameOwned(up[c][i], c, exec)
  /\ \A r \in Runs : \A i \in DOMAIN record[r] :
       exec[record[r][i].who].stage # "free" /\ exec[record[r][i].who].run = r
  /\ \A r \in Runs : claim[r] # None => exec[claim[r]].stage # "free" /\ exec[claim[r]].run = r

LineOf(x) == exec[x].stage # "free" =>
  LET q == up[exec[x].on]
      rec == record[exec[x].run]
      mine == claim[exec[x].run] = x
      kept == claim[exec[x].run] = x /\ Held(exec[x].run)
  IN  /\ Line(q, rec, x, mine, kept)
      /\ Live(x) => SaidSoFar(q, rec, x, kept, exec[x].told, wire[exec[x].on] = "up")

Lines == \A x \in Executions : LineOf(x)

IsHeld(s) == s \in {"held", "cancelling"}

\* What a read does, apart from the answer on the wire.
LEMMA ReadFacts ==
  ASSUME TypeOK, NEW c \in Connections, Read(c)
  PROVE  /\ up[c] # <<>> /\ up[c] \in Seq(Frames) /\ 1 \in DOMAIN up[c] /\ up[c][1] \in Frames
         /\ up' = [up EXCEPT ![c] = Tail(@)]
         /\ UNCHANGED wire
         /\ \A r \in Runs :
              /\ record'[r] = IF up[c][1].type = "event" /\ up[c][1].run = r /\ Held(r)
                              THEN Append(record[r], up[c][1].body) ELSE record[r]
              /\ \/ claim'[r] = claim[r] /\ (IsHeld(status'[r]) => Held(r))
                 \/ /\ up[c][1].type = "ack" /\ up[c][1].run = r
                    /\ up[c][1].body.verdict = "accepted" => claim'[r] = up[c][1].body.who
  <1> DEFINE f == up[c][1]
  <1>1. up[c] # <<>> /\ up[c] \in Seq(Frames)
    BY DEF Read, Reading, TypeOK
  <1>2. 1 \in DOMAIN up[c] /\ f \in Frames /\ Head(up[c]) = f
    BY <1>1
  <1>3. up' = [up EXCEPT ![c] = Tail(@)] /\ UNCHANGED wire
    BY DEF Read, Handle
  <1>4. \/ f.type = "hello" /\ Attach(c)
        \/ f.type = "register" /\ Register(c)
        \/ f.type = "ack" /\ ReadAck(c, f)
        \/ f.type \in {"event", "finish"} /\ ReadReport(c, f)
    BY <1>2 DEF Read, Handle
  <1>5. f.type \in {"ack", "event", "finish"} => f.run \in Runs
    BY <1>2, FrameFacts
  <1> HIDE DEF f
  <1>6. ASSUME NEW r \in Runs
        PROVE  /\ record'[r] = IF f.type = "event" /\ f.run = r /\ Held(r)
                               THEN Append(record[r], f.body) ELSE record[r]
               /\ \/ claim'[r] = claim[r] /\ (IsHeld(status'[r]) => Held(r))
                  \/ /\ f.type = "ack" /\ f.run = r
                     /\ f.body.verdict = "accepted" => claim'[r] = f.body.who
    <2>1. CASE f.type = "hello" /\ Attach(c)
      BY <2>1 DEF Attach, LinkGone, IsHeld, Held
    <2>2. CASE f.type = "register" /\ Register(c)
      BY <2>2 DEF Register, runVars, IsHeld, Held
    <2>3. CASE f.type = "ack" /\ ReadAck(c, f)
      BY <2>3, <1>5 DEF ReadAck, AnswerOffer, runVars, IsHeld, Held, TypeOK
    <2>4. CASE f.type = "event" /\ ReadReport(c, f)
      BY <2>4, <1>5 DEF ReadReport, ReportEvent, IsHeld, Held, TypeOK
    <2>5. CASE f.type = "finish" /\ ReadReport(c, f)
      BY <2>5, <1>5 DEF ReadReport, FinishRun, AfterFinish, IsHeld, Held, TypeOK
    <2>6. QED
      BY <1>4, <2>1, <2>2, <2>3, <2>4, <2>5
  <1>7. QED
    BY <1>1, <1>2, <1>3, <1>6 DEF f

\* The steps that touch no frame on its way up and no record.
LEMMA RunSteps ==
  ASSUME TypeOK, NEW r \in Runs, StartRun(r) \/ Offer(r) \/ TakeBack(r) \/ CancelRun(r)
  PROVE  /\ UNCHANGED <<wire, up, claim, record>>
         /\ \A s \in Runs : IsHeld(status'[s]) => Held(s)
  BY DEF StartRun, Offer, TakeBack, CancelRun, IsHeld, Held, TypeOK

LEMMA EndSteps ==
  ASSUME TypeOK, NEW c \in Connections, RefuseHello(c) \/ Disconnect(c)
  PROVE  /\ UNCHANGED <<claim, record>> /\ up' = [up EXCEPT ![c] = <<>>] /\ wire'[c] # "up"
         /\ \A d \in Connections : wire'[d] = "up" => wire[d] = "up"
         /\ \A s \in Runs : IsHeld(status'[s]) => Held(s)
  BY DEF RefuseHello, Disconnect, LinkGone, runVars, IsHeld, Held, TypeOK

\* What an execution is for stays, once it was started.
Started(x) == exec[x].stage # "free" =>
  exec'[x].stage # "free" /\ exec'[x].run = exec[x].run /\ exec'[x].on = exec[x].on

LEMMA ExecStays ==
  ASSUME TypeOK, Links, [Next]_vars, NEW x \in Executions
  PROVE  Started(x)
  <1>0. exec \in [Executions -> Executed]
    BY ExecTypes
  <1>1. CASE UNCHANGED exec
    BY <1>1 DEF Started
  <1>2. CASE Restart
    BY <1>2, ExecTypes DEF Restart, Started
  <1>3. ASSUME NEW y \in Executions, TakeRun(y) PROVE Started(x)
    BY <1>0, <1>3 DEF TakeRun, StartGoroutine, Started
  <1>4. ASSUME NEW y \in Executions, Answered(y) \/ Emit(y) \/ Finish(y) \/ WorksOn(y) PROVE Started(x)
    <2>0. exec[y] \in Executed
      BY <1>0
    <2>1. CASE Answered(y)
      <3>1. exec' = [exec EXCEPT ![y] = [exec[y] EXCEPT !.stage = "telling"]]
        BY <2>1, ExecChanges
      <3>2. [exec[y] EXCEPT !.stage = "telling"].run = exec[y].run
            /\ [exec[y] EXCEPT !.stage = "telling"].on = exec[y].on
            /\ [exec[y] EXCEPT !.stage = "telling"].stage = "telling"
        BY <2>0 DEF Executed
      <3>3. QED
        BY <1>0, <3>1, <3>2 DEF Started
    <2>2. CASE Emit(y)
      <3>1. exec' = [exec EXCEPT ![y] = [exec[y] EXCEPT !.told = exec[y].told + 1]]
        BY <2>2, ExecChanges
      <3>2. [exec[y] EXCEPT !.told = exec[y].told + 1].run = exec[y].run
            /\ [exec[y] EXCEPT !.told = exec[y].told + 1].on = exec[y].on
            /\ [exec[y] EXCEPT !.told = exec[y].told + 1].stage = exec[y].stage
        BY <2>0 DEF Executed
      <3>3. QED
        BY <1>0, <3>1, <3>2 DEF Started
    <2>3. CASE Finish(y) \/ WorksOn(y)
      BY <1>0, <2>3, ExecTypes, ExecChanges DEF Started
    <2>4. QED
      BY <1>4, <2>1, <2>2, <2>3
  <1>5. CASE TakeCancel
    BY <1>0, <1>5 DEF TakeCancel, Cancelled, Started, Executed
  <1>6. CASE ~(Restart \/ TakeCancel \/ \E y \in Executions :
                 TakeRun(y) \/ Answered(y) \/ Emit(y) \/ Finish(y) \/ WorksOn(y))
    <2>1. UNCHANGED exec
      BY <1>6 DEF Next, vars, probeVars, Dial, WireBreaks, CannotDial, Welcomed, Registered,
                  ConnectionEnds, Wait, TakeError
    <2>2. QED
      BY <1>1, <2>1
  <1>7. QED
    BY <1>2, <1>3, <1>4, <1>5, <1>6

\* A step that leaves an execution's line alone, or only takes from it.
LineStays(x) ==
  LET c == exec[x].on
      r == exec[x].run
  IN  /\ exec'[x].on = c /\ exec'[x].run = r
      /\ exec'[x].stage \in {"answering", "telling"} => Live(x) /\ exec'[x].told = exec[x].told
      /\ wire'[c] = "up" => wire[c] = "up"
      /\ claim'[r] = x => claim[r] = x
      /\ claim'[r] = x /\ IsHeld(status'[r]) => Held(r)
      /\ \A k \in Nat : KeptIn(record'[r], x, k) <=> KeptIn(record[r], x, k)
      /\ \/ up'[c] = up[c]
         \/ up[c] # <<>> /\ up'[c] = Tail(up[c]) /\ Foreign(up[c][1], x)
         \/ \E f \in Frames : up'[c] = Append(up[c], f) /\ Foreign(f, x)
         \/ up'[c] = <<>> /\ wire'[c] # "up"

LEMMA LineLater ==
  ASSUME TypeOK, Links, NEW x \in Executions, exec[x].stage # "free", LineOf(x), LineStays(x)
  PROVE  LineOf(x)'
  <1> DEFINE c == exec[x].on
             r == exec[x].run
             told == exec[x].told
             mine == claim[r] = x
             kept == claim[r] = x /\ Held(r)
             mine2 == claim'[r] = x
             kept2 == claim'[r] = x /\ IsHeld(status'[r])
             w == wire[c] = "up"
             w2 == wire'[c] = "up"
  <1>1. c \in Connections /\ r \in Runs /\ told \in Nat /\ up[c] \in Seq(Frames)
    <2>1. exec[x] \in Executed
      BY ExecTypes
    <2>2. told \in Nat
      BY <2>1, StoryLength DEF Executed
    <2>3. c \in Connections /\ r \in Runs
      BY DEF Links
    <2>4. QED
      BY <2>2, <2>3 DEF TypeOK
  <1>2. /\ mine \in BOOLEAN /\ kept \in BOOLEAN /\ mine2 \in BOOLEAN /\ kept2 \in BOOLEAN
        /\ w \in BOOLEAN /\ w2 \in BOOLEAN
    OBVIOUS
  <1>3. (mine2 => mine) /\ (kept2 => kept) /\ (w2 => w)
    BY DEF LineStays
  <1>4. /\ Line(up[c], record[r], x, mine, kept)
        /\ Live(x) => SaidSoFar(up[c], record[r], x, kept, told, w)
    BY DEF LineOf
  <1>5. /\ Line(up[c], record'[r], x, mine, kept)
        /\ Live(x) => SaidSoFar(up[c], record'[r], x, kept, told, w)
    <2>1. \A k \in Nat : KeptIn(record'[r], x, k) <=> KeptIn(record[r], x, k)
      BY DEF LineStays
    <2> HIDE DEF c, r, told, mine, kept, w
    <2>2. QED
      BY <1>1, <1>4, <2>1, LineBeside
  <1>6. /\ Line(up[c], record'[r], x, mine2, kept2)
        /\ Live(x) => SaidSoFar(up[c], record'[r], x, kept2, told, w2)
    <2> HIDE DEF c, r, told, mine, kept, w, mine2, kept2, w2
    <2>1. QED
      BY <1>2, <1>3, <1>5, LineLess
  <1>7. /\ Line(up'[c], record'[r], x, mine2, kept2)
        /\ Live(x) => SaidSoFar(up'[c], record'[r], x, kept2, told, w2)
    <2>1. \/ up'[c] = up[c]
          \/ up[c] # <<>> /\ up'[c] = Tail(up[c]) /\ Foreign(up[c][1], x)
          \/ \E f \in Frames : up'[c] = Append(up[c], f) /\ Foreign(f, x)
          \/ up'[c] = <<>> /\ w2 = FALSE
      BY DEF LineStays
    <2> HIDE DEF c, r, told, mine2, kept2, w2
    <2>2. CASE up'[c] = up[c]
      BY <2>2, <1>6
    <2>3. CASE up[c] # <<>> /\ up'[c] = Tail(up[c]) /\ Foreign(up[c][1], x)
      BY <2>3, <1>1, <1>6, LineReadsOther
    <2>4. ASSUME NEW f \in Frames, up'[c] = Append(up[c], f), Foreign(f, x)
          PROVE  /\ Line(up'[c], record'[r], x, mine2, kept2)
                 /\ Live(x) => SaidSoFar(up'[c], record'[r], x, kept2, told, w2)
      BY <2>4, <1>1, <1>6, LineWritesOther
    <2>5. CASE up'[c] = <<>> /\ w2 = FALSE
      BY <2>5, <1>6, LineEmptied
    <2>6. QED
      BY <2>1, <2>2, <2>3, <2>4, <2>5
  <1>8. exec'[x].on = c /\ exec'[x].run = r
        /\ (exec'[x].stage \in {"answering", "telling"} => Live(x) /\ exec'[x].told = told)
    BY DEF LineStays
  <1>9. QED
    BY <1>7, <1>8 DEF LineOf, Live, Held, IsHeld

-----------------------------------------------------------------------------
\* The queue towards the gateway, one step on.
LEMMA OwnedNext == TypeOK /\ Links /\ Owned /\ [Next]_vars => Owned'
  <1> SUFFICES ASSUME TypeOK, Links, Owned, [Next]_vars PROVE Owned'
    OBVIOUS
  <1>1. \A x \in Executions : Started(x)
    BY ExecStays
  <1>2. ASSUME NEW f \in Frames, NEW c, FrameOwned(f, c, exec) PROVE FrameOwned(f, c, exec')
    <2>1. f.type \in {"ack", "event"} => f.body.who \in Executions
      BY FrameFacts DEF Verdict, Entry
    <2>2. QED
      BY <1>1, <1>2, <2>1 DEF FrameOwned, Started
  <1>3. /\ \A r \in Runs : \A i \in DOMAIN record[r] :
             exec'[record[r][i].who].stage # "free" /\ exec'[record[r][i].who].run = r
        /\ \A r \in Runs : claim[r] # None => exec'[claim[r]].stage # "free" /\ exec'[claim[r]].run = r
    <2>1. \A r \in Runs : \A i \in DOMAIN record[r] : record[r][i].who \in Executions
      <3>1. \A r \in Runs : record[r] \in Seq(Entry)
        BY DEF TypeOK
      <3>2. \A e \in Entry : e.who \in Executions
        BY DEF Entry
      <3>3. QED
        BY <3>1, <3>2
    <2>2. \A r \in Runs : claim[r] # None => claim[r] \in Executions
      BY DEF TypeOK
    <2>3. QED
      BY <1>1, <2>1, <2>2 DEF Owned, Started
  <1>4. ASSUME NEW c \in Connections,
               \/ up'[c] = up[c]
               \/ up[c] # <<>> /\ up'[c] = Tail(up[c])
               \/ \E f \in Frames : up'[c] = Append(up[c], f) /\ FrameOwned(f, c, exec')
               \/ up'[c] = <<>>
               \/ up'[c] = <<Note("hello")>>
        PROVE  \A i \in DOMAIN up'[c] : FrameOwned(up'[c][i], c, exec')
    <2>1. up[c] \in Seq(Frames) /\ \A i \in DOMAIN up[c] : FrameOwned(up[c][i], c, exec')
      BY <1>2 DEF TypeOK, Owned
    <2> SUFFICES ASSUME NEW i \in DOMAIN up'[c] PROVE FrameOwned(up'[c][i], c, exec')
      OBVIOUS
    <2>2. CASE up'[c] = up[c]
      BY <2>1, <2>2
    <2>3. CASE up[c] # <<>> /\ up'[c] = Tail(up[c])
      <3>1. i + 1 \in DOMAIN up[c] /\ up'[c][i] = up[c][i + 1]
        BY <2>1, <2>3
      <3>2. QED
        BY <2>1, <3>1
    <2>4. ASSUME NEW f \in Frames, up'[c] = Append(up[c], f), FrameOwned(f, c, exec')
          PROVE  FrameOwned(up'[c][i], c, exec')
      <3>1. \/ i \in DOMAIN up[c] /\ up'[c][i] = up[c][i]
            \/ up'[c][i] = f
        BY <2>1, <2>4
      <3>2. QED
        BY <2>1, <2>4, <3>1
    <2>5. CASE up'[c] = <<>>
      BY <2>5
    <2>6. CASE up'[c] = <<Note("hello")>>
      <3>1. up'[c][i].type = "hello"
        BY <2>6 DEF Note, Frame
      <3>2. QED
        BY <3>1 DEF FrameOwned
    <2>7. QED
      BY <1>4, <2>2, <2>3, <2>4, <2>5, <2>6
  <1>5. ASSUME UNCHANGED <<record, claim>>,
               \A c \in Connections :
               \/ up'[c] = up[c]
               \/ up[c] # <<>> /\ up'[c] = Tail(up[c])
               \/ \E f \in Frames : up'[c] = Append(up[c], f) /\ FrameOwned(f, c, exec')
               \/ up'[c] = <<>>
               \/ up'[c] = <<Note("hello")>>
        PROVE  Owned'
    BY <1>3, <1>4, <1>5 DEF Owned
  <1>6. ASSUME NEW c \in Connections, Read(c) PROVE Owned'
    <2> DEFINE f == up[c][1]
    <2>0. /\ up[c] # <<>> /\ up[c] \in Seq(Frames) /\ 1 \in DOMAIN up[c] /\ f \in Frames
          /\ up' = [up EXCEPT ![c] = Tail(@)]
      BY <1>6, ReadFacts
    <2>1. FrameOwned(f, c, exec')
      BY <1>2, <2>0 DEF Owned
    <2>2. \A r \in Runs : record'[r] = IF f.type = "event" /\ f.run = r /\ Held(r)
                                       THEN Append(record[r], f.body) ELSE record[r]
      BY <1>6, ReadFacts
    <2>3. \A r \in Runs : \/ claim'[r] = claim[r]
                          \/ /\ f.type = "ack" /\ f.run = r
                             /\ f.body.verdict = "accepted" => claim'[r] = f.body.who
      BY <1>6, ReadFacts
    <2>4. f.type = "event" => f.body \in Entry
      BY <2>0, FrameFacts
    <2>5. \A d \in Connections : \A i \in DOMAIN up'[d] : FrameOwned(up'[d][i], d, exec')
      BY <1>4, <2>0 DEF TypeOK
    <2> HIDE DEF f
    <2>6. ASSUME NEW r \in Runs, NEW i \in DOMAIN record'[r]
          PROVE  exec'[record'[r][i].who].stage # "free" /\ exec'[record'[r][i].who].run = r
      <3>1. CASE record'[r] = record[r]
        BY <1>3, <2>6, <3>1
      <3>2. CASE f.type = "event" /\ f.run = r /\ record'[r] = Append(record[r], f.body)
        <4>1. record[r] \in Seq(Entry) /\ f.body \in Entry
          BY <2>4, <3>2 DEF TypeOK
        <4>2. \/ i \in DOMAIN record[r] /\ record'[r][i] = record[r][i]
              \/ record'[r][i] = f.body
          BY <2>6, <3>2, <4>1
        <4>3. exec'[f.body.who].stage # "free" /\ exec'[f.body.who].run = r
          BY <2>1, <3>2 DEF FrameOwned
        <4>4. QED
          BY <1>3, <4>2, <4>3
      <3>3. QED
        BY <2>2, <3>1, <3>2
    <2>7. ASSUME NEW r \in Runs, claim'[r] # None
          PROVE  exec'[claim'[r]].stage # "free" /\ exec'[claim'[r]].run = r
      BY <1>3, <2>1, <2>3, <2>7 DEF FrameOwned
    <2>8. QED
      BY <2>5, <2>6, <2>7 DEF Owned
  <1>7. ASSUME NEW x \in Executions, TakeRun(x) PROVE Owned'
    <2> DEFINE f == Frame("ack", Head(down[link]).run, [verdict |-> "accepted", who |-> x])
    <2>1. f \in Frames
      <3>1. Head(down[link]).run \in Runs
        <4>1. link \in Connections /\ down[link] # <<>>
          BY <1>7 DEF TakeRun, Serving, Hears, Heard, Links, TypeOK
        <4>2. QED
          BY <1>7, <4>1, Popped, FrameFacts DEF TakeRun, Serving, Hears, TypeOK
      <3>2. QED
        BY <3>1, AcceptedIsAVerdict, FramesOf
    <2>2. up' = IF wire[link] = "up" THEN [up EXCEPT ![link] = Append(@, f)] ELSE up
      BY <1>7 DEF TakeRun, Send
    <2>3. exec'[x].stage = "answering" /\ exec'[x].run = Head(down[link]).run /\ exec'[x].on = link
      BY <1>7 DEF TakeRun, StartGoroutine, TypeOK, Idle
    <2>4. FrameOwned(f, link, exec')
      BY <2>3 DEF FrameOwned, Frame
    <2>5. UNCHANGED <<record, claim, link>>
      BY <1>7 DEF TakeRun, runVars
    <2>6. QED
      BY <1>5, <2>1, <2>2, <2>4, <2>5 DEF TypeOK
  <1>8. ASSUME NEW x \in Executions, Emit(x) PROVE Owned'
    <2> DEFINE f == Frame("event", exec[x].run, [who |-> x, nth |-> exec[x].told + 1])
    <2>1. f \in Frames
      BY <1>8, ExecEdits, FramesOf DEF Emit, Live, Links, Entry
    <2>2. up' = [up EXCEPT ![exec[x].on] = Append(@, f)]
      BY <1>8 DEF Emit, Say
    <2>3. exec[x].stage # "free"
      BY <1>8 DEF Emit, Live
    <2>4. FrameOwned(f, exec[x].on, exec')
      BY <1>1, <2>3 DEF FrameOwned, Frame, Started
    <2>5. UNCHANGED <<record, claim>>
      BY <1>8 DEF Emit, runVars
    <2>6. QED
      BY <1>5, <2>1, <2>2, <2>4, <2>5 DEF TypeOK
  <1>9. ASSUME NEW x \in Executions, Finish(x) PROVE Owned'
    <2> DEFINE f == Frame("finish", exec[x].run, None)
    <2>1. f \in Frames
      BY <1>9, FramesOf DEF Finish, Links
    <2>2. up' = [up EXCEPT ![exec[x].on] = Append(@, f)]
      BY <1>9 DEF Finish, Say
    <2>3. FrameOwned(f, exec[x].on, exec')
      BY DEF FrameOwned, Frame
    <2>4. UNCHANGED <<record, claim>>
      BY <1>9 DEF Finish, runVars
    <2>5. QED
      BY <1>5, <2>1, <2>2, <2>3, <2>4 DEF TypeOK
  <1>10. ASSUME NEW c \in Connections, Dial(c) PROVE Owned'
    BY <1>5, <1>10 DEF Dial, runVars, TypeOK
  <1>11. CASE Welcomed
    <2> DEFINE f == Note("register")
    <2>1. f \in Frames
      BY FramesOf
    <2>2. up' = IF wire[link] = "up" THEN [up EXCEPT ![link] = Append(@, f)] ELSE up
      BY <1>11 DEF Welcomed, Send
    <2>3. FrameOwned(f, link, exec')
      BY DEF FrameOwned, Note, Frame
    <2>4. UNCHANGED <<record, claim, link>>
      BY <1>11 DEF Welcomed, runVars
    <2>5. QED
      BY <1>5, <2>1, <2>2, <2>3, <2>4 DEF TypeOK
  <1>12. ASSUME NEW c \in Connections, RefuseHello(c) \/ Disconnect(c) PROVE Owned'
    BY <1>5, <1>12, EndSteps DEF TypeOK
  <1>13. ASSUME NEW r \in Runs, StartRun(r) \/ Offer(r) \/ TakeBack(r) \/ CancelRun(r) PROVE Owned'
    BY <1>5, <1>13, RunSteps
  <1>14. CASE \/ \E c \in Connections : WireBreaks(c)
              \/ CannotDial \/ Registered \/ ConnectionEnds \/ Wait \/ Restart
              \/ \E x \in Executions : Answered(x) \/ WorksOn(x)
              \/ TakeCancel \/ TakeError \/ UNCHANGED vars
    <2>1. UNCHANGED <<up, record, claim>>
      BY <1>14 DEF WireBreaks, CannotDial, Registered, ConnectionEnds, Wait, Restart, Answered, WorksOn,
                   TakeCancel, TakeError, vars, relayVars, runVars
    <2>2. QED
      BY <1>5, <2>1
  <1>15. QED
    BY <1>6, <1>7, <1>8, <1>9, <1>10, <1>11, <1>12, <1>13, <1>14 DEF Next, GatewayNext

-----------------------------------------------------------------------------
(* Lines are kept.                                                         *)

LEMMA OnlyTakeRunStarts ==
  ASSUME TypeOK, [Next]_vars, NEW x \in Executions, exec[x].stage = "free", exec'[x].stage # "free"
  PROVE  TakeRun(x)
  <1>0. exec \in [Executions -> Executed]
    BY ExecTypes
  <1>1. CASE UNCHANGED exec
    BY <1>1
  <1>2. CASE Restart
    BY <1>2 DEF Restart, Live
  <1>3. ASSUME NEW y \in Executions, TakeRun(y) PROVE TakeRun(x)
    BY <1>0, <1>3 DEF TakeRun, StartGoroutine
  <1>4. ASSUME NEW y \in Executions, Answered(y) \/ Emit(y) \/ Finish(y) \/ WorksOn(y) PROVE FALSE
    BY <1>0, <1>4, ExecChanges DEF Live
  <1>5. CASE TakeCancel
    BY <1>0, <1>5 DEF TakeCancel, Cancelled, Live
  <1>6. CASE ~(Restart \/ TakeCancel \/ \E y \in Executions :
                 TakeRun(y) \/ Answered(y) \/ Emit(y) \/ Finish(y) \/ WorksOn(y))
    <2>1. UNCHANGED exec
      BY <1>6 DEF Next, vars, probeVars, Dial, WireBreaks, CannotDial, Welcomed, Registered,
                  ConnectionEnds, Wait, TakeError
    <2>2. QED
      BY <1>1, <2>1
  <1>7. QED
    BY <1>2, <1>3, <1>4, <1>5, <1>6

\* Nobody but Emit makes it say more, and nobody takes it up again.
LEMMA ToldStays ==
  ASSUME TypeOK, [Next]_vars, NEW x \in Executions, exec[x].stage # "free", ~Emit(x)
  PROVE  exec'[x].stage \in {"answering", "telling"} => Live(x) /\ exec'[x].told = exec[x].told
  <1>0. exec \in [Executions -> Executed]
    BY ExecTypes
  <1>1. CASE UNCHANGED exec
    BY <1>1 DEF Live
  <1>2. CASE Restart
    BY <1>2, ExecTypes DEF Restart, Live
  <1>3. ASSUME NEW y \in Executions, TakeRun(y)
        PROVE exec'[x].stage \in {"answering", "telling"} => Live(x) /\ exec'[x].told = exec[x].told
    BY <1>0, <1>3 DEF TakeRun, StartGoroutine, Live
  <1>4. ASSUME NEW y \in Executions, Answered(y) \/ Emit(y) \/ Finish(y) \/ WorksOn(y)
        PROVE exec'[x].stage \in {"answering", "telling"} => Live(x) /\ exec'[x].told = exec[x].told
    <2>0. exec[y] \in Executed
      BY <1>0
    <2>1. CASE y # x
      BY <1>0, <1>4, <2>1, ExecChanges DEF Live
    <2>2. CASE Answered(x)
      <3>1. exec'[x] = [exec[x] EXCEPT !.stage = "telling"] /\ Live(x) /\ exec[x] \in Executed
        BY <1>0, <2>2, ExecChanges
      <3>2. [exec[x] EXCEPT !.stage = "telling"].told = exec[x].told
        BY <3>1 DEF Executed
      <3>3. QED
        BY <3>1, <3>2
    <2>3. CASE Finish(x) \/ WorksOn(x)
      BY <1>0, <2>3, ExecTypes, ExecChanges
    <2>4. QED
      BY <1>4, <2>1, <2>2, <2>3
  <1>5. CASE TakeCancel
    <2>1. exec'[x] = exec[x] \/ exec'[x] = [exec[x] EXCEPT !.cancelled = TRUE]
      BY <1>5 DEF TakeCancel, Cancelled
    <2>2. exec[x] \in Executed
      BY <1>0
    <2>3. /\ [exec[x] EXCEPT !.cancelled = TRUE].told = exec[x].told
          /\ [exec[x] EXCEPT !.cancelled = TRUE].stage = exec[x].stage
      BY <2>2 DEF Executed
    <2>4. QED
      BY <2>1, <2>3 DEF Live
  <1>6. CASE ~(Restart \/ TakeCancel \/ \E y \in Executions :
                 TakeRun(y) \/ Answered(y) \/ Emit(y) \/ Finish(y) \/ WorksOn(y))
    <2>1. UNCHANGED exec
      BY <1>6 DEF Next, vars, probeVars, Dial, WireBreaks, CannotDial, Welcomed, Registered,
                  ConnectionEnds, Wait, TakeError
    <2>2. QED
      BY <1>1, <2>1
  <1>7. QED
    BY <1>2, <1>3, <1>4, <1>5, <1>6

\* A connection goes up once.
LEMMA WireStays ==
  ASSUME TypeOK, [Next]_vars, NEW c \in Connections, wire[c] # "none"
  PROVE  wire'[c] = "up" => wire[c] = "up"
  <1>1. CASE UNCHANGED wire
    BY <1>1
  <1>2. ASSUME NEW d \in Connections, Dial(d) \/ WireBreaks(d) PROVE wire'[c] = "up" => wire[c] = "up"
    BY <1>2 DEF Dial, WireBreaks, TypeOK
  <1>3. ASSUME NEW d \in Connections, RefuseHello(d) \/ Disconnect(d)
        PROVE  wire'[c] = "up" => wire[c] = "up"
    BY <1>3, EndSteps
  <1>4. CASE ConnectionEnds \/ Restart
    BY <1>4 DEF ConnectionEnds, Restart, LinkEnds, TypeOK
  <1>5. CASE ~(ConnectionEnds \/ Restart \/ \E d \in Connections :
                 Dial(d) \/ WireBreaks(d) \/ RefuseHello(d) \/ Disconnect(d))
    <2>1. UNCHANGED wire
      BY <1>5 DEF Next, vars, relayVars, GatewayNext, StartRun, Offer, TakeBack, CancelRun, Read,
                  CannotDial, Welcomed, Registered, Wait, TakeRun, Answered, Emit, Finish, WorksOn,
                  TakeCancel, TakeError
    <2>2. QED
      BY <1>1, <2>1
  <1>6. QED
    BY <1>2, <1>3, <1>4, <1>5

LEMMA OtherFrameRead ==
  ASSUME TypeOK, Links, Owned, NEW x \in Executions, exec[x].stage # "free",
         NEW d \in Connections, Read(d), Foreign(up[d][1], x)
  PROVE  LET c == exec[x].on
             r == exec[x].run
         IN  /\ claim'[r] = x => claim[r] = x
             /\ claim'[r] = x /\ IsHeld(status'[r]) => Held(r)
             /\ \A k \in Nat : KeptIn(record'[r], x, k) <=> KeptIn(record[r], x, k)
             /\ \/ up'[c] = up[c]
                \/ up[c] # <<>> /\ up'[c] = Tail(up[c]) /\ Foreign(up[c][1], x)
  <1> DEFINE c == exec[x].on
             r == exec[x].run
             f == up[d][1]
  <1>1. c \in Connections /\ r \in Runs
    BY DEF Links
  <1>2. /\ up[d] # <<>> /\ 1 \in DOMAIN up[d] /\ f \in Frames /\ up' = [up EXCEPT ![d] = Tail(@)]
        /\ record'[r] = IF f.type = "event" /\ f.run = r /\ Held(r)
                        THEN Append(record[r], f.body) ELSE record[r]
        /\ \/ claim'[r] = claim[r] /\ (IsHeld(status'[r]) => Held(r))
           \/ /\ f.type = "ack" /\ f.run = r
              /\ f.body.verdict = "accepted" => claim'[r] = f.body.who
    BY <1>1, ReadFacts
  <1>3. FrameOwned(f, d, exec) /\ Foreign(f, x)
    BY <1>2 DEF Owned
  <1>4. f.type = "event" => f.body \in Entry
    BY <1>2, FrameFacts
  <1>5. up'[c] = up[c] \/ (up[c] # <<>> /\ up'[c] = Tail(up[c]) /\ Foreign(up[c][1], x))
    BY <1>1, <1>2, <1>3 DEF TypeOK
  <1> HIDE DEF f, r, c
  <1>6. (claim'[r] = x => claim[r] = x) /\ (claim'[r] = x /\ IsHeld(status'[r]) => Held(r))
    BY <1>2, <1>3 DEF FrameOwned, Foreign
  <1>7. ASSUME NEW k \in Nat PROVE KeptIn(record'[r], x, k) <=> KeptIn(record[r], x, k)
    <2>1. CASE record'[r] = record[r]
      BY <2>1
    <2>2. CASE f.type = "event" /\ record'[r] = Append(record[r], f.body)
      <3>1. f.body.who # x
        BY <2>2, <1>3 DEF Foreign
      <3>2. f.body # [who |-> x, nth |-> k]
        BY <3>1
      <3>3. record[r] \in Seq(Entry)
        BY <1>1 DEF TypeOK
      <3>4. QED
        BY <1>4, <2>2, <3>2, <3>3, KeptAppend
    <2>3. QED
      BY <1>2, <2>1, <2>2
  <1>8. QED
    BY <1>5, <1>6, <1>7 DEF c, r

\* Its yes or one of its events is read.
LEMMA OwnFrameRead ==
  ASSUME TypeOK, Links, Owned, NEW x \in Executions, exec[x].stage # "free", LineOf(x),
         NEW d \in Connections, Read(d), ~Foreign(up[d][1], x)
  PROVE  LET rec == record'[exec[x].run]
             mine == claim'[exec[x].run] = x
             kept == claim'[exec[x].run] = x /\ IsHeld(status'[exec[x].run])
         IN  /\ d = exec[x].on
             /\ Line(up'[d], rec, x, mine, kept)
             /\ Live(x) => SaidSoFar(up'[d], rec, x, kept, exec[x].told, wire[d] = "up")
  <1> DEFINE q == up[d]
             r == exec[x].run
             f == up[d][1]
             told == exec[x].told
             mine == claim[r] = x
             kept == claim[r] = x /\ Held(r)
             mine2 == claim'[r] = x
             kept2 == claim'[r] = x /\ IsHeld(status'[r])
             w == wire[d] = "up"
  <1>1. exec[x].on \in Connections /\ r \in Runs /\ exec[x] \in Executed
    BY ExecTypes DEF Links
  <1>2. told \in Nat /\ record[r] \in Seq(Entry)
    BY <1>1, StoryLength DEF Executed, TypeOK
  <1>3. /\ q # <<>> /\ q \in Seq(Frames) /\ 1 \in DOMAIN q /\ f \in Frames /\ up'[d] = Tail(q)
        /\ record'[r] = IF f.type = "event" /\ f.run = r /\ Held(r)
                        THEN Append(record[r], f.body) ELSE record[r]
        /\ \/ claim'[r] = claim[r] /\ (IsHeld(status'[r]) => Held(r))
           \/ /\ f.type = "ack" /\ f.run = r
              /\ f.body.verdict = "accepted" => claim'[r] = f.body.who
    <2>1. up' = [up EXCEPT ![d] = Tail(@)] /\ up \in [Connections -> Seq(Frames)]
      BY ReadFacts DEF TypeOK
    <2>2. up'[d] = Tail(q)
      BY <2>1
    <2>3. QED
      BY <1>1, <2>2, ReadFacts
  <1>4. FrameOwned(f, d, exec)
    BY <1>3 DEF Owned
  <1>5. f.type \in {"ack", "event"} /\ f.body.who = x /\ f.run = r /\ d = exec[x].on
    BY <1>4 DEF Foreign, FrameOwned
  <1>6. /\ Line(q, record[r], x, mine, kept)
        /\ Live(x) => SaidSoFar(q, record[r], x, kept, told, w)
    BY <1>5 DEF LineOf
  <1>7. /\ mine \in BOOLEAN /\ kept \in BOOLEAN /\ mine2 \in BOOLEAN /\ kept2 \in BOOLEAN /\ w \in BOOLEAN
    OBVIOUS
  <1>8. CASE f.type = "ack"
    <2>1. AckAt(q, 1, x) /\ record'[r] = record[r]
      BY <1>3, <1>5, <1>8 DEF AckAt
    <2> HIDE DEF q, r, f, told, mine, kept, mine2, kept2, w
    <2>2. /\ Line(up'[d], record'[r], x, mine2, kept2)
          /\ Live(x) => SaidSoFar(up'[d], record'[r], x, kept2, told, w)
      BY <1>2, <1>3, <1>6, <2>1, LineReadsYes
    <2>3. QED
      BY <1>5, <2>2 DEF r, told, mine2, kept2, w
  <1>9. CASE f.type = "event"
    <2> DEFINE n == f.body.nth
    <2>1. f.body \in Entry
      BY <1>3, <1>9, FrameFacts
    <2>2. f.body = [who |-> x, nth |-> n] /\ n \in Nat
      BY <1>5, <2>1, StoryLength DEF Entry
    <2>3. EventAt(q, 1, x, n)
      BY <1>3, <1>9, <2>2 DEF EventAt
    <2>4. record'[r] = IF Held(r) THEN Append(record[r], f.body) ELSE record[r]
      BY <1>3, <1>5, <1>9
    <2>5. (mine2 => mine) /\ (kept2 => kept)
      BY <1>3, <1>9
    <2>6. /\ \A k \in Nat : KeptIn(record[r], x, k) => KeptIn(record'[r], x, k)
          /\ \A k \in Nat : KeptIn(record'[r], x, k) => KeptIn(record[r], x, k) \/ k = n
          /\ kept => KeptIn(record'[r], x, n)
      <3>1. CASE Held(r)
        <4>1. \A k \in Nat : KeptIn(record'[r], x, k) <=>
                KeptIn(record[r], x, k) \/ f.body = [who |-> x, nth |-> k]
          BY <1>2, <2>1, <2>4, <3>1, KeptAppend
        <4>2. \A k \in Nat : f.body = [who |-> x, nth |-> k] => k = n
          <5>1. \A k \in Nat : [who |-> x, nth |-> k].nth = k
            OBVIOUS
          <5>2. QED
            BY <5>1
        <4>3. QED
          BY <2>2, <4>1, <4>2
      <3>2. CASE ~Held(r)
        BY <2>4, <3>2
      <3>3. QED
        BY <3>1, <3>2
    <2> HIDE DEF q, r, f, told, mine, kept, mine2, kept2, w, n
    <2>7. /\ Line(up'[d], record'[r], x, mine, kept)
          /\ Live(x) => SaidSoFar(up'[d], record'[r], x, kept, told, w)
      BY <1>2, <1>3, <1>6, <2>2, <2>3, <2>6, LineReadsEvent
    <2>8. /\ Line(up'[d], record'[r], x, mine2, kept2)
          /\ Live(x) => SaidSoFar(up'[d], record'[r], x, kept2, told, w)
      BY <1>7, <2>5, <2>7, LineLess
    <2>9. QED
      BY <1>5, <2>8 DEF r, told, mine2, kept2, w
  <1>10. QED
    BY <1>5, <1>8, <1>9

\* Whatever the step is, if it is not one of its own and reads none of its frames.
LEMMA LineKept ==
  ASSUME TypeOK, Links, Owned, [Next]_vars, NEW x \in Executions, exec[x].stage # "free",
         ~Emit(x), \A d \in Connections : Read(d) => Foreign(up[d][1], x)
  PROVE  LineStays(x)
  <1> DEFINE c == exec[x].on
             r == exec[x].run
  <1>1. exec[x] \in Executed /\ c \in Connections /\ r \in Runs /\ wire[c] # "none"
    BY ExecTypes DEF Links
  <1>2. exec'[x].stage # "free" /\ exec'[x].on = c /\ exec'[x].run = r
    BY ExecStays DEF Started
  <1>3. wire'[c] = "up" => wire[c] = "up"
    BY <1>1, WireStays
  <1>5. ASSUME UNCHANGED <<claim, record>>, IsHeld(status'[r]) => Held(r),
               \/ up'[c] = up[c]
               \/ \E f \in Frames : up'[c] = Append(up[c], f) /\ Foreign(f, x)
               \/ up'[c] = <<>> /\ wire'[c] # "up"
        PROVE  LineStays(x)
    BY <1>2, <1>3, <1>5, ToldStays DEF LineStays
  <1>6. status' = status => (IsHeld(status'[r]) => Held(r))
    BY DEF IsHeld, Held
  <1>7. ASSUME NEW s \in Runs, StartRun(s) \/ Offer(s) \/ TakeBack(s) \/ CancelRun(s)
        PROVE  LineStays(x)
    BY <1>1, <1>5, <1>7, RunSteps
  <1>8. ASSUME NEW d \in Connections, RefuseHello(d) \/ Disconnect(d) PROVE LineStays(x)
    <2>1. up'[c] = up[c] \/ (up'[c] = <<>> /\ wire'[c] # "up")
      BY <1>1, <1>8, EndSteps DEF TypeOK
    <2>2. QED
      BY <1>1, <1>5, <1>8, <2>1, EndSteps
  <1>9. ASSUME NEW d \in Connections, Read(d) PROVE LineStays(x)
    <2>1. Foreign(up[d][1], x)
      BY <1>9
    <2>2. QED
      BY <1>2, <1>3, <1>9, <2>1, ToldStays, OtherFrameRead DEF LineStays
  <1>10. ASSUME NEW y \in Executions, TakeRun(y) PROVE LineStays(x)
    <2> DEFINE f == Frame("ack", Head(down[link]).run, [verdict |-> "accepted", who |-> y])
    <2>1. y # x
      BY <1>10 DEF TakeRun
    <2>2. f \in Frames
      <3>1. link \in Connections /\ down[link] # <<>>
        BY <1>10 DEF TakeRun, Serving, Hears, Heard, Links, TypeOK
      <3>2. Head(down[link]).run \in Runs
        BY <1>10, <3>1, Popped, FrameFacts DEF TakeRun, Serving, Hears, TypeOK
      <3>3. QED
        BY <3>2, AcceptedIsAVerdict, FramesOf
    <2>3. Foreign(f, x)
      BY <2>1 DEF Foreign, Frame
    <2>4. up' = IF wire[link] = "up" THEN [up EXCEPT ![link] = Append(@, f)] ELSE up
      BY <1>10 DEF TakeRun, Send
    <2>5. UNCHANGED <<status, claim, record>>
      BY <1>10 DEF TakeRun, runVars
    <2> HIDE DEF f
    <2>6. up'[c] = up[c] \/ up'[c] = Append(up[c], f)
      BY <1>1, <2>4 DEF TypeOK
    <2>7. QED
      BY <1>5, <1>6, <1>10, <2>2, <2>3, <2>5, <2>6
  <1>11. ASSUME NEW y \in Executions, Emit(y) PROVE LineStays(x)
    <2> DEFINE f == Frame("event", exec[y].run, [who |-> y, nth |-> exec[y].told + 1])
    <2>1. f \in Frames
      BY <1>11, ExecEdits, FramesOf DEF Emit, Live, Links, Entry
    <2>2. y # x
      BY <1>11
    <2>3. Foreign(f, x)
      BY <2>2 DEF Foreign, Frame
    <2>4. up' = [up EXCEPT ![exec[y].on] = Append(@, f)]
      BY <1>11 DEF Emit, Say
    <2>5. UNCHANGED <<status, claim, record>>
      BY <1>11 DEF Emit, runVars
    <2> HIDE DEF f
    <2>6. up'[c] = up[c] \/ up'[c] = Append(up[c], f)
      BY <1>1, <2>4 DEF TypeOK
    <2>7. QED
      BY <1>5, <1>6, <1>11, <2>1, <2>3, <2>5, <2>6
  <1>12. ASSUME NEW y \in Executions, Finish(y) PROVE LineStays(x)
    <2> DEFINE f == Frame("finish", exec[y].run, None)
    <2>1. f \in Frames
      BY <1>12, FramesOf DEF Finish, Links
    <2>2. Foreign(f, x)
      BY DEF Foreign, Frame
    <2>3. up' = [up EXCEPT ![exec[y].on] = Append(@, f)]
      BY <1>12 DEF Finish, Say
    <2>4. UNCHANGED <<status, claim, record>>
      BY <1>12 DEF Finish, runVars
    <2> HIDE DEF f
    <2>5. up'[c] = up[c] \/ up'[c] = Append(up[c], f)
      BY <1>1, <2>3 DEF TypeOK
    <2>6. QED
      BY <1>5, <1>6, <1>12, <2>1, <2>2, <2>4, <2>5
  <1>13. CASE Welcomed
    <2> DEFINE f == Note("register")
    <2>1. f \in Frames
      BY FramesOf
    <2>2. Foreign(f, x)
      BY DEF Foreign, Note, Frame
    <2>3. up' = IF wire[link] = "up" THEN [up EXCEPT ![link] = Append(@, f)] ELSE up
      BY <1>13 DEF Welcomed, Send
    <2>4. UNCHANGED <<status, claim, record>>
      BY <1>13 DEF Welcomed, runVars
    <2> HIDE DEF f
    <2>5. up'[c] = up[c] \/ up'[c] = Append(up[c], f)
      BY <1>1, <2>3 DEF TypeOK
    <2>6. QED
      BY <1>5, <1>6, <1>13, <2>1, <2>2, <2>4, <2>5
  <1>14. ASSUME NEW d \in Connections, Dial(d) PROVE LineStays(x)
    <2>1. up'[c] = up[c] /\ UNCHANGED <<status, claim, record>>
      BY <1>1, <1>14 DEF Dial, runVars, TypeOK
    <2>2. QED
      BY <1>5, <1>6, <1>14, <2>1
  <1>15. CASE \/ \E d \in Connections : WireBreaks(d)
              \/ CannotDial \/ Registered \/ ConnectionEnds \/ Wait \/ Restart
              \/ \E y \in Executions : Answered(y) \/ WorksOn(y)
              \/ TakeCancel \/ TakeError \/ UNCHANGED vars
    <2>1. UNCHANGED <<up, status, record, claim>>
      BY <1>15 DEF WireBreaks, CannotDial, Registered, ConnectionEnds, Wait, Restart, Answered, WorksOn,
                   TakeCancel, TakeError, vars, relayVars, runVars
    <2>2. QED
      BY <1>5, <1>6, <1>15, <2>1
  <1>16. QED
    BY <1>7, <1>8, <1>9, <1>10, <1>11, <1>12, <1>13, <1>14, <1>15 DEF Next, GatewayNext

LEMMA LineNext ==
  ASSUME TypeOK, Links, Owned, [Next]_vars, NEW x \in Executions, exec[x].stage # "free", LineOf(x)
  PROVE  LineOf(x)'
  <1> DEFINE c == exec[x].on
             r == exec[x].run
  <1>1. exec[x] \in Executed /\ c \in Connections /\ r \in Runs /\ wire[c] # "none"
    BY ExecTypes DEF Links
  <1>2. exec'[x].stage # "free" /\ exec'[x].on = c /\ exec'[x].run = r
    BY ExecStays DEF Started
  <1>3. CASE Emit(x)
    <2> DEFINE told == exec[x].told
               f == Frame("event", r, [who |-> x, nth |-> told + 1])
               mine == claim[r] = x
               kept == claim[r] = x /\ Held(r)
    <2>1. /\ Live(x) /\ wire[c] = "up" /\ up'[c] = Append(up[c], f)
          /\ UNCHANGED <<wire, status, claim, record>>
      BY <1>1, <1>3 DEF Emit, Connected, Say, runVars, TypeOK
    <2>2. f \in Frames /\ told \in Nat /\ up[c] \in Seq(Frames)
      <3>1. told \in Nat /\ [who |-> x, nth |-> told + 1] \in Entry
        <4>1. told \in Nat
          BY <1>1, StoryLength DEF Executed
        <4>2. told + 1 \in 1..Len(Story)
          BY <1>3, ExecEdits
        <4>3. QED
          BY <4>1, <4>2 DEF Entry
      <3>2. QED
        BY <1>1, <3>1, FramesOf DEF TypeOK
    <2>3. f.type = "event" /\ f.body = [who |-> x, nth |-> told + 1]
      BY DEF Frame
    <2>4. Line(up[c], record[r], x, mine, kept) /\ SaidSoFar(up[c], record[r], x, kept, told, TRUE)
      BY <2>1 DEF LineOf
    <2>5. exec'[x].told = told + 1
      <3>1. exec' = [exec EXCEPT ![x] = [exec[x] EXCEPT !.told = told + 1]]
        BY <1>3, ExecChanges
      <3>2. exec \in [Executions -> Executed]
        BY ExecTypes
      <3>3. QED
        BY <1>1, <3>1, <3>2 DEF Executed
    <2>6. /\ Line(up'[c], record[r], x, mine, kept)
          /\ SaidSoFar(up'[c], record[r], x, kept, told + 1, TRUE)
      <3> HIDE DEF c, r, told, f, mine, kept
      <3>1. QED
        BY <2>1, <2>2, <2>3, <2>4, LineEmits
    <2>7. QED
      BY <1>2, <2>1, <2>5, <2>6 DEF LineOf, Held
  <1>4. ASSUME NEW d \in Connections, Read(d), ~Foreign(up[d][1], x), ~Emit(x) PROVE LineOf(x)'
    <2> DEFINE mine == claim'[r] = x
               kept == claim'[r] = x /\ IsHeld(status'[r])
    <2>1. /\ d = c
          /\ Line(up'[d], record'[r], x, mine, kept)
          /\ Live(x) => SaidSoFar(up'[d], record'[r], x, kept, exec[x].told, wire[d] = "up")
      BY <1>4, OwnFrameRead
    <2>2. UNCHANGED wire
      BY <1>4, ReadFacts
    <2>3. exec'[x].stage \in {"answering", "telling"} => Live(x) /\ exec'[x].told = exec[x].told
      BY <1>4, ToldStays
    <2>4. QED
      BY <1>2, <2>1, <2>2, <2>3 DEF LineOf, Live, Held, IsHeld
  <1>5. CASE ~Emit(x) /\ \A d \in Connections : Read(d) => Foreign(up[d][1], x)
    <2>1. LineStays(x)
      BY <1>5, LineKept
    <2>2. QED
      BY <2>1, LineLater
  <1>6. QED
    BY <1>3, <1>4, <1>5

LEMMA LinesNext == TypeOK /\ Links /\ Owned /\ Lines /\ [Next]_vars => Lines'
  <1> SUFFICES ASSUME TypeOK, Links, Owned, Lines, [Next]_vars, NEW x \in Executions
               PROVE  LineOf(x)'
    BY DEF Lines
  <1>1. CASE exec[x].stage # "free"
    BY <1>1, LineNext DEF Lines
  <1>2. CASE exec'[x].stage = "free"
    BY <1>2 DEF LineOf
  <1>3. CASE exec[x].stage = "free" /\ exec'[x].stage # "free"
    <2> DEFINE c == link
               r == Head(down[link]).run
               f == Frame("ack", r, [verdict |-> "accepted", who |-> x])
    <2>1. TakeRun(x)
      BY <1>3, OnlyTakeRunStarts
    <2>2. /\ c \in Connections /\ down[c] # <<>> /\ wire[c] = "up"
          /\ UNCHANGED <<wire, claim, record>>
      BY <2>1 DEF TakeRun, Serving, Hears, Heard, Links, TypeOK, runVars
    <2>3. r \in Runs
      BY <2>1, <2>2, Popped, FrameFacts DEF TakeRun, Serving, Hears, TypeOK
    <2>4. f \in Frames /\ f.type = "ack"
      BY <2>3, AcceptedIsAVerdict, FramesOf DEF Frame
    <2>5. up'[c] = Append(up[c], f) /\ up[c] \in Seq(Frames)
      BY <2>1, <2>2 DEF TakeRun, Send, TypeOK
    <2>6. exec'[x].on = c /\ exec'[x].run = r /\ exec'[x].told = 0
      BY <2>1 DEF TakeRun, StartGoroutine, TypeOK, Idle
    <2>7. \A i, k \in Nat : ~EventAt(up[c], i, x, k) /\ ~AckAt(up[c], i, x)
      <3>1. \A i \in DOMAIN up[c] : up[c][i].type \in {"ack", "event"} => up[c][i].body.who # x
        BY <1>3, <2>2 DEF Owned, FrameOwned
      <3>2. QED
        BY <3>1 DEF EventAt, AckAt
    <2>8. \A k \in Nat : ~KeptIn(record[r], x, k)
      <3>1. \A i \in DOMAIN record[r] : record[r][i].who # x
        BY <1>3, <2>3 DEF Owned
      <3>2. \A k \in Nat : [who |-> x, nth |-> k].who = x
        OBVIOUS
      <3>3. QED
        BY <3>1, <3>2 DEF KeptIn
    <2>9. (claim[r] = x) = FALSE
      BY <1>3, <2>3, ProbeAssumption DEF Owned
    <2> HIDE DEF c, r, f
    <2>10. \A kept : /\ Line(up'[c], record[r], x, FALSE, kept)
                     /\ SaidSoFar(up'[c], record[r], x, kept, 0, TRUE)
      BY <2>4, <2>5, <2>7, <2>8, LineBegins
    <2>11. QED
      BY <2>2, <2>6, <2>9, <2>10 DEF LineOf, Held, Live
  <1>4. QED
    BY <1>1, <1>2, <1>3

-----------------------------------------------------------------------------
(* What the record has of the execution a run was given to.                *)

Opening(rec, w) ==
  \A i \in DOMAIN rec :
    LET e == rec[i]
        earlier == {rec[j] : j \in 1..(i - 1)}
    IN  e.who = w =>
          /\ e.nth = 1 \/ [who |-> e.who, nth |-> e.nth - 1] \in earlier
          /\ \A f \in earlier : f.who = e.who => f.nth < e.nth

LEMMA OpeningAppend ==
  ASSUME NEW rec \in Seq(Entry), NEW e \in Entry, NEW w, Opening(rec, w),
         e.who = w => /\ e.nth = 1 \/ KeptIn(rec, w, e.nth - 1)
                      /\ \A k \in Nat : KeptIn(rec, w, k) => k < e.nth
  PROVE  Opening(Append(rec, e), w)
  <1>1. /\ Len(rec) \in Nat /\ DOMAIN rec = 1..Len(rec) /\ DOMAIN Append(rec, e) = 1..(Len(rec) + 1)
        /\ \A j \in DOMAIN rec : Append(rec, e)[j] = rec[j]
        /\ Append(rec, e)[Len(rec) + 1] = e
    OBVIOUS
  <1>2. ASSUME NEW i \in 1..(Len(rec) + 1)
        PROVE  {Append(rec, e)[j] : j \in 1..(i - 1)} = {rec[j] : j \in 1..(i - 1)}
    <2>1. \A j \in 1..(i - 1) : Append(rec, e)[j] = rec[j]
      BY <1>1
    <2>2. QED
      BY <2>1
  <1>3. ASSUME NEW i \in DOMAIN rec
        PROVE  Append(rec, e)[i] = rec[i] /\ i \in 1..(Len(rec) + 1)
    BY <1>1
  <1>4. CASE e.who # w
    <2>1. \A i \in 1..(Len(rec) + 1) : Append(rec, e)[i].who = w => i \in DOMAIN rec
      BY <1>1, <1>4
    <2>2. QED
      BY <1>1, <1>2, <1>3, <2>1 DEF Opening
  <1>5. CASE e.who = w
    <2> DEFINE earlier == {rec[j] : j \in 1..Len(rec)}
    <2>1. e.nth = 1 \/ [who |-> w, nth |-> e.nth - 1] \in earlier
      BY <1>1, <1>5 DEF KeptIn
    <2>2. \A f \in earlier : f.who = w => f.nth < e.nth
      <3> SUFFICES ASSUME NEW j \in 1..Len(rec), rec[j].who = w PROVE rec[j].nth < e.nth
        OBVIOUS
      <3>1. rec[j] \in Entry
        BY <1>1
      <3>2. rec[j] = [who |-> w, nth |-> rec[j].nth] /\ rec[j].nth \in Nat
        BY <3>1, StoryLength DEF Entry
      <3>3. KeptIn(rec, w, rec[j].nth)
        BY <1>1, <3>2 DEF KeptIn
      <3>4. QED
        BY <1>5, <3>2, <3>3
    <2>3. (Len(rec) + 1) - 1 = Len(rec) /\ Len(rec) + 1 \in 1..(Len(rec) + 1)
      BY <1>1
    <2>4. {Append(rec, e)[j] : j \in 1..((Len(rec) + 1) - 1)} = earlier
      BY <1>2, <2>3
    <2>5. \A i \in 1..(Len(rec) + 1) : i \in DOMAIN rec \/ i = Len(rec) + 1
      BY <1>1
    <2>6. ASSUME NEW i \in DOMAIN Append(rec, e)
          PROVE  LET g == Append(rec, e)[i]
                     before == {Append(rec, e)[j] : j \in 1..(i - 1)}
                 IN  g.who = w =>
                       /\ g.nth = 1 \/ [who |-> g.who, nth |-> g.nth - 1] \in before
                       /\ \A f \in before : f.who = g.who => f.nth < g.nth
      <3>1. CASE i \in DOMAIN rec
        BY <1>2, <1>3, <3>1 DEF Opening
      <3>2. CASE i = Len(rec) + 1
        BY <1>1, <1>5, <2>1, <2>2, <2>4, <3>2
      <3>3. QED
        BY <1>1, <2>5, <3>1, <3>2
    <2>7. QED
      BY <2>6 DEF Opening
  <1>6. QED
    BY <1>4, <1>5

\* Only what is read changes who a run is known to be with, and what it said.
LEMMA OnlyReadsRecord ==
  ASSUME [Next]_vars, \A c \in Connections : ~Read(c)
  PROVE  UNCHANGED <<claim, record>>
  BY DEF Next, GatewayNext, StartRun, Offer, TakeBack, CancelRun, RefuseHello, Disconnect, LinkGone,
         Dial, WireBreaks, CannotDial, Welcomed, Registered, ConnectionEnds, Wait, Restart, TakeRun,
         Answered, Emit, Finish, WorksOn, TakeCancel, TakeError, runVars, relayVars, vars

LEMMA OpeningNext ==
  ASSUME TypeOK, Links, Owned, Lines, [Next]_vars, NEW r \in Runs, Opening(record[r], claim[r])
  PROVE  Opening(record'[r], claim'[r])
  <1>1. CASE \A c \in Connections : ~Read(c)
    BY <1>1, OnlyReadsRecord
  <1>2. ASSUME NEW c \in Connections, Read(c) PROVE Opening(record'[r], claim'[r])
    <2> DEFINE f == up[c][1]
               x == f.body.who
    <2>1. /\ 1 \in DOMAIN up[c] /\ f \in Frames /\ up[c] \in Seq(Frames)
          /\ record'[r] = IF f.type = "event" /\ f.run = r /\ Held(r)
                          THEN Append(record[r], f.body) ELSE record[r]
          /\ \/ claim'[r] = claim[r]
             \/ /\ f.type = "ack" /\ f.run = r
                /\ f.body.verdict = "accepted" => claim'[r] = f.body.who
      BY <1>2, ReadFacts
    <2>2. FrameOwned(f, c, exec) /\ record[r] \in Seq(Entry)
      BY <2>1 DEF Owned, TypeOK
    <2>3. f.type \in {"ack", "event"} => x \in Executions
      BY <2>1, FrameFacts DEF Verdict, Entry
    <2>4. ASSUME f.type \in {"ack", "event"}, f.run = r
          PROVE  Line(up[c], record[r], x, claim[r] = x, claim[r] = x /\ Held(r))
      BY <2>2, <2>3, <2>4 DEF FrameOwned, Lines, LineOf
    <2> HIDE DEF f, x
    <2>5. CASE f.type = "ack" /\ f.run = r /\ claim'[r] = x
      <3>1. record'[r] = record[r]
        BY <2>1, <2>5
      <3>2. AckAt(up[c], 1, x)
        BY <2>1, <2>5 DEF AckAt, f, x
      <3>3. \A k \in Nat : ~KeptIn(record[r], x, k)
        BY <2>4, <2>5, <3>2 DEF Line, YesFirst
      <3>4. ASSUME NEW i \in DOMAIN record[r], record[r][i].who = x PROVE FALSE
        <4>1. record[r][i] \in Entry
          BY <2>2
        <4>2. record[r][i] = [who |-> x, nth |-> record[r][i].nth] /\ record[r][i].nth \in Nat
          BY <3>4, <4>1, StoryLength DEF Entry
        <4>3. QED
          BY <3>3, <4>2 DEF KeptIn
      <3>5. QED
        BY <2>5, <3>1, <3>4 DEF Opening
    <2>6. CASE f.type = "event" /\ f.run = r /\ Held(r)
      <3>1. record'[r] = Append(record[r], f.body) /\ claim'[r] = claim[r]
        BY <2>1, <2>6
      <3>2. f.body \in Entry
        BY <2>1, <2>6, FrameFacts
      <3>3. ASSUME x = claim[r]
            PROVE  /\ f.body.nth = 1 \/ KeptIn(record[r], x, f.body.nth - 1)
                   /\ \A k \in Nat : KeptIn(record[r], x, k) => k < f.body.nth
        <4>1. f.body = [who |-> x, nth |-> f.body.nth] /\ f.body.nth \in Nat \ {0}
          BY <3>2, StoryLength DEF Entry, x
        <4>2. EventAt(up[c], 1, x, f.body.nth)
          BY <2>1, <2>6, <4>1 DEF EventAt, f
        <4>3. Line(up[c], record[r], x, claim[r] = x, TRUE)
          BY <2>4, <2>6, <3>3
        <4>4. QED
          BY <2>1, <4>1, <4>2, <4>3, NextInLine
      <3>4. QED
        BY <2>2, <3>1, <3>2, <3>3, OpeningAppend DEF x
    <2>7. CASE record'[r] = record[r] /\ claim'[r] = claim[r]
      BY <2>7
    <2>8. QED
      BY <2>1, <2>2, <2>5, <2>6, <2>7 DEF FrameOwned, x
  <1>3. QED
    BY <1>1, <1>2

\* The opening is kept, and why it stays so.
Told == Links /\ Owned /\ Lines /\ TheOpeningIsKept

LEMMA ToldInit == Init => Told
  <1> SUFFICES ASSUME Init PROVE Told
    OBVIOUS
  <1>1. Links
    BY LinksInit
  <1>2. /\ \A x \in Executions : exec[x].stage = "free"
        /\ \A c \in Connections : up[c] = <<>>
        /\ \A r \in Runs : record[r] = <<>> /\ claim[r] = None
    BY DEF Init, RelayInit, Idle
  <1>3. Owned
    BY <1>2 DEF Owned
  <1>4. Lines
    BY <1>2 DEF Lines, LineOf
  <1>5. TheOpeningIsKept
    BY <1>2 DEF TheOpeningIsKept
  <1>6. QED
    BY <1>1, <1>3, <1>4, <1>5 DEF Told

LEMMA ToldNext == TypeOK /\ Told /\ [Next]_vars => Told'
  <1> SUFFICES ASSUME TypeOK, Told, [Next]_vars PROVE Told'
    OBVIOUS
  <1>1. Links' /\ Owned' /\ Lines'
    BY LinksNext, OwnedNext, LinesNext DEF Told
  <1>2. \A r \in Runs : Opening(record[r], claim[r])
    BY DEF Told, TheOpeningIsKept, Opening
  <1>3. \A r \in Runs : Opening(record'[r], claim'[r])
    BY <1>2, OpeningNext DEF Told
  <1>4. TheOpeningIsKept'
    BY <1>3 DEF TheOpeningIsKept, Opening
  <1>5. QED
    BY <1>1, <1>4 DEF Told

(***************************************************************************)
(* Of the execution whose yes gave it the run the record misses nothing up *)
(* to where it ends, whatever arrives late or never: the ack is posted in  *)
(* the handler that read it (ws_provider.py's read loop), so every event   *)
(* the probe wrote behind it is read after it, or lost with all that       *)
(* follows.                                                                *)
(***************************************************************************)
THEOREM OpeningIsKept == Spec => []TheOpeningIsKept
  <1>1. Init => TypeOK /\ Told
    BY TypeInit, ToldInit
  <1>2. TypeOK /\ Told /\ [Next]_vars => (TypeOK /\ Told)'
    BY TypeNext, ToldNext DEF Told
  <1>3. Told => TheOpeningIsKept
    BY DEF Told
  <1>4. QED
    BY <1>1, <1>2, <1>3, PTL DEF Spec

-----------------------------------------------------------------------------
(* A cancel finds its run.                                                 *)

\* The only one started for its run on its connection.
Alone(x) == \A y \in Executions :
  exec[y].stage # "free" /\ exec[y].run = exec[x].run /\ exec[y].on = exec[x].on => y = x

\* serve's cancelSet has every such execution of the connection it serves.
Listed == \A x \in Executions :
  Live(x) /\ link # None /\ exec[x].on = link /\ Alone(x) => cancels[exec[x].run] = x

LEMMA ListedInit == Init => Listed
  BY DEF Init, Listed, Live, Idle

LEMMA ListedNext == TypeOK /\ Links /\ Listed /\ [Next]_vars => Listed'
  <1> SUFFICES ASSUME TypeOK, Links, Listed, [Next]_vars, NEW x \in Executions,
                      exec'[x].stage \in {"answering", "telling"}, link' # None, exec'[x].on = link',
                      \A y \in Executions :
                        exec'[y].stage # "free" /\ exec'[y].run = exec'[x].run /\ exec'[y].on = exec'[x].on
                          => y = x
               PROVE  cancels'[exec'[x].run] = x
    BY DEF Listed, Alone, Live
  <1>1. \A y \in Executions : Started(y)
    BY ExecStays
  <1>2. cancels \in [Runs -> Executions \cup {None}]
    BY DEF TypeOK
  <1>3. CASE exec[x].stage = "free"
    <2>1. TakeRun(x)
      BY <1>3, OnlyTakeRunStarts
    <2>2. link \in Connections /\ down[link] # <<>>
      BY <2>1 DEF TakeRun, Serving, Hears, Heard, Links, TypeOK
    <2>3. Head(down[link]).run \in Runs
      BY <2>1, <2>2, Popped, FrameFacts DEF TakeRun, Serving, Hears, TypeOK
    <2>4. exec'[x].run = Head(down[link]).run
      BY <2>1 DEF TakeRun, StartGoroutine, TypeOK, Idle
    <2>5. QED
      BY <1>2, <2>1, <2>3, <2>4 DEF TakeRun, StartGoroutine
  <1>4. CASE exec[x].stage # "free"
    <2>1. /\ Live(x) /\ exec'[x].run = exec[x].run /\ exec'[x].on = exec[x].on /\ Alone(x)
          /\ exec[x].run \in Runs /\ exec[x].on \in Connections /\ wire[exec[x].on] # "none"
      <3>1. Live(x)
        <4>1. CASE Emit(x)
          BY <4>1 DEF Emit
        <4>2. CASE ~Emit(x)
          BY <1>4, <4>2, ToldStays
        <4>3. QED
          BY <4>1, <4>2
      <3>2. QED
        BY <1>1, <1>4, <3>1 DEF Started, Alone, Links
    <2>2. ASSUME link' = link, cancels' = cancels PROVE cancels'[exec'[x].run] = x
      BY <2>1, <2>2 DEF Listed
    <2>3. ASSUME NEW c \in Connections, Dial(c) PROVE FALSE
      BY <2>1, <2>3 DEF Dial
    <2>4. CASE ConnectionEnds \/ Restart
      BY <2>4 DEF ConnectionEnds, Restart, LinkEnds
    <2>5. ASSUME NEW y \in Executions, TakeRun(y) PROVE cancels'[exec'[x].run] = x
      <3>1. exec'[y].stage # "free" /\ exec'[y].run = Head(down[link]).run /\ exec'[y].on = link
        BY <2>5 DEF TakeRun, StartGoroutine, TypeOK, Idle
      <3>2. link' = link /\ cancels' = [cancels EXCEPT ![Head(down[link]).run] = y]
        BY <2>5 DEF TakeRun, StartGoroutine
      <3>3. y # x
        BY <1>4, <2>5 DEF TakeRun
      <3>4. Head(down[link]).run # exec[x].run
        BY <2>1, <3>1, <3>2, <3>3
      <3>5. QED
        BY <1>2, <2>1, <3>2, <3>4 DEF Listed
    <2>6. ASSUME NEW y \in Executions, Finish(y) PROVE cancels'[exec'[x].run] = x
      <3>1. exec[y].stage # "free" /\ exec[y].on \in Connections /\ wire[exec[y].on] = "up"
        BY <2>6 DEF Finish, Connected, Links
      <3>2. exec[y].on = link /\ link' = link /\ cancels' = [cancels EXCEPT ![exec[y].run] = None]
        BY <2>6, <3>1 DEF Finish, Links
      <3>3. CASE y = x
        <4>1. exec'[x].stage = "done"
          BY <2>6, <3>3, ExecTypes, ExecChanges
        <4>2. QED
          BY <4>1
      <3>4. CASE exec[y].run # exec[x].run
        BY <1>2, <2>1, <3>2, <3>4 DEF Listed
      <3>5. QED
        BY <2>1, <3>1, <3>2, <3>3, <3>4 DEF Alone
    <2>7. CASE ~(\/ \E c \in Connections : Dial(c)
                 \/ ConnectionEnds \/ Restart
                 \/ \E y \in Executions : TakeRun(y) \/ Finish(y))
      <3>1. link' = link /\ cancels' = cancels
        BY <2>7 DEF Next, vars, probeVars, WireBreaks, CannotDial, Welcomed, Registered, Wait, Answered,
                    Emit, WorksOn, TakeCancel, TakeError
      <3>2. QED
        BY <2>2, <3>1
    <2>8. QED
      BY <2>3, <2>4, <2>5, <2>6, <2>7
  <1>5. QED
    BY <1>3, <1>4

(***************************************************************************)
(* A cancel the probe reads finds the work, if the run was taken once on   *)
(* this connection: startRun lists its cancel function before anything     *)
(* else is read, and only an execution of the same run and connection      *)
(* takes it out again (run.go's cancelSet).                                *)
(***************************************************************************)
THEOREM CancelsFind == Spec => CancelReachesTheRun
  <1> DEFINE Found == TakeCancel => \A x \in Executions :
        Live(x) /\ exec[x].on = link /\ exec[x].run = Head(down[link]).run /\ TookOnce(x)
          => exec'[x].cancelled
  <1>1. Init => TypeOK /\ Links /\ Listed
    BY TypeInit, LinksInit, ListedInit
  <1>2. TypeOK /\ Links /\ Listed /\ [Next]_vars => (TypeOK /\ Links /\ Listed)'
    BY TypeNext, LinksNext, ListedNext
  <1>3. TypeOK /\ Links /\ Listed /\ [Next]_vars => [Found]_vars
    <2> SUFFICES ASSUME TypeOK, Links, Listed, TakeCancel, NEW x \in Executions, Live(x),
                        exec[x].on = link, exec[x].run = Head(down[link]).run, TookOnce(x)
                 PROVE  exec'[x].cancelled
      OBVIOUS
    <2>1. link # None
      BY DEF TakeCancel, Serving, Links
    <2>2. Alone(x)
      BY DEF Alone, TookOnce
    <2>3. cancels[exec[x].run] = x
      BY <2>1, <2>2 DEF Listed
    <2>4. exec'[x] = [exec[x] EXCEPT !.cancelled = TRUE] /\ exec[x] \in Executed
      BY <2>3, ExecTypes DEF TakeCancel, Cancelled
    <2>5. QED
      BY <2>4 DEF Executed
  <1>4. QED
    BY <1>1, <1>2, <1>3, PTL DEF Spec, CancelReachesTheRun

-----------------------------------------------------------------------------
(* A finish is the last an execution says, so all it had to say is in      *)
(* front of it: on the way still, or on record.                            *)

Behind(q, i, rec, x, k, kept) ==
  \/ \E j \in Nat : j < i /\ EventAt(q, j, x, k)
  \/ Passed(q, rec, x, k, kept)

LEMMA BehindPops ==
  ASSUME NEW S, NEW q \in Seq(S), q # <<>>, NEW i \in Nat \ {0}, NEW rec, NEW rec2, NEW x, NEW k \in Nat,
         NEW mine, NEW kept, NEW kept2, Behind(q, i + 1, rec, x, k, kept), YesFirst(q, rec, x, mine),
         AckAt(q, 1, x) \/ (kept2 => kept),
         KeptIn(rec, x, k) => KeptIn(rec2, x, k),
         EventAt(q, 1, x, k) /\ kept => KeptIn(rec2, x, k)
  PROVE  Behind(Tail(q), i, rec2, x, k, kept2)
  <1>1. ASSUME NEW j \in Nat, j < i + 1, j # 1, EventAt(q, j, x, k)
        PROVE  Behind(Tail(q), i, rec2, x, k, kept2)
    <2>1. j # 0
      BY <1>1, Positions
    <2>2. j - 1 \in Nat /\ j - 1 # 0 /\ (j - 1) + 1 = j /\ j - 1 < i
      BY <1>1, <2>1
    <2>3. ASSUME NEW n \in Nat, n # 0, n + 1 = j PROVE EventAt(Tail(q), n, x, k)
      <3>1. EventAt(q, n + 1, x, k)
        BY <1>1, <2>3
      <3>2. QED
        BY <2>3, <3>1, TailShifts
    <2>4. EventAt(Tail(q), j - 1, x, k)
      BY <2>2, <2>3
    <2>5. QED
      BY <2>2, <2>4 DEF Behind
  <1>2. ASSUME \A j \in Nat : ~AckAt(q, j, x), kept => KeptIn(rec2, x, k)
        PROVE  Behind(Tail(q), i, rec2, x, k, kept2)
    <2>1. \A j \in Nat : ~AckAt(Tail(q), j, x)
      <3>1. \A j \in Nat : j + 1 \in Nat
        OBVIOUS
      <3>2. QED
        BY <1>2, <3>1, TailShifts
    <2>2. kept2 => kept
      BY <1>2
    <2>3. QED
      BY <1>2, <2>1, <2>2 DEF Behind, Passed
  <1>3. ASSUME EventAt(q, 1, x, k) PROVE \A j \in Nat : ~AckAt(q, j, x)
    <2> SUFFICES ASSUME NEW j \in Nat, AckAt(q, j, x) PROVE FALSE
      OBVIOUS
    <2>1. j < 1
      BY <1>3 DEF YesFirst
    <2>2. j # 0
      BY Positions
    <2>3. QED
      BY <2>1, <2>2
  <1>4. QED
    BY <1>1, <1>2, <1>3 DEF Behind, Passed

LEMMA BehindAppends ==
  ASSUME NEW S, NEW q \in Seq(S), NEW f \in S, NEW i \in Nat, NEW rec, NEW rec2, NEW x, NEW k \in Nat,
         NEW kept, NEW kept2, Behind(q, i, rec, x, k, kept),
         f.type = "ack" => f.body.who # x, kept2 => kept, KeptIn(rec, x, k) => KeptIn(rec2, x, k)
  PROVE  Behind(Append(q, f), i, rec2, x, k, kept2)
  <1>1. \A j \in Nat : AckAt(Append(q, f), j, x) => AckAt(q, j, x)
    BY AppendAdds
  <1>2. \A j \in Nat : EventAt(q, j, x, k) => EventAt(Append(q, f), j, x, k)
    BY AppendAdds
  <1>3. QED
    BY <1>1, <1>2 DEF Behind, Passed

\* The frame behind everything it said.
LEMMA BehindItAll ==
  ASSUME NEW S, NEW q \in Seq(S), NEW f \in S, NEW rec, NEW x, NEW told \in Nat \ {0}, NEW kept,
         f.type = "finish", SaidSoFar(q, rec, x, kept, told, TRUE)
  PROVE  Behind(Append(q, f), Len(q) + 1, rec, x, told, kept)
  <1>1. Behind(q, Len(q) + 1, rec, x, told, kept)
    <2>1. ASSUME NEW i \in Nat, EventAt(q, i, x, told) PROVE i < Len(q) + 1
      <3>1. i <= Len(q)
        BY <2>1, Positions
      <3>2. QED
        BY <3>1
    <2>2. QED
      BY <2>1 DEF SaidSoFar, Behind
  <1>2. Len(q) + 1 \in Nat
    OBVIOUS
  <1>3. QED
    BY <1>1, <1>2, BehindAppends

Closes(c, i, x) ==
  LET r == exec[x].run
  IN  /\ exec[x].stage = "done" /\ exec[x].on = c /\ r = up[c][i].run
      /\ Behind(up[c], i, record[r], x, Len(Story), claim[r] = x /\ Held(r))

Closed(c, i) == up[c][i].type = "finish" => \E x \in Executions : Closes(c, i, x)

Finishes == \A c \in Connections : \A i \in DOMAIN up[c] : Closed(c, i)

\* Its work is over.
LEMMA DoneStays ==
  ASSUME TypeOK, Links, [Next]_vars, NEW x \in Executions, exec[x].stage = "done"
  PROVE  /\ exec'[x].stage = "done" /\ exec'[x].run = exec[x].run /\ exec'[x].on = exec[x].on
         /\ ~Emit(x) /\ exec[x].run \in Runs
  <1>1. ~Emit(x)
    BY DEF Emit, Live
  <1>2. Started(x)
    BY ExecStays
  <1>3. exec'[x].stage \notin {"answering", "telling"}
    BY <1>1, ToldStays DEF Live
  <1>4. exec'[x].stage \in {"free", "answering", "telling", "done"}
    BY TypeNext DEF TypeOK
  <1>5. QED
    BY <1>1, <1>2, <1>3, <1>4 DEF Started, Links

\* What a step does to the queue of a connection.
LEMMA QueueSteps ==
  ASSUME TypeOK, Links, [Next]_vars, NEW c \in Connections, ~Read(c)
  PROVE  \/ up'[c] = up[c]
         \/ \E f \in Frames :
              /\ up'[c] = Append(up[c], f)
              /\ f.type = "finish" =>
                   \E x \in Executions : Finish(x) /\ exec[x].on = c /\ f.run = exec[x].run
              /\ f.type = "ack" => \E x \in Executions : TakeRun(x) /\ f.body.who = x
         \/ up'[c] = <<>>
         \/ up'[c] = <<Note("hello")>>
  <1> DEFINE Writes(f) == /\ up'[c] = Append(up[c], f)
                          /\ f.type = "finish" =>
                               \E x \in Executions : Finish(x) /\ exec[x].on = c /\ f.run = exec[x].run
                          /\ f.type = "ack" => \E x \in Executions : TakeRun(x) /\ f.body.who = x
             Goal == \/ up'[c] = up[c]
                     \/ \E f \in Frames : Writes(f)
                     \/ up'[c] = <<>>
                     \/ up'[c] = <<Note("hello")>>
  <1>1. ASSUME NEW d, NEW f \in Frames, up' = [up EXCEPT ![d] = Append(@, f)], f.type # "finish",
               f.type = "ack" => \E x \in Executions : TakeRun(x) /\ f.body.who = x
        PROVE  Goal
    BY <1>1 DEF TypeOK
  <1>2. ASSUME NEW d \in Connections, Read(d) PROVE Goal
    <2>1. up' = [up EXCEPT ![d] = Tail(@)]
      BY <1>2, ReadFacts
    <2>2. QED
      BY <1>2, <2>1 DEF TypeOK
  <1>3. ASSUME NEW x \in Executions, TakeRun(x) PROVE Goal
    <2> DEFINE f == Frame("ack", Head(down[link]).run, [verdict |-> "accepted", who |-> x])
    <2>1. f \in Frames
      <3>1. link \in Connections /\ down[link] # <<>>
        BY <1>3 DEF TakeRun, Serving, Hears, Heard, Links, TypeOK
      <3>2. Head(down[link]).run \in Runs
        BY <1>3, <3>1, Popped, FrameFacts DEF TakeRun, Serving, Hears, TypeOK
      <3>3. QED
        BY <3>2, AcceptedIsAVerdict, FramesOf
    <2>2. f.type # "finish" /\ f.body.who = x
      BY DEF Frame
    <2>3. up' = [up EXCEPT ![link] = Append(@, f)] \/ up' = up
      BY <1>3 DEF TakeRun, Send
    <2>4. QED
      BY <1>1, <1>3, <2>1, <2>2, <2>3
  <1>4. ASSUME NEW x \in Executions, Emit(x) PROVE Goal
    <2> DEFINE f == Frame("event", exec[x].run, [who |-> x, nth |-> exec[x].told + 1])
    <2>1. f \in Frames /\ f.type \notin {"ack", "finish"}
      BY <1>4, ExecEdits, FramesOf DEF Emit, Live, Links, Entry, Frame
    <2>2. up' = [up EXCEPT ![exec[x].on] = Append(@, f)]
      BY <1>4 DEF Emit, Say
    <2>3. QED
      BY <1>1, <2>1, <2>2
  <1>5. ASSUME NEW x \in Executions, Finish(x) PROVE Goal
    <2> DEFINE f == Frame("finish", exec[x].run, None)
    <2>1. f \in Frames /\ f.run = exec[x].run /\ f.type = "finish"
      BY <1>5, FramesOf DEF Finish, Links, Frame
    <2>2. up' = [up EXCEPT ![exec[x].on] = Append(@, f)]
      BY <1>5 DEF Finish, Say
    <2>3. CASE exec[x].on = c
      BY <1>5, <2>1, <2>2, <2>3 DEF TypeOK
    <2>4. CASE exec[x].on # c
      BY <2>2, <2>4 DEF TypeOK
    <2>5. QED
      BY <2>3, <2>4
  <1>6. CASE Welcomed
    <2>1. Note("register") \in Frames /\ Note("register").type \notin {"ack", "finish"}
      BY FramesOf DEF Note, Frame
    <2>2. up' = [up EXCEPT ![link] = Append(@, Note("register"))] \/ up' = up
      BY <1>6 DEF Welcomed, Send
    <2>3. QED
      BY <1>1, <2>1, <2>2
  <1>7. ASSUME NEW d \in Connections, Dial(d) PROVE Goal
    BY <1>7 DEF Dial, TypeOK
  <1>8. ASSUME NEW d \in Connections, RefuseHello(d) \/ Disconnect(d) PROVE Goal
    BY <1>8, EndSteps DEF TypeOK
  <1>9. ASSUME NEW r \in Runs, StartRun(r) \/ Offer(r) \/ TakeBack(r) \/ CancelRun(r) PROVE Goal
    BY <1>9, RunSteps
  <1>10. CASE \/ \E d \in Connections : WireBreaks(d)
              \/ CannotDial \/ Registered \/ ConnectionEnds \/ Wait \/ Restart
              \/ \E x \in Executions : Answered(x) \/ WorksOn(x)
              \/ TakeCancel \/ TakeError \/ UNCHANGED vars
    BY <1>10 DEF WireBreaks, CannotDial, Registered, ConnectionEnds, Wait, Restart, Answered, WorksOn,
                 TakeCancel, TakeError, vars, relayVars
  <1>11. QED
    BY <1>2, <1>3, <1>4, <1>5, <1>6, <1>7, <1>8, <1>9, <1>10 DEF Next, GatewayNext

LEMMA BehindSame ==
  ASSUME NEW q, NEW i, NEW rec, NEW rec2, NEW x, NEW k, NEW kept, NEW kept2,
         Behind(q, i, rec, x, k, kept), kept2 => kept, KeptIn(rec, x, k) => KeptIn(rec2, x, k)
  PROVE  Behind(q, i, rec2, x, k, kept2)
  BY DEF Behind, Passed

LEMMA FinishesInit == Init => Finishes
  BY DEF Init, RelayInit, Finishes

\* A frame is read, of its connection or of another.
LEMMA ClosesRead ==
  ASSUME TypeOK, Links, Owned, Lines, NEW d \in Connections, Read(d), NEW x \in Executions,
         exec[x].stage = "done", NEW i \in Nat \ {0},
         LET c == exec[x].on
             r == exec[x].run
         IN  Behind(up[c], IF c = d THEN i + 1 ELSE i, record[r], x, Len(Story), claim[r] = x /\ Held(r))
  PROVE  LET c == exec[x].on
             r == exec[x].run
         IN  Behind(up'[c], i, record'[r], x, Len(Story), claim'[r] = x /\ IsHeld(status'[r]))
  <1> DEFINE c == exec[x].on
             r == exec[x].run
             f == up[d][1]
             k == Len(Story)
             mine == claim[r] = x
             kept == claim[r] = x /\ Held(r)
             kept2 == claim'[r] = x /\ IsHeld(status'[r])
  <1>1. c \in Connections /\ r \in Runs /\ k \in Nat
    BY StoryLength DEF Links
  <1>2. /\ up[d] # <<>> /\ up[d] \in Seq(Frames) /\ 1 \in DOMAIN up[d] /\ f \in Frames
        /\ up'[c] = IF c = d THEN Tail(up[c]) ELSE up[c]
        /\ record'[r] = IF f.type = "event" /\ f.run = r /\ Held(r)
                        THEN Append(record[r], f.body) ELSE record[r]
        /\ \/ claim'[r] = claim[r] /\ (IsHeld(status'[r]) => Held(r))
           \/ /\ f.type = "ack" /\ f.run = r
              /\ f.body.verdict = "accepted" => claim'[r] = f.body.who
    <2>1. up' = [up EXCEPT ![d] = Tail(@)]
      BY ReadFacts
    <2>2. up'[c] = IF c = d THEN Tail(up[c]) ELSE up[c]
      BY <1>1, <2>1 DEF TypeOK
    <2>3. QED
      BY <1>1, <2>2, ReadFacts
  <1>3. FrameOwned(f, d, exec)
    BY <1>2 DEF Owned
  <1>4. YesFirst(up[c], record[r], x, mine)
    BY DEF Lines, LineOf, Line
  <1>5. Behind(up[c], IF c = d THEN i + 1 ELSE i, record[r], x, k, kept)
    OBVIOUS
  <1>6. record[r] \in Seq(Entry)
    BY <1>1 DEF TypeOK
  <1>7. f.type = "event" => f.body \in Entry
    BY <1>2, FrameFacts
  <1>8. CASE Foreign(f, x)
    <2>1. (kept2 => kept) /\ (KeptIn(record[r], x, k) => KeptIn(record'[r], x, k))
      BY <1>1, <1>8, OtherFrameRead
    <2>2. ~EventAt(up[d], 1, x, k)
      <3>1. [who |-> x, nth |-> k].who = x
        OBVIOUS
      <3>2. QED
        BY <1>8, <3>1 DEF EventAt, Foreign
    <2> HIDE DEF c, r, f, k, mine, kept, kept2
    <2>3. Behind(up'[c], i, record'[r], x, k, kept2)
      <3>1. CASE c = d
        BY <1>1, <1>2, <1>4, <1>5, <2>1, <2>2, <3>1, BehindPops
      <3>2. CASE c # d
        BY <1>2, <1>5, <2>1, <3>2, BehindSame
      <3>3. QED
        BY <3>1, <3>2
    <2>4. QED
      BY <2>3 DEF c, r, k, kept2
  <1>9. CASE ~Foreign(f, x)
    <2>1. f.type \in {"ack", "event"} /\ f.body.who = x /\ c = d /\ f.run = r
      BY <1>3, <1>9 DEF Foreign, FrameOwned
    <2>2. AckAt(up[d], 1, x) \/ (kept2 => kept)
      BY <1>2, <2>1 DEF AckAt
    <2>3. KeptIn(record[r], x, k) => KeptIn(record'[r], x, k)
      BY <1>2, <1>6, <1>7, KeptAppend
    <2>4. ASSUME EventAt(up[d], 1, x, k), kept PROVE KeptIn(record'[r], x, k)
      <3>1. f.type = "event" /\ f.body = [who |-> x, nth |-> k]
        BY <2>4 DEF EventAt
      <3>2. record'[r] = Append(record[r], f.body)
        BY <1>2, <2>1, <2>4, <3>1
      <3>3. QED
        BY <1>6, <1>7, <3>1, <3>2, KeptAppend
    <2> HIDE DEF c, r, f, k, mine, kept, kept2
    <2>5. /\ up[c] \in Seq(Frames) /\ up[c] # <<>> /\ up'[c] = Tail(up[c])
          /\ Behind(up[c], i + 1, record[r], x, k, kept)
          /\ AckAt(up[c], 1, x) \/ (kept2 => kept)
          /\ EventAt(up[c], 1, x, k) /\ kept => KeptIn(record'[r], x, k)
      BY <1>2, <1>5, <2>1, <2>2, <2>4
    <2>6. Behind(up'[c], i, record'[r], x, k, kept2)
      BY <1>1, <1>4, <2>3, <2>5, BehindPops
    <2>7. QED
      BY <2>6 DEF c, r, k, kept2
  <1>10. QED
    BY <1>8, <1>9

LEMMA FinishesNext ==
  TypeOK /\ Links /\ Owned /\ Lines /\ Finishes /\ [Next]_vars => Finishes'
  <1> SUFFICES ASSUME TypeOK, Links, Owned, Lines, Finishes, [Next]_vars, NEW c \in Connections,
                      NEW i \in DOMAIN up'[c], up'[c][i].type = "finish"
               PROVE  \E x \in Executions : Closes(c, i, x)'
    BY DEF Finishes, Closed
  <1>1. up[c] \in Seq(Frames) /\ up'[c] \in Seq(Frames) /\ i \in Nat \ {0}
    <2>1. up[c] \in Seq(Frames) /\ up'[c] \in Seq(Frames)
      BY TypeNext DEF TypeOK
    <2>2. QED
      BY <2>1
  <1>2. ASSUME NEW x \in Executions, exec[x].stage = "done", exec[x].on = c,
               exec[x].run = up'[c][i].run,
               Behind(up'[c], i, record'[exec[x].run], x, Len(Story),
                      claim'[exec[x].run] = x /\ IsHeld(status'[exec[x].run]))
        PROVE  Closes(c, i, x)'
    BY <1>2, DoneStays DEF Closes, Held, IsHeld
  <1>3. ASSUME NEW d \in Connections, Read(d) PROVE \E x \in Executions : Closes(c, i, x)'
    <2> DEFINE j == IF c = d THEN i + 1 ELSE i
    <2>1. up' = [up EXCEPT ![d] = Tail(@)] /\ up[d] # <<>>
      BY <1>3, ReadFacts
    <2>2. up'[c] = IF c = d THEN Tail(up[c]) ELSE up[c]
      BY <2>1 DEF TypeOK
    <2>3. j \in DOMAIN up[c] /\ up[c][j] = up'[c][i]
      <3>1. CASE c = d
        <4>1. up[c] # <<>> /\ up'[c] = Tail(up[c]) /\ j = i + 1
          BY <2>1, <2>2, <3>1
        <4> HIDE DEF j
        <4>2. QED
          BY <1>1, <4>1
      <3>2. CASE c # d
        BY <2>2, <3>2
      <3>3. QED
        BY <3>1, <3>2
    <2>4. PICK x \in Executions : Closes(c, j, x)
      BY <2>3 DEF Finishes, Closed
    <2>5. Behind(up'[c], i, record'[exec[x].run], x, Len(Story),
                 claim'[exec[x].run] = x /\ IsHeld(status'[exec[x].run]))
      BY <1>1, <1>3, <2>4, ClosesRead DEF Closes
    <2>6. QED
      BY <1>2, <2>3, <2>4, <2>5 DEF Closes
  <1>4. CASE \A d \in Connections : ~Read(d)
    <2>1. ASSUME NEW x \in Executions, Closes(c, i, x)
          PROVE  LET r == exec[x].run
                     kept == claim[r] = x /\ Held(r)
                     kept2 == claim'[r] = x /\ IsHeld(status'[r])
                 IN  /\ Behind(up[c], i, record[r], x, Len(Story), kept)
                     /\ kept2 => kept
                     /\ KeptIn(record[r], x, Len(Story)) => KeptIn(record'[r], x, Len(Story))
      <3>1. LineStays(x)
        BY <1>4, <2>1, DoneStays, LineKept DEF Closes
      <3>2. QED
        BY <2>1, <3>1, StoryLength DEF Closes, LineStays
    <2>2. CASE up'[c] = up[c]
      <3>1. PICK x \in Executions : Closes(c, i, x)
        BY <2>2 DEF Finishes, Closed
      <3> DEFINE r == exec[x].run
                 kept == claim[r] = x /\ Held(r)
                 kept2 == claim'[r] = x /\ IsHeld(status'[r])
      <3>2. /\ Behind(up[c], i, record[r], x, Len(Story), kept)
            /\ kept2 => kept
            /\ KeptIn(record[r], x, Len(Story)) => KeptIn(record'[r], x, Len(Story))
        BY <2>1, <3>1
      <3>3. Behind(up'[c], i, record'[r], x, Len(Story), kept2)
        <4> HIDE DEF r, kept, kept2
        <4>1. QED
          BY <2>2, <3>2, BehindSame
      <3>4. QED
        BY <1>2, <2>2, <3>1, <3>3 DEF Closes
    <2>3. ASSUME NEW f \in Frames, up'[c] = Append(up[c], f),
                 f.type = "finish" =>
                   \E x \in Executions : Finish(x) /\ exec[x].on = c /\ f.run = exec[x].run,
                 f.type = "ack" => \E x \in Executions : TakeRun(x) /\ f.body.who = x
          PROVE  \E x \in Executions : Closes(c, i, x)'
      <3>1. CASE i \in DOMAIN up[c]
        <4>1. up'[c][i] = up[c][i]
          BY <1>1, <2>3, <3>1
        <4>2. PICK x \in Executions : Closes(c, i, x)
          BY <3>1, <4>1 DEF Finishes, Closed
        <4>3. f.type = "ack" => f.body.who # x
          BY <2>3, <4>2 DEF Closes, TakeRun
        <4> DEFINE r == exec[x].run
                   kept == claim[r] = x /\ Held(r)
                   kept2 == claim'[r] = x /\ IsHeld(status'[r])
        <4>4. /\ Behind(up[c], i, record[r], x, Len(Story), kept)
              /\ kept2 => kept
              /\ KeptIn(record[r], x, Len(Story)) => KeptIn(record'[r], x, Len(Story))
          BY <2>1, <4>2
        <4>5. Behind(up'[c], i, record'[r], x, Len(Story), kept2)
          <5> HIDE DEF r, kept, kept2
          <5>1. QED
            BY <1>1, <2>3, <4>3, <4>4, BehindAppends, StoryLength
        <4>6. QED
          BY <1>2, <4>1, <4>2, <4>5 DEF Closes
      <3>2. CASE i \notin DOMAIN up[c]
        <4>1. i = Len(up[c]) + 1 /\ up'[c][i] = f
          BY <1>1, <2>3, <3>2
        <4>2. PICK x \in Executions : Finish(x) /\ exec[x].on = c /\ f.run = exec[x].run
          BY <2>3, <4>1
        <4> DEFINE r == exec[x].run
                   kept == claim[r] = x /\ Held(r)
        <4>3. /\ Live(x) /\ exec[x].stage # "free" /\ exec[x].told = Len(Story) /\ wire[c] = "up"
              /\ UNCHANGED <<status, claim, record>>
          BY <4>2 DEF Finish, Live, Connected, runVars
        <4>4. SaidSoFar(up[c], record[r], x, kept, Len(Story), TRUE)
          BY <4>2, <4>3 DEF Lines, LineOf
        <4>5. Behind(up'[c], i, record[r], x, Len(Story), kept)
          <5> HIDE DEF r, kept
          <5>1. Len(Story) \in Nat \ {0} /\ f.type = "finish"
            BY <4>1, StoryLength
          <5>2. QED
            BY <1>1, <2>3, <4>1, <4>4, <5>1, BehindItAll
        <4>6. exec'[x].stage = "done" /\ exec'[x].run = r /\ exec'[x].on = c
          BY <4>2, ExecTypes, ExecChanges
        <4>7. QED
          BY <4>1, <4>2, <4>3, <4>5, <4>6 DEF Closes, Held
      <3>3. QED
        BY <3>1, <3>2
    <2>4. CASE up'[c] = <<>>
      BY <2>4
    <2>5. CASE up'[c] = <<Note("hello")>>
      <3>1. up'[c][i].type = "hello"
        BY <2>5 DEF Note, Frame
      <3>2. QED
        BY <3>1
    <2>6. QED
      BY <1>4, <2>2, <2>3, <2>4, <2>5, QueueSteps
  <1>5. QED
    BY <1>3, <1>4

-----------------------------------------------------------------------------
(* The contract of a run, step by step.                                    *)

\* A run nobody's yes counted for is with nobody.
Unclaimed == \A r \in Runs : status[r] \in {"none", "queued", "offered"} => claim[r] = None

\* What the probe does is none of core's business.
LEMMA ProbeLeavesRuns ==
  ASSUME [Next]_vars, ~GatewayNext
  PROVE  UNCHANGED <<status, claim, record>>
  BY DEF Next, Dial, WireBreaks, CannotDial, Welcomed, Registered, ConnectionEnds, Wait, Restart,
         TakeRun, Answered, Emit, Finish, WorksOn, TakeCancel, TakeError, runVars, relayVars, vars

LEMMA UnclaimedInit == Init => Unclaimed
  BY DEF Init, RelayInit, Unclaimed

LEMMA UnclaimedNext == TypeOK /\ Owned /\ Unclaimed /\ [Next]_vars => Unclaimed'
  <1> SUFFICES ASSUME TypeOK, Owned, Unclaimed, [Next]_vars PROVE Unclaimed'
    OBVIOUS
  <1>1. ASSUME NEW c \in Connections, Read(c) PROVE Unclaimed'
    <2> DEFINE f == up[c][1]
    <2>1. /\ 1 \in DOMAIN up[c] /\ f \in Frames /\ Head(up[c]) = f
      BY <1>1, ReadFacts
    <2>2. FrameOwned(f, c, exec) /\ (f.type \in {"ack", "event", "finish"} => f.run \in Runs)
      BY <2>1, FrameFacts DEF Owned
    <2>3. \/ f.type = "hello" /\ Attach(c)
          \/ f.type = "register" /\ Register(c)
          \/ f.type = "ack" /\ ReadAck(c, f)
          \/ f.type \in {"event", "finish"} /\ ReadReport(c, f)
      BY <1>1, <2>1 DEF Read, Handle
    <2> HIDE DEF f
    <2>4. CASE f.type = "hello" /\ Attach(c)
      BY <2>4 DEF Attach, LinkGone, Held, Unclaimed
    <2>5. CASE f.type = "register" /\ Register(c)
      BY <2>5 DEF Register, runVars, Unclaimed
    <2>6. CASE f.type = "ack" /\ ReadAck(c, f)
      <3>1. CASE status[f.run] = "offered"
        <4>1. f.body.verdict = "accepted" /\ f.run \in Runs
          BY <2>2, <2>6 DEF FrameOwned
        <4>2. status' = [status EXCEPT ![f.run] = "held"]
          BY <2>6, <3>1, <4>1 DEF ReadAck, AnswerOffer, AfterVerdict
        <4>3. claim' = [claim EXCEPT ![f.run] = f.body.who]
          BY <2>6, <3>1, <4>1 DEF ReadAck, AnswerOffer
        <4>4. QED
          BY <4>1, <4>2, <4>3 DEF Unclaimed, TypeOK
      <3>2. CASE status[f.run] # "offered"
        BY <2>6, <3>2 DEF ReadAck, AnswerOffer, runVars, Unclaimed
      <3>3. QED
        BY <3>1, <3>2
    <2>7. CASE f.type = "event" /\ ReadReport(c, f)
      BY <2>7 DEF ReadReport, ReportEvent, Unclaimed
    <2>8. CASE f.type = "finish" /\ ReadReport(c, f)
      BY <2>2, <2>8 DEF ReadReport, FinishRun, AfterFinish, Unclaimed, TypeOK
    <2>9. QED
      BY <2>3, <2>4, <2>5, <2>6, <2>7, <2>8
  <1>2. CASE \A c \in Connections : ~Read(c)
    <2>1. UNCHANGED claim
      BY <1>2, OnlyReadsRecord
    <2>2. \A r \in Runs : status'[r] \in {"none", "queued", "offered"} =>
                            status[r] \in {"none", "queued", "offered"}
      <3>1. ASSUME NEW r \in Runs, StartRun(r) \/ Offer(r) \/ TakeBack(r) \/ CancelRun(r)
            PROVE  \A s \in Runs : status'[s] \in {"none", "queued", "offered"} =>
                                     status[s] \in {"none", "queued", "offered"}
        BY <3>1 DEF StartRun, Offer, TakeBack, CancelRun, TypeOK
      <3>2. ASSUME NEW c \in Connections, RefuseHello(c) \/ Disconnect(c)
            PROVE  \A s \in Runs : status'[s] \in {"none", "queued", "offered"} =>
                                     status[s] \in {"none", "queued", "offered"}
        BY <3>2 DEF RefuseHello, Disconnect, LinkGone, Held, runVars
      <3>3. ASSUME ~GatewayNext PROVE UNCHANGED status
        BY <3>3, ProbeLeavesRuns
      <3>4. QED
        BY <1>2, <3>1, <3>2, <3>3 DEF GatewayNext
    <2>3. QED
      BY <2>1, <2>2 DEF Unclaimed
  <1>3. QED
    BY <1>1, <1>2

\* A run's fate as a function of what core has for it.
FateOf(s) == IF s \in {"queued", "offered"} THEN "waiting" ELSE s

Fates == [r \in Runs |-> Fate(r)]
Crews == [r \in Runs |-> Crew(r)]

LEMMA Turned ==
  ASSUME TypeOK, NEW r \in Runs, NEW s, status' = [status EXCEPT ![r] = s]
  PROVE  /\ Contract!Turns(r, Fate(r), FateOf(s))
         /\ FateOf(s) = Fate(r) => Fates' = Fates
  <1>1. \A q \in Runs : Fate(q)' = IF q = r THEN FateOf(s) ELSE Fate(q)
    BY DEF TypeOK, Fate, FateOf
  <1>2. Fates' = [Fates EXCEPT ![r] = FateOf(s)]
    BY <1>1 DEF Fates
  <1>3. Contract!Turns(r, Fate(r), FateOf(s))
    BY <1>2 DEF Contract!Turns, Fates
  <1>4. QED
    BY <1>1, <1>3 DEF Fates

LEMMA SameFates == UNCHANGED status => Fates' = Fates
  BY DEF Fates, Fate

LEMMA CrewStays ==
  ASSUME TypeOK, Links, [Next]_vars, \A x \in Executions : ~TakeRun(x)
  PROVE  Crews' = Crews
  <1>1. ASSUME NEW x \in Executions
        PROVE  \A r \in Runs : exec'[x].stage # "free" /\ exec'[x].run = r
                                 <=> exec[x].stage # "free" /\ exec[x].run = r
    <2>1. CASE exec[x].stage = "free"
      BY <2>1, OnlyTakeRunStarts
    <2>2. CASE exec[x].stage # "free"
      BY <2>2, ExecStays DEF Started
    <2>3. QED
      BY <2>1, <2>2
  <1>2. \A r \in Runs : Crew(r)' = Crew(r)
    BY <1>1 DEF Crew
  <1>3. QED
    BY <1>2 DEF Crews

LEMMA ContractStutters ==
  ASSUME Fates' = Fates, Crews' = Crews, UNCHANGED <<claim, record>>
  PROVE  UNCHANGED Contract!vars
  BY DEF Contract!vars, Fates, Crews

LEMMA ContractRuns ==
  ASSUME TypeOK, Crews' = Crews, NEW r \in Runs, StartRun(r) \/ Offer(r) \/ TakeBack(r) \/ CancelRun(r)
  PROVE  [Contract!Next]_Contract!vars
  <1>1. UNCHANGED <<claim, record>> /\ UNCHANGED Crews
    BY DEF StartRun, Offer, TakeBack, CancelRun
  <1>2. CASE StartRun(r)
    <2>1. Contract!Turns(r, "none", "waiting")
      BY <1>2, Turned DEF StartRun, Fate, FateOf
    <2>2. Contract!Begin(r)
      BY <1>1, <2>1 DEF Contract!Begin, Crews
    <2>3. QED
      BY <2>2 DEF Contract!Next
  <1>3. CASE Offer(r) \/ TakeBack(r)
    <2>1. Fates' = Fates
      BY <1>3, Turned DEF Offer, TakeBack, Fate, FateOf
    <2>2. QED
      BY <1>1, <2>1, ContractStutters
  <1>4. CASE CancelRun(r)
    <2>1. Contract!Turns(r, "held", "cancelling")
      BY <1>4, Turned DEF CancelRun, Fate, FateOf
    <2>2. Contract!Cancel(r)
      BY <1>1, <2>1 DEF Contract!Cancel, Crews
    <2>3. QED
      BY <2>2 DEF Contract!Next
  <1>5. QED
    BY <1>2, <1>3, <1>4

\* The link is gone, and what it held fails with it.
LEMMA ContractLinkGone ==
  ASSUME LinkGone, Crews' = Crews
  PROVE  Contract!Next
  <1> DEFINE S == {r \in Runs : Held(r)}
  <1>1. \A r \in Runs : Fate(r)' = IF r \in S THEN "failed" ELSE Fate(r)
    BY DEF LinkGone, Fate, Held
  <1>2. \A r \in S : Fate(r) \in {"held", "cancelling"}
    BY DEF Fate, Held
  <1>3. UNCHANGED <<claim, record>>
    BY DEF LinkGone
  <1> HIDE DEF S
  <1>4. S \subseteq Runs
    BY DEF S
  <1>5. Contract!Fail(S)
    BY <1>1, <1>2, <1>3, <1>4 DEF Contract!Fail, Contract!Underway, Crews
  <1>6. QED
    BY <1>4, <1>5 DEF Contract!Next

\* A verdict: the first yes gives the run, and nothing else does.
LEMMA ContractAck ==
  ASSUME TypeOK, Unclaimed, Crews' = Crews, NEW c \in Connections, NEW f \in Frames, f.type = "ack",
         FrameOwned(f, c, exec), ReadAck(c, f)
  PROVE  [Contract!Next]_Contract!vars
  <1> DEFINE r == f.run
             x == f.body.who
  <1>1. r \in Runs /\ x \in Executions /\ f.body.verdict = "accepted" /\ x \in Crew(r)
    BY FrameFacts DEF FrameOwned, Verdict, Crew
  <1>2. CASE status[r] = "offered"
    <2>1. /\ status' = [status EXCEPT ![r] = "held"]
          /\ claim' = [claim EXCEPT ![r] = x]
          /\ UNCHANGED record
      BY <1>1, <1>2 DEF ReadAck, AnswerOffer, AfterVerdict
    <2> HIDE DEF r, x
    <2>2. Contract!Turns(r, "waiting", "held")
      BY <1>1, <1>2, <2>1, Turned DEF Fate, FateOf
    <2>3. claim[r] = None
      BY <1>1, <1>2 DEF Unclaimed
    <2>4. Contract!Give(r, x)
      BY <1>1, <2>1, <2>2, <2>3 DEF Contract!Give, Crews
    <2>5. QED
      BY <1>1, <2>4 DEF Contract!Next
  <1>3. CASE status[r] # "offered"
    <2>1. UNCHANGED <<status, claim, record>>
      BY <1>3 DEF ReadAck, AnswerOffer, runVars
    <2>2. QED
      BY <2>1, SameFates, ContractStutters
  <1>4. QED
    BY <1>2, <1>3

LEMMA HeardIsKept ==
  ASSUME NEW r \in Runs, NEW x, NEW k
  PROVE  Contract!Heard(r, x, k) <=> KeptIn(record[r], x, k)
  BY DEF Contract!Heard, KeptIn

\* An event: of the run's holder, the one that is due.
LEMMA ContractEvent ==
  ASSUME TypeOK, Owned, Lines, Crews' = Crews, NEW c \in Connections, up[c] # <<>>,
         NEW f \in Frames, f = up[c][1], f.type = "event", ReadReport(c, f)
  PROVE  [Contract!Next]_Contract!vars
  <1> DEFINE r == f.run
             x == f.body.who
             n == f.body.nth
  <1>1. up[c] \in Seq(Frames) /\ 1 \in DOMAIN up[c]
    BY DEF TypeOK
  <1>2. /\ r \in Runs /\ f.body \in Entry /\ x \in Executions /\ n \in 1..Len(Story)
        /\ f.body = [who |-> x, nth |-> n]
    <2>1. r \in Runs /\ f.body \in Entry
      BY FrameFacts
    <2>2. QED
      BY <2>1 DEF Entry
  <1>3. FrameOwned(f, c, exec)
    BY <1>1 DEF Owned
  <1>4. x \in Crew(r) /\ exec[x].on = c /\ exec[x].run = r /\ exec[x].stage # "free"
    BY <1>2, <1>3 DEF FrameOwned, Crew
  <1>5. UNCHANGED <<status, claim>>
    BY DEF ReadReport, ReportEvent
  <1>6. CASE Held(r)
    <2>1. record' = [record EXCEPT ![r] = Append(@, [who |-> x, nth |-> n])]
      BY <1>2, <1>6 DEF ReadReport, ReportEvent
    <2>2. ASSUME x = claim[r] PROVE Contract!Due(r, x, n)
      <3>1. Line(up[c], record[r], x, TRUE, TRUE)
        BY <1>2, <1>4, <1>6, <2>2 DEF Lines, LineOf
      <3>2. EventAt(up[c], 1, x, n)
        BY <1>1, <1>2 DEF EventAt
      <3>3. n \in Nat \ {0} /\ \A k \in 1..Len(Story) : k \in Nat
        BY <1>2, StoryLength
      <3> HIDE DEF r, x, n
      <3>4. /\ n = 1 \/ KeptIn(record[r], x, n - 1)
            /\ \A k \in Nat : KeptIn(record[r], x, k) => k < n
        BY <1>1, <3>1, <3>2, <3>3, NextInLine
      <3>5. QED
        BY <1>2, <3>3, <3>4, HeardIsKept DEF Contract!Due
    <2>3. Fate(r) \in {"held", "cancelling"}
      BY <1>6 DEF Held, Fate
    <2>4. Fates' = Fates
      BY <1>5, SameFates
    <2> HIDE DEF r, x, n
    <2>5. Contract!Tell(r, x, n)
      BY <1>2, <1>4, <1>5, <2>1, <2>2, <2>3, <2>4 DEF Contract!Tell, Contract!Underway, Fates, Crews
    <2>6. QED
      BY <1>2, <2>5 DEF Contract!Next
  <1>7. CASE ~Held(r)
    <2>1. UNCHANGED record
      BY <1>7 DEF ReadReport, ReportEvent
    <2>2. QED
      BY <1>5, <2>1, SameFates, ContractStutters
  <1>8. QED
    BY <1>6, <1>7

\* A finish: if the run had no other worker, its holder's, and behind its story.
LEMMA ContractFinish ==
  ASSUME TypeOK, TheOpeningIsKept, Finishes, Crews' = Crews, NEW c \in Connections, up[c] # <<>>,
         NEW f \in Frames, f = up[c][1], f.type = "finish", ReadReport(c, f)
  PROVE  [Contract!Next]_Contract!vars
  <1> DEFINE r == f.run
  <1>1. up[c] \in Seq(Frames) /\ 1 \in DOMAIN up[c] /\ r \in Runs
    BY FrameFacts DEF TypeOK
  <1>2. UNCHANGED <<claim, record>> /\ status' = [status EXCEPT ![r] = AfterFinish(r)]
    BY DEF ReadReport, FinishRun
  <1>3. CASE Held(r)
    <2>1. Contract!Turns(r, "held", "ended") \/ Contract!Turns(r, "cancelling", "cancelled")
      <3>1. /\ Fate(r) = "held" => FateOf(AfterFinish(r)) = "ended"
            /\ Fate(r) = "cancelling" => FateOf(AfterFinish(r)) = "cancelled"
            /\ Fate(r) \in {"held", "cancelling"}
        BY <1>3 DEF Held, Fate, FateOf, AfterFinish
      <3> HIDE DEF r
      <3>2. Contract!Turns(r, Fate(r), FateOf(AfterFinish(r)))
        BY <1>1, <1>2, Turned
      <3>3. QED
        BY <3>1, <3>2
    <2>2. ASSUME Crew(r) = {claim[r]} PROVE Contract!Whole(r, claim[r])
      <3>1. PICK x \in Executions : Closes(c, 1, x)
        BY <1>1 DEF Finishes, Closed
      <3>2. x \in Crew(r)
        BY <3>1 DEF Closes, Crew
      <3>3. x = claim[r] /\ exec[x].run = r
        BY <2>2, <3>1, <3>2 DEF Closes
      <3>4. Behind(up[c], 1, record[r], x, Len(Story), TRUE)
        BY <1>3, <3>1, <3>3 DEF Closes
      <3> HIDE DEF r
      <3>5. KeptIn(record[r], x, Len(Story))
        <4>1. ASSUME NEW j \in Nat, EventAt(up[c], j, x, Len(Story)) PROVE ~(j < 1)
          <5>1. j # 0
            BY <1>1, <4>1, Positions
          <5>2. QED
            BY <5>1
        <4>2. QED
          BY <3>4, <4>1 DEF Behind, Passed
      <3>6. KeptIn(record[r], x, 2)
        BY <3>5, StoryLength
      <3>7. KeptIn(record[r], x, 1)
        <4>1. PICK i \in DOMAIN record[r] : record[r][i] = [who |-> x, nth |-> 2]
          BY <3>6 DEF KeptIn
        <4>2. [who |-> x, nth |-> 1] \in {record[r][j] : j \in 1..(i - 1)}
          BY <1>1, <3>3, <4>1 DEF TheOpeningIsKept
        <4>3. \A j \in 1..(i - 1) : j \in DOMAIN record[r]
          BY <1>1, <4>1 DEF TypeOK
        <4>4. QED
          BY <4>2, <4>3 DEF KeptIn
      <3>8. \A k \in 1..Len(Story) : KeptIn(record[r], x, k)
        <4>1. \A k \in 1..Len(Story) : k = 1 \/ k = 2
          BY StoryLength
        <4>2. QED
          BY <3>6, <3>7, <4>1
      <3>9. QED
        BY <1>1, <3>3, <3>8, HeardIsKept DEF Contract!Whole
    <2> HIDE DEF r
    <2>3. Contract!End(r)
      BY <1>1, <1>2, <2>1, <2>2 DEF Contract!End, Crews
    <2>4. QED
      BY <1>1, <2>3 DEF Contract!Next
  <1>4. CASE ~Held(r)
    <2>1. UNCHANGED status
      BY <1>1, <1>2, <1>4 DEF AfterFinish, Held, TypeOK
    <2>2. QED
      BY <1>2, <2>1, SameFates, ContractStutters
  <1>5. QED
    BY <1>3, <1>4

\* The probe takes a run up, and core hears of it later or never.
LEMMA ContractTake ==
  ASSUME TypeOK, Links, Owned, [Next]_vars, NEW x \in Executions, TakeRun(x)
  PROVE  Contract!Next
  <1> DEFINE r == Head(down[link]).run
  <1>1. link \in Connections /\ down[link] # <<>>
    BY DEF TakeRun, Serving, Hears, Heard, Links, TypeOK
  <1>2. r \in Runs
    BY <1>1, Popped, FrameFacts DEF TakeRun, Serving, Hears, TypeOK
  <1>3. exec' = [exec EXCEPT ![x] = exec'[x]] /\ exec'[x].run = r /\ exec'[x].stage = "answering"
        /\ exec[x].stage = "free" /\ exec \in [Executions -> Executed]
    BY ExecTypes DEF TakeRun, StartGoroutine, Idle
  <1>4. UNCHANGED <<status, claim, record>>
    BY DEF TakeRun, runVars
  <1> HIDE DEF r
  <1>5. \A q \in Runs : Crew(q)' = IF q = r THEN Crew(q) \cup {x} ELSE Crew(q)
    <2>1. ASSUME NEW q \in Runs, NEW y \in Executions, y # x PROVE exec'[y] = exec[y]
      BY <1>3, <2>1
    <2>2. QED
      BY <1>3, <2>1 DEF Crew
  <1>6. \A q \in Runs : x \notin Crew(q)
    BY <1>3 DEF Crew
  <1>7. Fates' = Fates
    BY <1>4, SameFates
  <1>8. Contract!Take(r, x)
    BY <1>2, <1>4, <1>5, <1>6, <1>7 DEF Contract!Take, Fates
  <1>9. QED
    BY <1>2, <1>8 DEF Contract!Next

LEMMA ContractInit == Init => Contract!Init
  <1> SUFFICES ASSUME Init PROVE Contract!Init
    OBVIOUS
  <1>1. \A r \in Runs : Fate(r) = "none" /\ Crew(r) = {}
    BY DEF Init, RelayInit, Idle, Fate, Crew
  <1>2. QED
    BY <1>1 DEF Init, RelayInit, Contract!Init

Keeping == TypeOK /\ Told /\ Finishes /\ Unclaimed

LEMMA KeepingNext == Keeping /\ [Next]_vars => Keeping'
  BY TypeNext, ToldNext, FinishesNext, UnclaimedNext DEF Keeping, Told

LEMMA ContractNext == Keeping /\ [Next]_vars => [Contract!Next]_Contract!vars
  <1> SUFFICES ASSUME Keeping, [Next]_vars PROVE [Contract!Next]_Contract!vars
    OBVIOUS
  <1> USE DEF Keeping, Told
  <1>1. ASSUME NEW x \in Executions, TakeRun(x) PROVE Contract!Next
    BY <1>1, ContractTake
  <1>2. CASE \A x \in Executions : ~TakeRun(x)
    <2>1. Crews' = Crews
      BY <1>2, CrewStays
    <2>2. ASSUME UNCHANGED <<status, claim, record>> PROVE [Contract!Next]_Contract!vars
      BY <2>1, <2>2, SameFates, ContractStutters
    <2>3. ASSUME NEW r \in Runs, StartRun(r) \/ Offer(r) \/ TakeBack(r) \/ CancelRun(r)
          PROVE  [Contract!Next]_Contract!vars
      BY <2>1, <2>3, ContractRuns
    <2>4. ASSUME NEW c \in Connections, Read(c) PROVE [Contract!Next]_Contract!vars
      <3> DEFINE f == up[c][1]
      <3>1. up[c] # <<>> /\ f \in Frames /\ Head(up[c]) = f /\ FrameOwned(f, c, exec)
        <4>1. up[c] # <<>> /\ up[c] \in Seq(Frames) /\ 1 \in DOMAIN up[c] /\ f \in Frames
          BY <2>4, ReadFacts
        <4>2. QED
          BY <4>1 DEF Owned
      <3>2. \/ f.type = "hello" /\ Attach(c)
            \/ f.type = "register" /\ Register(c)
            \/ f.type = "ack" /\ ReadAck(c, f)
            \/ f.type \in {"event", "finish"} /\ ReadReport(c, f)
        BY <2>4, <3>1 DEF Read, Handle
      <3>3. CASE f.type = "hello" /\ Attach(c)
        BY <2>1, <3>3, ContractLinkGone DEF Attach
      <3>4. CASE f.type = "register" /\ Register(c)
        BY <2>2, <3>4 DEF Register, runVars
      <3>5. CASE f.type = "ack" /\ ReadAck(c, f)
        BY <2>1, <3>1, <3>5, ContractAck
      <3>6. CASE f.type = "event" /\ ReadReport(c, f)
        BY <2>1, <3>1, <3>6, ContractEvent
      <3>7. CASE f.type = "finish" /\ ReadReport(c, f)
        BY <2>1, <3>1, <3>7, ContractFinish
      <3>8. QED
        BY <3>2, <3>3, <3>4, <3>5, <3>6, <3>7
    <2>5. ASSUME NEW c \in Connections, RefuseHello(c) \/ Disconnect(c)
          PROVE  [Contract!Next]_Contract!vars
      <3>1. UNCHANGED <<status, claim, record>> \/ LinkGone
        BY <2>5 DEF RefuseHello, Disconnect, runVars
      <3>2. QED
        BY <2>1, <2>2, <3>1, ContractLinkGone
    <2>6. CASE ~GatewayNext
      BY <2>2, <2>6, ProbeLeavesRuns
    <2>7. QED
      BY <2>3, <2>4, <2>5, <2>6 DEF GatewayNext
  <1>3. QED
    BY <1>1, <1>2

(***************************************************************************)
(* Gateway and probe implement RunContract, for any number of connections, *)
(* runs, offers and executions: a run is given once, its holder's events   *)
(* come on record in order and without a gap, and the finish of a run only *)
(* its holder took up comes behind the last of them, because one loop      *)
(* reads them (ws_provider.py) and one goroutine writes them (run.go).     *)
(***************************************************************************)
THEOREM ProbeKeepsTheContract == Spec => RunContractKept
  <1>1. Init => Keeping
    BY TypeInit, ToldInit, FinishesInit, UnclaimedInit DEF Keeping
  <1>2. QED
    BY <1>1, KeepingNext, ContractInit, ContractNext, PTL DEF Spec, RunContractKept, Contract!Spec

=============================================================================
