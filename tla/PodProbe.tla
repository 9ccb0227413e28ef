------------------------------ MODULE PodProbe ------------------------------
(***************************************************************************)
(* The Go provider, providers/pod-probe-agent, composed with RunRelay: the *)
(* connection loop of main.go with its backoff, the ceremony of wire.go,   *)
(* and run.go's read loop with a goroutine per accepted run and the set of *)
(* cancel functions they share.                                            *)
(*                                                                         *)
(* A goroutine outlives the connection its run came by: what it writes     *)
(* then goes nowhere, because write errors are dropped.                    *)
(***************************************************************************)
EXTENDS RunRelay

CONSTANTS
  Executions,  \* bound: one number per run frame the probe takes up
  MaxBackoff   \* seconds, 30

ASSUME ProbeAssumption ==
  Executions \subseteq Nat \ {0} /\ None \notin Executions /\ MaxBackoff \in Nat \ {0}

VARIABLES
  at,        \* main: "ticket", "welcome", "registered", "serving", "waiting"
  link,      \* the connection of this connectOnce
  backoff,   \* seconds before the next one
  cancels,   \* this serve's cancelSet
  exec       \* the goroutines of this process

probeVars == <<at, link, backoff, cancels, exec>>
vars == <<relayVars, probeVars>>

\* What one execution says: its opening, and behind the answer the message
\* with the end, which go out in one go.
Story == <<"RUN_STARTED", "RUN_FINISHED">>

Idle == [run |-> None, on |-> None, stage |-> "free", told |-> 0, cancelled |-> FALSE]
Live(x) == exec[x].stage \in {"answering", "telling"}

NoCancels == [r \in Runs |-> None]

Init ==
  /\ RelayInit
  /\ at = "ticket"
  /\ link = None
  /\ backoff = 1
  /\ cancels = NoCancels
  /\ exec = [x \in Executions |-> Idle]

-----------------------------------------------------------------------------
(* main and connectOnce. *)

\* write: an error the caller hears of, or drops.
Send(f) == up' = IF wire[link] = "up" THEN [up EXCEPT ![link] = Append(@, f)] ELSE up

\* POST /tickets, the dial, and the hello.
Dial(c) ==
  /\ at = "ticket"
  /\ wire[c] = "none"
  /\ wire' = [wire EXCEPT ![c] = "up"]
  /\ up' = [up EXCEPT ![c] = <<Note("hello")>>]
  /\ link' = c
  /\ at' = "welcome"
  /\ UNCHANGED <<phase, down, attached, serving, runVars, backoff, cancels, exec>>

CannotDial ==
  /\ at = "ticket"
  /\ at' = "waiting"
  /\ UNCHANGED <<relayVars, link, backoff, cancels, exec>>

Heard == wire[link] = "up" /\ down[link] # <<>>
Hears(type) == Heard /\ Head(down[link]).type = type
Took == down' = [down EXCEPT ![link] = Tail(@)]

Welcomed ==
  /\ at = "welcome"
  /\ Hears("welcome")
  /\ Took
  /\ Send(Note("register"))
  /\ at' = "registered"
  /\ UNCHANGED <<wire, phase, attached, serving, runVars, link, backoff, cancels, exec>>

\* serve begins, with an empty cancelSet of its own.
Registered ==
  /\ at = "registered"
  /\ Hears("registered")
  /\ Took
  /\ at' = "serving"
  /\ UNCHANGED <<wire, up, phase, attached, serving, runVars, link, backoff, cancels, exec>>

\* CloseNow ends the socket, and serve's cancelSet goes with it.
LinkEnds ==
  /\ wire' = [wire EXCEPT ![link] = "broken"]
  /\ down' = [down EXCEPT ![link] = <<>>]
  /\ link' = None
  /\ cancels' = NoCancels

Unexpected ==
  /\ at \in {"welcome", "registered"}
  /\ Heard
  /\ ~Hears(at)

\* connectOnce returns: the connection broke under a read, or the answer was
\* not the one awaited.
ConnectionEnds ==
  /\ at \in {"welcome", "registered", "serving"}
  /\ \/ wire[link] = "broken"
     \/ Unexpected
     \/ at = "registered"    \* nobody answered within its ten seconds
  /\ LinkEnds
  /\ at' = "waiting"
  /\ UNCHANGED <<up, phase, attached, serving, runVars, backoff, exec>>

Backoff_Uncapped == 2 * backoff

\* serve never returns nil, and neither does any step before it: the branch
\* of main that resets the delay is not reached.
Backoff == IF backoff < MaxBackoff THEN 2 * backoff ELSE backoff

Wait ==
  /\ at = "waiting"
  /\ at' = "ticket"
  /\ backoff' = Backoff
  /\ UNCHANGED <<relayVars, link, cancels, exec>>

\* The network, at any moment of a connection.
WireBreaks(c) ==
  /\ wire[c] = "up"
  /\ wire' = [wire EXCEPT ![c] = "broken"]
  /\ down' = [down EXCEPT ![c] = <<>>]
  /\ UNCHANGED <<up, phase, attached, serving, runVars, probeVars>>

Done(x) == [exec[x] EXCEPT !.stage = "done", !.told = 0, !.cancelled = FALSE]

\* The process dies under its connection and its pod starts another, with the
\* same key and nothing else.
Restart ==
  /\ link # None
  /\ LinkEnds
  /\ at' = "ticket"
  /\ backoff' = 1
  /\ exec' = [x \in Executions |-> IF Live(x) THEN Done(x) ELSE exec[x]]
  /\ UNCHANGED <<up, phase, attached, serving, runVars>>

-----------------------------------------------------------------------------
(* serve: the read loop. *)

Serving(type) == at = "serving" /\ Hears(type) /\ Took

\* The yes goes out, the cancel function in, and the goroutine starts.
StartGoroutine_Unlisted(x, r) ==
  /\ exec' = [exec EXCEPT ![x] = [Idle EXCEPT !.run = r, !.on = link, !.stage = "answering"]]
  /\ UNCHANGED cancels

StartGoroutine(x, r) ==
  /\ cancels' = [cancels EXCEPT ![r] = x]
  /\ exec' = [exec EXCEPT ![x] = [Idle EXCEPT !.run = r, !.on = link, !.stage = "answering"]]

TakeRun(x) ==
  /\ Serving("run")
  /\ exec[x].stage = "free"
  /\ \A y \in Executions : exec[y].stage = "free" => x <= y
  /\ LET r == Head(down[link]).run
     IN  /\ Send(Frame("ack", r, [verdict |-> "accepted", who |-> x]))
         /\ StartGoroutine(x, r)
  /\ UNCHANGED <<wire, phase, attached, serving, runVars, at, link, backoff>>

Cancelled(r) == [x \in Executions |->
  IF cancels[r] = x /\ Live(x) THEN [exec[x] EXCEPT !.cancelled = TRUE] ELSE exec[x]]

TakeCancel ==
  /\ Serving("cancel")
  /\ exec' = Cancelled(Head(down[link]).run)
  /\ UNCHANGED <<wire, up, phase, attached, serving, runVars, at, link, backoff, cancels>>

\* Logged.
TakeError ==
  /\ Serving("error")
  /\ UNCHANGED <<wire, up, phase, attached, serving, runVars, probeVars>>

-----------------------------------------------------------------------------
(* startRun's goroutine.  Its frames go out by the connection it came from.*)

Connected(x) == wire[exec[x].on] = "up"
Say(x, f) == up' = [up EXCEPT ![exec[x].on] = Append(@, f)]

\* answer: at once when its context is cancelled, in any case within the
\* timeout of its client.
Answered(x) ==
  /\ exec[x].stage = "answering"
  /\ exec[x].told = 1
  /\ Connected(x)
  /\ exec' = [exec EXCEPT ![x].stage = "telling"]
  /\ UNCHANGED <<relayVars, at, link, backoff, cancels>>

Emit(x) ==
  /\ Live(x)
  /\ Connected(x)
  /\ \/ exec[x].stage = "answering" /\ exec[x].told = 0
     \/ exec[x].stage = "telling" /\ exec[x].told < Len(Story)
  /\ Say(x, Frame("event", exec[x].run, [who |-> x, nth |-> exec[x].told + 1]))
  /\ exec' = [exec EXCEPT ![x].told = @ + 1]
  /\ UNCHANGED <<wire, down, phase, attached, serving, runVars, at, link, backoff, cancels>>

\* finish, then the deferred cancel and remove: by run id, whoever is there.
Finish_UnlessCancelled(x) ==
  /\ exec[x].stage = "telling"
  /\ exec[x].told = Len(Story)
  /\ Connected(x)
  /\ IF exec[x].cancelled THEN UNCHANGED up ELSE Say(x, Frame("finish", exec[x].run, None))
  /\ exec' = [exec EXCEPT ![x].stage = "done"]
  /\ cancels' = [cancels EXCEPT ![exec[x].run] = None]
  /\ UNCHANGED <<wire, down, phase, attached, serving, runVars, at, link, backoff>>

\* A failed answer that ends the run at once, its closing events unsaid.
Finish_AtAFailure(x) ==
  /\ exec[x].stage = "telling"
  /\ exec[x].told = Len(Story) \/ exec[x].cancelled
  /\ Connected(x)
  /\ Say(x, Frame("finish", exec[x].run, None))
  /\ exec' = [exec EXCEPT ![x] = Done(x)]
  /\ cancels' = [cancels EXCEPT ![exec[x].run] = None]
  /\ UNCHANGED <<wire, down, phase, attached, serving, runVars, at, link, backoff>>

Finish(x) ==
  /\ exec[x].stage = "telling"
  /\ exec[x].told = Len(Story)
  /\ Connected(x)
  /\ Say(x, Frame("finish", exec[x].run, None))
  /\ exec' = [exec EXCEPT ![x] = Done(x)]
  /\ cancels' = [cancels EXCEPT ![exec[x].run] = None]
  /\ UNCHANGED <<wire, down, phase, attached, serving, runVars, at, link, backoff>>

\* Its connection gone, it works on to the end and every write fails; the
\* cancelSet it removes itself from is one nobody reads any more.
WorksOn(x) ==
  /\ Live(x)
  /\ ~Connected(x)
  /\ exec' = [exec EXCEPT ![x] = Done(x)]
  /\ UNCHANGED <<relayVars, at, link, backoff, cancels>>

-----------------------------------------------------------------------------
Next ==
  \/ GatewayNext /\ UNCHANGED probeVars
  \/ \E c \in Connections : Dial(c) \/ WireBreaks(c)
  \/ CannotDial \/ Welcomed \/ Registered \/ ConnectionEnds \/ Wait \/ Restart
  \/ \E x \in Executions : TakeRun(x) \/ Answered(x) \/ Emit(x) \/ Finish(x) \/ WorksOn(x)
  \/ TakeCancel \/ TakeError

Spec == Init /\ [][Next]_vars

\* The probe's loop and its goroutines get on.
ProbeRuns ==
  /\ WF_vars(ConnectionEnds) /\ WF_vars(TakeCancel) /\ WF_vars(TakeError)
  /\ \A x \in Executions : WF_vars(TakeRun(x)) /\ WF_vars(Emit(x))
                        /\ WF_vars(Answered(x)) /\ WF_vars(Finish(x)) /\ WF_vars(WorksOn(x))

FairSpec == Spec /\ GatewayRuns /\ ProbeRuns

-----------------------------------------------------------------------------
Entry == [who : Executions, nth : 1..Len(Story)]
Verdict == [verdict : DOMAIN AfterVerdict, who : Executions]
Frames ==
  UNION {{Note(type) : type \in {"hello", "welcome", "register", "registered", "error"}},
         {Frame(type, r, None) : type \in {"run", "cancel", "error", "finish"}, r \in Runs},
         {Frame("ack", r, v) : r \in Runs, v \in Verdict},
         {Frame("event", r, e) : r \in Runs, e \in Entry}}

TypeOK ==
  /\ wire \in [Connections -> {"none", "up", "broken"}]
  /\ phase \in [Connections -> {"new", "attached", "closed"}]
  /\ up \in [Connections -> Seq(Frames)]
  /\ down \in [Connections -> Seq(Frames)]
  /\ attached \in Connections \cup {None}
  /\ serving \in BOOLEAN
  /\ status \in [Runs -> {"none", "ended", "cancelled", "failed"} \cup Known]
  /\ claim \in [Runs -> Executions \cup {None}]
  /\ offers \in [Runs -> 0..MaxOffers]
  /\ record \in [Runs -> Seq(Entry)]
  /\ at \in {"ticket", "welcome", "registered", "serving", "waiting"}
  /\ link \in Connections \cup {None}
  /\ backoff \in 1..(2 * MaxBackoff)
  /\ cancels \in [Runs -> Executions \cup {None}]
  /\ exec \in [Executions ->
        [run : Runs \cup {None}, on : Connections \cup {None},
         stage : {"free", "answering", "telling", "done"},
         told : 0..Len(Story), cancelled : BOOLEAN]]

(***************************************************************************)
(* "Events sent in the same breath as the ack are not lost": of the        *)
(* execution whose yes gave it the run, the record has every event from    *)
(* the first on, in order, whatever arrived late from an earlier socket.   *)
(***************************************************************************)
TheOpeningIsKept ==
  \A r \in Runs : \A i \in DOMAIN record[r] :
    LET e == record[r][i]
        earlier == {record[r][j] : j \in 1..(i - 1)}
    IN  e.who = claim[r] =>
          /\ e.nth = 1 \/ [who |-> e.who, nth |-> e.nth - 1] \in earlier
          /\ \A f \in earlier : f.who = e.who => f.nth < e.nth

TookOnce(x) == \A y \in Executions :
  exec[y].run = exec[x].run /\ exec[y].on = exec[x].on => y = x

(***************************************************************************)
(* A cancel that reaches the probe's read loop stops the work on that run, *)
(* if the probe took it once on this connection.  Of a run it took twice   *)
(* (core had taken it back in between) the cancelSet knows one execution,  *)
(* and none after the first of them has removed its run.                   *)
(***************************************************************************)
CancelReachesTheRun ==
  [][TakeCancel => \A x \in Executions :
       Live(x) /\ exec[x].on = link /\ exec[x].run = Head(down[link]).run /\ TookOnce(x)
         => exec'[x].cancelled]_vars

(***************************************************************************)
(* A run the provider took ends, by its finish or with its link: nobody    *)
(* reads a stream that stays open over a provider that is gone.            *)
(***************************************************************************)
HeldRunsEnd == \A r \in Runs : Held(r) ~> ~Held(r)

-----------------------------------------------------------------------------
(* Refinement.  How a run stands for whoever started it, and the           *)
(* executions that took it up.                                             *)

Fate(r) == IF status[r] \in {"queued", "offered"} THEN "waiting" ELSE status[r]

Crew(r) == {x \in Executions : exec[x].stage # "free" /\ exec[x].run = r}

Contract ==
  INSTANCE RunContract WITH
    Workers  <- Executions,
    Nobody   <- None,
    Length   <- Len(Story),
    Thorough <- TRUE,
    MayStray <- FALSE,
    fate     <- [r \in Runs |-> Fate(r)],
    crew     <- [r \in Runs |-> Crew(r)],
    holder   <- claim,
    record   <- record

(***************************************************************************)
(* Gateway and probe keep the contract of a run: whatever connections,     *)
(* late verdicts, restarts and goroutines do, a run is given once, the     *)
(* record of its holder has no gap, and a finish that only the holder can  *)
(* have sent comes behind the last event of its story.                     *)
(***************************************************************************)
RunContractKept == Contract!Spec
=============================================================================
