-------------------------- MODULE DelegationProofs --------------------------
(***************************************************************************)
(* Proofs about Delegation: type correctness, conversations that never     *)
(* meet at the sub-agent and keep to one thread there, a name that nobody  *)
(* won by chance, and a prompt without a message twice.                    *)
(***************************************************************************)
EXTENDS Delegation, FiniteSetTheorems, SequenceTheorems, TLAPS

(* One step, unfolded to the actions. *)
LEMMA StepCases ==
  ASSUME Next
  PROVE  \/ \E c \in Conversations :
              \/ StartTurn(c) \/ RunAdapter(c) \/ ModelFinishes(c) \/ TurnEnds(c)
              \/ CloseStream(c)
         \/ \E c \in Conversations, k \in Calls : CallTool(c, k)
         \/ \E k \in Calls :
              \/ Resolve(k) \/ SendStream(k) \/ HearNothing(k) \/ HearUpdate(k)
              \/ HearTheEnd(k) \/ Fails(k)
         \/ (\E r \in Runs : RunEnds(r)) /\ UNCHANGED agentVars
         \/ (\E p \in Agents : Register(p)) /\ UNCHANGED agentVars
  BY DEF Next, OfTurn, OfCall, Elsewhere, Core

-----------------------------------------------------------------------------
(***************************************************************************)
(* Type correctness.  Only a call of a conversation is ever past "none",   *)
(* and one that reads has a run to read of.                                *)
(***************************************************************************)
Placed == \A k \in Calls :
            /\ tool[k].at # "none" => tool[k].of \in Conversations
            /\ tool[k].at = "reading" => tool[k].run \in Runs

LEMMA NoToolType == NoTool \in Tools /\ NoTool.at = "none" /\ NoTool.run = Nowhere
  BY DEF NoTool, Tools

(* What the actions of a call make of its record. *)
LEMMA SetsOutType ==
  ASSUME TypeOK, Placed, NEW k \in Calls, NEW c \in Conversations, SetsOut(k, c)
  PROVE  /\ tool' \in [Calls -> Tools] /\ blind' \in [Conversations -> BOOLEAN]
         /\ tool' = [tool EXCEPT ![k] = tool'[k]]
         /\ tool'[k].at = "sending" /\ tool'[k].of = c
         /\ tool'[k].context = contexts[c] /\ tool'[k].run = Nowhere
         /\ Placed'
  <1>1. [NoTool EXCEPT !.of = c, !.at = "sending", !.context = contexts[c]] \in Tools
    BY DEF NoTool, Tools, TypeOK
  <1>2. blind' \in [Conversations -> BOOLEAN]
    BY DEF SetsOut, TypeOK
  <1>3. /\ tool' = [tool EXCEPT ![k] = tool'[k]] /\ tool' \in [Calls -> Tools]
        /\ tool'[k] = [NoTool EXCEPT !.of = c, !.at = "sending", !.context = contexts[c]]
    BY <1>1 DEF SetsOut, TypeOK
  <1>4. tool'[k].at = "sending" /\ tool'[k].of = c
        /\ tool'[k].context = contexts[c] /\ tool'[k].run = Nowhere
    BY <1>3 DEF NoTool
  <1>5. Placed'
    BY <1>3, <1>4 DEF Placed, TypeOK
  <1>6. QED
    BY <1>2, <1>3, <1>4, <1>5

LEMMA AbandonedType ==
  ASSUME TypeOK, Placed, NEW c, tool' = Abandoned(c)
  PROVE  /\ tool' \in [Calls -> Tools] /\ Placed'
         /\ \A k \in Calls : \/ tool'[k] = tool[k]
                             \/ /\ tool[k].at # "none" /\ tool'[k].at = "over"
                                /\ tool'[k].of = tool[k].of /\ tool'[k].run = tool[k].run
                                /\ tool'[k].context = Nowhere
  <1>1. ASSUME NEW k \in Calls
        PROVE  /\ tool'[k] \in Tools
               /\ \/ tool'[k] = tool[k]
                  \/ /\ tool[k].at # "none" /\ tool'[k].at = "over"
                     /\ tool'[k].of = tool[k].of /\ tool'[k].run = tool[k].run
                     /\ tool'[k].context = Nowhere
    <2>1. tool[k] \in Tools
      BY DEF TypeOK
    <2>2. \/ tool'[k] = tool[k]
          \/ /\ InFlight(k)
             /\ tool'[k] = [tool[k] EXCEPT !.at = "over", !.listed = {}, !.context = Nowhere,
                                           !.result = "dropped"]
      BY DEF Abandoned
    <2>3. QED
      BY <2>1, <2>2 DEF Tools, InFlight
  <1>2. tool' \in [Calls -> Tools]
    BY <1>1 DEF Abandoned
  <1>3. Placed'
    BY <1>1 DEF Placed
  <1>4. QED
    BY <1>1, <1>2, <1>3

LEMMA TurnType ==
  ASSUME TypeOK, Placed, NEW c \in Conversations,
         \/ StartTurn(c) \/ RunAdapter(c) \/ ModelFinishes(c) \/ TurnEnds(c) \/ CloseStream(c)
  PROVE  TypeOK' /\ Placed'
  <1>1. turn' \in [Conversations -> [at : {"idle", "asked", "running", "ending"}, no : 0..MaxTurns]]
    <2>1. CASE StartTurn(c)
      <3>1. turn' = [turn EXCEPT ![c] = [at |-> "asked", no |-> turn[c].no + 1]]
            /\ turn[c].no < MaxTurns
        BY <2>1 DEF StartTurn
      <3>2. turn[c].no + 1 \in 0..MaxTurns
        BY <3>1, DelegationAssumption DEF TypeOK
      <3>3. QED
        BY <3>1, <3>2 DEF TypeOK
    <2>2. CASE ~StartTurn(c)
      <3>1. \E at \in {"running", "ending", "idle"} : turn' = [turn EXCEPT ![c].at = at]
        BY <2>2 DEF RunAdapter, ModelFinishes, TurnEnds, CloseStream
      <3>2. QED
        BY <3>1 DEF TypeOK
    <2>3. QED
      BY <2>1, <2>2
  <1>2. UNCHANGED <<doorVars, address, contexts, opened, blind>>
    BY DEF StartTurn, RunAdapter, ModelFinishes, TurnEnds, CloseStream, Carried
  <1>3. tool' \in [Calls -> Tools] /\ Placed'
    BY AbandonedType
    DEF StartTurn, RunAdapter, ModelFinishes, TurnEnds, CloseStream, TypeOK, Placed
  <1>4. QED
    BY <1>1, <1>2, <1>3 DEF TypeOK, DoorsTypeOK, doorVars

(* The callee's side: a run is opened once and stays on its thread. *)
RunsStay == \A r \in Runs : run[r].st # "none" => /\ run'[r].st # "none"
                                                  /\ run'[r].thread = run[r].thread

LEMMA CoreType ==
  ASSUME DoorsTypeOK, (\E r \in Runs : RunEnds(r)) \/ (\E p \in Agents : Register(p))
  PROVE  DoorsTypeOK' /\ RunsStay
  <1>1. ASSUME NEW r \in Runs, RunEnds(r) PROVE DoorsTypeOK' /\ RunsStay
    <2>1. run[r].st = "open"
      BY <1>1 DEF RunEnds, Open
    <2>2. UNCHANGED <<roster, alone, thread, call>>
      BY <1>1 DEF RunEnds
    <2>3. PICK A \in SUBSET Asks :
            \/ run' = [run EXCEPT ![r].st = "completed", ![r].asks = A]
            \/ run' = [run EXCEPT ![r].st = "failed"]
      BY <1>1 DEF RunEnds
    <2>4. run' \in [Runs -> RunRecords]
      BY <2>3 DEF DoorsTypeOK, RunRecords
    <2>5. RunsStay
      BY <2>1, <2>3 DEF DoorsTypeOK, RunsStay, RunRecords
    <2>6. QED
      BY <2>2, <2>4, <2>5 DEF DoorsTypeOK
  <1>2. ASSUME NEW p \in Agents, Register(p) PROVE DoorsTypeOK' /\ RunsStay
    BY <1>2 DEF Register, DoorsTypeOK, RunsStay
  <1>3. QED
    BY <1>1, <1>2

LEMMA MessageType ==
  ASSUME DoorsTypeOK, NEW context, NEW p \in Agents \cup {None}, NEW t \in Threads,
         NEW r \in Runs, Message(context, p, t, r)
  PROVE  /\ DoorsTypeOK' /\ RunsStay
         /\ run[r].st = "none" /\ run'[r].st # "none" /\ run'[r].thread = t
         /\ context # Nowhere => t = context
         /\ UNCHANGED <<roster, alone, call>>
  <1>1. run' = [run EXCEPT ![r] = [NoRun EXCEPT !.thread = t, !.st = "open", !.root = r]]
    BY DEF Message, OpenRun
  <1>2. [NoRun EXCEPT !.thread = t, !.st = "open", !.root = r] \in RunRecords
    BY DEF NoRun, RunRecords
  <1>3. r # Nowhere
    BY DEF Runs, Nowhere
  <1>4. run[r].st = "none"
    BY <1>3 DEF Message, OpenRun, Opened
  <1>5. run'[r].st # "none" /\ run'[r].thread = t
    BY <1>1 DEF DoorsTypeOK, NoRun
  <1>6. RunsStay
    BY <1>1, <1>4 DEF DoorsTypeOK, RunsStay
  <1>7. thread' \in [Threads -> [agent : Agents \cup {None}, bound : BOOLEAN]]
    <2>1. [agent |-> p, bound |-> TRUE] \in [agent : Agents \cup {None}, bound : BOOLEAN]
      OBVIOUS
    <2>2. UNCHANGED thread \/ thread' = [thread EXCEPT ![t] = [agent |-> p, bound |-> TRUE]]
      BY DEF Message
    <2>3. QED
      BY <2>1, <2>2 DEF DoorsTypeOK
  <1>8. /\ context # Nowhere => t = context
        /\ UNCHANGED <<roster, alone, call>>
    BY DEF Message
  <1>9. DoorsTypeOK'
    BY <1>1, <1>2, <1>7, <1>8 DEF DoorsTypeOK
  <1>10. QED
    BY <1>4, <1>5, <1>6, <1>8, <1>9

(* A call that is under way changes in its own record only. *)
LEMMA OneCall ==
  ASSUME TypeOK, Placed, NEW k \in Calls, NEW x \in Tools, tool[k].at # "none",
         x.of = tool[k].of, x.at = "reading" => x.run \in Runs, tool' = [tool EXCEPT ![k] = x]
  PROVE  tool' \in [Calls -> Tools] /\ Placed'
  BY DEF TypeOK, Placed

LEMMA CallType ==
  ASSUME TypeOK, Placed, NEW k \in Calls,
         \/ \E c \in Conversations : CallTool(c, k)
         \/ Resolve(k) \/ SendStream(k) \/ HearNothing(k) \/ HearUpdate(k)
         \/ HearTheEnd(k) \/ Fails(k)
  PROVE  TypeOK' /\ Placed'
  <1> USE DEF TypeOK, DoorsTypeOK
  <1>0. /\ tool[k] \in Tools
        /\ tool[k].at # "none" => tool[k].of \in Conversations
        /\ tool[k].at = "reading" => tool[k].run \in Runs
    BY DEF Placed
  <1>1. ASSUME NEW c \in Conversations, CallTool(c, k) PROVE TypeOK' /\ Placed'
    <2>1. UNCHANGED <<doorVars, turn, prompt, address, contexts, opened>>
      BY <1>1 DEF CallTool
    <2>2. CASE SetsOut(k, c)
      BY <2>1, <2>2, SetsOutType DEF doorVars
    <2>3. CASE ~SetsOut(k, c)
      <3>1. [NoTool EXCEPT !.of = c, !.at = "lookup", !.listed = Candidates] \in Tools
        BY DEF NoTool, Tools, Candidates
      <3>2. /\ tool' = [tool EXCEPT ![k] = [NoTool EXCEPT !.of = c, !.at = "lookup",
                                                          !.listed = Candidates]]
            /\ UNCHANGED blind
        BY <1>1, <2>3 DEF CallTool
      <3>3. tool'[k].of = c
        BY <3>2 DEF NoTool
      <3>4. tool' \in [Calls -> Tools]
        BY <3>1, <3>2
      <3>5. Placed'
        BY <3>2, <3>3 DEF Placed
      <3>6. QED
        BY <2>1, <3>2, <3>4, <3>5 DEF doorVars
    <2>4. QED
      BY <2>2, <2>3
  <1>2. CASE Resolve(k)
    <2>1. UNCHANGED <<doorVars, turn, prompt, contexts, opened>> /\ tool[k].at = "lookup"
      BY <1>2 DEF Resolve
    <2>2. CASE Resolved(tool[k].listed) # None
      <3>1. address' \in Agents
        <4>1. tool[k].listed \subseteq Agents
          BY <1>0 DEF Tools
        <4>2. Cardinality(tool[k].listed) = 1 /\ address' = CHOOSE p \in tool[k].listed : TRUE
          BY <1>2, <2>2 DEF Resolve, Resolved
        <4>3. \E p : tool[k].listed = {p}
          BY <4>1, <4>2, FS_Subset, FS_Singleton, DoorsAssumption
        <4>4. QED
          BY <4>1, <4>2, <4>3
      <3>2. SetsOut(k, tool[k].of)
        BY <1>2, <2>2 DEF Resolve
      <3>3. QED
        BY <1>0, <2>1, <3>1, <3>2, SetsOutType DEF doorVars
    <2>3. CASE Resolved(tool[k].listed) = None
      <3>1. /\ tool' = [tool EXCEPT ![k] = [tool[k] EXCEPT !.at = "over", !.listed = {},
                                                           !.result = "unreached"]]
            /\ UNCHANGED <<address, blind>>
        BY <1>2, <2>3 DEF Resolve
      <3>2. [tool[k] EXCEPT !.at = "over", !.listed = {}, !.result = "unreached"] \in Tools
        BY <1>0 DEF Tools
      <3>3. [tool[k] EXCEPT !.at = "over", !.listed = {}, !.result = "unreached"].of = tool[k].of
            /\ [tool[k] EXCEPT !.at = "over", !.listed = {}, !.result = "unreached"].at = "over"
        BY <1>0 DEF Tools
      <3>4. QED
        BY <2>1, <3>1, <3>2, <3>3, OneCall DEF doorVars
    <2>4. QED
      BY <2>2, <2>3
  <1>3. CASE SendStream(k)
    <2>1. PICK t \in Threads, r \in Runs :
            /\ Message(tool[k].context, address, t, r)
            /\ opened' = IF tool[k].context = Nowhere
                         THEN [opened EXCEPT ![tool[k].of] = @ \cup {t}] ELSE opened
            /\ tool' = [tool EXCEPT ![k] = [tool[k] EXCEPT !.at = "reading", !.run = r,
                                                           !.context = Nowhere]]
      BY <1>3 DEF SendStream
    <2>2. /\ [tool[k] EXCEPT !.at = "reading", !.run = r, !.context = Nowhere] \in Tools
          /\ [tool[k] EXCEPT !.at = "reading", !.run = r, !.context = Nowhere].of = tool[k].of
          /\ [tool[k] EXCEPT !.at = "reading", !.run = r, !.context = Nowhere].run = r
      BY <1>0 DEF Tools
    <2>3. DoorsTypeOK'
      BY <2>1, MessageType
    <2>4. opened' \in [Conversations -> SUBSET Threads]
      BY <2>1
    <2>5. tool[k].at # "none" /\ UNCHANGED <<turn, prompt, address, contexts, blind>>
      BY <1>3 DEF SendStream
    <2>6. QED
      BY <2>1, <2>2, <2>3, <2>4, <2>5, OneCall
  <1>4. CASE HearNothing(k)
    <2>1. /\ [tool[k] EXCEPT !.at = "over", !.context = Nowhere, !.result = "silence"] \in Tools
          /\ [tool[k] EXCEPT !.at = "over", !.context = Nowhere, !.result = "silence"].of
               = tool[k].of
          /\ [tool[k] EXCEPT !.at = "over", !.context = Nowhere, !.result = "silence"].at = "over"
      BY <1>0 DEF Tools
    <2>2. QED
      BY <1>4, <2>1, OneCall DEF HearNothing, doorVars
  <1>5. ASSUME NEW t \in Threads \cup {Nowhere}, tool[k].at # "none",
               contexts' = Remember(tool[k].of, t)
        PROVE  contexts' \in [Conversations -> Threads \cup {Nowhere}]
    BY <1>0, <1>5 DEF Remember
  <1>6. CASE HearUpdate(k) \/ HearTheEnd(k)
    <2>0. Report(tool[k].run) \in {"failed", "pending", "answer"}
      BY DEF Report
    <2>1. \E x \in Tools : /\ x.of = tool[k].of /\ (x.at = "reading" => x.run \in Runs)
                           /\ tool' = [tool EXCEPT ![k] = x]
      <3>1. CASE HearUpdate(k)
        <4>1. /\ [tool[k] EXCEPT !.told = TRUE] \in Tools
              /\ [tool[k] EXCEPT !.told = TRUE].of = tool[k].of
              /\ [tool[k] EXCEPT !.told = TRUE].run = tool[k].run
              /\ tool[k].run \in Runs
          BY <1>0, <3>1 DEF Tools, HearUpdate
        <4>2. QED
          BY <3>1, <4>1 DEF HearUpdate
      <3>2. CASE HearTheEnd(k)
        <4>1. /\ [tool[k] EXCEPT !.at = "over", !.result = Report(tool[k].run)] \in Tools
              /\ [tool[k] EXCEPT !.at = "over", !.result = Report(tool[k].run)].of = tool[k].of
              /\ [tool[k] EXCEPT !.at = "over", !.result = Report(tool[k].run)].at = "over"
          BY <1>0, <2>0 DEF Tools
        <4>2. tool' = [tool EXCEPT ![k] = [tool[k] EXCEPT !.at = "over",
                                                          !.result = Report(tool[k].run)]]
          BY <3>2 DEF HearTheEnd
        <4>3. QED
          BY <4>1, <4>2
      <3>3. QED
        BY <1>6, <3>1, <3>2
    <2>2. /\ tool[k].at = "reading" /\ contexts' = Remember(tool[k].of, run[tool[k].run].thread)
          /\ UNCHANGED <<doorVars, turn, prompt, address, opened, blind>>
      BY <1>6 DEF HearUpdate, HearTheEnd
    <2>3. run[tool[k].run].thread \in Threads \cup {Nowhere}
      BY <1>0, <2>2 DEF RunRecords
    <2>4. contexts' \in [Conversations -> Threads \cup {Nowhere}]
      BY <1>5, <2>2, <2>3
    <2>5. tool' \in [Calls -> Tools] /\ Placed'
      BY <2>1, <2>2, OneCall
    <2>6. QED
      BY <2>2, <2>4, <2>5 DEF doorVars
  <1>7. CASE Fails(k)
    <2>1. tool' = Abandoned(tool[k].of) /\ turn' = [turn EXCEPT ![tool[k].of].at = "ending"]
          /\ UNCHANGED <<doorVars, prompt, address, contexts, opened, blind>>
      BY <1>7 DEF Fails, ToolRaises, AfterFailure
    <2>2. QED
      BY <1>0, <2>1, AbandonedType DEF doorVars
  <1>8. QED
    BY <1>1, <1>2, <1>3, <1>4, <1>6, <1>7

LEMMA DelegationInit == Init => TypeOK /\ Placed
  <1> SUFFICES ASSUME Init PROVE TypeOK /\ Placed
    OBVIOUS
  <1>1. NoRun \in RunRecords
    BY DEF NoRun, RunRecords
  <1>2. [agent |-> None, bound |-> FALSE] \in [agent : Agents \cup {None}, bound : BOOLEAN]
    OBVIOUS
  <1>3. call.op \in Ops \cup {"none"} /\ call.run \in Runs \cup {Nowhere}
    BY DEF Init, DoorsInit, NoCall
  <1>4. DoorsTypeOK
    BY <1>1, <1>2, <1>3 DEF Init, DoorsInit, DoorsTypeOK
  <1>5. turn \in [Conversations -> [at : {"idle", "asked", "running", "ending"}, no : 0..MaxTurns]]
    BY DelegationAssumption DEF Init
  <1>6. blind \in [Conversations -> BOOLEAN]
    BY DEF Init
  <1>7. tool \in [Calls -> Tools] /\ Placed
    BY NoToolType DEF Init, Placed
  <1>8. QED
    BY <1>4, <1>5, <1>6, <1>7 DEF Init, TypeOK

LEMMA DelegationNext == TypeOK /\ Placed /\ [Next]_vars => TypeOK' /\ Placed'
  <1> SUFFICES ASSUME TypeOK, Placed, [Next]_vars PROVE TypeOK' /\ Placed'
    OBVIOUS
  <1>1. CASE UNCHANGED vars
    BY <1>1 DEF vars, doorVars, agentVars, TypeOK, DoorsTypeOK, Placed
  <1>2. CASE ((\E r \in Runs : RunEnds(r)) \/ (\E p \in Agents : Register(p)))
             /\ UNCHANGED agentVars
    BY <1>2, CoreType DEF agentVars, TypeOK, Placed
  <1>3. CASE Next
    BY <1>2, <1>3, StepCases, TurnType, CallType
  <1>4. QED
    BY <1>1, <1>3

(***************************************************************************)
(* Every variable keeps its type, for any number of agents, conversations, *)
(* turns and calls.                                                        *)
(***************************************************************************)
THEOREM DelegationTypeCorrect == Spec => []TypeOK
  BY DelegationInit, DelegationNext, PTL DEF Spec

-----------------------------------------------------------------------------
(***************************************************************************)
(* Conversations stay apart.  Everything a conversation knows of the       *)
(* callee's side - the contextId it remembers, the one a call carries, the *)
(* run a call reads - is a thread opened for it, and runs do not move.     *)
(***************************************************************************)
Owned ==
  /\ \A c \in Conversations : contexts[c] \in opened[c] \cup {Nowhere}
  /\ \A k \in Calls :
       /\ tool[k].at # "none" => tool[k].context \in opened[tool[k].of] \cup {Nowhere}
       /\ tool[k].run # Nowhere => /\ tool[k].at # "none"
                                  /\ run[tool[k].run].st # "none"
                                  /\ run[tool[k].run].thread \in opened[tool[k].of]

(* Owned asks of each call only what a step can change. *)
LEMMA OwnedCalls ==
  ASSUME TypeOK, Placed, Owned, RunsStay,
         \A c \in Conversations : opened[c] \subseteq opened'[c],
         \A c \in Conversations : contexts'[c] \in opened'[c] \cup {Nowhere},
         \A k \in Calls :
           \/ tool'[k] = tool[k]
           \/ /\ tool[k].at # "none" /\ tool'[k].at # "none"
              /\ tool'[k].of = tool[k].of /\ tool'[k].run = tool[k].run
              /\ tool'[k].context \in {tool[k].context, Nowhere}
           \/ /\ tool'[k].at # "none"
              /\ tool'[k].context \in opened'[tool'[k].of] \cup {Nowhere}
              /\ tool'[k].run # Nowhere => /\ run'[tool'[k].run].st # "none"
                                          /\ run'[tool'[k].run].thread \in opened'[tool'[k].of]
  PROVE  Owned'
  <1>1. ASSUME NEW k \in Calls
        PROVE  /\ tool'[k].at # "none" => tool'[k].context \in opened'[tool'[k].of] \cup {Nowhere}
               /\ tool'[k].run # Nowhere => /\ tool'[k].at # "none"
                                           /\ run'[tool'[k].run].st # "none"
                                           /\ run'[tool'[k].run].thread \in opened'[tool'[k].of]
    <2>1. tool[k].run \in Runs \cup {Nowhere}
      BY DEF TypeOK, Tools
    <2>2. CASE tool[k].at # "none" /\ tool'[k].at # "none"
               /\ tool'[k].of = tool[k].of /\ tool'[k].run = tool[k].run
               /\ tool'[k].context \in {tool[k].context, Nowhere}
      <3>1. opened[tool[k].of] \subseteq opened'[tool[k].of]
        BY <2>2 DEF Placed
      <3>2. QED
        BY <2>1, <2>2, <3>1 DEF Owned, RunsStay
    <2>3. CASE tool[k].at = "none" /\ tool'[k] = tool[k]
      BY <2>3 DEF Owned
    <2>4. QED
      BY <2>2, <2>3
  <1>2. QED
    BY <1>1 DEF Owned

LEMMA OwnedSetsOut ==
  ASSUME TypeOK, Placed, Owned, NEW k \in Calls, NEW c \in Conversations, SetsOut(k, c),
         UNCHANGED <<run, contexts, opened>>
  PROVE  Owned'
  <1>1. /\ tool' = [tool EXCEPT ![k] = tool'[k]]
        /\ tool'[k].at = "sending" /\ tool'[k].of = c
        /\ tool'[k].context = contexts[c] /\ tool'[k].run = Nowhere
    BY SetsOutType
  <1>2. \A j \in Calls : j # k => tool'[j] = tool[j]
    BY <1>1 DEF TypeOK
  <1>3. RunsStay
    BY DEF RunsStay
  <1>4. QED
    BY <1>1, <1>2, <1>3, OwnedCalls DEF Owned

LEMMA OwnedCall ==
  ASSUME TypeOK, Placed, Owned, NEW k \in Calls,
         \/ \E c \in Conversations : CallTool(c, k)
         \/ Resolve(k) \/ SendStream(k) \/ HearNothing(k) \/ HearUpdate(k)
         \/ HearTheEnd(k) \/ Fails(k)
  PROVE  Owned'
  <1>0. /\ tool \in [Calls -> Tools] /\ tool[k] \in Tools
        /\ tool[k].at # "none" => tool[k].of \in Conversations
        /\ tool[k].at = "reading" => tool[k].run \in Runs
    BY DEF TypeOK, Placed
  <1>1. (UNCHANGED run) => RunsStay
    BY DEF RunsStay
  <1>2. \A x : tool' = [tool EXCEPT ![k] = x] =>
                  tool'[k] = x /\ \A j \in Calls : j # k => tool'[j] = tool[j]
    BY <1>0
  <1>3. ASSUME NEW c \in Conversations, CallTool(c, k) PROVE Owned'
    <2>1. UNCHANGED <<run, contexts, opened>>
      BY <1>3 DEF CallTool, doorVars
    <2>2. CASE ~SetsOut(k, c)
      <3>1. tool' = [tool EXCEPT ![k] = [NoTool EXCEPT !.of = c, !.at = "lookup",
                                                       !.listed = Candidates]]
        BY <1>3, <2>2 DEF CallTool
      <3>2. tool'[k].at = "lookup" /\ tool'[k].context = Nowhere /\ tool'[k].run = Nowhere
        BY <1>2, <3>1 DEF NoTool
      <3>3. QED
        BY <1>1, <1>2, <2>1, <3>1, <3>2, OwnedCalls DEF Owned
    <2>3. QED
      BY <1>3, <2>1, <2>2, OwnedSetsOut
  <1>4. CASE Resolve(k)
    <2>1. UNCHANGED <<run, contexts, opened>> /\ tool[k].at = "lookup"
      BY <1>4 DEF Resolve, doorVars
    <2>2. CASE tool' = [tool EXCEPT ![k] = [tool[k] EXCEPT !.at = "over", !.listed = {},
                                                           !.result = "unreached"]]
      <3>1. /\ tool'[k].at = "over" /\ tool'[k].of = tool[k].of /\ tool'[k].run = tool[k].run
            /\ tool'[k].context = tool[k].context
        BY <1>0, <1>2, <2>2 DEF Tools
      <3>2. QED
        BY <1>1, <1>2, <2>1, <2>2, <3>1, OwnedCalls DEF Owned
    <2>3. QED
      BY <1>0, <1>4, <2>1, <2>2, OwnedSetsOut DEF Resolve
  <1>5. CASE SendStream(k)
    <2>1. PICK t \in Threads, r \in Runs :
            /\ Message(tool[k].context, address, t, r)
            /\ opened' = IF tool[k].context = Nowhere
                         THEN [opened EXCEPT ![tool[k].of] = @ \cup {t}] ELSE opened
            /\ tool' = [tool EXCEPT ![k] = [tool[k] EXCEPT !.at = "reading", !.run = r,
                                                           !.context = Nowhere]]
      BY <1>5 DEF SendStream
    <2>2. /\ tool[k].at = "sending" /\ UNCHANGED contexts
      BY <1>5 DEF SendStream
    <2>3. /\ RunsStay /\ run'[r].st # "none" /\ run'[r].thread = t
          /\ tool[k].context # Nowhere => t = tool[k].context
      BY <2>1, MessageType DEF TypeOK
    <2>4. /\ tool'[k].at = "reading" /\ tool'[k].of = tool[k].of /\ tool'[k].run = r
          /\ tool'[k].context = Nowhere
      BY <1>0, <1>2, <2>1 DEF Tools
    <2>5. \A c \in Conversations : opened[c] \subseteq opened'[c]
      BY <2>1 DEF TypeOK
    <2>6. t \in opened'[tool[k].of]
      <3>1. CASE tool[k].context = Nowhere
        BY <1>0, <2>1, <2>2, <3>1 DEF TypeOK
      <3>2. CASE tool[k].context # Nowhere
        BY <2>1, <2>2, <2>3, <3>2 DEF Owned
      <3>3. QED
        BY <3>1, <3>2
    <2>7. QED
      BY <1>2, <2>1, <2>2, <2>3, <2>4, <2>5, <2>6, OwnedCalls DEF Owned
  <1>6. CASE HearNothing(k)
    <2>1. /\ UNCHANGED <<run, contexts, opened>> /\ tool[k].at = "sending"
          /\ tool' = [tool EXCEPT ![k] = [tool[k] EXCEPT !.at = "over", !.context = Nowhere,
                                                         !.result = "silence"]]
      BY <1>6 DEF HearNothing, doorVars
    <2>2. /\ tool'[k].at = "over" /\ tool'[k].of = tool[k].of /\ tool'[k].run = tool[k].run
          /\ tool'[k].context = Nowhere
      BY <1>0, <1>2, <2>1 DEF Tools
    <2>3. QED
      BY <1>1, <1>2, <2>1, <2>2, OwnedCalls DEF Owned
  <1>7. CASE HearUpdate(k) \/ HearTheEnd(k)
    <2>1. /\ tool[k].at = "reading" /\ UNCHANGED <<run, opened>>
          /\ contexts' = [contexts EXCEPT ![tool[k].of] = run[tool[k].run].thread]
      BY <1>7 DEF HearUpdate, HearTheEnd, Remember, doorVars
    <2>2. /\ \A j \in Calls : j # k => tool'[j] = tool[j]
          /\ tool'[k].at # "none" /\ tool'[k].of = tool[k].of /\ tool'[k].run = tool[k].run
          /\ tool'[k].context = tool[k].context
      <3>1. CASE HearUpdate(k)
        <4>1. tool' = [tool EXCEPT ![k] = [tool[k] EXCEPT !.told = TRUE]]
          BY <3>1 DEF HearUpdate
        <4>2. tool'[k] = [tool[k] EXCEPT !.told = TRUE]
          BY <1>2, <4>1
        <4>3. QED
          BY <1>0, <1>2, <2>1, <4>1, <4>2 DEF Tools
      <3>2. CASE HearTheEnd(k)
        <4> DEFINE told == Report(tool[k].run)
        <4>1. tool' = [tool EXCEPT ![k] = [tool[k] EXCEPT !.at = "over", !.result = told]]
          BY <3>2 DEF HearTheEnd
        <4> HIDE DEF told
        <4>2. tool'[k] = [tool[k] EXCEPT !.at = "over", !.result = told]
          BY <1>2, <4>1
        <4>3. QED
          BY <1>0, <1>2, <4>1, <4>2 DEF Tools
      <3>3. QED
        BY <1>7, <3>1, <3>2
    <2>3. run[tool[k].run].thread \in opened[tool[k].of]
      <3>1. tool[k].run # Nowhere
        BY <1>0, <2>1 DEF Runs, Nowhere
      <3>2. QED
        BY <3>1 DEF Owned
    <2>4. \A c \in Conversations : contexts'[c] \in opened'[c] \cup {Nowhere}
      BY <1>0, <2>1, <2>3 DEF Owned, TypeOK
    <2>5. QED
      BY <1>1, <2>1, <2>2, <2>4, OwnedCalls
  <1>8. CASE Fails(k)
    <2>1. tool' = Abandoned(tool[k].of) /\ UNCHANGED <<run, contexts, opened>>
      BY <1>8 DEF Fails, ToolRaises, doorVars
    <2>2. QED
      BY <1>1, <2>1, AbandonedType, OwnedCalls DEF Owned
  <1>9. QED
    BY <1>3, <1>4, <1>5, <1>6, <1>7, <1>8

LEMMA OwnedNext ==
  ASSUME TypeOK, Placed, Owned, [Next]_vars
  PROVE  Owned'
  <1>1. CASE UNCHANGED vars
    BY <1>1 DEF vars, doorVars, agentVars, Owned
  <1>2. ASSUME NEW c \in Conversations,
               \/ StartTurn(c) \/ RunAdapter(c) \/ ModelFinishes(c) \/ TurnEnds(c)
               \/ CloseStream(c)
        PROVE  Owned'
    <2>1. UNCHANGED <<run, contexts, opened>>
      BY <1>2 DEF StartTurn, RunAdapter, ModelFinishes, TurnEnds, CloseStream, Carried, doorVars
    <2>2. tool' = tool \/ tool' = Abandoned(c)
      BY <1>2 DEF StartTurn, RunAdapter, ModelFinishes, TurnEnds, CloseStream
    <2>3. RunsStay
      BY <2>1 DEF RunsStay
    <2>4. QED
      BY <2>1, <2>2, <2>3, AbandonedType, OwnedCalls DEF Owned
  <1>3. CASE ((\E r \in Runs : RunEnds(r)) \/ (\E p \in Agents : Register(p)))
             /\ UNCHANGED agentVars
    BY <1>3, CoreType, OwnedCalls DEF agentVars, TypeOK, Owned
  <1>4. CASE Next
    BY <1>2, <1>3, <1>4, StepCases, OwnedCall
  <1>5. QED
    BY <1>1, <1>4

(***************************************************************************)
(* Two conversations of the agent never meet on its sub-agent's side: a    *)
(* run opened for one is on a thread opened for it.                        *)
(***************************************************************************)
THEOREM NoSharedThread == Spec => []ConversationsStayApart
  <1>1. Init => Owned
    BY NoToolType DEF Init, Owned
  <1>2. TypeOK /\ Placed /\ Owned /\ [Next]_vars => (TypeOK /\ Placed /\ Owned)'
    BY DelegationNext, OwnedNext
  <1>3. Owned => ConversationsStayApart
    BY DEF Owned, ConversationsStayApart
  <1>4. QED
    BY <1>1, <1>2, <1>3, DelegationInit, PTL DEF Spec

-----------------------------------------------------------------------------
(***************************************************************************)
(* One thread for a conversation.  A call is unheard of when it is on its  *)
(* way, or opened a run and was not told its contextId.  A conversation    *)
(* that was never blind has one such call at most, so whoever sets out     *)
(* without a contextId is the first to open a thread for it.               *)
(***************************************************************************)
UnheardOf(k) == tool[k].at = "sending" \/ (tool[k].run # Nowhere /\ ~tool[k].told)

InTheOpen(c) ==
  /\ \A j, k \in Calls :
       tool[j].of = c /\ tool[k].of = c /\ UnheardOf(j) /\ UnheardOf(k) => j = k
  /\ \A k \in Calls :
       tool[k].of = c /\ tool[k].at = "sending" /\ tool[k].context = Nowhere => opened[c] = {}
  /\ \A t, u \in opened[c] : t = u

Threading ==
  /\ \A k \in Calls :
       /\ tool[k].at \in {"none", "lookup", "sending"} =>
            tool[k].run = Nowhere /\ ~tool[k].told /\ tool[k].result = "none"
       /\ tool[k].run # Nowhere => tool[k].result # "unreached"
       /\ tool[k].told => contexts[tool[k].of] # Nowhere
  /\ \A c \in Conversations :
       opened[c] # {} => \E k \in Calls : tool[k].of = c /\ tool[k].run # Nowhere
  /\ \A c \in Conversations : blind[c] \/ InTheOpen(c)

(* No call sets out and none opens a run: those under way read on, hear    *)
(* something, or are over.                                                 *)
LEMMA ThreadingKept ==
  ASSUME TypeOK, Placed, Threading, UNCHANGED <<opened, blind>>,
         \A c \in Conversations : contexts[c] # Nowhere => contexts'[c] # Nowhere,
         \A k \in Calls :
           \/ tool'[k] = tool[k]
           \/ /\ tool[k].at # "none" /\ tool'[k].at \in {"reading", "over"}
              /\ tool'[k].of = tool[k].of /\ tool'[k].run = tool[k].run
              /\ tool[k].told => tool'[k].told
              /\ tool'[k].told => tool[k].told \/ contexts'[tool[k].of] # Nowhere
              /\ tool[k].run # Nowhere => tool'[k].result # "unreached"
           \/ /\ tool[k].at = "none" /\ tool'[k].at = "lookup"
              /\ tool'[k].run = Nowhere /\ ~tool'[k].told /\ tool'[k].result = "none"
  PROVE  Threading'
  <1>1. ASSUME NEW k \in Calls
        PROVE  /\ tool'[k].at \in {"none", "lookup", "sending"} =>
                    tool'[k].run = Nowhere /\ ~tool'[k].told /\ tool'[k].result = "none"
               /\ tool'[k].run # Nowhere => tool'[k].result # "unreached"
               /\ tool'[k].told => contexts'[tool'[k].of] # Nowhere
    <2>1. CASE tool'[k] = tool[k]
      <3>1. tool[k].told => tool[k].at # "none" /\ tool[k].of \in Conversations
        BY DEF Threading, Placed
      <3>2. QED
        BY <2>1, <3>1 DEF Threading
    <2>2. CASE tool'[k] # tool[k]
      <3>1. tool[k].at # "none" => tool[k].of \in Conversations
        BY DEF Placed
      <3>2. QED
        BY <2>2, <3>1 DEF Threading
    <2>3. QED
      BY <2>1, <2>2
  <1>2. ASSUME NEW k \in Calls
        PROVE  /\ tool[k].run # Nowhere => tool'[k].run # Nowhere /\ tool'[k].of = tool[k].of
               /\ UnheardOf(k)' => UnheardOf(k) /\ tool'[k].of = tool[k].of
               /\ tool'[k].at = "sending" => tool'[k] = tool[k]
    BY DEF Threading, UnheardOf
  <1>3. ASSUME NEW c \in Conversations, InTheOpen(c) PROVE InTheOpen(c)'
    BY <1>2, <1>3 DEF InTheOpen
  <1>4. ASSUME NEW c \in Conversations, opened'[c] # {}
        PROVE  \E k \in Calls : tool'[k].of = c /\ tool'[k].run # Nowhere
    BY <1>2, <1>4 DEF Threading
  <1>5. QED
    BY <1>1, <1>3, <1>4 DEF Threading

(* Whoever sets out unseen makes the conversation blind; whoever sets out  *)
(* seen, and with no contextId, is the conversation's first.               *)
LEMMA ThreadingSetsOut ==
  ASSUME TypeOK, Placed, Threading, NEW k \in Calls, NEW c \in Conversations, SetsOut(k, c),
         tool[k].at \in {"none", "lookup"}, UNCHANGED <<contexts, opened>>
  PROVE  Threading'
  <1>1. /\ tool'[k].at = "sending" /\ tool'[k].of = c /\ tool'[k].context = contexts[c]
        /\ tool'[k].run = Nowhere /\ ~tool'[k].told /\ tool'[k].result = "none"
        /\ \A j \in Calls : j # k => tool'[j] = tool[j]
    <2>1. tool' = [tool EXCEPT ![k] = [NoTool EXCEPT !.of = c, !.at = "sending",
                                                    !.context = contexts[c]]]
      BY DEF SetsOut
    <2>2. QED
      BY <2>1 DEF TypeOK, NoTool
  <1>2. tool[k].run = Nowhere
    BY DEF Threading
  <1>3. \A j \in Calls :
          /\ tool'[j].at \in {"none", "lookup", "sending"} =>
               tool'[j].run = Nowhere /\ ~tool'[j].told /\ tool'[j].result = "none"
          /\ tool'[j].run # Nowhere => tool'[j].result # "unreached"
          /\ tool'[j].told => contexts'[tool'[j].of] # Nowhere
    BY <1>1 DEF Threading
  <1>4. ASSUME NEW d \in Conversations, opened'[d] # {}
        PROVE  \E j \in Calls : tool'[j].of = d /\ tool'[j].run # Nowhere
    BY <1>1, <1>2, <1>4 DEF Threading
  <1>5. ASSUME NEW d \in Conversations, d # c, ~blind'[d] PROVE InTheOpen(d)'
    <2>1. InTheOpen(d)
      BY <1>5 DEF Threading, SetsOut, TypeOK
    <2>2. \A j \in Calls : tool'[j].of = d => tool'[j] = tool[j]
      BY <1>1, <1>5
    <2>3. QED
      BY <2>1, <2>2 DEF InTheOpen, UnheardOf
  <1>6. ASSUME ~blind'[c] PROVE InTheOpen(c)'
    <2>1. /\ ~blind[c]
          /\ \A j \in Calls : j # k /\ tool[j].of = c =>
               tool[j].at = "lookup" \/ tool[j].result = "unreached" \/ tool[j].told
      BY <1>6 DEF SetsOut, TypeOK, CallsOf
    <2>2. \A j \in Calls : j # k /\ tool[j].of = c => ~UnheardOf(j)
      BY <2>1 DEF Threading, UnheardOf
    <2>3. contexts[c] = Nowhere => opened[c] = {}
      BY <1>2, <2>2 DEF Threading, UnheardOf
    <2>4. \A j \in Calls : tool'[j].of = c /\ UnheardOf(j)' => j = k
      BY <1>1, <2>2 DEF UnheardOf
    <2>5. \A j \in Calls : tool'[j].of = c /\ tool'[j].at = "sending" /\ tool'[j].context = Nowhere
                             => opened'[c] = {}
      BY <1>1, <2>3, <2>4 DEF UnheardOf
    <2>6. \A t, u \in opened'[c] : t = u
      BY <2>1 DEF Threading, InTheOpen
    <2>7. QED
      BY <2>4, <2>5, <2>6 DEF InTheOpen
  <1>7. QED
    BY <1>3, <1>4, <1>5, <1>6 DEF Threading

LEMMA ThreadingSends ==
  ASSUME TypeOK, Placed, Threading, NEW k \in Calls, SendStream(k)
  PROVE  Threading'
  <1>0. /\ tool \in [Calls -> Tools] /\ tool[k] \in Tools
        /\ tool[k].at = "sending" /\ tool[k].of \in Conversations
    BY DEF TypeOK, Placed, SendStream
  <1>1. PICK t \in Threads, r \in Runs :
          /\ opened' = IF tool[k].context = Nowhere
                       THEN [opened EXCEPT ![tool[k].of] = @ \cup {t}] ELSE opened
          /\ tool' = [tool EXCEPT ![k] = [tool[k] EXCEPT !.at = "reading", !.run = r,
                                                         !.context = Nowhere]]
    BY DEF SendStream
  <1>2. /\ tool'[k].at = "reading" /\ tool'[k].of = tool[k].of /\ tool'[k].run = r
        /\ tool'[k].told = tool[k].told /\ tool'[k].result = tool[k].result
        /\ \A j \in Calls : j # k => tool'[j] = tool[j]
    BY <1>0, <1>1 DEF Tools
  <1>3. r # Nowhere /\ UNCHANGED <<contexts, blind>>
    BY DEF SendStream, Runs, Nowhere
  <1>4. tool[k].run = Nowhere /\ ~tool[k].told /\ tool[k].result = "none" /\ UnheardOf(k)
    BY <1>0 DEF Threading, UnheardOf
  <1>5. \A j \in Calls :
          /\ tool'[j].at \in {"none", "lookup", "sending"} =>
               tool'[j].run = Nowhere /\ ~tool'[j].told /\ tool'[j].result = "none"
          /\ tool'[j].run # Nowhere => tool'[j].result # "unreached"
          /\ tool'[j].told => contexts'[tool'[j].of] # Nowhere
    BY <1>2, <1>3, <1>4 DEF Threading
  <1>6. ASSUME NEW c \in Conversations, opened'[c] # {}
        PROVE  \E j \in Calls : tool'[j].of = c /\ tool'[j].run # Nowhere
    <2>1. CASE c = tool[k].of
      BY <1>2, <1>3, <2>1
    <2>2. CASE c # tool[k].of
      <3>1. opened'[c] = opened[c]
        BY <1>1, <2>2 DEF TypeOK
      <3>2. PICK j \in Calls : tool[j].of = c /\ tool[j].run # Nowhere
        BY <1>6, <3>1 DEF Threading
      <3>3. QED
        BY <1>2, <2>2, <3>2
    <2>3. QED
      BY <2>1, <2>2
  <1>7. \A j \in Calls : /\ tool'[j].of = tool[j].of
                         /\ UnheardOf(j)' => UnheardOf(j)
                         /\ tool'[j].at = "sending" => tool'[j] = tool[j] /\ j # k
    BY <1>2, <1>4 DEF UnheardOf
  <1>8. ASSUME NEW c \in Conversations, InTheOpen(c) PROVE InTheOpen(c)'
    <2>1. CASE opened'[c] = opened[c]
      BY <1>7, <1>8, <2>1 DEF InTheOpen
    <2>2. CASE opened'[c] # opened[c]
      <3>1. c = tool[k].of /\ tool[k].context = Nowhere /\ opened'[c] = opened[c] \cup {t}
        BY <1>0, <1>1, <2>2 DEF TypeOK
      <3>2. opened[c] = {}
        BY <1>0, <1>8, <3>1 DEF InTheOpen
      <3>3. \A j \in Calls : tool[j].of = c /\ UnheardOf(j) => j = k
        BY <1>4, <1>8, <3>1 DEF InTheOpen
      <3>4. \A j \in Calls : ~(tool'[j].of = c /\ tool'[j].at = "sending")
        BY <1>7, <3>3 DEF UnheardOf
      <3>5. \A i, j \in Calls : tool'[i].of = c /\ tool'[j].of = c /\ UnheardOf(i)' /\ UnheardOf(j)'
                                  => i = j
        BY <1>7, <3>3
      <3>6. \A u, v \in opened'[c] : u = v
        BY <3>1, <3>2
      <3>7. QED
        BY <3>4, <3>5, <3>6 DEF InTheOpen
    <2>3. QED
      BY <2>1, <2>2
  <1>9. QED
    BY <1>3, <1>5, <1>6, <1>8 DEF Threading

(* What is heard of a call is a thread, so the conversation knows one.     *)
LEMMA ThreadingHears ==
  ASSUME TypeOK, Placed, Owned, Threading, NEW k \in Calls, HearUpdate(k) \/ HearTheEnd(k)
  PROVE  Threading'
  <1>0. /\ tool \in [Calls -> Tools] /\ tool[k] \in Tools /\ tool[k].at = "reading"
        /\ tool[k].of \in Conversations /\ tool[k].run \in Runs
    BY DEF TypeOK, Placed, HearUpdate, HearTheEnd
  <1>1. /\ contexts' = [contexts EXCEPT ![tool[k].of] = run[tool[k].run].thread]
        /\ UNCHANGED <<opened, blind>>
    BY DEF HearUpdate, HearTheEnd, Remember
  <1>2. run[tool[k].run].thread # Nowhere
    <2>1. tool[k].run # Nowhere
      BY <1>0 DEF Runs, Nowhere
    <2>2. run[tool[k].run].thread \in Threads
      BY <1>0, <2>1 DEF Owned, TypeOK
    <2>3. QED
      BY <2>2 DEF Threads, Nowhere
  <1>3. /\ contexts'[tool[k].of] # Nowhere
        /\ \A c \in Conversations : contexts[c] # Nowhere => contexts'[c] # Nowhere
    BY <1>0, <1>1, <1>2 DEF TypeOK
  <1>4. PICK x : /\ tool' = [tool EXCEPT ![k] = x]
                 /\ x.at \in {"reading", "over"} /\ x.of = tool[k].of /\ x.run = tool[k].run
                 /\ x.told = TRUE /\ x.result # "unreached"
    <2>1. CASE HearUpdate(k)
      <3>1. tool' = [tool EXCEPT ![k] = [tool[k] EXCEPT !.told = TRUE]]
        BY <2>1 DEF HearUpdate
      <3>2. tool[k].result # "unreached"
        BY <1>0 DEF Threading, Runs, Nowhere
      <3> DEFINE y == [tool[k] EXCEPT !.told = TRUE]
      <3>3. y.at = "reading" /\ y.of = tool[k].of /\ y.run = tool[k].run
            /\ y.told = TRUE /\ y.result # "unreached"
        BY <1>0, <3>2 DEF Tools
      <3> HIDE DEF y
      <3>4. QED
        BY <3>1, <3>3 DEF y
    <2>2. CASE HearTheEnd(k)
      <3> DEFINE told == Report(tool[k].run)
      <3>1. tool' = [tool EXCEPT ![k] = [tool[k] EXCEPT !.at = "over", !.result = told]]
            /\ tool[k].told = TRUE
        BY <2>2 DEF HearTheEnd
      <3>2. told # "unreached"
        BY DEF Report
      <3> HIDE DEF told
      <3> DEFINE y == [tool[k] EXCEPT !.at = "over", !.result = told]
      <3>3. y.at = "over" /\ y.of = tool[k].of /\ y.run = tool[k].run
            /\ y.told = TRUE /\ y.result # "unreached"
        BY <1>0, <3>1, <3>2 DEF Tools
      <3> HIDE DEF y
      <3>4. QED
        BY <3>1, <3>3 DEF y
    <2>3. QED
      BY <2>1, <2>2
  <1>5. tool'[k] = x /\ \A j \in Calls : j # k => tool'[j] = tool[j]
    BY <1>0, <1>4
  <1>6. QED
    BY <1>0, <1>1, <1>3, <1>4, <1>5, ThreadingKept

LEMMA ThreadingAbandoned ==
  ASSUME TypeOK, Placed, Threading, NEW c, tool' = Abandoned(c),
         UNCHANGED <<contexts, opened, blind>>
  PROVE  Threading'
  <1>1. ASSUME NEW k \in Calls
        PROVE  \/ tool'[k] = tool[k]
               \/ /\ tool[k].at # "none" /\ tool'[k].at = "over"
                  /\ tool'[k].of = tool[k].of /\ tool'[k].run = tool[k].run
                  /\ tool'[k].told = tool[k].told /\ tool'[k].result = "dropped"
    <2>1. tool[k] \in Tools
      BY DEF TypeOK
    <2>2. \/ tool'[k] = tool[k]
          \/ /\ InFlight(k)
             /\ tool'[k] = [tool[k] EXCEPT !.at = "over", !.listed = {}, !.context = Nowhere,
                                           !.result = "dropped"]
      BY DEF Abandoned
    <2>3. QED
      BY <2>1, <2>2 DEF Tools, InFlight
  <1>2. QED
    BY <1>1, ThreadingKept

LEMMA ThreadingCall ==
  ASSUME TypeOK, Placed, Owned, Threading, NEW k \in Calls,
         \/ \E c \in Conversations : CallTool(c, k)
         \/ Resolve(k) \/ SendStream(k) \/ HearNothing(k) \/ HearUpdate(k)
         \/ HearTheEnd(k) \/ Fails(k)
  PROVE  Threading'
  <1>0. tool \in [Calls -> Tools] /\ tool[k] \in Tools
    BY DEF TypeOK
  <1>1. ASSUME NEW c \in Conversations, CallTool(c, k) PROVE Threading'
    <2>1. tool[k].at = "none" /\ UNCHANGED <<contexts, opened>>
      BY <1>1 DEF CallTool
    <2>2. CASE ~SetsOut(k, c)
      <3>1. UNCHANGED blind /\
            tool' = [tool EXCEPT ![k] = [NoTool EXCEPT !.of = c, !.at = "lookup",
                                                       !.listed = Candidates]]
        BY <1>1, <2>2 DEF CallTool
      <3>2. /\ tool'[k].at = "lookup" /\ tool'[k].run = Nowhere /\ ~tool'[k].told
            /\ tool'[k].result = "none" /\ \A j \in Calls : j # k => tool'[j] = tool[j]
        BY <1>0, <3>1 DEF NoTool
      <3>3. QED
        BY <2>1, <3>1, <3>2, ThreadingKept
    <2>3. QED
      BY <1>1, <2>1, <2>2, ThreadingSetsOut
  <1>2. CASE Resolve(k)
    <2>1. tool[k].at = "lookup" /\ tool[k].of \in Conversations /\ UNCHANGED <<contexts, opened>>
      BY <1>2 DEF Resolve, Placed
    <2>2. CASE ~SetsOut(k, tool[k].of)
      <3>1. UNCHANGED blind /\
            tool' = [tool EXCEPT ![k] = [tool[k] EXCEPT !.at = "over", !.listed = {},
                                                        !.result = "unreached"]]
        BY <1>2, <2>2 DEF Resolve
      <3>2. /\ tool'[k].at = "over" /\ tool'[k].of = tool[k].of /\ tool'[k].run = tool[k].run
            /\ tool'[k].told = tool[k].told /\ \A j \in Calls : j # k => tool'[j] = tool[j]
        BY <1>0, <3>1 DEF Tools
      <3>3. tool[k].run = Nowhere
        BY <2>1 DEF Threading
      <3>4. QED
        BY <2>1, <3>1, <3>2, <3>3, ThreadingKept
    <2>3. QED
      BY <2>1, <2>2, ThreadingSetsOut
  <1>3. CASE HearNothing(k)
    <2>1. /\ tool[k].at = "sending" /\ UNCHANGED <<contexts, opened, blind>>
          /\ tool' = [tool EXCEPT ![k] = [tool[k] EXCEPT !.at = "over", !.context = Nowhere,
                                                         !.result = "silence"]]
      BY <1>3 DEF HearNothing
    <2>2. /\ tool'[k].at = "over" /\ tool'[k].of = tool[k].of /\ tool'[k].run = tool[k].run
          /\ tool'[k].told = tool[k].told /\ tool'[k].result = "silence"
          /\ \A j \in Calls : j # k => tool'[j] = tool[j]
      BY <1>0, <2>1 DEF Tools
    <2>3. QED
      BY <2>1, <2>2, ThreadingKept
  <1>4. CASE Fails(k)
    <2>1. tool' = Abandoned(tool[k].of) /\ UNCHANGED <<contexts, opened, blind>>
      BY <1>4 DEF Fails, ToolRaises
    <2>2. QED
      BY <2>1, ThreadingAbandoned
  <1>5. QED
    BY <1>1, <1>2, <1>3, <1>4, ThreadingSends, ThreadingHears

LEMMA ThreadingNext ==
  ASSUME TypeOK, Placed, Owned, Threading, [Next]_vars
  PROVE  Threading'
  <1>1. CASE UNCHANGED <<contexts, tool, opened, blind>>
    BY <1>1, ThreadingKept
  <1>2. ASSUME NEW c \in Conversations,
               \/ StartTurn(c) \/ RunAdapter(c) \/ ModelFinishes(c) \/ TurnEnds(c)
               \/ CloseStream(c)
        PROVE  Threading'
    <2>1. UNCHANGED <<contexts, opened, blind>>
      BY <1>2 DEF StartTurn, RunAdapter, ModelFinishes, TurnEnds, CloseStream, Carried
    <2>2. tool' = tool \/ tool' = Abandoned(c)
      BY <1>2 DEF StartTurn, RunAdapter, ModelFinishes, TurnEnds, CloseStream
    <2>3. QED
      BY <1>1, <2>1, <2>2, ThreadingAbandoned
  <1>3. CASE UNCHANGED vars \/ UNCHANGED agentVars
    BY <1>1, <1>3 DEF vars, agentVars
  <1>4. CASE Next
    BY <1>2, <1>3, <1>4, StepCases, ThreadingCall
  <1>5. QED
    BY <1>3, <1>4

(***************************************************************************)
(* What a conversation sends to its sub-agent stays on one thread there,   *)
(* over all its turns, unless a call set out while another of them had not *)
(* been told its contextId.                                                *)
(***************************************************************************)
THEOREM OneThreadPerConversation == Spec => []OneThreadUnlessBlind
  <1>1. Init => Owned /\ Threading
    BY NoToolType DEF Init, Owned, Threading, InTheOpen, UnheardOf, NoTool
  <1>2. TypeOK /\ Placed /\ Owned /\ Threading /\ [Next]_vars
          => (TypeOK /\ Placed /\ Owned /\ Threading)'
    BY DelegationNext, OwnedNext, ThreadingNext
  <1>3. TypeOK /\ Threading => OneThreadUnlessBlind
    <2> SUFFICES ASSUME TypeOK, Threading, NEW c \in Conversations, Cardinality(opened[c]) > 1
                 PROVE  blind[c]
      BY DEF OneThreadUnlessBlind
    <2>1. CASE opened[c] = {}
      BY <2>1, FS_EmptySet
    <2>2. CASE opened[c] # {} /\ InTheOpen(c)
      <3>1. PICK t : opened[c] = {t}
        BY <2>2 DEF InTheOpen
      <3>2. Cardinality({t}) = 1
        BY FS_Singleton
      <3>3. QED
        BY <3>1, <3>2
    <2>3. QED
      BY <2>1, <2>2 DEF Threading
  <1>4. QED
    BY <1>1, <1>2, <1>3, DelegationInit, PTL DEF Spec

-----------------------------------------------------------------------------
(***************************************************************************)
(* Nobody's guess.  A listing of one is of somebody who was listed alone,  *)
(* at whatever moment the lookup was answered; listings under way keep it. *)
(***************************************************************************)
Singled ==
  /\ \A p \in Agents : roster = {p} => p \in alone
  /\ Provider = None =>
       /\ address \in alone \cup {None}
       /\ \A k \in Calls : tool[k].at = "lookup" =>
            \A p \in Agents : tool[k].listed = {p} => p \in alone

(* A step that looks nobody up. *)
LEMMA SingledKept ==
  ASSUME Singled, alone \subseteq alone', \A p \in Agents : roster' = {p} => p \in alone',
         Provider = None => address' \in alone' \cup {None},
         \A k \in Calls : tool'[k].at = "lookup" =>
            \/ tool[k].at = "lookup" /\ tool'[k].listed = tool[k].listed
            \/ Provider = None => \A p \in Agents : tool'[k].listed = {p} => p \in alone'
  PROVE  Singled'
  BY DEF Singled

LEMMA SingledCall ==
  ASSUME TypeOK, Placed, Singled, NEW k \in Calls,
         \/ \E c \in Conversations : CallTool(c, k)
         \/ Resolve(k) \/ SendStream(k) \/ HearNothing(k) \/ HearUpdate(k)
         \/ HearTheEnd(k) \/ Fails(k)
  PROVE  Singled'
  <1>0. tool \in [Calls -> Tools] /\ tool[k] \in Tools
    BY DEF TypeOK
  <1>1. UNCHANGED <<roster, alone>>
    BY DEF CallTool, Resolve, SendStream, Message, HearNothing, HearUpdate, HearTheEnd, Fails,
           ToolRaises, doorVars
  <1>2. ASSUME UNCHANGED address, NEW x, tool' = [tool EXCEPT ![k] = x], x.at # "lookup"
        PROVE  Singled'
    BY <1>0, <1>1, <1>2, SingledKept DEF Singled
  <1>3. ASSUME NEW c \in Conversations, SetsOut(k, c),
               Provider = None => address' \in alone \cup {None}
        PROVE  Singled'
    <2>1. tool' = [tool EXCEPT ![k] = tool'[k]] /\ tool'[k].at = "sending"
      BY <1>3, SetsOutType
    <2>2. \A j \in Calls : tool'[j].at = "lookup" => tool'[j] = tool[j]
      BY <1>0, <2>1
    <2>3. QED
      BY <1>1, <1>3, <2>2, SingledKept DEF Singled
  <1>4. ASSUME NEW c \in Conversations, CallTool(c, k) PROVE Singled'
    <2>1. CASE ~SetsOut(k, c)
      <3>1. tool' = [tool EXCEPT ![k] = [NoTool EXCEPT !.of = c, !.at = "lookup",
                                                       !.listed = Candidates]]
        BY <1>4, <2>1 DEF CallTool
      <3>2. tool'[k].listed = Candidates /\ \A j \in Calls : j # k => tool'[j] = tool[j]
        BY <1>0, <3>1 DEF NoTool
      <3>3. Provider = None => Candidates = roster
        BY DEF Candidates
      <3>4. UNCHANGED address
        BY <1>4 DEF CallTool
      <3>5. QED
        BY <1>1, <3>2, <3>3, <3>4, SingledKept DEF Singled
    <2>2. CASE SetsOut(k, c)
      BY <1>3, <1>4, <2>2 DEF CallTool, Singled
    <2>3. QED
      BY <2>1, <2>2
  <1>5. CASE Resolve(k)
    <2>1. tool[k].at = "lookup" /\ tool[k].of \in Conversations /\ tool[k].listed \subseteq Agents
      BY <1>0, <1>5 DEF Resolve, Placed, Tools
    <2>2. CASE Resolved(tool[k].listed) # None
      <3>1. /\ Cardinality(tool[k].listed) = 1 /\ address' = CHOOSE p \in tool[k].listed : TRUE
            /\ SetsOut(k, tool[k].of)
        BY <1>5, <2>2 DEF Resolve, Resolved
      <3>2. PICK p : tool[k].listed = {p}
        BY <2>1, <3>1, FS_Subset, FS_Singleton, DoorsAssumption
      <3>3. address' = p
        BY <3>1, <3>2
      <3>4. QED
        BY <1>3, <2>1, <3>1, <3>2, <3>3 DEF Singled
    <2>3. CASE Resolved(tool[k].listed) = None
      <3>1. [tool[k] EXCEPT !.at = "over", !.listed = {}, !.result = "unreached"].at = "over"
        BY <1>0 DEF Tools
      <3>2. QED
        BY <1>2, <1>5, <2>3, <3>1 DEF Resolve
    <2>4. QED
      BY <2>2, <2>3
  <1>6. CASE SendStream(k)
    <2>1. PICK r \in Runs :
            tool' = [tool EXCEPT ![k] = [tool[k] EXCEPT !.at = "reading", !.run = r,
                                                        !.context = Nowhere]]
      BY <1>6 DEF SendStream
    <2>2. [tool[k] EXCEPT !.at = "reading", !.run = r, !.context = Nowhere].at = "reading"
      BY <1>0 DEF Tools
    <2>3. QED
      BY <1>2, <1>6, <2>1, <2>2 DEF SendStream
  <1>7. CASE HearNothing(k)
    <2>1. [tool[k] EXCEPT !.at = "over", !.context = Nowhere, !.result = "silence"].at = "over"
      BY <1>0 DEF Tools
    <2>2. QED
      BY <1>2, <1>7, <2>1 DEF HearNothing
  <1>8. CASE HearUpdate(k)
    <2>1. [tool[k] EXCEPT !.told = TRUE].at = "reading"
      BY <1>0, <1>8 DEF Tools, HearUpdate
    <2>2. QED
      BY <1>2, <1>8, <2>1 DEF HearUpdate
  <1>9. CASE HearTheEnd(k)
    <2> DEFINE told == Report(tool[k].run)
    <2>1. tool' = [tool EXCEPT ![k] = [tool[k] EXCEPT !.at = "over", !.result = told]]
      BY <1>9 DEF HearTheEnd
    <2> HIDE DEF told
    <2>2. [tool[k] EXCEPT !.at = "over", !.result = told].at = "over"
      BY <1>0 DEF Tools
    <2>3. QED
      BY <1>2, <1>9, <2>1, <2>2 DEF HearTheEnd
  <1>10. CASE Fails(k)
    <2>1. tool' = Abandoned(tool[k].of) /\ UNCHANGED address
      BY <1>10 DEF Fails, ToolRaises
    <2>2. \A j \in Calls : tool'[j].at = "lookup" => tool'[j] = tool[j]
      BY <2>1, AbandonedType
    <2>3. QED
      BY <1>1, <2>1, <2>2, SingledKept DEF Singled
  <1>11. QED
    BY <1>4, <1>5, <1>6, <1>7, <1>8, <1>9, <1>10

LEMMA SingledNext ==
  ASSUME TypeOK, Placed, Singled, [Next]_vars
  PROVE  Singled'
  <1>1. CASE UNCHANGED vars
    BY <1>1 DEF vars, doorVars, agentVars, Singled
  <1>2. ASSUME NEW c \in Conversations,
               \/ StartTurn(c) \/ RunAdapter(c) \/ ModelFinishes(c) \/ TurnEnds(c)
               \/ CloseStream(c)
        PROVE  Singled'
    <2>1. UNCHANGED <<roster, alone, address>>
      BY <1>2 DEF StartTurn, RunAdapter, ModelFinishes, TurnEnds, CloseStream, doorVars
    <2>2. tool' = tool \/ tool' = Abandoned(c)
      BY <1>2 DEF StartTurn, RunAdapter, ModelFinishes, TurnEnds, CloseStream
    <2>3. \A j \in Calls : tool'[j].at = "lookup" => tool'[j] = tool[j]
      BY <2>2, AbandonedType
    <2>4. QED
      BY <2>1, <2>3, SingledKept DEF Singled
  <1>3. ASSUME NEW r \in Runs, RunEnds(r), UNCHANGED agentVars PROVE Singled'
    BY <1>3 DEF RunEnds, agentVars, Singled
  <1>4. ASSUME NEW p \in Agents, Register(p), UNCHANGED agentVars PROVE Singled'
    <2>1. roster' = roster \cup {p} /\ p \notin roster
          /\ alone' = IF roster = {} THEN alone \cup {p} ELSE alone
      BY <1>4 DEF Register
    <2>2. \A q \in Agents : roster' = {q} => q \in alone'
      BY <2>1
    <2>3. QED
      BY <1>4, <2>1, <2>2, SingledKept DEF agentVars, Singled
  <1>5. CASE Next
    BY <1>2, <1>3, <1>4, <1>5, StepCases, SingledCall
  <1>6. QED
    BY <1>1, <1>5

(***************************************************************************)
(* Without a provider to go by, whoever the agent calls was once listed    *)
(* alone with the name: an ambiguous name is never resolved, however the   *)
(* roster changes while lookups are under way.                             *)
(***************************************************************************)
THEOREM NobodyGuesses == Spec => []NeverAWinner
  <1>1. Init => Singled
    BY NoToolType DEF Init, DoorsInit, Singled
  <1>2. TypeOK /\ Placed /\ Singled /\ [Next]_vars => (TypeOK /\ Placed /\ Singled)'
    BY DelegationNext, SingledNext
  <1>3. Singled => NeverAWinner
    BY DEF Singled, NeverAWinner
  <1>4. QED
    BY <1>1, <1>2, <1>3, DelegationInit, PTL DEF Spec

-----------------------------------------------------------------------------
(***************************************************************************)
(* Messages.  A prompt of turn n is in order and ends with n, or it is     *)
(* turned round at n's limit: the caller resent all of 1..n, what the      *)
(* limit left of them comes first, and what it cut off comes behind.       *)
(***************************************************************************)
InOrder(p, n) ==
  /\ p \in Seq(Nat)
  /\ Len(p) > 0
  /\ p[Len(p)] = n
  /\ \A i, j \in DOMAIN p : i < j => p[i] < p[j]

Rotated(p, n) ==
  /\ Limit \in 1..(n - 1)
  /\ p \in Seq(Nat)
  /\ \A i, j \in DOMAIN p : p[i] = p[j] => i = j
  /\ \A m \in 1..n : \E i \in DOMAIN p : p[i] = m

Orderly(p, n) == InOrder(p, n) \/ Rotated(p, n)

(* All that a history of cut+1..b is, whichever it is. *)
Window(h, cut, b) ==
  /\ h \in Seq(Nat)
  /\ Len(h) = b - cut
  /\ \A i \in 1..(b - cut) : h[i] = cut + i

LEMMA UpToFacts ==
  ASSUME NEW n \in Nat
  PROVE  /\ UpTo(n) \in Seq(Nat) /\ Len(UpTo(n)) = n
         /\ \A i \in 1..n : UpTo(n)[i] = i
  BY DEF UpTo

LEMMA RecentFacts ==
  ASSUME NEW b \in Nat
  PROVE  \E cut \in 0..b : /\ cut = 0 \/ cut = b - Limit
                           /\ Window(Recent(b), cut, b)
  <1> DEFINE cut == IF b > Limit THEN b - Limit ELSE 0
  <1>1. cut \in 0..b /\ (cut = 0 \/ cut = b - Limit)
    BY DelegationAssumption
  <1>2. Recent(b) = [i \in 1..(b - cut) |-> cut + i]
    BY DEF Recent
  <1> HIDE DEF cut
  <1>3. cut \in Nat /\ b - cut \in Nat
    BY <1>1
  <1>4. Window(Recent(b), cut, b)
    BY <1>2, <1>3 DEF Window
  <1>5. QED
    BY <1>1, <1>4

LEMMA WindowContains ==
  ASSUME NEW b \in Nat, NEW cut \in 0..b, NEW h, Window(h, cut, b), NEW m \in Nat
  PROVE  Contains(h, m) <=> m \in (cut + 1)..b
  <1>1. ASSUME m \in (cut + 1)..b PROVE Contains(h, m)
    <2>1. m - cut \in 1..(b - cut) /\ cut + (m - cut) = m
      BY <1>1
    <2>2. h[m - cut] = m
      BY <2>1 DEF Window
    <2>3. QED
      BY <2>1, <2>2 DEF Window, Contains
  <1>2. ASSUME Contains(h, m) PROVE m \in (cut + 1)..b
    <2>1. PICK i \in 1..(b - cut) : h[i] = m
      BY <1>2 DEF Window, Contains
    <2>2. m = cut + i
      BY <2>1 DEF Window
    <2>3. QED
      BY <2>2
  <1>3. QED
    BY <1>1, <1>2

LEMMA WindowInOrder ==
  ASSUME NEW n \in Nat, NEW cut \in Nat, NEW h, Window(h, cut, n), n - cut > 0
  PROVE  InOrder(h, n)
  <1>1. h \in Seq(Nat) /\ Len(h) = n - cut
    BY DEF Window
  <1>2. \A i \in 1..(n - cut) : h[i] = cut + i
    BY DEF Window
  <1>3. n - cut \in 1..(n - cut) /\ cut + (n - cut) = n
    OBVIOUS
  <1>4. h[n - cut] = n
    BY <1>2, <1>3
  <1>5. DOMAIN h = 1..(n - cut)
    BY <1>1
  <1>6. \A i, j \in 1..(n - cut) : i < j => h[i] < h[j]
    BY <1>2
  <1>7. QED
    BY <1>1, <1>4, <1>5, <1>6 DEF InOrder

LEMMA SentIsOrderly ==
  ASSUME NEW n \in Nat, n > 0, NEW sent \in {<<n>>, UpTo(n)}
  PROVE  InOrder(sent, n)
  <1>1. CASE sent = <<n>>
    BY <1>1 DEF InOrder
  <1>2. CASE sent = UpTo(n)
    BY <1>2, UpToFacts DEF InOrder
  <1>3. QED
    BY <1>1, <1>2

(* What is behind a history is numbered by how many come before it. *)
Unseen(h, sent) == {i \in DOMAIN sent : ~Contains(h, sent[i])}
Nth(h, sent, j) == CHOOSE i \in Unseen(h, sent) : Cardinality(Unseen(h, sent) \cap 1..i) = j
Behind(h, sent)  == [j \in 1..Cardinality(Unseen(h, sent)) |-> sent[Nth(h, sent, j)]]

LEMMA MergedIs ==
  ASSUME NEW h, NEW sent
  PROVE  Merged(h, sent) = IF h = <<>> THEN sent ELSE h \o Behind(h, sent)
  BY DEF Merged, Behind, Nth, Unseen

LEMMA Counted ==
  ASSUME NEW a \in Nat
  PROVE  IsFiniteSet(1..a) /\ Cardinality(1..a) = a
  BY FS_Interval

(* The caller sent the one message. *)
LEMMA OneSent ==
  ASSUME NEW n \in Nat, n > 0, NEW b \in {n - 1, n}, NEW cut \in 0..b,
         NEW h, Window(h, cut, b), h # <<>>
  PROVE  InOrder(h \o Behind(h, <<n>>), n)
  <1> DEFINE t == Behind(h, <<n>>)
  <1>0. b \in Nat /\ cut \in Nat /\ b - cut \in Nat
    OBVIOUS
  <1>1. <<n>> \in Seq(Nat) /\ DOMAIN <<n>> = {1} /\ <<n>>[1] = n
    OBVIOUS
  <1>2. Contains(h, n) <=> n \in (cut + 1)..b
    BY <1>0, WindowContains
  <1>3. b - cut > 0
    BY <1>0 DEF Window
  <1>4. CASE b = n
    <2>1. Unseen(h, <<n>>) = {}
      <3>1. n \in (cut + 1)..b
        BY <1>0, <1>3, <1>4
      <3>2. QED
        BY <1>1, <1>2, <3>1 DEF Unseen
    <2>2. Cardinality(Unseen(h, <<n>>)) = 0
      BY <2>1, FS_EmptySet
    <2>3. t \in Seq(Nat) /\ Len(t) = 0
      BY <2>2 DEF Behind
    <2> HIDE DEF t
    <2>4. h \o t = h
      BY <2>3 DEF Window
    <2>5. InOrder(h, n)
      BY <1>0, <1>3, <1>4, WindowInOrder
    <2>6. QED
      BY <2>4, <2>5 DEF t
  <1>5. CASE b = n - 1
    <2>1. Unseen(h, <<n>>) = {1}
      <3>1. n \notin (cut + 1)..b
        BY <1>0, <1>5
      <3>2. QED
        BY <1>1, <1>2, <3>1 DEF Unseen
    <2>2. Cardinality({1}) = 1
      BY FS_Singleton
    <2>3. \A j : Nth(h, <<n>>, j) = 1 \/ ~(\E i \in {1} : Cardinality({1} \cap 1..i) = j)
      BY <2>1 DEF Nth
    <2>4. {1} \cap 1..1 = {1}
      OBVIOUS
    <2>5. Nth(h, <<n>>, 1) = 1
      BY <2>2, <2>3, <2>4
    <2>6. t = [j \in 1..1 |-> <<n>>[Nth(h, <<n>>, j)]]
      BY <2>1, <2>2 DEF Behind
    <2>7. t \in Seq(Nat) /\ Len(t) = 1 /\ t[1] = n
      <3> HIDE DEF t
      <3>1. \A j \in 1..1 : <<n>>[Nth(h, <<n>>, j)] = n
        BY <1>1, <2>5
      <3>2. t = [j \in 1..1 |-> n]
        BY <2>6, <3>1
      <3>3. QED
        BY <3>2
    <2> HIDE DEF t
    <2>8. PICK m \in Nat : m = b - cut /\ m > 0 /\ cut + m = n - 1
      BY <1>0, <1>3, <1>5
    <2>9. PICK p \in Seq(Nat) :
             /\ p = h \o t
             /\ Len(p) = m + 1
             /\ \A i \in 1..m : p[i] = cut + i
             /\ p[m + 1] = n
      <3>1. h \in Seq(Nat) /\ Len(h) = m /\ \A i \in 1..m : h[i] = cut + i
        BY <2>8 DEF Window
      <3>2. /\ h \o t \in Seq(Nat)
            /\ Len(h \o t) = m + 1
            /\ \A i \in 1..(m + 1) : (h \o t)[i] = IF i <= m THEN h[i] ELSE t[i - m]
        <4>1. /\ h \o t \in Seq(Nat)
              /\ Len(h \o t) = Len(h) + Len(t)
              /\ \A i \in 1..(Len(h) + Len(t)) :
                    (h \o t)[i] = IF i <= Len(h) THEN h[i] ELSE t[i - Len(h)]
          BY <2>7, <3>1, ConcatProperties
        <4>2. QED
          BY <2>7, <3>1, <4>1
      <3>3. m + 1 \in 1..(m + 1) /\ ~(m + 1 <= m) /\ (m + 1) - m = 1
        BY <2>8
      <3>4. (h \o t)[m + 1] = n
        BY <2>7, <3>2, <3>3
      <3>5. \A i \in 1..m : (h \o t)[i] = cut + i
        BY <2>8, <3>1, <3>2
      <3>6. QED
        BY <3>2, <3>4, <3>5
    <2>10. \A i, j \in 1..(m + 1) : i < j => p[i] < p[j]
      <3>1. \A i \in 1..(m + 1) : (i \in 1..m /\ p[i] = cut + i) \/ (i = m + 1 /\ p[i] = n)
        <4>1. \A i \in 1..(m + 1) : i \in 1..m \/ i = m + 1
          BY <2>8
        <4>2. QED
          BY <2>9, <4>1
      <3>2. ASSUME NEW i \in 1..(m + 1), NEW j \in 1..(m + 1), i < j PROVE p[i] < p[j]
        <4>1. i \in 1..m /\ p[i] = cut + i
          BY <2>8, <3>1, <3>2
        <4>2. CASE j \in 1..m
          <5>1. p[j] = cut + j
            BY <2>9, <4>2
          <5>2. QED
            BY <1>0, <2>8, <3>2, <4>1, <5>1
        <4>3. CASE j = m + 1
          <5>1. p[j] = n
            BY <2>9, <4>3
          <5>2. QED
            BY <1>0, <2>8, <4>1, <5>1
        <4>4. QED
          BY <2>8, <4>2, <4>3
      <3>3. QED
        BY <3>2
    <2>11. InOrder(p, n)
      <3>1. Len(p) = m + 1 /\ p[m + 1] = n /\ DOMAIN p = 1..(m + 1)
        BY <2>8, <2>9
      <3>2. QED
        BY <2>10, <3>1, m + 1 > 0 DEF InOrder
    <2>12. QED
      BY <2>9, <2>11 DEF t
  <1>6. QED
    BY <1>4, <1>5

LEMMA NthIs ==
  ASSUME NEW h, NEW sent, NEW j,
         \E i \in Unseen(h, sent) : Cardinality(Unseen(h, sent) \cap 1..i) = j
  PROVE  /\ Nth(h, sent, j) \in Unseen(h, sent)
         /\ Cardinality(Unseen(h, sent) \cap 1..Nth(h, sent, j)) = j
  BY DEF Nth

(* The caller resent them all: of those the history lacks, the ones before *)
(* it are numbered as they are, and the one behind it comes after them.    *)
LEMMA TailOfAll ==
  ASSUME NEW n \in Nat, n > 0, NEW b \in {n - 1, n}, NEW cut \in 0..b,
         NEW h, Window(h, cut, b)
  PROVE  Behind(h, UpTo(n)) = [j \in 1..(cut + (n - b)) |-> IF j <= cut THEN j ELSE n]
  <1> DEFINE U == Unseen(h, UpTo(n))
             nth(j) == Nth(h, UpTo(n), j)
  <1>0. b \in Nat /\ cut \in Nat /\ b - cut \in Nat /\ n - b \in {0, 1}
    OBVIOUS
  <1>1. \A i \in 1..n : UpTo(n)[i] = i
    BY UpToFacts
  <1>2. DOMAIN UpTo(n) = 1..n
    BY DEF UpTo
  <1>3. \A i \in 1..n : Contains(h, i) <=> i \in (cut + 1)..b
    BY <1>0, WindowContains
  <1>4. U = {i \in 1..n : i \notin (cut + 1)..b}
    BY <1>1, <1>2, <1>3 DEF Unseen
  <1>5. U = IF b = n THEN 1..cut ELSE (1..cut) \cup {n}
    BY <1>0, <1>4
  <1>6. IsFiniteSet(1..cut) /\ Cardinality(1..cut) = cut
    BY <1>0, Counted
  <1>7. Cardinality(U) = cut + (n - b)
    <2>1. CASE b = n
      BY <1>0, <1>5, <1>6, <2>1
    <2>2. CASE b # n
      <3>1. n \notin 1..cut
        BY <1>0, <2>2
      <3>2. Cardinality((1..cut) \cup {n}) = cut + 1
        BY <1>6, <3>1, FS_AddElement
      <3>3. n - b = 1
        BY <1>0, <2>2
      <3>4. QED
        BY <1>5, <2>2, <3>2, <3>3
    <2>3. QED
      BY <2>1, <2>2
  <1>8. ASSUME NEW i \in 1..cut PROVE i \in U /\ Cardinality(U \cap 1..i) = i
    <2>1. i \in U /\ U \cap 1..i = 1..i
      BY <1>0, <1>5
    <2>2. i \in Nat
      BY <1>0
    <2>3. QED
      BY <2>1, <2>2, Counted
  <1>9. ASSUME b # n PROVE n \in U /\ Cardinality(U \cap 1..n) = cut + 1
    <2>1. n \in U /\ U \cap 1..n = U
      BY <1>0, <1>5, <1>9
    <2>2. n - b = 1
      BY <1>0, <1>9
    <2>3. QED
      BY <1>7, <2>1, <2>2
  <1>10. ASSUME NEW j \in 1..(cut + (n - b)) PROVE nth(j) = IF j <= cut THEN j ELSE n
    <2>1. CASE j <= cut
      <3>1. j \in 1..cut
        BY <1>0, <2>1
      <3>2. nth(j) \in U /\ Cardinality(U \cap 1..nth(j)) = j
        <4>1. \E i \in U : Cardinality(U \cap 1..i) = j
          BY <1>8, <3>1
        <4>2. QED
          BY <4>1, NthIs
      <3> HIDE DEF U, nth
      <3>3. nth(j) \in 1..cut \/ (b # n /\ nth(j) = n)
        <4>1. CASE b = n
          BY <1>5, <3>2, <4>1
        <4>2. CASE b # n
          BY <1>5, <3>2, <4>2
        <4>3. QED
          BY <4>1, <4>2
      <3>4. CASE nth(j) \in 1..cut
        BY <1>8, <2>1, <3>2, <3>4
      <3>5. CASE b # n /\ nth(j) = n
        <4>1. j = cut + 1
          BY <1>9, <3>2, <3>5
        <4>2. QED
          BY <1>0, <2>1, <4>1
      <3>6. QED
        BY <3>3, <3>4, <3>5
    <2>2. CASE ~(j <= cut)
      <3>1. j = cut + 1 /\ b # n
        BY <1>0, <2>2
      <3>2. nth(j) \in U /\ Cardinality(U \cap 1..nth(j)) = j
        <4>1. \E i \in U : Cardinality(U \cap 1..i) = j
          BY <1>9, <3>1
        <4>2. QED
          BY <4>1, NthIs
      <3> HIDE DEF U, nth
      <3>3. nth(j) \in 1..cut \/ nth(j) = n
        BY <1>5, <3>2
      <3>4. nth(j) \notin 1..cut
        BY <1>0, <1>8, <3>1, <3>2
      <3>5. QED
        BY <2>2, <3>3, <3>4
    <2>3. QED
      BY <2>1, <2>2
  <1>11. Behind(h, UpTo(n)) = [j \in 1..(cut + (n - b)) |-> UpTo(n)[nth(j)]]
    BY <1>7 DEF Behind
  <1> HIDE DEF U, nth
  <1>12. \A j \in 1..(cut + (n - b)) : UpTo(n)[nth(j)] = IF j <= cut THEN j ELSE n
    <2>1. ASSUME NEW j \in 1..(cut + (n - b))
          PROVE  UpTo(n)[nth(j)] = IF j <= cut THEN j ELSE n
      <3>1. nth(j) \in 1..n
        BY <1>0, <1>10
      <3>2. QED
        BY <1>1, <1>10, <3>1
    <2>2. QED
      BY <2>1
  <1>13. QED
    BY <1>11, <1>12

(* Two places of a prompt that is turned round do not hold the same. *)
LEMMA OnePlaceEach ==
  ASSUME NEW m \in Nat, NEW cut \in Nat, NEW n \in Nat, m + cut <= n,
         NEW i \in Nat, NEW j \in Nat, i > 0, j > 0, NEW x \in Nat,
         \/ i <= m /\ x = cut + i
         \/ i > m /\ i <= m + cut /\ x = i - m
         \/ i = n /\ n > m + cut /\ x = n,
         \/ j <= m /\ x = cut + j
         \/ j > m /\ j <= m + cut /\ x = j - m
         \/ j = n /\ n > m + cut /\ x = n
  PROVE  i = j
  OBVIOUS

LEMMA AllSent ==
  ASSUME NEW n \in Nat, n > 0, NEW b \in {n - 1, n}, NEW cut \in 0..b,
         cut = 0 \/ cut = b - Limit,
         NEW h, Window(h, cut, b), h # <<>>
  PROVE  Orderly(h \o Behind(h, UpTo(n)), n)
  <1>0. b \in Nat /\ cut \in Nat /\ b - cut \in Nat /\ n - b \in {0, 1} /\ b - cut > 0
    BY DEF Window
  <1>1. PICK t \in Seq(Nat) :
           /\ t = Behind(h, UpTo(n))
           /\ Len(t) = cut + (n - b)
           /\ \A j \in 1..(cut + (n - b)) : t[j] = IF j <= cut THEN j ELSE n
    <2>1. PICK t : t = Behind(h, UpTo(n))
      OBVIOUS
    <2>2. t = [j \in 1..(cut + (n - b)) |-> IF j <= cut THEN j ELSE n]
      BY <2>1, TailOfAll
    <2>3. \A j \in 1..(cut + (n - b)) : (IF j <= cut THEN j ELSE n) \in Nat
      BY <1>0
    <2>4. cut + (n - b) \in Nat
      BY <1>0
    <2>5. t \in Seq(Nat) /\ Len(t) = cut + (n - b)
      BY <2>2, <2>3, <2>4
    <2>6. QED
      BY <2>1, <2>2, <2>5
  <1>2. PICK p \in Seq(Nat) :
           /\ p = h \o t
           /\ Len(p) = n
           /\ \A i \in 1..n : p[i] = IF i <= b - cut THEN h[i] ELSE t[i - (b - cut)]
    <2>1. /\ h \o t \in Seq(Nat)
          /\ Len(h \o t) = Len(h) + Len(t)
          /\ \A i \in 1..(Len(h) + Len(t)) :
                (h \o t)[i] = IF i <= Len(h) THEN h[i] ELSE t[i - Len(h)]
      BY ConcatProperties DEF Window
    <2>2. Len(h) = b - cut /\ Len(h) + Len(t) = n
      BY <1>0, <1>1 DEF Window
    <2>3. QED
      BY <2>1, <2>2
  <1>3. \A i \in 1..(b - cut) : p[i] = cut + i
    BY <1>0, <1>2 DEF Window
  <1>4. \A i \in (b - cut + 1)..b : p[i] = i - (b - cut)
    <2>1. ASSUME NEW i \in (b - cut + 1)..b PROVE p[i] = i - (b - cut)
      <3>1. i \in 1..n /\ ~(i <= b - cut) /\ i - (b - cut) \in 1..cut
            /\ i - (b - cut) \in 1..(cut + (n - b)) /\ i - (b - cut) <= cut
        BY <1>0
      <3>2. p[i] = t[i - (b - cut)]
        BY ONLY <1>2, <3>1
      <3>3. t[i - (b - cut)] = i - (b - cut)
        BY ONLY <1>1, <3>1
      <3>4. QED
        BY <3>2, <3>3
    <2>2. QED
      BY <2>1
  <1>5. \A i \in (b + 1)..n : p[i] = n
    <2>1. ASSUME NEW i \in (b + 1)..n PROVE p[i] = n
      <3>1. i \in 1..n /\ ~(i <= b - cut) /\ i - (b - cut) = cut + 1
            /\ i - (b - cut) \in 1..(cut + (n - b)) /\ ~(i - (b - cut) <= cut)
        BY <1>0
      <3>2. p[i] = t[i - (b - cut)]
        BY ONLY <1>2, <3>1
      <3>3. t[i - (b - cut)] = n
        BY ONLY <1>1, <3>1
      <3>4. QED
        BY <3>2, <3>3
    <2>2. QED
      BY <2>1
  <1>6. CASE cut = 0
    <2>1. \A i \in 1..n : p[i] = i
      BY <1>0, <1>3, <1>5, <1>6
    <2>2. InOrder(p, n)
      <3>1. Len(p) = n /\ DOMAIN p = 1..n /\ p[n] = n
        BY <1>2, <2>1
      <3>2. \A i, j \in 1..n : i < j => p[i] < p[j]
        BY <2>1
      <3>3. QED
        BY <3>1, <3>2 DEF InOrder
    <2>3. QED
      BY <1>1, <1>2, <2>2 DEF Orderly
  <1>7. CASE cut > 0
    <2>1. Limit \in 1..(n - 1)
      BY <1>0, <1>7, DelegationAssumption
    <2>2. \A i \in 1..n : \/ i \in 1..(b - cut) /\ p[i] = cut + i
                          \/ i \in (b - cut + 1)..b /\ p[i] = i - (b - cut)
                          \/ i = n /\ b = n - 1 /\ p[i] = n
      BY <1>0, <1>3, <1>4, <1>5
    <2>3. DOMAIN p = 1..n
      BY <1>2
    <2>4. \A i, j \in DOMAIN p : p[i] = p[j] => i = j
      <3>1. ASSUME NEW i \in 1..n, NEW j \in 1..n, p[i] = p[j] PROVE i = j
        <4>1. PICK m \in Nat : m = b - cut /\ m + cut = b
          BY <1>0
        <4>2. PICK x \in Nat : x = p[i] /\ x = p[j]
          BY <1>2, <3>1
        <4>3. ASSUME NEW q \in 1..n, x = p[q]
              PROVE  \/ q <= m /\ x = cut + q
                     \/ q > m /\ q <= m + cut /\ x = q - m
                     \/ q = n /\ n > m + cut /\ x = n
          <5>1. \/ q \in 1..m /\ x = cut + q
                \/ q \in (m + 1)..b /\ x = q - m
                \/ q = n /\ b = n - 1 /\ x = n
            BY <2>2, <4>1, <4>3
          <5>2. QED
            BY <1>0, <4>1, <5>1
        <4>5. m + cut <= n /\ i \in Nat /\ j \in Nat /\ i > 0 /\ j > 0
          BY <1>0, <4>1
        <4>6. /\ \/ i <= m /\ x = cut + i
                 \/ i > m /\ i <= m + cut /\ x = i - m
                 \/ i = n /\ n > m + cut /\ x = n
              /\ \/ j <= m /\ x = cut + j
                 \/ j > m /\ j <= m + cut /\ x = j - m
                 \/ j = n /\ n > m + cut /\ x = n
          BY <4>2, <4>3
        <4>7. QED
          BY <1>0, <4>5, <4>6, OnePlaceEach
      <3>2. QED
        BY <2>3, <3>1
    <2>5. ASSUME NEW m \in 1..n PROVE \E i \in DOMAIN p : p[i] = m
      <3>1. CASE m <= cut
        <4>1. (b - cut) + m \in (b - cut + 1)..b /\ ((b - cut) + m) - (b - cut) = m
              /\ (b - cut) + m \in 1..n
          BY <1>0, <3>1
        <4>2. p[(b - cut) + m] = m
          BY <1>4, <4>1
        <4>3. QED
          BY <2>3, <4>1, <4>2
      <3>2. CASE m \in (cut + 1)..b
        <4>1. m - cut \in 1..(b - cut) /\ cut + (m - cut) = m /\ m - cut \in 1..n
          BY <1>0, <3>2
        <4>2. p[m - cut] = m
          BY <1>3, <4>1
        <4>3. QED
          BY <2>3, <4>1, <4>2
      <3>3. CASE m \in (b + 1)..n
        <4>1. m = n
          BY <1>0, <3>3
        <4>2. QED
          BY <1>5, <2>3, <3>3, <4>1
      <3>4. QED
        BY <1>0, <3>1, <3>2, <3>3
    <2>6. Rotated(p, n)
      BY <2>1, <2>4, <2>5 DEF Rotated
    <2>7. QED
      BY <1>1, <1>2, <2>6 DEF Orderly
  <1>8. QED
    BY <1>0, <1>6, <1>7

LEMMA MergedIsOrderly ==
  ASSUME NEW n \in Nat, n > 0, NEW b \in {n - 1, n}, NEW sent \in {<<n>>, UpTo(n)}
  PROVE  Orderly(Merged(Recent(b), sent), n)
  <1>0. b \in Nat
    OBVIOUS
  <1>1. PICK cut \in 0..b : /\ cut = 0 \/ cut = b - Limit
                            /\ Window(Recent(b), cut, b)
    BY <1>0, RecentFacts
  <1>2. PICK h : h = Recent(b)
    OBVIOUS
  <1>3. CASE h = <<>>
    BY <1>2, <1>3, MergedIs, SentIsOrderly DEF Orderly
  <1>4. CASE h # <<>> /\ sent = <<n>>
    BY <1>1, <1>2, <1>4, MergedIs, OneSent DEF Orderly
  <1>5. CASE h # <<>> /\ sent = UpTo(n)
    BY <1>1, <1>2, <1>5, MergedIs, AllSent
  <1>6. QED
    BY <1>3, <1>4, <1>5

Prompted ==
  /\ prompt \in [Conversations -> Seq(Nat)]
  /\ \A c \in Conversations : turn[c].at = "asked" => Orderly(prompt[c], turn[c].no)

LEMMA PromptedNext ==
  ASSUME TypeOK, Placed, Prompted, [Next]_vars
  PROVE  Prompted'
  <1>1. ASSUME NEW c \in Conversations, StartTurn(c) PROVE Prompted'
    <2>1. PICK n \in Nat : n = turn[c].no + 1 /\ n > 0
      BY DelegationAssumption DEF TypeOK
    <2>2. PICK p : Orderly(p, n) /\ prompt' = [prompt EXCEPT ![c] = p]
      <3>1. PICK sent \in {<<n>>, UpTo(n)} :
               \/ \E stored \in {n - 1, n} : prompt' = [prompt EXCEPT ![c] = Merged(Recent(stored), sent)]
               \/ prompt' = [prompt EXCEPT ![c] = sent]
        BY <1>1, <2>1 DEF StartTurn
      <3>2. QED
        BY <2>1, <3>1, SentIsOrderly, MergedIsOrderly DEF Orderly
    <2>3. turn' = [turn EXCEPT ![c] = [at |-> "asked", no |-> n]]
      BY <1>1, <2>1 DEF StartTurn
    <2>4. prompt' \in [Conversations -> Seq(Nat)]
      BY <2>2 DEF Prompted, Orderly, InOrder, Rotated
    <2>5. ASSUME NEW d \in Conversations, turn'[d].at = "asked"
          PROVE  Orderly(prompt'[d], turn'[d].no)
      <3>1. CASE d = c
        <4>1. turn'[d].no = n /\ prompt'[d] = p
          BY <2>2, <2>3, <3>1 DEF TypeOK, Prompted
        <4>2. QED
          BY <2>2, <4>1
      <3>2. CASE d # c
        BY <2>2, <2>3, <2>5, <3>2 DEF TypeOK, Prompted
      <3>3. QED
        BY <3>1, <3>2
    <2>6. QED
      BY <2>4, <2>5 DEF Prompted
  <1>2. ASSUME NEW c \in Conversations, RunAdapter(c) PROVE Prompted'
    <2>1. prompt' \in [Conversations -> Seq(Nat)]
      BY <1>2 DEF RunAdapter, Prompted
    <2>2. ASSUME NEW d \in Conversations, turn'[d].at = "asked"
          PROVE  d # c /\ turn'[d] = turn[d] /\ prompt'[d] = prompt[d]
      BY <1>2, <2>2 DEF RunAdapter, TypeOK, Prompted
    <2>3. QED
      BY <2>1, <2>2 DEF Prompted
  <1>3. ASSUME UNCHANGED prompt,
               \A d \in Conversations : turn'[d].at = "asked" => turn'[d] = turn[d]
        PROVE  Prompted'
    BY <1>3 DEF Prompted
  <1>4. ASSUME NEW c \in Conversations,
               ModelFinishes(c) \/ TurnEnds(c) \/ CloseStream(c)
        PROVE  Prompted'
    <2>1. UNCHANGED prompt
      BY <1>4 DEF ModelFinishes, TurnEnds, CloseStream
    <2>2. \A d \in Conversations : turn'[d].at = "asked" => turn'[d] = turn[d]
      BY <1>4 DEF ModelFinishes, TurnEnds, CloseStream, TypeOK
    <2>3. QED
      BY <1>3, <2>1, <2>2
  <1>5. ASSUME NEW c \in Conversations, NEW k \in Calls, CallTool(c, k) PROVE Prompted'
    BY <1>3, <1>5 DEF CallTool
  <1>6. ASSUME NEW k \in Calls,
               Resolve(k) \/ SendStream(k) \/ HearNothing(k) \/ HearUpdate(k) \/ HearTheEnd(k)
        PROVE  Prompted'
    BY <1>3, <1>6 DEF Resolve, SendStream, HearNothing, HearUpdate, HearTheEnd
  <1>7. ASSUME NEW k \in Calls, Fails(k) PROVE Prompted'
    <2>1. UNCHANGED prompt
      BY <1>7 DEF Fails, ToolRaises
    <2>2. \A d \in Conversations : turn'[d].at = "asked" => turn'[d] = turn[d]
      BY <1>7 DEF Fails, ToolRaises, AfterFailure, TypeOK
    <2>3. QED
      BY <1>3, <2>1, <2>2
  <1>8. CASE UNCHANGED agentVars
    BY <1>3, <1>8 DEF agentVars
  <1>9. CASE Next
    BY <1>1, <1>2, <1>4, <1>5, <1>6, <1>7, <1>8, <1>9, StepCases
  <1>10. QED
    BY <1>8, <1>9 DEF vars

(***************************************************************************)
(* Whatever the limit, however much of a turn the thread has stored, and   *)
(* however much of the thread the caller resent: the model hears each      *)
(* message once, its own among them, over any number of turns.  It hears   *)
(* them in order and its own last, unless the thread is longer than the    *)
(* limit and the caller resent it all; then none of them is left out.      *)
(***************************************************************************)
THEOREM MessagesComeOnce == Spec => []EachMessageOnce
  <1>1. Init => Prompted
    <2>1. Init => prompt \in [Conversations -> Seq(Nat)]
      BY DEF Init
    <2>2. Init => \A c \in Conversations : turn[c].at = "idle"
      BY DEF Init
    <2>3. QED
      BY <2>1, <2>2 DEF Prompted
  <1>2. TypeOK /\ Placed /\ Prompted /\ [Next]_vars => (TypeOK /\ Placed /\ Prompted)'
    BY DelegationNext, PromptedNext
  <1>3. TypeOK /\ Prompted => EachMessageOnce
    <2>1. ASSUME NEW p, NEW n \in Nat, Orderly(p, n)
          PROVE  /\ \A i, j \in DOMAIN p : p[i] = p[j] => i = j
                 /\ \/ (\A i, j \in DOMAIN p : i < j => p[i] < p[j]) /\ Last(p) = n
                    \/ Limit \in 1..(n - 1) /\ \A m \in 1..n : Contains(p, m)
      <3>1. CASE InOrder(p, n)
        <4>1. \A i, j \in DOMAIN p : i \in Nat /\ j \in Nat /\ p[i] \in Nat /\ p[j] \in Nat
          <5>1. \A i \in DOMAIN p : i \in Nat /\ p[i] \in Nat
            <6>1. p \in Seq(Nat)
              BY <3>1 DEF InOrder
            <6>2. DOMAIN p = 1..Len(p) /\ Len(p) \in Nat
              BY <6>1
            <6>3. \A i \in 1..Len(p) : p[i] \in Nat
              BY <6>1
            <6>4. QED
              BY <6>2, <6>3
          <5>2. QED
            BY <5>1
        <4>2. \A i, j \in DOMAIN p : i < j => p[i] < p[j]
          BY <3>1 DEF InOrder
        <4>3. \A i, j \in DOMAIN p : p[i] = p[j] => i = j
          BY <4>1, <4>2
        <4>4. Last(p) = n
          BY <3>1 DEF InOrder, Last
        <4>5. QED
          BY <4>2, <4>3, <4>4
      <3>2. CASE Rotated(p, n)
        BY <3>2 DEF Rotated, Contains
      <3>3. QED
        BY <2>1, <3>1, <3>2 DEF Orderly
    <2>2. TypeOK => \A c \in Conversations : turn[c].no \in Nat
      BY DelegationAssumption DEF TypeOK
    <2>3. QED
      BY <2>1, <2>2 DEF Prompted, EachMessageOnce
  <1>4. QED
    BY <1>1, <1>2, <1>3, DelegationInit, PTL DEF Spec
=============================================================================
