----------------------------- MODULE Delegation -----------------------------
(***************************************************************************)
(* An agent that hands work on: providers/pydantic-ai-agent, main.py's     *)
(* run_stream, history.py, resolve.py and sub_agent_tool.py, calling       *)
(* another agent through the A2A door of Doors with souk_agent_sdk's       *)
(* a2a_client.  A conversation with the agent is turn after turn; in a     *)
(* turn its model may call the sub-agent several times, also at once, and  *)
(* each call opens a run on the callee's side.  What ties the calls of a   *)
(* conversation together is contexts, the contextId last returned.         *)
(*                                                                         *)
(* One sub-agent, by name.  An item put in the turn's queue is yielded at  *)
(* once: the queue is a FIFO without a limit and its reader does nothing   *)
(* else.  Bounds: MaxTurns per conversation, MaxCalls in all.              *)
(***************************************************************************)
EXTENDS Doors, Sequences, SequencesExt

CONSTANTS
  Conversations,     \* the parent's threads
  Provider,          \* the config's provider:, or None
  Limit,             \* the config's thread_history_limit:, 0 for none
  MaxTurns, MaxCalls

ASSUME DelegationAssumption ==
  /\ Provider \in Agents \cup {None}
  /\ Limit \in Nat
  /\ MaxTurns \in Nat
  /\ MaxCalls \in Nat

Calls == 1..MaxCalls

VARIABLES
  turn,       \* run_stream of each conversation, and how many there were
  prompt,     \* the messages the turn gives its model
  address,    \* ResolvedAddress._address
  contexts,   \* sub_threads: each conversation's contextId at the callee
  tool,       \* the calls of call_sub_agent
  opened,     \* history: the callee threads of each conversation
  blind       \* history: a call set out while another had not been told its contextId

agentVars == <<turn, prompt, address, contexts, tool, opened, blind>>
vars == <<doorVars, moments, agentVars>>

NoTool == [of |-> None, at |-> "none", listed |-> {}, context |-> Nowhere,
           run |-> Nowhere, told |-> FALSE, result |-> "none"]

Init ==
  /\ DoorsInit
  /\ turn = [c \in Conversations |-> [at |-> "idle", no |-> 0]]
  /\ prompt = [c \in Conversations |-> <<>>]
  /\ address = None
  /\ contexts = [c \in Conversations |-> Nowhere]
  /\ tool = [k \in Calls |-> NoTool]
  /\ opened = [c \in Conversations |-> {}]
  /\ blind = [c \in Conversations |-> FALSE]

-----------------------------------------------------------------------------
(* A turn. *)

UpTo(n) == [i \in 1..n |-> i]

\* What core hands back of a thread of n messages: messages[-limit:].
Recent(n) == LET cut == IF n > Limit THEN n - Limit ELSE 0
             IN [i \in 1..(n - cut) |-> cut + i]

Merged_Prepended(history, sent) == history \o sent

\* By message id: the history first, then what is not in it, in order.
Merged(history, sent) ==
  LET unseen == {i \in DOMAIN sent : ~Contains(history, sent[i])}
      nth(j) == CHOOSE i \in unseen : Cardinality(unseen \cap 1..i) = j
      tail == [j \in 1..Cardinality(unseen) |-> sent[nth(j)]]
  IN IF history = <<>> THEN sent ELSE history \o tail

Carried_FreshPerRun(c) == [contexts EXCEPT ![c] = Nowhere]

\* The dictionary is the conversation's, not the run's: setdefault.
Carried(c) == contexts

\* A conversation's runs come in a row.  with_thread_history: A2A hands over
\* the one message, an AG-UI client all of them; core may not have stored the
\* last one, and hands back no more than Limit; without a limit, and after a
\* failed query, the prompt is what was sent.
StartTurn(c) ==
  /\ turn[c].at = "idle"
  /\ turn[c].no < MaxTurns
  /\ turn' = [turn EXCEPT ![c] = [at |-> "asked", no |-> @.no + 1]]
  /\ LET n == turn[c].no + 1 IN
     \E sent \in {<<n>>, UpTo(n)} :
        \/ /\ Limit > 0
           /\ \E stored \in {n - 1, n} :
                prompt' = [prompt EXCEPT ![c] = Merged(Recent(stored), sent)]
        \/ prompt' = [prompt EXCEPT ![c] = sent]
  /\ contexts' = Carried(c)
  /\ UNCHANGED <<doorVars, address, tool, opened, blind>>

\* drain_adapter is a task from here on.
RunAdapter(c) ==
  /\ turn[c].at = "asked"
  /\ turn' = [turn EXCEPT ![c].at = "running"]
  /\ prompt' = [prompt EXCEPT ![c] = <<>>]
  /\ UNCHANGED <<doorVars, address, contexts, tool, opened, blind>>

InFlight(k) == tool[k].at \notin {"none", "over"}
CallsOf(c)  == {k \in Calls : tool[k].of = c}
Abandoned(c) == [k \in Calls |-> IF tool[k].of = c /\ InFlight(k)
                                 THEN [tool[k] EXCEPT !.at = "over", !.listed = {}, !.context = Nowhere,
                                                        !.result = "dropped"] ELSE tool[k]]

AfterFailure_NoSentinel == "lost"

\* drain_adapter's finally: _DONE is put whatever ended the adapter.
AfterFailure == "ending"

ModelFinishes(c) ==
  /\ turn[c].at = "running"
  /\ \A k \in CallsOf(c) : ~InFlight(k)
  /\ turn' = [turn EXCEPT ![c].at = "ending"]
  /\ UNCHANGED <<doorVars, prompt, address, contexts, tool, opened, blind>>

\* Whatever a tool raises ends the adapter, and its other calls with it.
ToolRaises(c) ==
  /\ tool' = Abandoned(c)
  /\ turn' = [turn EXCEPT ![c].at = AfterFailure]
  /\ UNCHANGED <<doorVars, prompt, address, contexts, opened, blind>>

TurnEnds(c) ==
  /\ turn[c].at = "ending"
  /\ turn' = [turn EXCEPT ![c].at = "idle"]
  /\ UNCHANGED <<doorVars, prompt, address, contexts, tool, opened, blind>>

\* The generator is closed under the turn: its finally cancels the task.
CloseStream(c) ==
  /\ turn[c].at = "running"
  /\ turn' = [turn EXCEPT ![c].at = "idle"]
  /\ tool' = Abandoned(c)
  /\ UNCHANGED <<doorVars, prompt, address, contexts, opened, blind>>

-----------------------------------------------------------------------------
(* call_sub_agent. *)

\* A name is looked up among those listed, those of one provider if it is said.
Candidates == {p \in roster : Provider \in {None, p}}

Resolved_First(C) == IF C # {} THEN CHOOSE p \in C : TRUE ELSE None

\* What several offer is nobody's address, and a refusal is not remembered.
Resolved(C) == IF Cardinality(C) = 1 THEN CHOOSE p \in C : TRUE ELSE None

\* What is passed back is read before the request goes out.
SetsOut(k, c) ==
  /\ tool' = [tool EXCEPT ![k] = [NoTool EXCEPT !.of = c, !.at = "sending", !.context = contexts[c]]]
  /\ blind' = [blind EXCEPT ![c] = @ \/ \E j \in CallsOf(c) \ {k} :
                                           tool[j].at # "lookup" /\ tool[j].result # "unreached"
                                             /\ ~tool[j].told]

\* ResolvedAddress.get returns without suspending once it has an address.
CallTool(c, k) ==
  /\ turn[c].at = "running"
  /\ tool[k].at = "none"
  /\ \A j \in Calls : j < k => tool[j].at # "none"
  /\ IF address # None THEN SetsOut(k, c)
     ELSE /\ tool' = [tool EXCEPT ![k] = [NoTool EXCEPT !.of = c, !.at = "lookup",
                                                        !.listed = Candidates]]
          /\ UNCHANGED blind
  /\ UNCHANGED <<doorVars, turn, prompt, address, contexts, opened>>

\* resolve_address, on the roster as it was when GET /agents was answered.
Resolve(k) ==
  /\ tool[k].at = "lookup"
  /\ LET found == Resolved(tool[k].listed) IN
     IF found # None
     THEN address' = found /\ SetsOut(k, tool[k].of)
     ELSE /\ tool' = [tool EXCEPT ![k] = [@ EXCEPT !.at = "over", !.listed = {}, !.result = "unreached"]]
          /\ UNCHANGED <<address, blind>>
  /\ UNCHANGED <<doorVars, turn, prompt, contexts, opened>>

\* SendStreamingMessage, through the door.
SendStream(k) ==
  /\ tool[k].at = "sending"
  /\ \E t \in Threads, r \in Runs :
       /\ Message(tool[k].context, address, t, r)
       /\ opened' = IF tool[k].context = Nowhere
                    THEN [opened EXCEPT ![tool[k].of] = @ \cup {t}] ELSE opened
       /\ tool' = [tool EXCEPT ![k] = [@ EXCEPT !.at = "reading", !.run = r, !.context = Nowhere]]
  /\ UNCHANGED <<turn, prompt, address, contexts, blind>>

\* An error inside the 200 has no result, and the loop ends having read nothing.
HearNothing(k) ==
  /\ tool[k].at = "sending"
  /\ tool' = [tool EXCEPT ![k] = [@ EXCEPT !.at = "over", !.context = Nowhere, !.result = "silence"]]
  /\ UNCHANGED <<doorVars, turn, prompt, address, contexts, opened, blind>>

Remember_ForEverybody(c, t) == [d \in Conversations |-> t]

\* Every status and artifact update carries the contextId.
Remember(c, t) == [contexts EXCEPT ![c] = t]

HearUpdate(k) ==
  /\ tool[k].at = "reading"
  /\ ~tool[k].told
  /\ contexts' = Remember(tool[k].of, run[tool[k].run].thread)
  /\ tool' = [tool EXCEPT ![k].told = TRUE]
  /\ UNCHANGED <<doorVars, turn, prompt, address, opened, blind>>

\* The last update's state decides what the model is told.
Report(r) == CASE run[r].st = "failed" -> "failed"
               [] OpenAsks(r) # {}     -> "pending"
               [] OTHER                -> "answer"

HearTheEnd(k) ==
  /\ tool[k].at = "reading"
  /\ tool[k].told
  /\ ~Open(tool[k].run)
  /\ contexts' = Remember(tool[k].of, run[tool[k].run].thread)
  /\ tool' = [tool EXCEPT ![k].at = "over", ![k].result = Report(tool[k].run)]
  /\ UNCHANGED <<doorVars, turn, prompt, address, opened, blind>>

\* The roster or the stream fails: an HTTP status (404, 401, 429), a read that
\* times out, a broken connection.  Nothing in the tool catches it.
Fails(k) ==
  /\ tool[k].at \in {"lookup", "sending", "reading"}
  /\ ToolRaises(tool[k].of)

-----------------------------------------------------------------------------
OfTurn(c) ==
  \/ StartTurn(c) \/ RunAdapter(c) \/ ModelFinishes(c)
  \/ TurnEnds(c) \/ CloseStream(c)
  \/ \E k \in Calls : CallTool(c, k)

OfCall(k) ==
  \/ Resolve(k) \/ SendStream(k) \/ HearNothing(k) \/ HearUpdate(k) \/ HearTheEnd(k)
  \/ Fails(k)

Elsewhere == Core /\ UNCHANGED agentVars

Next ==
  /\ \/ \E c \in Conversations : OfTurn(c)
     \/ \E k \in Calls : OfCall(k)
     \/ Elsewhere
  /\ UNCHANGED moments

Spec == Init /\ [][Next]_vars

\* The callee's run is open, and its stream with it: httpx's timeout is for one
\* read, and an event or a ping now and then is enough to answer that.
Listening(k) == tool[k].at = "reading" /\ Open(tool[k].run)

\* The history query has its own timeout; a model stops calling tools and a
\* finished task is noticed.  So is an HTTP request's answer, or its timeout,
\* unless it is a stream that goes on.
Fairness ==
  /\ \A c \in Conversations : WF_vars((RunAdapter(c) \/ ModelFinishes(c)
                                         \/ TurnEnds(c)) /\ UNCHANGED moments)
  /\ \A k \in Calls : WF_vars(~Listening(k) /\ OfCall(k) /\ UNCHANGED moments)

FairSpec == Spec /\ Fairness

-----------------------------------------------------------------------------
(* Properties. *)

Tools == [of : Conversations \cup {None},
          at : {"none", "lookup", "sending", "reading", "over"},
          listed : SUBSET Agents, context : Threads \cup {Nowhere}, run : Runs \cup {Nowhere},
          told : BOOLEAN,
          result : {"none", "dropped", "unreached", "silence", "answer", "failed", "pending"}]

TypeOK ==
  /\ DoorsTypeOK
  /\ turn \in [Conversations ->
        [at : {"idle", "asked", "running", "ending"}, no : 0..MaxTurns]]
  /\ address \in Agents \cup {None}
  /\ contexts \in [Conversations -> Threads \cup {Nowhere}]
  /\ tool \in [Calls -> Tools]
  /\ opened \in [Conversations -> SUBSET Threads]
  /\ blind \in [Conversations -> BOOLEAN]

\* sub_agent_tool.py AgentDeps.sub_agent_context_ids.  What the conversation
\* sends to its sub-agent stays on one thread there, over all its turns and
\* however they ended, as long as every call knows what the ones before it
\* were told; only a call that sets out while another has not been told its
\* contextId, or never was, can start a second one.
OneThreadUnlessBlind ==
  \A c \in Conversations : Cardinality(opened[c]) > 1 => blind[c]

\* main.py run_stream, sub_threads.  Two conversations never meet on the
\* callee's side: a run opened for one is on a thread opened for it.
ConversationsStayApart ==
  \A k \in Calls : tool[k].run # Nowhere => run[tool[k].run].thread \in opened[tool[k].of]

\* resolve.py resolve_address.  The address is kept for the life of the
\* process, so it had better be nobody's guess: without a provider to go by,
\* whoever the agent calls was once listed alone, however the roster and the
\* lookups under way overlapped.
NeverAWinner == Provider = None => address \in alone \cup {None}

\* history.py with_thread_history.  A model hears every message of its turn
\* once, its own among them, whatever of them the caller resent: in order and
\* its own last, unless the thread is longer than the limit and the caller
\* resent all of it, when what the limit cut off comes behind the rest.
EachMessageOnce ==
  \A c \in Conversations : turn[c].at = "asked" =>
     LET p == prompt[c]
         no == turn[c].no
         inOrder == \A i, j \in DOMAIN p : i < j => p[i] < p[j]
     IN /\ \A i, j \in DOMAIN p : p[i] = p[j] => i = j
        /\ \/ inOrder /\ Last(p) = no
           \/ Limit \in 1..(no - 1) /\ \A m \in 1..no : Contains(p, m)

\* main.py run_stream.  Whatever its model's tools run into, a turn's stream
\* does not go on for good, unless a call in it reads from a run at the callee
\* that never closes.
EveryTurnEnds ==
  \A c \in Conversations : []<>(turn[c].at = "idle" \/ \E k \in CallsOf(c) : Listening(k))

=============================================================================
