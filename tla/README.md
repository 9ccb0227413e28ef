# Souk, verified: TLA+ modules for the gateway and its SDKs

This directory holds TLA+ models of the souk gateway (`src/souk_server/`) and of
the SDKs that talk to it, TLC configurations that check them on small
instances, and machine-checked proofs about every part that is modelled.
Paths below are relative to the repository root, `src/`.

- [The system](#the-system): components, state, operations, what is hard
- [Modules](#modules): which module models which part, and how
- [Runs](#runs): what each configuration checks, its bounds
- [Fairness](#fairness)
- [Proofs](#proofs): what holds for every value of the constants, and why
- [Findings](#findings): where the code and its own words disagree
- [Observations](#observations): smaller ones, without a run
- [Not modelled](#not-modelled) and [Plan](#plan)

## The system

A souk is a meeting point. *Providers* hold keys, dial in over a WebSocket and
publish *agents* (or *model offerings*); *callers* address an agent by name over
HTTP and read what it says as a stream. The gateway is one asyncio process. It
wraps **funduq core**, an external package that owns the database, the broker
(which run goes to which provider), run records and lineages, tickets and
signature checks. Core is not in this repository: each model states what
`src/` relies on it for, in definitions marked external in `PROJECT.json`.

| Component | Where | State | Operations |
|---|---|---|---|
| KYOK socket | `souk_server/ws_kyok.py`, `ws_common.py` | per socket: read loop, writer task, outbound queue, in-flight table; per completion: a queue and a generator | hello, register, deleteModel, chunk, done, error; `complete()`; teardown |
| KYOK completion route | `souk_server/api_llm_bridge.py` | the caller's event stream | one POST |
| Agent provider socket | `souk_server/ws_provider.py` | per socket: read loop, writer, registration watcher, `registered_names`, interjection table | hello, register, deleteAgent, ack, event, finish, query; deliver, cancel; teardown |
| A2A and AG-UI doors | `api_a2a.py`, `api_agui.py` | none of their own; several reads per answer | send, get, cancel, resubscribe; run, snapshot, tree |
| Presenter proof, read gate | `presenter.py`, `reads.py` | none | who is asking, may they read this thread |
| Tickets | `handshake.py`, `api_registry.py` | core's ticket table | mint, spend |
| Agent SDK | `souk-agent-sdk/souk_agent_sdk/client.py` | outbound queue across connections, runs, pending queries | connect and reconnect, register, offers, events, history queries |
| Agent-to-agent calls | `souk_agent_sdk/a2a_client.py` | the pause a sub-agent call ended in | send, resume |
| Client SDK, conversations | `souk-client-sdk/souk_client_sdk/client.py` | four `last_*` fields between runs | `run()`, reads |
| Client SDK, KYOK bridge | `souk_client_sdk/kyok_bridge.py` | link state, pinned identity, tasks | serve, deregister |
| Go pod-probe provider | `providers/pod-probe-agent/` | run registry, cancel set, backoff | the provider protocol, implemented a second time |
| Pydantic-AI and OpenAI-compatible providers | `providers/` | history replay | one run |
| Docent, directory UI, assembly | `mcp_docent.py`, `souk-directory/`, `server.py`… | none that changes | reads and wiring |

**How they interact.** A provider fetches a single-use ticket over HTTP, spends
it in its hello, and gets the gateway's own signature back in a `welcome`.
Attaching is *nameless* and replaces the identity's earlier link; names arrive
with `register`, which carries the whole roster. From then on the socket's read
loop calls core, and core calls back into the socket object (`deliver`,
`cancel`, `takes_interjections`, `complete`), which only ever queues frames for
the writer task. When the socket ends, a `finally` block detaches it, scoped to
that connection.

**What is hard about it.**

- *Overlap.* A reconnecting provider attaches before its old socket is gone, so
  two sockets of one identity are open at once. Whatever the old one still does
  (answers, teardown) must not touch what moved to the new one.
- *Tasks on one socket.* Read loop, writer, watcher, query tasks and one
  generator per completion share a few dictionaries with no lock. What protects
  them is that nothing between two awaits can be interleaved, so every
  correctness argument is about what is read before an await and used after.
- *Truncation.* A stream that ends because a socket dropped must not look like
  one that ended because the model was done.
- *Silence.* A provider that never answers on a socket that never closes; a
  writer that died while the read loop lives; a watcher that died unnoticed.
- *Pauses.* A run that ends waiting is answered by another run of the same
  lineage, and the answer is proved by a signature over values the client keeps
  in four fields; at the second pause the lineage root and the run differ.

**What makes each component correct.**

- *KYOK relay*: an answer counts only on the socket its request went to; a
  complete answer is exactly what the provider said; nobody waits for a socket
  that is gone; every completion ends; the table stays the binding.
- *KYOK bridge*: attached means listed; a withdrawal is confirmed only by its own
  answer; nothing is served for a caller who has left; a `[DONE]` stands for a call of
  the LLM that ended by itself; an answer goes up the connection its request came down.
- *Provider socket*: what the link remembers publishing is what core serves; cards
  say what the roster said; an agent goes offline only by its own link; a
  healthy but invisible socket is ended.
- *Run relay*, with either provider: of what a provider says behind its yes
  nothing is lost; a cancel finds the work; a run somebody took ends.
- *Agent SDK*: what the link reads after its register is the answer to it; a
  question does not outlive its socket or its timeout.
- *Doors*: what a caller has to sign was asked of it; whoever may not read is
  told what is told of nothing.
- *Delegation*: one conversation is one thread at the sub-agent, and never
  another's; an ambiguous name is nobody's address; a message is heard once; a turn
  goes on for good only if the sub-agent's run does.
- *Client*: the asks and the task id it reports are core's.

`PROJECT.json` lists every hazard with its line and the properties about it.

## Modules

In every module one action is everything the code does between two awaits.
What a definition stands for, line by line, is in `PROJECT.json` under `map`.
`X_Something` operators beside an operator `X` are deliberately broken forms of
it, used to confirm that a property can fail; nothing else refers to them.

```
CompletionContract  <= refined by =  KyokSocket  <= extended by =  KyokBridge
RunRelay  <= extended by =  PodProbe, AgentLink;  each of them refines RunContract
Doors     <= extended by =  Delegation
ProviderSocket, SoukClient: by themselves
```

### KyokSocket: `ws_kyok.py`, `ws_common.py`, `api_llm_bridge.py`

| TLA+ | code |
|---|---|
| `phase[c]`, `pending[c]` | where `kyok_socket` is, and the core call its read loop awaits |
| `writer[c]`, `outbound[c]` | the `write_loop` task and the `asyncio.Queue` it drains |
| `attached`, `serving` | core: the one link of an identity, and what it offers (external) |
| `table[c]` | the keys of `SocketLLMProvider._answers` |
| `said[r]`, `taken[r]` | the completion's queue, kept whole: items ever put, items taken |
| `link[r]`, `stage[r]`, `body[r]` | the socket a completion was delivered on, where `_answer_stream` is, and the caller's event stream |

`Take`/`End` is one resumption of `_answer_stream` together with what
`chat_completions` writes for it; `Start` and `Discard` are its first iteration
and its never getting one (a generator that never ran has no `finally` to run, so
its table entry stays until the socket ends); `CallerLeaves`/`Finalize` keep apart the
cancellation that runs the `finally` at once and the suspended generator the
event loop closes later. `Teardown` is the `finally` of `kyok_socket`: detach,
`fail_pending`, writer. Chunk contents are one value; a chunk that does not
validate is another, because it ends the stream. Both SSE and collapsed answers are
read from the same frames: the collapsed form is the stream's last frame.

**CompletionContract** is the abstract promise to whoever asked: one link holds
the request, only its words count, they are heard in order and none twice, the
answer is complete exactly when the link said so, anything else is a visible
failure. No sockets, queues, timers or tables. `KyokSocket` implements it under
the refinement mapping at its end (`ContractKept`).

### ProviderSocket: `ws_provider.py` without the run frames

| TLA+ | code |
|---|---|
| `phase`, `call`, `writer`, `outbound` | as above; `call.written` splits the awaited core call in its database part and its broker part |
| `wire[c]` | the connection: up, broken under the socket, shut by a close frame |
| `watcher[c]` | the `_watch_registration` task: asleep, asking (names left, found so far), returned, or raised |
| `published`, `declared` | `registered_names`, and the names `_interjections` holds True for |
| `listed`, `card`, `serving`, `attached` | core: registry rows, their interjection flag, live names, the attached link (external) |

Names are numbers because the watcher asks about them in sorted order. `Delist`
is the registration that "disappears underneath a live socket".
`DbMayFail` says whether a registry read inside the watcher can raise; both
values are checked, and they differ (see [Findings](#findings)).

### RunRelay: the run frames of `ws_provider.py`; PodProbe: `providers/pod-probe-agent/`

`RunRelay` is the gateway's part: `deliver` and `cancel` queue frames, the read
loop posts `ack`, `event` and `finish` at core's door in the order it reads them.
`PodProbe` extends it with the Go provider at the other end of the wire, so that
every frame the gateway reads is one that program writes.

| TLA+ | code |
|---|---|
| `wire[c]`, `up[c]`, `down[c]` | a connection of the identity, and the frames on their way; a broken one may still deliver what was sent before |
| `phase[c]`, `attached`, `serving` | the socket's handler, and core's link and whether it has published (external) |
| `status`, `offers`, `record` | core's broker: each run, its offers, the events it is known by (external) |
| `claim[r]` | history: the execution whose yes gave it the run |
| `at`, `link`, `backoff` | where `main` and `connectOnce` are |
| `cancels`, `exec` | the `cancelSet` of this `serve`, and the goroutines of `startRun` |

What core does with a frame is external and taken from `ws_provider.py`'s own
account of it and the gateway's tests: a verdict counts for the run that is on
offer, by run id and identity; a report is recorded while the identity holds the
run, dropped while it does not, answered with an error frame once the run is
over; a link that ends fails what it held and returns what it was only offered. A
link that is replaced has stopped serving, and is treated the same. One action
posts a frame and puts it on the wire; the writer between them is in
`ProviderSocket`. The text of an answer and its last event go out as one event.
A goroutine whose connection is gone does nothing anybody sees, so the rest of it
is one step (`WorksOn`).

**RunContract** is the abstract promise about a run: it is given to one worker, once;
what is on record of that worker is its story from the beginning, in order and with
nothing left out; the record grows only while the run is under way; a run only its
holder worked on ends with the whole story; an end is final. No sockets, frames, queues
or offers. `PodProbe` implements it with gateway and probe, `AgentLink` with
gateway and SDK (`RunContractKept` in either), under the mappings at their ends. What
differs is in two constants. A cancelled worker of the probe tells its story to the
end, one of the SDK stops where it is (`Thorough`); and a connection of the SDK that
was replaced may still bring a yes, for whoever said it (`MayStray`, see the
[observations](#observations)). Of workers beside the holder, who are there because
an offer is made again when its answer is late, the contract promises nothing.

### SoukClient: `souk_client_sdk/client.py`

The four `last_*` fields, `run()` as a request and a stream read event by event,
and core's record of runs, lineages and open asks that the fields mirror
(external: `pause.open_asks` and how a run joins a lineage). What can go wrong
with a call is a set constant, `Disturbances`: `unreachable` (the request never
arrives), `lost` (its response does not), `refused` (a response that is not a
stream), `cut` (the stream is left), `switch` (another thread is addressed while
one waits). Ask ids are a set where the code keeps a list without duplicates.
`run()` is used one call at a time, as the fields allow; two concurrent `run()` calls on
one client overwrite each other's fields and are outside the model.

### KyokBridge: `souk_client_sdk/kyok_bridge.py`, at the other end of KyokSocket

| TLA+ | code |
|---|---|
| `task`, `at` | where `serve_forever` is, and the connection it is on |
| `isAttached`, `deleted` | the events `_attached` and `_deleted` |
| `queue`, `bwriter` | the connection's outbound queue and its `_write_loop` task |
| `calls[r]`, `produced[r]` | the `_serve_one` task of a completion, and how many chunks its LLM call gave (history) |
| `block` | the caller's `async with bridge.serving()` |
| `wire`, `up`, `down` | each connection, and the frames on their way |

Every frame the gateway reads is one this module's bridge wrote, and the other
way round; each end hears of a connection that broke at its own time, and each
end's writer may meet it first. `Unwind` is the `finally` of
`_serve_connection`, with the writer that raises there; `CancelTask` is what
leaving `serving()` does wherever the serve task is. That a cancellation which
unwinds past a dead writer comes out as the writer's error, so that the loop goes
on and the block waits for it, is the `"joining"` state. Fresh
connections are alike, so `Connect` takes any one of them.

### AgentLink: `souk_agent_sdk/client.py`, at the other end of RunRelay

| TLA+ | code |
|---|---|
| `at`, `link` | where `run_forever` and `_run_connection` are, and the connection |
| `outbound`, `writer` | `self._outbound`, one for all connections, and the connection's `_write_loop` |
| `exec[x]` | the runtime's task of the x-th accepted offer (external) |
| `pending[x]`, `asks` | `self._pending`, and the numbering of query ids |
| `answering` | the gateway's `_answer_query` tasks (`ws_provider.py`) |

An execution reports its events and may ask for the thread's history before the
first of them; while it waits it says nothing. `ConnectionEnds` is the `finally` of
`_run_connection`: questions end with the socket, the queue and the executions do
not. The runtime takes an offer while it has room (`TakeRun`) or turns it down;
which of the reasons it was makes no difference to the link (`TurnDown`). `stray` is
history: the runs that were claimed by a yes read off a connection which was not core's
link any more.

### Doors: `api_a2a.py`, `api_agui.py`, `reads.py`, `presenter.py`

| TLA+ | code |
|---|---|
| `call` | the request being answered, and the read of core it waits for |
| `thread`, `run`, `roster` | core's records (external): who a thread is bound to, each run's lineage, state and asks, who is listed |
| `moments` | history: what was true of the thing asked about at each moment of the answer |

One request is followed at a time, while everybody else's writes (runs that
open, settle and are cancelled, threads that are minted and bound) go on between
its reads. A request names what exists or nothing, comes by the route of the
thread's own agent, and presents the key of a party or of a stranger, with a proof
that verifies or does not.

### Delegation: `providers/pydantic-ai-agent/`, calling through Doors with `a2a_client.py`

| TLA+ | code |
|---|---|
| `turn[c]`, `prompt[c]` | `run_stream` of a conversation, and what `with_thread_history` gives its model |
| `Recent(n)`, `Limit` | what core hands back of a thread of `n` messages, and `thread_history_limit` |
| `address` | `ResolvedAddress._address`, kept for the process |
| `contexts[c]` | `sub_threads`: the contextId the conversation passes back |
| `tool[k]` | one call of `call_sub_agent`: lookup, request, stream, result |
| `opened`, `blind` | history: the callee threads of a conversation, and whether a call set out while another had not been told its contextId |

There is one sub-agent, by name. An item put in a turn's queue is yielded at
once, since the queue is an unlimited FIFO whose reader does nothing else.

## Runs

The `MC` modules instantiate the others.
All runs say `CHECK_DEADLOCK FALSE`: sockets and runs are finitely many and none
is reused, so every behaviour comes to rest once they are used up.

| Run | Instance | Shows |
|---|---|---|
| `kyok_takeover` | 2 sockets of 1 identity, 1 completion, 2 answer frames | `TypeOK`, `WholeAnswers`, `TableIsTheBinding`, `NobodyWaitsOnAClosedSocket`, `AnsweredOnItsOwnLink`, `ReplacementSurvives`, `ContractKept` (the relay implements `CompletionContract`) |
| `kyok_bridge` | 2 successive connections of one bridge, 1 completion, an identity of its own | `AttachedIsServed`, `ConfirmedIsWithdrawn`, `NothingCutShort`, `NoLiveAnswerTurnedAway`, `EveryCompletionEnds`, `NothingServedAfterTheBlock` |
| `bridge_pays_on` | the same, a lasting identity | *violated*: `StopsPaying` |
| `provider_registry` | 1 socket, 2 agents, reads answer | `TypeOK`, `PublishedIsServed`, `CardsFollowTheRoster`, `NoRosterStaysInvisible` |
| `provider_takeover` | 2 sockets of 1 identity, 1 agent, reads may raise | `OfflineOnlyByItsOwnLink` |
| `provider_watcher_dies` | 1 socket, 1 agent, reads may raise | *violated*: `NoRosterStaysInvisible` |
| `probe_relay` | 2 connections, 1 run offered twice, 2 executions, late verdicts | `TypeOK`, `TheOpeningIsKept`, `CancelReachesTheRun`, `HeldRunsEnd`, `RunContractKept` (gateway and probe implement `RunContract`) |
| `agent_link` | 2 connections, 1 run offered twice, 2 executions, 2 questions in all | `NoQueryWaitsOnADeadSocket`, `RegisterIsAnsweredFirst`, `EveryQueryEnds`, `HeldRunsEnd`, `RunContractKept` (gateway and SDK implement `RunContract`) |
| `client_asks` | 2 threads, 3 runs, 1 ask, 4 events a run; every disturbance | `TypeOK`, `AsksAreTheLastRuns`, `ProofVerifies` |
| `client_refused_answer` | 1 thread, 2 runs, 1 ask; refused | *violated*: `RefusedAnswerKeepsTheTask` |
| `doors` | 1 agent, 1 thread, 3 runs, 1 ask; every request | `AsksWereOpen`, `AbsenceIsOneAnswer` |
| `delegation` | 2 agents, 2 conversations of 2 turns, 2 calls, a history of 1 message | `TypeOK`, `OneThreadUnlessBlind`, `ConversationsStayApart`, `NeverAWinner`, `EachMessageOnce`, `EveryTurnEnds` |

**Bounds, and why they are enough.**

- Two sockets of one identity are the takeover, and two successive connections
  the reconnect: attaching only ever looks at the latest link, and what a
  connection leaves behind (a queue, a task, an answer) meets the next one.
- Completions never look at each other, so one is enough. Two answer frames give
  every order of chunk, invalid chunk, done, error and drop. `MaxOutbound` keeps a
  frame waiting while the next event happens; it only holds back whoever would
  write into a full queue, which the code never does. With a bridge it is 2, so that
  a gateway's handler still gets its last answer into the queue of a writer that died,
  which nothing empties any more. The multiplexing of
  completions on one socket is what `KyokSocketProofs` proves for any number.
- Two agents are needed for "only when *every* name has gone" and for a roster that
  shrinks; two providers of one name for an ambiguous one.
- Two offers of one run and two executions are an old socket that still speaks
  while the run is on offer on the new one, and a verdict that meets the wrong
  offer. `MaxBackoff` is 1, since the length of the delay tells nothing apart.
  `DeliverTimesOut` is on with the probe and off with the SDK, where two
  offers already come from a link that drops.
- Questions are numbered over the whole link. Two are one execution that asks
  again after a timeout, or two that ask at once.
- Three runs are the shortest history in which a pause answers a pause and another
  follows, which is where root and run part ways (`client_asks`), and in which a
  message queues behind a run that answers a pause (`doors`). Four events are a
  start, a tool call, its result and a finish.
- Two turns are a contextId that is carried from one to the next; two calls are
  two that overlap. A history limit of one message is shorter than the thread from
  the second turn on.

`ProviderTakeover`, `KyokTakeover` and `ClientAsks` use symmetry, and check no
liveness.

`ProofVerifies` speaks of a client that missed nothing (`knows = "all"`): at most a
request that never arrived. With `switch`, `lost` or `cut`, the client is asked to
know what it was never told: the four fields hold one conversation, and a
caller that addresses another thread between a pause and its answer, or misses the
stream, has to keep the lineage itself. With `refused` it was told, and that is
the finding.

`HeldRunsEnd` of `AgentLink` leaves two ways out. Its hypothesis is that the link
does not stay `Mute` for good, connected with a writer that died of an event; and a
run that was claimed by a yes read off a replaced connection (`stray`) need not end.
See the [observations](#observations) for both.

`EachMessageOnce` allows one disorder. Asked for fewer messages than the thread has,
core hands back the newest; when the caller resent the whole thread, the older ones
are not in that history, and come behind it. They are heard once all the same, and
none is left out.

## Fairness

- `ConsumersRun` (KyokSocket): asyncio runs a generator that has something in
  its queue, and a response that can be written is written or its caller found
  gone. Weak fairness each. A caller parked on an empty queue owes nothing.
- `TimersRun`: a gap timer that expired fires. It is the hypothesis of
  `EveryCompletionEnds`.
- `BridgeFairSpec` (KyokBridge): `ConsumersRun`, and the gateway's side of a socket:
  its handler reads what arrived or hears that the connection is gone, core answers
  it, its writer writes or fails. Nothing says that the bridge connects, reads or
  writes, that its caller leaves the block, or that the LLM ends.
- `TasksRun` (ProviderSocket): the writer, the watcher and an awaited core call
  get on. Strong fairness for `Disconnect` once the wire is gone, because the
  read loop may be in a call to core when the connection ends and hears of it
  at its next `receive()`.
- `GatewayRuns`, `ProbeRuns` (PodProbe): the gateway's read loop reads what
  arrives and hears of a connection that broke; the probe's read loop and its
  goroutines get on, and an answer returns, because the client it may wait for has
  a timeout of 120 seconds (`llm.go:50`) and everything else it does is local.
- `FairSpec` (AgentLink): `GatewayRuns`, and on the SDK's side the read loop, the
  writer, the end of a connection that broke, the agents' tasks and the timeout of a
  question. Nothing says that it dials, that an agent asks, or that the gateway
  answers a question.
- `Fairness` (Delegation): the history query has a timeout, so a turn sets out; an
  HTTP request is answered or times out, so a call ends, if only by failing, unless
  it is `Listening`; a model that has its tools' results ends its turn. A call that
  reads from a run still open owes nothing: the 120 seconds of `a2a_client.py:189,
  251` are httpx's, for one read, and an event or a ping now and then is enough to
  keep the stream going. `EveryTurnEnds` says the same of the turn.
- Nothing says that a provider answers, publishes or reconnects, that a caller
  asks, or that a socket drops.

## Proofs

Eight modules prove what follows for every value of the constants, from the named
assumptions of the modules alone (`ConstantsAssumption`: each socket proves one
identity, `None` is neither a socket nor a completion, the bounds are naturals;
`BridgeAssumption`, `RelayAssumption`, `ProbeAssumption`, `AgentAssumption`,
`DoorsAssumption`, `DelegationAssumption` and `ClientAssumption` are of the same kind).
`BridgeAssumption` says besides that every connection proves the bridge's own
identity: the sockets of the composition are those its bridge dials, and another
client's reach neither its queue nor its names.

| Theorem | States |
|---|---|
| *KyokSocketProofs* | |
| `TypeCorrect` | `TypeOK` |
| `AnswersAreBound` | `AnsweredOnItsOwnLink` |
| `TableBinds` | `TableIsTheBinding` |
| `AttachedIsOpen` | core only ever resolves an identity to an open socket that proved it |
| `AnswersAreWhole` | `WholeAnswers` |
| `NobodyIsLeftWaiting` | `NobodyWaitsOnAClosedSocket` |
| `ReplacementIsSafe` | `ReplacementSurvives` |
| `RelayKeepsTheContract` | `ContractKept`: `KyokSocket` implements `CompletionContract` |
| *KyokBridgeProofs* | |
| `BridgeRunsTheRelay` | every behaviour of the composition is one of `KyokSocket`, so that the theorems above hold with a bridge at the other end |
| `BridgeTypeCorrect` | `BridgeTypeOK`, which no run checks |
| `AnswersAreHeard` | `NoLiveAnswerTurnedAway` |
| `AttachedMeansServed` | `AttachedIsServed` |
| `DeletedMeansWithdrawn` | `ConfirmedIsWithdrawn` |
| `CompleteMeansWhole` | `NothingCutShort` |
| *DelegationProofs* | |
| `DelegationTypeCorrect` | `TypeOK` |
| `NoSharedThread` | `ConversationsStayApart` |
| `OneThreadPerConversation` | `OneThreadUnlessBlind` |
| `NobodyGuesses` | `NeverAWinner` |
| `MessagesComeOnce` | `EachMessageOnce` |
| *AgentLinkProofs* | |
| `LinkTypeCorrect` | `TypeOK` of `AgentLink`, which no run checks |
| `QueriesDieWithTheirSocket` | `NoQueryWaitsOnADeadSocket` |
| `TheOpeningIsUndisturbed` | `RegisterIsAnsweredFirst` |
| `LinkKeepsTheContract` | `RunContractKept`: `AgentLink` implements `RunContract` |
| *SoukClientProofs* | |
| `ClientTypeCorrect` | `TypeOK` |
| `AsksAreTrue` | `AsksAreTheLastRuns` |
| `TheProofVerifies` | `ProofVerifies` |
| *ProviderSocketProofs* | |
| `ProviderTypeCorrect` | `TypeOK` |
| `TheAccountIsTrue` | `PublishedIsServed` |
| `CardsAreTheRosters` | `CardsFollowTheRoster` |
| `OnlyItsOwnLinkTakesItOffline` | `OfflineOnlyByItsOwnLink` |
| *DoorsProofs* | |
| `DoorsTypeCorrect` | `DoorsTypeOK`: requests and records keep their types |
| `StrangersAreToldNothing` | `AbsenceIsOneAnswer` |
| `TheAsksWereOpen` | `AsksWereOpen` |
| *PodProbeProofs* | |
| `ProbeTypeCorrect` | `TypeOK` |
| `OpeningIsKept` | `TheOpeningIsKept` |
| `CancelsFind` | `CancelReachesTheRun` |
| `ProbeKeepsTheContract` | `RunContractKept`: `PodProbe` implements `RunContract` |

**The relay.** Three layers, each inductive with the ones before it.

1. `TypeOK`, one step per action.
2. `Binding`: `Placed` (a completion that was delivered has a socket that is
   open or closed; one that was not has said nothing), `AttachedLinksAreOpen`,
   `TableIsTheBinding` and `AnsweredOnItsOwnLink`. None is inductive by itself. That
   an answer comes from the completion's own socket needs the table to be the
   binding; that a new entry goes to an open socket needs core's link to be
   open; that a teardown finds exactly its own completions needs both.
3. `Hearing`: what the caller was given is the prefix of what was said that the
   generator has taken, all of it chunks until the closing frame. From it follows
   `WholeAnswers`. `NobodyWaitsOnAClosedSocket` is inductive relative to
   `Binding` and to `taken[r] <= Len(said[r])`: `fail_pending` reaches a
   running generator because its table entry is there, and the item it puts
   in lies ahead because no more was taken than said.

`ReplacementIsSafe` is an action property and follows from `TypeOK` by cases:
only `Teardown` sets a link to `None`, and only for its own socket.

**The refinement.** Under the mapping a completion is its socket, the kinds of what
was said of it, how many of the chunks were heard, and how it was decided.
`ContractInit` maps the initial state; `ContractNext` shows every step to be one of
the contract's or a stutter, from the three layers: a word is added only by
the link that holds the request (`AnsweredOnItsOwnLink`, `Placed`), a teardown fails
what its table holds (`TableIsTheBinding`), and what is heard is the next word in
order (`Hearing`).

**The bridge.** `BridgeRunsTheRelay` is by cases: the bridge's own steps leave the
relay's variables alone, and the gateway's are actions of `KyokSocket` with a wire
put to them. `AnswersAreHeard` needs to know where an answer may be.
`OneTask`: the bridge has a queue, a writer and the name of being attached exactly
while its task serves on a connection. `Routed`: what is in that queue answers
completions of the connection it is on, and what is on a wire those of its own.
`Settled`: an answer was turned away only for a completion that was over, and
those stay over. A completion that somebody still waits for is in the table of its
own socket (`TableIsTheBinding`), so what is read from that socket finds it.

*Attached and withdrawn.* `AttachedIsServed` and `ConfirmedIsWithdrawn` look at two
ends of a connection and say nothing of what lies between, so neither is inductive.
`Withdrawal` follows the two requests the bridge makes of core. A registration goes
from the frame that asks for it to the call of core, to the answer, to the answer on its
way back: `RegistersOnce` counts it in each of those places, at most one to a
connection, and none once the bridge has read its answer. A removal, wherever it is,
means a block that is withdrawing on that connection (`RemovesOnlyWhenAsked`). `Offered` is
`AttachedIsServed` from the moment core has registered: what could undo it is a
removal, and there is none. `Withdraws` is the converse: with the confirmation given, or
on its way, nothing is left on the link core holds that would register again. `Talk` is
what both need of the opening: before its hello is answered a connection has
nothing on it but the hello.

*Complete means whole.* `NothingCutShort` follows a number through five hands: what the
LLM gave, the connection's queue, the wire, what the gateway took as said, what the
caller got. `Delivery` keeps the sum. While a completion is in the table of the
connection the bridge serves, and the wire is up, the frames said, on the wire and in
the queue are as many as the LLM gave, plus the one that ends the answer (`Tally`). A
connection that breaks takes frames with it, so the sum cannot hold for ever; it is kept
only for answers whose end got away in time (`UpTally`, `SaidTally`), and those are whole,
since the end is the last frame of its answer in every queue (`NothingAfterDone`) and
is there only if the LLM call ended by itself (`DoneIsWhole`). A request is
asked for once (`AskedOnce`), or two calls would add to one sum. The last hand, from what
was said to what the caller got, is `AnswersAreWhole` of the relay, which holds here by
`BridgeRunsTheRelay`.

**Delegation.** `NoSharedThread` rests on `Owned`: each conversation's contextId is
of a thread opened for it, and so is the thread a call was sent with. `NobodyGuesses`
rests on `Singled`: a lookup that found one provider was made on a roster of one
listed provider, and who is listed alone is in the history from then on. Both need
`Placed`: a call that set out is a conversation's, and one that reads has a run.
`OneThreadPerConversation` rests on `Threading`. A call is unheard of when it is on its way, or
has a run and was not told its contextId. A conversation that was never blind has one such
call at most; a thread was opened by some call that has a run, and a call that was told
left its contextId behind. So when a call sets out without a contextId and nobody is
unheard of, no call before it opened anything, and its thread is the first.
`EachMessageOnce` rests on `Prompted`, which says of every turn that its prompt is
in order and ends with the turn's message, or is rotated. What core hands back is a
`Window` of the thread, up to its last message or the one before. What a merge puts
behind it is what is not in the window: of a single message, that message or nothing
(`OneSent`); of the whole thread, first all that the limit cut off, numbered as it was,
then the last (`TailOfAll`). With nothing cut off the prompt is in order; otherwise it
has each of the thread's messages at one place (`AllSent`).

**The agent link.** `QueriesDieWithTheirSocket` by `QueryInv`: where the loop is
determines whether it has a connection, and a question that was asked of a connection
was asked of this one, while it serves. `TheOpeningIsUndisturbed` rests on
`Opening`: a connection that was never dialled has nothing on it, is not core's link and
has no task answering on it; core gives work only to a link that serves
(`WorkIsServed`); and until its register is answered a connection holds the opening
frames alone. The last is kept because there are only three ways for a frame to
get in: core, which has no work for a link that serves nothing; an answer to a question,
which was read off that connection and so comes after; and the queue, which has no
writer yet.

*The contract.* An execution's words go through three hands: the queue that outlives the
connections, the connection the link is on, core's record. In each they form one
`Line`: one yes in front of all the rest; the words in order, each behind the one
before it; and, if nobody else works on the run, the end behind the last word. The
invariant says where that line is. With its yes in the queue, all of it is
there and no connection has anything of it (`Queued`). With its yes on a connection, it
goes on in the queue while the link is on that connection and its writer lives, and is
cut there once it is not so (`Sent`): what comes after the cut goes out on the next one. With its yes read off the
connection that serves, the run is held, the record has its first `k` words, and what is
on the way continues them (`Granted`); no other connection has a word of it, because core
fails the run when that connection goes. `Granted` is where a yes off a replaced
connection has to be told from the others: such a run may be held by an execution
whose line was cut. What these need of the rest: whose the frames are (`Owned`); that a
hello is alone on its connection (`Hellos`), so that a connection is attached before
anything is said on it; that once the link was welcomed core has it, or one that
serves nothing and has nothing to be read (`Succession`); that core has nothing for a run
on offer (`Unclaimed`); and that an execution which stops early was told to, for a run
that is being cancelled or over (`CutShort`), which makes an end of a run nobody cancelled the end
of the whole story. `WaySteps` lists the six things a step can do to a connection
and the queue behind it, and `OnTheWayNext` is one case for each.

**The client's conversations.** `AsksAreTrue` relates what a stream has read to the
run's record. `Recorded`: a record starts once and nothing follows its last
event. `Followed`: what the call has announced and answered is what the record
says up to where it has read, and the asks are empty until the last event is
read. `Reported`: the asks left behind are those of a run that has ended, whose record
does not move any more. `TheProofVerifies` adds `TaskInv`, which holds as long
as the client was told everything. Between calls no thread's latest run is active,
and one that waits is the run the client names, so that what the client decides
about the next call (`Continues`) is what core decides about the next run
(`OpenAsks`); during a stream the carried task is the lineage the run joined.

**The provider socket.** `TheAccountIsTrue` is not inductive by itself. `Registry` adds
to it `Linked` (a link core holds is an open socket of its identity; an identity without
a link serves nothing) and `Socketed` (a socket that is not open awaits no call; one
that never opened has published nothing; while a register is not yet written, the
declarations are still those of the link). `CardsAreTheRosters` and
`OnlyItsOwnLinkTakesItOffline` are action properties, by cases over the steps of a
socket: a card is written where a register's names are; and a name leaves `serving`
by the steps that end the attached link or replace it, or by the one that answers that
link's own call, when it is what the call was for (`TakenOff`). A replaced socket's
teardown is none of them, whatever the live link is waiting for.

**The doors.** `Base` is the typing together with `Placed` (a run is of a thread that
exists, and its lineage begins in that thread) and `Stages` (what kind of request is at
which read). `StrangersAreToldNothing` rests on `Told`: past the gate the caller is
allowed, and stays so, since a thread's binding and a request's subject do not change
once they exist. `TheAsksWereOpen` rests on `Seen` and on one lemma, `LineageStays`:
while a run of a lineage is open nothing joins that lineage. So the run that was read as the
tail is the tail until it is over, and what it asks afterwards does not change;
either way there was a moment at which just those asks were open.

**The run relay and the pod probe.** `OpeningIsKept` says nothing of queues, and they are
what it depends on. `Owned`: a frame, an entry and a claim are of an execution that was
started, about the run and by the connection it was started for. `Lines` follows each
execution's words through the queue into the record, as one line: the yes is in front of
every event and there is only one (`YesFirst`); the events are in order, and all behind
those in the record (`InOrder`); before each comes the one before it, in the queue or,
if the run is still the execution's, in the record (`NoneMissing`); and while it works
the last it said is there too (`SaidSoFar`). Each step does one of six things to a line,
a lemma each: it reads or writes a frame of another, reads the line's yes or its next
event, lets it emit, or empties the queue of a connection that is gone. The record then
grows by the event that was due (`NextInLine`). `CancelsFind` rests on `Listed`: of the
connection it serves the cancel set has every execution that is alone in its run, since only
another of the same run and connection removes it.

*The contract.* From `Lines` the next event read of a run's holder is the one that is
due. An end needs one thing more, `Finishes`: a finish is of an execution that is done, on
its own connection, with its last event before it in the queue or, if the run is still
that execution's, on record. `TheOpeningIsKept` then has the rest of the story in front of that
event. `Unclaimed` (nobody has a run that is on offer) makes the first yes the only one.

Only model-checked: the liveness properties (`EveryCompletionEnds`,
`NothingServedAfterTheBlock`, `NoRosterStaysInvisible`, `HeldRunsEnd` with either provider, `EveryQueryEnds`,
`EveryTurnEnds`), since fairness and `ENABLED` are outside this prover's reach. Every
invariant and every action property of a passing run is proved. `SelectSeq`
is defined by recursion over a sequence, which the provers cannot unfold; `Merged` names
the positions it picks instead, and that form is what the `delegation` run checks.

## Findings

Three runs expect a violation: the code does other than its own comments say.

1. `provider_watcher_dies`: the watcher that exists to end "a healthy container
   and an invisible agent, indefinitely" is a task nobody observes. One registry
   read that raises ends it (`souk_server/ws_provider.py:356`), and the condition
   it watches for can then last for ever. At teardown its exception surfaces
   before the writer is cancelled.
2. `client_refused_answer`: `SoukClient.run` forgets the open asks as soon as
   any response begins (`souk_client_sdk/client.py:316`), also one that refuses
   the answer. The retry that is accepted is then taken for a new task, and the
   next pause's proof is signed over the wrong id.
3. `bridge_pays_on`: the bridge's `finally` awaits its writer under
   `suppress(CancelledError)` (`souk_client_sdk/kyok_bridge.py:397`). A writer that
   met the broken connection first raises there, and the loop behind it that
   cancels the LLM calls, "stop paying the LLM for output with nowhere to go", is
   not reached.

### Observations

Noticed while modelling; in the models where that is said, and no run of their own.

*Gateway.*

- The watcher asks about the roster it saw before its awaits
  (`ws_provider.py:352`). A roster published meanwhile is closed for the previous
  one's absence, though "only when *every* name has gone" is promised (lines
  344-346). The reconnect repairs it; the runs the socket carried are lost.
  `ProviderSocket` has it.
- Verdicts are attributed to an identity, not to a connection. A yes that is read
  off a replaced connection claims a run that is on offer on the new one. If
  the execution behind it is over, and the second offer is turned down, the run stays
  held for as long as the provider is connected. `AgentLink` has it (`stray`); it is
  why `HeldRunsEnd` excepts such a run, and why `RunContract` promises nothing of
  it (`Stray`): part of what its worker said may have been lost with the
  connection that was replaced. `docs/server-mode.md:705-713` counts on the
  end of the socket, which has then already been.
- `_answer_query` is a task nobody keeps a reference to.
- `api_a2a.py:69-72` says that `outstandingAsks` is there "wherever this door hands
  back a task waiting on an answer"; the replies of `tasks/list` and of the streams are
  not annotated. `Doors` has it (`on_list_tasks`, `on_subscribe_to_task`).
- The snapshot looks at the thread's latest run only (`api_agui.py:82`). A message
  queued behind a pause hides `waiting_run`, though "a thread waiting on an answer also
  says what it is waiting on" (lines 129-130). A run that was cancelled is skipped by this
  door and annotated by the other. One reply may show a run active in one read
  and waiting in the next.

*SDKs.*

- An event that JSON cannot carry ends `_write_loop`
  (`souk_agent_sdk/client.py:603`) while the socket stays up: the provider is
  connected, takes offers and says nothing, and a run it holds does not end.
  `AgentLink` has it (`Mute`), and `HeldRunsEnd` leaves it out.
- Leaving `serving()` while the writer has died can lose its cancellation, and the
  block then waits for a task that reconnects, for as long as it does
  (`kyok_bridge.py:291-297`, `316-318`). The withdrawal before it has a timeout, leaving
  the block has none. `KyokBridge` has it (`"joining"`), and no property is about it.

*Providers.*

- The probe starts an execution for every `run` frame (`run.go:86-94`), also of a
  run it is at. When its yes comes later than core waits, the run is offered again,
  the yes meets the second offer, and two executions report into one record. The
  first `finish` ends it. The `cancelSet` then knows one of the two, and later none.
- The delay before a reconnect is reset only when `connectOnce` returns nil
  (`main.go:58`), which it never does.
- A `thread_history_limit` shorter than the thread turns a prompt round when an AG-UI
  client resends it all: the messages the limit cut off are not among those souk handed
  back (`history.py:78-79`), and are put behind the newest. "Order is history first, then
  anything from this run that souk has not stored yet", and "that tail is usually empty"
  (`history.py:60-62`), does not count on messages that are stored and were not asked
  for. `Delegation` has it, and `EachMessageOnce` allows for it.
- A turn waits for its sub-agent as long as the callee's run is open and its stream shows
  signs of life; `call_sub_agent` has no limit of its own for the whole call.
- Calls to a sub-agent that overlap in a conversation's first turn fork it
  (`sub_agent_tool.py:67-69` promises one conversation down there). `Delegation` has it:
  `OneThreadUnlessBlind` says that there is no other way.
- An HTTP error from the gateway fails the whole turn; "an unreachable sub-agent is
  not a reason to fail the whole run" (lines 86-87) holds for the lookup alone.
  A JSON-RPC error inside the stream is told as "no response". Cancelling the
  parent's turn leaves the callee's run going.

## Not modelled

- *funduq core* itself: its database, broker and signature checks are an
  external package. What the models need of it is stated where they use it, in
  definitions marked external in `PROJECT.json`.
- *Cryptography and encodings*: tickets, signatures, hellos and frames are
  accepted or refused, never computed. Tickets are minted and spent in core;
  `handshake.py` and `api_registry.py` add one call each.
- *MCP docent, directory UI, configuration, health, certificate script, agent
  template*: reads, rendering and wiring, without state that changes.
- *OpenAI-compatible agent and `souk_tools.py`*: the one forwards a stream and keeps
  nothing, the other makes single requests looked up by name.
- *Pod-probe tools*: filesystem and cluster reads.
- *Two concurrent `run()` calls on one `SoukClient`*: they overwrite each
  other's fields; the class is written for one conversation at a time.
- *Deletion of an agent while first lookups overlap* (`Delegation`): the roster
  only grows, since a provider whose agent is gone is refused by the door afterwards.
- *Process crash of the gateway*: nothing in `src/souk_server/` is persisted; a
  restart is the end of every socket, which is modelled one socket at a time.

## Plan

What would come next: a roster that shrinks in `Delegation`; tickets with their expiry, in
front of every module with a socket; and hazards `PROJECT.json` lists without a
property, first the roster that changes under the watcher (`ws_provider.py:352`), which
needs a statement of what a reconnect repairs.
