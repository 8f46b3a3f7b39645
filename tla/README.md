# Formal models of Governed Multi-Agent Intelligence

TLA+ modules, TLC runs and TLAPS proofs for *Governed Multi-Agent Intelligence on
Databricks*: an agent server that routes a question to governed tools, delegates
bounded work to other agents through a task bus with leases and retries, asks
managers for approval, and publishes what it does as lifecycle events; the web
client that talks to it; and the scripts that set it up, release it and give it
its permissions. Paths below are relative to `src/src/aiserver/` unless they start
with `operations/`, `scripts/` or `aiweb/` (under `src/src/`), or with `docs/` or
`databricks.yml` (under `src/`).

* [The system](#the-system): components, state, operations, interactions
* [The modules](#the-modules): how each corresponds to the code
* [The runs](#the-runs): what each checks, its bounds
* [Fairness](#fairness)
* [The proofs](#the-proofs)
* [Disagreements](#disagreements): where the code differs from its documents
* [Assumptions and omissions](#assumptions-and-omissions)
* [Plan](#plan)

`PROJECT.json` names, for every definition, the lines it models, the mutants
that each property is known to catch, and the hazards the properties are for.

## The system

One FastAPI application per process, one asyncio event loop, a worker thread for
lifecycle events, and any number of such processes over shared Databricks
services. The scripts run in an operator's checkout or in CI, the web client in a
browser.

| Component | State | Operations | Talks to |
| --- | --- | --- | --- |
| Invocation and stream handlers `api/invocations.py` | one request: persona, agent run, buffered answer, verdict | prepare, connect, execute with retries, finalize, release, persist | everything below |
| Conversation memory `infrastructure/persistence/memory.py` | turns and persona preference per conversation (Lakebase) | `save_turn`, `recent_turns`, `save_persona_preference`, `get_...` | handlers |
| Guardrails `application/guardrails/checks.py` | none | truncate, input and output verdicts | handlers |
| Orchestration `application/orchestration/`, `application/auth/`, `adapters/tools.py` | MCP health cache, model route cache, sticky routes | tool policy, route plan, build tools and servers, connect, resolve the model | handlers |
| Delegation: handoff, worker, policy `application/delegation/` | the record a worker holds | `delegate_to_agent`, `run_once`, `run_forever`, `evaluate_delegation_policy` | task bus |
| Task bus, in memory and Delta `infrastructure/persistence/tasks.py` | task records by id, key index, leases | `submit`, `claim`, `claim_task`, `mark_running`, `complete`, `fail`, `get` | handoffs, workers, approvals |
| Approvals `application/approvals/`, `api/approvals.py` | decisions by request id | submit a decision, submit the follow-up task | task bus, policy |
| Lifecycle message bus `infrastructure/messaging/bus.py` | bounded queue, worker thread | `publish`, `close` | all publishers |
| Application lifespan `api/server.py` | stop event, worker task | start and stop the app worker, close the bus | worker, bus |
| Settings, container `config/`, `bootstrap/` | backends, `*_fail_open` switches | build the above | |
| Web client's chat session `aiweb/src/useChatSession.ts`, `chatReducer.ts`, `api.ts`, `stream.ts` | transcript, active query, conversation id, decisions under way | submit, cancel, clear, decide, read the stream | `/api/chat` or `/invocations`, approvals API |
| Setup command `operations/quickstart.py` | `.env`, `databricks.yml`; experiment and Lakebase project in the workspace | authenticate, bind to an app, set up experiment and Lakebase | both files, CLI, workspace |
| Release `operations/prepare_app_source.py`, `release_controller.py`, `databricks_apps_client.py`, `scripts/deploy_app_rest.py` | static UI, wheel, local and remote payload, manifest, App deployments | prepare, import, release, start, check, deploy | workspace, Apps platform |
| Runtime grants `operations/grant_app_runtime_permissions.py`, `grant_lakebase_memory_permissions.py` | permissions, SQL grants, Lakebase roles, memory schemas | one grant after the other, stage by stage | workspace, warehouse, Lakebase |
| HITL app, other scripts, notebooks, evaluation | outside the server | | approvals, Databricks |

What is hard here, and what makes the components correct:

* **Task bus.** Leases run out under running executors, workers return late,
  submissions are repeated, executors fail. *One task per key, one holder at a
  time, takeover only after the lease, a stale worker cannot settle, no way back
  from an outcome, retries within the budget.* The Delta bus has to achieve it
  with separate SQL statements from several processes.
* **Handoffs and workers.** A handoff drives the worker's code synchronously and
  may be cancelled at every await; events may raise between claim and run; the
  app worker's loop must survive and shutdown must not hang. *An executor run is
  always accounted for; an answer stays true; abandoned tasks are recovered.*
* **Approvals.** A decision and its follow-up are two writes with a crash in
  between, over stores of different durability. *A follow-up exists exactly for
  an approval; decisions are final; what was answered is stored.*
* **Message bus.** publish, the worker thread and close race. *Order is kept,
  loss is recorded, close ends the thread.*
* **Orchestration.** Requests of all users share one health cache of MCP servers,
  one model cache and the remembered routes, read before an await and written
  after it; the connects of a request run concurrently but pass one lock. *No
  request is offered a tool its user, persona or the question's sensitivity
  forbid; a server is given up for its own failure only and not for ever; nothing
  is used past its TTL; the connect stage ends.*
* **Handlers.** Two dozen points at which a request can be timed out, cancelled
  or abandoned by its client, retries that rerun the agent, three separate
  memory commits. *No unguarded text is released, nothing is remembered that was
  not released, the audit trail agrees with the client, a stream ends.*
* **Web client.** Tokens, replays, cancellations, clears and approval decisions
  arrive in any order. *Nothing of a cleared conversation reaches the next one, a
  finished message stays, every query ends.*
* **Setup.** Two files and a workspace are updated key by key by a command that
  may be interrupted anywhere and is run again with other arguments. *Once a run
  completes, the two files name the same experiment and the same Lakebase, and
  the connection it leaves is complete.*
* **Release.** UI, wheel, payload, manifest and two deployments are separate
  artefacts of separate scripts. *The UI is that of the code it is shipped with;
  what is submitted is what the manifest names.*
* **Grants.** Dozens of grants, any of which may be refused or left out, for a
  principal that may be replaced. *What is reported as granted is granted, and
  a rerun takes nothing away.*

## The modules

| Module | Models | Composes |
| --- | --- | --- |
| `TaskLifecycle` | what any task bus promises: accept, lease, lapse, give back, finish, drop | |
| `TaskBus` | `InMemoryAgentTaskBus` under its most general client | implements `TaskLifecycle` |
| `DelegationRuntime` | handoffs, app workers, approval submissions and the lifespan of one process | `TaskBus` |
| `UcTaskBus` | `UcAgentTaskBus`, one action per SQL statement, with the handoffs and app workers of several processes | implements `TaskLifecycle` |
| `DelegationPolicy` | `evaluate_delegation_policy` and the name resolution of approvals as operators | |
| `ApprovalService` | decisions, their repository, follow-up tasks, restarts, eight deployments | `DelegationPolicy` |
| `AsyncMessageBus` | the queue, its worker thread and `close()` | |
| `RequestHandlers` | `invoke_handler` and `stream_handler` over the conversation memory | |
| `Orchestration` | the connect stage of requests: policy, routes, tools, MCP servers and model under the shared caches | |
| `ChatClient` | the chat session of the web client against the server's event stream | |
| `Quickstart` | repeated, interrupted runs of the setup command | |
| `Scripts` | one script at a time, a bounded number of them | |
| `Release` | the scripts that build and release both Apps | `Scripts` |
| `RuntimeGrants` | the two scripts that grant permissions to the Apps' principal | `Scripts` |
| `SequenceLemmas` | what the proofs know of `FlattenSeq`, by induction over a set of naturals | |

The theorems about a module `X` are in `X_proofs`, with three exceptions:
`DelegationRuntime_proofs` also has those about `TaskBus`, `Services_proofs` those
about `ApprovalService` and `AsyncMessageBus`, and `Operations_proofs` those about
`Release`, `RuntimeGrants` and `Quickstart`. `MC*.tla` give the constants of small
instances; each `.cfg` is one run.

**TaskBus.** `records`, `order`, `taskIdByKey` are `_records`, its insertion
order, and `_task_id_by_idempotency_key`; `now` is `utc_now()`. Every method
holds the bus's lock throughout, so a method is one action, raising included
(`Owns` false means `RuntimeError`, no step). `claim` is `ClaimAt(w, i)` or
`ClaimNothing`: the loop walks the records in order, rewrites those past their
expiry to `expired` on the way, and leases the first it may. `claim` is always
called with `limit=1`.

**DelegationRuntime.** An action is the code from one await of the bus or of an
executor to the next. `phase` and `local` are the program counter and the record
each coroutine got from its claim. `Rejects`, `Starts`, `Finishes` are the
branches of `run_once`; `LosesTask` is the `RuntimeError` that leaves it.
`HandoffCancelled` is the cancellation of the request at any await;
`ClaimedEventRaises` and `AfterSettling` are events that raise when
`message_bus_fail_open` is off. The worker ids are the code's: all handoffs of
one correlation id share `handoff:{correlation_id}`, and an app worker has
its own.

**UcTaskBus.** `table` is the task table. Each statement is an action and is
named for it: `SelectCandidate`, `LeaseRow`, `VerifyLease`, `CountAttempt` are a
claim. The variable `deployment` holds who takes part, chosen in `Init` and
never changed: its `handoffs` and `apps`, the time it is observed `until`, and
whether it is `silent`. If it is, a statement may have no effect, or find
nothing, without raising, because `_execute_sync` does not look at the status in
the response. `Interrupted` is an exception, a cancellation or the death of the
process before any statement; `Restarted` is the next process.

**ApprovalService.** The variable `settings` holds one deployment, chosen in
`Init` and never changed: which backends are durable, fail-open, whether
statements fail silently, and how many processes serve. `running` says which
call holds an event loop: the repository is synchronous, so within one process
the calls interleave only at the await of `task_bus.submit`. In the Delta bus that
is two statements, `SubmitTask` (the lookup of the key) and `InsertTask`; a request
may therefore have several follow-ups, and where statements fail silently the
lookup may find nothing and the INSERT may store nothing while `submit` returns.
`AsStored` is the conversion `_parameters` makes (an absent field becomes `""`).

**AsyncMessageBus.** Put and get are atomic by the queue's own lock; everything
else of the two threads interleaves. `WorkerTimesOut` and `WorkerChecksStop` are
separate because `_stopped` is read after the empty `get`.

**RequestHandlers.** A phase is an await or a yield. An interruption is one of
four things, which the code treats differently: the timer fires at an await
(`TimeoutError` in the body), the timer fires while the consumer of the
generator is suspended at one of its own awaits (the consumer is cancelled and
the generator closed), the client is gone at a yield (`GeneratorExit`), the task
is cancelled at an await (`CancelledError`). `Close` and `CloseRaises` leave the
`AsyncExitStack` of MCP servers and run the except clause. Text is a sequence of
chunks, of which a guardrail objects to `flagged`; what is released, what is
checked and what fits the budget are computed as the code does, with deltas and
finished items, suffixes, and truncation. A response may have no message or empty
ones. `PersistSteps` leaves out the question of a request that has none (it is not
in `Asking`) and an answer without text, each by itself, as the code does.

**Orchestration.** An action is the code between two awaits of the connect stage:
a request is routed, asks for each planned server in turn, waits for the lock,
connects, probes `list_tools`, writes `health`, and gets its model. The phase
`checking` is the `gather` over the servers, whose calls are in `call[r][a]`.
`condition` is what a call meets (a server that is up, connects but is deaf, is
down, or hangs) and may change between any two steps. An agent is its position in
`Agents`; `Barred` are the users a server refuses under their own identity. Which
agents a question's words match is chosen freely. `history` records when what
happened for the properties; no action reads it.

**ChatClient.** A page runs one handler or continuation at a time. Aborting a query
rejects the read it interrupts, so its catch and finally blocks belong to the
aborting step. Both endpoints are modelled, with their different treatment of
sequence numbers and of repeated text. A delta is a token, and `Spelling` gives its
characters: `fullText.endsWith(delta)` is a comparison of characters, which a delta
passes that no earlier one was equal to.

**Quickstart.** `stage` and `pending` are the place in the script and the writes still
to do; each write of a key is a step and `Interrupted` may come between any two. A
run reads the files at the start of a stage, as the code does. An endpoint stands
for its project, branch, database and host. `listed` says whether
`databricks.yml` has an entry after which a new one is inserted; where there is none
the update adds nothing.

**Release.** A script is the sequence of calls it has yet to make; each is a step
and may fail, which ends the script and leaves what was done. The Apps platform is
external: a deployment is accepted while none is pending and ends later. A payload
is committed with each revision (`Tracked`), so a checkout brings its wheels and
keeps those git does not know (`CheckedOut`). `BundleDeploy` is the call of the
bundle CLI in a release: its artifact build empties `dist` and makes a wheel there
with whatever UI the tree has, then it syncs sources and payload to the workspace
(how much of them is its own choice) and creates missing Apps. `dist` has no way to
the payload but the copy of a preparation.

**RuntimeGrants.** A script is the set of items left, taken in the order of its
stages; each item is granted, refused or skipped for a missing object, and a SQL
statement may still be running when it is counted. The audit grants are planned for
a target whose message bus is the audit table only (`audit`). A role has a set of
memberships. The script lists the roles of a branch in one call (`ListRoles`) and
writes in a later one (`GrantRole`), where `update-role` replaces the whole list of
memberships; in between, and at any time, someone else may give one
(`MembershipGiven`) and the role may appear. Principals are numbers; an App that is
deployed anew has the next one.

## The runs

| Run | Shows | Distinct states |
| --- | --- | --- |
| `runtime` | keys are idempotent, leases protect and fence, outcomes are earned, the bus under its real clients implements `TaskLifecycle` | 2,777,130 |
| `runtime_liveness` | tasks get settled, shutdown ends | 81,965 |
| `uc_task_bus` | the Delta bus with contending workers, interruptions, restarts; that its table implements `TaskLifecycle`; what remains true when statements fail unnoticed | 3,000,805 |
| `approvals` | decisions and follow-ups in eight deployments with restarts | 80,087 |
| `async_bus` | order, accounting, drain at the sentinel, close | 8,292 |
| `handlers` | guarded release, memory, audit trail, deadline | 1,342,182 |
| `handlers_unchecked` | violation: text beyond the response budget is released unchecked | |
| `orchestration` | only allowed tools are offered, blame of servers is just and forgotten, connects are bounded, caches are fresh | 5,970,452 |
| `chat` | conversations are isolated, text is faithful, settled messages stay, queries end | 52,790 |
| `quickstart` | the two files and the workspace agree after complete runs, whatever was interrupted before | 2,991,894 |
| `release` | the UI matches the code, a submission is what the manifest says | 2,015,669 |
| `grants` | what is reported is granted, a rerun takes no membership away | 8,891,602 |

Some properties are conjunctions of named parts: `AttemptsFence` is
`StaleWorkerIsFenced` and `RunsAreCounted`; `EventsKeepOrder` is
`DeliveredInOrder` and `SentinelDrains`; `FollowUpIsApproved` is
`FollowUpOnlyIfApproved` and `FollowUpHasApprover`; `AnswersAreKept` is
`AnsweredIsStored` and `AnsweredApprovalHasFollowUp`; `OnlyFreshIsUsed` is
`RouteIsFresh` and `ModelIsFresh`.

Bounds, and why they are enough:

* *runtime*: two handoffs of the same delegation, an app worker and an approval
  whose task expires at 2; `MaxTime` 3 with a lease of 1, so that a lease lapses
  under an executor, its successor's too, and the third attempt is past the
  budget of two. Events may raise.
* *runtime_liveness*: one handoff, one approval, `MaxTime` 4. With a bounded
  clock a lease that ends after the horizon never lapses; `BeyondHorizon` excuses
  exactly these tasks.
* *uc_task_bus*: two deployments. In `MCContention` a handoff and the app workers
  of two processes, both restartable, contend for one task until time 3. In
  `MCDegraded` statements fail silently for a handoff and an app worker whose
  policy denies the task, until time 2. `MaxRuns` 9 bounds attempts and executor
  starts of a task.
* *approvals*: four calls on one request: the same approval twice, one without
  its optional fields, one rejection; up to two processes; decisions and tasks each
  in memory or durable, with silent failures of either.
* *async_bus*: a queue of 2 and 4 events, so that the queue is full before,
  while and after `close()`.
* *handlers*: a stream that states a persona and an invocation that inherits it,
  in one conversation; both settings of `memory_fail_open`; the code's two
  retries; a budget of 4 chunks and responses that fit it, exceed it, are flagged
  within it and beyond it, with and without source and approval suffix, without a
  message and with an empty last one. The invocation has no question.
* *orchestration*: two requests of one conversation by two users and personas,
  over three agents of different identity, audience and sensitivity, one of which
  refuses one user; a clock of 4 with TTLs of 1 and 2; two changes of a server's
  condition and one new model version, each at any time. The servers are both up or
  both hung at the start, so both connects of a request can hang one after the
  other at the lock. Its bound is then 3, below the end of the clock; it is reached,
  and TLC refutes `ConnectIsBounded` with a bound that is one smaller.
* *chat*: two queries, one clear, one notice, a history of 2 messages; four
  answers with replayed events, repeated tokens, a token that the text before it ends
  with although it was never sent (`"1"`, `"00"`, `"0"`), errors and a pending
  approval.
* *quickstart*: three runs with any arguments over two profiles, one Lakebase
  endpoint, one instance and one created experiment; two templates of
  `databricks.yml` and four kinds of bound resource. Two runs create a
  disagreement, the third repairs it or does not.
* *release*: two revisions with different versions, whose payloads track the same
  wheel before and after it has its UI; three scripts in any order, so that
  half a release, or half a preparation, precedes a preparation and a release.
* *grants*: one source, index, branch and privilege, at most one of them missing, and
  a membership besides the superuser's; two principals, two runs, three sets of
  flags and targets. The stages of spaces, endpoints and searches are those of the
  source and the index with other names; the theorems cover them.

`CHECK_DEADLOCK FALSE` is set in every cfg, since requests, handoffs, scripts and
queries end and bounded clocks stop; that nothing hangs is what the liveness
properties say.

## Fairness

* `FairRSpec` (*runtime_liveness*): weak fairness of the app worker's loop, of
  each run in hand, of a handoff's next statement, of the end of a shutdown, and
  of the clock. The event loop resumes every ready coroutine, so each is
  scheduled; `execute` is assumed to return or raise, which the source does
  not enforce (an executor that hangs holds its task until the lease ends and its
  worker for ever). Nothing forces requests, approvals or shutdown to happen.
* `QueueFairSpec` of `AsyncMessageBus`: the worker thread runs, the wrapped bus
  returns, a `close()` that began goes on (its `join` has a timeout).
* `FairSpec` of `RequestHandlers`: only the deadline's timer and the exit of the
  `AsyncExitStack`. Agents, MCP servers and clients are not assumed to do
  anything, so that `StreamIsBounded` shows the deadline alone bounds a stream.
* `Spec` of `ChatClient`: only the browser's timer. The server may send headers
  and then nothing; `QueriesEnd` shows that the timer alone ends a query.

`Orchestration` needs no fairness: `ConnectIsBounded` bounds the time a request has
spent in the stage, in which the clock does not pass a timer that is due.

## The proofs

Each theorem holds for every value of the constants that satisfies the named
`ASSUME` of the modules concerned, and of what the table says.

| Module | Theorem | Statement |
| --- | --- | --- |
| `DelegationRuntime_proofs` | `TypeCorrect` | `Spec => []TypeOK` of the bus |
| | `LeaseAlwaysComplete` | status, owner and lease end of a record go together |
| | `KeysAreIdempotent` | a key names exactly one stored task |
| | `BudgetDecides` | pending only below the budget, dead letters only at or above it |
| | `ResultsMatch` | a stored result is the outcome that is reported |
| | `NoLeaseIsStolen` | no step hands an unlapsed lease to another worker |
| | `SettledStaysSettled` | no step reopens a settled task |
| | `BusImplementsLifecycle` | `TaskBus` implements `TaskLifecycle` |
| | `RuntimeUsesBus` | every step of the runtime is a step of the bus or leaves it alone |
| | `RuntimeKeysAreIdempotent`, `RuntimeStealsNoLease`, `RuntimeImplementsLifecycle` | what is proved of the bus, of the runtime |
| | `RuntimeTypeCorrect` | `RTypeOK` |
| | `LeasesProtect` | `LeaseProtectsWorker`: a worker in its lease still owns its task |
| | `StaleWorkersAreFenced` | `StaleWorkerIsFenced`: a worker that was taken over from settles nothing |
| | `RuntimeOutcomesAreEarned` | `OutcomeIsEarned`: outcomes and answers are backed by executor runs |
| `UcTaskBus_proofs` | `SettledRowsStay` | no statement changes a settled row, shared ids and silent failures included |
| | `DurableOutcomesAreEarned` | `OutcomeIsEarned`, shared ids and silent failures included |
| | `ExecutorsAreExclusive` | `OneExecutorPerLease`, if no two participants share an id (`Unshared`) |
| | `AttemptsFenceWorkers` | `AttemptsFence`, if `Unshared` |
| | `DurableBudgetDecides` | `AttemptBudgetDecides`, if `Unshared` |
| | `DurableBusImplementsLifecycle` | `ImplementsLifecycle`: the table goes through `TaskLifecycle`, if no two handoffs submit one key (`KeysApart`) |
| `Services_proofs` | `QueueKeepsOrder` | `EventsKeepOrder` |
| | `QueueLosesNothing` | `EventsAccountedFor` |
| | `FollowUpsAreApproved` | `FollowUpIsApproved` |
| | `AnswersLast` | `AnswersAreKept`: an answered approval keeps its decision and, where tasks are durable and no statement fails silently, its follow-up |
| | `DecisionsAreFinal` | `DecisionIsFinal` |
| `Orchestration_proofs` | `OnlyAllowedTools` | `OnlyAllowedIsOffered` |
| | `BlameIsJust` | `BlamedForItsOwnFailure` |
| | `FaultsAreForgotten` | `FaultIsForgotten`, if the failure TTL is not 0 |
| | `CachesAreFresh` | `OnlyFreshIsUsed` |
| | `ConnectStageIsBounded` | `ConnectIsBounded` |
| `RequestHandlers_proofs` | `AnswersAreGuarded` | `GuardedRelease` |
| | `MemoryHoldsAnswersSent` | `RememberedWasReleased` |
| | `MemoryStaysCoherent` | `MemoryIsCoherent` |
| | `AuditTellsTheTruth` | `AuditAgreesWithClient` |
| `ChatClient_proofs` | `ConversationsAreIsolated` | `ConversationIsIsolated` |
| | `AnswersStaySettled` | `SettledStays` |
| | `AnswersAreFaithful` | `TextIsFaithful` |
| `Operations_proofs` | `WheelsCarryTheirUi` | `UiMatchesCode`, of the wheels that no revision tracks |
| | `SubmissionsCarryTheManifest` | `SubmittedIsManifest` |
| | `RerunsAreHarmless` | `RerunTakesNothing` |
| | `ReportsAreTrue` | `ReportedIsGranted` |
| | `SetupFilesAgree` | `FilesAgree` |
| | `LocalFollowsDeployed` | `LocalMatchesDeployed` |
| | `ConnectionsAreComplete` | `ConnectionIsComplete` |

**TaskBus.** `StepOfRecord` says what one step of the bus may do to one record:
nothing, store it, claim it, expire it, start, complete or fail it. It is proved
once, by the actions; every other proof is a case split over it. The invariant
`BusInv` is the conjunction of `TypeOK`, `LeaseComplete`, `OneTaskPerKey`,
`AttemptBudgetDecides` and `ResultMatchesStatus`. The conjuncts need each other:
that a completed record has the result of its status needs that a leased one had
none, that a task handed back is below its budget needs that the status decided
it, and the key index is only functional over the stored tasks the type
invariant speaks of. For the refinement, a state maps to the owners of the leased
records, the leased records whose lease has ended, and the settled ones; one lemma
per action shows that its step is an abstract step or a stutter. `MarkRunning`
stutters, a `Tick` is a `Lapse`, a `claim` that leases is a `Lease` that drops
the expired tasks passed on the way.

**DelegationRuntime.** `RuntimeUsesBus` is a refinement with the identity on the
bus's variables, so every theorem about `TaskBus` holds here. `RunInv` adds what a
worker with an id of its own may rely on while it has a record in hand (`Relies`):
if the stored record is still its own, attempt and lease are the ones it claimed,
and until that lease ends it is its own or has expired. `EarnInv` counts: an
executor start is preceded by the claim that raised `attempt`, so a task's starts and
the workers between its claim and their start are together no more than its attempts
(`Counted`). A succeeded or given up task therefore was started (`Earned`), and an
answer, given once and last, stays what the record says (`Answered`).

**UcTaskBus.** `UcInv` is `Shape`, `SettledIsUnowned` and `InsertIsFirst`: a settled
row has no owner, so the `WHERE` clause of no statement matches it, and the only
statement without one, the INSERT, comes first for its row. Exclusion needs
`LeaseInv`, which says what the lease remembered in a process proves about the row.
It holds of the deployments in which no statement fails silently and ids are not
shared, and the code needs both (see [Disagreements](#disagreements)). `WorkInv`
says what each process is about to write and why (`Working`), and what its answer is
worth (`Told`); it needs neither. `BudgetInv` says that what `fail()` decided in its
SELECT still fits the row when its UPDATE finds it owned (`Decided`), and `FenceInv`
that a process that owns its row knows its attempt, of which it has not started the
executor until it does (`Remembers`). The former allows silent failures, the latter
does not, since a lost count is an uncounted execution. Both need unshared ids: in
`MCDuplicates` TLC refutes them, because the twin passes the ownership test and
counts an attempt in between.

The refinement of `TaskLifecycle` maps the table, not what the processes remember:
the owners of the rows, the leased rows whose lease has ended, the settled rows. The
INSERT accepts a task. Every UPDATE is one of three things (`WrittenRow`): it leases
a row that is free or lapsed, it changes a row of its owner that stays leased, or it
gives up a row of its owner; all else is time passing. `LifeInv` says that leased
rows have owner and end, that what a claim took for the time was the time, and that
a stored task was asked for. It needs neither unshared ids nor noticed failures, so
this is what the Delta bus promises wherever a key is submitted once. The proof
found one thing: a claim fixes the end of its lease before its UPDATE, so the lease
may be over when it is granted; `Lease` allows it, and the in-memory bus never does
it.

**AsyncMessageBus.** `QueueInv` is `Shape`, `Ordered` (in hand before queued,
delivered before both), `SentinelLast` (all that was published before the close is
ahead of the sentinel or has left the queue) and `EventsAccountedFor`.

**ApprovalService.** `ApprovalInv` says that in one process one call at a time is
between its read and its answer (`Serial`). Where nothing fails silently or open
and one process serves (`Reliable`), the save therefore finds no decision
(`SavingFindsNone`) and a decision answered for is stored (`DecisionIsStored`). A call
that is `inserting` has nothing stored for it yet; that an answered approval has its
follow-up therefore needs that the INSERT takes effect when it returns.
Only calls that approve submit, and the call behind a follow-up has ended, so no
later step takes back that it stands behind it.

**Orchestration.** `StageInv` has three parts that are proved side by side: `OfferInv`
(what a route holds is allowed now, since persona and identity of a request do not
change), `CacheInv` (each entry ends within its TTL, counted from the match or the
replacement it goes back to), and `BlameInv` (each unhealthy entry and each server given
up has a fault of its own in `history`, recent enough). `PaceInv` is a fourth, on time:
each connect that has had its turn at the lock may have used one connect timeout, so no
check that has its turn began later than `Spent`, the number of those that began
(`Begun`) times the timeout after the request was received (`InTurn`). `WithinBound`
follows because only planned servers are checked.

**RequestHandlers.** `HandlersInv` is the type, `Sound(r)` for each request, and three
facts about the memory: a persona in it was stated, an answer in it was delivered, and
the question of an answer comes before it, if it has one. `Sound(r)` says what verdict,
audit trail and notice are at each stage. The key is that a handler that is `Over`
changes neither answer nor verdict again, so `Delivered` stays true, and that a step of
one request leaves the others alone (`OthersKeep`).

`AnswersInv` adds that a verdict belongs to the response in hand and is not taken back
(`AnswerIsChecked`), so what is released has one. That a released answer is clean
needs in addition what the code computes: `FlaggedIsSeen` says that a flagged chunk
of an answer that fits the budget is part of the text the guardrail saw, although
that text is flattened from the output items and may be cut.

**ChatClient.** `ChatInv` is proved over all actions at once: a query has one answer at
most and a transcript none of a query to come (`AnswersApart`), an answer whose query
is under way is streaming (`StillStreams`) and has no decision while one is sent
(`Undecided`). `SettledStays` is then an action property of `Rewritten`, which says what
one reducer call may do to one message. `TextInv` relates three sequences, the answer
the agent gave, the events on the wire and the text on the page: the wire carries every
delta of the answer and no other (`Carries`), a call has read a prefix of the wire and
has seen exactly its events (`HasRead`), and the text is that of some deltas, each the
first of its event, in their order; every other delta read so far is `Dropped`, which
is to say that it came before or that the text of that moment ended with it (`Shows`).
The witnesses are positions, and that of the page in the answer is the composition of
the two, so that no induction over the text is needed.

**Sequences.** What the recursive `FlattenSeq` returns needs an induction, and the
library's induction theorems take an operator, which no backend here instantiates.
`SetInduction` states induction over a set instead; it follows from `WFMin` and
`NatLessThanWellFounded`. With it `FlattenIsFlattening` shows that `FlattenSeq`
satisfies its recursive equation, `FlattenPlaces` that its elements are those of its
parts in order, and `FlattenContains` that none is lost.

**Release.** A script's `todo` is always an end of its plan (`Ahead`), and its length
tells what has been done: `Prepared` and `Published` say so, call by call.
`UiMatchesCode` needs that no other script fills the payload (`OnlyPrepareFills`): the
bundle deployment of a release does build a wheel, but into `dist`, from where only a
preparation copies, and after its own build. What git and the bundle's sync add to a
payload is committed or was there before.

**RuntimeGrants.** Permissions and privileges are added only; what a role may lose is
memberships, by `update-role`, and never the superuser's (`SuperuserIsKept`).
`RerunTakesNothing` needs that no later run of a settled principal gets as far as
`update-role`: it has a superuser role on every planned branch (`SettledHasRoles`), so
what a later run lists either contains it, and the run is done, or is empty because
the list failed, and nothing is updated; and a listing in hand is one of the run's own
principal, and an empty one if that is settled (`ListingIsOwn`).
`NothingIsForgotten` says that a planned grant is there or still to be seen to
unless the script has failed; an index is seen to after its check. `SchemasFollow`
says the same of the memory schemas.

**Quickstart.** The properties hold only of completed runs, so their invariant speaks of
the value each key *will* have once the pending writes are done (`WillBe`,
`YmlWillBe`): past the authentication one profile in both keys (`ProfileFollows`),
past the experiment one in both files (`ExperimentFollows`), and the Lakebase of
`.env`, of `databricks.yml` and of the variable `config` agree (`LakebaseFollows`,
`ResourceFollows`). `UserFollows` depends on no write having been lost.

TLC evaluated the strengthened invariants on the instances of the runs before they
were proved, where it can; not so `TextInv`, whose witnesses are sequences. Every
safety property of the passing runs has a theorem. Model-checked only: the liveness
properties (`TasksGetSettled`, `ShutdownTerminates`, `CloseStopsWorker`,
`StreamIsBounded`, `QueriesEnd`), because fairness and `ENABLED` are beyond the
prover, and the refutation of `ReleasedWasChecked`. No module declares a RECURSIVE
operator.

Besides types, the theorems assume of the constants: budgets, bounds and durations are
natural numbers, positive where the named assumption says so; the placeholder for "none"
is none of the values it stands for (in `RequestHandlers` neither a notice nor
`"passed"`); participants have distinct requests; the answers in `ChatClient` are finite
sequences of events, of any length, and no token is spelled with no characters;
statements fail silently only where something is durable; the payload of a revision is
one of wheels of the revisions; and a template of `databricks.yml` whose Lakebase
variable is set binds a resource of that kind (`TemplatesAssumption`), as the code
writes the two together.

## Disagreements

Where the code does something else than a document, comment or docstring says.
The first is a run and the finding in `PROJECT.json`.

1. **Unchecked text beyond the budget** (`ReleasedWasChecked`, run
   `handlers_unchecked`). The guardrail evaluates the truncated text, and the
   stream yields all buffered events.
   `docs/architecture/runtime-specification.md:88`: "Guardrails run on response
   output before final return."

TLC refutes each of the following when the property is added to the cfg named (or
the constant is replaced there); no run is kept for them.

2. **The app worker dies with a lost lease** (`WorkerRunsUntilShutdown`,
   `MCDelegationRuntime.cfg`). `_require_owned` raises `RuntimeError`, which leaves
   `run_once` and `run_forever`; nobody restarts the task. `worker.py:90`:
   "Continuously claim work until application shutdown signals cancellation".
   Shutdown then raises the same error before the message bus is closed.
3. **Two rows of one key** (`OneRowPerKey`, `MCUcTaskBus.cfg` with
   `Deployments <- MCDuplicates`). Lookup and INSERT of the Delta bus are two
   statements; `tasks.py:211`: "Insert a task unless its idempotency key already
   exists."
4. **Duplicate handoffs are not fenced from each other** (`OneExecutorPerLease`,
   `MCUcTaskBus.cfg` with `Deployments <- MCDuplicates`). They share a worker id
   (`handoff.py:46`), so each passes the other's ownership test.
   `docs/governance/agent-harness-guidelines.md:32`: duplicate delegations "settle
   idempotently".
5. **A silent failure breaks the exclusion** (`OneExecutorPerLease` without its
   `~deployment.silent`, in a silent deployment of h1, app1 and app2 until 3). The
   UPDATE of a claim fails unnoticed, and a restarted worker takes the row of its
   earlier run, whose lease is over, for the one it has just leased.
6. **A repeated approval is a conflict** (`RepeatedApprovalHasFollowUp`,
   `MCApprovalService.cfg` with `Calls <- MCBare`, `Settings <- MCDurableOnly`).
   Absent fields come back as `""` (`approvals.py:95`), so the same request differs
   from its stored record; after a crash between save and submit the approval never
   gets its task. `docs/governance/human-approval.md:121`: "If and only if".
7. **An approved handoff may have no tool** (`HandoffIsOffered`,
   `MCOrchestration.cfg`). `docs/architecture/system-architecture.md:227`:
   "Approved app-auth handoffs use `delegate_to_agent`"; a route that names its
   candidates keeps the tools that are named for one of them (`invocations.py:279`),
   and `delegate_to_agent` is named for none.
8. **A second setup forgets the branch** (`RerunKeepsBranch`, a PROPERTY for
   `MCQuickstart.cfg`). A run that reuses the Lakebase in `.env` rewrites the
   resource without branch and database. `operations/quickstart.py:1846`: "Check
   for existing config (idempotency)".
9. **A release reports the previous deployment** (`ReportedIsReleased`,
   `MCRelease.cfg`). Health is that of the active deployment while the submitted
   one is pending. `operations/release_controller.py:155`: "publish App snapshots,
   and verify App health".
10. **No approval buttons on /api/chat** (`ApprovalIsOffered`, `MCChatClient.cfg`
    with `Surfaces = {"chat"}`). The `completed` event that follows recomputes the
    message without the pending approval.
    `aiweb/tests/e2e/workspace.spec.ts:328`: "shows manager actions for a pending
    HITL response".

The following were met while modelling or by reading.

* *Lapsed leases are retried without a budget*: only `fail()` looks at
  `max_attempts` (`tasks.py:73`; runtime-specification.md:140: "bounded retries,
  leases, expiry, and dead-letter states"). `AttemptBudgetDecides` therefore
  speaks of failures only.
* *`claim` rewrites settled tasks past their expiry to `expired`*, keeping the
  result (`tasks.py:60`, before the status is tested), although its docstring
  calls the dead letter terminal. `SettledNeverReopened` allows it.
* *A handoff answers for a task that is not settled*: after one failure the task
  is pending again and the answer is a failure (`handoff.py:52`;
  `docs/architecture/system-architecture.md:227`: "synchronously settle").
* *The Delta bus ignores `expires_at`* (`tasks.py:245`, `tasks.py:286`).
* *A silent INSERT failure loses the task* (`tasks.py:381`;
  runtime-specification.md:143: "failed writes stop delegation"): the approval is
  answered with the id of a task that does not exist. TLC refutes
  `AnsweredApprovalHasFollowUp` in `MCApprovalService.cfg` without its
  `~settings.silentFailures`.
* *A silent MERGE failure is answered as saved* (`approvals.py:44`;
  human-approval.md:331: "a successful approval response is not returned when the
  durable write fails").
* *Two processes may both save a decision* (`service.py:51`): the later one wins
  and the first one's caller was answered.
* *The worker rejects the follow-up* that the API accepted, because only the API
  resolves logical agent names (`server.py:125`).
* *`more_info_requested` closes the request id*: any later decision under it is a
  conflict (`service.py:51`; human-approval.md:284: "until the requested evidence
  is supplied and a new decision is recorded").
* *Approved follow-ups are lost by a restart* where decisions are durable and
  tasks in memory, the default of `databricks.yml:228`.
* *An event may stay behind in the async bus*: the worker looks only at
  `_stopped` after an empty get, so an event queued in between, and the sentinel,
  remain (`bus.py:81`; `bus.py:122`: "Worker will stop after queue drains.").
* *A deadline at a yield says nothing*: no timeout message and no
  `request.stream.failed` (`docs/api/contracts.md:79`), because the consumer is
  cancelled and the generator closed. The same holds of a client that is found
  gone at a yield (`docs/operations/runbook.md:392`: `client_disconnected`).
  `AuditAgreesWithClient` speaks of streams that end by themselves.
* *A success may be followed by a failure* for the same request when the timer
  fires, or a server raises, while the MCP servers are closed.
* *The approval message is never part of a streamed answer*: it is appended to a
  copy of the parts, and only the governance envelope carries the state.
* *The remembered streamed answer repeats its text* (deltas and finished item),
  so a history resent by the client never matches it and is prepended again.
* *Health is renewed without a probe*: `agent.py:582` promises the servers that
  "successfully responded to `list_tools`"; one that is cached as healthy skips the
  probe, and each connect renews the TTL. The failure of one user's identity hides
  the server from all users until the failure TTL ends.
* *A setup that is interrupted* between creating an experiment and writing it to
  `.env` leaves an orphan, between the endpoint and the `PG*` keys a stale host; a
  project created in part blocks the next run. The repository's own
  `databricks.yml` has none of the entries that setup updates, so the updates do
  nothing. A connection that was written in part counts as existing and is reused as it
  is; `ConnectionIsComplete` speaks of workspaces where no run was interrupted.
* *Old wheels stay in the payload* (`docs/operations/ui-deployment.md:126`: "old
  remote wheel payloads are removed by the import workflow"): `import-dir
  --overwrite` removes nothing. The manifest's digests are computed after the
  imports. `docs/operations/runbook.md:118` calls the payload's wheels git-ignored;
  `.gitignore:64` takes them out again and one is tracked, so a release without a
  preparation ships the committed wheel. `UiMatchesCode` excuses what is committed,
  and `SubmittedIsManifest` old wheels.
* *A first run of the grants may take memberships away*: `update-role` is sent a list of
  one membership (`grant_app_runtime_permissions.py:703`), so a role that is not yet a
  superuser loses those it has. `RerunTakesNothing` is of later runs. The audit grants
  of a target with another message bus are left out with exit 0 (`:857`).
* *Subagent hints are never read*: the path names no file of the repository, so the
  grants for them are left out and the exit code is 0. SQL statements that are still
  pending count as granted; the role id of an App collides with that of its earlier
  principal; the memory script prints refusals and exits 0.
* *Streamed text may be lost in the browser*: identical tokens count as replays
  on `/api/chat`, and on both endpoints a delta is dropped when the whole text so far
  ends with it (`aiweb/src/api.ts:250`), be it new or not: of `"1"`, `"00"`, `"0"` the
  page shows `100`, not `1000`. `TextIsFaithful` says exactly what may be lost. Error events are
  ignored. A decision recorded while the stream is open is overwritten by the next event
  (`aiweb/src/api.ts:257`).

## Assumptions and omissions

* One event loop per process: between two awaits a coroutine is atomic. The
  repositories of approvals and memory are synchronous and block it.
* A SQL statement either takes effect or does not before its call returns. One
  that is still running after `wait_timeout` and applied later is modelled in
  `RuntimeGrants` only.
* `expires_at` is never set by the code in `src/`; `TaskBus` nevertheless models
  it, since the contract has it.
* The event table of the Delta bus is written and never read; its INSERTs are
  left out, but may raise.
* `ApprovalService` has of the task bus what concerns a follow-up: the lookup and the
  INSERT under its key, in memory one step, and the outcome the worker gives it. Its
  life in between is that of `DelegationRuntime` and `UcTaskBus`.
* A request has a latest user message of its own, which may be empty (`Asking`). Without
  one the code would take the last question of the restored history for it.
* In `RequestHandlers` the lifecycle bus is fail-open, the default. History
  restored from memory reaches only the input guardrail and the agent, whose
  verdict and answer are free, so it is not represented.
* `RequestHandlers` and `Orchestration` model the same requests at different
  stages and are not composed: the connect stage is one step of the former that may
  succeed, fail or be interrupted.
* A scoring of words (routes, guardrail patterns) is a free choice.

Not modelled:

* The message bus backends: each publish is one call into a client library whose
  delivery is not defined in `src/`. By reading: Kafka's `produce` is followed by
  `poll(0)` and flushed only on close; RabbitMQ reconnects only a closed
  connection; the audit table ignores the status of its statement; and `close()` of
  the asynchronous bus closes the inner one while the worker may still publish,
  once the drain has timed out.
* Settings and bootstrap construct the components and keep nothing. `select_model`
  and the checks of JWT claims are functions of one request's text or headers that
  decide inputs of `Orchestration`. The cache of the instructions' text is wording.
* The HITL app is a page whose every rerun is one call of the approvals API.
* The other operations scripts, notebooks and the evaluation read, print, score or
  submit once, and keep nothing that another step reads.

## Plan

Done: the task bus and its life cycle; the runtime on it; the Delta bus; policy and
approvals; the message bus; the handlers; the connect stage; setup, release, grants;
the web client; and a theorem for every safety property that a passing run checks.

Next, the most consequential first:

1. The type invariants that no proof states under their own name yet (`ApprovalService`,
   `AsyncMessageBus`, `UcTaskBus`, `Orchestration`, `RequestHandlers`, `ChatClient`,
   `Release`, `RuntimeGrants`, `Quickstart`): their inductive invariants contain the
   part of them that the safety proofs need.
2. The connect stage composed with `RequestHandlers`, and `RequestHandlers` with
   `ChatClient`: what the page shows against what was released.
3. The message bus backends, with `close()` of the inner bus racing its last
   publish; the HITL app as a second writer.
4. A model of the warehouse's queue, in which a statement takes effect after its
   call has returned.
