# A TLA+ model of D-Contact

D-Contact is a multi-tenant contact-centre platform: a TypeScript monorepo of
worker processes around PostgreSQL, FreeSWITCH and Kafka. This directory models
the parts of it whose correctness depends on the order in which several actors
act, checks them with TLC on small instances and proves the most important
facts with TLAPS for every instance.

Paths below are relative to the repository root.

## 1. Inventory of the system

| part | state it keeps | operations | what is hard |
| --- | --- | --- | --- |
| managed voice runtime, `apps/router/src/managed-voice-runtime.ts` | interactions, `voice_managed_calls`, `_offers`, `_commands`, `agent_state_logs` | `handle` (created, answered, bridge, hangup), `tick`, `reconcileActive`, `flushCommands`/`dispatch` | events against timers, clock moving inside a transaction, commands executed outside the routing lock |
| FreeSWITCH port, `apps/telephony/src/managed-voice-adapter.ts` | two kinds of FreeSWITCH global variables, completed jobs | `execute` (create, bridge, cancel, hangup), `readback`, `backgroundJob` | lost answers, background originates, crash between two ESL requests |
| telephony process, `apps/telephony/src/e1-sandbox-main.ts`, `managed-voice-due.ts`, `managed-voice-events.ts` | event chain, queued jobs, timers | event frames, due, readiness and dispatch timers | restart on a closed connection, events lost with it |
| agent state writers, `apps/api/src/agent-workspace-api.ts`, `agent-wrapup-v1.ts`, `supervisor-live-api.ts`, `work-session.ts` | `agent_state_logs`, work-session leases | self-available, wrap-up, supervisor force, session close and takeover | several of them check and write without a lock on the user |
| legacy inbound voice router, `apps/router/src/inbound-voice-router.ts` | interactions, `agent_state_logs`, published commands | `handle` (created, answered, hangup, IVR input), `processDue`, `declineOffer`, `completeWrapUp` | rows read before they are updated, snapshot of agents before the lock, one timer transaction for all calls, messages published after the commit |
| contact reservations, `apps/contact-governance/src/reservation-runtime.ts`, `contact-governance-service.ts`, `attempt-touch-repository.ts`, `reservation.ts` | reservations, command receipts, Attempt and Touch facts | reserve, claim, renew, begin, confirm, release, settle, correlated touch, direct state change, sweep of expired reservations | leases that lapse around a provider call, a sweeper that takes other locks than the commands, replayed commands, contradicting outcomes |
| outbound delivery over LINE, `apps/delivery/src/line-outbound-adapter.ts`, `line-delivery-enqueue.ts`, `outbox-repository.ts`, `line-attempt-repository.ts` | delivery outbox, attempt receipts, lifecycle events | enqueue, submit, reconcile | unknown provider outcomes, crash between push and record, two calls for one delivery |
| LINE control plane, `apps/delivery/src/line-control-plane.ts`, `line-control-repository.ts` | scope gates with a kill latch, cap ledger, run authorizations | beginRun, reserve, commit and release units, kill | units taken and settled in transactions of their own |
| other delivery adapters, `apps/delivery/src` | the same outbox | test adapter, voice dispatcher, webhooks | |
| dialer, `apps/dialer/src` | originate barrier, callbacks, command inbox | admit, originate, reconcile | the same reservation protocol over voice |
| platform control, `apps/platform-control/src` | provisioning requests, steps, receipts, identity reservations, operator commands, invitation outbox | saga worker, request editor, recovery, operator commands | a saga that crashes between two external effects, leases taken over from slow workers, operators acting on what they saw earlier |
| journey, `apps/journey/src` | runs, timers, receipts | processors per trigger | replays, invalidation racing a step |
| quality management, `apps/qm/src` | transcription jobs, retries | worker, retry dispatcher | leases and retries |
| Kafka wrapper, `packages/kafka` | processed-event inbox | consume once | redelivery |
| the rest: customer 360, cases, API gateway, IAM, schema, front ends, contracts, infra | | one transaction per command, rendering, configuration | not protocol-like |

How they interact: telephony turns FreeSWITCH events into calls of the router's
runtime (in the same process for managed voice); the runtime writes rows, and
commands for telephony into `voice_managed_commands`; a timer drains them through
the adapter. Every part that knows something about an agent appends to
`agent_state_logs`, and the newest entry is what routing reads. Journey and the
dialer ask contact governance for a reservation before delivery sends anything.
Platform control creates tenants: it accepts a request in one transaction and works
it off step by step against Keycloak and the tenant's own rows.

## 2. Modules

| module | models | status |
| --- | --- | --- |
| `ManagedVoiceRuntime` | the runtime's transactions, the command dispatcher, and everyone who writes an agent's state; the switch is an open environment | checked and proved about |
| `CallCustody` | abstract specification: who holds which call | implemented by `ManagedVoiceRuntime` (TLC and TLAPS) |
| `ManagedVoiceSystem` | the runtime composed with the adapter, the process and FreeSWITCH, request by request | checked and proved about |
| `ManagedVoiceRuntimeProofs`, `ManagedVoiceCustodyProofs` | theorems about `ManagedVoiceRuntime`; the second one: reservations of agents, and the refinement of `CallCustody` | proved |
| `ManagedVoiceSystemProofs` | theorems about `ManagedVoiceSystem`: it implements `ManagedVoiceRuntime`, and the switch agrees with the rows | proved |
| `ReservationRuntime` | reservations, their command receipts, Attempts and Touches | checked and proved about |
| `ReservationLifecycle` | abstract specification: quota and charge of each reservation | implemented by `ReservationRuntime` (TLC and TLAPS) |
| `ReservationRuntimeProofs` | theorems about `ReservationRuntime` | proved |
| `LineDelivery` | enqueue, submit and reconcile over LINE, composed with `ReservationRuntime`, the control plane and LINE | checked and proved about |
| `InboundVoiceRouter` | the router of queues without a managed configuration, its timer, and the agent's requests that touch its rows | checked and proved about |
| `ProvisioningSaga` | one provisioning request: saga workers, editor, operator commands, Keycloak | checked and proved about |
| `LineDeliveryProofs`, `InboundVoiceRouterProofs`, `ProvisioningSagaProofs` | theorems about the three modules above | proved |
| `MCManagedVoiceRuntime`, `MCManagedVoiceSystem`, `MCReservationRuntime`, `MCLineDelivery`, `MCInboundVoiceRouter`, `MCProvisioningSaga` | instances for TLC: symmetry sets, references | |

### ManagedVoiceRuntime

`call[c]` is everything the database holds about one call: the interaction
(`state`, `agentId`), the managed call (`currentOffer`, `deadline`, `answeredAt`,
`terminalReason`), its offers (`outcome`, `expiresAt`) and its commands (`cmd`,
the status per offer and type). An agent is never offered the same call twice
(`HistoryFinal` depends on it and is checked), so an offer is named by its agent
and `NoAgent` is the NULL offer. `latest` is the newest `agent_state_logs` entry
of each agent, `staged` the log writes of other transactions whose check has
already run, `executing` the commands that a dispatcher has at the port while it
holds the call's advisory lock.

| action | code |
| --- | --- |
| `Created`, `Answer`, `Bridge`, `Hangup` | `handle` and the handler of each event |
| `Tick` | `tick`, one call per step, which is finer than the code's one transaction for all calls |
| `ReconcileActive` | `reconcileActive` after its readback |
| `Advance`, `Terminal`, `TimeOut`, `Assign`, `Intent`, `LateAnswer` | the helpers of the same names |
| `DropObsolete`, `BeginExecute`, `EndExecute` | `dispatch`: claim, obsolete test, execution, confirmation with `release` |
| `Crash` | the dispatcher's transaction rolls back and its lock goes |
| `SelfAvailable`, `SubmitWrapup` | agents' own requests, which lock the user row |
| `Stage`, `Land` | check and write of those that do not: supervisor force, session close, a repeated wrap-up |
| `PassTime` | the clock (external) |

`handle`, `tick` and `reconcileActive` run under one exclusive advisory lock per
tenant, so each is one action. Inside it the clock may still move: an action reads
the clock before (`clock`) and after (`later`), up to `MaxLag` apart, which is what
separates the test in `answer` from the clock test inside its UPDATE. Each SQL
statement is one instant. The process's `Date.now()` and the database's
`clock_timestamp()` are taken to be one clock.

The dispatcher reads the command, the blocking cleanups and the offer in several
statements before it calls the port. They are one step here: the lock on the call
keeps other dispatchers out, cleanup commands of the call only become pending by a
routing transaction, and one that commits between those reads has the same effect
as one that commits just after the step, when the command is at the port.

Log entries are ordered by their writes. `started_at` comes from the writer's
transaction, so two writers with skewed clocks could disagree with that order
(listed as a hazard).

Agent states that no rule mentions (a break, for instance) are not distinguished
from `OFFLINE`.

### ManagedVoiceSystem

Adds FreeSWITCH (`caller`, `leg`, `bridged`, the global variables `marker`), the
events and job results under way, and the adapter's place (`pc`) in the command it
executes. Each ESL request that changes the switch, and each readback whose answer
is used later, is a step. A lost answer is the request's step followed by
`PortFails`; a closed connection is `Restart`, which forgets events, jobs and the
dispatcher's transaction. A refused `uuid_kill`, a channel whose variables do not
match, or an unready port all make `execute` throw or answer `confirmed: false`;
they are `PortFails` too. `backgroundJob` runs before a round of commands and never
during one, so the adapter's `completedJobs` set is never hit and is left out.

### CallCustody

Phases, holders and missed offers only. `CustodySpec` maps a call's phase to the
interaction's state, its holder to `agentId` while the state is ASSIGNED, ACTIVE or
WRAPUP, and its missed set to the offers that are TIMED_OUT.

### ReservationRuntime

A reservation is a share of a contact's quota: governance grants it, a delivery
claims it under a lease, and the provider's outcome settles it into an Attempt and
perhaps a Touch. `rows[r]` is the row of `cg_reservations`, `receipts` the table of
command receipts, `attempts` and `touches` the facts by their outcome reference,
`head` the governance version of each contact.

| action | code |
| --- | --- |
| `Reserve` | the ALLOW branch of `authorizeAndReserve` |
| `Claim`, `Renew`, `BeginSubmission`, `Confirm`, `Release` | the commands of the same names |
| `SettleLate`, `SettleUnknown`, `SettleTerminal` | the three ways through `settle`, with `AttemptTouchRepository.record` |
| `RecordCorrelatedTouch` | the method of the same name |
| `ChangeReservationState` | the direct path through `transitionReservation` (voice) |
| `Sweep` | `releaseExpiredReservations`, row by row |
| `ReadRow`, `Rollback` | the first half of `command`: locks, receipt, read of the row; a command that fails |
| `AdvanceHead` | a mutation of the contact's governance state |
| `Tick` | the clock (external) |

A command takes the advisory lock of its reservation, and of the unique value it
writes, before it reads anything, so no other command comes between its read and its
update, and `Commit` is the part that all commands share. The sweeper
(`contact-governance-service.ts:1082`) takes only row locks, while the commands read
without one and update by id without a condition. So on a row that the sweeper could
take (RESERVED, not past the barrier) a command is two steps: `ReadRow` keeps in
`reading[r]` the row and the time it saw, and the update, whose guards look at what was
read (`Seen`, `Clock`), writes its own columns onto the row as it is by then. On other
rows nobody can come between, and a command is one step; the one-step form on a sweepable
row is the two steps in succession. `changeReservationState` reads in the same way.
`overtaken` is a history variable: the reservations that a command updated after they
were swept. Nothing outside the tests calls the sweeper in this commit; the documentation
names it as part of the service (`docs/contact-governance.md:324`), and the model lets it
run at any time. A repeated command is answered from its receipt, or refused
when its input differs; both are stuttering steps, so what a repetition returns is
the subject of `ReplayTruthful`. A caller with a stale lease version is refused, so
only the current version is enumerated. Sender, channel, purpose and action key are
fixed by the reservation; commands that disagree with them are refused.

### ReservationLifecycle

Only the quota state and the charge (nothing, an Attempt, an Attempt with a Touch)
of each reservation, and the moves between them that governance allows. `loose` are the
reservations whose release overtook a command under way: only they may be confirmed or
charged after they were given back (`Overtake`, `SettleLoose`), and once like all others.

### LineDelivery

A worker is one call of `enqueue`, `submit` or `reconcile`; `work[w]` holds its place
(`pc`) and what it has read. Every transaction and every request that the code awaits
is a step, so another call, or a crash, fits between any two of them. `outbox`,
`tries` (the attempt receipts), `caps` (the cap ledger), `killed` (the latch of the
gate) and `events` are the tables; `remembers` and `sent` are LINE and the recipient.
The reservation is the one of `ReservationRuntime`, whose actions are the commands
that the steps send (`ClaimCall`, `BeginCall`, `ConfirmCall`, `SettleCall`,
`UnknownCall`); governance also acts on its own (`Governance`), the sweeper included.

| step | code |
| --- | --- |
| `StartEnqueue`, `ClaimCall`, `CreateEntry` | `enqueue` |
| `Submit`, `History`, `Quarantine` | `submit`, `reconcile`, `quarantine` |
| `Gate`, `ReserveLogical`, `ReserveSlot`, `ReserveAttempt`, `CommitDelivery` | `beginRun`, `reserveProviderAttempt`, `commitDelivery` |
| `BeginCall`, `AdvanceSubmitting` | the submission barrier |
| `Push`, `RecordAttempt` | the request to LINE and its receipt |
| `ConfirmCall`, `AdvanceSubmitted`, `SettleCall`, `SettleOutbox`, `ExitUnknown`, `KillGate` | `confirm`, `reject`, `settle` |
| `Park`, `EnterUnknown`, `UnknownCall` | `markReconciling` |
| `Emit` | `emit`, with the idempotent insert of the event |
| `Throw` | a command that is refused, or an event or receipt id that exists with other content |

LINE is external: while it remembers a retry key it answers a repetition with 409 and
does not deliver again; it may refuse with 401 or 429 before it looks at the key; any
answer may be lost, with or without a delivery. `WindowLapses` is the passing of the
retry window and of LINE's memory, one step because the code's 23 hours, counted from
the first receipt, end before LINE's 24. It does not happen in the middle of a call,
which takes seconds. `Fault` ends a call anywhere: a crash, or a service out of reach.
The checks behind the gate (technical switch, business state, configuration, credential,
quota, run, allowlist, daily limits) are not state of the model: `Evaluate` may refuse
any call, as often as it likes and so for ever, or refuse with a signal, which sets the
kill latch (`denyRun`); a new unit may be denied at any time (`ReserveLogical`). Two unknown codes are kept apart because an outcome reference contains the
code; two accepted codes share one reference because it is cut at 64 characters.

### InboundVoiceRouter

`call[i]` is the interaction row; its deadlines (`offerExpiresAt`, `requeueAt`,
`ivrInputExpiresAt`, the end of the maximum wait) are abstracted to whether they are
unset, ahead or due. `latest` is again the newest log entry of each agent, `phone` the
caller's channel and whether the router has consumed its hangup, `asked` the calls for
which the gateway was told to ring an agent, `req[h]` what a handler has read and not
yet used. `round` is the transaction of `processDue`: its uncommitted rows and log
entries, the users rows it has locked, and the agents its last query showed.

| action | code |
| --- | --- |
| `BeginCreated`, `FinishCreated` | `handle` of call.created: snapshot of agents, then assignment and publication |
| `BeginAnswered`, `FinishAnswered`; `BeginHangup`, `FinishHangup` | read, then conditional update, of the two handlers |
| `BeginInput`, `RouteInput`, `ResolveInput` | `handleIvrInput`; also called by the timer for overdue input |
| `BeginDecline`, `FinishDecline`, `CompleteWrapUp` | the agent's requests |
| `SelfAvailable`, `BeginClose`, `FinishClose`, `TakeOver` | the API's writes to the same rows: self-available, end of the work session, takeover with `requeueOffers` |
| `StartRound`, `TimeOutOffer`, `QueryAgents`, `Reoffer` | due offers |
| `ReleaseCooldowns`, `BeginRequeue`, `AssignRequeue` | cooldowns, due requeues |
| `ReadWaits`, `EndWait`, `CommitRound` | maximum waits, commit and publication |
| `AbortRound`, `AbortRequest`, the second half of `Tell` | a failed transaction, a message lost with the process |
| `Dial`, `HangUp`, `CallDue`, `CooldownDue` | callers and the clock (external) |

The database runs at READ COMMITTED: a SELECT sees what is committed at that moment,
an UPDATE waits for the row and evaluates its WHERE clause on the row as it then is.
So a handler is two steps, and each statement of the timer that reads is a step of its
own. Events of one call are handled in order and one at a time (the ordering key);
input made up by the timer is not one of them. Repeated call.created events return the
existing row and are stuttering steps. Which of several available agents is chosen
(routing strategy, skills) is left open. `stale` remembers the agents about whom some
transaction acted on an outdated reading; the properties that name it say what holds
for all others. One round runs at a time, which `e1-sandbox-main.ts:213` ensures with a
flag; the interval of `main.ts:31` has no such flag, and overlapping rounds are not
modelled. A state forced by a supervisor is modelled in `ManagedVoiceRuntime` only, and so
is a second `submitWrapup`, which logs AVAILABLE although its conditional update matched
no row (`agent-workspace-api.ts:299`); `CompleteWrapUp` stands for the one that matches.
The branch of `handleIvrInput` for a missing fallback queue on the second miss
cannot be reached with a validated configuration and is left out.

### ProvisioningSaga

`req`, `tenant`, `ids`, `step`, `receipts` and `cmd` are the tables for one request:
its status, revision and address; the tenant's lifecycle; the reservations of the
address; the steps with attempt, budget floor, revision and lease; the append-only
receipts; the operator's EXECUTE commands. `world` and `foreign` are what Keycloak
has (of this request, of others), `mapped` the identity that the users row points at,
`posts` creations whose caller gave up and which may still arrive. `work[w]` is what a
worker has in hand.

| action | code |
| --- | --- |
| `ReadRequest`, `ReadSteps`, `Claim` | `runOnce`: the two queries of the candidate search, the compare-and-swap |
| `FindStep`, `Execute`, `Heartbeat` | `process`, `attempt`, `startHeartbeat` |
| `WriteOutcome` (`Succeed`, `ScheduleRetry`, `Escalate`), `Finalize` | the outcome under the lease; `repository.complete` |
| `EditField`, `ChangeEmail` | `ProvisioningRequestEditor.edit` |
| `Submit`, `ClaimCommand`, `FinishCommand` | intake and worker of operator commands |
| `Evaluate`, `MarkFailedFinal`, `RetryStep`, `AdoptFind`, `Adopt`, `Intent`, `CheckOwned`, `Delete`, `Compensated` | `ProvisioningRecoveryService.execute`, by action |
| `Crash`, `StepLeaseLapses`, `CommandLeaseLapses`, `Land` | dying and stalling workers, and Keycloak (external) |

Steps are numbered; only the organization, the first admin and readiness behave in
ways of their own, PLAN_BOOTSTRAP and INVITATION are steps that create something and
the instances leave them out. Back-off is left out (it only delays a claim); a passed
deadline and a revoked template are the permanent answers of `FindStep`. The revision
that fences a command moves with its attempt, which stands for it. The heartbeat's
`lost` flag is folded into the compare-and-swap of the outcome, which fails in the same
cases. A database error ends the round like a crash. The test whether a field may be
edited and the compare-and-swap of the edit are one step; for the address the database
trigger repeats the test, for other fields only the revision matters here. Nobody
passes CANCELLED to `transition`, so cancellation is left out, as are previews (they
write nothing but their own row), invitations and the acceptance of requests: `Init` is the
state that `accept` leaves behind. The reservations of slug and domain are taken and given
up with the one of the address. Of the readiness checks `ReadyAnswers` keeps RECEIPTS and
IDENTITY; the others read rows that are not modelled and appear as an escalation that is
always possible. `Finalize` leaves out the errors of `complete` other than a moved revision
(`provisioning-repository.ts:604`): thrown again in every round, they would stop the
request, but with all steps succeeded and the identities held they need a tenant that was
made without `accept`. A creation that outlives its timeout arrives later (`Land`), and with
the identity perhaps also the mapping of the users row, which the timeout does not abort.

## 3. Runs

| run | instance | checks |
| --- | --- | --- |
| `contention` | 2 calls, 1 agent, 1 late log write, lag 1, whole system | `OnePhone`, `AgentExclusive`, `AnsweredInTime`, `CustodySpec` |
| `system` | 1 call, 2 agents, 1 fault, 2 events under way | `NoStrandedReservation`, `OfferCoherent`, `CleanupTruthful`, `BridgedToAnswerer`, `NothingLeftBehind`, `HistoryFinal`, `CustodySpec`, `RungOnce` |
| `live` | 1 call, 1 agent, 1 fault | `CallsDecided`, `DeadCallsEnd`, `CleanupsResolve` |
| `reservations` | 2 reservations, 1 contact, 2 deliveries, 1 key, 2 outcome references, TTL 2, clock to 2, sweeper | `TypeOK`, `HeldWhileUnknown`, `BindingUnique`, `ChargedOnce`, `ReplayTruthful`, `ImplementsLifecycle` |
| `sweeper_race` | 1 reservation, 1 delivery, 1 outcome reference, clock to 3 | `BarrierKeepsQuota`, violated: see Findings |
| `line` | 1 delivery, 2 calls at a time, 2 attempts, no fault | `BarrierBeforePush`, `NeverGuessed`, `AtMostOneMessage`, `AttemptsWithinCap` |
| `line_restart` | 1 delivery, 1 call at a time, 2 attempts, 2 faults | `LedgersAgree` |
| `saga` | 3 steps, 2 workers, 1 command with 2 tries, 2 addresses, 1 attempt, 1 fault, 1 edit | `STypeOK`, `ReceiptsMatch`, `InOrder`, `IdentityHeld`, `ActiveUsable`, `OutcomeByClaimant` |
| `saga_live` | 3 steps, 1 worker, 1 command, 2 attempts, 1 heartbeat, 1 fault | `RunningDecided`, `CommandsEnd` |
| `router` | a direct call and an IVR call, 1 agent, REQUEUE or COOLDOWN_REQUEUE, with and without WAIT | `RowCoherent`, `OneCallEach` |
| `router_live` | 1 direct call, 2 agents, all timeout actions, LEAVE, 1 fault | `ReservedIsOffered`, `ConversationFinal`, `OfferEnds`, `RequeuedServed` |
| `router_queue` | 1 call, 1 agent, no maximum wait, no fault | `QueuedServed`, violated: see Findings |

What they show:

* However late an agent-state write lands, no agent holds two calls
  (`AgentExclusive`): the eligibility query tests the calls, not only the log.
* Nobody stays RESERVED with nothing to release them (`NoStrandedReservation`), and
  however the dispatcher and the routing transactions overlap, a phone is in play for
  one call at most (`OnePhone`).
* The five tables agree with one another (`OfferCoherent`); an answer counts only
  before the offer and the call expire (`AnsweredInTime`); nothing finished is
  rewritten (`HistoryFinal`), which the database's triggers would refuse.
* A confirmed cleanup is true even when the process died in the middle of an
  originate (`CleanupTruthful`); a finished call leaves nothing on the switch
  (`NothingLeftBehind`); the caller talks to the agent who answered
  (`BridgedToAnswerer`); an offer's phone is rung once, however often `offer.create`
  is retried (`RungOnce`).
* Waiting calls are decided by the timer alone, lost hangups are found by
  reconciliation, and cleanups finish or need an operator.
* While a provider may hold a message of unknown fate its quota is not given back,
  whatever lapses, is cancelled, swept or arrives late (`HeldWhileUnknown`). The property
  names its one exception, the race of the sweeper with `beginSubmission` (see Findings),
  and pins down the row that it leaves: RELEASED, UNKNOWN_RECONCILING, its lease over.
  The barrier is only crossed by a worker that saw a live lease (`BegunInLease`, proved);
  two deliveries never share a reservation, nor two reservations a provider request key
  (`BindingUnique`).
* A contact is charged once, for the outcome that settled the reservation, also when the
  reservation was overtaken (`ChargedOnce`); stored responses may be old but never false,
  only the state stored for an overtaken reservation may be passed (`ReplayTruthful`); the
  commands, the direct path and the sweeper together are the lifecycle
  (`ImplementsLifecycle`).
* Over LINE no request leaves before governance and the outbox know the submission
  under its key (`BarrierBeforePush`); what is called accepted was delivered and quota
  given back past the barrier has a refusal on record or was swept under the begin
  (`NeverGuessed`); attempts stay
  within the cap although numbers and units come from two tables
  (`AttemptsWithinCap`). Without a crash the recipient gets one message, also from two
  calls at once (`AtMostOneMessage`).
* After crashes, outbox, reservation and last receipt of a settled delivery agree as
  long as calls for it do not overlap (`LedgersAgree`).
* In the legacy router, rows of direct calls stay coherent (`RowCoherent`); nobody
  serves two calls, and whoever is RESERVED has that call on offer, except for agents
  about whom a transaction acted on an outdated reading (`OneCallEach`,
  `ReservedIsOffered`): every other path, the timer's many steps included, is sound.
  Conversations and ends are never undone by a handler that read the row earlier
  (`ConversationFinal`). Every offer ends although its ring command was lost
  (`OfferEnds`), and a call that is due again is served when somebody is free
  (`RequeuedServed`).
* Steps and receipts of the saga agree whatever is retried, taken over, adopted or
  compensated (`ReceiptsMatch`); no step is attempted before the earlier ones succeeded
  for good (`InOrder`); an open or active request holds exactly its address
  (`IdentityHeld`); an active tenant has its organization and a first admin who can log
  in, although creations arrive late and half built (`ActiveUsable`); only the worker
  whose attempt the row names ends that attempt (`OutcomeByClaimant`). Every running
  request is decided and every command ends (`RunningDecided`, `CommandsEnd`).

Findings. Two runs expect a violation.

`sweeper_race`: `beginSubmission` reads the row (`reservation-runtime.ts:286`) while its lease
lives, the lease runs out, `releaseExpiredReservations` writes RELEASED and SETTLED under a
row lock, and the begin's update by id (line 454) puts key, start and UNKNOWN_RECONCILING
onto the released row. No constraint or trigger of the migrations refuses it. The quota is
free while the provider gets the message, against
`packages/cxa-contracts/src/contact-governance.test.ts:382` ("after the barrier the quota must
not be given back even if no callback comes") and line 536 ("begin is forbidden after a
release"). A later acceptance makes the row CONFIRMED by `settle`, against
`docs/contact-governance-data-flow.md:234`, where RELEASED is final. Over LINE the adapter does
not look at the state in the answer: it pushes, LINE accepts, `confirm` is refused because the
row is not RESERVED, and the outbox row stays SUBMITTING through every further call until the
attempts are used up and the gate is killed. A condition on the state in the update, or the
advisory lock in the sweeper, would close the gap; the properties above hold without
exception then.

`router_queue`: `docs/interaction-data-flow.md:197` says
that a call for which nobody is free is matched again when an agent becomes free or at
a tick of the timer. The code leaves it QUEUED with an empty `requeueAt`; the timer only
looks at calls whose `requeueAt` has come, and an agent who becomes AVAILABLE wakes
nothing. Without a maximum wait the call waits for ever beside a free agent. A call
that a timeout under REQUEUE could not place at once has the same fate.

Further disagreements. Each of these has a property and a configuration on which TLC
finds the counterexample, kept beside the runs:

* `MCRouterHangup` (`HangupSettles`): a hangup reads ASSIGNED, a takeover or timeout
  requeues the call, the update asks for ASSIGNED and misses, and the event is consumed:
  the dead call stays in the queue and is offered again.
* `MCRouterRelease` (`ReservationReleased`): `docs/interaction-data-flow.md:203` promises
  that every way out of an offer releases the reservation; an answer or hangup that acts
  on the agent it read earlier leaves the present one RESERVED.
* `MCProvisioningEdit` (`EscalationVisible`): an edit between a worker's read and its
  first claim makes the start of the request miss; the request stays PENDING, its step
  escalates alone, and the operator, whose commands need ACTION_REQUIRED, can do nothing.
* `MCProvisioningEmail` (`AdminAsRequested`): a worker that loaded the request before a
  change of address creates the first admin under the old one.
* `MCLineResubmit` (`QueuedCanBeSent`): a submission that stopped after its PRE_BARRIER
  event is never "sent on" (`line-team-trial.ts:242`): the event's new `occurredAt` is an
  idempotency conflict for good.
* `MCLineUnits` (`UnitsReturned`): after a crash behind the barrier the concurrency slot
  is not given back (`line-control-plane.ts:1287`), because only a QUEUED row leads to
  `commitDelivery`.
* `MCLineWindow` (`AtMostOneMessage` with a crash): the retry window starts at the first
  receipt, and a crash between push and receipt leaves none, so "we stop before that
  line" (`line-push-request.ts:174`) fails.

Others are reachable in the same models without a property of their own. LINE: a lost
acceptance followed by 429 is settled as an operational rejection, which
`reservation-runtime.ts:606` says does not touch the recipient, who has the message; a
row left SUBMITTED by a crash is "to be reconciled" (`outbox-repository.ts:157`), but
`submit` and `reconcile` both return at once; with two overlapping calls a missed
conditional update (`outbox-repository.ts:131`) is ignored, so that the outbox may end
rejected while the reservation is accepted. Router: two handlers with the same snapshot
assign one agent twice (`docs/interaction-data-flow.md:200` asks for an atomic reserve);
the unconditional update that ends the IVR revives abandoned calls; a session that is
released while an offer is out writes OFFLINE, and the offer's timeout then writes
AVAILABLE (`work-session.ts:11`). Saga: a command taken over from a slow worker may end
REJECTED although it was carried out, and a slow SAFE_COMPENSATE may delete an
organization that was adopted in the meantime; a stale worker may create resources after
the request failed for good; crashes use up attempts beyond the budget.

Bounds. Two calls and one agent are the smallest instance in which two calls
compete; one call and two agents the smallest in which a call moves on. The clock
needs to reach an offer's expiry and, separately, the call's deadline: in `system` and
`live` offers last 1 and calls 2. In `contention` both last 1, so that the two deadlines
fall together; `MCManagedVoicePhones.cfg` has `OnePhone` with a call that lasts 2 and no late
write, and `MCManagedVoiceRuntime.cfg` checks the routing transactions alone, with late
writes, against a port that may report anything at any time; both pass. One late write, one fault and one or two events in flight are
enough to put any one of them between any two other steps; `Created` is not taken
when the deadline would lie beyond `MaxClock`, so every deadline is reached. Runs
on the whole system turn off the deadlock check, because the system may really
stop: all calls over, time at its bound. Calls and agents are permuted as
symmetric in the safety runs only. For reservations: two reservations compete for
one request key and each other's delivery; two outcome references let two outcomes
contradict each other; a TTL of 2 and three instants let a lease lapse before the
reservation does, be renewed once, and lapse again, and the sweeper meet it at the end.
These runs have no deadlock check either: with everything settled and the clock at its bound nothing is left to do.
For LINE: two attempts are a push and a retry at the cap; one head change and the
clock let consent be withdrawn and the reservation expire between any two steps; two
instants (`Stamps`) tell a repetition at the same time from one at another. These runs may stop as well, when all deliveries are settled or the gate is killed.
For the router: two calls and one agent let the timer requeue one call and meet the
other's handlers in between; one handler beside the round gives every two-way race of an
event or request with the timer, and races of two handlers go through the second half of
the one and the atomic actions (`TakeOver`, `SelfAvailable`, `CompleteWrapUp`). Two agents
and one call let an offer move on while answers and hangups carry the old agent. For the
saga: three steps are one without and two with prerequisites; two workers and one
fault are a takeover with a stale holder (the same properties with one heartbeat, whose
answer may be lost, and no edit are `MCProvisioningBeats.cfg`, which passes); one command with two tries is a command
taken over; one edit changes the address or the revision at any point. Both systems may
stop (all calls over, request decided), so the deadlock check is off.

Fairness (run `live`). Weak fairness of the clock, the due timer, reconciliation,
the adapter's next request and event delivery: each is driven by an interval timer
of the process, or by a promise chain. The switch starts or fails a queued
originate, ends a ringing leg within `originate_timeout` and tears down killed
legs. Strong fairness of `BackgroundJob` and of starting a cleanup command, because
both need the dispatcher to be between rounds, which it is again and again. Nothing
is assumed of callers and agents.

No liveness is claimed of LINE deliveries, because the code promises none: there is no
worker for them (outcome RECONCILING returns `nextAttemptAt` and the trial answers
PENDING), the gate may refuse a delivery for ever, a row left SUBMITTED by a crash is
settled by nobody, and an overtaken begin is refused at each confirmation.

Fairness (`saga_live`). A worker that has begun goes on, as its promises resolve.
`tick` runs the saga and then the command worker in every round, whatever the one found,
so reading a request and claiming a command are strongly fair: neither is passed over for
ever because the worker is always busy with the other. Leases lapse (time passes). Nothing
is assumed of operators, and Keycloak may refuse for ever: the budget of attempts ends that.

Fairness (`router_live`, `router_queue`). The timer fires every second and its round goes
on; a handler that has begun ends; deadlines pass. Nothing is assumed of callers and agents.

Each property has a mutant (`*_NoLock`, `*_KeepsAgent`, ...): the definition with
the bug that the property is there to catch, defined just before the faithful one.

## 4. Proofs

`ManagedVoiceRuntimeProofs` proves, for any sets of calls and agents and any
limits:

* `TypeCorrect`: `Spec => []TypeOK`
* `Exclusive`: `Spec => []AgentExclusive`
* `Coherent`: `Spec => []OfferCoherent`
* `InTimeAlways`: `Spec => []AnsweredInTime`
* `Final`: `Spec => HistoryFinal`

from the named assumption `ConstantsAssumption` only.

The inductive invariant (`Invariance`) is `TypeOK`, `AgentExclusive` and, for every
call, `RowCoherent`, `RowTimely` and `RowHistory`. None of the listed properties is
inductive alone: exclusivity needs that the agent of a call is the one of its
current offer (`RowCoherent`), so that a requeued call really gives its agent up;
timeliness needs that a pending offer expires no later than the call (`RowTimely`);
finality needs that only the current offer can be open and that a terminal reason
belongs to a finished call (`RowHistory`).

The argument goes by rows. A row helper (`TimeOut`, `Terminal`, `Assign`,
`Answered`, `Ended`, ...) gets one lemma about its fields and one saying that it
preserves the row invariant, keeps history, and whom it may give the call to.
`Advance` combines them, each action of the specification gets a lemma that it
changes at most one row in such a way, and `StepShape` collects them. Exclusivity is
then one argument for all actions: a row's holder changes only to nobody or to an
eligible agent, and an eligible agent serves no call.

`ReservationRuntimeProofs` proves all properties of the run `reservations` for any
constants that satisfy `ConstantsAssumption` and `FactAssumption` (the null value is
none of the other values): `ReservationTypes`, `QuotaHeld`, `BindingsNeverShared`,
`SubmittedInLease`, `ChargedAtMostOnce`, `ReplayNeverLies`, and the refinement
`RuntimeImplementsLifecycle`.

Its inductive invariant (`ReservationInvariance`) adds three things. `Shape` says how
the columns of a row hang together (which status goes with which state, when key,
lease and reference are set): every command tests two or three columns and relies
on the others; an overtaken row has shapes of its own. The part about `reading` says that
what a command has read is still the row, or the row has been swept since and was expired:
so an update lands either on what it checked or on a released row without a barrier.
`ReceiptsClaimed` says that a reservation with a receipt is no longer
unclaimed; without it a claim could contradict an earlier stored response. The
argument again goes by rows: each command makes a `RowStep` (nothing once settled;
bindings kept, version, lease and state only forward), and four lemmas turn that
into receipts, bindings and charges. For the refinement each action is shown to be a
step of the lifecycle or to leave quota and charge alone.

`SubmittedInLease` is proved only; the other theorems' properties are also checked by
the runs.

`ManagedVoiceCustodyProofs` builds on the first module and proves `NoneStranded`
(`Spec => []NoStrandedReservation`) and `ImplementsCustody` (`Spec => CustodySpec`).
`NoStrandedReservation` alone is not inductive: the timeout of an offer takes the call
from a RESERVED agent, who is then covered by the cancel command it writes, and `intent`
writes nothing where a command already exists. `TightRows` says that an offer that still
rings has no cancel command yet, and `ReservedServing` that a RESERVED agent serves no
call but the one that the log entry names. A late
answer breaks `Tight` in the middle of its transaction, so the row helpers are proved from
the weaker `Loose`. For the refinement each action is a `Routed`, `Dispatched`, `Wrapped`
or `Quiet` step, and each kind is a step of custody or a stutter.

`ManagedVoiceSystemProofs` builds on that and proves, for any numbers of calls, agents and
faults, from `ConstantsAssumption` and `BoundsAssumption`:

* `SystemImplementsRuntime` (`SysSpec => Spec`): every step of adapter, switch and process is
  a step of the runtime or none of its own; `SystemInherits` states what follows, that is
  every theorem of the two modules above with the real port in place of an arbitrary one;
* `PhoneExclusive` (`OnePhone`), `CleanupTruth` (`CleanupTruthful`), `BridgeTruth`
  (`BridgedToAnswerer`), `NothingLeft` (`NothingLeftBehind`), `OriginatedOnce` (`RungOnce`)
  and `SystemTypes` (`SysTypeOK`).

The difficulty is that the dispatcher reads the rows, goes to the port, and the rows move on
while a request is under way. The inductive invariant (`SystemInvariance`) is `SysInv`, which
TLC has checked on the instances of `system` and `MCManagedVoicePhones.cfg`:

* `PortInv`: what remains true of an offer while a command of it is at the port, although the
  call may have been taken from its agent since: an `offer.create` at the port excludes a
  confirmed cleanup of its offer and, between marker and originate, any earlier leg; a
  `call.bridge` implies a conversation; a cleanup that has seen its leg has a leg to wait for,
  and one that has not has a settled marker or none.
* `LegInv`: no leg without a marker, no marker without an offer; a settled marker or a job
  result under way means that the originate is over; a confirmed cleanup means that the leg
  is gone. The order marker, originate, job of the adapter is what makes this inductive.
* `Undone`: a withdrawn offer has its cancel and a finished call its hangup, and neither is
  ever dropped as obsolete. Without it a leg could be in play with nothing to end it.
* `OneCommand` and `CallerInv`: one command of a call at the port; the caller's channel.
* `PhonesApart`: a phone is *spoken for* by one call at most, where a call speaks for a phone
  when its rows assign the agent, when the leg is in play, and also when an `offer.create` is
  at the port. `OnePhone` alone is not inductive, for an overtaken `offer.create` still rings.

`PhoneOwed` is the heart of the argument: whoever speaks for a phone serves the agent or has
a cleanup of that offer pending, which is exactly what the eligibility query tests; so `advance`
gives a call only to an agent whose phone nobody speaks for. Steps are then sorted by what
they do to one call: routing transactions (`RoutedOnly`), requests and events that move no leg
(`Goes`), legs that move on (`LegMoves`), and answers of the port (`Settles`).

`ProvisioningSagaProofs` proves `SagaTypes`, `ReceiptsAlwaysMatch`, `StepsInOrder`,
`AddressHeld`, `ActivatedUsable` and `OnlyClaimantEnds`, that is every safety property of
the run `saga`, from `SagaConstants`. The invariant (`SagaInvariance`):

* `StepInv`: what workers and previews remember of a step is true of it *if* the revision
  they remember is still the row's. That is the fence in the code's own terms, and it is
  what makes receipts and order inductive: a stale worker may hold anything, but its
  compare-and-swap misses.
* `RequestInv`: request status, tenant and reservations move together.
* `AdminInv`: the mapped identity is never replaced or deleted, so whoever saw the admin
  may still say so any time later.
* `CommandInv`, `OrgInv`: there is one unfinished command at most; as long as no command was
  taken over, its runner owns it, a compensation finds its step ACTION_REQUIRED all along,
  and so nobody who has seen the organization is about to report it when it is deleted.
  `ActiveUsable` makes the same exception: with a takeover the slow SAFE_COMPENSATE of
  section 3 does delete an organization in use.

`LineDeliveryProofs` proves, from the assumptions of the reservations, `LineAssumption` and
`RefsAssumption`:

* `DeliveryUsesGovernance` (`LSpec => Spec`): the delivery touches the reservations only
  through their commands, so each theorem of `ReservationRuntimeProofs` holds with
  deliveries running; `DeliveryKeepsQuota` states two of them;
* `BarrierHeld`, `OutcomeNeverGuessed`, `AttemptsCapped` for any number of deliveries, calls
  at once and crashes;
* `OneMessage`: `LSpec => [](faults = 0 => AtMostOneMessage)`;
* `LedgersTellOneStory`: `LSpec /\ []Alone => []LedgersAgree`, where `Alone` says that no two
  calls work on one delivery.

The invariant (`LineInvariance`) is `LineInv`: that of the reservations, `BeginReceipts` (a
stored BEGIN_SUBMISSION names the key of its row, which is what a replayed begin relies
on), `DeliveryInv` (outbox row, units, receipts and reservation of one delivery; quota given
back past the barrier is `Excused` by a refusal on record or by `overtaken`) and
`WorkerInv` (what a call has read before its last await). Most steps of other calls are
dealt with by one lemma: `Forward(d)` lists what only ever grows (the barrier, receipts,
units, messages, the closed window), and `ForwardWorker` shows that `WorkerInv` survives any
forward step. The last two theorems need their hypotheses, and the hypotheses are the code's
limits rather than the proof's: `OnceInv` says that a message without a receipt has a call
that is about to write one, which the crash of `MCLineWindow` falsifies; `SoloInv` says that
nobody else decides the delivery while a call works on it, which fails where the adapter
ignores that a conditional update missed (section 3).

`InboundVoiceRouterProofs` proves `RowsCoherent`, `OneCallPerAgent`, `ReservationsAreOffers`
and `ConversationsFinal` from `RouterConstants` and `NullAssumption`, for any number of calls,
agents and overlapping handlers. The timer's transaction is what makes it hard: its writes
are invisible until it commits, and it may fail. The invariant (`RouterInvariance`) therefore
states that log and rows agree about an agent (`Sound`) twice, in what is committed and in
what the round sees, so that both `CommitRound` and `AbortRound` keep it. The two views are
tied together by `Written`: a row the round has written was, and being locked still is,
waiting or on offer, and an agent it gave a call to is in its locks; hence an unlocked agent
who serves nobody in one view serves nobody in the other (`Unlocked`), which is what the
handlers' choice of an agent needs. One lemma (`SoundChange`) lists the ways in which a call
is given, kept or given up together with the log entry; each action is one of them for every
agent it does not add to `stale`. `ConversationsFinal` uses that only rows in QUEUED or
ASSIGNED are locked and that a call is created by one handler (`OneCreator`).

Every invariant and action property of the passing runs is thus also a theorem. Only
checked by TLC is liveness (`CallsDecided`, `DeadCallsEnd`, `CleanupsResolve`,
`RunningDecided`, `CommandsEnd`, `OfferEnds`, `RequeuedServed`), which
needs fairness and ENABLED and is out of the prover's reach. The types of the managed
voice modules (`TypeOK`, `SysTypeOK`) are proved and not part of a run.

## 5. Not modelled, and the plan

Not modelled in the managed voice part: tenants (all state is per tenant, guarded
by row-level security), queues and skills (the set of agents is the team of one
queue), `heartbeat` (a readiness stamp), several telephony nodes, and the payloads
of events and commands. In the reservation part: the evaluation of policies that
leads to ALLOW, settlement policies other than the default one, legacy rows without
a settlement status (the sweeper takes these too), and reads. In the LINE part: the content
of messages, what decides the checks behind the gate, audit rows, one-shot authorizations (runs are those of
the team trial), clearing a kill (a person's decision), and webhooks.

In the router and saga parts: what their sections above leave out.

Components without a module are listed in `PROJECT.json` with the reason: front ends,
contracts, infrastructure, read models and CRUD endpoints have no protocol that a model
would say more about than their code; identity merge rules and policy evaluation are
data-heavy beyond what TLC explores well. The plan for the rest, in order:

1. The dialer's originate barrier and reconciler over the reservation module; both voice
   routers sharing agents; work-session leases with SIP credentials.
2. An abstract specification of LINE delivery ("at most one message, and a settled
   reservation tells the truth about it"); the invitation outbox; the QM worker; the
   Kafka inbox; journey runs.
