# Orbit Wars: verification project

TLA+ models of the Orbit Wars platform, the TLC configurations that check them,
and theorems about them that TLAPS proves.  Paths below are relative to the root
of the repository.

Orbit Wars is a platform on which fleets (a player's own account, or the strategy
program it published) play a two-player space game.  An API creates matches and
puts them on a Redis list; a match worker takes them off, runs the fixed game
engine turn by turn with built-in agents and live players, stores the replay in
object storage and the result in PostgreSQL, and settles the rating.

## 1. Inventory

| Component | State it keeps | Operations |
|---|---|---|
| Match creation and queue (`domain/matches.py`, `domain/simulations.py`, `api/matches.py`, `api/simulations.py`, `infrastructure/match_queue.py`) | `matches` rows keyed by `request_key`, Redis list `orbit:matches:queued:v1` | create (ranked, training), create a simulation, retry with the same key, enqueue |
| Match worker (`orbit_match_worker/worker.py`) | `running`, the popped match, the engine, the stream cursor | pop, load, claim, run the turn loop, finish, mark failed, stop on a signal |
| Replay persistence (`replay/persistence.py`, `replay/writer.py`, `replay/analysis.py`) | object, `replay_artifacts` row, `matches.replay_id` | write frames, upload, attach, analyse, backfill |
| Rating settlement (`domain/ratings.py`) | `ratings`, `rating_events` | `apply_once` under row locks |
| Live gateway and bus (`api/ws_matches.py`, `infrastructure/live_bus.py`, `domain/match_tickets.py`) | command stream, event stream, history and snapshot per match | ticket, snapshot, subscribe, resync, `turn.submit` |
| Live client (`apps/web/components/battle/LiveBattle.tsx`) | last step seen, submitted steps, open deadline | connect, resync, reload, draft launches, submit, pass at the deadline |
| Turn coordinator, turn clock, agent executor (`runtime/`) | the open turn, first submissions, the child process | submit, collect, time out, request/response over a pipe |
| Match runner and state machine (`engine/runner.py`, `engine/state_machine.py`) | status, sequence | transitions, forfeits, failures |
| Recovery and finalization (`runtime/recovery.py`) | journal, checkpoints, disconnect clocks | recover, finalize once |
| Matchmaking (`domain/matchmaking.py`) | none of its own: reads matches and ratings | seat checks, repeat limits, opponents |
| Request idempotency (`middleware/idempotency.py`) | `idempotency_records` | reserve, replay, complete, release |
| Strategy versions and packages (`domain/strategy_versions.py`, `domain/strategy_validation.py`, `storage/strategy_packages.py`) | object, `strategy_versions.status`, `fleets.current_strategy_version_id` | publish, compensate, validate, select |
| Strategy lab and AI assistance (`domain/strategy_lab.py`, `domain/ai_assist.py`) | draft with a revision, credits and requests | save, validate, simulate, publish, ask |
| Accounts and sessions (`api/auth.py`, `security/`) | challenges, sessions, identities | start, verify, log in and out |
| Game engine (`packages/orbit-engine-py`) | planets, fleets, step | reset, step, snapshot |
| Contracts, web pages, built-in strategies, observability, deployment | schemas, pages, opponents, metrics, containers | |

How they interact.  The API and the worker share nothing but PostgreSQL, Redis and
object storage.  `create_match` commits a row and then pushes its id; the worker
pops destructively (`BLPOP`) and decides by the row's status.  During a match the
worker and the gateway talk through two Redis streams: players' commands one way,
events the other.  After a match the worker uploads the replay, attaches it,
commits `FINISHED`, then settles the rating in a second transaction.  The strategy
lab and the Agent API both publish packages through the same domain functions; the
lab also creates simulations, which the worker plays.  `runtime/` and
`engine/runner.py` hold a second, more careful worker: a journal, recovery, a turn
coordinator, sandboxed agents.  `worker.py`, which is what is deployed, uses none of
these: it takes from there the engine's adapter, the check of a command batch and the
shape of an observation.

What is hard.  Nothing in this system is atomic across two stores: a row and a
queue entry, a row and an object, a result and a rating.  Requests are retried,
workers are killed and restarted, entries can be popped twice because a retry
enqueues again, two settlements can meet on one fleet, commands race a deadline
and are read in batches, and sessions act on a status they read earlier
(`expire_on_commit=False`).  `PROJECT.json` lists each hazard at its line.

What makes each part right.

* Lifecycle: a row before its entry; a replay before `FINISHED`; a match executed
  once; its result is what its replay shows; whatever retries, exceptions and signals
  do, no match is left queued or running with nobody to end it; an accepted match ends.
* Settlement: no update of a rating lost or made twice; both fleets and the event
  change together; a settlement ends and releases its rows.
* Turns: a turn applies the first legal command of each player for that turn;
  a turn is empty for a player only if nothing valid of his was read for it; nothing
  the worker waited for is lost; matches end.
* Publication: a version's package exists; a verdict is final; only a version that
  passed becomes current.
* Idempotency: attempts with one key exclude each other; all that are answered get
  one response; a change is repeated only after its client heard of no success.
* Live feed: a page that follows a match shows the newest board, never goes back,
  submits for turns it knows, and hears of the end.
* Engine: page, worker and kernel count the same ships; ships come from production;
  the outcome fits the last board.
* Lab and assistance: what is published was simulated; nobody pays for an answer he
  did not get.
* Recovery: one match, one result, explained by its log; a board that contradicts a
  checkpoint is not played on.

## 2. Modules

| Module | What it is |
|---|---|
| `MatchRecord` | abstract: the public record of one match moves forward once |
| `MatchLifecycle` | API handlers, queue, worker pool and database, one action per transaction or command |
| `MatchLifecycleProps` | its properties and the refinement to `MatchRecord` |
| `MatchLifecycleProofs` | its theorems |
| `Settlement` | abstract: a win changes two ratings and writes its event in one step |
| `RatingSettlement` | `apply_once` statement by statement with row locks; implements `Settlement` |
| `RatingSettlementProofs` | its theorems |
| `LiveTurns` | the turn loop, the command stream and the deadline |
| `LiveTurnsProofs` | its theorems |
| `StrategyPublication` | publishing, validating and selecting strategy packages of one fleet |
| `StrategyPublicationProofs` | its theorems, and those of `RequestIdempotency`, which every publishing request passes |
| `RequestIdempotency` | the `Idempotency-Key` middleware, for one scope and key |
| `RequestIdempotencyProps` | its properties; it names the attempts' place apart, to be extended beside a handler's module |
| `LiveFeed` | what one page sees: published events, history, subscription, reconnects, submissions |
| `LiveFeedProofs` | its theorems |
| `EngineRules` | the rules of a match, from the launches drafted on the page to the outcome |
| `EngineRulesProofs` | its theorems, and the sums of ships they rest on |
| `StrategyLab` | draft, simulations, publication and AI credits under one owner's concurrent requests |
| `StrategyLabProofs` | its theorems |
| `MatchRecovery` | journal, recovery and finalization by workers that crash and overlap |
| `MatchRecoveryProofs` | its theorems |
| `MC*` | give the constants of the above their values for TLC |

`MatchLifecycle` composes the API, the queue and the workers.  It abstracts two
things the other modules detail: the turns of a match become the outcome they end
in (`LiveTurns`), and `apply_once` becomes one atomic step (`RatingSettlement`
shows that it may be taken for one).  The others meet at an interface that one of
them leaves open and another fills in:

* `LiveTurns` lets clients name any turn, as the gateway does;
  `LiveFeed.BatchesForKnownTurns` shows that the page names only turns that were opened.
* `LiveTurns` applies a batch; `EngineRules` says what any batch does to the board, and
  that the page's draft would have passed the worker's check.
* `StrategyLab` ends where the checks before a publication have passed;
  `StrategyPublication` begins there.  Its simulations are `MatchLifecycle`'s: created
  and queued in two steps, finished or failed by a worker.

Each module also defines a few operators headed "a variant of X": a slip that a
change to that code could plausibly make.  No specification uses them; each shows
that a property would notice, and `PROJECT.json` pairs them with properties.

### MatchLifecycle and the code

A `Match` is one idempotency key.  `status`, `result`, `replay` and `event` are the
committed columns and rows; `queue` is the Redis list; `handler` the requests in
progress; `pc`, `held`, `outcome`, `stopping` the local state of each worker's
`serve()`.

| Action | Code |
|---|---|
| `Receive`, `Insert`, `Enqueue`, `RequestFails` | `create_match` / `create_simulation` and their endpoints: the lookup by key, the insert and commit, `queue.enqueue`, a handler that dies or loses Redis.  A retry of `create_match` enqueues again, one of a simulation does not |
| `Pop`, `PopLost` | `BLPOP`, and a reply that never arrives |
| `Load`, `Skip`, `Claim` | `_load`: only `QUEUED` and `PREPARING` rows go on; `PREPARING` is committed later than the read |
| `Start`, `EndMatch`, `Truncate` | `_run`: `RUNNING`, the turn loop to its end, or cut by a signal |
| `PersistReplay`, `AttachReplay` | `persist_replay`: upload, then row and `replay_id` |
| `Finish`, `Settle` | `_finish`: the `FINISHED` commit, then `apply_once` |
| `Raise`, `CheckFailed`, `WriteFailed` | an exception anywhere in the above and `_mark_failed`, whose read and write are two steps |
| `Stop`, `Exit`, `Crash`, `Restart` | SIGTERM, the end of `serve()`, a kill, docker's restart |

Training matches differ from ranked ones only in that `Settle` is skipped; the
checked instances use a ranked match and a simulation.  `READY`, `FINALIZING`,
`FORFEITED` and `CANCELLED` (`services/api/orbit_api/db/models.py:34`) are no values of
`status`: neither the API nor the deployed worker writes them.  A claim of a queued match
(`Claims`) is a handler that will enqueue it, its entry, or a worker that took the entry.

### RatingSettlement and the code

A rating is the sequence of matches it accounts for, because each change depends on
the ratings it starts from; two ratings are equal here when they would be computed
from the same history.  `pc` follows `apply_once`: look for the event, lock fleet 0,
lock fleet 1 (`with_for_update`, in slot order), read both ratings, insert the event
(unique on `match_id`), commit.  `Deadlock` is PostgreSQL's detector, external to the
repository; `Abort` is a crash or an error.

### LiveTurns and the code

`_run` and `_human_actions`.  `OpenTurn` sets the deadline and publishes the turn,
`AgentsChose` is the built-in agents' call, `Ask`/`Read`/`TimesOut` one blocking
`XREAD`, `WindowEnds` the two conditions of the read loop (all humans have a command,
the deadline passed), `CloseTurn` the engine's step and the new frame.  A stream entry
is its slot, the step it expects and whether `validate_command_batch` would accept it.
Clients send anything for any turn, over, open or still to come, in any order and
several times: the gateway compares the match of a command and not its turn.  `readTo` is
a history variable, how far the stream was read when a turn closed; what is read before
its turn opens is consumed there (`worker.py:318`).

### StrategyPublication and the code

A package is its content hash, an object key and the row it may have.  A request
follows `publish_strategy_version`, `put_immutable`, the commit, `_compensate_upload`,
`validate_strategy_version` and `set_current_strategy`, entered through
`agent_publish_version`, `publish_draft` or `select_current_version`.  `seen` is the
status in the request's session, which is written over without a second look.  The
verdict of a validation is chosen freely, also differently for the same package: the
sandbox measures time.  A commit that reports an error has failed (`SaveFails`) or has
not (`SaveUnanswered`: only the acknowledgement was lost); the request compensates in
both cases.  `overlapped` and `unanswered` are history variables, the packages two
requests were busy with at once and those saved without an acknowledgement.

### RequestIdempotency and the code

The one row of a scope and key is `owner` (who inserted it) and `saved` (it has a
response); `body` is the digest.  An attempt is a request: `Lookup` and `Insert` are
`reserve`, the unique constraint included, `Execute` is everything behind the
middleware, `Save` and `Release` its two ends.  `effects` records who committed a
change, which `Execute` may do before it fails.  `Die` is a killed process, a
cancelled handler (`CancelledError` is no `Exception`) or a database error in the
middleware: nothing then removes the row.

### LiveFeed and the code

A board is named by its step.  `Publish*` are the calls of `_run` and `_mark_failed`
in their order; each may lose its event, since the worker logs a `RedisError` and
plays on.  `Connect` is an accepted socket and the greeting, `Resync` the answer from
`_ordered_unique` history, `AskNew` and `AskTimesOut` the `XREAD` from `$` and its
empty second, `SenderDies` a subscription that raises.  The receive loop and the
sender task write to one socket: `inbox` is what the first has sent, the entries past
`cursor` what the second will send, and the page takes from either, because their
order on the wire is open.  `Shown` and `Handled` are `onmessage`, `Commit` and
`AutoPass` its two ways to submit, `Drop` a lost connection or a reload.

### EngineRules and the code

`QueueLaunch`, `UpdateLaunch`, `RemoveLaunch`, `ClearDraft` are the page's draft
(`battle.ts`, `LiveBattle.tsx`), `Valid` the worker's budget check, `Play` one step of
`_pinned_kernel.py` in its order: comets whose path is over leave, a comet enters,
launches, production, flight, comets leave, combat, the end.  Where things are is left
out: `fate` lets each fleet hit any planet that can be hit, fly on, or vanish.
A human who is not the page, and an agent always, may choose any of `Batches`: any
launches from any planets, several from one, also more than it holds.  The human's must
pass `Valid`, the agent's meets only the kernel's own guards (`LaunchOne`).  Actions that
are no launches at all fail the match, which is `Raise` in `MatchLifecycle`.
Ships are counted one by one (`SumShips` is a cardinality), so sums are exact.  Comets
enter further apart than a path is long, as in the code (every 100 steps, paths of 5 to
40): `EngineRulesAssumption` says so, and the theorems use it.

### StrategyLab and the code

`req[q].row` is what a request's session read, `Flushed` what its commit writes: only
the columns it changed.  `LoadSave`/`Save` are `update_draft` and `reset_draft`;
`LoadSimulate` to `Enqueue` the endpoint that validates, creates a simulation, attaches
it to the draft and queues it, each commit a step of its own; `CheckPublishable` is
`require_publishable_simulation` and `require_validated_package`; `LoadAssist` to
`ProviderAnswers` is `ai_assist.py`.  A session keeps the account it read
(`expire_on_commit=False`), so the charge is computed from that.

### MatchRecovery and the code

`AppendCommand` and `WriteCheckpoint` are `MatchJournal.record` with the store's
refusal of a different value at the same step; `ReadCheckpoint` and `ReplayLog` are
`recover_engine`; `UploadReplay` and `SettleRating` are `FinalizationCoordinator`.  A
board is the sequence of batches played, because the engine is deterministic.  A worker
may crash anywhere, two may play at once, an answer of the store may be lost, and a
checkpoint may be spoilt in the store.

## 3. What the runs check

| Run | Instance | Shows |
|---|---|---|
| `lifecycle_single` | one worker (as `infra/deploy/ip-preview.sh` deploys), two handlers, a ranked match and a simulation, two requests per key; one handler fault, crash, lost reply and signal | `QueuedRowsExist`, `ImplementsRecord`, `AcceptedMatchEnds` |
| `lifecycle_pool` | two workers and handlers, the same matches, one fault of each kind | `ReplayBeforeFinish`, `SimulationHeldOnce`, `NothingStranded` also when two workers execute the same match |
| `settlement` | three settlers, matches A-B, B-A and B-C, two settlements of each, one abort | `RatingsAreChains`, `ImplementsSettlement`, `SettlementsEnd` |
| `turns` | two humans, three turns, three commands for any turn, two entries per read | `AppliedIsFirstValid`, `NothingPassedOver`, `HeardIsApplied`, `MatchEnds` |
| `publication` | two requests, two packages, two faults | `PackageKept`, `VerdictStands`, `CurrentPassed` |
| `idempotency` | three attempts, two bodies, two deaths | `OneAtATime`, `OneResponse`, `ChangedOnce`, `AttemptsEnd` |
| `feed` | two turns, one failing Redis call, one lost connection or reload | `FollowsTheMatch`, `BatchesForKnownTurns`, `NeverBack`, `HearsTheEnd` |
| `engine` | two homes, a comet that enters, may be captured and leaves, three steps, two launches a turn on the page, agents with any batch of two launches of up to two ships | `BatchesLaunchInFull`, `OutcomeFits`, `NoFreeShips` |
| `lab` | four requests of any kind, two contents, two keys, three credits | `PublishedWasSimulated`, `NeverOvercharged` |
| `recovery` | three workers, four steps with a checkpoint every second, two crashes, one spoilt checkpoint | `OneResult`, `RecoveredBoardsAgree` |

Two more runs exhibit where the code departs from what the repository says of it:

| Run | Statement it refutes |
|---|---|
| `worker_crash` | after a worker crash a match is recovered or failed (`technical.md:318`): it stays `PREPARING` or `RUNNING` for ever |
| `feed_stale_batch` | stale commands do not reach a wrong step (`smooth/changes/human-command/phase-1/product.md:118`): without any failure, a page that has just connected can submit for the open turn a batch made on the board before it |

Five further configurations show departures that section 6 describes:
`LifecycleSimulationRetry.cfg`, `LifecycleSettlementLost.cfg` and
`LifecycleStopped.cfg` with `MCMatchLifecycle`, `PublicationRace.cfg` and
`ValidationRace.cfg` with `MCStrategyPublication`.  In each TLC finds the one property
violated.

(`technical.md`, `tasks.md` and `workpad.md` are in
`smooth/changes/agent-orbit-wars/phase-1/`.)

Why the bounds are enough.  The lifecycle hazards are between two parties: two
requests with one key, a request and a worker, two workers, a crash between two
commits.  One match of each kind shows them, because matches share nothing but the
queue; the queue holds up to three entries.  Two settlements that share a fleet and a
third that shares one with both are the smallest set with a two-transaction deadlock
next to a bystander.  Three turns give a command a past, a present and a future turn,
and a batch of two out of three commands splits the stream.  A publication race takes
two requests; the second package shows that only one is disturbed.  A page meets
every order of greeting, answer and live event within two turns: one to be late with
and one to be late for.  Three steps let a comet
enter, be captured, launch and leave; several fleets meet on one planet, and one may
be in flight at the end, which decides an outcome by itself.  Two launches of up to two
ships overspend a planet by the first of them, or only by the second, which finds less
than the board showed.  The credits are few
enough for two requests to run out of them; a lab race is between two requests, and the
others save or simulate meanwhile.
Three workers give recovery a dead one, a zombie and its successor; four steps give it
a checkpoint behind the log, at its end and before it.  Requests and workers are
interchangeable, so these two runs use symmetry; both check safety only.  Counters
(`MaxRequests`, `MaxRequestFaults`, `MaxCrashes`, `MaxLostReplies`, `MaxStops`,
`MaxCalls`, `MaxAborts`, `MaxCommands`, `MaxStep`, `MaxFaults`, `MaxDeaths`, `MaxDrops`,
`MaxFlying`, `MaxGarrison`, `MaxBatch`, `MaxShips`, `MaxCorrupt`) bound what the
environment may do, never what the code does, with one exception: `MaxFlying` drops the steps that leave more
fleets in flight.  The theorems hold for every value.

Deadlock checking is off where the system really stops: all requests sent and all
work done.  `StrategyPublication` never stops and is checked.

## 4. Fairness

* `MatchLifecycle`: weak fairness of a handler that has started and of each worker's
  own steps, restart included.  A running process goes on, docker restarts a dead
  worker (`--restart=always`), and the turn loop is bounded by the engine's step limit
  and the deadline of every turn.  Requests, faults and signals are never forced.
* `RatingSettlement`: weak fairness of each transaction that can go on; a waiting one
  is not enabled.  PostgreSQL grants a free lock and aborts a deadlock.
* `LiveTurns`: weak fairness of the worker's loop and of the deadline.  Players are
  never forced to act.
* `LiveFeed`: weak fairness of the worker, of the answer to a resync and of both ways a
  message reaches the page.  These are loops that run and a socket that delivers.  No
  connection is forced to come up and no player to act.
* `StrategyPublication`, `StrategyLab`, `MatchRecovery` and `EngineRules` state safety
  only.
* `RequestIdempotency`: weak fairness of a dispatch that runs; a handler returns or
  fails.  Clients are not forced to try or to retry.

## 5. What is proved

All theorems hold for every value of the constants under the named assumptions beside
them (`LifecycleAssumption`, `SettlementAssumption`, `LiveTurnsAssumption`,
`PublicationAssumption`, `IdempotencyAssumption`, `StrategyLabAssumption`,
`MatchRecoveryAssumption`, `LiveFeedAssumption`, `EngineRulesAssumption`): kinds of
matches are disjoint, "no ..." values are not members, the two players of a match are
different fleets, the batch is not empty, the lab's requests are finitely many, a match
has steps, a spoilt hash is no board's, a map has finitely many planets and comets enter
further apart than they stay.

**Lifecycle.**  `TypeCorrect` needs one addition (`OutcomesKnown`: a worker past the
turn loop has an outcome, and only the winner of a ranked match reaches `Settle`).
`FinishedHasReplay` is inductive once it also says that a worker about to finish has
attached.  `EntriesHaveRows` needs that a handler about to enqueue has committed.
`SimulationsHeldOnce` needs a count: per simulation there is at most one request that
inserted it, entry or holder, and none before the row exists; a retry finds the row.
`RecordImplemented` combines these with what the row looks like at each `pc` of the
only holder: with one worker, or for a simulation, each step of the system is a step
of `MatchRecord` or changes no record.  `NobodyIsStranded` rests on `StrandInv`: a
queued match has a claimant, the worker that wrote `PREPARING` or `RUNNING` keeps the
match in hands until a final status is written or found, and a worker beyond `Claim` holds
a row that is never `QUEUED` again, so that one worker's late write cannot strand what
another took.

**Settlement.**  The invariant says which rows a transaction holds at each statement
and that what it read of a row it holds is still what is committed (`LocksInv`,
`ViewsInv`).  Then a `Commit` is a `Settlement` step and everything else a stutter
(`SettlementImplemented`), and each event starts from the rating the previous one left
(`RatingsChain`).  `SettlementTyped` adds that a transaction without a match is idle.

**Turns.**  The invariant (`TurnsInv`): what the turns read of the stream are windows
that lie one after the other (`ReadInOrder`); what is taken is the first valid entry of
the window, and is missing only if there was none (`WindowTakesFirst`); a command that
came while the worker waited is still unread or was considered.  Clients may name any
turn.  `FirstCommandWins`, `ReadCommandsCount`, `HeardCommandCounts` and `TurnsTyped`
follow.

**Publication.**  A package no two requests were busy with has one request at most
(`Alone`), and that request can rely on what it saw (`Reliable`): there is no row until
it saves one, its upload stays until then, the row is `validating` while it judges.
`PackagesAreKept` and `VerdictsStand` follow; `CurrentHasPassed` holds whatever
overlaps.  `PackagesAreKept` also exempts a package whose row was saved without an
acknowledgement, because the request then deletes its object; `VerdictsStand` does not.

**Idempotency.**  The row belongs to the attempt that executes, holds the response
everyone was answered with, and stands for every change whose response was kept
(`RowInv`).  `AttemptsExclude`, `ResponseIsUnique` and `ChangesOnce` follow.  They are
proved in `StrategyPublicationProofs`, which extends `RequestIdempotencyProps` and its
`IdempotencyAssumption`.

**Feed.**  `FeedInv` ties four places together: what the worker published, what the
gateway has sent, what is still in the page's inbox, and what the page shows.  No
published event is ahead of the worker, a turn opens right after its frame, and an
event's place in the stream grows with its step (`WorkerInv`, `FramesAhead`,
`OpenFollowsFrame`).  A resync answers with a history sorted by place, so in the inbox a
turn comes after the frame of its board (`FrameFollowsOpen`), and what the sender has
still to send is newer than what the page was greeted with (`SentInv`, `Behind`) until
the first live frame.  A page that has had one has seen every turn sent since, so the
board it shows is the step it knows (`PageFollows`); it submits for turns that were
opened (`KnownTurnsOnly`) and its board never goes back (`NeverGoesBack`).  The lemmas
`SortedByPlace` and `HistoryIsSorted` say what a resync returns for every stream.

**Engine.**  `EngineInv` adds to the types that the draft fits the board
(`DraftFits`: its planets are the player's, every launch has a ship, and per planet the
launches add up to no more than is there), that a comet on the board entered at its time
and is not at the end of its path (`CometInTime`), and that the last step is over
(`EndsInTime`).  Without `CometInTime` a comet could enter on top of another one and
take the planet from under a validated draft.  `LaunchesAreCounted` is an induction over
the batch: after `n` launches each planet has lost what the first `n` commands took from
it, so the next one finds its ships (`LaunchSpends`, `ProcessInFull`).
An agent's batch is any: launches the kernel must refuse (`LaunchOne`) change nothing.
Of a human's, from the page or not, it is used that the worker validated it (`ValidFits`).
`ShipsAreProduced` follows a step through its phases: a launch moves ships and changes no
score (`LaunchKeeps`), production adds to a player's own planets (`ProduceKeeps`), and
combat leaves a player on each planet no more than he had there plus what arrived
(`CombatKeeps`, summed over the board in `FightKeeps`).  `OutcomeIsRight` compares the
scores the rewards are made of.  The sums are cardinalities, so adding an entry,
taking a part and renumbering are lemmas about finite sets; induction over numbers and
over finite sets is done once, for a set of numbers or of sets (`EveryNumber`,
`EverySet`), which the provers can instantiate.

**Lab.**  Publication: only the request that created a simulation queues it, and before
that it cannot finish (`SimulateInv`); a finished one keeps its candidate, so the
content a request is about to publish stays simulated (`PublishInv`).  This needs
nothing of the draft: the row may mix columns of several sessions, because the check
compares hashes.  Credits: every request that waits for the provider is counted in
`reserved`, and from the account it read only answered requests were taken
(`AssistInv`); hence `FairPrice`.  The lost charge of section 6 is on the owner's side
of the same inequality.

**Recovery.**  The log has no gap and a checkpoint is only of a logged step (`LogInv`,
`CheckpointInv`); what a worker plays on is in the log but for its last step
(`BoardKnown`); the checkpoint it found is one its board has reached (`SeenKnown`);
what was settled is the whole log (`ResultInv`).  `ResultIsUnique` and
`RecoveryAgrees` follow: a worker that another one replaced can only do what the other
does, or fail on the comparison.

Only model-checked: the liveness properties (`AcceptedMatchEnds`, `SettlementsEnd`,
`MatchEnds`, `AttemptsEnd`, `HearsTheEnd`), which the provers do not reach, and the
counterexamples of section 3.  Every other property that a passing run checks is a
theorem.

## 6. Also observed

Departures with a configuration (section 3):

* "Retry temporary `5xx` ... with the same idempotency key" (`docs/agent-guide.md:113`):
  a simulation whose request died between commit and enqueue is answered `201` on
  retry and never queued (`LifecycleSimulationRetry.cfg`).
* No replay without its score (`technical.md:552`): the two commits of `_finish` can be
  separated by a crash (`LifecycleSettlementLost.cfg`).
* "allow running matches to finalize" (`docs/runbooks/release.md:12`): SIGTERM records an
  unfinished match as finished (`LifecycleStopped.cfg`).
* Failures are safely compensated (`tasks.md:28`): compensation deletes the object of a
  concurrent publisher's committed row (`PublicationRace.cfg`).
* The one-way status machine (`strategy_versions.py:71`, `workpad.md:96`): a second
  validator moves a ready version back (`ValidationRace.cfg`).

Met while modelling:

* A save whose commit succeeded but was not acknowledged deletes the object of its own
  committed row (`strategy_versions.py:129`): the row stays `uploaded` without a package.
* A command for a turn still to come is accepted, read in an earlier turn and consumed
  there (`worker.py:318`), so its sender has to send it again once the turn is open.
* A command for a turn that is over is appended and answered `turn.accepted`
  (`api/ws_matches.py:88`); `technical.md:307` promises a stable error code.
* The deadline is set before the built-in agents run and checked before each `XREAD`
  (`worker.py:308`): a command that came in time is dropped when the agents, or the
  batch before it, used up the window.  `HeardIsApplied` therefore speaks of commands
  that came while an `XREAD` was waiting.
* `apply_once` locks fleets in slot order (`ratings.py:176`): A-B and B-A deadlock, the
  aborted one is never scored.  `SettlementsEnd` shows that rows are freed.
* With a second worker, `_mark_failed` can write `FAILED` over a match the other worker
  finished and scored; the refinement is therefore stated for matches only one worker
  can hold.
* An attempt that died leaves its key answered `409` "still in progress" for ever:
  `expires_at` (`idempotency.py:75`) is never read, and the repository has no job that
  deletes the records after the 24 hours of `docs/operations.md:28`.
* An answer without a body (`204`: logout, revoking a key) is not kept, so a retry
  executes again.  Both handlers set an end and are harmless to repeat.
* The Agent API never resumes a version left `validating` (`api/agent.py:377`).
* `match.finished` carries the final step, which is the `lastSeenStep` of a page that has
  the last frame: its resync never sends it again.  `match.error` has no step and is
  never in a history.  Such a page waits on an ended match; `HearsTheEnd` speaks of
  pages that were connected.
* An event between two `XREAD`s from `$` (`live_bus.py:138`) reaches nobody; the next
  frame repairs the board, which is why `FollowsTheMatch` asks for one live frame.
* A page that connects before the first snapshot has no board until it reconnects: frames
  and turns do not make one.
* Nobody awaits the sender task (`ws_matches.py:34`): when it dies the page stays
  connected and hears nothing.  A refused ticket is closed before the socket is
  accepted, so the page sees no `4401` and retries.
* When the last owner standing holds only planets without ships, the match ends by
  elimination with both rewards -1: a draw (`_pinned_kernel.py:708`).
* Two saves of one revision that overlap both succeed, against the optimistic lock of
  `smooth/changes/in-platform-strategy-lab/phase-1/technical.md:39`.  Columns a session did
  not change are not written, so a draft can be shown as eligible with a source that was
  never simulated; publishing refuses it by its hash.  `mark_validated` can write the
  verdict of an older source beside a newer one (line 89 promises the same revision).
* A simulation that was created but not attached, because the draft changed in between,
  is never queued.
* There is no user-level lock for the AI (lines 110, 126): overlapping requests can pass
  the limits together and be charged once.  A crash leaves a request `reserved`, and the
  user is refused until someone edits the row.
* The deployed worker plays every uploaded strategy as a built-in one, by slug
  (`worker.py:426`); the sandbox runs only when a version is validated.
* In `runtime/`, an agent that times out is answered with duration 0 and so never uses
  the overage budget of `technical.md:303`; when both agents fail in one step, slot 0 is
  the one to forfeit.

## 7. Abstractions

Geometry, ratings' arithmetic, packages' bytes, message wording, authentication and
limits are left out.  Redis and PostgreSQL are taken to keep what they acknowledged.
Redis evictions, stream trimming (`MAXLEN`) and the expiry of keys are not modelled.

* `LiveFeed` follows one player's page; the other player's differs in its slot only.
  The clock of the page is the fact that a deadline is set.
* `EngineRules` has two players, one production rate for all planets and one planet for
  the four of a comet group; ships in the kernel are whole numbers.
* `StrategyLab` leaves out the budget of the whole site, which is the daily limit once
  more, and the turn of the day.
* `MatchRecovery` takes the store as its in-memory implementation: calls are atomic.

## 8. Not modelled

About two fifths of the implementation's lines are the built-in strategies: opponents,
mostly vendored, that the worker calls as functions of an observation.  Nothing in the
platform depends on what they answer beyond its form, which `EngineRules` and
`LiveTurns` leave open.  Most of the rest of what is not mapped computes on one row or
one page and has no state that two steps could disagree about.

| Part | Why |
|---|---|
| Replay writer and analysis | one process appends frames to a local file in the order of `LiveTurns`; the analysis is a pure report |
| Match runner, turn coordinator, turn clock, managed agents | reached from tests only; what the deployed worker does instead is modelled.  Recovery, which is not deployed either, is modelled because its protocol is meant for workers that overlap |
| Matchmaking | one read-only query that proposes an opponent; creating the match is in `MatchLifecycle`.  Its limit counts finished matches, so matches created together all pass it |
| Accounts and sessions | single transactions whose interesting properties are about access |
| Fleets, warm-up, public reads | single transactions under a unique constraint, an offline script, queries |
| Engine geometry, map generation, four players | floating-point paths; `fate` stands for every outcome of them |
| Contracts, web pages except the battle page, metrics, deployment scripts except the restart policy | schemas, rendering, configuration |

What could come next: `MatchLifecycle` with the statements of `RatingSettlement` in
place of its atomic `Settle`; the trimming of the command stream, which needs more than
two thousand commands within one window; a second page on the same match.
