# Formal model of the investment workbench backend

This directory holds TLA+ modules that model the stateful core of the backend in
`src/app/app`, the TLC configurations that check them on small instances, and
proofs checked by TLAPS. It is meant to be read beside the code: every
definition that models code names its source lines in `PROJECT.json` (`map`).

- [The system](#the-system)
- [Modules](#modules)
- [What the runs check](#what-the-runs-check)
- [Bounds](#bounds)
- [Fairness](#fairness)
- [What is proved](#what-is-proved)
- [What the code does not keep](#not-kept)
- [Not modelled](#not-modelled)
- [Plan](#plan)

## The system

A user talks to an AI in a *session* (a conversation), which belongs to a
*project* (a directory on a machine of theirs). The user may hand the *wheel* of
the session to an expert: that creates a *task*, a run through a fixed workflow
of steps. One task of a project works at a time; later ones wait in line. Each
step is an *attempt*: a *turn* of the model at an app-server in the user's
sandbox, which is charged to the task's budget, and judged. A step or a running
turn may put an *interaction* to a person (a question, a tool approval, a
request for more budget), and the task waits until it is answered.

| part | state | operations | talks to |
|---|---|---|---|
| Ledger `application/workbench/ledger.py`, `domain/workbench/states.py` | tasks, attempts, interactions, wheel, budget (Postgres) | handover, transition, resume_environment, request_cancel, open_attempt, attempt_transition, open_interaction, respond_interaction | Store |
| Store `infrastructure/workbench/repository.py` | the tables; row locks, versions, unique indexes | one method per query | Postgres |
| Web process `interactions.py`, `interfaces/endpoints/workbench_routes.py` | none between transactions | handover, answer, cancel: a transaction on the ledger, then another one that enqueues a command | Ledger, Store |
| Runner `application/workbench/runner.py` | leases it believes in, drivers by task | run_once (renew, acquire, take over, claim), handle (one branch per command) | Store, SandboxLink, Advisor |
| SandboxLink (same file) | requests waiting for a person, stops noted per thread, active turns | run_turn, interrupt, on_server_request, approval.respond | app-server, Ledger |
| Advisor `advisor.py` | none but the coroutine's variables | drive: validate, step, finish | Ledger, SandboxLink |
| Machine sync, agent reports `machines.py`, `agent_reports.py` | environments online or not, permission reports | sync_once, report_environment, receipts | relay, Store |
| Sessions, projects, delegation `session_service.py`, `project_service.py`, `delegation.py` | sessions, projects | start, attach, archive, remove, delegate | Ledger, Store |
| Expert catalog `catalog.py`, `knowbot_data.py` | pins of knowbots, a cache of packs per process | pin, choose a pack for a task, read data for a task | knowmart, Store |
| Library `library.py` | artifacts (never changed), the user's titles and removals | listing, content, rename, remove, cite | Store |
| Views `expert_desk.py`, `domain/workbench/*_view.py` | none: pages built from rows and events | steps, dossier, review, overview | Store |
| Durable delivery `infrastructure/messaging` | outbox, inbox markers, execution leases | claim, publish, finish, reconcile, replay, consume, gauges | Celery, Store |
| Test runs `test_runs.py` | runs, cases, monthly budget | submit, answer, tick, purge | Ledger, Sessions |
| Onboarding, provisioning | pairings, relay identities, sandboxes | request, approve, poll, rotate, provision, reclaim | relay, cluster, Store |
| Tool policy, pricing (pure) | none | decide a request, price a turn | SandboxLink |
| Tokens, acceptance (pure) | none | sign and verify, judge | |
| Web login `services/auth_service.py`, `security/oidc.py` | login transactions, browser sessions (Redis), cached keys | begin, complete, end, admit | OIDC provider |

What makes it hard: a handler is rarely one transaction; drivers hold values they
have read across awaits; commands travel through a table that several runners
poll; a runner can die or lose its lease while its drivers still run; people
answer, cancel and stop at any moment; questions have deadlines; and all of
this must keep five tables in step (task, attempt, interaction, session,
command). `PROJECT.json` lists the hazards one by one, at their lines.

What makes each part correct:

- Ledger: session and task agree about who drives; one expert per project; what
  has ended stays ended; a question belongs to the wait that is on; an answer
  counts once; the reservation is what the open attempt holds.
- Runner and Advisor: one driver works at a task, even after a lost lease; no way
  out of a step leaves its attempt open; the cursor never passes a step nobody
  completed; a task that has been given the wheel is driven.
- SandboxLink: an answer reaches the request that waits for it; a command is let
  through only by the policy of the step, a grant somebody gave, or a person's
  answer under the number of the request; a turn is charged what it used, once.
- Sessions: a turn that may write runs in a work or expert conversation of a
  project; the expert's page leaves a whole delegation or nothing; nothing is
  removed under an expert at work.
- Event log: a page that follows a conversation shows every event.
- Delivery: an accepted message takes effect at most once, a late consumer writes
  nothing, and every message is settled.
- Onboarding and provisioning: a token reaches one machine, once; after a rotation
  the old pair opens nothing; a finished operation leaves a usable identity.
- Test runs: "passed" means that every case met what it expects, a closed case leaves no task behind, a run ends.
- Catalog, library: a task is driven by the manifest it was handed over with; a
  citation keeps its text; what was removed stays removed.
- Login: one exchange per login; tokens are checked with keys that were current.
- Views: a page shows nothing that was not so.

## Modules

`Ledger.tla` is the ledger and the tables it owns. **One action is one database
transaction.** A transaction locks the rows it decides on, so it is atomic, with
one exception: `handover` reads "is an expert busy here" without a lock on that
expert's task, so it is two steps, `HandoverRead` and `HandoverCommit`; between
them `handing[p]` holds the locks on its session and project, and an ending that
needs the session waits (`Locked`). The partial unique index on the active task
of a project is modelled by `UniqueActive`: a transaction that would break it
does not commit. `Terminate` is everything an ending does: close the row, give
the wheel back, withdraw open questions and start the next task in line.

The optimistic version `state_version` is abstracted to `fresh`, the interaction
whose `target_state_version` still equals it. Creation order in a project is
`ahead`, the set of tasks that were there before. `Next` lets every caller make
each call it contains at any moment.

| variable | code |
|---|---|
| `task`, `attempt`, `inter`, `sess` | `workbench_tasks`, `_attempts`, `_interactions`, `_sessions` |
| `handing` | the open handover transaction of a project |
| `pending` | pending `task.drive` rows of `workbench_commands` |
| `online` | status of the environment a project works in |

`Runner.tla` EXTENDS Ledger and puts the callers' control around its actions: the
web process (`CancelTask`, `AnswerInteraction`, `FinishHandover`, and `Post` for
the command it owes afterwards, which `WebDies` may lose), the loop of each runner
(`RunOnce`, `HandleDrive`, `HandleAnswer`, `HandleInterrupt`, `CommandFails`,
`LeaseLapses`, `Crash`), one driver per runner and task, and the turns. A driver is a program
counter over the awaits of `Advisor._step_once`:

    begin -> validate -> step -> open -> [askfirst -> asking]
                          ^        `-> turn -> wait -> turned -> judge -> settle -> after
                          `---------- requeue <---------------------------------------'
    finish; leaving (about to be removed from Runner.driving); off

What a driver has read in one step it acts on in a later one. An exception (a
transition the ledger refuses, a turn the app-server refuses) ends the driver, as
`_drive` logs and returns.

| variable | code |
|---|---|
| `lease`, `held` | the row of `workbench_sandbox_leases`; `Runner.leased` of each runner |
| `claiming` | the runners whose last iteration left them with the lease (a runner that extends its own expired row claims commands without noting it as leased) |
| `driver` | `Runner.driving` |
| `cursor`, `stepOf` | columns `current_step`, `step_id` |
| `turning` | turns in flight at the app-server |
| `opening`, `asks` | a turn's question between its commit and `_wait_answer` (an answer handled there finds no future), and then in `SandboxLink.pending_approvals` |
| `unheard`, `halted` | questions whose link was dropped before their future was made; `user_stops` |
| `fromTurn`, `first` | interactions whose subject names a turn's request, or `ask_before` |
| `owed`, `queue` | commands still to be enqueued; the other commands of the table |
| `own` | turns a person has stopped, which do not wait any more |
| `lost` | ghost: commands that died with a process that had them in hand, or that failed before they did anything (`command/failed`; nobody enqueues them again) |
| `faults`, `lapses` | the bounds |

Abstractions of `Runner.tla`: all sessions of an instance share one sandbox (those of
one user do); a command is handled when it is claimed; the lookup, check and write
of one round trip are one step when no await of another party lies between them;
the reserve of a step and the outcome and the cost of a turn are choices; the
user's own turns appear only where they leave something behind for the expert
(`UserStopsOwnTurn`); `online` stays TRUE, because a machine that goes away while
the expert works is the turn's outcome `lost`, and it is back as soon as anyone
looks.

The other components have a module each. They EXTEND one another only where one
calls or writes what another owns:

| module | models | state | how it moves |
|---|---|---|---|
| `Mailbox` | what durable delivery promises | status and effects of each message | abstract specification |
| `Delivery` | `infrastructure/messaging`, `outbox.py`, `tasks/durable_delivery.py` | `msg`, `dead`, `inbox`, `lease`, `hints` (copies in the broker), `pump`, `worker` | a pump and consumers, transaction by transaction; every deadline is a flag with an action that lets it pass |
| `Conversations` | `session_service.py`, `project_service.py`, `delegation.py` | `conv`, `project`, `task`, `req` | a request is up to three steps: it locks and checks (`Asks*`), writes (`Commits*`), and posts a command |
| `Provisioning` | `provisioning.py`, `provisioner.py`, `relay_admin.py` | `identity`, `registered`, `revoked`, `pod`, `sandbox` | a web request goes from await to await; any may fail |
| `Pairing` (EXTENDS Provisioning) | `agent_onboarding.py` and its sweep | `pairing`, `got` | a machine asks and polls, a person approves |
| `SessionLog` | the event table and the pages that follow it | `log`, the place of each reader | append, list, fetch |
| `LinkUsage` (EXTENDS SessionLog) | token reports and prices of a link | what the link knows, reports on the wire | reports come, are lost or repeated; a turn ends |
| `MachineSync` (EXTENDS SessionLog) | `machines.py`, `agent_reports.py` | environments, receipts, a sync per runner | snapshot, transaction, receipts |
| `Events` | LinkUsage and MachineSync writing one log | | composition |
| `TestRuns` | `test_runs.py`, `domain/workbench/test_runs.py` | `run`, `row`, `task`, `cond` | a conductor's commits, from what it has read |
| `Login` | `auth_service.py`, `oidc.py`, `session_store.py` | transactions, sessions, cached keys | a callback goes from await to await |
| `Approvals` | `runner.py:560-1150`, `tool_policy.py` | requests, grants, the future of each handler | request, policy, question, answer, timeout |
| `Catalog` | `catalog.py`, `knowbots.py`, `knowbot_data.py` | pins, the snapshots a process has cached, tasks at work | pin, hand over, consult, read data |
| `Library` (EXTENDS Catalog) | `library.py`, artifacts | `artifacts`, `overlay`, citations | deliver, list, rename, remove, cite |
| `Desk` | `expert_desk.py` and the views, with the commits of `advisor.py` they look at | the rows and events of one task, a page being read | the driver commits; a page reads one thing after the other |

`MCLedger` and `MCRunner` give the constants of these two their values and the
symmetry sets. `MCDelivery`, `MCConversations`, `MCPairing`, `MCTestRuns` do the
same for one module each. `MCDesk` (Ledger and Desk), `MCThread` (Events and Approvals)
and `MCWeb` (Login and Library) put parts that share no state into one run: an initial
state chooses the part that moves (`side`), so the state space is the sum of theirs and
not the product.

The proofs are in modules of their own:

| module | theorems about |
|---|---|
| `LedgerProofs` | Ledger |
| `RunnerProofs` (EXTENDS LedgerProofs) | Runner, and that it implements Ledger |
| `DeliveryProofs` | Delivery, and that it implements Mailbox |
| `ThreadProofs` | Events (with SessionLog, LinkUsage, MachineSync) and Approvals |
| `WebProofs` | Login, Catalog, Library, and that Library implements Catalog; Desk |
| `ConversationProofs`, `PairingProofs`, `TestRunsProofs` | Conversations; Provisioning and Pairing; TestRuns |

Operators marked "Mutant" are bugs such a code might have (a dropped guard, a
missing reset). Nothing uses them but a check that puts each in the place of the
definition before which it is meant, to see that the property paired with it
in `PROJECT.json` notices.

Three abstract specifications are implemented by detailed ones, proved for every
instance:

- `Ledger!Spec` by `Runner`: every step of the whole system, with lost leases and two
  runners, is a step of the ledger's specification or leaves the tables alone (run
  `runner_lapse`, theorem `RunnerRefinesLedger`). So what is proved of `Spec` also holds
  under the runner.
- `Mailbox` by `Delivery`, through `Promise == INSTANCE Mailbox WITH ...` at the end
  of `Delivery.tla`: a message is accepted, done or dead, whatever claims, leases,
  hints and epochs there are (property `Promised` of the run `delivery`, theorem
  `PromiseKept`).
- `Catalog` by `Library`: to whoever looks at packs only, every step of the library is
  one of the catalog's (theorem `LibraryIsCatalog`; the properties of the catalog are
  checked on the library in the run `web`).

## What the runs check

| run | property | what it shows |
|---|---|---|
| `desk` | WheelMatchesTask, OneExpertPerProject | three tasks of two sessions, every interleaving of handover, ending, cancel, dequeue: sessions and tasks agree and one expert works at a time, the index included |
| | PageIsTrue | one task driven to its end while a page of it is read: "done" only with every step accepted, no money that was not spent, an end with its reason |
| `ledger_budget` | TypeOK, PendingIsCurrentWait, ReservedIsHeld, EndedForGood, AnsweredOnce | one task, two attempts, two questions, any calls in any order |
| `runner_faults` | PassedStepsAccepted, AttemptHasDriver | two runners, two steps under a budget, reworks, steps back, top-ups, hard stops; one crash, refused turn or dead web process anywhere |
| `runner_lapse` | OneTurnPerTask, Spec | a living runner loses its lease to another one |
| `runner_live` | StartedIsDriven | a task that is given the wheel is driven, the one started by an ending too, through a crash of the runner, which starts again; the exception is a command that was lost with the process that had it in hand, or failed |
| `runner_answer` | AnswerIsDelivered | an answer given once the turn's future is in the table reaches the turn through the command table, whatever drivers, turns and people do meanwhile; the exception is again a command that was lost or failed |
| `delivery` | EffectOnce, WritesAreFenced, Promised, EverySettled, GaugesFollowThePump | a crash or a lost hint anywhere, leases that run out under a living consumer, a replay; the observer's own SQL announces what the pump will do |
| `conversations` | ChatNeverWrites, EntryIsWhole, RemovedAtRest | two requests of the user side by side with the runner, a task at work and one in line that begins when it ends, and a machine that goes away |
| `pairing` | OldTokensDie, FinishedIsUsable, HandedOnce | two machines, two web requests, one operation that fails half way |
| `events` | ReaderMissesNothing, NeverOvercharged, MissedIsMadeUp, OneEventPerReport | pages follow a log that a link and two machine syncs write, with lost, repeated and stale reports |
| | GrantIsGiven, AcceptedByThePerson | the requests of turns while wheel, step and connection change and a restarted app-server numbers them anew |
| `testruns` | PassedIsEarned, ClosedCaseIsStopped, EveryRunEnds | two conductors without a lock, each acting on what it read before the other wrote, one of which may die |
| `web` | OneExchangePerLogin, KeyWasCurrent, GoodKeyIsTaken | callbacks of two tabs while keys, tokens and transactions run out and a process is deployed anew |
| | ByItsOwnManifest, CitationHolds, RemovedStaysRemoved | pins, packs and a cache over a restart; deliverables and two edits of the library |

`AttemptHasDriver` exempts a task whose turn has put a question: `OverBudgetStops`
shows why the exemption is needed. `StartedIsDriven` and `AnswerIsDelivered` exempt
the commands in `lost`: `DriveIsNotLost` is the statement without the exemption.
`AnswerIsDelivered` begins when the future exists: `AnswerFindsItsTurn` is about the
answers before that. `GrantIsGiven` and `AcceptedByThePerson` know a request by its number, as
an answer in the command table does: what is let through was accepted under that number,
and `AcceptedForThisRequest` is the statement about the request itself, which a recycled
sandbox breaks. All these stand among [what the code does not keep](#not-kept).

Several hazards of `PROJECT.json` have a consequence that no property which holds can
exclude, because the code allows it. For these the note of the hazard names the statement
of that section which catches it: a stuck line (`QueueHasAHead`), a lost cancel
(`CancelIsRecorded`, `CancelInterrupts`, `CancelEnds`), an attempt left open
(`ResumedStepOpens`), a wait nobody can settle (`WaitCanBeSettled`), a missing stop
(`OverBudgetStops`), two turns in one directory (`OneTurnPerProject`), a dropped drive
(`QueuedHasDrive`), an identity revoked and not stored (`StoredIsUsable`), a task no row
names (`PurgedIsGone`).

Two liveness properties hold as well and have a configuration of their own:
`MCPairing_ends.cfg` (`EveryPairingEnds`: with the sweep and polling machines every
pairing comes to an end) and `MCThread_reader.cfg` (`ReaderCatchesUp`).

## Bounds

- Ledger, queue: three tasks are the least with one at work and two in line (a
  dequeue that has a choice); two sessions let the front and the line be in the same
  session or in different ones.
- Ledger, budget: two attempts (one after the other, or one too many), two
  questions (one open, one stale), limits, reserves and costs such that a turn
  costs less, as much as, and more than what it reserved and what is left.
- `MaxPending = 1`: one `task.drive` of a task waits at a time; a second would be
  ignored by a runner that already drives the task, or start it again.
- Runner: one task where the property is about one; two runners where a lease
  changes hands; two attempts and two questions, so each can be followed by another
  one (three attempts where a step is done again under a budget); one fault (a process
  that dies, a command that fails, a turn that is refused) or one lapse, anywhere, in the
  liveness runs too. There one runner is enough: it is the one that starts again, with its
  lease row and without its memory. `runner_answer` puts questions of a turn only, because a
  take-over expires approvals. `CanGoOn` and `CanAsk` keep a person or a model from asking for
  one more round when the identifiers for it are used up, so that no behaviour
  stops in the middle of a handler.
- Desk: two steps, so that the last one can go back to the first; three attempts; one
  question or one death of the driver. A task starts either with a budget of one and
  a person who answers, or without a limit and with a death. `MaxWindow = 2` events may
  be written while a page is read, and a page that is complete stays; the first is
  what makes reads of different moments, the second only stops the clock. `EventLimit`
  stands for the 1000 events read at once. The run reads the pages of the steps and of the
  dossier, the two `PageIsTrue` speaks of; the theorem, and `MCDesk_gaps`, have the review
  and the overview too. A turn can be given up while its question is open (`TurnEnds`,
  `TurnGivenUp` in WAITING), after which the question is `stale` and takes no answer.
- Delivery: one message, one pump and two consumers of its resource (the least with a
  late one), `MaxAttempts = 2`, one fault, one replay.
- Conversations: two requests, two conversations, one project, two tasks and two
  idempotency keys (so that one task works and the other is in line behind it, or the same key is given twice), two reports of the machine, one waiting turn.
- Pairing: one owner, two machines, two web requests, three pairs of tokens (one
  rotation more than one), capacity one, one failure.
- Events, approvals: one conversation, one thread; `Shares` are the ways to split calls,
  rounds and failures between the parts. The user's turns ask one command, the
  expert's ask a command, a file and a question (`Narrow`; `MCThread_gaps.cfg` uses `Broad`).
- Test runs: two cases, one that has its answers with it; a price of 2 with turns of 1
  and a month of 3, so that one run fits and two do not; conductors meet at a run once.
- Login: two tabs, two handlers, two keys, two policies; times are ticks, with lifetimes
  longer and shorter than each other. Library: two owners, manifests, tasks and edits,
  one restart, two versions of a deliverable. The part about packs starts with its
  restart used up, the part about the library with one task at work.
- Deadlock is checked where the loop of a process never stops: `ledger_budget` and the
  runs of `Runner` and `Delivery` whose configuration does not say otherwise. The others
  have bounds on calls, times and identifiers at which an instance simply is at its end.

## Fairness

`LiveSpec` assumes weak fairness of what goes on by itself: the commit of an open
handover, the second transaction of the web process, each runner's polling loop
(`run_forever` sleeps and polls), its handling of the commands it finds, every
driver's next step (a coroutine with nothing to wait for but its transaction), a
turn, which ends or is given up after 900 s, and the expiry of a lease whose holder
is gone. Nothing is assumed of people, machines, faults or lapses: none of
their actions is fair. The two liveness runs have one fault: a web process that dies
between its two transactions really does lose the command, as does a command whose
handling fails, and the properties say so. `runner_answer` assumes less, `CommandSpec`: only
what moves commands (`CommandsMove`: the polling loops, their handling of commands, the
web process's second transaction) is fair, while drivers and turns may hang for ever.

`Delivery`: the pump and every consumer take their next step (Celery beat and the
workers run for ever), clocks pass deadlines, and the lease of a resource ends when
nobody holds it. `TestRuns`: a conductor's loop advances, a task's turn ends, and
deadlines pass; nothing is assumed of the submission. `Pairing` (in
`MCPairing_ends.cfg`): started operations finish, machines go on polling, the sweep
runs. `Events` (in `MCThread_reader.cfg`): a page that is open goes on fetching.

## What is proved

Every invariant and every action property of the runs is a theorem. A theorem holds for all values of the constants that satisfy the
assumption of its module: any number of tasks, sessions, runners, messages, pages,
machines, tabs, and any limits, costs and bounds. Each safety proof has the same shape:
an invariant that is inductive, that `Init` gives it, that each action keeps it (one
lemma per action or group of actions), and that it implies the property.

**Ledger** (`LedgerAssumption`).

- `TypeCorrect`. Beyond shapes this says that no charge, release or top-up makes a
  budget negative; the lemmas `AfterConsumeNat` and its like carry the arithmetic.
- `WheelInvariant`, with `WheelAgrees` and `OneExpert`. The two properties are not
  inductive: that a dequeued task can be started depends on its row being untouched
  since it was inserted (`RowsInLine`), that a handover may commit depends on its
  session being still idle and its task new (`HandoverHoldsRows`), and that no second
  expert is made depends on the index (`UniqueActive`). The conjunction of all four is
  inductive together with `TypeOK`.
- `QuestionsAreCurrent` is inductive together with `TypeOK` and `WheelInv`, which is
  needed for one step: a handover that commits must write a row that no open question
  belongs to. `AnswersAreFinal`, an action property, follows from `TypeOK` alone.
- `HeldInvariant`, with `OneAttempt`, `ReservationsAreHeld` and `EndingsAreFinal`. What
  is reserved equals what the open attempt holds only because a task has at most one
  open attempt (`OneAttemptPerTask`), no caller suspends one (`NoneSuspended`), and
  attempts belong to tasks that exist (`AttemptsHaveTasks`). That an ending is final
  needs `EndedHasNoWhy`.

**Runner** (`RunnerAssumption`).

- `RunnerInvariant`: what a driver has read and still relies on. `Came` says which states
  its task cannot be in any more, `Saw` what it has seen of the budget and of a
  cancel, `InHand` that its attempt is its task's and has the status its program counter
  tells; no two drivers have one attempt in hand.
- `RunnerRefinesLedger`: each branch of each handler and each way out of `_step_once` is
  a step of the ledger or leaves it alone. This needs `RunnerInvariant`: a driver acts on
  what it read some awaits ago, and the step it then takes must be one the ledger allows.
- `OneTurn`: two drivers of one task never both work at a turn of it, with lost leases.
- `PassedStepsWereAccepted` holds as long as no living runner has lost its lease
  (`lapses = 0`), the case the run has too: `MCRunner_over` shows two drivers counting a
  step twice after a lapse. `StepsInv` adds to the property that one runner holds the sandbox
  and that a driver at work is at the cursor.
- `NoAttemptIsLeft`, which the property states for behaviours without a fault. Its
  invariant `LeftBehind` says who closes each open attempt of a live task.

**Durable delivery** (`DeliveryAssumption`). `DeliveryInvariant` ties the epoch of what a
consumer commits to the lease (`EpochsReached`) and says that a consumer whose lease
counts is at a message nobody has acknowledged (`AtWorkUndone`);
`EffectsAreCommittedOnce`, `StaleConsumersAreFenced`, `OneHolder` and `DeadLettersRest`
follow. `GaugesForetell` compares the observer's SQL with the pump's guards in every
state and step. `PromiseKept` maps each step to one of `Mailbox`.

**The thread** (`SessionLogAssumption`, `LinkUsageAssumption`, `MachineSyncAssumption`;
`RequestsAreFinite` and `StepsOnlyTighten`). `LogInvariant` (`PagesFit`: what a page has
is a prefix of the log up to its place; `SyncsFine`: what a sync has read of
receipts) gives `PagesMissNothing` and `ReportsAreBookedOnce`. `ChargeInvariant` orders four
numbers nobody compares in the code: what is recorded, what the log's last entry says,
what the link knows, what is on the wire (`Charged`), and says when the first two agree
(`Complete`); `NobodyIsOvercharged` and `MissedIsInTheLog` follow. `ApprovalInvariant` says
that a future, a command and an answer in a handler's hands are those of a request with
the handler's number, and that a grant carries the task and kind of the request it came
from; `GrantsAreGiven` and `AcceptedByThemselves` follow. They hold for any number of
restarts of the app-server, each of which begins its numbers again: what was answered under
a number is kept by number (`Told`), never undone by a request that takes the number over.

**Web** (`LoginAssumption`, `CatalogAssumption`). `LoginInvariant`: a transaction that is
still in Redis has no callback past it, and what a cache holds was published when
it was fetched, at the latest `FetchTime` before it was stored; `OneExchange`,
`KeysAreCurrent`, `GoodKeysAreTaken` follow. `KeysAreCurrent` needs that a fetch takes less than
the keys live (`FetchTime < KeyTtl`: by default a timeout of 10 s against a cache of 300 s; the ranges
`config.py` accepts for the two settings would allow the contrary).
`CatalogInvariant` (a cached snapshot is of the manifest its name tells, and a pin
stays at the manifest of its tasks) gives `TasksKeepTheirManifest`; `LibraryInvariant` gives
`CitationsHold` and `WhatWasRemovedStaysSo`.

**Desk** (`DeskAssumption`). `PagesAreTrue` says that a page is true although each of its
reads sees another moment: for any number of steps, attempts, reworks and steps back, any
budget, and any commits between two reads. `PageIsTrue` speaks of a page that is complete
and of three unrelated things; `DeskInvariant` says what each commit of the driver keeps
of them.

- `StepsDone`: the steps before the cursor have a deliverable, and the last of their attempts was
  accepted. That a new attempt is of the step of the cursor (`AtLast`) keeps it, and
  that whoever has succeeded is past the last step and no longer driven
  (`SucceededRests`) makes it last: a page that has read such a row reads what there is for good.
- `UsedIsCovered` and `ReportsFit`: the row's total is at most what attempts have cost
  before the open one, and the reports after the latest start are at most what its own
  attempt costs. So the two, read at different moments, are at most what all
  attempts have cost by then; the mutant that leaves out the start adds a report to a
  total it is already in. The sum of the costs (`CostOf`) is a recursive function, and that
  it exists, steps and grows is proved by least counterexample (`SumExists`, `CostIsSum`,
  `CostSteps`, `CostGrows`, `CostRises`).
- `EndTold` and `ReasonsGiven`: a task that failed or was cancelled has its event, and such an
  event has a reason.
- `ReadsFit` and `PageFits`: the task is read first, nothing a page needs is left out, and
  the three parts above hold of the row that was read, not only of the row there is now.
  Commits keep this because attempts only grow and the log is only added to
  (`KeepsPages`: one lemma per commit of the driver, the person, the clock; `PageStays`).

TLC checked `DeskInv` on the instance of the run before it was proved.

**Conversations** (`ConversationsAssumption`). `ConversationInvariant` says that what a
request has checked still holds when it commits (`RequestsFine`), because no two
requests hold the lock of one conversation (`Apart`); `TurnsWriteOnlyAtWork`,
`EntriesAreWhole` and `OnlyIdleIsRemoved` follow.

**Pairing** (`ProvisioningAssumption`, `PairingAssumption`). `PairingInvariant` says for each
await of each operation what has been stored, registered and revoked so far, for
any number of failures; `ReplacedPairsDie` holds, as the property says, while no operation
has failed half way; `WhatFinishesIsUsable` and `TokensAreHandedOnce` need no such condition.

**Test runs** (`TestRunsAssumption`). `PassedRunsAreEarned` holds for any number of
conductors at one run, none of which locks it: a case's result is "passed" only after its
task has succeeded with a result that met what the case expects, which stays so (`Tables`), and what a conductor has read of that is
still true when it acts on it (`Placed`). `ClosedCasesAreStopped` holds while no two conductors have met at a run (`meetings = 0`), as the property
says; its invariant adds what a conductor that is alone relies on from one commit to the
next (`Sound`).

### What the proofs changed in the models

A proof that would not go through showed that a model was too strict or said less than
the code. Now

- `Ledger!AttemptMove` lets a turn end over budget whatever it cost: the driver decides on
  what it read, and the row may have been topped up since; `DriverOrTurnAsks` adds no
  guard on the task's state to the check of the transition in `OpenInteraction`, because a
  turn asks for whoever holds the wheel now;
- a runner handles a command under the lease row it holds itself (`Runner!Claims`), which is
  what the claim's query joins;
- `Conversations!InLine` is a set with an `Oldest`, as the query orders it;
- what the attempts of a desk's task have cost is a sum over their sequence (`CostOf`), where
  it was a fold over their set, which nothing could be proved about; two places that built
  the name of a phase out of another one name it (`AfterFailure`, `AfterVerdict`);
- assumptions name what was only true of the instances: that "none" is not a number
  (`LoginAssumption`, `LinkUsageAssumption`) and bounds are natural.

### Only model-checked

- What the folds of the models (`FoldSet`) add up to: the library's induction theorems take
  an operator as a parameter, which the installed provers cannot instantiate. No theorem
  depends on one: the sum over a step's attempts (`Desk!SpentOn`) is shown on a page and
  only `StepsAddUp` below looks at it. Where a proof needed the least or the greatest of a
  set, or a sum over a sequence, it gets them from the well-foundedness of the natural numbers
  (`WFMin`).
- Liveness: `StartedIsDriven`, `AnswerIsDelivered`, `EverySettled`, `EveryRunEnds`,
  `EveryPairingEnds`, `ReaderCatchesUp`. Neither properties under fairness nor facts about
  ENABLED can be proved.
- That the statements of the next section do not hold: TLC shows a behaviour for each.

<a name="not-kept"></a>
## What the code does not keep

Modelling also showed where the code keeps less than one might expect. Each such
expectation is stated in its module, after the properties that hold, and a
configuration names it beside the way it is broken. Every line of these files is
violated by itself: remove the others to see the behaviour. They are no runs of
`PROJECT.json`; the hazards there refer to them.

| configuration | stated | how it comes about |
|---|---|---|
| `MCLedger_gaps` | CancelIsRecorded, QueueHasAHead | the index refuses the next task and rolls the cancel back; a handover queues behind an expert that is just ending |
| `MCRunner_dies` | ResumedStepOpens, ExpiredIsAskedAgain, QueuedGoesOn, CancelEnds, DriveIsNotLost | the runner dies in a turn, while a task waits for an approval, while one is ready; a cancel just before a question; the first command of a task fails or dies with its process |
| `MCRunner_gaps` | WaitCanBeSettled, StopsAreOwn, QueuedHasDrive, CancelInterrupts, OneTurnPerProject, AnswerFindsItsTurn | a turn runs out of time under its question; a stop noted for another turn; a drive that arrives while the driver leaves; a cancel after an approval; a cancelled task's turn is still in flight when the next starts; an answer is handled between the commit of the question and its future, and the turn waits its hour |
| `MCRunner_over` | PassedStepsAccepted, OverBudgetStops | two drivers after a lapsed lease count one step twice; a turn that has asked ends over budget |
| `MCConversations_gaps` | ExpertWorksAlone, AskedInUsableProject | the user's own turn goes on under the expert; a project is archived as the expert is asked |
| `MCPairing_gaps` | CapacityKept, ReclaimedIsFree, StoredIsUsable | count and creation apart; a sandbox reclaimed under a pairing; death between revoking and storing |
| `MCThread_gaps` | OneRowPerName, RecordedIsNotRejected, UsageIsNeverMoreThanSpent | two reports create a machine; a recorded report is refused; the total of a thread is forgotten |
| | GrantStaysInItsDrive, AcceptedForThisRequest, PolicyIsForExperts, QuestionsWithinLimit, StopIsOfItsTurn, AnswerIsTaken | a recycled sandbox gives the number of an old request to a new one, whose handler takes the old answer; for the others see the comments there |
| `MCTestRuns_gaps` | PurgedIsGone, WithinMonth, SpentIsUsed, ResultStays | a task no row names; two submissions fit one remainder; a case given up is not charged; a result is written over |
| `MCWeb_gaps` | TabsStandApart, NewestStays | one tab's login replaces another's; a slow fetch puts older keys over newer ones |
| | TaskKeepsItsPack, WorkHasPack, DossierCitationHolds, DataForWorkOnly | a release changes between tasks; a built-in expert is replaced at work; a dossier is written anew under its version; a task ends while its data is read |
| `MCDesk_gaps` | BackIsBack, StepsAddUp, CostOfWaitShown, HeadIsCurrent, ReviewIsOfItsStep, ListedOnce, NowFollowsLog | a page is built from reads of different moments |

## Not modelled

- The journal of ledger entries: written beside the rows and never read by a transition.
- Authentication, authorisation, ownership checks: a call that fails them changes
  nothing.
- Contents: prompts, the text of deliverables, titles, wording, markdown.
- Delivery: handlers other than by their effect; the readiness probe and the
  registration of collectors. Three facts the model shows and no property forbids: a
  handled message may still be set aside by reconciliation's exhausted branch; attempts
  can exceed `MaxAttempts` when a claim runs out before reconciliation sees it; the
  gauge of publishable messages leaves out those done or at work, which the pump
  still publishes.
- Conversations: the inside of a task, and the commands that start threads and drivers,
  which are Runner's; the busy check of a handover is taken at its commit (Ledger has it
  as a step of its own).
- Pairing: tokens are signed ones (an issuer is configured); a pod that starts and one
  that is ready are one status; a listing and the write that follows it are one step;
  the rate limiter, the lookup of a code and the install credentials.
- Events: notes of missing data; links of two runners to one sandbox; a relay that is
  followed after the rounds of a run are over.
- Approvals: elicitation and announcement of a turn; reads of one handler are one
  step; an answer's row and its command are one step (Runner has the gap between them);
  the expert is handed the wheel again only after its last turn has ended.
- Test runs: whether a run's expectations are met is decided when its task ends; the
  purge runs only when no conductor is at the run.
- Login: one surface per run; the provider publishes only its signing key; a deployment
  ends handlers and empties caches; the metadata cache, the relation check of
  `relation_auth.py` and CSRF.
- Catalog: a knowbot has one version whose content knowmart might still change (the
  digest of the pin is there against that); a refused summon changes nothing. No code
  writes user drafts, so a dossier always has version 1.
- Desk: the task is driven by one driver; reservations are Ledger's, but for the reserve
  of one that a step needs to open under a limit; the note that an attempt runs is made
  with its turn; labels, consequences of options, data versions, records and packs.
- `packs.py` is data but for `find_pack`; `web_interaction.py` a fixed reply; the MCP
  tools, the command line and `bootstrap/` read or call what is modelled; evaluation
  is offline; `config.py` is settings.

## Plan

1. *Done*: `Ledger`, `Runner`, proofs of the type and wheel invariants and of the two
   about questions.
2. *Done*: `Mailbox`, `Delivery` and the refinement between them; `Conversations`,
   `Provisioning`, `Pairing`, `SessionLog`, `LinkUsage`, `MachineSync`, `TestRuns`, `Login`,
   `Approvals`, `Catalog`, `Library`, `Desk`.
3. *Done*: proofs of `ReservedIsHeld` and `EndedForGood`, of the refinement of the
   ledger by the runner, and of the runner's own three invariants.
4. *Done*: proofs about delivery and its refinement of `Mailbox`.
5. *Done*: proofs about login, catalog, library, the log and its charges, approvals,
   conversations, pairing and test runs.
6. *Done*: proof about the pages (desk).
7. Models: install credentials and the code's rate limiter; the relation check of a
   login; two links to one sandbox.
