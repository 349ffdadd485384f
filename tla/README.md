# A verification project for Fivvle

Fivvle takes a founder from an idea to a validated landing page: a chat refines the idea, a pipeline
researches it, a landing page is generated and published, visitors are counted, and an insight report
judges the response. Research, pages, insights and metrics cost credits. The backend (`src/backend/app`)
is a FastAPI service on one asyncio event loop per process, over PostgreSQL at READ COMMITTED; long work
runs as asyncio tasks of the same process. The frontend is a client of the HTTP API.

This directory holds TLA+ modules of the parts where order matters, TLC configurations that check them on
small instances, and proofs for every instance. `PROJECT.json` maps every definition to the lines it models.

    tlc -workers 2 -config MCCohorts.cfg MCCohorts
    tlapm CohortProofs.tla

## Inventory

| Component | State | Operations | What is hard | Correct when |
|---|---|---|---|---|
| Wallet, coupons, payments | `wallets`, `wallet_transactions`, `coupons`, `coupon_redemptions`, `payment_orders`, `processed_webhooks` | debit, refund, redeem, order, verify, administration of coupons | concurrent requests of one user, repeated verification, unlocked checks, rows that do not exist yet, row locks taken in different orders | the rows explain the balance; nothing is paid out twice; a redemption was allowed when it committed |
| Experiment lifecycle | `experiments.status`, refined idea, report, page, insight; registry of landing generations | chat turns, finalize, reset, confirm, rerun, landing page, publish, insight, archive, unarchive; three background jobs | reads without lock, a commit in the middle of a request, a job ending after the status moved, refused dispatches, crashes | the status never shows what is not there; every charge gets its work or comes back |
| Circuit breaker and retry | `_state`, `_consecutive_failures`, `_last_failure_time`, `_probe_in_flight` | admit, probe, reject, succeed, fail, cancel | answers in another order than the calls, cancellation during a probe | one probe, no leaked slot, recovery |
| Publish cohorts, visitors | `landing_pages.live_at`, `landing_page_publishes`, `page_views`, `waitlist_signups` | publish, republish, view, signup, unlock metrics, judge and report an insight | check-then-act on the open cohort, await between read and insert | one open cohort; every visit has one; metrics are paid once; an insight was earned |
| Universal chat | messages with parents and metadata, active leaf, `_active_turns`, events and subscribers of a turn | send, stream, edit, quiet turn, stop, subscribe, poll | a detached task with its own session, a response that comes late or goes, a turn started twice, overlapping turns, crashes | a stream is told all of its turn; a stop reaches the task that writes; no row claims to run for ever |
| Evidence and refinement chat | messages, active leaf, thread of the experiment, `refinement_idempotency`, bill of a stream | send, plain turn, stream, edit, retry, activate | the model is asked between a flush and the commit; a repeat during the call; a client that leaves | a turn is whole or absent; a key is answered once; nothing is hidden |
| Edited report, launch kit, decision | `edited_doc` and its version, launch kit and its version, decision and its version | patch, generate, rewrite one surface, research again | compare-and-swap in memory, with and without a row lock | no edit is lost silently |
| Versions and staleness, both landing generators | versions of idea and overlay, stamps of report and pages, status row and task registry of the second generator | finalize, reset, research, edit, generate | what was read long before it is stamped; the registry read after the status | what is not called stale is current; the status row settles |
| Research pipeline | transcript of a run in memory, report, rows of calls | plan, search, read, reflect in waves, re-read, voices, synthesise | merging and cutting what was read from, failures and commits between phases | citations resolve; what was spent is on record; the run ends |
| Calls and cost | rows of `llm_calls` and `external_api_calls`, lock of a session | complete, structured complete, search, look up; rollups | retries inside retries, parallel flushes on one session, a failed flush | the rows add up to the bill; the tables agree |
| Analytics, dashboards | none | sums over rows | arithmetic at zero and at limits | equal a reference definition |
| Authentication, uploads, tags, search, idea capture, frontend, migrations | per-request | I/O | none that needs a model | |

They interact through rows and through tasks. An endpoint of the lifecycle debits the wallet, moves the
status and creates a task; the task moves the status and, when it fails, refunds. The research task runs the
pipeline, whose phases make parallel calls; every call of a model or a service goes through a breaker and
leaves a row, which the cost tables add up. The chats write the message tree, the refinement chat also the idea.
The pages are made from idea, report and overlay and stamped with their versions. Publishing is a step of
the lifecycle and opens the first cohort. The cohorts gate insights, which are tasks of the lifecycle.

## Modules

| Module | Models | Theorems |
|---|---|---|
| `AccountLedger` | the promise of a wallet: balances move only with the rows that explain the move, and not below zero | |
| `WalletService` | `wallet_service.py`, `coupon_service.py`, `payment_service.py` | `WalletProofs` |
| `PaidWork` | the promise of a billed job: it is delivered, paid back, or lost in a crash, and only one of them | |
| `ExperimentLifecycle` | `routers/experiments.py`, the refine session, the dispatchers and the jobs | `LifecycleProofs` |
| `CircuitBreaker` | `circuit_breakers.py` under `retry.py` | `CallProofs` |
| `PublishCohorts` | `landing_page_publish_service.py`, `public.py`, `waitlist_service.py`, `insight_threshold.py` and their endpoints | `CohortProofs` |
| `ChatTree` | `chat_tree_service.py`: parents, branches, leaves; used by the two chat modules | |
| `UniversalTurn` | `universal_chat_service.py`, `universal_chat_turn_runtime.py` and their endpoints | `UniversalTurnProofs` |
| `ThreadChat` | `evidence_chat_service.py`, `chat_service.py` | `ThreadProofs` |
| `FounderEdits` | `validation_report_editor.py`, `launch_kit_service.py`, `founder_decision_service.py` | `PhaseVersionsProofs` |
| `PhaseVersions` | finalize and reset, `spark_version_service.py`, both landing page generators, the registry of the second | `PhaseVersionsProofs` |
| `ResearchPipeline` | `research_engine_service.py`, planner, searcher, reader, reflector, voices, synthesizer | `LifecycleProofs` |
| `CostRollup` | `cost/rollup.py` | `CallProofs` |
| `CallLedger` | `llm/client.py`, `tavily.py`, `reddit.py`, `trends.py`, `session_lock.py`; extends `CostRollup` | `CallProofs` |
| `SumTheorems` | nothing of the code: sums over finite sets, in any order | itself |
| `MCWallet`, `MCLifecycle`, `MCBreaker`, `MCCohorts`, `MCUniversalTurn`, `MCThreadChat`, `MCFounderEdits`, `MCPhaseVersions`, `MCResearchPipeline`, `MCCallLedger` | the values TLC uses | |

### WalletService

A session is one HTTP request. `lock` holds the row locks of `SELECT ... FOR UPDATE`; `snap` is the wallet row
a session has read; `pc` is where it is. A session reads under its lock, works on `snap` and writes `snap`
back at its commit (`DebitCredits`, `RefundCredits`, `RedeemCoupon`, `FulfillPayment`), so a lost update
would be a behaviour of the model if a lock were missing (the mutant `FindWalletUnlocked` shows it). A
missing wallet row is inserted by `InsertWallet`, which loses against a concurrent insert like the unique
index makes it. `CheckCoupon` and `CheckPayment` are the checks made before the final writes.

Coupons and orders are locked before the wallet by every request that locks them. The row of the experiment is not: a debit locks it first
(`LockExperiment`, experiments.py:279, in the endpoints of lines 690, 793, 913 and 2191) and then the wallet, while a refund locks the wallet and then touches
the experiment, by the foreign key of its ledger row and, in `_fail_insight_generation` (in_process_insight.py:78), by the status it writes; only the refund after a
refused insight dispatch (experiments.py:976) starts with the experiment. So a refund that has the wallet and a debit that has the experiment can wait for each other.
PostgreSQL finds such a cycle and fails one of the two (`WaitsFor`, `Victim`): that is what `EveryRequestEnds` rests on, and without `Victim` TLC
finds the two waiting for ever. The refused request may be the refund, and nothing tries again: the credits are not given back.
`OwnerOf` gives each experiment its user; experiments that are deleted while they are billed are left out.

Rows are taken to be loaded afresh when they are locked: SQLAlchemy's identity map keeps rows only weakly
and no caller holds a wallet across a commit. Administrators read coupons without lock and write under it,
one administrator at a time; two administrators overwriting each other is not modelled. `list_wallet_transactions`
only reads and is left out.

### ExperimentLifecycle

One project. `row` is the experiment with the existence of its children; `req` is where each request is and the
row it has read; `task` is the job of a request, `charge` its credits, `active` the registry of landing
generations. A request without row lock reads in one step and commits in another. SQLAlchemy writes only
columns that differ from what was loaded, which `Stored` says: a request that assigns the value it has read
leaves a newer one alone. `confirm` and `rerun` commit the debit, which gives the row lock up, before they
test and move the status. Jobs write the status whatever it is. `Crash` ends all requests and tasks. `MaxFaults`
bounds crashes and failures of failure handlers.

`RefuseResearch` and `RefuseLanding` follow the handlers of `DispatchError`, which the dispatchers in use never
raise: `http.py` would, but the factories refuse that mode at start-up. When the research dispatch is refused after RESEARCHING was committed, the
handler (experiments.py 749-766) refunds and leaves the status RESEARCHING, and later confirmations are answered
as running. That is why `BusyEnds` is checked with `MayRefuse = FALSE`.

Two overlaps the model has and no promise forbids: a regeneration of a live page, or a restore from the
archive, moves the status while an insight is generated, and a second insight can be charged. Each charge
has its job.

### CircuitBreaker

What `call` does before its `await` is one step and what it does with the answer another; the locks of the code are
`asyncio` locks on one event loop. `streak` is a history variable: the failures since a success. `healthy` is the
dependency: while it is healthy every call succeeds; an outage may begin at any moment and with calls under way, and during one
any end of a call is possible: a counted failure, an uncounted one, a cancellation or a success. `Prompt` says that calls end within the cooldown. It holds for Tavily,
Reddit, Trends and the other httpx clients (15 to 30 seconds against 60). It does not hold for the language model clients,
which are created without a timeout (llm/client.py 445, 453, 475).

### PublishCohorts

One landing page. Each request is one transaction. `PublishRead`, `RepublishRead` and `Visit` are the unlocked
selects; `PublishCommit` and `RepublishCommit` succeed only when the publish number is free, as the unique
constraint makes them, else the request rolls back (`Drop`). `lock` is the experiment row under FOR UPDATE
(`unlock_metrics`, `generate_insight`). PostgreSQL lets neither an update of the row nor an insert of a row
that refers to it pass that lock, so the steps that do either ask `Unlocked`; a republication touches neither
and passes. A signup looks its cohort up, waits for the geolocation service and inserts (`FindCohort`, `Record`):
it may land in a cohort closed in the meantime, never in none. `Elsewhere` stands for the endpoints and jobs of
ExperimentLifecycle, restricted to what is proved there (`ArtifactsBehindStatus`); the loss of an insight job in a
crash is modelled there. `days` counts full days to MinDays, of each row by itself.

A republication that read LANDING_LIVE before `generate_insight` took the lock commits after it: the paid
report is then about the new cohort, which has no visitors. `InsightOnData` says what does hold: the charged cohort
had earned the insight and the report is on it or on a later one. The stronger `report # 0 => Met(report)` is false.

### ChatTree and UniversalTurn

A thread is a sequence of rows in the order of their timestamps; a row that its transaction has not committed is not
`visible`. `ChatTree` holds the walks: the branch above a row, the leaf below it, the siblings.

In `UniversalTurn` a turn has a request (`req`), up to two runtimes (`body`, because the endpoint and then the generator of the
response both start it), the entry of `_active_turns` (`registry`) and a response (`stream`). `Open` and the `Commit...` actions are
the preparation of a turn; `Start` registers and launches the task; the actions of a body follow its loop: ask, write the
tool call, wait, write the result, answer, close. Between two awaits nothing else runs, so each action is what the code does
from one await to the next. `Stop`, `Fail` and `FallBack` are the ways out of the loop, `Crash` ends every request and task.
The status of a turn is kept in the metadata of a row (`mark`), `turn_status` in the code.

What it found: a body can run twice. `start_universal_turn` promises to be "idempotent per turn_id" (universal_chat_service.py:1054), but it is
called by the endpoint (routers, line 1682) and again by the generator (line 1121), and a task that has ended in between is not
found in the registry. Two overlapping turns overwrite each other's active leaf, so one conversation is hidden, and then tool
rows get siblings, which chat_message.py says they must not have. After a crash a row says "running" for ever. The properties
say exactly this: they hold unless turns overlapped (`overlapped`) or the last write of a turn was lost (`lost`), two history variables. A turn
that is sent without a stream can be torn (`HalfSent`), because its refine tool commits midway. Not modelled: the handler of a
cancellation (line 1643) commits what an interrupted tool had flushed.

### ThreadChat

Requests of one chat interleave at every await. `FlushUser` makes the user row, the model answers, `CommitReply` makes both rows
visible; when the model fails, a refinement turn stores an apology as its reply (`Apologize`) and any other turn is rolled back (`ModelFails`); `PrepareStream` commits the user row before a stream begins. The evidence thread is made by the first message, under the lock
its UPDATE takes (`claiming`). `AnswerStored` and `StoreKey` are the two ends of the idempotency key of a refinement turn, with
the model's answer between them. `raced` and `overlapped` are history variables.

What it found, apart from the overlaps the properties except: two first evidence messages make two threads and the later commit
replaces the pointer, although the column is "created on the first evidence-chat message" (`ThreadStays` is false); a stream whose client
leaves between the last token and the end can stay unbilled, although its docstring says that the call "is written on EVERY
terminal path" (`StreamsAreBilled` is false); activating a branch computes the leaf and sets it later, so a reply that lands in between is hidden.

### FounderEdits

A browser loads a document with its version (`loaded`), sends its edit, and the handler compares the version with a row it has read
(`writing`) and commits. The decision is read FOR UPDATE, so its second writer waits for `lock`; the report and the kit are not, so two edits
can both pass the comparison. `overtaken` records such a document, and the properties say that nothing else loses an edit. The pipeline may
replace the raw report below an overlay, which does not count as an edit; a report that was never edited and is researched
again accepts a patch of what its browser saw before (`rendered`).

The rewrite of one surface of the launch kit writes back the whole kit it read before it asked the model; an edit accepted meanwhile is lost without
a version to show it (`VariantKeepsOthers` is false; the endpoint says "Other surfaces and metadata are preserved").

### PhaseVersions

An actor is a finalize, a reset, a research run, an edit or a generation, and acts once. A text is the name of the actor that made
it, so "made from the current idea" is an equality. The generators read the report with its overlay and then the
idea in separate statements, ask the models, and stamp the page with the versions of what they read. `status` and `task` are the status row and
the registry of the second generator. `raced` records two finalizes between whose read and commit the other committed: then one
version number stands for two ideas (the row is read without a lock, refine_session_service.py:81) and no stamp can tell them apart.
`doubled` records that two tasks of the second generator lived at once: the status is read before the registry (landing_page_v2.py:69).

A task of the second generator holds the row it loaded (landing_page_v2_service.py:457; the session does not expire it at a commit), and SQLAlchemy writes only
the columns whose value differs from what the task saw. `BeginV2` does so for the status and `StampedOver` for the stamps (lines 430-438), while the first generator reads its row
just before it writes. What it found: when two tasks live at once, the older can save its own spec under the stamps of the newer, because its own equal the ones
it saw when it loaded the row. The page is then called fresh although it was made from an older idea or report. `FreshIsCurrent` says nothing of a page of the second generator
once its tasks doubled (`OwnStamps`); with `OwnStamps` always true TLC finds the case within the bounds of `phase_versions`, in 22 states.
The status row settles all the same (`V2Settles`), as far as the tasks got to say that they were generating: one that ends before (`created`, `loaded`) leaves the row as it was.
The insight is left out: it is stamped with the version found when it ends (insight_service.py:286-290), not with what it was made from.

### ResearchPipeline

One run from dispatch to verdict. Each phase is one step that takes any combination of answers: the tasks of a phase share nothing but
the session, and `CallLedger` opens that step up. Two commits with nothing but a log line between them are one step as well.
`given` is what the orchestrator holds, `current` what the reflector works on, `hits` the questions that were searched again. `Cut` is a crash, or a database error after
which no statement of the session succeeds; the failure handler does not roll back first, so the status stays in progress for ever.
The row of the experiment is assumed to exist. `expire_on_commit` is off, so a later select sees the idea the run began with.

What it found: when a question is searched again and the reading of it fails, the answer for failures, an output without evidence, replaces the evidence there was
(reflector_service.py:446), and a report can be synthesised from nothing (`NeverFromNothing` is false; ADR 0012 line 60 says
"The Synthesizer is never asked to synthesize from nothing.", the plan b3-reflector-phase.md line 209 "do not overwrite good prior output"). Keeping
the earlier evidence instead would not do: its pages may have been cut to `TopN`, and citations would not resolve. That is the mutant of `CitationsResolve`.

### CallLedger and CostRollup

A task makes calls in parallel on one session: `plain` completions, `structured` ones (Instructor asks again after an answer that does not parse, and the whole
attempt is retried), searches (a row for every attempt) and free lookups. One answer of a paid service costs one unit. `owed` is what the service has
billed, `used` what the next row will say; `SpendIsWritten` compares them over every retry. `Lock`, `Flush` and `FlushFails` are the row under
`session_lock`; a failed flush rolls the session back and loses the rows of all calls, and their own failures are swallowed, so that
they keep spending unlogged until the commit fails. `CostRollup` defines the cost tables as operators over the committed rows, each translated from its
query and merge, and `RollupsAgree` compares them with plain sums. Filters on time, labels and sort orders are left out.

Worth knowing, beside the properties: a cancelled call leaves no row, because `CancelledError` is no `Exception`, and a plain call with an unusable
answer leaves an empty one, where `.cursorrules` line 225 says "Every call MUST log to `LLMCall` table". The number of experiments of a user is the larger of two counts (rollup.py
about line 390), too small when the two tables name different experiments. `summarize_tavily_cost` with `since` can estimate a
gap for a report whose searches were logged before `since`. `ip_geolocation.py` lets a failed log of a failure escape although its docstring says
it never raises. Opening an Anthropic stream makes no network call, so the breaker records a success (client.py:865).

## Runs

| Run | Instance | States | Shows |
|---|---|---|---|
| `wallet_spend` | 2 users, 3 concurrent sessions (symmetric), 5 requests, a coupon, an order with 2 payments, one price, an experiment of each user; administrators create and delete | 777839 | `LedgerExplainsBalance`, `CountersAgree`, `OrderCreditedOnce`, refinement of `AccountLedger` |
| `wallet_ends` | 2 users, 2 sessions, 3 requests, WELCOME5 limited to 1, an order, debits and refunds of one experiment; administrators edit, archive, restore | 75339 | `RedemptionIsAllowed`, `CouponCreditedOnce`; `EveryRequestEnds` under fairness, with debits and refunds that block each other |
| `lifecycle_all` | 3 requests of any kind, refusals, 1 fault, from refined, researched and live projects | 126124 | `ArtifactsBehindStatus`, `ChargeSettled`, refinement of `PaidWork` |
| `lifecycle_ends` | 3 requests, no refusals or faults | 101062 | `BusyEnds`: every busy status is left |
| `breaker` | 3 callers, threshold 3, cooldown 2, 2 retries, prompt calls | 15382 | `OneProbe`, `SlotHeld`, `OpensAfterStreak`; `Recovers` under fairness |
| `cohorts` | 5 requests of any kind (symmetric), 2 views, 1 signup or 1 day earn an insight | 160568 | `OneOpenCohort`, `EveryVisitAttributed`, `MetricsPaidOnce`, `InsightOnData` |
| `universal_turn` | 2 turns: one streamed and watched, one edited, quiet or not streamed; 1 round of tools, 1 fault | 808207 | `StreamSeesItsTurn`, `RegistryIsTheLiveTask`, `RunningMeansAlive`, `PollTellsTheTruth`, `AloneIsLinear`; `EveryTurnEnds` under fairness |
| `thread_chat` | 3 requests of any kind on either chat, two with one key, 1 fault | 202039 | `WholeTurns`, `KeyedOnce`, `AloneNothingHidden` |
| `founder_edits` | 4 requests on any of 3 documents with 2 parts | 79760 | `EditsCounted`, `AcceptedAsSeen` |
| `phase_versions` | 5 actors, 1 fault | 99549 | `FreshIsCurrent`, `V2Settles`, `StaleStays` |
| `research` | 2 questions, 2 pages of which 1 is kept, 3 items, 2 waves of 1 question | 17900 | `CitationsResolve`, `SpendIsKept`; `ComesToAVerdict` under fairness |
| `calls` | three mixtures of 3 calls, 1 retry, 2 answers in an attempt, 1 database error, a cancellation | 215781 | `SpendIsWritten`, `OnlyFaultsBreak`, `RollupsAgree`; `EveryCallReturns` under fairness |

Every property has a mutant in `PROJECT.json`: a plausible bug in one definition with which the same run fails. The type invariants
are conjuncts of the proved inductive invariants.

### Bounds

Three sessions are enough for one to hold a lock
while two wait, one of which finds what the other has changed; two payments of one order are the least that
can be paid out twice; a debit and a refund of one experiment are the least that can block each other, and no longer cycle exists (see `Victim`); a limit of one redemption is contested by two users. In the lifecycle, three requests are
a job, a request that overtakes it and a third that acts on the result; more depth comes from starting at three stages
(`FromStages`) rather than from longer runs. The breaker needs a threshold above the number
of calls that can be late (3 with 3 callers), and a cooldown of 2 to tell a call that
began before the outage from one that began after. Five requests in `cohorts` allow a publication, two racing
republications and an insight with its visitor; MinViews of 2 tells counts of separate cohorts from their sum.

Two turns can overlap, and one turn can have two bodies; a third adds no new pair. One fault is a stop, a failure, a crash or a second body; two of
them in one turn are not explored by TLC, but the proofs have no such bound. A key needs a request, its repeat and one that
is neither. Four edits are two that race and two that act on what the race left. The five actors of `phase_versions` have roles that
allow a research run, two finalizes, an edit, and two generations at once (`MCRolesOf`). In `research` one page of two is kept, so a wave
can cut a page that was read; two waves can search one question twice or two questions; `Tolerance` of a half tells an extraction with
one invented URL of two from one with none. In `calls` two structured calls and a search can queue for the lock, and the other mixtures
bring in rows of either table without the other, rows without an experiment, and calls that cost nothing.
`MaxRequests`, `MaxFaults` and the sets of requests, turns, actors and calls are the only bounds on length.

Deadlock is not checked in the last six of these runs: when every request, turn, actor or call has acted the model has nothing left to do.

### What the code does not keep

Some sentences of the code or of its documents are false in the models. They are stated as properties and left out of the runs
above; a configuration, or the change that is named, shows each.

| Property | How to see it | What the code does |
|---|---|---|
| `ResearchStartsAllowed` (ExperimentLifecycle) | `MCLifecycleConfirm.cfg` | the debit's commit releases the row; two confirmations both start research |
| `VariantKeepsOthers` (FounderEdits) | `MCFounderEditsVariant.cfg` | the rewrite of a surface overwrites an edit made meanwhile |
| `NeverFromNothing` (ResearchPipeline) | `MCResearchReread.cfg` | a failed second reading erases the evidence of the first |
| `RedemptionHistoryKept` (WalletService) | as a PROPERTY in `MCWalletSpend.cfg` | the count of redemptions before a delete takes no lock; a redemption in between is deleted by the cascade |
| `ArchivedIsTerminal` (ExperimentLifecycle) | as a PROPERTY in `MCLifecycleAll.cfg` | a landing page job that ends late takes the project out of the archive |
| `DraftCanBePublished` (ExperimentLifecycle) | as an INVARIANT in `MCLifecycleAll.cfg` | an archived live project comes back as a draft that can be neither published nor republished |
| `ReportHasIdea` (ExperimentLifecycle) | as an INVARIANT in `MCLifecycleAll.cfg` | a reset during research leaves a report without its idea |
| `OneProbe` (CircuitBreaker) | `Prompt = FALSE` in `MCBreaker.cfg` | with calls longer than the cooldown, a half-open breaker sends a second probe |
| `StreamsAreBilled` (ThreadChat) | as an INVARIANT in `MCThreadChat.cfg` | a client that leaves while the reply is persisted leaves the stream unbilled |
| `ThreadStays` (ThreadChat) | as a PROPERTY in `MCThreadChat.cfg` | two first messages make two threads, the later pointer stays |
| `FreshIsCurrent` with `OwnStamps` always true (PhaseVersions) | `OwnStamps(g) == TRUE` in `PhaseVersions` | of two tasks of the second generator the older leaves the newer's stamps on its page |
| `EveryRequestEnds` without the deadlock detector (WalletService) | without `Victim` in `Work` | a debit holds the experiment and waits for the wallet, a refund the other way round |
| `EveryEditCounts` (FounderEdits) | as an INVARIANT in `MCFounderEdits.cfg` | two edits that overlap are both accepted under one version |

## Fairness

* Wallet (`FairSpec`): strong fairness of a session's steps. A waiting session is enabled whenever the row is free;
  PostgreSQL queues waiters for a row, so a session is not overtaken for ever, and fails one of two that wait for each other (`Victim`, after `deadlock_timeout`). Nothing is assumed about arrivals or administrators.
* Lifecycle: weak fairness of dispatching and of each task's steps. The event loop runs every ready task, and calls of
  models and services end, by an answer or a timeout.
* Breaker: weak fairness of starting, answering and the clock (there is traffic, calls end, time passes) and
  strong fairness of entering (not every caller is cancelled while it sleeps). `Recovers` asks only about executions in which the
  dependency is well from some point on.
* Universal turns: weak fairness of the handler that has begun, of the subscription of a response and of each body. The loop runs every ready
  task; nothing is assumed about new requests, stops or disconnections.
* Research: weak fairness of the pipeline's steps. Calls: weak fairness of each call. Both say that services answer or time out and that the
  loop runs every ready task; the lock needs no more, since its holder is one of the calls.
* Cohorts, thread chats, founder edits, versions: safety only. Requests may stop anywhere.

## Proofs

Each component has an inductive invariant, one lemma for each action, and theorems taken from it. The assumptions are
the named assumptions on the constants, which TLC evaluates on every run, and those a theorem states for itself, named below.
Three proof modules hold a second component beside the first; those components (`CircuitBreaker`, `FounderEdits`, `ResearchPipeline`) have names of
their own for what every specification has (`BreakerInit`, `EditNext`, `PipelineSpec`), so that one module can extend both.

* `SumTheorems`, for any finite set. A sum over a set is a recursive function in the community modules; here it is shown to be a number, to depend on
  nothing but the values in the set, to grow by the value of an element that is added, and to be split by any key
  (`SumByKey`). The provers cannot use the library's induction rules, which take a predicate as a parameter; the induction is
  written out as the choice of a least counterexample, by well-founded order (`LeastNat`, `SmallestSubset`).
* `WalletProofs`, for any users, coupons and orders and any finite number of sessions (`FinitePool`: a server has finitely many requests open). `WalletInv` adds to the types what a session at each place was asked
  for and that one about to write holds the lock and has read the current row (`ReadsAreCurrent`): without
  it a write could be based on any old balance. From it follow the refinement of `AccountLedger` and, with
  the uniqueness of processed payments, `PaymentCreditedOnce`. The types include that no balance is negative.
  `CouponsAreHeld` says that from the check to the commit a redemption holds the row of its coupon and what it checked still holds: it gives
  `RedemptionIsAllowed`. `CreditIsRedeemed`, every coupon row of a ledger has its redemption, gives `CouponCreditedOnce`, for administrators who do not
  delete coupons (a deletion takes the redemptions with it). `OrdersAreHeld`, the same for orders, and `PacksMatch`, every pack is the payment of a paid order of the
  same user and every paid order has its pack, give `OrderCreditedOnce`, where a signature verifies for one order only (`OnePaymentOneOrder`).
  `LedgerExplainsBalance` needs that a write adds to the ledger exactly what it adds to the balance it has read, which is current. `CountersAgree` is not
  inductive: `refund_credits` subtracts from the consumed credits but not below zero, and if that floor were ever used the counters would part.
  `CountersKept` adds that the refunds still to be paid to a user (`Owed`, a sum over the sessions) are at most what was consumed.
* `LifecycleProofs`, for any number of requests and faults. `LifecycleInv` strengthens `ArtifactsBehindStatus` by what a
  running request or job has read and still relies on: a job's last status write is safe because the child it
  announces is there, and children are never removed. `PurchaseInv` relates the charge to the place of request and task; it gives
  `ChargeSettled` and, with a case for each action, the refinement of `PaidWork`.
* `ResearchPipeline`, in the second part of `LifecycleProofs`, for any questions, pages, items, caps and waves. `PipelineInv` adds `WithinTopN`, so that merging and cutting a question without new pages
  changes nothing, and `StaleOnlyInHits`: between a search and the reading, only questions about to be read again may
  quote pages that were cut. `VerdictIsLast` and `NothingYet` give `AllOrNothing` and `SpendIsKept`.
* `CohortProofs`, for any requests and thresholds. `CohortInv` adds `RequestInv`: what a request on its way has found or
  holds. `OneOpenCohort` needs it in the strong form, numbers 1, 2, 3, ... and the last row open:
  then a free number is exactly the proof that nobody has republished since the cohort was read.
  `MetricsPaidOnce` rests on the lock held from the question to the debit.
* `UniversalTurnProofs`, for any turns, tools, rounds and faults. `TurnInv` adds `InRange` (rows a turn points at exist), `OneAfterTheOther` (a second body begins only
  after its response, and a response only after the request) and `StatusKept`: a row that says "running" is the status row of a turn that
  still has a writer for its end. `RunningMeansAlive` alone is not inductive, since a busy turn could be one that is past its last write.
  `AloneInv` is what the turns find while they do not overlap. `OneAtATime`: the row a request has read is still the leaf, or the parent of the
  message it edits, and the chain of a body is the leaf. `OneBranch` gives `AloneIsLinear`; it has to count the rows of a non-streamed turn that are not
  committed yet (`Kept`), since `AloneIsLinear` looks at visible rows and such a turn shows many at once. It also has to survive the rows that stay uncommitted for ever
  (`Torn`), those of a turn whose refine tool committed a part of it before the rest was rolled back. `StatusStands`, the status row of a turn that will write its end says so and is on the branch above the
  leaf, gives `PollTellsTheTruth`, with `StatusKept` for "of no other". That a branch keeps its rows while the thread grows is shown of the recursive walk
  (`ClimbsTo`, `ClimbSame`) by a least-row argument.
* `ThreadProofs`, for any requests, keys and faults. `ThreadInv` adds `PointsBack`, parents are older than their children; `Staged`, which rows carry the name of a
  request at each place; `OneQuestion`; `Keys`, why a key that was taken is stored or raced; and `OneAtATime`, what a request that is alone knows of the
  thread it will write. `WholeTurns` rests on `Staged`: a request that is asking has flushed its own row and no other. `KeyedOnce` needs
  `Keys` for requests that have committed as well as for those in flight, because the answer is committed before the key is stored. `AloneNothingHidden` needs that the leaf below a
  row has no children, shown of the recursive walk by a largest-row argument.
* `CallProofs`, for any finite set of calls, any mixture of kinds, retries, answers and faults. `CallInv` adds `OneWriter`, a flush is under the lock, which gives `OnlyFaultsBreak`; `Numbered`, the next row of a call is one that is not
  there yet, so that adding it adds its cost; `Counted`, what the next row will say is what is still unwritten; and `Written`, the rows before the
  last one cost nothing. `Counted` is where the retries are: a search that is going to try again has used nothing, an
  attempt of a structured call carries what the earlier attempts used. `RollupsAgree` is a theorem about the tables alone, by sums over keys, from
  the fact that a row comes from one of the two tables (`CallAssumption`: every call writes to `llm_calls` or to `external_api_calls`).
* `CircuitBreaker`, in the second part of `CallProofs`, for any callers, threshold, cooldown and retries. `SlotHeld` is proved without assumption on the length of calls.
  `OneProbe` and `OpensAfterStreak` assume `Prompt`; their strengthening `PromptInv` says that no call is
  under way once an open breaker has cooled down, so the next probe is alone and nothing late can answer.
* `PhaseVersionsProofs`, for any actors and faults. `PhaseInv` adds `IdeasKnown`, a version stands for one idea in every stamp a job put on its own page and in the hands of every job,
  `OverlaysKnown`, no stamp is ahead of the overlay and such a stamp is that of the overlay the page was made from, `StampsSeen`, a task of the second generator that is alone sees
  the stamps the row has (so the ones it does not write are right), and `StatusKept`, who owns the status row of the second generator.
* `FounderEdits`, in the second part of `PhaseVersionsProofs`, for any requests and parts. `EditInv` adds `Standing`: a request that has read a document not overtaken has read its current
  version, and a version met again under a browser still has the text it loaded. It is what the comparison of versions relies on.

Model-checked only: all liveness (`EveryRequestEnds`, `BusyEnds`, `Recovers`, `EveryTurnEnds`, `ComesToAVerdict`, `EveryCallReturns`), which the prover does not
handle under fairness. Every other property of the runs is a theorem.

## Not modelled

The content of what models write, prompts, schemas, scores, copy and palettes, which are most of the lines of the backend: they decide what a text says, not what the
system does with it. Authentication, uploads, tags, search, layouts and the capture of ideas work on one row in one request. Analytics and the statistics of the rollup are arithmetic
that is read and shown. Rate limits are a library's; out-of-process dispatch cannot be enabled (the factories refuse the mode at start-up);
the frontend appears as the requests it repeats. Renaming, slugs and deletion of experiments touch neither status nor credits. In `in_process_insight.py:75` the task is not kept
referenced, so the garbage collector could drop it; its loss is a crash of that task alone, which the
lifecycle model does not separate from a crash of the process. Feedback on messages, the atoms and the analysis of the evidence chat and the opener of the refinement chat
write one row without interaction.

## Plan

Done, in the order of importance: wallet, lifecycle, breaker, cohorts; universal turns, thread chats, founder edits, versions, research, calls and cost, with
proofs for all of them. Next:

1. Analytics and the statistics of the rollup as operators against reference definitions.
2. The refine tool of a universal turn composed with the refinement chat: a cancellation that commits half of a turn.
