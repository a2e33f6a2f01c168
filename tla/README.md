# Verification of the security agent backend

TLA+ models of `backend/src/security_agent`, the configurations TLC checks them
with, and proofs for TLAPS. Paths below are relative to that directory unless they
start with `docs/`, `config/` or `backend/`.

## The system

The backend answers questions about security equipment (cameras, alarms,
pictures). A request with a high-risk word in it (restart, delete, upgrade, ...)
is not carried out but turned into a *review*, which a human approves or
rejects and a client then resumes. Everything runs as coroutines of one asyncio
event loop; the stores are one object in memory today, behind protocols that are
all `async`, and a Redis session store is implemented beside it.

| component | state | operations | made correct by |
|---|---|---|---|
| review API, `InterruptManager` (`api/reviews.py`, `harness/interrupts.py`) | none of its own: the local variables of each call | approve, reject, resume; pause | one verdict, consumed once, told truly, never stuck |
| chat API, `SecurityAgentService` (`api/chat.py`, `harness/service.py`, `harness/factory.py`) | local variables of each call | chat: the five components below in turn | every chat answered, in its own thread |
| `RequestPipeline` | - | `upsert_thread`, save the user's message | the thread before everything that names it |
| `IntentRouter` | - | `route` | routes the docs promise |
| `ContextAssembler` | - | load the session, list the messages | - |
| `AgentRuntime`, `HandoffService`, `RiskGate` (`harness/runtime.py`, `handoff.py`, `risk.py`) | - | plan tools, hand off, run the plan, close the handoff | a high-risk message is reviewed and nothing else; a chat that is served closes its handoff |
| `ResponsePersister` | - | save the answer and the session | the session agrees with the transcript |
| tools, `ToolRegistry` (`tools/`) | - | eight tools | tasks and reviews only where allowed |
| `SubAgentRegistry` (`agents/registry.py`, `config/agents.yaml`) | the configuration | load, validate, look up | a service that starts can serve its agents |
| `InMemoryStores` (`stores/memory.py`) | threads, messages, tasks, reviews, handoffs, sessions | one method per operation | checks and writes of one method stand together |
| `RedisSessionStore` (`stores/redis/session.py`) | a hash and a time to live per thread | load, save (HSET, EXPIRE), append_fact | no key without a time to live, no fact lost |
| the process (`app.py`, `config.py`, `stores/factory.py`, `harness/factory.py`) | the settings, the cached service and stores | start, build the service, be killed | what outlives the process stays consistent with what does not |
| skills (`agents/skills.py`) | the files of a directory | load, select | a service is built from skills that load, or not at all |
| readiness (`services/readiness.py`, `api/health.py`) | - | `/ready`, `/health` | ready means able to answer |
| PostgreSQL schema | the tables' foreign keys | - | rows in an order the keys accept |
| Milvus initialisation, adapters, read-only endpoints | - | read-only, or called by nothing | - |

How they interact: `chat` calls its components in turn, each awaiting stores;
the tool `request_human_review` calls `pause_for_review`; the review handlers
change the same reviews, messages and sessions between any two suspensions of a
chat. What is hard is all of that kind: what was read before an await and used
after it, two decisions or two resumptions of one review, a failure between two
store calls, a kill between two of them, a session that points at a review somebody else
has consumed or that is gone. The
hazards, each at its line, are listed in `PROJECT.json` with the properties that
would catch them.

## Modules

`ReviewLifecycle` is the abstract specification; the others are composed by
EXTENDS from the bottom up:

    EventLoop  Records  AgentPolicy
         \        |        /
            SessionStore      ReviewStore (over Records)
             /         \         /
      SessionFacts   InterruptManager
             \         /     |
               Harness   MCInterruptManager
              /       \
       Deployed       Backend
           |             |
       MCHarness     MCBackend        (both with MCPolicy)

and so are the proofs, each beside the module it is about:

    InterruptManager_proofs
         |            \
    ReviewLifecycle_proofs   Harness_proofs
              \              /           \
               \    Deployed_proofs    Backend_proofs
                \                       /
                 HarnessLifecycle_proofs

- **EventLoop**: which coroutine may run. A coroutine keeps the loop until it
  awaits a store that really suspends; `Suspends` says which do. `{}` is the wiring
  of `harness/factory.py`: awaiting a method of `InMemoryStores` never lets anything
  else run, so each handler runs to its end. `{"sessions"}` is `RedisSessionStore`
  with everything else in memory. `{"records", "sessions"}` is any implementation of
  `stores/protocols.py`. One action is the part of a handler between two awaits.
- **Records**: identifiers and records. A text is its author (the call that wrote
  it) and whether `RiskGate` finds a keyword in it.
- **ReviewStore**: the reviews and the check each operation makes. `new_id` gives a
  `Fresh` identifier, one that has never been used: the status `lost`, which only a
  restart gives, keeps the identifiers of reviews that are gone from coming back.
- **SessionStore**: the memory of each thread, `[review, facts, agent]` for
  `active_review_id`, `important_facts` and `active_agent`, and the life of the key.
  A save writes the whole record, so that whoever saves a copy loaded earlier
  overwrites all of it.
- **SessionFacts**: `append_fact`: load, append, save. `append[a]` is one call; a fact
  is told by the call that appended it.
- **InterruptManager**: decide, resume and pause. `resume[p]` holds where call `p` of
  `resume_after_review` is and the local `decision`; `messages` is the transcript
  of all threads. One action per awaited call, in the order of the code, and one for
  a call that raises.
- **ReviewLifecycle**: a review is opened, decided once, carried out once, answered
  once. The state machine of docs/07 without `resumed`, in which a review still stands as
  its human has decided, and without `expired`, which no code assigns.
- **AgentPolicy**: pure definitions: routing, allowed tools, validation, tool plan.
- **Harness**: `chat` from its receipt to its answer, beside the review handlers and
  over the same stores. `chat[c]` holds the call's place and its local variables (the
  memory it has loaded, the message it takes for its own, the tools to run, the
  review it has opened).
- **Backend**: the life of the process around `Harness`. `config` is `NoService` until
  the first chat builds the service (`ServeFirstChat`) or fails to (`RefuseChat`).
  `agents.yaml` and the skills are not variables: anybody may edit them at any time,
  so what a build reads is any of the contents in `Configurations` and `SkillDirs`.
  `Restart` kills the process at any await and starts another: calls in flight end
  without a reply (`CutOff`), the service is to be built again, the settings are read
  again, and the stores that are not in `Suspends` start empty, as
  `InMemoryStores` do (their reviews and handoffs are `lost`); those that are in it
  are servers of their own and keep what they have.
- **Deployed**: today's wiring, `Harness` with `Suspends = {}`. It adds no action: it
  states what holds because calls are then served one after the other, as the
  inductive invariant `DeployedInv`.
- **MCPolicy**: `agents.yaml`, the sample configuration of docs/04 and mistaken ones,
  utterances.
- **MCInterruptManager, MCHarness, MCBackend**: what TLC needs besides: symmetry,
  contents of the skills directory, settings.
- **InterruptManager_proofs, Harness_proofs, Backend_proofs, Deployed_proofs**: of
  each module the inductive invariant and what follows from it.
- **ReviewLifecycle_proofs, HarnessLifecycle_proofs**: the refinement of
  `ReviewLifecycle` by the review handlers alone and by the whole backend.

Definitions that describe a bug the code could have (their comment says so) are used
by nothing in the specifications: each is put in the place of the definition it
follows to see that a property notices (`PROJECT.json`, "mutants").

## Runs

| run | configuration | question | what holds |
|---|---|---|---|
| `im_async` | `InterruptManager_async` | all stores suspend, any call may raise; 2 deciders, 2 resumers, 2 pausers, 2 reviews, 2 threads | `VerdictStands`, `ConsumedOnce`, `FinishNeverRefused`, `AnswersMatchVerdict`, `TypeOK`, the inductive invariant `IInv`, and the refinement `ImplementsLifecycle` |
| `deployed` | `Harness_deployed` | today's wiring; 3 chats, 2 deciders, 1 resumer, 1 appender, 2 threads | `GateJudgesOwnMessage`, `SessionAgreesWithTranscript`, `QuietSessionPointsAtOpenReview`, `UserMessageAnswered`, `FactsKept`, `HarnessTypeOK`, the inductive invariant `DeployedInv` |
| `configurations` | `Backend_config` | sessions in Redis, whose calls may raise, one restart; six contents of agents.yaml, four of them mistaken, five of the skills directory, three of them mistaken; 2 chats, 2 deciders, 1 resumer | `StartedServiceServesItsAgents`, `VerdictStands`, `SessionPointsIntoItsThread`, `OnlyFailureLosesLifetime`, `BackendTypeOK` |
| `async_stores` | `Backend_async` | all stores are servers, any call of a record store and any tool may raise, sessions expire, one restart; 2 chats, a decision and a resumption in 2 threads | `ForeignKeysHold`, `ReviewQuotesTranscript`, `HandoffClosed`, `OnlyFailureAbandons`, the refinement `ImplementsLifecycle`, the inductive invariant `HarnessInv` |
| `faults` | `Harness_faults` | all stores suspend, the session store may raise at any call, sessions expire; `agents.yaml` or the sample of docs/04; a chat, 2 resumers and an appender on one thread; fairness | `CallsAreAnswered`, `ConsumedReviewFinishes`, the refinement `ImplementsLifecycle` |

Seven more runs each end in a violation, a disagreement between the code and its
docs or tests:

| run | property | what TLC shows |
|---|---|---|
| `two_reviews` | `OpenReviewIsActive` | two high-risk messages open two reviews in one thread; resuming the first clears the active review, the second stays pending (`harness/interrupts.py:114`; docs/03) |
| `redis_gate` | `HighRiskWaitsForHuman` | with sessions in Redis, the gate judges a message another request saved in between, and a high-risk request goes through (`harness/runtime.py:220`; docs/00 section 6) |
| `redis_pointer` | `QuietSessionPointsAtOpenReview` | with sessions in Redis, `persist` saves a pointer that a resumption has meanwhile cleared (`harness/persistence.py:38`) |
| `sample_gate` | `HighRiskWaitsForHuman` | an agent configured without `request_human_review`, as in docs/04, answers a high-risk message with no review (`harness/runtime.py:188`) |
| `routing` | `ConnectionQuestionGoesToResearcher` | the question of docs/10 section 2.3 goes to the troubleshooter (`harness/intent.py:30`) |
| `crash_resume` | `ConsumedReviewIsCarriedOut` | with records that outlive the process, a kill between `mark_resumed` and `finish_review` leaves a review in `resumed` for ever (`harness/interrupts.py:76`; docs/03 section 5) |
| `unready` | `ReadyServiceServes` | `/ready` answers 200 while every chat is refused for a mistaken `agents.yaml` or skill (`services/readiness.py:20`; docs/09 section 3, docs/10) |

Each has the name of its configuration without `Harness_` or `Backend_`.

The sample of docs/04 leaves out the descriptions `SubAgentSpec` requires; the runs
complete it with them. That sample has no `main-agent` either, so a general message is
saved and never answered (`harness/runtime.py:152`): `StartedServiceServesItsAgents`
allows for it, and `UserMessageAnswered` is checked of `config/agents.yaml`. The two
Redis findings concern a wiring that is implemented and planned but not made yet:
in today's wiring (`deployed`) `GateJudgesOwnMessage` and
`QuietSessionPointsAtOpenReview` hold. `crash_resume` concerns record stores that
outlive the process, for which the protocols and `schema.sql` are there and the
stores are not; today a killed process loses its reviews with everything else.

Four consequences of the code are allowed for by a property rather than listed as
findings, since nothing in the docs or tests promises otherwise. After a restart a
session kept in Redis may point at a review that is gone with the process
(`SessionPointsIntoItsThread`). A tool, a record store or `complete_handoff` that raises
ends a chat with a 500 and leaves its handoff "created", as `invoke` has no `finally`
(`HandoffClosed`, `OnlyFailureAbandons`); today's tools and stores are local and raise
nothing. An EXPIRE that raises leaves a session without a time to live, as a kill does
(`OnlyFailureLosesLifetime`). And `append_fact` beside a chat loses one of the two writes once the session store
suspends: `FactsKept` is checked of today's wiring, where it holds.

### Bounds

Two is the least number of calls, reviews and threads that can race, be confused
or overwrite each other, and every property is about at most two of each; three chats
are there where a session is written, read and written again. `deployed` has one
resumer: without suspensions a second resumption finds the review as the first has left
it, which `im_async` and `faults`, where two of them race, check with more. Identifiers are
interchangeable, so the runs use symmetry, all but `faults`, which has liveness
properties. That run has one chat, two resumptions and an appender on one thread and
one review, so that the failures of every call of the session store, an agent that
is not configured, the race of the two resumptions, the loop over the tools and the
expiry of the session all happen within reach. One restart (`MaxRestarts`) is enough for what a crash can break:
each property relates what one process left behind to what the next one does, and
what a second restart finds is of the same kind. `unready` has none; it needs none.
Each element of `Decider`, `Resumer`, `Pauser`, `Appender` and `Chat` makes one
call, and the identifiers of reviews run out, so every run stops in the end:
`CHECK_DEADLOCK FALSE`. For the same reason a chat needs as many reviews as there
are chats; every run of `Harness` has them. `Pauser` is empty in the runs of
`Harness` and `Backend`, where chats are the only callers of `pause_for_review`;
`Appender` is empty where a run is not about facts, as nothing calls `append_fact` yet.
`Sayable` has the messages that take a chat through the steps a run is about: a
high-risk and a harmless one, for an agent with a handoff and for one without.

### Failures

`SessionsFail` lets every call of the session store raise, `RecordsFail` every call of
the other stores and every tool; only a store that is a server of its own does
(`EventLoopAssumption`). Nothing in the handlers catches such an exception, so the call
is answered 500 where it stands and keeps what it has done: a resumption at any of
`get_review`, `mark_resumed`, `finish_review`, `add_message` and the session
(`ResumeGetFails`, `ResumeRecordFails`, `ResumeSessionFails`), a chat at any of its calls
(`ReceiveFails`, `ChatRecordFails`, `ChatSessionFails`), also between two of the three
tasks a tool creates (`TodosCutShort`), and a decision (`DecideFails`).

A call that raises has done nothing. One that is carried out though its reply is lost
leaves what the call and a failure of the next one leave: a lost reply of `mark_resumed`
is a `finish_review` that raises, one of `create_handoff` a first tool that does, one of
HSET an EXPIRE that does, and so on to the end of each handler. One last call is
different: a verdict that is recorded though its client was answered 500 would be
carried out without having been acknowledged. That is left out, since the properties
about verdicts are about what a client was told. A session expires at any time, also in
the middle of a call.

Session and record stores fail together in `im_async`; chats meet failing sessions in
`configurations` and `faults` and failing records and tools in `async_stores`, and the
theorems hold for both at once. A run with failing record stores cannot have the liveness properties of `faults`: what
becomes of a review then is what `OnlyFailureAbandons` says.

### Fairness

`FairSpec` and `HarnessFairSpec` assume weak fairness of each call's steps once it
has been received: asyncio runs every coroutine that is ready in turn. Nothing is
assumed of clients, who need not decide or resume anything, or of expiry. A store
call that has been made returns or raises. In `faults` that of the session store may raise, so
`CallsAreAnswered` there means an answer or an error reply, while
`ConsumedReviewFinishes` asks for the answer in the transcript whenever the session store
fails.
`Backend` is checked for safety only: a process that may be killed at any time
promises no answer.

## Proofs

The proof modules prove every safety property the passing runs check, for every set
of calls, reviews and threads; only liveness stays with TLC. Unless a hypothesis is
named below, a theorem also holds for every `Suspends`, every configuration, and
whether calls fail or not.

The assumptions are those the modules name: `RecordsAssumption`,
`InterruptManagerAssumption`, `SessionFactsAssumption`, `HarnessAssumption`,
`BackendAssumption` (identifiers that stand for "none" are no identifiers; calls are
authors of texts, and calls of different kinds are different calls; messages are ones
the router distinguishes) and `EventLoopAssumption` (only stores suspend; records that
are on a server have sessions on one; only a server fails). TLC evaluates each of them in
the runs.

### The review handlers

`Invariance` (`Spec => []IInv`), and from it `TypeCorrect`, `VerdictsStand`,
`ConsumptionIsExclusive`, `FinishIsNeverRefused` and `AnswersAreTrue`.

None of the properties is inductive. `AnswersMatchVerdict` says what a message was
written from, the record and the acknowledgement, but what it is written from is
the local `decision` of a resume call that was read three awaits before. `IInv`
therefore adds what each call knows of its review at each place
(`ResumerInv`): between get_review and mark_resumed the local decision is
acknowledged though the review may have moved on; from mark_resumed to finish_review
the review is `resumed`, and only this call's (`ConsumedOnce`); from finish_review to
add_message the review has the final status of the decision and no message tells of
it yet. `ReviewInv` says that a review whose status is a decision was acknowledged
with that decision, which is where the local comes from. The proof has one lemma per
action, with one step per conjunct; steps that change neither reviews nor messages
share `ResumerMovesOn` and `PauserMovesOn`. What is saved is a memory loaded from the
store with its pointer changed: `MemoryTyped` and `ResumeLoadedTyped` give its type.

### The life of a review

`LifecycleImplemented` (`Spec => ImplementsLifecycle`) and
`BackendImplementsLifecycle` (`HarnessSpec => ImplementsLifecycle`).

The refinement leaves a `resumed` review as its human has decided it, which the
acknowledgement still tells after the record was overwritten (`OutcomeOf`): mark_resumed
stutters, and the abstract step is taken by finish_review. A review that a kill or a
failing finish_review strands in `resumed` therefore stays decided and is never
answered, which the abstract specification allows, as it promises no progress. That the
step of finish_review is the abstract one needs more than the step itself shows.
The local decision of the call is the acknowledged one, and at most one is
(`VerdictStands`); no other call is carrying the same review out (`ConsumedOnce`); and what
add_message tells has not been told before (`ResumerInv`). A step that touches no review
and no message, and adds no acknowledgement, maps to a stutter.

In the whole backend, the steps of the review handlers are the same, and need the same
invariant of states that chats have had a hand in. A chat's own steps either open a
review, as `pause` does, or write messages that tell of none (`PlainMessageStutters`).
`LifecycleOutlivesProcesses` (`BackendSpec => ImplementsLifecycle`, with
`"records" \in Suspends`) adds restarts: one that leaves the records alone stutters. Where
the records are in memory a restart takes the reviews with it, and nothing of their
life is left to implement.

### The whole backend

`HarnessInvariance` (`HarnessSpec => []HarnessInv`), and from it `HarnessTypeCorrect`,
`ForeignKeysAreHeld`, `ReviewsQuoteTheirThread`, `HandoffsAreClosed` and
`BackendAnswersAreTrue`. `PlannedToolsAreAllowed` is about the plan alone: the validated
configuration has made the check that `invoke` repeats before each tool.

`ReviewQuotesTranscript` relates a review to a message that was listed some awaits
before the tool that opened it, and `HandoffClosed` an answer to a handoff made before
the tools ran: closed if the chat was served, and also if it failed where only the
session store can; where tools and record stores raise, a failed chat may have left it
open, but none is closed as what has not happened. `TranscriptInv` and `HandoffInv` say
what a chat knows in between. Most steps of other calls only add: `RecordsGrow` states what they leave true, that rows stay,
the transcript grows at its end and an opened review keeps its thread and its text, and
one lemma carries what a chat knows over any such step. `IInv` is proved again over the
steps chats take, which write the reviews and messages the review handlers work on.

### Restarts

`BackendInvariance` (`BackendSpec => []HarnessInv`), and from it the five properties of
`async_stores` and `configurations` that are about records: `VerdictsOutliveProcesses`,
`ForeignKeysOutliveProcesses`, `ReviewsQuoteAcrossRestarts`,
`HandoffsAreClosedAcrossRestarts`, `AnswersAreTrueAcrossRestarts`. A restart is no step of
the kind above: it takes rows away. What it leaves is consistent because it takes them all
(`RecordsRestarted`) and cuts off every call that knew of one (`CallsCutOff`).

What else outlives a process has an invariant of its own, each on top of `HarnessInv`:

- `ServiceInv` (`ServiceIsValidated`, and the action property `StartedServiceServes`): no
  chat is at work without a service, so `config` is what has been validated.
- `PointerInv` (`SessionsPointIntoTheirThreads`): the copies that calls in flight will save
  point into their threads too. An identifier is given once, so that a pointer to a
  `lost` review never becomes one to a review of another thread.

Two action properties say what a step may give up, and follow from `HarnessInv` alone:

- `OnlyFailuresLoseLifetimes`, with sessions in Redis: a session is left to live for ever
  only in a step that kills a call between its HSET and its EXPIRE, or in which that
  EXPIRE raises. A save by any other call in between, or an expiry, does not do it, as
  whoever saves last still has its EXPIRE to come.
- `OnlyFailuresAbandon`: a `resumed` review or an open handoff loses the call that is to
  finish or close it only in a kill or in a step in which that very call is answered 500
  because a record store or a tool raises. `async_stores` checks it with one resumption;
  the theorem is about any number. `ReviewsAreCarriedOut` follows: without restarts
  (`MaxRestarts = 0`) and without failing record stores, `ConsumedReviewIsCarriedOut`, which
  `crash_resume` violates with one restart, holds.

### Today's wiring

`SerialInvariance` (`SerialInv`, with `Suspends = {}`), and from it `FactsAreKept`,
`SessionsAgree` and `QuietSessionsPointAtOpenReviews`; `GateIsExact`, with
`EveryAgentMayAsk` besides; `MessagesAreAnswered`, with `EveryAgentIsConfigured` and
stores and tools that do not fail, for every `Suspends`; all of it together is `DeployedInvariance`.

What makes these hold is that a call that is at work has the loop (`AloneInv`); so the
copy of a session it will save differs from the session only by what the call has
changed itself (`CopyInv`), and the last message of the transcript is still its own when
it plans by it (`GateInv`). With sessions in Redis each of these fails, as the
runs `redis_gate` and `redis_pointer` show. `SessionTold` says how far transcript and
session may differ while the call at work has written the one and not the other, and
`ActiveFor` that an active review that has been consumed is one whose resumption will
still clear it.

`EveryAgentMayAsk` and `EveryAgentIsConfigured` are about the configurations a service can
start with. `config/agents.yaml` satisfies both, so the theorems are about today's
configuration and every one like it; the sample of docs/04 satisfies neither, which is
what `sample_gate` shows of the first and `AgentMissing` answers for the second. The run
`deployed` has messages for one agent with a handoff; that a high-risk message is held
back whichever agent it is routed to is `GateIsExact`.

### Left to TLC

`CallsAreAnswered` and `ConsumedReviewFinishes`: liveness under fairness, which needs
ENABLED. The properties that the seven last runs violate are false, but for `ConsumedReviewIsCarriedOut`
without restarts and `QuietSessionPointsAtOpenReview` in today's wiring.
`StartedServiceServesItsAgents`, the two `OnlyFailure` properties and the refinements are
the action properties and have theorems.


## Not modelled

- `update_task_status` and `archive_episode`: in no plan of the runtime, so no
  sequence of calls of this code runs them.
- `ensure_collections` of Milvus: called by nothing, so there is no process whose steps
  could interleave with it.
- the text of answers, traces, evidence, the selection of skills and their prompts:
  no decision depends on them.
- `list_*` endpoints, device and alarm queries, `/health`: read-only.
- PostgreSQL: no code writes to it; only its foreign keys are checked.
- a crash of Redis or of a record store itself, which loses what it has stored, and a
  verdict whose reply is lost (see Failures).
- a call of a store or a tool that never returns: no timeout is set anywhere.

## Plan

1. Done: event loop, stores, interrupt manager, its abstract specification, the chat
   path, `append_fact`, the life of the process with restarts, lazily built service,
   skills and readiness.
2. Done: the proofs of every safety property the passing runs check, and of the refinement
   by the review handlers and by the whole backend.
3. Next proofs: today's wiring with restarts (`SerialInv` of `BackendSpec` with
   `Suspends = {}`, where a restart empties everything).
4. When the code has them: the task store with `update_task_status` and tool calls by
   an agent that plans for itself (docs/04), bounded by `AllowedAgents`; record stores
   in PostgreSQL, with their transactions.
