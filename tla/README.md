# spaced-bro: TLA+ models, checks and proofs

spaced-bro is a Telegram bot that turns what a user writes into vocabulary
cards and repeats them with a spaced-repetition engine. One Python process runs
everything on one asyncio event loop: the aiogram handlers, an APScheduler job
that nudges users with due cards, a health endpoint, a SQLite database and an
LLM behind HTTP. This directory holds a TLA+ model of the program, the TLC runs
that check it and the proofs TLAPS checks. Paths below are relative to
`src/src/spacedbro/` unless they start with `openspec/` or `alembic/`.

## 1. The system

| Part | Source | State | Operations |
|---|---|---|---|
| SRS engine | `srs.py` | none (pure) | `new_state`, `boost`, `advance` |
| Repositories | `db/repositories.py`, `db/models.py` | rows of `users` and `learning_items` | one commit per mutating method |
| Sessions | `db/engine.py` | one session for `users` and one for `items` for the life of the process; one more per scheduler tick | a failed commit leaves a session unusable until it is rolled back |
| Context store, ledger | `bot/state.py` | `(user, name) -> (expires, value)`; the set of handled callback ids | `set`, `get`, `pop`; `first_seen` |
| Callback protocol | `bot/callbacks.py` | none | ids, tokens, payloads |
| Add flow | `bot/handlers.py`, `bot/services.py` | entries `candidates` and `confirm` of the store | text, photo, Add, Save, Regenerate, Skip, Boost |
| Review session | `bot/review.py` | entry `review` of the store | `/review`, Show, Rate, Stop |
| Onboarding, languages | `bot/handlers.py` | entry `pending_lang`, the asked flag and `target_lang` of the profile | `/start`, language buttons, free text |
| Scheduler | `scheduler.py` | counters and histogram of the `users` rows; the pass under way | gates, pass, tick |
| LLM client | `llm/client.py`, `llm/errors.py` | none per client; one loop per call | `complete`, `complete_with_vision` |
| LLM and process settings | `llm/config.py`, `config.py` | none | read the environment |
| Metrics | `metrics.py` | call counters, gauges | `record_llm_call`, `refresh_gauges`, `render` |
| Health | `health.py`, `healthcheck.py` | its own engine | `/healthz`, `/metrics` |
| Schema migrations | `alembic/versions/` | tables and columns; the stored version | three upgrades |
| Application, boot | `bot/app.py`, `__main__.py`, `migrations.py` | the stage reached; what is up | start in order, exit code, `_on_error` |
| Clock, logging | `clock.py`, `logging_config.py` | none | time; formatting |

How they interact:

- Telegram delivers updates at least once, in any number at a time. Each update
  runs one handler, a coroutine. Handlers interleave only at an `await`: a
  Telegram call, an LLM call. The database is synchronous, so the code between
  two awaits is atomic.
- Every handler first runs `services.ensure_profile`, which commits the user's
  activity. A callback then passes the ledger once.
- Handlers of one user share the store. Buttons stay in the chat for ever and
  carry a reference to a store entry (token, confirmation key) or to a row id.
- The scheduler shares the `users` and `learning_items` rows with the handlers,
  through a session, and so through object copies, of its own.
- The process may die at any point, also between two statements of a migration.
  Rows, schema and the chat survive; store, ledger, awaited calls and the
  scheduler's pass do not. Compose starts the process again.

What is hard here: state used after an await as it was before it (rating, add,
regeneration, scheduler pass); buttons that outlive what they refer to;
redelivered callbacks, also after a restart; one of several commits or sends
failing; sessions nobody rolls back; the UTC day changing under a pass; float
truncation in the intervals; deadlines racing answers; a migration cut short; a
question whose flag is stored before it is sent. `PROJECT.json` lists
each hazard at its line with the properties that catch it going wrong, or a
note why none does.

What makes each part correct:

- engine: grades are ordered, every success lengthens the interval, ranges hold;
- review: one rating per due period, one card at a time, no penalty, no dead end;
- engine and review together: no interval grows before it has passed;
- add flow: only what was shown is saved, what was rejected is not, nothing
  happens twice;
- scheduler: the cap, back-off and quiet users are respected although the gates
  read copies, and nothing the user did is overwritten;
- LLM client: every call ends, in bounded time, in an answer or one of five
  errors, and is counted once under its label;
- onboarding: the question is asked once; a word, an answer or a press closes it
  to later texts, and no redelivery changes a language;
- boot: settings first, then the schema, then traffic; a kill at any point
  leaves a database the next start can go on from, or one that says no.

## 2. Modules

| Module | Models | Extends / uses |
|---|---|---|
| `Srs` | the pure engine | |
| `CardLife` | one row under ratings and boosts | `Srs` |
| `Agenda` | what a review promises (abstract) | |
| `ReviewSession` | one user's review session, ledger, store and rows | refines `Agenda` |
| `Study` | one card of the engine in the sessions, among other cards | `CardLife`, an instance of `ReviewSession` |
| `CardLifeProofs` | theorems about `CardLife` and `Study` | `Study`, `ReviewSessionProofs` as an instance |
| `ReviewSessionProofs` | theorems about `ReviewSession` | `ReviewSession` |
| `Dictionary` | what the add flow promises (abstract) | |
| `AddFlow` | one user's add flow, ledger, store and rows | refines `Dictionary` |
| `AddFlowProofs` | theorems about `AddFlow` | `AddFlow` |
| `Languages` | the languages and how a text names one | |
| `Onboarding` | one user's profile row and the language question | `Languages` |
| `OnboardingProofs` | theorems about `Onboarding` | `Onboarding` |
| `Config` | what the settings readers accept | |
| `Boot` | the process, its migrations and its restarts | `Config` |
| `BootProofs` | theorems about `Boot` | `Boot` |
| `SpacedBro` | the process and the dialog it serves | instances of `Boot`, `Onboarding` |
| `SpacedBroProofs` | theorems about `SpacedBro` | the two proof modules, as instances |
| `Proactive` | the scheduler against the users' rows | |
| `ProactiveProofs` | theorems about `Proactive` | `Proactive` |
| `LlmCall` | what the LLM layer promises (abstract) | |
| `LlmClient` | retry loop, deadline, mapping, counters | refines `LlmCall` |
| `LlmClientProofs` | theorems about `LlmClient` | `LlmClient` |
| `MC*` | constants and symmetry for TLC | the module they are named after |

A definition has the name of the function it models where there is one.
Definitions whose comment starts with "Mutant" are plausible wrong versions of
the definition after them; nothing refers to them. They exist so that every
property can be shown to fail on a wrong program.

### Srs, CardLife

Ease is kept in hundredths and time in minutes. A float product that is exactly
an integer may come out just below it, so `Truncations` returns one or two
values and `advance` is a set. `int(interval * 1.2)` is exact for every interval
up to the cap. `CardLife` is one row: `Init` is `ItemRepository.save`, `Rate` is
`advance` followed by `update_srs`, `Boost` is `ItemRepository.boost`.

### ReviewSession, Agenda

Every handler is one step but a rating. `RateApplied` is `_rate_card` up to
`await callback.answer`: the row is written, `pending` is 0 and a record in
`acking` holds the `rated` and `total` the coroutine will use. `Continue` is
the rest of `_rate_card`, from those values; `AckFails` is the await, or the
due query after it, raising. Any other update runs in between.

A row is its due time; `Delays` gives the intervals a grade can lead to,
all positive (`NeverDueAtOnce` of `CardLife` is why that is right). Time is in
ticks of at least a minute, and a Telegram call takes no longer, so at most one
passes during an await. `[Stop]` is not tracked by id: a second
press of it finds no session, or does what the new message's `[Stop]` does.
`broken` holds the sessions a failed commit has left unusable.
`[Boost]` buttons come from an earlier duplicate notice: `Boosted`, or
`BoostFails` when its commit fails.

`Agenda` says what the user gets: one card on show at a time, due when it is
shown (`Show`); grading it puts it off and takes it away (`Grade`); taken away
otherwise it is as due as before (`Withdraw`, `Pass`); only `Boost` puts off
another. The mapping: on show is the pending card of the session while that is
live. `Continue` and a `/review` that find a card due are `Show`, `Stop`,
`Restart` and an end are `Withdraw`, a tick may expire the session.

### Study

`ReviewSession` takes any interval for a grade; `CardLife` rates at any time.
`Study` closes both gaps for one card, `Mine`: a rating of it in the session is
`advance` on its row, and the interval that comes out is its next due time. Other
cards share the session, the chat and the failures, with any intervals. The
property of the whole, `EarnedInterval`, is one that neither part can state: the
engine multiplies the interval only when the interval has passed.

### AddFlow, Dictionary

A handler that calls the LLM is two steps: the request, which leaves a record in
`tasks` with what the coroutine holds, and its answer (`GenerationReturns`,
`AddFails`, `RegenFails`). Any other update runs in between, and the answer is
stored over whatever is stored by then. `candidates` and `confirm` are the two
entries of the store. A button is `<<message, label, front>>` and that is its
callback id too. Tokens are the position of the message in the chat, so no two
are equal: the eight hex digits of `new_token` are taken not to collide. The
duplicate check and the INSERT of `_handle_save` have no await between them, so
the IntegrityError branch cannot run in one process. The word-identity rule is
the constant `normalize_front`, which maps two spellings to one normal form, or
to two.

`Dictionary` says what this amounts to for the user: one card is on offer at a
time (`Propose`), an offer taken away never comes back (`Withdraw`), and what is
kept is the card on offer, one for each normal form (`Keep`). The mapping: the
offer is the stored confirmation whose message was delivered with a [Save]
(`Offered`), the cards are the rows, `made` are the confirmation messages.

### Proactive

A pass reads the clock and all rows once: `pass.at` and `pass.snap`. Everything
between two sends is one step (`GoOn`); a pass is suspended only in a send. The
send is two events, because Telegram may take the message while the bot never
learns of it: `Deliver`, then `SendReturns`, `SendFails` or `PassDies`.
`record_proactive` and `touch_activity` write only their own columns, as the
UPDATE statements of SQLAlchemy do; a pass's copy is not refreshed
(`expire_on_commit=False`). Instants are hours. Two history variables keep the
account of the day: `received`, what each user has received today, and `slips`,
how many of those nudges no counter of today has, because the send's answer, the
commit or the process was lost, or the pass began yesterday.

### LlmCall, LlmClient

`LlmCall` says: a call ends once, in `ok` or in one of the five domain errors.
`LlmClient` is the loop: `Begin`, one `AttemptOver` per attempt (the reply of
`ReplyArrives`, or the silence of `DeadlineFires`), `Sleep` and `Retry`. Status
0 is a transport failure, another status stands for its class. Jitter is any
delay in its range. `elapsed`, `asked` and `last` are history variables.
A call's body is one of: usable, usable but failing the structured check,
malformed. `metrics` is the counter table of `metrics.py`: a call that has ended
adds one to the series of its kind, and to the series of its kind and error.

### Languages, Onboarding

A handler of the question does not await before it has changed all it changes,
so each is one step. What can fail in it is split off: a commit
(`CommitFails`, `LangFails`) leaves the session failed and every later handler
raising (`Raises`); a failed send may have reached the chat (`SendQuestion`).
`handle_text` is `ReviewAsked` for a text that asks for a review, and otherwise
`LanguageNamed` or `WordSent`, by what `_parse_lang_code` makes of the first word;
a text is its first word. The history variables are `since`, the kinds of what was
handled since the question (a reply, a request for a review, anything else),
`chosen` and `pressed`. `Restart` empties store, ledger and session.

### Config, Boot

An environment is a record of what the code compares. `load_settings` and
`load_llm_settings` return, or raise one of two exceptions; the models and URLs
they return are data. A token can be missing, have the wrong form (aiogram's `Bot`
raises in `BuildBot`), be refused by Telegram (`Poll`) or be good. `Boot` is `__main__._run`, one action per stage of `Stages`;
a migration is one action per statement (`Execute`) and one for the version
written after them (`Stamp`), since SQLite has committed the statement by then.
`Kill` can come between any two, `BindFails` is a port in use, `Redeploy` gives
the container another environment. A first database has no table, the schema of
the release before `onboarding_asked`, or this one's.

### SpacedBro

The two together: a step of the process that ends it is also the dialog's
`Restart`, and updates are handled only while the process polls. Rows exist only
where there is a table. The handlers of `AddFlow` and `ReviewSession` and the
scheduler would join in the same way. They share the ledger, the store and the
sessions with the question, each under keys and ids of its own; the product of
their states is beyond TLC.

## 3. Runs

| Run | Properties | Bounds and what they reach |
|---|---|---|
| `card_life` | TypeOK, InRange, ReviewIsEarned, GradesOrdered, SuccessLengthens | six successes in a row from any ease up to 3.40; the cap of 180 days and the floor of 1.3 are reached, and every repetition count with its own rule (0, 1, 2 and more). The clock moves only to show that nothing depends on it |
| `review` | TypeOK, NoRepeatInSession, NeverStuck, RatedOnlyWhileDue, NoPenalty, MovesOn, ImplementsAgenda | two cards, two grades, three instants, four messages with buttons, two faults: enough for a double tap, a second rating or a `/review` during an await, a card that comes due again, expiry, a boost and a restart |
| `review_retry` | RetryCanSucceed (violated) | as above |
| `study` | EarnedInterval | two cards that take turns, ticks of a minute to 31: due at 20, and one again at 30 after an [Again] at 20; three messages with buttons. Messages are lost at that bound, the process restarts; failed commits and presses without effect are left to `review`, and to the proof |
| `proactive` | TypeOK, CountIsHonest, StaleGatesAreSafe, ActivityNeverLost, NudgedBelowCap, PassEnds | two users, days of three hours, two days, two interactions each, one fault: a pass straddles midnight, a count is lost, a user comes out of back-off or rises a cap during a send, one user has an empty histogram |
| `proactive_day` | CapPerUtcDay (violated) | one user |
| `add_flow` | TypeOK, ConfirmationIsUsable, NoReplayedEffect, SavedIsWhatWasShown, RejectedNeverSaved, ImplementsDictionary | two spellings of one word, two translations, three messages with buttons, one fault; overlapping adds and regenerations |
| `add_skip` | SkipBindsToItsCard (violated) | two words, no fault |
| `add_boost` | BoostOnce (violated) | one restart |
| `llm` | TypeOK, BoundedTime, MappingIsExact, EveryCallCounted, CallProgresses, CallEnds, ImplementsLlmCall | two calls of up to two attempts; every class of status, the cap below the first backoff, a Retry-After above it |
| `spaced_bro` | TypeOK, MigratedBeforeTraffic, FailsFast, GreenMeansConfigured, AskedOnce, Serves, ReplyClosesQuestion, ReplayHarmless | eleven environments: two that boot, one for each check of the settings, a malformed token and one Telegram refuses; three first databases; three kills, failed binds or redeployments, enough to cut a migration short, start again and be given other settings; two faults in the dialog; four texts: a code, a name, a word, a review intent |
| `single_confirm` | SingleConfirmInsufficient (violated) | the dialog alone, no fault |

Deadlock is checked in every run: `AllDone` of `LlmClient` is the one place
where the system may rest. (A process with settings that do not load ends and is
started again for ever.)

Bounds are constants named `Max...` in the modules and appear only in guards.
Bounded are: the clock, messages with buttons in a chat, interactions, the
count of received nudges (at 6, where a cap of 3, one fault and one pass over
midnight reach 5 at most), and faults (lost calls, failed commits, crashes, presses without effect). At its
bound a chat loses a message as a failed call does. Short days and small
windows in `proactive` keep the same comparisons as 24 hours, 7 and 14 days;
the proofs do not depend on the values.

The five runs that find a violation each check one sentence of the repository:

- `review_retry`: "the rating can simply be retried" (`bot/review.py:479-483`).
  It cannot: the failed commit leaves the session in a transaction nobody rolls back.
- `proactive_day`: "at most 1–3 proactive messages per UTC day"
  (`openspec/changes/mvp-core/specs/scheduler/spec.md:10`). A pass over midnight
  delivers today and books on yesterday.
- `add_skip`: "All three carry the confirmation key ... so they bind to exactly
  the card on screen" (`bot/handlers.py:180-182`). `[Skip]` carries nothing.
- `add_boost`: processing a Boost id twice "SHALL not ... double-apply boost"
  (`openspec/changes/mvp-core/specs/telegram-bot/spec.md:33`). The ledger does not
  survive a restart.
- `single_confirm`: "Single confirm insufficient ... target_lang is unchanged"
  (`openspec/changes/mvp-core/specs/user-memory/spec.md:20-22`; the docstring in
  `db/repositories.py:124-126` repeats it). One tap changes a language that was
  named before.

Other places where code and documents differ, which a run would add nothing to:

- 422 of a local endpoint to a vision call is `provider_unavailable`
  (`llm/client.py:465`), where the spec has `vision_not_supported`
  (`openspec/changes/llm-router/specs/llm-client/spec.md:121`); `MappingIsExact`
  leaves that status out;
- a session the user has stopped can come back: a rating in its await stores its
  session again (`bot/review.py:507`), where the spec presents cards "until the
  user stops" (`openspec/changes/mvp-core/specs/telegram-bot/spec.md:36`);
- a `HEALTH_PORT` that is no integer raises ValueError and ends with 1, where the
  README has 78 for every missing or bad setting (`config.py:65`);
- `bot/handlers.py:333-335` says a vocabulary message can never be misfiled as a
  language; a first word such as "it", "no", "hi" or "he" is a code and is
  taken for one while the question is open;
- a migration cut short never heals: the statement that was executed fails at
  every start (`Torn` in `Serves`);
- the flag is stored before the question is sent, so a lost question is never
  asked again; that is the price of `AskedOnce` and of the spec's "asked once";
- `tests/test_review_session.py:285-289` says of a text that asks for a review
  while the question is open "the question is skipped (default `en` held)".
  `handle_text` returns on it before it looks at `pending_lang`
  (`bot/handlers.py:418-422`), so the question stays open: after `/start`,
  "review", "german" the language is German. The test looks at the language
  before a third message. `/start` again, `/review` and a photo leave the question
  open as well. `ReplyClosesQuestion` names these exceptions, and is violated when
  its `since` may hold nothing at all;
- a save that fails answers "That didn't work. Try again in a sec?"
  (`bot/handlers.py:113`, `730-735`), but the id of that `[Save]` is spent: the card
  can only be regenerated or skipped;
- an answer whose structured content does not parse is counted as ok, because
  `_record_llm_ok` comes before the parser (`llm/client.py:225`), while the caller
  gets `invalid_response`; no document says which it should be;
- `Retry-After` is looked up with that spelling in a plain dict (`llm/client.py:499`):
  a provider that sends it in lower case gets the jittered backoff (`NoHeader`);
- an open question is forgotten at a restart: the answer is then a word to learn.

## 4. Fairness

- `ReviewSession`: a coroutine whose await has ended is resumed (WF on
  `Continue` or `AckFails`). Telegram calls time out after 60 s in aiogram, so
  the await ends. No fairness on users, time or restarts.
- `Proactive`: WF on the steps of a pass, for the same reason.
- `LlmClient`: WF on the deadline and on the end of a sleep, both the client's
  own clock. Nothing is assumed of the provider.
- `SpacedBro` (and `Boot`): WF on starting the process and on its steps. Compose
  has `restart: unless-stopped`, and once `_run` runs, the event loop takes it from
  stage to stage. Kills and failed binds are bounded, since a process that is
  always killed never serves. Nothing is assumed of the user.
- `CardLife`, `Study`, `AddFlow` and `Onboarding` state safety only: what happens next is
  up to the user, and an LLM call that ends is `CallEnds` of `LlmClient`.

## 5. Proofs

Checked by TLAPS for every value of the constants that satisfies the named
assumptions; the assumptions are evaluated by TLC in every run.

**CardLifeProofs.** `IInv == TypeOK /\ Healthy(card)`. `Healthy` joins the
range of ease and interval, the condition of `review`, and `EarlyIntervals`: a
card that still has a fixed step ahead has a shorter interval. Without the last
one `SuccessLengthens` does not follow, since the fixed steps of one and
three days do not look at the old interval. `TruncationBounds` bounds the lost
minute; it is small enough because ease is at least 1.3 and the interval at
least ten minutes, which is where `InRange` is needed for `GradesOrdered`. From
`IInv`: `TypeCorrect`, `RangeHolds`, `ReviewEarned`, `GradeOrder`, `SuccessGrows`, `NotDueAtOnce`. `HardGrowth` is why
a success not only keeps but lengthens the interval: a fifth of ten minutes is
more than truncation takes.

The same module proves `Study`. A step of it is a step of `CardLife`
(`StepOfCard`, `KeepsCard`) and one of `ReviewSession` (`StepOfSession`,
`KeepsSession`: the interval `advance` returns is one the session may get, by
`RatedInterval`). So both inductive invariants hold together, and `StudyInv` adds
the two facts that join them: the two modules' rows are one (`SameRow`), and a
row once rated is due exactly its interval after its last review
(`DueAfterReview`). `Earned` follows: a grade that is accepted is of a card
that is due or was boosted on screen (`RatedIsDue` of `ReviewSessionProofs`).

**ProactiveProofs.** `IInv` adds to the types that no interaction lies in the
future and that the copies of a pass are sound: of the users still to come,
the copy was taken from the row, whose counter has not changed since, and whose
interactions have only grown. Then a gate that held on the copy holds on the
row: more activity raises `activity_cap` (`CapGrows`) and moves
`last_active_at` forward (`StaleCopyIsSafe`). `Peak` and `First` are CHOOSEs;
`FirstIsLeast` gives the one fact needed. From `IInv`: `TypeCorrect`,
`CapHolds`, `StaleGatesSafe`, `ActivityKept`. `HonestCount` needs `HonestInv`
besides: what a user has received today is at most his counter, his slips and the
nudge under way; and while a pass of yesterday is still sending, at most his slips,
so nothing of today is missing when it books on yesterday and the counter of
today reads 0. From the same `HonestInv` comes `DailyCap`: before each nudge the
user was below his current cap, slips aside. `PassOrder` is that a pass leaves each
user behind it.

**LlmClientProofs.** `IInv` keeps an account of the time of a call in each
phase (`InTime`: a sleep's delay is not spent yet, and is charged to the cap or
to the provider) and that a call has an outcome exactly when it has ended.
`Moves` sums up what a step does to one call and the counters. From these:
`TypeCorrect`, `TimeIsBounded`, `CountsCalls` (per kind and error: the labels
are distinct, so a call that ends moves exactly the counters that count it),
`MappingHolds` (each row of the error table, from the last reply), `Progress`
(`MoveProgresses`: the steps a call has left decrease with each of its steps;
with the fairness of the run that is why `CallEnds`), and
`KeepsPromise`, the safety half of the refinement of `LlmCall`: initial states
map to initial states and every step to a step or a stutter.

**ReviewSessionProofs.** `IInv` joins the types, that the store has one session
at most, `NeverStuck` itself and `ShownIsDue`: a card on screen is due, or was
boosted there. `ShownIsDue` is what `RatedOnlyWhileDue` (`RatedOnce`) comes from:
only a rating or a boost writes a row, a rating clears `pending` in the same
step, and `Continue` and `/review` show a card they find due (`PresentInv`, which
serves both). For `NeverStuck`, `WayKept` and `WayNew` say that a press on another
card's button, or on [Boost], takes no way away, and that a message brings one.
`Oldest` is a CHOOSE over two keys; `OldestIsThere` gives the one fact needed.
Also from `IInv`: `TypeCorrect`, `NoRepeat`, `LeavingIsFree`.

`KeepsAgenda` is the whole refinement of `Agenda`, which has no liveness.
`StepMaps` has one step for every action. `CardShown` (a card of the due queue is
put on show), `CardGraded` (the card graded is the one on show, and is put off
to the future) and `CardBoosted` are the steps that are no stutter or
withdrawal; `StoredCard` says what a session just stored shows.

**AddFlowProofs.** Why nothing is done twice although a restart empties the
ledger: `Spent` says that a button that had its effect is still in the ledger or
refers to nothing stored. It is inductive because every reference is new
(`ChatInv` says what a message may refer to, `TaskInv` the same of a coroutine).
`StoreInv` ties the stored confirmation to the message with its key, and keeps
it apart from the rejected ones. `OnlySaves` then collects all there is to say of
the one step that adds a row; `SavesWhatWasShown`, `NeverSavesRejected` and the
`Keep` case of `KeepsPromise` follow from it, and so does `OneCard`: the word of a
row that is added is new (`NewWord`). `KeepsPromise` is the whole
refinement of `Dictionary`, which has no liveness: `StepMaps` has one step for
every action. Also from `IInv`: `TypeCorrect`, `WayOn`, `NotTwice`.

**OnboardingProofs.** `IInv`: a question in the chat means the flag is set (so
`AskedOnce` is kept), while the question is open no reply was handled since and
none of its buttons has had its effect, and an effective press that named a
language named the current one. The last two make a redelivered press harmless:
the text that changes the language closes the question, and so does every press.
`ReplyCloses` follows, since only an open question lets a text change the language.

**BootProofs.** `Order` is what each stage has behind it, `Applied` that the
schema is never behind its version and the statements executed, `Trace` what an
exit code says of the past. `MigratedBeforeTraffic` needs `Applied` for every
point a former process may have died at.

**SpacedBroProofs.** `KeepsBoot` and `KeepsOnboarding` show the composition to be
a run of either part, so the theorems of the parts carry over to it
(`SchemaFirst`, `ConfigFirst`, `GreenIsConfigured`, `QuestionOnce`,
`ReplyCloses`, `Replay`); nothing is proved twice.

Only model-checked: liveness (`PassEnds`, `MovesOn`, `CallEnds`, `Serves`, and
the liveness half of `ImplementsLlmCall`), since fairness and ENABLED are out of
the prover's reach. The safety properties of the passing runs are all proved. Four that are proved
need no run of their own: `NeverDueAtOnce` (see `InRange`), `CountWithinCap`
(`NudgedBelowCap`), `OncePerPass` (`PassEnds`) and `OneCardPerWord`
(`ImplementsDictionary`) follow from, or are the reason for, the one in brackets. In
the proofs about `Study`, `1..MAX_INTERVAL_MINUTES` is kept folded: the prover
would list its elements.

## 6. Not modelled

- Wording, markup, prompts, JSON shapes, MIME types, callback strings: data.
- Logging: formatting only.
- The answers of `/healthz` and `/metrics`, and the gauges: read-only queries over
  an engine of their own. That the port is bound is in `Boot`.
- The setters of native language, interface language and level, and the
  downgrades of the migrations: nothing in the program calls them.
- Several processes on one database: the program is deployed as one. The
  IntegrityError branch of `_handle_save` needs a second one.

## 7. Plan

1. The safety core of `Serves`, as `CallProgresses` is of `CallEnds` and
   `OncePerPass` of `PassEnds`: the steps a boot has left.
2. The add flow, the review session and the scheduler over shared rows, as
   `Study` does it for engine and session, on instances small enough for TLC.
3. A second process, for the IntegrityError branch of `_handle_save`.
