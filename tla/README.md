# TLA+ models of alice-llm-bridge

`alice-llm-bridge` answers the webhook of an Alice skill with a language model. Alice
gives a webhook call a few seconds, a model takes longer; most of what is hard in the
bridge is what becomes of an answer that missed its call. The bridge runs as one of two
engines: the **household engine** (one persistent Codex conversation per home, state in
Postgres) or the **legacy engine** (OpenAI-compatible providers, a family roster, history
and a rolling summary per profile).

## Inventory

| Part | State | Operations | Hard behaviour |
|---|---|---|---|
| Household engine (`bridge-core/house_engine.rs`) | one lock per house, one work task and one saver task per late request | `respond`, `answer_continuation`, `shape_and_save`, work task, saver task | every call suspends at up to six awaits; the work outlives its call; the reply budget races the work; aborts |
| Household store (`bridge-server/house_store_pg.rs`) | rows `houses`, `pending_replies`, `continuations` | mark, save, take, clear, save thread | a call may fail before or after it took effect; TTLs; no transaction around a request |
| Reply shaper (`bridge-core/reply.rs`) | none | `split`, `from_utterance` | limits at the boundary; the rest of an answer is joined and cut again at every "continue" |
| Codex runtime (`codex-runtime`) | one socket per call; request ids, queued notifications, the text so far, the unverified flag | `start_thread`, `turn`, `request`, `collect_turn`, `handle_server_request` | app-server may hang, fail or act without acknowledging; notifications before the response, or of a turn that was never interrupted |
| Legacy engine, deferred answers (`bridge-core/engine.rs`, `pending.rs`) | map user -> thinking/ready, oneshot channel per question | `handle`, `ask_llm`, generation task, `poll`, `complete`, `clear` | threads race on the map and on the channel; TTL |
| Legacy engine, memory (`engine.rs`, `bridge-server/store_pg.rs`) | one dialogue state for all users; tables `messages`, `summaries` | `generate`, `maybe_summarize`, Introduce, Forget, SetWindow | detached summarizers; ids taken before commit; read-then-overwrite |
| Legacy engine, dialogue (`engine.rs`, `mode.rs`, `model.rs`, `prompt.rs`) | profile, mode, tier and window, one mutex for all users | `handle`, `execute`, `ask_llm`, `generate`, `usage_report` | a call takes the mutex several times and awaits in between; what it read may be stale when it is used |
| Command parser, roster (`command.rs`, `profile.rs`) | none / configuration | `normalize`, `parse`, `find_by_alias` | order of the rules, spelling variants, names and triggers from the configuration |
| Provider client (`llm-providers`) | none | `chat` with one retry | the retry begins a timeout of its own, while the slot of the late answer ages |
| Webhook (`routes.rs`), Alice protocol (`alice-protocol`) | none | secret, accounts, greeting, dispatch; clip to the platform limit | a client that disconnects does not cancel the engine: the engine runs in a task of its own |
| Pairing and administration (`house_store_pg.rs`, `bin/bridge-admin.rs`) | rows `houses`, `house_members`, `surfaces`, `pairing_requests` | `resolve_surface`, `create_pairing_request`, `approve_pairing`, create house, add/disable member, disable surface | the queries of `resolve_surface` are not one transaction; a surface asks again while its code is being approved |
| Configuration and start-up (`config.rs`, `assemble.rs`, `main.rs`) | how far `main` has come; the engine built | `validate`, environment, database, `build_engine`, `build_household_engine`, serve, shutdown | the file is checked in one place and unwrapped or asserted in another |
| State encryption (`state_crypto.rs`) | key | seal and open | none of its own |

The webhook calls exactly one engine. The household engine reaches the store and the Codex
runtime through traits; its tasks meet only in the database and in the house lock. The
legacy engine's calls meet in the `PendingAnswers` map, in the dialogue state and in the two
history tables.

What makes the parts correct:

* household engine: an answer is heard only where it was asked; a house has one
  conversation and one turn at a time; every chunk is heard once and in order; every call
  is answered though the app-server hangs; nothing stays locked or "thinking";
* Codex runtime: an answer is the whole text of its own turn; an unconfirmed change of a
  device is never reported as done; no turn runs outside the house's read-only profile;
* pairing: a surface keeps its house and account; what is approved is what was typed, and
  a reported approval is in force;
* deferred answers: heard at most once, by the right user, and not lost;
* memory: profiles never mix; what the summary covers is in it, and is folded once; what
  Forget erased stays erased; the part of the history outside the summary is bounded;
* dialogue: an exchange has one speaker, a child's always with the safety block; it is
  counted once and at the price of the model asked; control phrases never reach the model;
* reply shaper and platform: reading an answer in chunks is reading the answer; every reply
  fits the platform;
* start-up: a file that was accepted builds.

`PROJECT.json` lists the components, the hazards with the lines where they bite, and the
source lines of every definition.

## Modules

| Module | Models | MC module | Proofs |
|---|---|---|---|
| `Bridge` | the process: `webhook` in front of either engine, replies; composes `Startup` and `Dialogue`, which extend the next two | `MCBridge` | `BridgeProofs` |
| `Startup` | `main`, `AppConfig::validate`, `build_engine`, `build_household_engine`, the constructors' own checks | | |
| `Dialogue` | `handle`, `execute`, `ask_llm`, `generate`, `build_system_prompt`, `OpenAiCompatClient` | | |
| `ReplyShaper` | `ReplyShaper::split`, `clip_to_limit` as operators on texts | | `ReplyShaperProofs` |
| `CommandParser` | `normalize`, `parse`, `FamilyRoster` as operators on words | | |
| `ReadAloud` | abstract: what reading an answer in parts promises; refined by `Bridge` | | |
| `HouseChat` | abstract: a house as one serial conversation; refined by `HouseholdEngine` | | |
| `HouseholdEngine` | `HouseholdEngine::respond`, its tasks, the temporary tables and the house's thread | `MCHouseholdEngine` | `HouseholdEngineProofs`, `HouseholdDeliveryProofs` |
| `Pairing` | `resolve_surface` query by query, `create_pairing_request`, `approve_pairing`, the commands of `bridge-admin` | `MCPairing` | `PairingProofs` |
| `CodexClient` | `CodexRuntime::start_thread`/`turn`, `JsonRpcClient` | `MCCodexClient` | `CodexClientProofs` |
| `DeferredAnswers` | `Engine::handle`/`ask_llm`, generation task, `PendingAnswers` | `MCDeferredAnswers` | `DeferredAnswersProofs` |
| `ConversationMemory` | `generate`, `maybe_summarize`, Introduce/Forget/SetWindow over `PgStore` | `MCConversationMemory` | `ConversationMemoryProofs` |

A definition whose comment says *Mutant of X* is a plausible bug in X. No specification uses
it; each property of a passing run is violated when X is replaced by one of them.

### HouseholdEngine

A request is one run of `respond`; `pc[r]` is the await it is suspended at
(`resolve -> take -> poll -> gate -> wait`, with the branches `again`, `keep`, `deliver`,
`clear`, `mark`). `work[r]` is the spawned task (`start -> save -> turn`), which owns the
guard of the house lock and drops it however it ends; `handle[r]` says whether its
`JoinHandle` went to a saver task or was aborted. Each SQL statement is one atomic step with
an outcome: `ok`, `failed` (no effect) or `lost` (effect, but the caller sees an error). A
payload that cannot be decrypted or parsed is also an error the caller sees, after a read
(`failed`) or after a `DELETE ... RETURNING` (`lost`).

Abstractions:

* The answer to a request is its number of chunks. A text is "the chunks of request q from
  n on". Shaping the concatenated rest yields the same chunks again, which is what `Bridge`
  shows of the texts themselves (`SameChunks`).
* Utterances are the four classes `respond` tells apart: a refusal, an empty text, marks
  that normalise to nothing, anything else.
* A Codex thread is named after the request that started it.
* `HouseOf`, which surface is bound to which house, is constant: a surface's row never
  changes its house, which is what `Pairing` shows (`BoundForGood`). Pairing or refusing an unbound surface is one outcome, `turnedAway`.
* `Crash` ends all tasks and frees the locks; the database and the app-server's threads
  stay. An unspoken reply of a killed call is gone, as in the code. A statement that an
  aborted task or a killed process had sent took effect before, or never does: that the
  database still executes it after the guard of the house lock is gone is left out.
* Time is `ExpirePending`/`ExpireContinuation`: a row passes its `expires_at` at any moment.
  Nothing in the code deletes such a row (the design document says expired records are
  deleted), so it stays in the model until its key is written again.
  A thread panic inside a task is covered by the error outcome of that task.

`HouseChat` is the conversation such an engine owes a house: `Begin` takes the floor when
nobody has it, `Adopt` names the chat of the house once, `Answer` happens in that chat while
the floor is held, `GiveUp` leaves it. The refinement mapping reads the floor from the house
lock, the chat from the house row and the answered questions from the turns that were
finished; calls, rows, savers, expiry and the order of polls are stutter.

### Pairing

A call of `resolve_surface` goes through its queries (`bound -> exists -> members ->
create`), each against the database of that moment. An approval is a transaction at READ
COMMITTED: `Select` takes the row locks, `Check` reads the membership, `Bind` is the upsert
of the surface with its condition, the update of the request and the commit. No other
transaction can tell those three writes apart, because the row of the request is locked and
the row of the surface is written once. Any statement or commit may fail, or take effect without being
acknowledged.

Codes are model values, and well formed: the command line and `approve_pairing` refuse others
before they touch the database. Drawing the same code twice, for one surface or for two, is
possible. The hash binds a code to the row's account and application, so a row matches
exactly its own code. A request expires at any moment after it was made and before it was
approved; that `now()` is the time of the transaction's `BEGIN` rather than of its `SELECT`
is not told apart. `houses.enabled` is written by no code and always true. Calls and
approvals happen once each, so their number bounds a behaviour.

### CodexClient

One call over its own socket: `at` is the request it waits for (`initialize`, then
`threadStart`, or `resume` and `turnStart`) or the loop of `collect_turn`. A message is a
record of what the client looks at: its type, the request it answers, the thread and the turn
it names, the server of a tool call (the house's, another, or none named), and a class of content
(a permission profile that is the house's, read-only and without network, or not; an item that
is plain, a read, a verified or unverified change, or an unknown tool; a delta with or without
a text). The server is compared with the house's connector, which is none when Homey is
disabled: a call that names no server passes then, as in `observe_homey_tool`. `seen` is the history of
messages read; the queue and the text are positions in it, so that a property can compare
what was said with what was sent.

The app-server is external and may send anything in any order; the client trusts it no more.
A missing id, a wrong shape or an oversized frame takes the error branch of the message it
stands in for, or is `Break`. Pings change nothing. A call the engine drops takes no more
steps, which every behaviour of `Spec` may do.

### DeferredAnswers

The engine runs on a multi-threaded runtime and `PendingAnswers` is a concurrent map, so a
step is one map operation or one use of the channel. `poll` is two steps (a copy, then a
remove), and the deadline is two: `timeout` gives up (`Deadline`), the receiver is dropped
(`DropReceiver`). An answer is named by its request. Everything `ask_llm` awaits before it
marks the user (summary and history) happens before the step `Parse`. `calm` is a history
variable: no user has had two calls under way at once, and no entry has expired.

### ConversationMemory

An exchange is a question with the model; its task records the two rows (ids are taken in
`Insert`, rows become visible in `Commit`) and goes on as the summarizer `generate` spawns.
A summary is the set of rows folded into it and `covers_until_message_id`. The two INSERTs of
an exchange are one step with consecutive ids; no property tells whether ids of another
exchange lie between. Model tiers, modes and usage statistics change neither table; they are
in `Dialogue`.

Two history variables carry the conditions of the properties, so that one run checks them over
all behaviours: `forgotten[p]` is the set of rows a successful Forget erased, and `trouble` the
worst that has gone wrong so far (nothing, a request to the model failed, a call of the store
failed, or a question or a Forget came while a task was under way).

### Dialogue and CommandParser

A call of `Dialogue` is an utterance that found no deferred answer: `at[c]` is the await it is
suspended at (`forget`, `usage`, or `ask -> history -> send -> record`). `ask` is a location of
its own because `EnterMode` releases the mutex before `ask_llm` takes it; for other questions
nothing lies between, and the extra interleaving is one the threads can produce. `asked[c]` is
the snapshot of the dialogue state, `prompt[c]` what was made of it, `tries[c]` and `spent[c]`
the outcomes and the time of the requests to the provider. `messages` is a set of rows that
their ids order; a row names its exchange, and instead of an amount the tier whose preset
priced it. What happens to a reply
that misses its call is `DeferredAnswers`, what the summarizer does with the rows is
`ConversationMemory`; neither changes what this module looks at.

`CommandParser` works on words, transliterated. `Normal` says what `normalize` makes of a word
as it was heard (one word, several, or none), so an upper-case letter, a `ё`, a mark or a
hyphen is an element of `Words` of its own. `starts_with` and `contains` are taken at word
boundaries. The text of a think-hard question is what follows its phrase (`HardQuestion`), and
is not looked at for commands again; `question[c]` is what the model is asked, `said[c]` the
utterance.

### Startup, ReplyShaper and Bridge

`Startup` is `main` up to `axum::serve`. A configuration is a record of the fields that decide
anything; a path is absent, relative or absolute. `fault` says what ended the process: the file
was `refused` by `validate`, the `environment` (variables, database, port) failed, or, what
must not happen, a constructor refused the accepted `file` or an `expect` or `assert` was a
`panic`.

`ReplyShaper` works on characters of five classes, the ones `preferred_split` and
`clip_to_limit` tell apart. `Suffix`, `MaxTextLen` and `MaxChunkLimit` are the constants of the
code. `Bridge` puts a reply through both: of the household engine it keeps one surface, the
`continuations` row (`chunks`) and what the listener heard (`heard`); everything that may go
wrong in between is in `HouseholdEngine`, which in turn names the chunks by number. The
mapping of `ReadAloud` joins the saved chunks.

## Runs

With two workers the longest run takes about two and a half minutes.

| Run | Expect | What it shows |
|---|---|---|
| `BridgeSafety` | pass | `AcceptedFileBuilds` for files near a good one and every failure of the start; `SpeakerOfExchange`, `BilledAsAsked`, `AnswerWithinSlot`, `ControlNeverAsked` for three interleaved calls; `FitsPlatform`, `SameChunks` and the refinement `ReadsAloud` for every short answer and every accepted chunk limit |
| `HouseSafety` | pass | `TypeOK`, `OnlyInitiatingSurface`, `TurnsOnHouseThread`, `OneWorkPerHouse`, and the refinement `KeepsOneChat`, with overlap, every store outcome, failing runtime, expiry and crashes |
| `HouseDelivery` | pass | `NothingLost`, `SaidOnce`, `ChunksInOrder` while nothing fails |
| `HouseProgress` | pass | `EveryRequestAnswered` with a hanging app-server; `HouseUnlocked` and `ThinkingEnds` unless it hangs |
| `HouseThreads` | violation | two first callers start two Codex threads |
| `PairingSafety` | pass | `TypeOK`, `BoundForGood`, `ApprovedAsTyped`, `ApprovalInForce` with interleaved queries, approvals and commands and every store outcome |
| `CodexSafety` | pass | `TypeOK`, `WholeAnswer`, `NoFalseSuccess`, `OnlyOwnConnector`, `ConfinedFirst`, `RequestsNeverIgnored` against an app-server that may send anything |
| `DeferredSafety` | pass | `AnsweredOnce`, `AnswerOfSameUser` with overlap, expiry and panics; `LostOnlyInRace` until calls of one user overlap or an entry expires; `EveryRequestAnswered` with a hanging provider |
| `DeferredRace` | violation | a completion that races the deadline lands in no slot |
| `MemorySafety` | pass | `TypeOK`, `ProfilesApart` with interleaved exchanges, Forget and failures; `SummaryComplete`, `SummaryMovesForward`, `BacklogBounded` until what their conditions name goes wrong |
| `MemoryOverwrite` | violation | a failed read of the summary makes the summarizer overwrite it (`FoldedWhateverFails`) |
| `MemoryForgotten` | violation | a summarizer writes back what Forget erased (`ForgottenStaysForgotten`) |

The violation runs are four disagreements between the code and what the repository says of it:

* `HouseThreads`: the work task decides from the house row its call read before the lock; two
  first callers start two Codex threads, the second in vain, and its call fails.
* `DeferredRace`: `timeout` finds the channel empty and the budget spent, and drops the receiver
  when it returns; a reply sent in between is taken by the channel and read by nobody, so
  `complete` is not called and the slot stays "thinking". The comment at `engine.rs:230` ("a
  completion that races the deadline always finds a slot to land in") does not hold for that
  reply. `LostOnlyInRace` says that nothing else is lost.
* `MemoryOverwrite`: a failed read of the old summary counts as an empty one, and the row is
  overwritten. `SummaryComplete` says that a failing model drops nothing.
* `MemoryForgotten`: a user says Forget right after an answer; the detached summarizer of that
  answer, which read its backlog before, ends after the Forget and stores a summary of the
  messages that were erased. Nothing has to fail and one user is enough. The property is about
  rows that were recorded when Forget came. An exchange that is still with the model then is
  recorded afterwards; whether it should be, no text of the repository says.

The conditions of the passing properties matter. `SaidOnce` needs a surface that waits for its
reply (two calls of one surface may both poll a ready row before either clears it);
`ChunksInOrder` needs a store that does not fail between `save_continuation` and
`clear_pending`: if the latter fails, `respond` answers with an error although the
continuation is saved, and the listener's next utterance hears the second chunk first.
`SummaryComplete`, `SummaryMovesForward` and `BacklogBounded` are about exchanges that come one
at a time: with two under way a row may commit with an id the summary already claims to cover,
and two summarizers may overwrite each other. `SummaryMovesForward` holds whatever fails, but
only for a configured window of at least 1. `AnswerOfSameUser` says *user*, not *question*: a
late completion lands in whatever slot its user has by then. `AnswerWithinSlot` is
conditional: two timeouts of 45 s fit the 120 s of `THINKING_TTL`, but `validate` accepts any
`provider_timeout_secs`.

### Read in the code, beside what the runs show

* `normalize` folds `ё` to `е`, the names and aliases of the roster are only lower-cased
  (`assemble.rs:61`, `profile.rs:62`): a member called "Лёва" cannot be introduced.
* The help text (`phrases.rs:14`) offers «Помни последние десять реплик»; `parse` wants
  digits, and that phrase goes to the model unless the transcription writes 10. This, and a
  name with a `ё` or a hyphen, are left out of `Documented`, the list `ControlNeverAsked` is
  about.
* `parse` does not look for a command in what follows a think-hard phrase: «подумай как следует,
  забудь всё» asks the model exactly «забудь все». `ControlNeverAsked` allows that one way.
* A window of 0 in the configuration (the voice command clamps to 1, `validate` does not
  check): after one failed `record_exchange` the backlog is empty, `maybe_summarize` folds it
  and writes `covers_until_message_id` 0 (`engine.rs:321`, `364`); the rows the summary holds are
  later folded into it again. `store.rs:35` calls the field "Highest message id folded into this
  summary".
* The design document (`design.md:104`) lets the summarizer start when unsummarized turns
  "exceed 2×N"; the code and its test (`engine.rs:706`) fold at equality.
* The design document promises a retry "with backoff on transient network errors, within the
  time budget"; `chat` repeats at once, after a 5xx as well, and with a full timeout.
* Forget deletes the rows the usage statistics are summed from; the summarizer's own requests
  are never recorded; the two sums of a report are two queries.
* When the window shrinks, rows older than the new window that are too few to be folded are
  neither in the summary nor in the history of the next prompt.
* "Words are never cut in half" (`response.rs:47`) does not hold for a mark inside a word
  ("3.14") nor for a text without marks and whitespace.

### Bounds

* Three requests are enough for a deferred answer, its delivery and a third call that
  overlaps both; `HouseDelivery` has four so that a deferred answer of three chunks can be
  heard to the end. Two surfaces of one house: houses share nothing but the database, and the proofs
  cover any number. `HouseProgress` adds a surface that is not bound, and one input for each
  way `respond` tells utterances apart.
* `BridgeSafety`: three calls, for a question with two commands beside it, or a question that
  finds the rows of two others. One utterance for every command and rule of `parse`, spelled
  plainly or not; two profiles, of which one is a child and shares an alias with the other; a
  configured window of 1 row, and a spoken one above the clamp. The provider answers, times out
  or returns a 5xx, each request taking its whole timeout, the worst case of `AnswerWithinSlot`
  (a broken connection is repeated like a 5xx, the other errors end a call like a timeout). The
  limits are 1024, 900 and 12 characters in the code and 7, 6 and 2 here: chunks of one to four
  characters, and every text of up to five (`SomeAnswers`), so that each kind of cut happens at
  the first, a middle and the last position. The files differ from a good household or legacy
  file in one field. Calls happen once each.
* `MaxParts` is 2 or 3: a first, a middle and a last chunk.
* `PairingSafety`: one application, since rows of different applications meet only in a lock
  that is taken too early; two houses, so that a surface can be bound to one and approved for
  the other; one account, the other half of the same condition (the theorems cover any
  number); three calls and two approvals: bound, asked again in the meantime, approved again
  and served.
* `CodexSafety`: seven messages, three of them responses: a turn with two changes of a device,
  a delta and the end, or one with two notifications queued before its response (`MaxQueued`).
  Two turns of one thread; a notification of another thread takes the branch of another
  turn's. A call ends, so deadlock is not checked.
* `CodexSafety` has Homey enabled; `ToolsAreOwn` is proved for both settings.
* `DeferredSafety`: two users, three calls: an answer of each user in flight, or one that two
  later calls of its user race for, or one that is late for a user whose next call is late too.
* `MemorySafety`: two profiles, three exchanges and a configured window of 2, so that the
  second exchange folds exactly as many rows as the window has (the boundary of `ReadBacklog`)
  and the third extends a summary; the spoken window 0 is clamped to 1. `MaxWindow` is 50 in the
  code. One Forget (`MaxForgets`) falls between any two steps. The violation runs need no
  more than one profile, and a window of 1 lets the first exchange fold.
* `MemorySafety` leaves out writes that take effect without being acknowledged, and
  `HouseSafety` such calls to the app-server; the theorems about the same properties include
  them.
* Symmetry is over requests, calls, exchanges, users, and surfaces of the same house; it is
  used in no run that checks a liveness property (`DeferredSafety` has none). The refinements and action properties
  checked with it are symmetric themselves.

### Fairness

`HungSpec` assumes weak fairness of each call's own steps: the tokio scheduler runs a ready
task, a store call returns (with any outcome), and the timer of the reply budget fires.
Nothing is assumed of the Codex app-server or the provider: no read of the socket has a time
limit. `HouseUnlocked` and `ThinkingEnds` are therefore stated under `RuntimeFairness`
(calls to the app-server return); while the app-server hangs, the house really stays locked.

## Proofs

All proofs are for arbitrary constants under the named assumptions of the modules
(`HouseOfAssumption`, `NoneAssumption`, ... : the constants are of their kind, `None` is no
request). TLC evaluates these assumptions in every run.

`HouseholdEngineProofs`

* `TypeCorrect`: `Spec => []TypeOK`. `TypeOK` is not inductive, since the shaper reads the
  answer of the text carried; `TypeInv` adds that a request about to speak carries a text
  and an arrived request has a surface.
* `SurfaceIsolation`: `Spec => []OnlyInitiatingSurface`. `SurfaceInv`: each row of a surface,
  each text a call carries and each reply name a request of the same surface. Only
  `MarkThinking` and `SaveReady` create such names, with the task's own surface.
* `OneConversation`: `Spec => []TurnsOnHouseThread`, and `MutualExclusion`:
  `Spec => []OneWorkPerHouse`, from `HouseInv`: a known thread id equals the house row
  (`save_thread_id` never replaces a different one, so stale copies can only be *empty*),
  and a live work task holds the lock of its house.
* `ImplementsHouseChat`: `Spec => KeepsOneChat`, the refinement of `HouseChat`. The initial
  states map to its initial states; `StepImplementsChat` shows action by action, from
  `HouseInv`, that a step is one of `Begin`, `Adopt`, `Answer`, `GiveUp` or a stutter. A second
  invariant (`NextNoWorkBeforeGate`) is needed for `Begin`: a request has no work task before
  it passed the gate.

`HouseholdDeliveryProofs`, on delivery, whose properties need the conditions of the run
`HouseDelivery`. They are hypotheses of the theorems: a surface waits for its reply
(`~Overlap`), the process lives (`~MayCrash`), the store answers (`StoreOutcomes = {"ok"}`).
The runtime may still fail or be lost, the deadline fire at any moment, and there may be any
number of surfaces, requests and chunks.

* `NoChunkTwice`: `[]SaidOnce`, and `SpokenInOrder`: `[]ChunksInOrder`, with rows that expire
  at any moment. `DeliveryInv` relates what was said to what is kept: nothing of an answer is
  said before it left its work task (`Released`); a ready row is an answer nobody has heard; a
  continuation, and the text a call carries, begin exactly where the speech ended (with one
  exception, the call that has saved the rest and not spoken yet); and the rest of an answer
  is in one place. Neither property says where the next chunk will come from, so neither is
  inductive.
* `EveryChunkKept`: `[]NothingLost`, when rows do not expire either. `KeepInv` adds what a call
  knows of the rows it read before its last await (`RowsKnown`), and that a work task always
  has someone waiting for it, `respond` or a saver whose mark nobody overwrites (`Awaited`).

`PairingProofs`

* `TypeCorrect`, `SurfaceKeepsHouse` (`[]BoundForGood`), `ApprovalMeansTyped`
  (`[]ApprovedAsTyped`) and `ApprovalHolds` (`[]ApprovalInForce`), from one invariant. Its
  core is `RowHeld`: between its `SELECT` and its end an approval holds the lock of the row it
  matched, and the row still has the code and the account it read. `SurfaceFixed` says that
  no step gives a bound surface another house or account; the two properties about surfaces
  follow, since what was once true of a bound surface stays true.

`DeferredAnswersProofs`

* `TypeCorrect`, `AtMostOnce` and `OwnUser`, from one invariant: a ready entry holds an answer
  of that user that landed there and was not spoken; a spoken answer came either through its
  own channel or through the map, and the generation task uses one of the two.
* `KeptButInRace`: `[]LostOnlyInRace`. The property is conditional on `calm`, that no user had
  two calls under way at once and no entry expired, and so is what `KeptInv` adds: the entry
  of a user is still what the call last saw or wrote, although `poll` reads and removes in two
  steps, and the mark of a question stays until its answer lands in it. Nothing has to be
  assumed of the constants, because no step makes `calm` true again (`CalmBefore`).

`CodexClientProofs`, for any threads and turns and any messages in any order

* `TypeCorrect`, `AnswerIsWhole` (`[]WholeAnswer`), `SuccessIsConfirmed` (`[]NoFalseSuccess`)
  and `ToolsAreOwn` (`[]OnlyOwnConnector`, with Homey and without), from `CallInv`. The queue holds notifications in
  the order of their arrival, and all of them until the turn has an id (`QueueInv`); while the
  turn goes on, what was looked at lies before what is queued, the text is exactly its deltas,
  and an unconfirmed change among it has set the flag (`CollectInv`). A property of the call's
  end cannot be inductive without what was true while it was collecting.
* `ProfileComesFirst` (`[]ConfinedFirst`): a call that is past `threadStart` or `resume` has
  read a response that confirms the profile.
* `RequestsAnswered` (`[]RequestsNeverIgnored`): a request is answered in the step that reads
  it, and `seen` only grows.

`ConversationMemoryProofs`

* `ProfileIsolation`: `Spec => []ProfilesApart`. What a task is about to store (inserted
  rows, backlog, previous summary) was said under the profile the task started with.
* `TypeCorrect`: `TypeInv` adds that ids are numbered below the next one. That
  `covers_until_message_id` is a number needs `LastIdIsGreatest`: a finite set of rows has a
  greatest id.
* The next three are about behaviours in which exchanges come one at a time; the condition is
  in the properties, through `trouble`, and a step that breaks it never mends it.
  * `FoldsMoveForward`: the action property `SummaryMovesForward`, whatever fails, from
    `OrderlyInv`: what a summarizer read several awaits ago is still what the tables say, and
    the rows it is about to fold lie after the summary. It has the hypothesis
    `ContextWindow > 0`, because a backlog at least as long as the window must not be empty.
  * `NothingDropped`: `[]SummaryComplete`, while the store answers, whatever the model does. The
    invariant adds that the history is the rows after the summary and those in it, and that a
    summarizer holds the whole old summary (`StoreAnswered`).
  * `BacklogStaysShort`: `[]BacklogBounded`, while nothing fails. `BacklogInv`: the rows outside
    the summary of a profile are fewer than two of the largest windows, or a summarizer of that
    profile is at work; folding what is older than the window (`OlderIsPrefix`,
    `FewAreNotOlder`) makes them fewer.

`ReplyShaperProofs`, what the shaper computes for every text and every limit

* `SplitUnfolds`: `SplitIntoChunks` of a text that is too long is a first chunk, not empty and
  within the limit, and `SplitIntoChunks` of the rest. `ChunksJoin`: its chunks join to the
  text. `Shaped` says the same of `ReplyShaper::split` with the question. `ClipFits`: what
  `clip_to_limit` returns fits, and is the text itself when that did.
* A recursive function is a `CHOOSE` of a function that satisfies its equation; that one exists
  is proved by extending it, one argument at a time. The provers cannot instantiate the library's
  induction theorems, so an induction is the statement that the set of counterexamples, having
  no least element, is empty (`UpTo`, `DownTo`); `LeastExists` rests on the library's theorem
  that the natural numbers are well founded.

`BridgeProofs`

* `AcceptedFilesBuild`: `Spec => []AcceptedFileBuilds`. `FileInv` adds that a file past its
  check is an accepted one; `AcceptedHasNoFault` goes through the checks of the constructors.
* The next four rest on `CallsInv`: a call that has no prompt yet has sent nothing, rows belong to
  calls that are over, and no call begins before the process serves.
  * `ExchangeHasOneSpeaker`: `Spec => []SpeakerOfExchange`; what `ask_llm` read under the lock
    is not written again while the exchange lasts.
  * `BilledOnce`: `Spec => []BilledAsAsked`, and `AnsweredWithinSlot`:
    `Spec => []AnswerWithinSlot`, from `SendingInv`: a call that may still send has spent
    nothing, or one request.
  * `ControlStaysHere`: `Spec => []ControlNeverAsked`. `DocumentedIsCommand`: for each documented
    command one of the first ten rules of `parse` applies, and the first rule that applies
    therefore asks nothing; `IntroductionHeard` and `WindowHeard` say so of the introductions
    and of the window command. The prover evaluates no `SubSeq` of a literal, hence `LastTwo`,
    `LastThree` and `ConcatCut`.
* `RepliesFit`: `Spec => []FitsPlatform`, `ChunksStaySame`: `Spec => []SameChunks`, and
  `ImplementsReadAloud`: `Spec => ReadsAloud`, the refinement of `ReadAloud`, from `ReadInv`:
  what is kept are the chunks of a text that is not empty, cut under the limit of the engine,
  and that limit leaves room for the question (`LimitInv`, which follows the limit from the
  file to the engine). `ReadsAloud` needs `LimitsAssumption`, that the largest `chunk_limit`
  is no more than Alice accepts (900 and 1024): otherwise `clip_to_limit` would cut the end of
  a chunk that is never read again. `StepReadsAloud` goes through the actions; the step with
  work in it is a continuation, which joins the chunks and cuts them again.

Only model-checked are the liveness properties `EveryRequestAnswered` (of both engines),
`HouseUnlocked` and `ThinkingEnds`: fairness and `ENABLED` are out of the prover's reach. Every
invariant, action property and refinement of a passing run is proved, some under the conditions
their runs state.

## Not modelled

* The wording of prompts and phrases, house instructions, dates and ages: text that nothing
  in the program reads again.
* JSON and TOML: a request or a file that cannot be read is an outcome.
* Encryption: library cryptography; that a payload cannot be opened is an outcome of the
  store, a bad key one of the start.
* The arithmetic of prices (floating point, rounded once per exchange) and of the usage
  report, which only reads.
* Characters inside a word for the command parser; bytes, which `reply.rs` and `response.rs`
  handle at character boundaries throughout.
* `testing.rs`, the fakes of the unit tests.

## Plan

1. The step part of the liveness properties as invariants, so that only fairness is left to
   TLC: a request that is not over has an enabled step of its own, or waits for the work task
   it spawned.
2. `SaidOnce` and `ChunksInOrder` under weaker conditions: a store that may fail, except
   between `save_continuation` and `clear_pending`, where a failure really breaks them.
