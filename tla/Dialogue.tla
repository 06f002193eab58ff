------------------------------ MODULE Dialogue ------------------------------
(***************************************************************************)
(* One utterance of the OpenAI-compatible engine: handle, execute, ask_llm *)
(* and generate of crates/bridge-core/src/engine.rs, the prompt they build *)
(* (prompt.rs), the model presets (model.rs), and the provider client with *)
(* its retry (crates/llm-providers/src/openai.rs).                         *)
(*                                                                         *)
(* The dialogue state is one mutex for every user; a call takes it several *)
(* times and awaits the store and the provider in between, so calls of the *)
(* family interleave at each of these points.  A call is an utterance that *)
(* found no deferred answer; when its reply comes too late, DeferredAnswers *)
(* says what becomes of it.  Summaries are in ConversationMemory.          *)
(***************************************************************************)
EXTENDS CommandParser, FiniteSets

CONSTANTS
    Calls,            \* utterances that reach the engine, each at most once
    ContextWindow,    \* defaults.context_window of the configuration
    MaxWindow,        \* the upper clamp of the window, 50 in the code
    Timeout,          \* defaults.provider_timeout_secs
    ThinkingTtl,      \* THINKING_TTL of the slot a late answer waits for
    StoreOutcomes,    \* how a store call may end
    ProviderOutcomes, \* how a request to the provider may end
    Durations,        \* how long it may take, short of the timeout
    Nobody            \* no profile, no mode, no tier

\* Besides an answer: the timeout, a broken connection, 401 and 403, 429, a
\* 5xx and any other status, and a body that is not a completion.
ChatOutcomes == {"answer", "timeout", "network", "auth", "rateLimited", "server", "client", "invalid"}
Tiers == {"fast", "smart"}

ASSUME WindowAssumption   == ContextWindow \in Nat /\ MaxWindow \in Nat \ {0}
ASSUME TimeAssumption     == /\ Timeout \in Nat \ {0} /\ ThinkingTtl \in Nat
                             /\ Durations \subseteq 0..Timeout
ASSUME OutcomesAssumption == /\ StoreOutcomes \subseteq {"ok", "lost", "failed"}
                             /\ ProviderOutcomes \subseteq ChatOutcomes
ASSUME NobodyAssumption   == Nobody \notin ProfileNames \cup ModeNames \cup Tiers

VARIABLES
    active,     \* DialogueState: active_profile
    mode,       \* mode, or Nobody
    tier,       \* model_tier
    window,     \* window_override, or the configured window
    at,         \* at[c]: where call c is
    question,   \* question[c]: what the model is asked
    said,       \* history: said[c], the utterance that takes c to the model
    asked,      \* asked[c]: the profile, mode, tier and window c read
    prompt,     \* prompt[c]: the speaker, the safety block, mode and history
    tries,      \* tries[c]: the outcomes of the requests c sent
    spent,      \* spent[c]: the time they took
    messages    \* the table messages, a set of rows with ids

stateVars == <<active, mode, tier, window>>
callVars  == <<at, question, said, asked, prompt, tries, spent>>
dialogueVars == <<stateVars, callVars, messages>>

Locations == {"idle", "forget", "usage", "ask", "history", "send", "record", "over"}

\* What a call knows before it asks: a profile, or a tier, or neither.
AskedBy(profile, preset) == [profile |-> profile, mode |-> Nobody, tier |-> preset, window |-> 0]
NotAsked == AskedBy(Nobody, Nobody)
NoPrompt == [profile |-> Nobody, safety |-> FALSE, mode |-> Nobody, history |-> {}]

Goto(c, location) == at' = [at EXCEPT ![c] = location]

Clamp(n) == IF n < 1 THEN 1 ELSE IF n > MaxWindow THEN MaxWindow ELSE n

----------------------------------------------------------------------------
(* handle and execute. *)

\* The commands that only change the dialogue state, under one lock.
ChangeState(c, command) ==
    /\ command.kind \in {"introduce", "window", "smart", "fast", "exit", "who", "help"}
    /\ active' = IF command.kind = "introduce" THEN command.name ELSE active
    /\ window' = IF command.kind = "window" THEN Clamp(command.number) ELSE window
    /\ tier'   = CASE command.kind = "smart" -> "smart"
                   [] command.kind = "fast"  -> "fast"
                   [] OTHER                  -> tier
    /\ mode'   = IF command.kind = "exit" THEN Nobody ELSE mode
    /\ Goto(c, "over")
    /\ UNCHANGED <<question, said, asked>>

\* EnterMode: the mode is set under one lock, the question asked under another.
EnterMode(c, words, command) ==
    /\ command.kind = "enter"
    /\ mode' = command.name
    /\ question' = [question EXCEPT ![c] = words]
    /\ said' = [said EXCEPT ![c] = words]
    /\ Goto(c, "ask")
    /\ UNCHANGED <<active, tier, window, asked>>

\* Forget and UsageStats, up to their first query.
BeginQuery(c, command) ==
    /\ command.kind \in {"forget", "usage"}
    /\ asked' = [asked EXCEPT ![c] = AskedBy(active, Nobody)]
    /\ Goto(c, command.kind)
    /\ UNCHANGED <<stateVars, question, said>>

\* A question; think_hard overrides the tier for this one, and its phrase is
\* not part of what the model is asked.
BeginAsk(c, words, command) ==
    /\ command.kind \in {"ask", "askHard"}
    /\ question' = [question EXCEPT ![c] = command.text]
    /\ said' = [said EXCEPT ![c] = words]
    /\ asked' = IF command.kind = "askHard" THEN [asked EXCEPT ![c] = AskedBy(Nobody, "smart")] ELSE asked
    /\ Goto(c, "ask")
    /\ UNCHANGED stateVars

Handle(c, words) ==
    LET command == Parse(words)
    IN  /\ at[c] = "idle"
        /\ \/ ChangeState(c, command)
           \/ EnterMode(c, words, command)
           \/ BeginQuery(c, command)
           \/ BeginAsk(c, words, command)
        /\ UNCHANGED <<prompt, tries, spent, messages>>

\* clear_profile deletes what the profile said and heard, its costs included.
Forget(c, o) ==
    /\ at[c] = "forget"
    /\ messages' = IF o = "failed" THEN messages
                   ELSE {m \in messages : m.profile # asked[c].profile}
    /\ Goto(c, "over")
    /\ UNCHANGED <<stateVars, question, said, asked, prompt, tries, spent>>

\* usage_report reads the table twice and says what it read, or that it failed.
Usage(c) ==
    /\ at[c] = "usage"
    /\ Goto(c, "over")
    /\ UNCHANGED <<stateVars, question, said, asked, prompt, tries, spent, messages>>

----------------------------------------------------------------------------
(* ask_llm. *)

\* The state is read under one lock; a profile or mode changed since the
\* utterance was parsed counts, one changed later does not.
Ask(c) ==
    /\ at[c] = "ask"
    /\ asked' = [asked EXCEPT ![c] =
           [profile |-> active,
            mode    |-> mode,
            tier    |-> IF asked[c].tier = Nobody THEN tier ELSE asked[c].tier,
            window  |-> window]]
    /\ Goto(c, "history")
    /\ UNCHANGED <<stateVars, question, said, prompt, tries, spent, messages>>

\* recent_messages: the last rows of a profile.
RecentMessages(profile, limit) ==
    LET own == {m \in messages : m.profile = profile}
    IN  {m \in own : Cardinality({n \in own : n.id > m.id}) < limit}

\* Mutant of BuildPrompt: the speaker is whoever is active by now.
BuildPromptForActive(c, history, children) ==
    [profile |-> active,
     safety  |-> active \in children,
     mode    |-> asked[c].mode,
     history |-> history]

\* build_system_prompt and the messages after it.
BuildPrompt(c, history, children) ==
    [profile |-> asked[c].profile,
     safety  |-> asked[c].profile \in children,
     mode    |-> asked[c].mode,
     history |-> history]

\* A history that cannot be read is an empty one.
ReadHistory(c, o, children) ==
    /\ at[c] = "history"
    /\ LET history == IF o = "ok" THEN RecentMessages(asked[c].profile, asked[c].window) ELSE {}
       IN  prompt' = [prompt EXCEPT ![c] = BuildPrompt(c, history, children)]
    /\ Goto(c, "send")
    /\ UNCHANGED <<stateVars, question, said, asked, tries, spent, messages>>

----------------------------------------------------------------------------
(* generate and the provider client. *)

\* Mutant of MaySendAgain: every request that got no answer is repeated, twice.
MaySendAgainTwice(sent, o) == Len(sent) < 2 /\ o \in {"network", "server", "timeout"}

\* chat: one more request after a broken connection or a 5xx.
MaySendAgain(sent, o) == sent = <<>> /\ o \in {"network", "server"}

\* send_once, and what generate does with the outcome: record the answer, send
\* again, or reply with the phrase for the error.  No request outlives the
\* timeout; one that ends at it while its body is read is not a timeout but
\* what its status says.
SendOnce(c, o, d) ==
    /\ at[c] = "send"
    /\ o = "timeout" => d = Timeout
    /\ tries' = [tries EXCEPT ![c] = Append(@, o)]
    /\ spent' = [spent EXCEPT ![c] = @ + d]
    /\ \/ o = "answer" /\ Goto(c, "record")
       \/ o # "answer" /\ MaySendAgain(tries[c], o) /\ UNCHANGED at
       \/ o # "answer" /\ ~MaySendAgain(tries[c], o) /\ Goto(c, "over")
    /\ UNCHANGED <<stateVars, question, said, asked, prompt, messages>>

\* The id of a new row: after those of the table.  Ids only order the rows.
NextId == Max({0} \cup {m.id : m \in messages}) + 1

\* Mutant of Rows: the preset is looked up when the answer is there.
RowsAtTierOfState(c) ==
    {[id |-> NextId, call |-> c, role |-> "user", profile |-> asked[c].profile, price |-> Nobody],
     [id |-> NextId + 1, call |-> c, role |-> "assistant", profile |-> asked[c].profile, price |-> tier]}

\* ExchangeRecord: the answer is priced like the preset that was asked.
Rows(c) ==
    {[id |-> NextId, call |-> c, role |-> "user", profile |-> asked[c].profile, price |-> Nobody],
     [id |-> NextId + 1, call |-> c, role |-> "assistant", profile |-> asked[c].profile,
      price |-> asked[c].tier]}

\* record_exchange, one transaction; its failure is logged and no more.
Record(c, o) ==
    /\ at[c] = "record"
    /\ messages' = IF o = "failed" THEN messages ELSE messages \cup Rows(c)
    /\ Goto(c, "over")
    /\ UNCHANGED <<stateVars, question, said, asked, prompt, tries, spent>>

----------------------------------------------------------------------------
DialogueInit ==
    /\ active = Nobody /\ mode = Nobody /\ tier = "fast" /\ window = ContextWindow
    /\ at = [c \in Calls |-> "idle"]
    /\ question = [c \in Calls |-> <<>>]
    /\ said = [c \in Calls |-> <<>>]
    /\ asked = [c \in Calls |-> NotAsked]
    /\ prompt = [c \in Calls |-> NoPrompt]
    /\ tries = [c \in Calls |-> <<>>]
    /\ spent = [c \in Calls |-> 0]
    /\ messages = {}

\* What a process that ends leaves of the engine: the table only.
LoseMemory ==
    /\ active' = Nobody /\ mode' = Nobody /\ tier' = "fast" /\ window' = ContextWindow
    /\ at' = [c \in Calls |-> "over"]
    /\ question' = [c \in Calls |-> <<>>]
    /\ said' = [c \in Calls |-> <<>>]
    /\ asked' = [c \in Calls |-> NotAsked]
    /\ prompt' = [c \in Calls |-> NoPrompt]
    /\ tries' = [c \in Calls |-> <<>>]
    /\ spent' = [c \in Calls |-> 0]
    /\ UNCHANGED messages

\* The steps of a call after handle dispatched it.
CallNext(c, children) ==
    \/ Ask(c) \/ Usage(c)
    \/ \E o \in StoreOutcomes :
          Forget(c, o) \/ ReadHistory(c, o, children) \/ Record(c, o)
    \/ \E o \in ProviderOutcomes, d \in Durations \cup {Timeout} : SendOnce(c, o, d)

----------------------------------------------------------------------------
(* Properties. *)

RowsOf(c) == {m \in messages : m.call = c}

\* An exchange has one speaker: the prompt, its safety block, its history and
\* the rows that record it are those of the profile that was active when the
\* question was asked, whoever introduces themselves while it is under way;
\* a child's prompt always has the safety block.
OneSpeaker(children) ==
    \A c \in Calls : prompt[c] # NoPrompt =>
        /\ prompt[c].profile = asked[c].profile
        /\ prompt[c].safety = (prompt[c].profile \in children)
        /\ \A m \in prompt[c].history \cup RowsOf(c) : m.profile = prompt[c].profile

\* An exchange is counted once and at the price of the model that was asked:
\* not once per request sent, and not at the tier somebody has switched to
\* meanwhile.  One that got no answer is not counted.
BilledAsAsked ==
    \A c \in Calls : tries[c] # <<>> =>
        /\ RowsOf(c) # {} => Last(tries[c]) = "answer"
        /\ \A m, n \in RowsOf(c) : m.role = n.role => m = n
        /\ \A m \in RowsOf(c) : m.role = "assistant" => m.price = asked[c].tier

\* A question is answered, or given up, while the slot that waits for a late
\* answer lasts, though a request may be repeated after almost its timeout:
\* as long as two timeouts fit, which the configuration does not check.
AnswerWithinSlot == 2 * Timeout <= ThinkingTtl => \A c \in Calls : spent[c] <= ThinkingTtl

\* normalize, as its documentation describes it.
NormalForm(utterance) == FlattenSeq([i \in DOMAIN utterance |-> Normal[utterance[i]]])

\* Sentences the list of voice commands promises to obey, in normal form; the
\* number of the window in digits, a name as the configuration spells it.
Documented ==
    ForgetPhrases \cup UsagePhrases \cup WhoPhrases \cup ExitPhrases \cup HelpPhrases
        \cup {<<"pereklyuchis", "na", "umnuyu", "model">>, <<"smeni", "model", "na", "bystruyu">>}
        \cup {<<"pomni", "poslednie", n, "replik">> : n \in DOMAIN Numerals}
        \cup UNION {{p \o alias : p \in Introductions, alias \in Roster[i].called \ {<<>>}} :
                       i \in DOMAIN Roster}

\* "Control phrases that must never reach the model": no utterance that took a
\* call to the model was a documented command, however it was spelled and
\* punctuated when it was heard and whatever the roster and the modes are
\* called; and what the model is asked is one only where the utterance asked
\* it to think hard about that, since parse does not look at the rest again.
\* Not so, and left out of Documented: a number in words ("pomni poslednie
\* desyat replik", the example of the help text) and a name that normalize
\* changes, one with "yo" or a hyphen.
ControlNeverAsked ==
    \A c \in Calls :
        prompt[c] # NoPrompt =>
            /\ NormalForm(said[c]) \notin Documented
            /\ NormalForm(question[c]) \in Documented => StartsWith(NormalForm(said[c]), HardPhrases)
=============================================================================
