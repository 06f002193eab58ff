------------------------------- MODULE Bridge -------------------------------
(***************************************************************************)
(* The bridge process: main brings it up from a configuration (Startup),   *)
(* then the webhook route of crates/bridge-server/src/routes.rs dispatches *)
(* every call into the engine that was built, the OpenAI-compatible one    *)
(* (Dialogue) or the household one, and every reply leaves through         *)
(* WebhookResponse (ReplyShaper).                                          *)
(*                                                                         *)
(* Of the household engine this module has one surface and the text it is  *)
(* read; what may interleave, fail or expire meanwhile is HouseholdEngine. *)
(***************************************************************************)
EXTENDS Startup, Dialogue

CONSTANTS
    Requests,       \* what the webhook may be called with
    Application,    \* the application id, used for a caller without account
    Answers,        \* texts of a house's agent
    Completions     \* texts of a model behind the OpenAI-compatible API

\* WebhookRequest and the secret of its path: whose account, whether the
\* session is new, the utterance.
Call(knowsSecret, user, isNew, words) ==
    [knowsSecret |-> knowsSecret, user |-> user, isNew |-> isNew, words |-> words]

ASSUME RequestsAssumption ==
    \A r \in Requests : {r.knowsSecret, r.isNew} \subseteq BOOLEAN /\ r.words \in Seq(Words)
ASSUME TextsAssumption ==
    Answers \subseteq Seq(Characters) /\ Completions \subseteq Seq(Characters)
ASSUME LimitsAssumption == MaxChunkLimit <= MaxTextLen   \* 900 and 1024

VARIABLES
    sent,     \* the text of the reply that was just sent, if a model wrote it
    chunks,   \* the continuations row of the surface
    heard     \* what the surface was read of the last answer

readVars == <<sent, chunks, heard>>
vars     == <<startVars, dialogueVars, readVars>>

----------------------------------------------------------------------------
(* Starting and stopping. *)

\* Engine::new begins with the default profile.
Start ==
    /\ StartNext
    /\ active' = IF phase' = "listen" /\ backend'.mode = "legacy" THEN backend'.default ELSE active
    /\ UNCHANGED <<mode, tier, window, callVars, messages, readVars>>

Shutdown ==
    /\ Stop
    /\ LoseMemory
    /\ UNCHANGED readVars

\* The process is gone.
Ended ==
    /\ phase = "ended"
    /\ UNCHANGED vars

----------------------------------------------------------------------------
(* The webhook in front of the OpenAI-compatible engine. *)

\* The reply is a fixed phrase, or no reply but 404; nothing else happens.
Dismiss(c) ==
    /\ Goto(c, "over")
    /\ UNCHANGED <<stateVars, question, said, asked, prompt, tries, spent, messages>>

\* The user_id of the session, or the application_id where there is none.
Caller(user) == IF user = Nobody THEN Application ELSE user

Admitted(user) == backend.allowed = {} \/ Caller(user) \in backend.allowed

\* webhook: the secret, the list of accounts, the greeting, the engine.
Webhook(c, r) ==
    /\ phase = "serving" /\ backend.mode = "legacy"
    /\ at[c] = "idle"
    /\ \/ ~r.knowsSecret /\ Dismiss(c)
       \/ r.knowsSecret /\ ~Admitted(r.user) /\ Dismiss(c)
       \/ r.knowsSecret /\ Admitted(r.user) /\ r.isNew /\ r.words = <<>> /\ Dismiss(c)
       \/ r.knowsSecret /\ Admitted(r.user) /\ ~(r.isNew /\ r.words = <<>>) /\ Handle(c, r.words)
    /\ sent' = <<>>
    /\ UNCHANGED <<startVars, chunks, heard>>

\* A step of the call; what the model wrote is clipped on its way out.
Serve(c) ==
    /\ phase = "serving" /\ backend.mode = "legacy"
    /\ CallNext(c, backend.children)
    /\ IF at[c] = "record" THEN \E text \in Completions : sent' = ClipToLimit(text)
                           ELSE sent' = <<>>
    /\ UNCHANGED <<startVars, chunks, heard>>

----------------------------------------------------------------------------
(* The webhook in front of the household engine. *)

\* shape_and_save, and the reply: what is heard is what was sent, without the
\* question when there is one.
ShapeAndSave(text, before) ==
    LET shaped   == Split(text, backend.limit)
        asks     == IF shaped.remaining = <<>> THEN 0 ELSE Len(Suffix)
    IN  /\ chunks' = shaped.remaining
        /\ sent'   = ClipToLimit(shaped.spoken)
        /\ heard'  = before \o SubSeq(sent', 1, Len(sent') - asks)

\* A question goes to the agent of the house: nothing is left to read.
AskHouse ==
    /\ chunks = <<>> /\ heard # <<>>
    /\ sent' = <<>> /\ heard' = <<>>
    /\ UNCHANGED chunks

\* A finished turn, or a deferred answer.
AnswerHouse(text) ==
    /\ chunks = <<>> /\ heard = <<>>
    /\ ShapeAndSave(text, <<>>)

\* ContinuationDecision::Continue: the chunks are joined and cut again.
ContinueReading ==
    /\ chunks # <<>>
    /\ ShapeAndSave(FlattenSeq(chunks), heard)

\* ContinuationDecision::Stop.
StopReading ==
    /\ chunks # <<>>
    /\ chunks' = <<>>
    /\ sent'   = <<>>
    /\ UNCHANGED heard

\* ContinuationDecision::Empty: the chunks are put back.
AskAgain ==
    /\ chunks # <<>>
    /\ sent' = <<>>
    /\ UNCHANGED <<chunks, heard>>

\* A caller without an account, or without the secret, leaves no trace.
HouseCall ==
    /\ phase = "serving" /\ backend.mode = "household"
    /\ \/ AskHouse
       \/ \E text \in Answers : AnswerHouse(text)
       \/ ContinueReading
       \/ StopReading
       \/ AskAgain
    /\ UNCHANGED <<startVars, dialogueVars>>

----------------------------------------------------------------------------
Init ==
    /\ StartInit
    /\ DialogueInit
    /\ sent = <<>> /\ chunks = <<>> /\ heard = <<>>

Next ==
    \/ Start
    \/ Shutdown
    \/ Ended
    \/ \E c \in Calls :
          \/ \E r \in Requests : Webhook(c, r)
          \/ Serve(c)
    \/ HouseCall

Spec == Init /\ [][Next]_vars

----------------------------------------------------------------------------
(* Properties. *)

\* Every exchange has one speaker, a child's prompt has the safety block of
\* the role that config.toml gives the profile.
SpeakerOfExchange ==
    phase = "serving" /\ backend.mode = "legacy" => OneSpeaker(backend.children)

\* No reply is longer than Alice accepts, for any chunk_limit the file may set
\* and for a completion of any length.
FitsPlatform == Len(sent) <= MaxTextLen

Aloud == INSTANCE ReadAloud WITH left <- FlattenSeq(chunks)

\* Reading an answer in chunks is reading it aloud: nothing is lost, repeated
\* or clipped, no chunk is empty, until all was heard or the rest declined.
ReadsAloud == Aloud!Spec

\* Joining the saved chunks and cutting them again, as every continuation
\* does, gives the same chunks: an answer has its chunks once and for all.
SameChunks ==
    chunks # <<>> => SplitIntoChunks(FlattenSeq(chunks), backend.limit - Len(Suffix)) = chunks
=============================================================================
