---------------------------- MODULE BridgeProofs ----------------------------
(***************************************************************************)
(* The bridge, for any configuration, roster, modes and phrases, any number *)
(* of calls under way, and whatever the provider and the database do: a     *)
(* file that loads builds, an exchange has one speaker and is counted once, *)
(* a call ends within two timeouts, no documented command is put to the     *)
(* model, every reply fits the platform, and reading an answer in chunks is *)
(* reading it aloud.                                                        *)
(***************************************************************************)
EXTENDS Bridge, ReplyShaperProofs

\* A file that is past its check was accepted.
FileInv ==
    /\ AcceptedFileBuilds
    /\ phase \in {"environment", "database", "build"} => file \in Files /\ Accepts(file)

\* An accepted file stops neither engine from being built.
LEMMA AcceptedHasNoFault ==
    ASSUME NEW f, Parses(f), Accepts(f), NEW ok \in BOOLEAN
    PROVE  /\ f.mode = "household" => HouseholdFault(f, ok) \in {"environment", "none"}
           /\ f.mode = "legacy" => LegacyFault(f, ok) \in {"environment", "none"}
  <1>1. ASSUME f.mode = "household" PROVE HouseholdFault(f, ok) \in {"environment", "none"}
    <2>1. Unwraps(f) /\ ~CodexRefuses(f) /\ LeavesRoom(f)
      BY <1>1 DEF Accepts, AcceptsHousehold, Unwraps, CodexRefuses, LeavesRoom
    <2> QED  BY <2>1 DEF HouseholdFault
  <1>2. ASSUME f.mode = "legacy" PROVE LegacyFault(f, ok) \in {"environment", "none"}
    BY DEF Accepts, LegacyFault, FindsPresets, FindsDefault
  <1> QED  BY <1>1, <1>2

LEMMA StartKeepsFileInv == FileInv /\ StartNext => FileInv'
  <1> SUFFICES ASSUME FileInv, StartNext PROVE FileInv'
    OBVIOUS
  <1> USE DEF FileInv, AcceptedFileBuilds, Advance, EndWith
  <1>1. PICK ok \in BOOLEAN :
            \/ \E f \in Files : Load(f, ok)
            \/ Provision("environment", "database", ok)
            \/ Provision("database", "build", ok)
            \/ Build(ok)
            \/ Listen(ok)
    BY DEF StartNext
  <1>2. CASE \E f \in Files : Load(f, ok)
    BY <1>2 DEF Load
  <1>3. CASE Provision("environment", "database", ok) \/ Provision("database", "build", ok)
    BY <1>3 DEF Provision
  <1>4. CASE Build(ok)
    <2>1. file \in Files /\ Accepts(file) /\ Parses(file)
      BY <1>4, FilesAssumption DEF Build
    <2>2. file.mode \in {"legacy", "household"}
      BY <2>1 DEF Parses
    <2>3. IF file.mode = "household" THEN HouseholdFault(file, ok) \in {"environment", "none"}
                                     ELSE LegacyFault(file, ok) \in {"environment", "none"}
      BY <2>1, <2>2, AcceptedHasNoFault
    <2> QED  BY <1>4, <2>3 DEF Build
  <1>5. CASE Listen(ok)
    BY <1>5 DEF Listen
  <1> QED  BY <1>1, <1>2, <1>3, <1>4, <1>5

\* No accepted file makes a constructor refuse or a process panic.
THEOREM AcceptedFilesBuild == Spec => []AcceptedFileBuilds
  <1>1. Init => FileInv
    BY DEF Init, StartInit, FileInv, AcceptedFileBuilds
  <1>2. FileInv /\ [Next]_vars => FileInv'
    <2> SUFFICES ASSUME FileInv, [Next]_vars PROVE FileInv'
      OBVIOUS
    <2>1. CASE Start
      BY <2>1, StartKeepsFileInv DEF Start
    <2>2. CASE Shutdown
      BY <2>2 DEF Shutdown, Stop, EndWith, FileInv, AcceptedFileBuilds
    <2>3. CASE UNCHANGED startVars
      BY <2>3 DEF startVars, FileInv, AcceptedFileBuilds
    <2>4. Next => Start \/ Shutdown \/ UNCHANGED startVars
      BY DEF Next, Ended, Webhook, Serve, HouseCall, vars
    <2> QED  BY <2>1, <2>2, <2>3, <2>4 DEF vars
  <1>3. FileInv => AcceptedFileBuilds
    BY DEF FileInv
  <1> QED  BY <1>1, <1>2, <1>3, PTL DEF Spec

----------------------------------------------------------------------------
(* Calls. *)

\* The places a call comes to before it has a prompt.
Early == {"idle", "forget", "usage", "ask", "history"}

CallsType ==
    /\ at \in [Calls -> Locations]
    /\ DOMAIN asked = Calls /\ DOMAIN prompt = Calls
    /\ tries \in [Calls -> Seq(ChatOutcomes)]
    /\ spent \in [Calls -> Nat]

\* What a call has not done yet, and what its rows say about it.
CallsInv ==
    /\ CallsType
    /\ \A c \in Calls : at[c] \in Early => prompt[c] = NoPrompt /\ tries[c] = <<>> /\ spent[c] = 0
    /\ \A m \in messages : m.call \in Calls /\ at[m.call] = "over"
    /\ phase \notin {"serving", "ended"} => \A c \in Calls : at[c] = "idle"

\* Every step of the bridge is one of these for the calls.
LEMMA StepOfCalls ==
    ASSUME [Next]_vars
    PROVE  \/ UNCHANGED dialogueVars /\ UNCHANGED backend /\ (phase' = "ended" \/ UNCHANGED phase)
           \/ Start
           \/ Shutdown
           \/ \E c \in Calls :
                 /\ phase = "serving" /\ backend.mode = "legacy" /\ UNCHANGED startVars
                 /\ \/ \E r \in Requests : at[c] = "idle" /\ (Dismiss(c) \/ Handle(c, r.words))
                    \/ CallNext(c, backend.children)
  <1>1. CASE UNCHANGED vars
    BY <1>1 DEF vars, startVars
  <1>2. CASE Ended
    BY <1>2 DEF Ended, vars, startVars
  <1>3. CASE \E c \in Calls, r \in Requests : Webhook(c, r)
    BY <1>3 DEF Webhook
  <1>4. CASE \E c \in Calls : Serve(c)
    BY <1>4 DEF Serve
  <1>5. CASE HouseCall
    BY <1>5 DEF HouseCall, startVars
  <1> QED  BY <1>1, <1>2, <1>3, <1>4, <1>5 DEF Next

LEMMA TimeoutInNat ==
    /\ Timeout \in Nat \ {0}
    /\ ThinkingTtl \in Nat
    /\ \A d \in Durations \cup {Timeout} : d \in Nat /\ d <= Timeout
  BY TimeAssumption

\* The kinds of utterances.
LEMMA KindOfHandle ==
    ASSUME NEW c \in Calls, NEW words, Handle(c, words), CallsInv
    PROVE  /\ at' \in [Calls -> Locations]
           /\ \A x \in Calls : x # c => at'[x] = at[x] /\ asked'[x] = asked[x]
           /\ at'[c] \in {"forget", "usage", "ask", "over"}
           /\ DOMAIN asked' = Calls
           /\ UNCHANGED <<prompt, tries, spent, messages>>
  <1> USE DEF CallsInv, CallsType, Goto, Locations
  <1> DEFINE command == Parse(words)
  <1> HIDE DEF command
  <1>0. \/ ChangeState(c, command) \/ EnterMode(c, words, command)
        \/ BeginQuery(c, command) \/ BeginAsk(c, words, command)
    BY DEF Handle, command
  <1>1. UNCHANGED <<prompt, tries, spent, messages>>
    BY DEF Handle
  <1>2. CASE ChangeState(c, command)
    BY <1>1, <1>2 DEF ChangeState
  <1>3. CASE EnterMode(c, words, command)
    BY <1>1, <1>3 DEF EnterMode
  <1>4. CASE BeginQuery(c, command)
    BY <1>1, <1>4 DEF BeginQuery
  <1>5. CASE BeginAsk(c, words, command)
    <2>1. at' = [at EXCEPT ![c] = "ask"]
      BY <1>5 DEF BeginAsk
    <2>2. \/ asked' = asked
          \/ asked' = [asked EXCEPT ![c] = AskedBy(Nobody, "smart")]
      BY <1>5 DEF BeginAsk
    <2> QED  BY <1>1, <2>1, <2>2
  <1> QED  BY <1>0, <1>2, <1>3, <1>4, <1>5

\* What a step of a call after its dispatch leaves alone.
LEMMA StepOfCall ==
    ASSUME NEW c \in Calls, NEW children, CallNext(c, children)
    PROVE  \/ Ask(c) \/ Usage(c)
           \/ \E o \in StoreOutcomes : Forget(c, o)
           \/ \E o \in StoreOutcomes : ReadHistory(c, o, children)
           \/ \E o \in StoreOutcomes : Record(c, o)
           \/ \E o \in ProviderOutcomes, d \in Durations \cup {Timeout} : SendOnce(c, o, d)
  BY DEF CallNext

LEMMA OutcomesKnown == StoreOutcomes \subseteq {"ok", "lost", "failed"} /\ ProviderOutcomes \subseteq ChatOutcomes
  BY OutcomesAssumption

LEMMA CallKeepsCallsInv ==
    ASSUME NEW c \in Calls, NEW children, CallsInv, CallNext(c, children), phase = "serving", phase' = phase
    PROVE  CallsInv'
  <1> USE DEF CallsInv, CallsType, Goto, Locations, Early
  <1>1. CASE Ask(c)
    BY <1>1 DEF Ask
  <1>2. CASE Usage(c)
    BY <1>2 DEF Usage
  <1>3. CASE \E o \in StoreOutcomes : Forget(c, o)
    BY <1>3 DEF Forget
  <1>4. CASE \E o \in StoreOutcomes : ReadHistory(c, o, children)
    BY <1>4 DEF ReadHistory
  <1>5. CASE \E o \in StoreOutcomes : Record(c, o)
    <2>1. \A m \in Rows(c) : m.call = c
      BY DEF Rows
    <2>2. PICK o \in StoreOutcomes : Record(c, o)
      BY <1>5
    <2>3. messages' \subseteq messages \cup Rows(c)
      BY <2>2 DEF Record
    <2> QED  BY <2>1, <2>2, <2>3 DEF Record
  <1>6. CASE \E o \in ProviderOutcomes, d \in Durations \cup {Timeout} : SendOnce(c, o, d)
    <2>1. PICK o \in ProviderOutcomes, d \in Durations \cup {Timeout} : SendOnce(c, o, d)
      BY <1>6
    <2>2. o \in ChatOutcomes /\ d \in Nat
      BY OutcomesKnown, TimeoutInNat
    <2>3. Append(tries[c], o) \in Seq(ChatOutcomes) /\ spent[c] + d \in Nat
      BY <2>2
    <2>4. tries' \in [Calls -> Seq(ChatOutcomes)] /\ spent' \in [Calls -> Nat]
      BY <2>1, <2>3 DEF SendOnce
    <2>5. /\ at' \in [Calls -> Locations]
          /\ at'[c] \in {"send", "record", "over"}
          /\ \A x \in Calls : x # c => at'[x] = at[x] /\ tries'[x] = tries[x] /\ spent'[x] = spent[x]
          /\ at[c] = "send"
          /\ UNCHANGED <<asked, prompt, messages>>
      BY <2>1 DEF SendOnce
    <2> QED  BY <2>4, <2>5
  <1> QED  BY <1>1, <1>2, <1>3, <1>4, <1>5, <1>6, StepOfCall

LEMMA InitCallsInv == Init => CallsInv
  BY DEF Init, DialogueInit, StartInit, CallsInv, CallsType, Locations, Early

LEMMA NextCallsInv == CallsInv /\ [Next]_vars => CallsInv'
  <1> SUFFICES ASSUME CallsInv, [Next]_vars PROVE CallsInv'
    OBVIOUS
  <1>1. CASE UNCHANGED dialogueVars /\ UNCHANGED backend /\ (phase' = "ended" \/ UNCHANGED phase)
    BY <1>1 DEF CallsInv, CallsType, dialogueVars, callVars
  <1>2. CASE Start
    <2>1. UNCHANGED <<callVars, messages>>
      BY <1>2 DEF Start
    <2>2. phase \notin {"serving", "ended"}
      BY <1>2 DEF Start, StartNext, Load, Provision, Build, Listen
    <2> QED  BY <2>1, <2>2 DEF CallsInv, CallsType, callVars
  <1>3. CASE Shutdown
    BY <1>3 DEF Shutdown, Stop, EndWith, LoseMemory, CallsInv, CallsType, Locations, Early
  <1>4. ASSUME NEW c \in Calls, phase = "serving", UNCHANGED startVars,
               at[c] = "idle", Dismiss(c)
        PROVE  CallsInv'
    BY <1>4 DEF Dismiss, Goto, CallsInv, CallsType, Locations, Early, startVars
  <1>5. ASSUME NEW c \in Calls, NEW words, phase = "serving", UNCHANGED startVars,
               at[c] = "idle", Handle(c, words)
        PROVE  CallsInv'
    <2>1. /\ at' \in [Calls -> Locations]
          /\ \A x \in Calls : x # c => at'[x] = at[x] /\ asked'[x] = asked[x]
          /\ at'[c] \in {"forget", "usage", "ask", "over"}
          /\ DOMAIN asked' = Calls
          /\ UNCHANGED <<prompt, tries, spent, messages>>
      BY <1>5, KindOfHandle
    <2> QED  BY <1>5, <2>1 DEF CallsInv, CallsType, Early, startVars
  <1>6. ASSUME NEW c \in Calls, phase = "serving", UNCHANGED startVars, CallNext(c, backend.children)
        PROVE  CallsInv'
    BY <1>6, CallKeepsCallsInv DEF startVars
  <1> QED  BY <1>1, <1>2, <1>3, <1>4, <1>5, <1>6, StepOfCalls

----------------------------------------------------------------------------
(* One speaker. *)

SpeakerInv == CallsInv /\ OneSpeaker(backend.children)

LEMMA CallKeepsSpeaker ==
    ASSUME NEW c \in Calls, SpeakerInv, CallNext(c, backend.children), UNCHANGED startVars,
           phase = "serving"
    PROVE  OneSpeaker(backend.children)'
  <1> USE DEF SpeakerInv, CallsInv, CallsType, Goto, Early
  <1>0. backend' = backend
    BY DEF startVars
  <1>1. CASE Ask(c)
    <2>1. prompt[c] = NoPrompt /\ UNCHANGED <<prompt, messages>>
      BY <1>1 DEF Ask
    <2>2. \A x \in Calls \ {c} : asked'[x] = asked[x]
      BY <1>1 DEF Ask
    <2> QED  BY <1>0, <2>1, <2>2 DEF OneSpeaker, RowsOf
  <1>2. CASE Usage(c)
    BY <1>0, <1>2 DEF Usage, OneSpeaker, RowsOf
  <1>3. CASE \E o \in StoreOutcomes : Forget(c, o)
    BY <1>0, <1>3 DEF Forget, OneSpeaker, RowsOf
  <1>4. CASE \E o \in StoreOutcomes : ReadHistory(c, o, backend.children)
    <2>1. PICK o \in StoreOutcomes : ReadHistory(c, o, backend.children)
      BY <1>4
    <2>2. \A m \in RecentMessages(asked[c].profile, asked[c].window) : m.profile = asked[c].profile
      BY DEF RecentMessages
    <2> DEFINE history == IF o = "ok" THEN RecentMessages(asked[c].profile, asked[c].window) ELSE {}
    <2>3. /\ prompt' = [prompt EXCEPT ![c] = BuildPrompt(c, history, backend.children)]
          /\ \A m \in history : m.profile = asked[c].profile
      BY <2>1, <2>2 DEF ReadHistory
    <2> HIDE DEF history
    <2>4. /\ prompt'[c].profile = asked[c].profile
          /\ prompt'[c].safety = (asked[c].profile \in backend.children)
          /\ prompt'[c].history = history
      BY <2>3 DEF BuildPrompt
    <2>5. UNCHANGED <<asked, messages>> /\ \A m \in messages : m.call # c
      BY <2>1 DEF ReadHistory
    <2>6. \A x \in Calls \ {c} : prompt'[x] = prompt[x] /\ asked'[x] = asked[x]
      BY <2>3, <2>5
    <2> QED  BY <1>0, <2>3, <2>4, <2>5, <2>6 DEF OneSpeaker, RowsOf
  <1>5. CASE \E o \in StoreOutcomes : Record(c, o)
    <2>1. UNCHANGED <<asked, prompt>> /\ messages' \subseteq messages \cup Rows(c)
      BY <1>5 DEF Record
    <2>2. \A m \in Rows(c) : m.call = c /\ m.profile = asked[c].profile
      BY DEF Rows
    <2> QED  BY <1>0, <2>1, <2>2 DEF OneSpeaker, RowsOf
  <1>6. CASE \E o \in ProviderOutcomes, d \in Durations \cup {Timeout} : SendOnce(c, o, d)
    <2>1. UNCHANGED <<asked, prompt, messages>>
      BY <1>6 DEF SendOnce
    <2> QED  BY <1>0, <2>1 DEF OneSpeaker, RowsOf
  <1> QED  BY <1>1, <1>2, <1>3, <1>4, <1>5, <1>6, StepOfCall

LEMMA NextSpeakerInv == SpeakerInv /\ [Next]_vars => SpeakerInv'
  <1> SUFFICES ASSUME SpeakerInv, [Next]_vars PROVE OneSpeaker(backend.children)'
    BY NextCallsInv DEF SpeakerInv
  <1> USE DEF SpeakerInv, CallsInv, CallsType, Early
  <1>1. CASE UNCHANGED dialogueVars /\ UNCHANGED backend /\ (phase' = "ended" \/ UNCHANGED phase)
    BY <1>1 DEF dialogueVars, callVars, OneSpeaker, RowsOf
  <1>2. CASE Start
    <2>1. UNCHANGED prompt
      BY <1>2 DEF Start, callVars
    <2>2. phase \notin {"serving", "ended"}
      BY <1>2 DEF Start, StartNext, Load, Provision, Build, Listen
    <2> QED  BY <2>1, <2>2 DEF OneSpeaker
  <1>3. CASE Shutdown
    BY <1>3 DEF Shutdown, LoseMemory, OneSpeaker
  <1>4. ASSUME NEW c \in Calls, UNCHANGED startVars, at[c] = "idle", Dismiss(c)
        PROVE  OneSpeaker(backend.children)'
    BY <1>4 DEF Dismiss, OneSpeaker, RowsOf, startVars
  <1>5. ASSUME NEW c \in Calls, NEW words, UNCHANGED startVars, at[c] = "idle", Handle(c, words)
        PROVE  OneSpeaker(backend.children)'
    <2>1. /\ \A x \in Calls : x # c => asked'[x] = asked[x]
          /\ UNCHANGED <<prompt, messages>>
      BY <1>5, KindOfHandle
    <2>2. prompt[c] = NoPrompt
      BY <1>5
    <2> QED  BY <1>5, <2>1, <2>2 DEF OneSpeaker, RowsOf, startVars
  <1>6. ASSUME NEW c \in Calls, phase = "serving", UNCHANGED startVars, CallNext(c, backend.children)
        PROVE  OneSpeaker(backend.children)'
    BY <1>6, CallKeepsSpeaker
  <1> QED  BY <1>1, <1>2, <1>3, <1>4, <1>5, <1>6, StepOfCalls

\* Prompt, safety block, history and rows of an exchange are of one profile,
\* for any family, any number of calls and any interleaving.
THEOREM ExchangeHasOneSpeaker == Spec => []SpeakerOfExchange
  <1>1. Init => SpeakerInv
    BY InitCallsInv DEF Init, DialogueInit, SpeakerInv, OneSpeaker
  <1>2. SpeakerInv => SpeakerOfExchange
    BY DEF SpeakerInv, SpeakerOfExchange
  <1> QED  BY <1>1, <1>2, NextSpeakerInv, PTL DEF Spec

----------------------------------------------------------------------------
(* Requests to the provider: how often, how long, and what they cost. *)

\* A call that may still send has sent at most once; one that records has its
\* answer.
SendingInv ==
    \A c \in Calls :
        /\ at[c] = "send" => \/ tries[c] = <<>> /\ spent[c] = 0
                             \/ tries[c] # <<>> /\ spent[c] <= Timeout
        /\ at[c] = "record" => tries[c] # <<>> /\ Last(tries[c]) = "answer"
        /\ spent[c] <= 2 * Timeout

ProviderInv == CallsInv /\ SendingInv /\ BilledAsAsked

LEMMA LastOfAppend ==
    ASSUME NEW S, NEW t \in Seq(S), NEW o \in S
    PROVE  Append(t, o) # <<>> /\ Last(Append(t, o)) = o
  <1>1. Len(Append(t, o)) = Len(t) + 1 /\ Append(t, o)[Len(t) + 1] = o /\ Len(t) \in Nat
    OBVIOUS
  <1>2. Len(<<>>) = 0
    OBVIOUS
  <1> QED  BY <1>1, <1>2 DEF Last

LEMMA CallKeepsSending ==
    ASSUME NEW c \in Calls, ProviderInv, NEW children, CallNext(c, children)
    PROVE  SendingInv'
  <1> USE TimeoutInNat DEF ProviderInv, CallsInv, CallsType, Goto, Early, SendingInv
  <1>1. CASE Ask(c)
    BY <1>1 DEF Ask
  <1>2. CASE Usage(c)
    BY <1>2 DEF Usage
  <1>3. CASE \E o \in StoreOutcomes : Forget(c, o)
    BY <1>3 DEF Forget
  <1>4. CASE \E o \in StoreOutcomes : ReadHistory(c, o, children)
    BY <1>4 DEF ReadHistory
  <1>5. CASE \E o \in StoreOutcomes : Record(c, o)
    BY <1>5 DEF Record
  <1>6. CASE \E o \in ProviderOutcomes, d \in Durations \cup {Timeout} : SendOnce(c, o, d)
    <2>1. PICK o \in ProviderOutcomes, d \in Durations \cup {Timeout} : SendOnce(c, o, d)
      BY <1>6
    <2>2. /\ o \in ChatOutcomes /\ d \in Nat /\ d <= Timeout
          /\ tries[c] \in Seq(ChatOutcomes) /\ spent[c] \in Nat
      BY OutcomesKnown
    <2>3. Append(tries[c], o) # <<>> /\ Last(Append(tries[c], o)) = o
      BY <2>2, LastOfAppend
    <2>4. /\ at[c] = "send"
          /\ tries'[c] = Append(tries[c], o) /\ spent'[c] = spent[c] + d
          /\ \A x \in Calls \ {c} : at'[x] = at[x] /\ tries'[x] = tries[x] /\ spent'[x] = spent[x]
      BY <2>1 DEF SendOnce
    <2>a. tries'[c] # <<>> /\ Last(tries'[c]) = o
      BY <2>3, <2>4
    <2>b. (tries[c] = <<>> /\ spent[c] = 0) \/ spent[c] <= Timeout
      BY <2>4
    <2>c. spent'[c] <= 2 * Timeout /\ (tries[c] = <<>> => spent'[c] <= Timeout)
      BY <2>2, <2>4, <2>b
    <2>5. CASE o = "answer" /\ at'[c] = "record"
      BY <2>a, <2>c, <2>4, <2>5
    <2>6. CASE tries[c] = <<>> /\ at'[c] = "send"
      BY <2>a, <2>c, <2>4, <2>6
    <2>7. CASE at'[c] = "over"
      BY <2>a, <2>c, <2>4, <2>7
    <2>8. \/ o = "answer" /\ at'[c] = "record"
          \/ tries[c] = <<>> /\ at'[c] = "send"
          \/ at'[c] = "over"
      BY <2>1 DEF SendOnce, MaySendAgain
    <2> QED  BY <2>5, <2>6, <2>7, <2>8
  <1> QED  BY <1>1, <1>2, <1>3, <1>4, <1>5, <1>6, StepOfCall

LEMMA CallKeepsBilled ==
    ASSUME NEW c \in Calls, ProviderInv, NEW children, CallNext(c, children)
    PROVE  BilledAsAsked'
  <1> USE DEF ProviderInv, CallsInv, CallsType, Goto, Early, BilledAsAsked, RowsOf
  <1>1. CASE Ask(c)
    BY <1>1 DEF Ask
  <1>2. CASE Usage(c)
    BY <1>2 DEF Usage
  <1>3. CASE \E o \in StoreOutcomes : Forget(c, o)
    BY <1>3 DEF Forget
  <1>4. CASE \E o \in StoreOutcomes : ReadHistory(c, o, children)
    BY <1>4 DEF ReadHistory
  <1>5. CASE \E o \in StoreOutcomes : Record(c, o)
    <2>1. UNCHANGED <<asked, tries>> /\ messages' \subseteq messages \cup Rows(c) /\ at[c] = "record"
      BY <1>5 DEF Record
    <2>2. /\ \A m \in messages : m.call # c
          /\ Last(tries[c]) = "answer"
      BY <2>1 DEF SendingInv
    <2>3. /\ \A m \in Rows(c) : m.call = c /\ (m.role = "assistant" => m.price = asked[c].tier)
          /\ \A m, n \in Rows(c) : m.role = n.role => m = n
      BY DEF Rows
    <2> QED  BY <2>1, <2>2, <2>3
  <1>6. CASE \E o \in ProviderOutcomes, d \in Durations \cup {Timeout} : SendOnce(c, o, d)
    <2>1. /\ at[c] = "send" /\ UNCHANGED <<asked, messages>>
          /\ \A x \in Calls \ {c} : tries'[x] = tries[x]
      BY <1>6 DEF SendOnce
    <2> QED  BY <2>1
  <1> QED  BY <1>1, <1>2, <1>3, <1>4, <1>5, <1>6, StepOfCall

LEMMA NextProviderInv == ProviderInv /\ [Next]_vars => ProviderInv'
  <1> SUFFICES ASSUME ProviderInv, [Next]_vars PROVE SendingInv' /\ BilledAsAsked'
    BY NextCallsInv DEF ProviderInv
  <1> USE DEF ProviderInv, CallsInv, CallsType, Early
  <1>1. CASE UNCHANGED dialogueVars /\ UNCHANGED backend /\ (phase' = "ended" \/ UNCHANGED phase)
    BY <1>1 DEF dialogueVars, callVars, SendingInv, BilledAsAsked, RowsOf
  <1>2. CASE Start
    BY <1>2 DEF Start, callVars, SendingInv, BilledAsAsked, RowsOf
  <1>3. CASE Shutdown
    BY <1>3, TimeoutInNat DEF Shutdown, LoseMemory, SendingInv, BilledAsAsked
  <1>4. ASSUME NEW c \in Calls, at[c] = "idle", Dismiss(c)
        PROVE  SendingInv' /\ BilledAsAsked'
    BY <1>4 DEF Dismiss, Goto, SendingInv, BilledAsAsked, RowsOf
  <1>5. ASSUME NEW c \in Calls, NEW words, at[c] = "idle", Handle(c, words)
        PROVE  SendingInv' /\ BilledAsAsked'
    <2>1. /\ \A x \in Calls : x # c => at'[x] = at[x] /\ asked'[x] = asked[x]
          /\ at'[c] \in {"forget", "usage", "ask", "over"}
          /\ UNCHANGED <<prompt, tries, spent, messages>>
      BY <1>5, KindOfHandle
    <2>2. tries[c] = <<>> /\ spent[c] = 0
      BY <1>5
    <2>3. SendingInv'
      BY <2>1, <2>2, TimeoutInNat DEF SendingInv
    <2>4. BilledAsAsked'
      <3> SUFFICES ASSUME NEW x \in Calls, tries[x] # <<>>
                   PROVE  /\ RowsOf(x) # {} => Last(tries[x]) = "answer"
                          /\ \A m, n \in RowsOf(x) : m.role = n.role => m = n
                          /\ \A m \in RowsOf(x) : m.role = "assistant" => m.price = asked'[x].tier
        BY <2>1 DEF BilledAsAsked, RowsOf
      <3>1. asked'[x] = asked[x]
        BY <2>1, <2>2
      <3> QED  BY <3>1 DEF BilledAsAsked
    <2> QED  BY <2>3, <2>4
  <1>6. ASSUME NEW c \in Calls, CallNext(c, backend.children)
        PROVE  SendingInv' /\ BilledAsAsked'
    BY <1>6, CallKeepsSending, CallKeepsBilled
  <1> QED  BY <1>1, <1>2, <1>3, <1>4, <1>5, <1>6, StepOfCalls

LEMMA AlwaysProviderInv == Spec => []ProviderInv
  <1>1. Init => ProviderInv
    BY InitCallsInv, TimeoutInNat DEF Init, DialogueInit, ProviderInv, SendingInv, BilledAsAsked
  <1> QED  BY <1>1, NextProviderInv, PTL DEF Spec

\* An exchange is counted at most once, at the price of the model asked, and
\* only when it was answered, however often the request was sent.
THEOREM BilledOnce == Spec => []BilledAsAsked
  <1>1. ProviderInv => BilledAsAsked
    BY DEF ProviderInv
  <1> QED  BY <1>1, AlwaysProviderInv, PTL

\* Whatever the provider does, a call is over within two timeouts: in time for
\* the slot of the late answer, if the slot is that long.
THEOREM AnsweredWithinSlot == Spec => []AnswerWithinSlot
  <1>1. ProviderInv => AnswerWithinSlot
    BY TimeoutInNat DEF ProviderInv, CallsInv, CallsType, SendingInv, AnswerWithinSlot
  <1> QED  BY <1>1, AlwaysProviderInv, PTL

----------------------------------------------------------------------------
(* Control phrases. *)

LEMMA FirstOfRules ==
    ASSUME NEW P \in SUBSET (1..13), NEW k \in P
    PROVE  First(P) \in P /\ First(P) <= k
  <1>1. \E i \in P : \A j \in P : i <= j
    <2>1. \A n \in 1..13 : n \in P \/ n \notin P
      OBVIOUS
    <2> QED  BY SMTT(60)
  <1> QED  BY <1>1 DEF First

\* The last two and the last three words of four.
LEMMA LastTwo ==
    ASSUME NEW a, NEW b, NEW c, NEW d
    PROVE  SubSeq(<<a, b, c, d>>, 3, 4) = <<c, d>>
  <1> DEFINE S == {a, b, c, d}
             s == <<a, b, c, d>>
             t == SubSeq(s, 3, 4)
             u == <<c, d>>
  <1>1. s \in Seq(S) /\ Len(s) = 4 /\ s[3] = c /\ s[4] = d
    OBVIOUS
  <1>a. b \in S /\ c \in S /\ d \in S
    OBVIOUS
  <1>2. u \in Seq(S) /\ Len(u) = 2 /\ u[1] = c /\ u[2] = d
    OBVIOUS
  <1> HIDE DEF S, s, u
  <1>3. t \in Seq(S) /\ Len(t) = 2 /\ \A i \in 1..2 : t[i] = s[3 + i - 1]
    <2>1. \A i \in 3..4 : s[i] \in S
      BY <1>a, <1>1
    <2>2. 3 \in Int /\ 4 \in Int /\ 3 <= 4 /\ 4 - 3 + 1 = 2
      OBVIOUS
    <2> QED  BY <2>1, <2>2, SubSeqProperties
  <1>4. t[1] = s[3] /\ t[2] = s[4]
    BY <1>3
  <1> HIDE DEF t
  <1>5. \A i \in 1..Len(t) : t[i] = u[i]
    BY <1>1, <1>2, <1>3, <1>4
  <1>6. t = u
    BY <1>2, <1>3, <1>5, SeqEqual
  <1> QED  BY <1>6 DEF t, s, u

LEMMA LastThree ==
    ASSUME NEW a, NEW b, NEW c, NEW d
    PROVE  SubSeq(<<a, b, c, d>>, 2, 4) = <<b, c, d>>
  <1> DEFINE S == {a, b, c, d}
             s == <<a, b, c, d>>
             t == SubSeq(s, 2, 4)
             u == <<b, c, d>>
  <1>1. s \in Seq(S) /\ Len(s) = 4 /\ s[2] = b /\ s[3] = c /\ s[4] = d
    OBVIOUS
  <1>a. b \in S /\ c \in S /\ d \in S
    OBVIOUS
  <1>2. u \in Seq(S) /\ Len(u) = 3 /\ u[1] = b /\ u[2] = c /\ u[3] = d
    OBVIOUS
  <1> HIDE DEF S, s, u
  <1>3. t \in Seq(S) /\ Len(t) = 3 /\ \A i \in 1..3 : t[i] = s[2 + i - 1]
    <2>1. \A i \in 2..4 : s[i] \in S
      BY <1>a, <1>1
    <2>2. 2 \in Int /\ 4 \in Int /\ 2 <= 4 /\ 4 - 2 + 1 = 3
      OBVIOUS
    <2> QED  BY <2>1, <2>2, SubSeqProperties
  <1>4. t[1] = s[2] /\ t[2] = s[3] /\ t[3] = s[4]
    BY <1>3
  <1> HIDE DEF t
  <1>5. \A i \in 1..Len(t) : t[i] = u[i]
    BY <1>1, <1>2, <1>3, <1>4
  <1>6. t = u
    BY <1>2, <1>3, <1>5, SeqEqual
  <1> QED  BY <1>6 DEF t, s, u

\* The two documented sentences hold the phrases that switch the model.
LEMMA SentencesMention ==
    /\ Mentions(<<"pereklyuchis", "na", "umnuyu", "model">>, SmartPhrases)
    /\ Mentions(<<"smeni", "model", "na", "bystruyu">>, FastPhrases)
  <1> DEFINE smart == <<"pereklyuchis", "na", "umnuyu", "model">>
             fast  == <<"smeni", "model", "na", "bystruyu">>
  <1>1. \E i \in 0..Len(smart) - 2 : SubSeq(smart, i + 1, i + 2) = <<"umnuyu", "model">>
    <2>1. Len(smart) = 4 /\ 2 \in 0..4 - 2 /\ 2 + 1 = 3 /\ 2 + 2 = 4
      OBVIOUS
    <2> HIDE DEF smart
    <2>2. SubSeq(smart, 3, 4) = <<"umnuyu", "model">>
      BY LastTwo DEF smart
    <2> QED  BY <2>1, <2>2
  <1>2. \E i \in 0..Len(fast) - 3 : SubSeq(fast, i + 1, i + 3) = <<"model", "na", "bystruyu">>
    <2>1. Len(fast) = 4 /\ 1 \in 0..4 - 3 /\ 1 + 1 = 2 /\ 1 + 3 = 4
      OBVIOUS
    <2> HIDE DEF fast
    <2>2. SubSeq(fast, 2, 4) = <<"model", "na", "bystruyu">>
      BY LastThree DEF fast
    <2> QED  BY <2>1, <2>2
  <1> HIDE DEF smart, fast
  <1>3. Mentions(smart, SmartPhrases)
    <2> DEFINE phrase == <<"umnuyu", "model">>
    <2>1. phrase \in SmartPhrases /\ Len(phrase) = 2
      BY DEF SmartPhrases
    <2>2. \E i \in 0..Len(smart) - 2 : SubSeq(smart, i + 1, i + 2) = phrase
      BY <1>1
    <2> HIDE DEF phrase
    <2>3. \E i \in 0..Len(smart) - Len(phrase) : SubSeq(smart, i + 1, i + Len(phrase)) = phrase
      BY <2>1, <2>2
    <2> QED  BY <2>1, <2>3 DEF Mentions
  <1>4. Mentions(fast, FastPhrases)
    <2> DEFINE phrase == <<"model", "na", "bystruyu">>
    <2>1. phrase \in FastPhrases /\ Len(phrase) = 3
      BY DEF FastPhrases
    <2>2. \E i \in 0..Len(fast) - 3 : SubSeq(fast, i + 1, i + 3) = phrase
      BY <1>2
    <2> HIDE DEF phrase
    <2>3. \E i \in 0..Len(fast) - Len(phrase) : SubSeq(fast, i + 1, i + Len(phrase)) = phrase
      BY <2>1, <2>2
    <2> QED  BY <2>1, <2>3 DEF Mentions
  <1> QED  BY <1>3, <1>4 DEF smart, fast

\* What is left of two joined sequences without the first.
LEMMA ConcatCut ==
    ASSUME NEW S, NEW p \in Seq(S), NEW a \in Seq(S), a # <<>>
    PROVE  /\ IsStrictPrefix(p, p \o a)
           /\ SubSeq(p \o a, Len(p) + 1, Len(p \o a)) = a
  <1>1. /\ p \o a \in Seq(S) /\ Len(p \o a) = Len(p) + Len(a)
        /\ Len(p) \in Nat /\ Len(a) \in Nat /\ Len(a) > 0
    BY ConcatProperties, LenProperties, EmptySeq
  <1>2. SubSeq(p \o a, 1, Len(p)) = SubSeq(p, 1, Len(p))
    <2>1. 1 \in 1 .. Len(p) + 1 /\ Len(p) \in 1 - 1 .. Len(p)
      BY <1>1
    <2> QED  BY <2>1, SubSeqOfConcat1
  <1>3. p # p \o a
    BY <1>1
  <1>4. IsStrictPrefix(p, p \o a)
    BY <1>1, <1>2, <1>3 DEF IsStrictPrefix, IsPrefix
  <1>5. SubSeq(p \o a, Len(p) + 1, Len(p \o a)) = SubSeq(a, 1, Len(a))
    <2>1. Len(p) + 1 \in Len(p) + 1 .. Len(p) + Len(a) + 1 /\ Len(p \o a) \in (Len(p) + 1) - 1 .. Len(p) + Len(a)
      BY <1>1
    <2>2. SubSeq(p \o a, Len(p) + 1, Len(p \o a)) = SubSeq(a, (Len(p) + 1) - Len(p), Len(p \o a) - Len(p))
      BY <2>1, SubSeqOfConcat2
    <2>3. (Len(p) + 1) - Len(p) = 1 /\ Len(p \o a) - Len(p) = Len(a)
      BY <1>1
    <2> QED  BY <2>2, <2>3
  <1>6. SubSeq(a, 1, Len(a)) = a
    BY SubSeqFull
  <1> QED  BY <1>4, <1>5, <1>6

\* A name of the roster after a phrase of introduction introduces somebody.
LEMMA IntroductionHeard ==
    ASSUME NEW i \in DOMAIN Roster, NEW alias \in Roster[i].called \ {<<>>}, NEW p \in Introductions
    PROVE  Introduced(p \o alias) # {}
  <1> DEFINE S == Words \cup {"eto", "ya", "menya", "zovut", "govorit"}
  <1>1. p \in Seq(S)
    <2>1. CASE p = <<"menya", "zovut">>
      BY <2>1
    <2>2. CASE \E w \in {"eto", "ya", "govorit"} : p = <<w>>
      BY <2>2
    <2> QED  BY <2>1, <2>2 DEF Introductions
  <1>2. alias \in Seq(S)
    <2>1. alias \in Seq(Words)
      BY WordsAssumption
    <2> QED  BY <2>1
  <1> HIDE DEF S
  <1>3. /\ IsStrictPrefix(p, p \o alias)
        /\ SubSeq(p \o alias, Len(p) + 1, Len(p \o alias)) = alias
    BY <1>1, <1>2, ConcatCut
  <1>4. i \in CalledLike(alias)
    BY DEF CalledLike
  <1>5. i \in Introduced(p \o alias)
    BY <1>3, <1>4 DEF Introduced
  <1> QED  BY <1>5

\* The documented sentence for the window, with its number in digits.
LEMMA WindowHeard ==
    ASSUME NEW n \in DOMAIN Numerals
    PROVE  /\ StartsWith(<<"pomni", "poslednie", n, "replik">>, WindowPhrases)
           /\ NumbersIn(<<"pomni", "poslednie", n, "replik">>) # {}
  <1> DEFINE S == {"pomni", "poslednie", n, "replik"}
             p == <<"pomni", "poslednie">>
             a == <<n, "replik">>
             s == <<"pomni", "poslednie", n, "replik">>
  <1>1. p \in Seq(S) /\ a \in Seq(S) /\ a # <<>>
    OBVIOUS
  <1>2. s = p \o a
    OBVIOUS
  <1>3. 3 \in DOMAIN s /\ s[3] = n
    OBVIOUS
  <1>4. p \in WindowPhrases
    BY DEF WindowPhrases
  <1> HIDE DEF S, p, a, s
  <1>5. IsPrefix(p, s)
    BY <1>1, <1>2, ConcatCut DEF IsStrictPrefix
  <1>6. StartsWith(s, WindowPhrases)
    BY <1>4, <1>5 DEF StartsWith
  <1>7. NumbersIn(s) # {}
    BY <1>3 DEF NumbersIn
  <1> QED  BY <1>6, <1>7 DEF s

\* A documented command is parsed as one: a rule before those that ask applies.
\* A question to think hard about begins with the phrase for that.
LEMMA DocumentedIsCommand ==
    ASSUME NEW words
    PROVE  /\ Normalize(words) \in Documented => Parse(words).kind \notin {"enter", "ask", "askHard"}
           /\ Parse(words).kind = "askHard" => StartsWith(Normalize(words), HardPhrases)
  <1> DEFINE norm  == Normalize(words)
             rules == Rules(norm)
             P     == {i \in DOMAIN rules : rules[i][1]}
  <1>1. Parse(words).kind = rules[First(P)][2]
    BY DEF Parse
  <1>2. DOMAIN rules = 1..13
    BY DEF Rules
  <1>3. \A i \in 1..10 : rules[i][2] \notin {"enter", "ask", "askHard"}
    BY DEF Rules
  <1>4. /\ rules[2][1] <=> Introduced(norm) # {}
        /\ rules[3][1] <=> norm \in ForgetPhrases
        /\ rules[4][1] <=> norm \in UsagePhrases
        /\ rules[5][1] <=> norm \in WhoPhrases
        /\ rules[6][1] <=> norm \in ExitPhrases
        /\ rules[7][1] <=> norm \in HelpPhrases
        /\ rules[8][1] <=> StartsWith(norm, WindowPhrases) /\ NumbersIn(norm) # {}
        /\ rules[9][1] <=> Mentions(norm, SmartPhrases)
        /\ rules[10][1] <=> Mentions(norm, FastPhrases)
        /\ rules[12][1] <=> StartsWith(norm, HardPhrases)
        /\ rules[13][1]
    BY DEF Rules
  <1>h. \A i \in 1..13 : rules[i][2] = "askHard" => i = 12
    BY DEF Rules
  <1> HIDE DEF rules, norm
  <1>5. ASSUME norm \in Documented
        PROVE  rules[First(P)][2] \notin {"enter", "ask", "askHard"}
    <2>1. \E k \in 1..10 : k \in P
      <3>1. CASE norm \in ForgetPhrases \cup UsagePhrases \cup WhoPhrases \cup ExitPhrases \cup HelpPhrases
        BY <1>2, <1>4, <3>1
      <3>2. CASE norm \in {<<"pereklyuchis", "na", "umnuyu", "model">>, <<"smeni", "model", "na", "bystruyu">>}
        BY <1>2, <1>4, <3>2, SentencesMention
      <3>3. ASSUME NEW n \in DOMAIN Numerals, norm = <<"pomni", "poslednie", n, "replik">>
            PROVE  8 \in P
        <4>1. StartsWith(norm, WindowPhrases) /\ NumbersIn(norm) # {}
          BY <3>3, WindowHeard
        <4> QED  BY <1>2, <1>4, <4>1
      <3>4. ASSUME NEW i \in DOMAIN Roster, NEW p \in Introductions,
                   NEW alias \in Roster[i].called \ {<<>>}, norm = p \o alias
            PROVE  2 \in P
        <4>1. Introduced(norm) # {}
          BY <3>4, IntroductionHeard
        <4> QED  BY <1>2, <1>4, <4>1
      <3> QED  BY <1>5, <3>1, <3>2, <3>3, <3>4 DEF Documented
    <2>2. PICK k \in 1..10 : k \in P
      BY <2>1
    <2>3. First(P) \in 1..13 /\ First(P) <= k
      BY <1>2, <2>2, FirstOfRules
    <2> QED  BY <1>3, <2>2, <2>3
  <1>6. rules[First(P)][2] = "askHard" => StartsWith(norm, HardPhrases)
    <2>1. 13 \in P
      BY <1>2, <1>4
    <2>2. First(P) \in P
      BY <1>2, <2>1, FirstOfRules
    <2> QED  BY <1>2, <1>4, <1>h, <2>2
  <1> QED  BY <1>1, <1>5, <1>6 DEF norm

\* What took a call to the model was not a documented command, and it is what
\* the model is asked unless it asks to think hard.
OfNoCommand(utterance, text) ==
    /\ Normalize(utterance) \notin Documented
    /\ text = utterance \/ StartsWith(Normalize(utterance), HardPhrases)

ControlInv ==
    /\ CallsInv
    /\ DOMAIN question = Calls /\ DOMAIN said = Calls
    /\ \A c \in Calls :
          at[c] \in {"ask", "history"} \/ prompt[c] # NoPrompt => OfNoCommand(said[c], question[c])

\* A call that goes on to ask holds the words it was called with.
LEMMA HandleKeepsControl ==
    ASSUME NEW c \in Calls, NEW words, ControlInv, Handle(c, words)
    PROVE  /\ DOMAIN question' = Calls /\ DOMAIN said' = Calls
           /\ \A x \in Calls : x # c => question'[x] = question[x] /\ said'[x] = said[x]
           /\ at'[c] \in {"ask", "history"} => OfNoCommand(said'[c], question'[c])
  <1> USE DEF ControlInv, CallsInv, CallsType, Goto
  <1> DEFINE command == Parse(words)
  <1>0. /\ Normalize(words) \in Documented => command.kind \notin {"enter", "ask", "askHard"}
        /\ command.kind = "askHard" => StartsWith(Normalize(words), HardPhrases)
    BY DocumentedIsCommand
  <1>a. command.kind # "askHard" => command.text = words
    BY DEF Parse
  <1> HIDE DEF command
  <1>1. \/ ChangeState(c, command) \/ EnterMode(c, words, command)
        \/ BeginQuery(c, command) \/ BeginAsk(c, words, command)
    BY DEF Handle, command
  <1>2. CASE ChangeState(c, command)
    BY <1>2 DEF ChangeState
  <1>3. CASE EnterMode(c, words, command)
    BY <1>0, <1>3 DEF EnterMode, OfNoCommand
  <1>4. CASE BeginQuery(c, command)
    BY <1>4 DEF BeginQuery
  <1>5. CASE BeginAsk(c, words, command)
    <2>1. /\ command.kind \in {"ask", "askHard"}
          /\ question' = [question EXCEPT ![c] = command.text]
          /\ said' = [said EXCEPT ![c] = words]
      BY <1>5 DEF BeginAsk
    <2> QED  BY <1>0, <1>a, <2>1 DEF OfNoCommand
  <1> QED  BY <1>1, <1>2, <1>3, <1>4, <1>5

\* After its dispatch a call keeps its question, and only one that asks gets a
\* prompt.
LEMMA CallKeepsControl ==
    ASSUME NEW c \in Calls, NEW children, ControlInv, CallNext(c, children)
    PROVE  /\ UNCHANGED <<question, said>>
           /\ \A x \in Calls :
                 at'[x] \in {"ask", "history"} \/ prompt'[x] # NoPrompt =>
                     at[x] \in {"ask", "history"} \/ prompt[x] # NoPrompt
  <1> USE DEF ControlInv, CallsInv, CallsType, Goto
  <1>1. CASE Ask(c)
    BY <1>1 DEF Ask
  <1>2. CASE Usage(c)
    BY <1>2 DEF Usage
  <1>3. CASE \E o \in StoreOutcomes : Forget(c, o)
    BY <1>3 DEF Forget
  <1>4. CASE \E o \in StoreOutcomes : ReadHistory(c, o, children)
    BY <1>4 DEF ReadHistory
  <1>5. CASE \E o \in StoreOutcomes : Record(c, o)
    BY <1>5 DEF Record
  <1>6. CASE \E o \in ProviderOutcomes, d \in Durations \cup {Timeout} : SendOnce(c, o, d)
    BY <1>6 DEF SendOnce
  <1> QED  BY <1>1, <1>2, <1>3, <1>4, <1>5, <1>6, StepOfCall

LEMMA NextControlInv == ControlInv /\ [Next]_vars => ControlInv'
  <1> SUFFICES ASSUME ControlInv, [Next]_vars PROVE ControlInv'
    OBVIOUS
  <1>0. CallsInv'
    BY NextCallsInv DEF ControlInv
  <1>1. CASE UNCHANGED dialogueVars /\ UNCHANGED backend /\ (phase' = "ended" \/ UNCHANGED phase)
    BY <1>0, <1>1 DEF ControlInv, dialogueVars, callVars
  <1>2. CASE Start
    BY <1>0, <1>2 DEF Start, ControlInv, callVars
  <1>3. CASE Shutdown
    BY <1>0, <1>3 DEF Shutdown, LoseMemory, ControlInv
  <1>4. ASSUME NEW c \in Calls, Dismiss(c)
        PROVE  ControlInv'
    BY <1>0, <1>4 DEF Dismiss, Goto, ControlInv, CallsInv, CallsType
  <1>5. ASSUME NEW c \in Calls, NEW words, at[c] = "idle", Handle(c, words)
        PROVE  ControlInv'
    <2>1. /\ \A x \in Calls : x # c => at'[x] = at[x]
          /\ UNCHANGED prompt
      BY <1>5, KindOfHandle DEF ControlInv
    <2>2. /\ DOMAIN question' = Calls /\ DOMAIN said' = Calls
          /\ \A x \in Calls : x # c => question'[x] = question[x] /\ said'[x] = said[x]
          /\ at'[c] \in {"ask", "history"} => OfNoCommand(said'[c], question'[c])
      BY <1>5, HandleKeepsControl
    <2>3. prompt[c] = NoPrompt
      BY <1>5 DEF ControlInv, CallsInv, Early
    <2> QED  BY <1>0, <2>1, <2>2, <2>3 DEF ControlInv
  <1>6. ASSUME NEW c \in Calls, CallNext(c, backend.children)
        PROVE  ControlInv'
    <2>1. /\ UNCHANGED <<question, said>>
          /\ \A x \in Calls :
                at'[x] \in {"ask", "history"} \/ prompt'[x] # NoPrompt =>
                    at[x] \in {"ask", "history"} \/ prompt[x] # NoPrompt
      BY <1>6, CallKeepsControl
    <2> QED  BY <1>0, <2>1 DEF ControlInv
  <1> QED  BY <1>1, <1>2, <1>3, <1>4, <1>5, <1>6, StepOfCalls

\* No documented command, as a user says it, takes a call to the model, and
\* none is sent there but as the question to think hard about, whatever the
\* profiles and modes are called and whatever normalize makes of a word.
THEOREM ControlStaysHere == Spec => []ControlNeverAsked
  <1>1. Init => ControlInv
    BY InitCallsInv DEF Init, DialogueInit, ControlInv
  <1>2. ControlInv => ControlNeverAsked
    BY DEF ControlInv, OfNoCommand, ControlNeverAsked, NormalForm, Normalize
  <1> QED  BY <1>1, <1>2, NextControlInv, PTL DEF Spec

----------------------------------------------------------------------------
(* Reading an answer in chunks. *)

Texts == Seq(Characters)

\* The engine of a house was given room for a chunk and its question, and no
\* more than Alice accepts.
LimitInv ==
    /\ FileInv
    /\ backend.mode = "household" =>
          backend.limit \in Nat /\ backend.limit > Len(Suffix) /\ backend.limit <= MaxChunkLimit

\* What is kept are the chunks of some text, under the limit of the engine.
ReadInv ==
    /\ LimitInv
    /\ sent \in Texts /\ Len(sent) <= MaxTextLen
    /\ heard \in Texts
    /\ chunks # <<>> =>
          /\ backend.mode = "household" /\ phase \in {"serving", "ended"}
          /\ \E text \in Texts \ {<<>>} :
                chunks = SplitIntoChunks(text, backend.limit - Len(Suffix))

\* What shape_and_save makes of a text: the listener hears all of it, or a
\* first part while the chunks of the rest are kept.  Nothing is clipped.
LEMMA ShapesAndSaves ==
    ASSUME NEW text \in Texts, NEW before \in Texts, LimitInv, backend.mode = "household",
           ShapeAndSave(text, before)
    PROVE  /\ sent' \in Texts /\ Len(sent') <= MaxTextLen
           /\ \/ chunks' = <<>> /\ heard' = before \o text
              \/ \E first, rest \in Texts \ {<<>>} :
                    /\ first \o rest = text
                    /\ heard' = before \o first
                    /\ chunks' = SplitIntoChunks(rest, backend.limit - Len(Suffix))
                    /\ chunks' # <<>>
<1>1. PICK limit \in Nat : limit = backend.limit
    BY DEF LimitInv
<1>2. limit > Len(Suffix) /\ limit <= MaxTextLen /\ Len(Suffix) \in Nat /\ MaxTextLen \in Nat
  <2>1. Len(Suffix) \in Nat /\ MaxTextLen \in Nat /\ MaxChunkLimit \in Nat
      BY SuffixAssumption, LenProperties, MaxTextLenAssumption, FilesAssumption
  <2> QED BY <1>1, <2>1, LimitsAssumption DEF LimitInv
<1>3. PICK shaped : shaped = Split(text, limit)
    OBVIOUS
<1> DEFINE asks == IF shaped.remaining = <<>> THEN 0 ELSE Len(Suffix)
<1>4. /\ chunks' = shaped.remaining
      /\ sent' = ClipToLimit(shaped.spoken)
      /\ heard' = before \o SubSeq(sent', 1, Len(sent') - asks)
    BY <1>1, <1>3 DEF ShapeAndSave
<1>5. CASE shaped.spoken = text /\ shaped.remaining = <<>> /\ Len(text) <= limit
  <2>1. Len(text) \in Nat /\ Len(text) <= MaxTextLen
      BY <1>2, <1>5, LenProperties DEF Texts
  <2>2. sent' = text
      BY <1>4, <1>5, <2>1, ClipFits DEF Texts
  <2>3. SubSeq(text, 1, Len(text) - 0) = text
      BY <2>1, SubSeqFull DEF Texts
  <2> QED BY <1>4, <1>5, <2>1, <2>2, <2>3
<1>6. ASSUME NEW first \in Texts \ {<<>>}, NEW rest \in Texts \ {<<>>},
             first \o rest = text, shaped.spoken = first \o Suffix,
             shaped.remaining = SplitIntoChunks(rest, limit - Len(Suffix)),
             Len(first) + Len(Suffix) <= limit
      PROVE  /\ sent' \in Texts /\ Len(sent') <= MaxTextLen
             /\ heard' = before \o first
             /\ chunks' = SplitIntoChunks(rest, backend.limit - Len(Suffix))
             /\ chunks' # <<>>
  <2>1. first \o Suffix \in Texts /\ Len(first \o Suffix) = Len(first) + Len(Suffix)
      BY SuffixAssumption, ConcatProperties DEF Texts
  <2>2. Len(first) \in Nat \ {0}
      BY EmptySeq DEF Texts
  <2>3. Len(first \o Suffix) <= MaxTextLen
      BY <1>2, <1>6, <2>1, <2>2
  <2>4. sent' = first \o Suffix
      BY <1>4, <1>6, <2>1, <2>3, ClipFits DEF Texts
  <2>5. shaped.remaining # <<>>
    <3>1. limit - Len(Suffix) \in Nat \ {0}
        BY <1>2
    <3> QED BY <1>6, <3>1, ChunksJoin DEF Texts
  <2>6. SubSeq(first \o Suffix, 1, Len(first)) = first
    <3>1. 1 \in 1 .. Len(first) /\ Len(first) \in 1 .. Len(first)
        BY <2>2
    <3>2. SubSeq(first \o Suffix, 1, Len(first)) = SubSeq(first, 1, Len(first))
        BY <3>1, SuffixAssumption, SubSeqOfConcat1 DEF Texts
    <3> QED BY <3>2, SubSeqFull DEF Texts
  <2>7. Len(first \o Suffix) - Len(Suffix) = Len(first)
      BY <1>2, <2>1, <2>2
  <2>8. heard' = before \o SubSeq(first \o Suffix, 1, Len(first \o Suffix) - Len(Suffix))
      BY <1>4, <2>4, <2>5
  <2>9. heard' = before \o first
      BY <2>6, <2>7, <2>8
  <2> QED BY <1>1, <1>4, <1>6, <2>1, <2>3, <2>4, <2>5, <2>9
<1>7. \/ shaped.spoken = text /\ shaped.remaining = <<>> /\ Len(text) <= limit
      \/ \E first, rest \in Texts \ {<<>>} :
            /\ first \o rest = text
            /\ shaped.spoken = first \o Suffix
            /\ shaped.remaining = SplitIntoChunks(rest, limit - Len(Suffix))
            /\ Len(first) + Len(Suffix) <= limit
    BY <1>2, <1>3, Shaped DEF Texts
<1> QED BY <1>5, <1>6, <1>7

\* What is kept joins to the text it was cut from.
LEMMA KeptText ==
    ASSUME ReadInv, chunks # <<>>
    PROVE  \E text \in Texts \ {<<>>} :
              /\ chunks = SplitIntoChunks(text, backend.limit - Len(Suffix))
              /\ FlattenSeq(chunks) = text
<1>1. PICK text \in Texts \ {<<>>} : chunks = SplitIntoChunks(text, backend.limit - Len(Suffix))
    BY DEF ReadInv
<1>2. backend.mode = "household"
    BY DEF ReadInv
<1>3. PICK room \in Nat \ {0} : room = backend.limit - Len(Suffix)
  <2>1. Len(Suffix) \in Nat
      BY SuffixAssumption, LenProperties
  <2> QED BY <1>2, <2>1 DEF ReadInv, LimitInv
<1>4. FlattenSeq(SplitIntoChunks(text, room)) = text
    BY ChunksJoin DEF Texts
<1> QED BY <1>1, <1>3, <1>4

LEMMA StartKeepsLimitInv == LimitInv /\ StartNext => LimitInv'
<1> SUFFICES ASSUME LimitInv, StartNext PROVE LimitInv'
    OBVIOUS
<1>1. FileInv'
    BY StartKeepsFileInv DEF LimitInv
<1>2. UNCHANGED backend \/ \E ok \in BOOLEAN : Build(ok)
    BY DEF StartNext, Load, Provision, Listen
<1>3. CASE UNCHANGED backend
    BY <1>1, <1>3 DEF LimitInv
<1>4. CASE \E ok \in BOOLEAN : Build(ok)
  <2>1. Accepts(file) /\ file.chunkLimit \in Nat
      BY <1>4, FilesAssumption DEF Build, LimitInv, FileInv, Parses
  <2>2. \/ UNCHANGED backend
        \/ file.mode = "household" /\ backend' = HouseholdBackend(file)
        \/ backend' = LegacyBackend(file)
      BY <1>4 DEF Build
  <2>3. ASSUME file.mode = "household" PROVE file.chunkLimit > Len(Suffix) /\ file.chunkLimit <= MaxChunkLimit
      BY <2>1, <2>3 DEF Accepts, AcceptsHousehold
  <2> QED BY <1>1, <2>1, <2>2, <2>3 DEF LimitInv, HouseholdBackend, LegacyBackend
<1> QED BY <1>2, <1>3, <1>4

LEMMA FlattenNone == FlattenSeq(<<>>) = <<>>
BY EmptySeq DEF FlattenSeq

\* A text was shaped: what the two cases leave behind.
LEMMA ShapingKeepsReadInv ==
    ASSUME ReadInv, phase = "serving", backend.mode = "household", UNCHANGED startVars,
           NEW text \in Texts, NEW before \in Texts, ShapeAndSave(text, before)
    PROVE  /\ ReadInv'
           /\ \/ FlattenSeq(chunks') = <<>> /\ heard' = before \o text
              \/ \E first \in Texts \ {<<>>} :
                    heard' = before \o first /\ FlattenSeq(chunks') \in Texts
                    /\ first \o FlattenSeq(chunks') = text
<1>1. LimitInv /\ LimitInv'
    BY DEF ReadInv, LimitInv, FileInv, AcceptedFileBuilds, startVars
<1>2. sent' \in Texts /\ Len(sent') <= MaxTextLen
    BY <1>1, ShapesAndSaves
<1>3. phase' = "serving" /\ backend' = backend
    BY DEF startVars
<1>4. CASE chunks' = <<>> /\ heard' = before \o text
  <2>1. heard' \in Texts
      BY <1>4, ConcatProperties DEF Texts
  <2>2. FlattenSeq(chunks') = <<>>
      BY <1>4, FlattenNone
  <2> QED BY <1>1, <1>2, <1>3, <1>4, <2>1, <2>2 DEF ReadInv
<1>5. ASSUME NEW first \in Texts \ {<<>>}, NEW rest \in Texts \ {<<>>}, first \o rest = text,
             heard' = before \o first, chunks' = SplitIntoChunks(rest, backend.limit - Len(Suffix))
      PROVE  /\ ReadInv' /\ heard' = before \o first
             /\ FlattenSeq(chunks') \in Texts /\ first \o FlattenSeq(chunks') = text
  <2>1. heard' \in Texts
      BY <1>5, ConcatProperties DEF Texts
  <2>2. PICK room \in Nat \ {0} : room = backend.limit - Len(Suffix)
    <3>1. Len(Suffix) \in Nat
        BY SuffixAssumption, LenProperties
    <3> QED BY <1>1, <3>1 DEF LimitInv
  <2>3. FlattenSeq(SplitIntoChunks(rest, room)) = rest
      BY ChunksJoin DEF Texts
  <2>4. FlattenSeq(chunks') = rest
      BY <1>5, <2>2, <2>3
  <2>5. chunks' = SplitIntoChunks(rest, backend'.limit - Len(Suffix))
      BY <1>3, <1>5
  <2>6. ReadInv'
      BY <1>1, <1>2, <1>3, <2>1, <2>5 DEF ReadInv
  <2> QED BY <1>5, <2>4, <2>6
<1>6. \/ chunks' = <<>> /\ heard' = before \o text
      \/ \E first, rest \in Texts \ {<<>>} :
            /\ first \o rest = text
            /\ heard' = before \o first
            /\ chunks' = SplitIntoChunks(rest, backend.limit - Len(Suffix))
            /\ chunks' # <<>>
    BY <1>1, ShapesAndSaves
<1> QED BY <1>4, <1>5, <1>6

AloudNext == Aloud!Begin \/ Aloud!Continue \/ Aloud!Decline \/ Aloud!Ask

LEMMA AnswerReads ==
    ASSUME ReadInv, phase = "serving", backend.mode = "household", UNCHANGED startVars,
           NEW text \in Answers, AnswerHouse(text)
    PROVE  ReadInv' /\ Aloud!Begin
<1>1. text \in Texts /\ <<>> \in Texts
    BY TextsAssumption, EmptySeq DEF Texts
<1>2. chunks = <<>> /\ heard = <<>> /\ ShapeAndSave(text, <<>>) /\ FlattenSeq(chunks) = <<>>
    BY FlattenNone DEF AnswerHouse
<1>3. /\ ReadInv'
      /\ \/ FlattenSeq(chunks') = <<>> /\ heard' = <<>> \o text
         \/ \E first \in Texts \ {<<>>} :
               heard' = <<>> \o first /\ FlattenSeq(chunks') \in Texts
               /\ first \o FlattenSeq(chunks') = text
    BY <1>1, <1>2, ShapingKeepsReadInv
<1>4. \A t \in Texts : <<>> \o t = t /\ t \o <<>> = t
    BY ConcatEmptySeq DEF Texts
<1>5. heard' \o FlattenSeq(chunks') = text /\ (heard' # <<>> \/ FlattenSeq(chunks') = <<>>)
    BY <1>1, <1>3, <1>4
<1> QED BY <1>2, <1>3, <1>5 DEF Aloud!Begin

LEMMA ContinuationReads ==
    ASSUME ReadInv, phase = "serving", backend.mode = "household", UNCHANGED startVars,
           ContinueReading
    PROVE  ReadInv' /\ Aloud!Continue
<1>1. PICK text \in Texts \ {<<>>} : text = FlattenSeq(chunks)
    BY KeptText DEF ContinueReading
<1>2. PICK before \in Texts : before = heard
    BY DEF ReadInv
<1>3. ShapeAndSave(text, before)
    BY <1>1, <1>2 DEF ContinueReading
<1>4. /\ ReadInv'
      /\ \/ FlattenSeq(chunks') = <<>> /\ heard' = before \o text
         \/ \E first \in Texts \ {<<>>} :
               heard' = before \o first /\ FlattenSeq(chunks') \in Texts
               /\ first \o FlattenSeq(chunks') = text
    BY <1>1, <1>2, <1>3, ShapingKeepsReadInv
<1>5. Len(text) \in Nat \ {0}
    BY EmptySeq DEF Texts
<1>6. CASE FlattenSeq(chunks') = <<>> /\ heard' = before \o text
  <2>1. before \o text \in Texts
      BY ConcatProperties DEF Texts
  <2>2. heard' \o <<>> = heard'
      BY <1>6, <2>1, ConcatEmptySeq DEF Texts
  <2>3. Len(<<>>) < Len(text)
      BY <1>5, EmptySeq
  <2> QED BY <1>1, <1>2, <1>4, <1>6, <2>2, <2>3 DEF Aloud!Continue
<1>7. ASSUME NEW first \in Texts \ {<<>>}, heard' = before \o first,
             NEW rest \in Texts, rest = FlattenSeq(chunks'), first \o rest = text
      PROVE  Aloud!Continue
  <2>1. (before \o first) \o rest = before \o (first \o rest)
      BY ConcatAssociative DEF Texts
  <2>2. Len(first) \in Nat \ {0} /\ Len(rest) \in Nat
      BY EmptySeq, LenProperties DEF Texts
  <2>3. Len(text) = Len(first) + Len(rest)
      BY <1>7, ConcatProperties DEF Texts
  <2>4. Len(rest) < Len(text)
      BY <2>2, <2>3
  <2> QED BY <1>1, <1>2, <1>7, <2>1, <2>4 DEF Aloud!Continue
<1> QED BY <1>4, <1>6, <1>7

\* Every step of the bridge keeps ReadInv and is a step of reading aloud, or
\* none that the listener notices.
LEMMA StepReadsAloud ==
    ASSUME ReadInv, [Next]_vars
    PROVE  ReadInv' /\ [AloudNext]_<<heard, FlattenSeq(chunks)>>
<1>1. <<>> \in Texts /\ Len(<<>>) <= MaxTextLen
    BY EmptySeq, MaxTextLenAssumption DEF Texts
<1>2. ASSUME UNCHANGED <<startVars, chunks, heard>>, sent' \in Texts, Len(sent') <= MaxTextLen
      PROVE  ReadInv' /\ [AloudNext]_<<heard, FlattenSeq(chunks)>>
    BY <1>2 DEF ReadInv, LimitInv, FileInv, AcceptedFileBuilds, startVars
<1>3. CASE Start
  <2>1. LimitInv' /\ UNCHANGED <<sent, chunks, heard>>
      BY <1>3, StartKeepsLimitInv DEF Start, ReadInv, readVars
  <2>2. phase \notin {"serving", "ended"}
      BY <1>3 DEF Start, StartNext, Load, Provision, Build, Listen
  <2> QED BY <2>1, <2>2 DEF ReadInv
<1>4. CASE Shutdown
  <2>1. UNCHANGED <<sent, chunks, heard, file, backend>> /\ phase' = "ended" /\ fault' = "stopped"
      BY <1>4 DEF Shutdown, Stop, EndWith, readVars
  <2> QED BY <2>1 DEF ReadInv, LimitInv, FileInv, AcceptedFileBuilds
<1>5. CASE Ended \/ UNCHANGED vars
    BY <1>2, <1>5 DEF Ended, vars, readVars, ReadInv
<1>6. CASE \E c \in Calls, r \in Requests : Webhook(c, r)
    BY <1>1, <1>2, <1>6 DEF Webhook
<1>7. CASE \E c \in Calls : Serve(c)
  <2>1. UNCHANGED <<startVars, chunks, heard>> /\ (sent' = <<>> \/ \E text \in Completions : sent' = ClipToLimit(text))
      BY <1>7 DEF Serve
  <2>2. ASSUME NEW text \in Completions
        PROVE  ClipToLimit(text) \in Texts /\ Len(ClipToLimit(text)) <= MaxTextLen
      BY TextsAssumption, ClipFits DEF Texts
  <2> QED BY <1>1, <1>2, <2>1, <2>2
<1>8. CASE HouseCall
  <2>1. phase = "serving" /\ backend.mode = "household" /\ UNCHANGED startVars
      BY <1>8 DEF HouseCall
  <2>2. CASE AskHouse
    <3>1. FlattenSeq(chunks) = <<>> /\ FlattenSeq(chunks') = <<>>
        BY <2>2, FlattenNone DEF AskHouse
    <3>2. Aloud!Ask
        BY <2>2, <3>1 DEF AskHouse, Aloud!Ask
    <3>3. ReadInv'
        BY <1>1, <2>1, <2>2 DEF AskHouse, ReadInv, LimitInv, FileInv, AcceptedFileBuilds, startVars
    <3> QED BY <3>2, <3>3 DEF AloudNext
  <2>3. ASSUME NEW text \in Answers, AnswerHouse(text)
        PROVE  ReadInv' /\ [AloudNext]_<<heard, FlattenSeq(chunks)>>
      BY <2>1, <2>3, AnswerReads DEF AloudNext
  <2>4. CASE ContinueReading
      BY <2>1, <2>4, ContinuationReads DEF AloudNext
  <2>5. CASE StopReading
    <3>1. Aloud!Decline
        BY <2>5, FlattenNone DEF StopReading, Aloud!Decline
    <3>2. ReadInv'
        BY <1>1, <2>1, <2>5 DEF StopReading, ReadInv, LimitInv, FileInv, AcceptedFileBuilds, startVars
    <3> QED BY <3>1, <3>2 DEF AloudNext
  <2>6. CASE AskAgain
      BY <1>1, <1>2, <2>1, <2>6 DEF AskAgain
  <2> QED BY <1>8, <2>2, <2>3, <2>4, <2>5, <2>6 DEF HouseCall
<1> QED BY <1>3, <1>4, <1>5, <1>6, <1>7, <1>8 DEF Next

LEMMA InitReadInv == Init => ReadInv
BY EmptySeq, MaxTextLenAssumption DEF Init, StartInit, NoBackend, ReadInv, LimitInv, FileInv, AcceptedFileBuilds, Texts

LEMMA AlwaysReadInv == Spec => []ReadInv
BY InitReadInv, StepReadsAloud, PTL DEF Spec

\* No reply of either engine is longer than Alice accepts, whatever the model
\* wrote and whatever limit the file sets.
THEOREM RepliesFit == Spec => []FitsPlatform
<1>1. ReadInv => FitsPlatform
    BY DEF ReadInv, FitsPlatform
<1> QED BY <1>1, AlwaysReadInv, PTL

\* The chunks kept for a surface stay the chunks of their text, for a text of
\* any length: cutting it again changes nothing.
THEOREM ChunksStaySame == Spec => []SameChunks
<1>1. ReadInv => SameChunks
    BY KeptText DEF SameChunks
<1> QED BY <1>1, AlwaysReadInv, PTL

\* The household engine's reading in chunks implements ReadAloud, for answers
\* of any length and every accepted limit.
THEOREM ImplementsReadAloud == Spec => ReadsAloud
<1>1. Init => Aloud!Init
    BY FlattenNone DEF Init, Aloud!Init
<1>2. ReadInv /\ [Next]_vars => [AloudNext]_<<heard, FlattenSeq(chunks)>>
    BY StepReadsAloud
<1> QED BY <1>1, <1>2, AlwaysReadInv, PTL DEF Spec, ReadsAloud, Aloud!Spec, AloudNext
=============================================================================
