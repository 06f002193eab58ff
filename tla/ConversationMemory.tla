------------------------- MODULE ConversationMemory -------------------------
(***************************************************************************)
(* The memory of the OpenAI-compatible engine: the history and the rolling  *)
(* summary of a profile, as Engine::generate, Engine::maybe_summarize and   *)
(* the commands of Engine::execute (crates/bridge-core/src/engine.rs) read  *)
(* and write them through crates/bridge-server/src/store_pg.rs.             *)
(*                                                                         *)
(* An exchange is one question that reached the model.  Its task records    *)
(* the two messages and goes on as the summarizer it spawns; the tasks of   *)
(* several exchanges interleave at every await.  A summary is the set of    *)
(* messages that were folded into it, however well the model folded them.   *)
(***************************************************************************)
EXTENDS Naturals, FiniteSets

CONSTANTS
    Profiles,          \* the roster
    DefaultProfile,    \* active when the engine starts
    Exchanges,         \* questions; each is asked at most once
    ContextWindow,     \* defaults.context_window of the configuration
    MaxWindow,         \* the upper clamp of the window, 50 in the code
    WindowsSaid,       \* numbers a user may name for the window
    MaxForgets,        \* bound on the Forget commands
    StoreOutcomes,     \* how a store call may end
    ProviderOutcomes   \* how a chat request may end

Outcomes == {"ok", "lost", "failed"}

ASSUME ProfilesAssumption == DefaultProfile \in Profiles
ASSUME WindowAssumption   == /\ ContextWindow \in Nat
                             /\ MaxWindow \in Nat \ {0}
                             /\ WindowsSaid \subseteq Nat
                             /\ MaxForgets \in Nat
ASSUME OutcomesAssumption == /\ StoreOutcomes \subseteq Outcomes
                             /\ ProviderOutcomes \subseteq {"ok", "failed"}

VARIABLES
    active,      \* DialogueState.active_profile, one for all users
    window,      \* window_override, or the configured window
    forgets,     \* how many Forget commands were given
    step,        \* step[x]: the await the task of exchange x is at
    profile,     \* profile[x]: the profile x was asked under
    inserted,    \* inserted[x]: the uncommitted rows of x
    keep,        \* keep[x]: the window the summarizer of x read
    backlog,     \* backlog[x]: the rows it is about to fold
    previous,    \* previous[x]: what the summary it read contained
    nextId,      \* the sequence behind messages.id
    messages,    \* messages[p]: the committed rows of profile p
    summary,     \* summary[p]: what is folded, and covers_until_message_id
    forgotten,   \* history: forgotten[p], the rows a successful Forget erased
    trouble      \* history: the worst that has gone wrong so far

stateVars == <<active, window, forgets>>
taskVars  == <<profile, inserted, keep, backlog, previous>>
storeVars == <<nextId, messages, summary, forgotten>>
vars      == <<stateVars, step, taskVars, storeVars, trouble>>

----------------------------------------------------------------------------
NoSummary == [facts |-> {}, covers |-> 0]

Steps == {"idle", "chat", "insert", "commit", "window", "backlog", "previous", "fold", "upsert", "over"}

Goto(x, s) == step' = [step EXCEPT ![x] = s]
Running(x) == step[x] \notin {"idle", "over"}

\* The worst that has gone wrong: nothing; a request to the model failed; a
\* store call failed; a question came, or Forget, while a task was under way.
Calm == 0
ModelFailed == 1
StoreFailed == 2
Overlapped  == 3

\* A problem happens, or not; the worst one so far is kept.
Meet(happens, problem) == trouble' = IF happens /\ problem > trouble THEN problem ELSE trouble
Busy == \E x \in Exchanges : Running(x)

\* The greatest id of a set of rows, 0 when there is none.
LastId(rows) == IF rows = {} THEN 0
                ELSE CHOOSE n \in {m.id : m \in rows} : \A m \in rows : m.id <= n

\* The rows of a set that have at least n later ones.
Older(rows, n) == {m \in rows : Cardinality({l \in rows : l.id > m.id}) >= n}

----------------------------------------------------------------------------
(* The store. *)

\* unsummarized: the rows after the summary, the last n of them left out.
Unsummarized(p, n) == Older({m \in messages[p] : m.id > summary[p].covers}, n)

\* clear_profile: one transaction over both tables.
Cleared(p) ==
    /\ messages' = [messages EXCEPT ![p] = {}]
    /\ summary'  = [summary EXCEPT ![p] = NoSummary]

----------------------------------------------------------------------------
(* The commands. *)

Introduce(p) ==
    /\ p # active
    /\ active' = p
    /\ UNCHANGED <<window, forgets, step, taskVars, storeVars, trouble>>

\* Mutant of Clamp: the window has no lower bound.
ClampAbove(n) == IF n > MaxWindow THEN MaxWindow ELSE n

\* n.clamp(1, 50)
Clamp(n) == IF n < 1 THEN 1 ELSE IF n > MaxWindow THEN MaxWindow ELSE n

SetWindow(n) ==
    /\ window # Clamp(n)
    /\ window' = Clamp(n)
    /\ UNCHANGED <<active, forgets, step, taskVars, storeVars, trouble>>

Forget(o) ==
    /\ forgets < MaxForgets
    /\ forgets' = forgets + 1
    /\ IF Busy THEN Meet(TRUE, Overlapped) ELSE Meet(o # "ok", StoreFailed)
    /\ \/ o = "failed" /\ UNCHANGED <<messages, summary>>
       \/ o # "failed" /\ Cleared(active)
    /\ forgotten' = IF o # "ok" THEN forgotten
                    ELSE [forgotten EXCEPT ![active] = @ \cup messages[active]]
    /\ UNCHANGED <<active, window, step, taskVars, nextId>>

----------------------------------------------------------------------------
(* The task of an exchange: generate. *)

\* ask_llm: the question is asked under the profile active at that moment.
Ask(x) ==
    /\ step[x] = "idle"
    /\ Meet(Busy, Overlapped)
    /\ profile' = [profile EXCEPT ![x] = active]
    /\ Goto(x, "chat")
    /\ UNCHANGED <<stateVars, inserted, keep, backlog, previous, storeVars>>

Chat(x, o) ==
    /\ step[x] = "chat"
    /\ Meet(o # "ok", ModelFailed)
    /\ \/ o = "ok" /\ Goto(x, "insert")
       \/ o # "ok" /\ Goto(x, "over")
    /\ UNCHANGED <<stateVars, taskVars, storeVars>>

\* record_exchange, inside its transaction: the question's row and the
\* answer's row take their ids.  The two INSERTs are one step, with consecutive
\* ids: no property tells whether ids of another exchange lie between them.
\* An error is logged, no more.
Insert(x, o) ==
    /\ step[x] = "insert"
    /\ Meet(o # "ok", StoreFailed)
    /\ nextId' = IF o = "failed" THEN nextId ELSE nextId + 2
    /\ \/ /\ o = "ok"
          /\ inserted' = [inserted EXCEPT ![x] = {[id |-> nextId, exchange |-> x],
                                                  [id |-> nextId + 1, exchange |-> x]}]
          /\ Goto(x, "commit")
       \/ /\ o # "ok"
          /\ Goto(x, "window")
          /\ UNCHANGED inserted
    /\ UNCHANGED <<stateVars, profile, keep, backlog, previous, messages, summary, forgotten>>

\* Mutant of Commit: the rows go to whoever is active by now.
CommitToActive(x, o) ==
    /\ step[x] = "commit"
    /\ Meet(o # "ok", StoreFailed)
    /\ messages' = IF o = "failed" THEN messages
                   ELSE [messages EXCEPT ![active] = @ \cup inserted[x]]
    /\ Goto(x, "window")
    /\ UNCHANGED <<stateVars, taskVars, nextId, summary, forgotten>>

\* The transaction commits; generate then spawns maybe_summarize in any case.
Commit(x, o) ==
    /\ step[x] = "commit"
    /\ Meet(o # "ok", StoreFailed)
    /\ messages' = IF o = "failed" THEN messages
                   ELSE [messages EXCEPT ![profile[x]] = @ \cup inserted[x]]
    /\ Goto(x, "window")
    /\ UNCHANGED <<stateVars, taskVars, nextId, summary, forgotten>>

----------------------------------------------------------------------------
(* The task of an exchange: maybe_summarize. *)

\* keep_last: the window at this moment.
ReadWindow(x) ==
    /\ step[x] = "window"
    /\ keep' = [keep EXCEPT ![x] = window]
    /\ Goto(x, "backlog")
    /\ UNCHANGED <<stateVars, profile, inserted, backlog, previous, storeVars, trouble>>

\* Mutant of ReadBacklog: a backlog as long as the window does not count.
ReadBacklogLater(x, o) ==
    LET rows == Unsummarized(profile[x], keep[x])
    IN  /\ step[x] = "backlog"
        /\ Meet(o # "ok", StoreFailed)
        /\ \/ /\ o # "ok" \/ Cardinality(rows) <= keep[x]
              /\ Goto(x, "over")
              /\ UNCHANGED backlog
           \/ /\ o = "ok" /\ Cardinality(rows) > keep[x]
              /\ Goto(x, "previous")
              /\ backlog' = [backlog EXCEPT ![x] = rows]
        /\ UNCHANGED <<stateVars, profile, inserted, keep, previous, storeVars>>

\* Mutant of ReadBacklog: any backlog is folded, an empty one too.
ReadBacklogAlways(x, o) ==
    LET rows == Unsummarized(profile[x], keep[x])
    IN  /\ step[x] = "backlog"
        /\ Meet(o # "ok", StoreFailed)
        /\ \/ /\ o # "ok"
              /\ Goto(x, "over")
              /\ UNCHANGED backlog
           \/ /\ o = "ok"
              /\ Goto(x, "previous")
              /\ backlog' = [backlog EXCEPT ![x] = rows]
        /\ UNCHANGED <<stateVars, profile, inserted, keep, previous, storeVars>>

\* The rows to fold; a backlog shorter than the window is left for later.
ReadBacklog(x, o) ==
    LET rows == Unsummarized(profile[x], keep[x])
    IN  /\ step[x] = "backlog"
        /\ Meet(o # "ok", StoreFailed)
        /\ \/ /\ o # "ok" \/ Cardinality(rows) < keep[x]
              /\ Goto(x, "over")
              /\ UNCHANGED backlog
           \/ /\ o = "ok" /\ Cardinality(rows) >= keep[x]
              /\ Goto(x, "previous")
              /\ backlog' = [backlog EXCEPT ![x] = rows]
        /\ UNCHANGED <<stateVars, profile, inserted, keep, previous, storeVars>>

\* The summary to extend; an error counts as an empty one.
ReadPrevious(x, o) ==
    /\ step[x] = "previous"
    /\ Meet(o # "ok", StoreFailed)
    /\ previous' = [previous EXCEPT ![x] = IF o = "ok" THEN summary[profile[x]].facts ELSE {}]
    /\ Goto(x, "fold")
    /\ UNCHANGED <<stateVars, profile, inserted, keep, backlog, storeVars>>

Fold(x, o) ==
    /\ step[x] = "fold"
    /\ Meet(o # "ok", ModelFailed)
    /\ \/ o = "ok" /\ Goto(x, "upsert")
       \/ o # "ok" /\ Goto(x, "over")
    /\ UNCHANGED <<stateVars, taskVars, storeVars>>

\* Mutant of Upsert: the summary claims to cover the whole history.
UpsertToEnd(x, o) ==
    /\ step[x] = "upsert"
    /\ Meet(o # "ok", StoreFailed)
    /\ summary' = [summary EXCEPT ![profile[x]] =
                       [facts |-> previous[x] \cup backlog[x], covers |-> nextId - 1]]
    /\ Goto(x, "over")
    /\ UNCHANGED <<stateVars, taskVars, nextId, messages, forgotten>>

\* upsert_summary: the row is overwritten whatever it says by now.
Upsert(x, o) ==
    /\ step[x] = "upsert"
    /\ Meet(o # "ok", StoreFailed)
    /\ summary' = IF o = "failed" THEN summary
                  ELSE [summary EXCEPT ![profile[x]] =
                           [facts  |-> previous[x] \cup backlog[x],
                            covers |-> LastId(backlog[x])]]
    /\ Goto(x, "over")
    /\ UNCHANGED <<stateVars, taskVars, nextId, messages, forgotten>>

\* Every question was asked and no task is left.
Idle ==
    /\ \A x \in Exchanges : step[x] = "over"
    /\ UNCHANGED vars

----------------------------------------------------------------------------
Init ==
    /\ active    = DefaultProfile
    /\ window    = ContextWindow
    /\ forgets   = 0
    /\ step      = [x \in Exchanges |-> "idle"]
    /\ profile   = [x \in Exchanges |-> DefaultProfile]
    /\ inserted  = [x \in Exchanges |-> {}]
    /\ keep      = [x \in Exchanges |-> ContextWindow]
    /\ backlog   = [x \in Exchanges |-> {}]
    /\ previous  = [x \in Exchanges |-> {}]
    /\ nextId    = 1
    /\ messages  = [p \in Profiles |-> {}]
    /\ summary   = [p \in Profiles |-> NoSummary]
    /\ forgotten = [p \in Profiles |-> {}]
    /\ trouble   = Calm

Task(x) ==
    \/ Ask(x) \/ ReadWindow(x)
    \/ \E o \in ProviderOutcomes : Chat(x, o) \/ Fold(x, o)
    \/ \E o \in StoreOutcomes :
          \/ Insert(x, o) \/ Commit(x, o)
          \/ ReadBacklog(x, o) \/ ReadPrevious(x, o) \/ Upsert(x, o)

Next ==
    \/ \E x \in Exchanges : Task(x)
    \/ \E p \in Profiles : Introduce(p)
    \/ \E n \in WindowsSaid : SetWindow(n)
    \/ \E o \in StoreOutcomes : Forget(o)
    \/ Idle

Spec == Init /\ [][Next]_vars

----------------------------------------------------------------------------
(* Properties. *)

Rows == [id : Nat, exchange : Exchanges]

\* Every variable holds a value of its kind; a window named by voice is
\* between 1 and the upper clamp.
TypeOK ==
    /\ active \in Profiles
    /\ window \in {ContextWindow} \cup 1..MaxWindow
    /\ forgets \in 0..MaxForgets
    /\ step \in [Exchanges -> Steps]
    /\ profile \in [Exchanges -> Profiles]
    /\ inserted \in [Exchanges -> SUBSET Rows]
    /\ keep \in [Exchanges -> Nat]
    /\ backlog \in [Exchanges -> SUBSET Rows]
    /\ previous \in [Exchanges -> SUBSET Rows]
    /\ nextId \in Nat \ {0}
    /\ messages \in [Profiles -> SUBSET Rows]
    /\ summary \in [Profiles -> [facts : SUBSET Rows, covers : Nat]]
    /\ forgotten \in [Profiles -> SUBSET Rows]
    /\ trouble \in Calm..Overlapped

\* What a profile remembers was said under that profile, though the active
\* profile may change while a question is with the model or being folded.
ProfilesApart ==
    \A p \in Profiles : \A m \in messages[p] \cup summary[p].facts :
        profile[m.exchange] = p

\* Every row that lies before covers_until_message_id, and is no longer sent,
\* is in the summary.
Folded == \A p \in Profiles : \A m \in messages[p] :
              m.id <= summary[p].covers => m \in summary[p].facts

\* Older history is folded into the summary and not dropped, as long as the
\* exchanges come one at a time and the store answers, whichever requests to
\* the model fail.
SummaryComplete == trouble <= ModelFailed => Folded

\* Older history is folded into the summary and not dropped, also when a call
\* of the store fails.
FoldedWhateverFails == trouble <= StoreFailed => Folded

\* The summary moves forward: as long as exchanges come one at a time, no fold
\* takes covers_until_message_id back, whatever fails between a question and
\* the end of its summarizer and whatever windows are named; messages that
\* were folded are not folded a second time.  It needs a configured window of
\* at least 1: with 0 a failed record leaves the summarizer an empty backlog.
SummaryMovesForward ==
    [][\/ trouble' = Overlapped
       \/ \A p \in Profiles : \/ summary'[p].covers >= summary[p].covers
                              \/ messages'[p] = {} /\ summary'[p] = NoSummary]_vars

\* What a successful Forget erased, messages whose answer was already recorded,
\* does not come back into the history or the summary.
ForgottenStaysForgotten ==
    \A p \in Profiles : (messages[p] \cup summary[p].facts) \cap forgotten[p] = {}

\* Between exchanges, while nothing went wrong, fewer messages wait for the
\* summary than two of the largest windows, whatever windows the users named
\* meanwhile.
BacklogBounded ==
    LET largest == IF ContextWindow > MaxWindow THEN ContextWindow ELSE MaxWindow
    IN  trouble = Calm /\ (\A x \in Exchanges : ~Running(x)) =>
            \A p \in Profiles :
                Cardinality({m \in messages[p] : m.id > summary[p].covers}) < 2 * largest
=============================================================================
