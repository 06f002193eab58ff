-------------------------- MODULE HouseholdEngine --------------------------
(***************************************************************************)
(* The household voice engine: HouseholdEngine::respond of                 *)
(* crates/bridge-core/src/house_engine.rs, the work task and the saver     *)
(* task it spawns, and the two tables of temporary replies and the house   *)
(* row those tasks share through crates/bridge-server/src/                 *)
(* house_store_pg.rs.                                                      *)
(*                                                                         *)
(* Every webhook call is a request.  A request is one run of respond: pc   *)
(* names the await it is suspended at, so everything other tasks do        *)
(* between two awaits is an interleaving of this model.  The Codex         *)
(* app-server is external: a call to it may take any time, fail, or fail   *)
(* after it took effect.                                                   *)
(*                                                                         *)
(* An answer is not text but a number of chunks.  The text respond carries *)
(* is "the chunks of request q from chunk n on": the shaper speaks the     *)
(* first one and saves the rest, and splitting the rest again yields the   *)
(* same chunks, because split_into_chunks is greedy from the left.         *)
(***************************************************************************)
EXTENDS Naturals, FiniteSets

CONSTANTS
    Houses,           \* rows of the table houses
    Apps,             \* Alice application ids, the surfaces
    HouseOf,          \* the house a surface is bound to, or None
    Requests,         \* webhook calls; each happens at most once
    Inputs,           \* what a webhook call may carry
    MaxParts,         \* the longest answer, in chunks
    StoreOutcomes,    \* how a store call may end
    RuntimeOutcomes,  \* how a call to the Codex app-server may end
    Overlap,          \* may a surface call again before it was answered?
    TimeMoves,        \* may rows reach their expires_at?
    MayCrash,         \* may the bridge process die and restart?
    None              \* no house, no thread, no request

Utterances == {"ask", "stop", "silent", "marks"}
Sessions   == {"new", "old"}

\* "ok": done and acknowledged; "lost": done, but the caller sees an error;
\* "failed": not done, and the caller sees an error.
Outcomes == {"ok", "lost", "failed"}

ASSUME HouseOfAssumption  == HouseOf \in [Apps -> Houses \cup {None}]
ASSUME NoneAssumption     == None \notin Houses \cup Apps \cup Requests
ASSUME InputsAssumption   == Inputs \subseteq [utterance : Utterances, session : Sessions]
ASSUME PartsAssumption    == MaxParts \in Nat \ {0}
ASSUME OutcomesAssumption == /\ StoreOutcomes \subseteq Outcomes
                             /\ RuntimeOutcomes \subseteq Outcomes
ASSUME SwitchAssumption   == {Overlap, TimeMoves, MayCrash} \subseteq BOOLEAN

VARIABLES
    pc,            \* pc[r]: the await of respond that request r is at
    app,           \* app[r]: the surface that sent r
    input,         \* input[r]: what r carries
    carry,         \* carry[r]: the text r is about to shape and save
    reply,         \* reply[r]: what respond returned
    work,          \* work[r]: the step of the work task r spawned
    handle,        \* handle[r]: what became of the work's JoinHandle
    tid,           \* tid[r]: the Codex thread id r knows
    parts,         \* parts[r]: the chunks of the answer to r, 0 before it
    lock,          \* lock[h]: the request whose work holds the house lock
    started,       \* requests whose work started a Codex thread
    thread,        \* thread[h]: column houses.codex_thread_id
    pending,       \* pending[a]: the pending_replies row of surface a
    continuation   \* continuation[a]: the continuations row of surface a

inputVars == <<app, input>>
taskVars  == <<work, handle, tid, parts, lock, started>>
storeVars == <<thread, pending, continuation>>
vars      == <<pc, carry, reply, inputVars, taskVars, storeVars>>

----------------------------------------------------------------------------
(* Rows, texts and replies. *)

MaybeRequest == Requests \cup {None}

NoText  == [req |-> None, from |-> 0]
NoRow   == [status |-> "absent", req |-> None, age |-> "live"]
NoRest  == [req |-> None, from |-> 0, age |-> "live"]
NoInput == [utterance |-> "silent", session |-> "old"]

Locations == {"idle", "resolve", "take", "again", "poll", "gate", "wait",
              "keep", "deliver", "clear", "mark", "done", "gone"}
WorkSteps == {"none", "start", "save", "turn", "ok", "err"}

Plain(kind) == [kind |-> kind, req |-> None, part |-> 0]
NoReply     == Plain("none")

\* The request is being served: respond has neither returned nor died.
Active(r)  == pc[r] \notin {"idle", "done", "gone"}
\* The work task of r is alive; it owns the guard of the house lock.
Working(r) == work[r] \in {"start", "save", "turn"}
House(r)   == HouseOf[app[r]]

Goto(r, location) == pc' = [pc EXCEPT ![r] = location]

\* respond returns.
Finish(r, answer) ==
    /\ Goto(r, "done")
    /\ reply' = [reply EXCEPT ![r] = answer]
    /\ carry' = [carry EXCEPT ![r] = NoText]

Fail(r) == Finish(r, Plain("error"))

\* Mutant of Remaining: a chunk is expected after the last one.
RemainingOnePastEnd(text) ==
    IF text.from <= parts[text.req]
    THEN [req |-> text.req, from |-> text.from + 1, age |-> "live"]
    ELSE NoRest

\* Mutant of Remaining: the last chunk is forgotten.
RemainingWithoutLast(text) ==
    IF text.from + 1 < parts[text.req]
    THEN [req |-> text.req, from |-> text.from + 1, age |-> "live"]
    ELSE NoRest

\* ReplyShaper::split: the chunk that is spoken, and what remains.
Spoken(text) == [kind |-> "part", req |-> text.req, part |-> text.from]

Remaining(text) ==
    IF text.from < parts[text.req]
    THEN [req |-> text.req, from |-> text.from + 1, age |-> "live"]
    ELSE NoRest

----------------------------------------------------------------------------
(* The store: each operator is the table after the statement ran. *)

\* A failed statement leaves its table as it was.
Stored(outcome, before, after) == IF outcome = "failed" THEN before ELSE after

Deliverable(row) == row.req # None /\ row.age = "live"

TakeContinuation(a) ==
    [continuation EXCEPT ![a] = IF Deliverable(@) THEN NoRest ELSE @]

\* Saving no chunks clears the row: Remaining is then NoRest.
SaveContinuation(a, rest) == [continuation EXCEPT ![a] = rest]

MarkThinking(a, r) ==
    [pending EXCEPT ![a] = [status |-> "thinking", req |-> r, age |-> "live"]]

\* Mutant of SaveReady: the row is keyed by the house only.
SaveReadyForHouse(a, r) ==
    [b \in Apps |-> IF HouseOf[b] = HouseOf[a]
                    THEN [status |-> "ready", req |-> r, age |-> "live"]
                    ELSE pending[b]]

SaveReady(a, r) ==
    [pending EXCEPT ![a] = [status |-> "ready", req |-> r, age |-> "live"]]

\* Mutant of ClearPending: the delivered row stays.
ClearPendingNot(a) == [pending EXCEPT ![a] = @]

ClearPending(a) == [pending EXCEPT ![a] = NoRow]

\* Mutant of MaySaveThread: the UPDATE has no condition on the old value.
MaySaveThreadAlways(h, t) == h \in Houses /\ t \in Requests

\* save_thread_id changes a row only where no other thread was recorded.
MaySaveThread(h, t) == thread[h] \in {None, t}

----------------------------------------------------------------------------
(* respond, one action per await. *)

\* The webhook spawns respond.  Alice sends a surface's next utterance after
\* it got the answer to the one before, unless Overlap.
Arrive(r, a, i) ==
    /\ pc[r] = "idle"
    /\ Overlap \/ \A q \in Requests : Active(q) => app[q] # a
    /\ app'   = [app EXCEPT ![r] = a]
    /\ input' = [input EXCEPT ![r] = i]
    /\ Goto(r, "resolve")
    /\ UNCHANGED <<carry, reply, taskVars, storeVars>>

\* resolve_surface: an unbound surface is paired or refused; a bound one gets
\* a copy of the house row, the thread id in it included.
Resolve(r, o) ==
    /\ pc[r] = "resolve"
    /\ \/ /\ o # "ok"
          /\ Fail(r)
          /\ UNCHANGED tid
       \/ /\ o = "ok"
          /\ House(r) = None
          /\ Finish(r, Plain("turnedAway"))
          /\ UNCHANGED tid
       \/ /\ o = "ok"
          /\ House(r) # None
          /\ Goto(r, "take")
          /\ tid' = [tid EXCEPT ![r] = thread[House(r)]]
          /\ UNCHANGED <<carry, reply>>
    /\ UNCHANGED <<inputVars, work, handle, parts, lock, started, storeVars>>

\* answer_continuation, up to its next store call.
AnswerContinuation(r, row) ==
    \/ /\ input[r].utterance = "stop"
       /\ Finish(r, [kind |-> "stopped", req |-> row.req, part |-> row.from])
    \/ /\ input[r].utterance \in {"silent", "marks"}
       /\ Goto(r, "again")
       /\ carry' = [carry EXCEPT ![r] = [req |-> row.req, from |-> row.from]]
       /\ UNCHANGED reply
    \/ /\ input[r].utterance = "ask"
       /\ Goto(r, "keep")
       /\ carry' = [carry EXCEPT ![r] = [req |-> row.req, from |-> row.from]]
       /\ UNCHANGED reply

\* take_continuation: DELETE ... RETURNING the live row.
Take(r, o) ==
    /\ pc[r] = "take"
    /\ continuation' = Stored(o, continuation, TakeContinuation(app[r]))
    /\ \/ /\ o # "ok"
          /\ Fail(r)
       \/ /\ o = "ok"
          /\ Deliverable(continuation[app[r]])
          /\ AnswerContinuation(r, continuation[app[r]])
       \/ /\ o = "ok"
          /\ ~Deliverable(continuation[app[r]])
          /\ Goto(r, "poll")
          /\ UNCHANGED <<carry, reply>>
    /\ UNCHANGED <<inputVars, taskVars, thread, pending>>

\* Mutant of Again: the chunks go through the shaper before they are put back.
AgainShaped(r, o) ==
    /\ pc[r] = "again"
    /\ continuation' = Stored(o, continuation, SaveContinuation(app[r], Remaining(carry[r])))
    /\ \/ o = "ok" /\ Finish(r, Plain("askAgain"))
       \/ o # "ok" /\ Fail(r)
    /\ UNCHANGED <<inputVars, taskVars, thread, pending>>

\* An empty utterance puts the chunks back and asks again.
Again(r, o) ==
    /\ pc[r] = "again"
    /\ continuation' = Stored(o, continuation,
           SaveContinuation(app[r], [req |-> carry[r].req, from |-> carry[r].from, age |-> "live"]))
    /\ \/ o = "ok" /\ Finish(r, Plain("askAgain"))
       \/ o # "ok" /\ Fail(r)
    /\ UNCHANGED <<inputVars, taskVars, thread, pending>>

\* shape_and_save of a finished turn or of a continuation.
Keep(r, o) ==
    /\ pc[r] = "keep"
    /\ continuation' = Stored(o, continuation, SaveContinuation(app[r], Remaining(carry[r])))
    /\ \/ o = "ok" /\ Finish(r, Spoken(carry[r]))
       \/ o # "ok" /\ Fail(r)
    /\ UNCHANGED <<inputVars, taskVars, thread, pending>>

\* poll_pending reads the row and leaves it in place.
Poll(r, o) ==
    LET row == pending[app[r]]
    IN  /\ pc[r] = "poll"
        /\ \/ /\ o # "ok"
              /\ Fail(r)
           \/ /\ o = "ok"
              /\ Deliverable(row)
              /\ row.status = "ready"
              /\ Goto(r, "deliver")
              /\ carry' = [carry EXCEPT ![r] = [req |-> row.req, from |-> 1]]
              /\ UNCHANGED reply
           \/ /\ o = "ok"
              /\ Deliverable(row)
              /\ row.status = "thinking"
              /\ Finish(r, Plain("stillThinking"))
           \/ /\ o = "ok"
              /\ ~Deliverable(row)
              /\ Goto(r, "gate")
              /\ UNCHANGED <<carry, reply>>
        /\ UNCHANGED <<inputVars, taskVars, storeVars>>

\* shape_and_save of a deferred answer: nothing is spoken before the pending
\* row is cleared.
Deliver(r, o) ==
    /\ pc[r] = "deliver"
    /\ continuation' = Stored(o, continuation, SaveContinuation(app[r], Remaining(carry[r])))
    /\ \/ o = "ok" /\ Goto(r, "clear") /\ UNCHANGED <<carry, reply>>
       \/ o # "ok" /\ Fail(r)
    /\ UNCHANGED <<inputVars, taskVars, thread, pending>>

Clear(r, o) ==
    /\ pc[r] = "clear"
    /\ pending' = Stored(o, pending, ClearPending(app[r]))
    /\ \/ o = "ok" /\ Finish(r, Spoken(carry[r]))
       \/ o # "ok" /\ Fail(r)
    /\ UNCHANGED <<inputVars, taskVars, thread, continuation>>

\* The greeting, the house lock, and the spawn of the work task: no await
\* between the three.
Gate(r) ==
    /\ pc[r] = "gate"
    /\ \/ /\ input[r] = [utterance |-> "silent", session |-> "new"]
          /\ Finish(r, Plain("greeting"))
          /\ UNCHANGED <<work, lock>>
       \/ /\ input[r] # [utterance |-> "silent", session |-> "new"]
          /\ lock[House(r)] # None
          /\ Finish(r, Plain("busy"))
          /\ UNCHANGED <<work, lock>>
       \/ /\ input[r] # [utterance |-> "silent", session |-> "new"]
          /\ lock[House(r)] = None
          /\ lock' = [lock EXCEPT ![House(r)] = r]
          /\ work' = [work EXCEPT ![r] = IF tid[r] = None THEN "start" ELSE "turn"]
          /\ Goto(r, "wait")
          /\ UNCHANGED <<carry, reply>>
    /\ UNCHANGED <<inputVars, handle, tid, parts, started, storeVars>>

\* timeout(reply_budget, &mut work) sees the work finished ...
Collect(r) ==
    /\ pc[r] = "wait"
    /\ \/ /\ work[r] = "ok"
          /\ Goto(r, "keep")
          /\ carry' = [carry EXCEPT ![r] = [req |-> r, from |-> 1]]
          /\ UNCHANGED reply
       \/ /\ work[r] = "err"
          /\ Fail(r)
    /\ UNCHANGED <<inputVars, taskVars, storeVars>>

\* Mutant of Deadline: the budget covers the turn but not the thread's start.
DeadlineOfTurnOnly(r) ==
    /\ pc[r] = "wait"
    /\ work[r] = "turn"
    /\ Goto(r, "mark")
    /\ UNCHANGED <<carry, reply, inputVars, taskVars, storeVars>>

\* Mutant of Deadline: respond, not the work task, owns the guard.
DeadlineDropsGuard(r) ==
    /\ pc[r] = "wait"
    /\ Working(r)
    /\ Goto(r, "mark")
    /\ lock' = [lock EXCEPT ![House(r)] = None]
    /\ UNCHANGED <<carry, reply, inputVars, work, handle, tid, parts, started, storeVars>>

\* ... or the budget spent.  timeout polls the work before its timer.
Deadline(r) ==
    /\ pc[r] = "wait"
    /\ Working(r)
    /\ Goto(r, "mark")
    /\ UNCHANGED <<carry, reply, inputVars, taskVars, storeVars>>

\* mark_thinking, then hand the work to a saver task, or abort it when the
\* mark was not acknowledged.
Mark(r, o) ==
    /\ pc[r] = "mark"
    /\ pending' = Stored(o, pending, MarkThinking(app[r], r))
    /\ \/ /\ o = "ok"
          /\ handle' = [handle EXCEPT ![r] = "saver"]
          /\ Finish(r, Plain("stillThinking"))
       \/ /\ o # "ok"
          /\ handle' = [handle EXCEPT ![r] = "abort"]
          /\ Fail(r)
    /\ UNCHANGED <<inputVars, work, tid, parts, lock, started, thread, continuation>>

----------------------------------------------------------------------------
(* The work task and the saver task. *)

\* Mutant of EndWork: the guard is dropped on success only.
EndWorkOnSuccess(r, how) ==
    /\ work' = [work EXCEPT ![r] = how]
    /\ lock' = IF how = "ok" THEN [lock EXCEPT ![House(r)] = None] ELSE lock

\* The task ends and drops the guard of the house lock.
EndWork(r, how) ==
    /\ work' = [work EXCEPT ![r] = how]
    /\ lock' = [lock EXCEPT ![House(r)] = None]

\* start_thread.  A thread is named after the request that started it.
StartThread(r, o) ==
    /\ work[r] = "start"
    /\ started' = IF o = "failed" THEN started ELSE started \cup {r}
    /\ \/ o = "ok" /\ work' = [work EXCEPT ![r] = "save"] /\ UNCHANGED lock
       \/ o # "ok" /\ EndWork(r, "err")
    /\ UNCHANGED <<pc, carry, reply, inputVars, handle, tid, parts, storeVars>>

SaveThread(r, o) ==
    /\ work[r] = "save"
    /\ thread' = Stored(o, thread, IF MaySaveThread(House(r), r)
                                   THEN [thread EXCEPT ![House(r)] = r]
                                   ELSE thread)
    /\ \/ /\ o = "ok"
          /\ MaySaveThread(House(r), r)
          /\ work' = [work EXCEPT ![r] = "turn"]
          /\ tid'  = [tid EXCEPT ![r] = r]
          /\ UNCHANGED lock
       \/ /\ o # "ok" \/ ~MaySaveThread(House(r), r)
          /\ EndWork(r, "err")
          /\ UNCHANGED tid
    /\ UNCHANGED <<pc, carry, reply, inputVars, handle, parts, started, pending, continuation>>

\* turn: the answer has at least one chunk, an empty text included.
Turn(r, o) ==
    /\ work[r] = "turn"
    /\ \/ /\ o = "ok"
          /\ EndWork(r, "ok")
          /\ \E n \in 1..MaxParts : parts' = [parts EXCEPT ![r] = n]
       \/ /\ o # "ok"
          /\ EndWork(r, "err")
          /\ UNCHANGED parts
    /\ UNCHANGED <<pc, carry, reply, inputVars, handle, tid, started, storeVars>>

\* An aborted task is dropped at an await.  A statement it has sent already
\* took effect, or never will: that the database still executes it after the
\* guard is gone is left out.
Cancelled(r) ==
    /\ handle[r] = "abort"
    /\ Working(r)
    /\ EndWork(r, "err")
    /\ UNCHANGED <<pc, carry, reply, inputVars, handle, tid, parts, started, storeVars>>

\* Mutant of Saver: a failed turn leaves the mark.
SaverOfSuccess(r, o) ==
    /\ handle[r] = "saver"
    /\ \/ /\ work[r] = "ok"
          /\ pending' = Stored(o, pending, SaveReady(app[r], r))
       \/ /\ work[r] = "err"
          /\ UNCHANGED pending
    /\ handle' = [handle EXCEPT ![r] = "closed"]
    /\ UNCHANGED <<pc, carry, reply, inputVars, work, tid, parts, lock, started,
                   thread, continuation>>

\* The saver awaits the work and stores its answer, or removes the mark; it
\* ignores whether that succeeded.
Saver(r, o) ==
    /\ handle[r] = "saver"
    /\ \/ /\ work[r] = "ok"
          /\ pending' = Stored(o, pending, SaveReady(app[r], r))
       \/ /\ work[r] = "err"
          /\ pending' = Stored(o, pending, ClearPending(app[r]))
    /\ handle' = [handle EXCEPT ![r] = "closed"]
    /\ UNCHANGED <<pc, carry, reply, inputVars, work, tid, parts, lock, started,
                   thread, continuation>>

----------------------------------------------------------------------------
(* The environment. *)

\* A row passes its expires_at: queries no longer see it, nothing removes it.
ExpirePending(a) ==
    /\ TimeMoves
    /\ Deliverable(pending[a])
    /\ pending' = [pending EXCEPT ![a].age = "expired"]
    /\ UNCHANGED <<pc, carry, reply, inputVars, taskVars, thread, continuation>>

ExpireContinuation(a) ==
    /\ TimeMoves
    /\ Deliverable(continuation[a])
    /\ continuation' = [continuation EXCEPT ![a].age = "expired"]
    /\ UNCHANGED <<pc, carry, reply, inputVars, taskVars, thread, pending>>

\* The process dies: every task and the lock table are gone, the database and
\* the threads of the app-server stay.  A statement already sent took effect, or
\* never will, as in Cancelled.
Crash ==
    /\ MayCrash
    /\ \E r \in Requests : Active(r) \/ Working(r) \/ handle[r] = "saver"
    /\ pc'     = [r \in Requests |-> IF Active(r) THEN "gone" ELSE pc[r]]
    /\ carry'  = [r \in Requests |-> NoText]
    /\ work'   = [r \in Requests |-> IF Working(r) THEN "err" ELSE work[r]]
    /\ handle' = [r \in Requests |-> IF handle[r] = "saver" THEN "closed" ELSE handle[r]]
    /\ lock'   = [h \in Houses |-> None]
    /\ UNCHANGED <<reply, inputVars, tid, parts, started, storeVars>>

\* Every request was served and no task is left.
Idle ==
    /\ \A r \in Requests : /\ pc[r] \in {"done", "gone"}
                           /\ ~Working(r)
                           /\ handle[r] # "saver"
    /\ UNCHANGED vars

----------------------------------------------------------------------------
Init ==
    /\ pc           = [r \in Requests |-> "idle"]
    /\ app          = [r \in Requests |-> None]
    /\ input        = [r \in Requests |-> NoInput]
    /\ carry        = [r \in Requests |-> NoText]
    /\ reply        = [r \in Requests |-> NoReply]
    /\ work         = [r \in Requests |-> "none"]
    /\ handle       = [r \in Requests |-> "none"]
    /\ tid          = [r \in Requests |-> None]
    /\ parts        = [r \in Requests |-> 0]
    /\ lock         = [h \in Houses |-> None]
    /\ started      = {}
    /\ thread       = [h \in Houses |-> None]
    /\ pending      = [a \in Apps |-> NoRow]
    /\ continuation = [a \in Apps |-> NoRest]

\* The steps of respond itself.
Handler(r) ==
    \/ \E o \in StoreOutcomes :
          \/ Resolve(r, o) \/ Take(r, o) \/ Again(r, o) \/ Keep(r, o)
          \/ Poll(r, o) \/ Deliver(r, o) \/ Clear(r, o) \/ Mark(r, o)
    \/ Gate(r) \/ Collect(r) \/ Deadline(r)

\* The steps of the tasks respond spawned.
Task(r) ==
    \/ \E o \in RuntimeOutcomes : StartThread(r, o) \/ Turn(r, o)
    \/ \E o \in StoreOutcomes : SaveThread(r, o) \/ Saver(r, o)
    \/ Cancelled(r)

Next ==
    \/ \E r \in Requests :
          \/ \E a \in Apps, i \in Inputs : Arrive(r, a, i)
          \/ Handler(r)
          \/ Task(r)
    \/ \E a \in Apps : ExpirePending(a) \/ ExpireContinuation(a)
    \/ Crash
    \/ Idle

Spec == Init /\ [][Next]_vars

\* The scheduler runs a ready task, the store answers, and the reply budget
\* ends; nothing is assumed of the Codex app-server.
Fairness == \A r \in Requests : WF_vars(Handler(r))

\* Every call to the app-server returns and every task is run.
RuntimeFairness == \A r \in Requests : WF_vars(Task(r))

HungSpec == Spec /\ Fairness

----------------------------------------------------------------------------
(* Properties. *)

Replies == [kind : {"none", "turnedAway", "part", "stopped", "askAgain", "greeting",
                    "busy", "stillThinking", "error"},
            req  : MaybeRequest, part : 0..MaxParts]

\* Every variable of the engine and of its tables holds a value of its kind;
\* rows and texts that name no request are the absent ones.
TypeOK ==
    /\ pc \in [Requests -> Locations]
    /\ app \in [Requests -> Apps \cup {None}]
    /\ input \in [Requests -> [utterance : Utterances, session : Sessions]]
    /\ carry \in [Requests -> [req : MaybeRequest, from : 0..MaxParts]]
    /\ reply \in [Requests -> Replies]
    /\ work \in [Requests -> WorkSteps]
    /\ handle \in [Requests -> {"none", "saver", "abort", "closed"}]
    /\ tid \in [Requests -> MaybeRequest]
    /\ parts \in [Requests -> 0..MaxParts]
    /\ lock \in [Houses -> MaybeRequest]
    /\ started \subseteq Requests
    /\ thread \in [Houses -> MaybeRequest]
    /\ pending \in [Apps -> [status : {"absent", "thinking", "ready"},
                            req : MaybeRequest, age : {"live", "expired"}]]
    /\ continuation \in [Apps -> [req : MaybeRequest, from : 0..MaxParts,
                                 age : {"live", "expired"}]]

\* A chunk of the answer to q is spoken, or offered and declined, only on the
\* surface that asked q: deferred answers and continuations never cross to
\* another surface, whatever interleaves, fails, expires or crashes.
OnlyInitiatingSurface ==
    \A r \in Requests :
        reply[r].req # None => app[reply[r].req] = app[r]

\* A house has one conversation: a turn is submitted, and an answer produced,
\* only on the thread recorded in the house row, though respond reads that
\* row long before it takes the house lock.
TurnsOnHouseThread ==
    \A r \in Requests :
        work[r] = "turn" \/ parts[r] > 0 =>
            tid[r] # None /\ tid[r] = thread[House(r)]

\* A house works on one request at a time: the work task outlives respond,
\* is aborted, killed or handed to a saver, and still two never coexist.
OneWorkPerHouse ==
    \A q, r \in Requests :
        Working(q) /\ Working(r) /\ House(q) = House(r) => q = r

\* Chunk n of the answer to q was spoken.
Said(q, n) == \E r \in Requests : reply[r] = [kind |-> "part", req |-> q, part |-> n]

\* The listener declined chunk n of the answer to q.
Declined(q, n) ==
    \E r \in Requests : reply[r].kind = "stopped" /\ reply[r].req = q /\ reply[r].part <= n

\* Chunk n of the answer to q is on its way: with the finished work, in one of
\* the two tables, or with the request that is about to speak it.
Held(q, n) ==
    \/ work[q] = "ok" /\ (pc[q] \in {"wait", "mark"} \/ handle[q] = "saver")
    \/ \E a \in Apps : pending[a].status = "ready" /\ pending[a].req = q
    \/ \E a \in Apps : continuation[a].req = q /\ continuation[a].from <= n
    \/ \E r \in Requests : carry[r].req = q /\ carry[r].from <= n

\* While nothing fails, expires or overlaps, every chunk of every finished
\* answer is spoken, declined by the listener, or still held somewhere.
NothingLost ==
    \A q \in Requests : \A n \in 1..parts[q] :
        Said(q, n) \/ Declined(q, n) \/ Held(q, n)

\* While the store answers and a surface waits for its reply, no chunk is
\* spoken twice, whether it was deferred, expired or continued.
SaidOnce ==
    \A q, r \in Requests :
        reply[q].kind = "part" /\ reply[q] = reply[r] => q = r

\* The chunks of an answer are spoken from the first one on, none skipped.
ChunksInOrder ==
    \A q \in Requests : \A n \in 2..MaxParts : Said(q, n) => Said(q, n - 1)

\* A house starts one Codex thread.
OneThreadStarted ==
    \A q, r \in started : House(q) = House(r) => q = r

Chat == INSTANCE HouseChat
            WITH busy <- lock, chat <- thread, answered <- {r \in Requests : parts[r] > 0}

\* The engine keeps what HouseChat promises of a house: one conversation, one
\* request worked on at a time, an answer only in that conversation and only
\* by the request that holds the house, through deadlines, aborts, lost
\* acknowledgements and restarts.
KeepsOneChat == Chat!Spec

\* Every webhook call is answered, even while the Codex app-server hangs and
\* the house lock is never released.
EveryRequestAnswered == \A r \in Requests : Active(r) ~> pc[r] = "done"

\* Unless the app-server hangs, a taken house lock is released: by the work
\* that ends, fails or is aborted.
HouseUnlocked ==
    RuntimeFairness => \A h \in Houses : lock[h] # None ~> lock[h] = None

\* Unless the app-server hangs, a surface told that the answer is being thought
\* about gets off that mark without waiting for the TTL.
ThinkingEnds ==
    RuntimeFairness =>
        \A a \in Apps : pending[a].status = "thinking" ~> pending[a].status # "thinking"
=============================================================================
