-------------------------- MODULE DeferredAnswers --------------------------
(***************************************************************************)
(* The deferred answers of the OpenAI-compatible engine: Engine::handle and *)
(* Engine::ask_llm of crates/bridge-core/src/engine.rs, the generation task *)
(* ask_llm spawns, and the map PendingAnswers of                            *)
(* crates/bridge-core/src/pending.rs.                                       *)
(*                                                                         *)
(* The engine runs on a multi-threaded runtime, so a step of this model is  *)
(* one access to shared memory: one DashMap operation, one use of the       *)
(* oneshot channel.  What is answered is left out: the text of an answer is *)
(* the request it answers.                                                  *)
(***************************************************************************)
EXTENDS Naturals, FiniteSets

CONSTANTS
    Users,       \* Alice user ids, the keys of the map
    Requests,    \* webhook calls; each happens at most once
    MayPanic,    \* may the generation task die without a reply?
    None         \* no user, no request

ASSUME UsersAssumption  == None \notin Users \cup Requests
ASSUME SwitchAssumption == MayPanic \in BOOLEAN

VARIABLES
    pc,      \* pc[r]: where handle is in serving r
    user,    \* user[r]: who called
    kind,    \* kind[r]: does the utterance parse as a question or a command?
    reply,   \* reply[r]: what handle returned
    gen,     \* gen[r]: the generation task of r
    slot,    \* slot[u]: the entry of the map PendingAnswers
    calm     \* history: no two calls of a user at once, and no entry expired

vars == <<pc, user, kind, reply, gen, slot, calm>>

----------------------------------------------------------------------------
Locations == {"idle", "peek", "remove", "expire", "parse", "wait", "late", "clear", "done"}

\* "sent" and "lost": the channel took the reply, in time or not; "complete":
\* it refused it; "landed" and "nowhere": what complete then did.
GenSteps  == {"none", "running", "send", "sent", "lost", "complete", "landed", "nowhere", "closed"}

NoSlot == [status |-> "absent", req |-> None]
Empty(u) == slot[u].status = "absent"

Plain(k)  == [kind |-> k, req |-> None]
Answer(q) == [kind |-> "answer", req |-> q]
NoReply   == Plain("none")

Active(r) == pc[r] \notin {"idle", "done"}

Goto(r, location) == pc' = [pc EXCEPT ![r] = location]
Finish(r, answer) == Goto(r, "done") /\ reply' = [reply EXCEPT ![r] = answer]

----------------------------------------------------------------------------
(* PendingAnswers: each operator is the map after the operation. *)

MarkThinking(u, r) == [slot EXCEPT ![u] = [status |-> "thinking", req |-> r]]

\* Mutant of Complete: every user's entry is upgraded.
CompleteEvery(u, r) ==
    [v \in Users |-> IF Empty(v) THEN slot[v] ELSE [status |-> "ready", req |-> r]]

\* complete: upgrades an entry, whoever made it; no entry, no effect.
Complete(u, r) ==
    [slot EXCEPT ![u] = IF Empty(u) THEN @ ELSE [status |-> "ready", req |-> r]]

\* Mutant of Removed: the entry stays.
RemovedNot(u) == [slot EXCEPT ![u] = @]

\* clear and both removes of poll: whatever is there now is gone.
Removed(u) == [slot EXCEPT ![u] = NoSlot]

----------------------------------------------------------------------------
(* handle. *)

\* A user with two Stations may call while another call is under way.
Arrive(r, u, k) ==
    /\ pc[r] = "idle"
    /\ calm' = (calm /\ \A q \in Requests : Active(q) => user[q] # u)
    /\ user' = [user EXCEPT ![r] = u]
    /\ kind' = [kind EXCEPT ![r] = k]
    /\ Goto(r, "peek")
    /\ UNCHANGED <<reply, gen, slot>>

\* The first half of poll: a copy of the entry decides what to do.
Peek(r) ==
    /\ pc[r] = "peek"
    /\ \/ /\ Empty(user[r])
          /\ Goto(r, "parse")
          /\ UNCHANGED reply
       \/ /\ slot[user[r]].status = "ready"
          /\ Goto(r, "remove")
          /\ UNCHANGED reply
       \/ /\ slot[user[r]].status = "thinking"
          /\ Finish(r, Plain("stillThinking"))
       \/ /\ slot[user[r]].status = "stale"
          /\ Goto(r, "expire")
          /\ UNCHANGED reply
    /\ UNCHANGED <<user, kind, gen, slot, calm>>

\* The second half of poll, for an entry seen ready.
Remove(r) ==
    /\ pc[r] = "remove"
    /\ \/ /\ slot[user[r]].status = "ready"
          /\ Finish(r, Answer(slot[user[r]].req))
       \/ /\ slot[user[r]].status # "ready"
          /\ Goto(r, "parse")
          /\ UNCHANGED reply
    /\ slot' = Removed(user[r])
    /\ UNCHANGED <<user, kind, gen, calm>>

\* The second half of poll, for an entry seen older than THINKING_TTL.
Expire(r) ==
    /\ pc[r] = "expire"
    /\ slot' = Removed(user[r])
    /\ Goto(r, "parse")
    /\ UNCHANGED <<user, kind, reply, gen, calm>>

\* A command is answered at once; a question reads its context, marks the
\* user as thinking and spawns the generation task.
Parse(r) ==
    /\ pc[r] = "parse"
    /\ \/ /\ kind[r] = "command"
          /\ Finish(r, Plain("command"))
          /\ UNCHANGED <<gen, slot>>
       \/ /\ kind[r] = "question"
          /\ slot' = MarkThinking(user[r], r)
          /\ gen'  = [gen EXCEPT ![r] = "running"]
          /\ Goto(r, "wait")
          /\ UNCHANGED reply
    /\ UNCHANGED <<user, kind, calm>>

\* The receiver has the reply, or learns that the sender is gone.
Receive(r) ==
    /\ pc[r] = "wait"
    /\ gen[r] \in {"sent", "closed"}
    /\ Goto(r, "clear")
    /\ UNCHANGED <<user, kind, reply, gen, slot, calm>>

ClearMark(r) ==
    /\ pc[r] = "clear"
    /\ slot' = Removed(user[r])
    /\ Finish(r, IF gen[r] = "sent" THEN Answer(r) ELSE Plain("error"))
    /\ UNCHANGED <<user, kind, gen, calm>>

\* Mutant of Deadline: the wait for the channel has no time limit while the
\* provider has not answered.
DeadlineAfterAnswer(r) ==
    /\ pc[r] = "wait"
    /\ gen[r] = "send"
    /\ Goto(r, "late")
    /\ UNCHANGED <<user, kind, reply, gen, slot, calm>>

\* timeout polls the receiver, finds nothing, and sees the budget spent ...
Deadline(r) ==
    /\ pc[r] = "wait"
    /\ gen[r] \notin {"sent", "closed"}
    /\ Goto(r, "late")
    /\ UNCHANGED <<user, kind, reply, gen, slot, calm>>

\* Mutant of DropReceiver: the mark is cleared whatever timeout returned.
DropReceiverClears(r) ==
    /\ pc[r] = "late"
    /\ Finish(r, Plain("thinkingStarted"))
    /\ slot' = Removed(user[r])
    /\ UNCHANGED <<user, kind, gen, calm>>

\* ... and only then is the receiver dropped.
DropReceiver(r) ==
    /\ pc[r] = "late"
    /\ Finish(r, Plain("thinkingStarted"))
    /\ UNCHANGED <<user, kind, gen, slot, calm>>

----------------------------------------------------------------------------
(* The generation task. *)

\* generate returns: the model's text or the phrase for its error.
Generate(r) ==
    /\ gen[r] = "running"
    /\ gen' = [gen EXCEPT ![r] = "send"]
    /\ UNCHANGED <<pc, user, kind, reply, slot, calm>>

\* sender.send fails only once the receiver is dropped.
Send(r) ==
    /\ gen[r] = "send"
    /\ \/ pc[r] = "wait" /\ gen' = [gen EXCEPT ![r] = "sent"]
       \/ pc[r] = "late" /\ gen' = [gen EXCEPT ![r] = "lost"]
       \/ pc[r] = "done" /\ gen' = [gen EXCEPT ![r] = "complete"]
    /\ UNCHANGED <<pc, user, kind, reply, slot, calm>>

Store(r) ==
    /\ gen[r] = "complete"
    /\ slot' = Complete(user[r], r)
    /\ gen'  = [gen EXCEPT ![r] = IF Empty(user[r]) THEN "nowhere" ELSE "landed"]
    /\ UNCHANGED <<pc, user, kind, reply, calm>>

\* The task panics and drops the sender.
Panic(r) ==
    /\ MayPanic
    /\ gen[r] = "running"
    /\ gen' = [gen EXCEPT ![r] = "closed"]
    /\ UNCHANGED <<pc, user, kind, reply, slot, calm>>

\* THINKING_TTL passes.
Age(u) ==
    /\ slot[u].status = "thinking"
    /\ slot' = [slot EXCEPT ![u].status = "stale"]
    /\ calm' = FALSE
    /\ UNCHANGED <<pc, user, kind, reply, gen>>

Idle ==
    /\ \A r \in Requests : pc[r] = "done" /\ gen[r] \notin {"running", "send", "complete"}
    /\ UNCHANGED vars

----------------------------------------------------------------------------
Init ==
    /\ pc    = [r \in Requests |-> "idle"]
    /\ user  = [r \in Requests |-> None]
    /\ kind  = [r \in Requests |-> "question"]
    /\ reply = [r \in Requests |-> NoReply]
    /\ gen   = [r \in Requests |-> "none"]
    /\ slot  = [u \in Users |-> NoSlot]
    /\ calm  = TRUE

Handle(r) ==
    \/ Peek(r) \/ Remove(r) \/ Expire(r) \/ Parse(r)
    \/ Receive(r) \/ ClearMark(r) \/ Deadline(r) \/ DropReceiver(r)

Task(r) == Generate(r) \/ Send(r) \/ Store(r) \/ Panic(r)

Next ==
    \/ \E r \in Requests :
          \/ \E u \in Users, k \in {"question", "command"} : Arrive(r, u, k)
          \/ Handle(r)
          \/ Task(r)
    \/ \E u \in Users : Age(u)
    \/ Idle

Spec == Init /\ [][Next]_vars

\* The scheduler runs handle and the reply budget ends; the provider may hang.
HungSpec == Spec /\ \A r \in Requests : WF_vars(Handle(r))

----------------------------------------------------------------------------
(* Properties. *)

\* Every variable holds a value of its kind.
TypeOK ==
    /\ pc \in [Requests -> Locations]
    /\ user \in [Requests -> Users \cup {None}]
    /\ kind \in [Requests -> {"question", "command"}]
    /\ reply \in [Requests -> [kind : {"none", "answer", "command", "stillThinking",
                                       "thinkingStarted", "error"},
                               req : Requests \cup {None}]]
    /\ gen \in [Requests -> GenSteps]
    /\ slot \in [Users -> [status : {"absent", "thinking", "stale", "ready"},
                           req : Requests \cup {None}]]
    /\ calm \in BOOLEAN

\* The answer to a question is spoken at most once, though it may take the
\* channel or the map, and poll reads the map and removes from it in two
\* separate operations.
AnsweredOnce ==
    \A q, r \in Requests :
        reply[q].kind = "answer" /\ reply[q] = reply[r] => q = r

\* An answer is spoken only to the user who asked, and only once the model
\* has finished it.
AnswerOfSameUser ==
    \A r \in Requests :
        reply[r].kind = "answer" =>
            user[reply[r].req] = user[r] /\ gen[reply[r].req] \in {"sent", "landed"}

\* The answer to q is spoken or waits where the user's next utterance finds it.
Reachable(q) ==
    \/ \E r \in Requests : reply[r] = Answer(q)
    \/ slot[user[q]] = [status |-> "ready", req |-> q]
    \/ gen[q] = "sent" /\ pc[q] \in {"wait", "clear"}

\* While a user has one call at a time and no entry expires, a finished answer
\* is never dropped, but for the one that enters the channel in the instant
\* between the deadline and the drop of the receiver.
LostOnlyInRace ==
    calm => \A q \in Requests : gen[q] \in {"sent", "landed", "nowhere"} => Reachable(q)

\* While a user has one call at a time and no entry expires, a completion that
\* races the deadline finds a slot to land in: every answer the generation task
\* handed over is spoken or found by the user's next utterance.
EveryCompletionLands ==
    calm => \A q \in Requests : gen[q] \in {"sent", "lost", "landed", "nowhere"} => Reachable(q)

\* Every call is answered, even while the provider hangs: none stays under way
\* for ever.
EveryRequestAnswered == \A r \in Requests : []<>~Active(r)
=============================================================================
