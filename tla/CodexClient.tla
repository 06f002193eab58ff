---------------------------- MODULE CodexClient ----------------------------
(***************************************************************************)
(* One call of the Codex app-server: start_thread or turn of                *)
(* crates/codex-runtime/src/lib.rs over the JSON-RPC client of client.rs.   *)
(*                                                                         *)
(* A call has a socket of its own.  It sends requests one after the other,  *)
(* queues the notifications that arrive before a response, and after        *)
(* turn/start collects the turn from the queue and then from the socket.    *)
(* The app-server is external: it may send any message at any time, the     *)
(* notifications of an earlier turn that was never interrupted included.    *)
(* The socket may break at any await.  The engine may also drop the call:   *)
(* it then takes no further step, which the specification allows anyway.    *)
(***************************************************************************)
EXTENDS Naturals, Sequences

CONSTANTS
    Threads,       \* ids of Codex threads
    Turns,         \* ids of turns
    HomeyEnabled,  \* CodexRuntimeConfig.homey_enabled
    MaxReads,      \* bound on the messages of a call
    MaxQueued,     \* bound on the notifications before the turn's response
    None           \* no id

ASSUME NoneAssumption == None \notin Threads \cup Turns
ASSUME BoundsAssumption ==
    MaxReads \in Nat /\ MaxQueued \in Nat /\ HomeyEnabled \in BOOLEAN

VARIABLES
    at,          \* the request the call waits for, or the loop it is in
    id,          \* the id of the latest request
    thread,      \* the thread of the call
    turn,        \* the turn the app-server started
    seen,        \* the messages read so far
    queue,       \* notifications: positions in seen
    text,        \* assistant_text: the positions of its deltas
    unverified,  \* unverified_homey_mutation
    replied,     \* the answers to the app-server's requests
    answer       \* what the call returned

vars == <<at, id, thread, turn, seen, queue, text, unverified, replied, answer>>

----------------------------------------------------------------------------
Message(type, i, t, n, detail) ==
    [type |-> type, id |-> i, thread |-> t, turn |-> n, server |-> None, detail |-> detail]

\* What a response may hold, as far as the client looks: the thread and
\* whether its permission profile is the house's, read-only and without
\* network; or the turn.
Results(request, i) ==
    CASE request \in {"threadStart", "resume"} ->
            {Message("result", i, t, None, d) : t \in Threads \cup {None}, d \in {"confined", "loose"}}
      [] request = "turnStart" ->
            {Message("result", i, None, n, "plain") : n \in Turns \cup {None}}
      [] OTHER -> {Message("result", i, None, None, "plain")}

\* An error, or a response without a result.
Faults == {Message("fault", 0, None, None, "error")}

ToolCalls == {"read", "verified", "unverified"}

\* A completed item: none of a tool, or a tool of the house's server, of
\* another one, or of one that is not named.
Item(t, n, server, detail) == [Message("item", 0, t, n, detail) EXCEPT !.server = server]

Notifications ==
    {Message("delta", 0, t, n, d) : t \in Threads, n \in Turns, d \in {"text", "broken"}} \cup
    {Item(t, n, None, d) : t \in Threads, n \in Turns, d \in ToolCalls \cup {"plain", "unknown"}} \cup
    {Item(t, n, "house", d) : t \in Threads, n \in Turns, d \in ToolCalls \cup {"unknown"}} \cup
    {Item(t, n, "other", "read") : t \in Threads, n \in Turns} \cup
    {Message("completed", 0, t, n, d) : t \in Threads, n \in Turns, d \in {"completed", "failed"}} \cup
    {Message("lifecycle", 0, None, None, "other")}

ServerRequests == {Message("request", 0, None, None, d) : d \in {"approval", "other"}}

\* homey_connector: no server when Homey is disabled.
Connector == IF HomeyEnabled THEN "house" ELSE None

\* The tool calls a turn may make: those of the house's own connector.  Where
\* it has none, a call that names no server passes the comparison.
Allowed(m) == m.detail = "plain" \/ (m.server = Connector /\ m.detail \in ToolCalls)

\* require_turn
OwnTurn(m) == m.thread = thread /\ m.turn = turn

\* require_completed_turn
CompletedTurn(m) == OwnTurn(m) /\ m.detail = "completed"

Waiting == at \in {"initialize", "threadStart", "resume", "turnStart"}

Finish(what) == at' = "done" /\ answer' = what

----------------------------------------------------------------------------
(* Requests. *)

\* start_thread or turn connects and sends initialize; a socket that cannot
\* be opened is an error.
Open(t) ==
    /\ at = "idle"
    /\ thread' = t
    /\ \/ at' = "initialize" /\ id' = 1 /\ UNCHANGED answer
       \/ Finish("error") /\ UNCHANGED id
    /\ UNCHANGED <<turn, seen, queue, text, unverified, replied>>

\* Mutant of Queued: the latest comes first.
QueuedFirst(i) == <<i>> \o queue

\* The notifications that precede a response are kept in their order.
Queued(i) == Append(queue, i)

Notified(m) ==
    /\ Waiting
    /\ m \in Notifications
    /\ Len(queue) < MaxQueued
    /\ seen' = Append(seen, m)
    /\ queue' = Queued(Len(seen'))
    /\ UNCHANGED <<at, id, thread, turn, text, unverified, replied, answer>>

\* A response of another request, or without a result, ends the call.
Refused(m) ==
    /\ Waiting
    /\ m \in Faults \/ (m.type = "result" /\ m.id # id)
    /\ seen' = Append(seen, m)
    /\ Finish("error")
    /\ UNCHANGED <<id, thread, turn, queue, text, unverified, replied>>

\* Mutant of Send: two ids are taken for a request.
SendTwice(next) == at' = next /\ id' = id + 2

Send(next) == at' = next /\ id' = id + 1

\* Mutant of Confined: the profile of the thread is not looked at.
ConfinedUnchecked(m) == m.thread # None

\* validate_permission_result
Confined(m) == m.thread # None /\ m.detail = "confined"

\* The result of the outstanding request arrives.
Result(request, m) ==
    /\ at = request
    /\ m.type = "result" /\ m.id = id
    /\ seen' = Append(seen, m)
    /\ UNCHANGED <<queue, text, unverified, replied>>

Initialized(m) ==
    /\ Result("initialize", m)
    /\ Send(IF thread = None THEN "threadStart" ELSE "resume")
    /\ UNCHANGED <<thread, turn, answer>>

ThreadStarted(m) ==
    /\ Result("threadStart", m)
    /\ \/ Confined(m) /\ thread' = m.thread /\ Finish("thread")
       \/ ~Confined(m) /\ Finish("error") /\ UNCHANGED thread
    /\ UNCHANGED <<id, turn>>

Resumed(m) ==
    /\ Result("resume", m)
    /\ \/ Confined(m) /\ m.thread = thread /\ Send("turnStart") /\ UNCHANGED answer
       \/ ~(Confined(m) /\ m.thread = thread) /\ Finish("error") /\ UNCHANGED id
    /\ UNCHANGED <<thread, turn>>

TurnStarted(m) ==
    /\ Result("turnStart", m)
    /\ turn' = m.turn
    /\ \/ m.turn # None /\ at' = "collect" /\ UNCHANGED answer
       \/ m.turn = None /\ Finish("error")
    /\ UNCHANGED <<id, thread>>

Verdict(m) == IF m.detail = "approval" THEN "decline" ELSE "refuse"

\* Mutant of HandleServerRequest: the call goes on after a refusal.
HandleServerRequestGoesOn(m, written) ==
    /\ Waiting \/ (at = "collect" /\ queue = <<>>)
    /\ m \in ServerRequests
    /\ seen' = Append(seen, m)
    /\ replied' = IF written THEN Append(replied, [to |-> Len(seen'), with |-> Verdict(m)]) ELSE replied
    /\ \/ written /\ UNCHANGED <<at, answer>>
       \/ ~written /\ Finish("error")
    /\ UNCHANGED <<id, thread, turn, queue, text, unverified>>

\* Approvals are declined, everything else is refused and ends the call; so
\* does an answer that cannot be written.
HandleServerRequest(m, written) ==
    /\ Waiting \/ (at = "collect" /\ queue = <<>>)
    /\ m \in ServerRequests
    /\ seen' = Append(seen, m)
    /\ replied' = IF written THEN Append(replied, [to |-> Len(seen'), with |-> Verdict(m)]) ELSE replied
    /\ \/ written /\ m.detail = "approval" /\ UNCHANGED <<at, answer>>
       \/ ~(written /\ m.detail = "approval") /\ Finish("error")
    /\ UNCHANGED <<id, thread, turn, queue, text, unverified>>

----------------------------------------------------------------------------
(* collect_turn *)

Delta(i, m) ==
    /\ m.type = "delta"
    /\ \/ OwnTurn(m) /\ m.detail = "text" /\ text' = Append(text, i) /\ UNCHANGED <<at, answer>>
       \/ ~(OwnTurn(m) /\ m.detail = "text") /\ Finish("error") /\ UNCHANGED text
    /\ UNCHANGED unverified

\* Mutant of Flag: the flag follows the latest change of a device.
FlagLatest(m) == IF m.detail \in {"verified", "unverified"} THEN m.detail = "unverified" ELSE unverified

\* One change of a device without a confirmed read-back is enough.
Flag(m) == unverified \/ m.detail = "unverified"

\* Mutant of ObserveHomeyTool: the connector of the tool is not compared.
ObserveHomeyToolAny(m) ==
    /\ m.type = "item"
    /\ \/ OwnTurn(m) /\ unverified' = Flag(m) /\ UNCHANGED <<at, answer>>
       \/ ~OwnTurn(m) /\ Finish("error") /\ UNCHANGED unverified
    /\ UNCHANGED text

ObserveHomeyTool(m) ==
    /\ m.type = "item"
    /\ \/ OwnTurn(m) /\ Allowed(m) /\ unverified' = Flag(m) /\ UNCHANGED <<at, answer>>
       \/ ~(OwnTurn(m) /\ Allowed(m)) /\ Finish("error") /\ UNCHANGED unverified
    /\ UNCHANGED text

Completed(m) ==
    /\ m.type = "completed"
    /\ \/ ~CompletedTurn(m) /\ Finish("error")
       \/ /\ CompletedTurn(m)
          /\ Finish(IF unverified THEN "unconfirmed" ELSE IF text = <<>> THEN "error" ELSE "text")
    /\ UNCHANGED <<text, unverified>>

Observe(i, m) ==
    /\ \/ Delta(i, m)
       \/ ObserveHomeyTool(m)
       \/ Completed(m)
       \/ m.type = "lifecycle" /\ UNCHANGED <<at, text, unverified, answer>>
       \/ m.type \in {"result", "fault"} /\ Finish("error") /\ UNCHANGED <<text, unverified>>
    /\ UNCHANGED <<id, thread, turn, replied>>

CollectQueued ==
    /\ at = "collect"
    /\ queue # <<>>
    /\ Observe(Head(queue), seen[Head(queue)])
    /\ queue' = Tail(queue)
    /\ UNCHANGED seen

CollectRead(m) ==
    /\ at = "collect"
    /\ queue = <<>>
    /\ seen' = Append(seen, m)
    /\ Observe(Len(seen'), m)
    /\ UNCHANGED queue

----------------------------------------------------------------------------
\* The socket ends or fails, or a frame is too large or not JSON.
Break ==
    /\ Waiting \/ (at = "collect" /\ queue = <<>>)
    /\ Finish("error")
    /\ UNCHANGED <<id, thread, turn, seen, queue, text, unverified, replied>>

Init ==
    /\ at = "idle" /\ id = 0
    /\ thread = None /\ turn = None
    /\ seen = <<>> /\ queue = <<>> /\ text = <<>>
    /\ unverified = FALSE
    /\ replied = <<>>
    /\ answer = "none"

\* A socket read.
Read ==
    /\ Len(seen) < MaxReads
    /\ \/ \E m \in Notifications : Notified(m)
       \/ \E m \in Faults \cup Results(at, 0) : Refused(m)
       \/ \E m \in Results(at, id) :
             Initialized(m) \/ ThreadStarted(m) \/ Resumed(m) \/ TurnStarted(m)
       \/ \E m \in ServerRequests, written \in BOOLEAN : HandleServerRequest(m, written)
       \/ \E m \in Notifications \cup Faults \cup Results(at, id) : CollectRead(m)

Next ==
    \/ \E t \in Threads \cup {None} : Open(t)
    \/ Read
    \/ CollectQueued
    \/ Break

Spec == Init /\ [][Next]_vars

----------------------------------------------------------------------------
(* Properties. *)

\* Every variable holds a value of its kind; queued and collected messages
\* have been read.
TypeOK ==
    /\ at \in {"idle", "initialize", "threadStart", "resume", "turnStart", "collect", "done"}
    /\ id \in 0..3
    /\ thread \in Threads \cup {None}
    /\ turn \in Turns \cup {None}
    /\ seen \in Seq(Notifications \cup ServerRequests \cup Faults \cup
                     UNION {Results(a, i) : a \in {"initialize", "resume", "turnStart"}, i \in 0..3})
    /\ queue \in Seq(1..Len(seen))
    /\ text \in Seq(1..Len(seen))
    /\ unverified \in BOOLEAN
    /\ replied \in Seq([to : 1..Len(seen), with : {"decline", "refuse"}])
    /\ answer \in {"none", "text", "unconfirmed", "thread", "error"}

\* The messages the app-server sent before it said that the turn was over.
BeforeEnd == {i \in 1..Len(seen) : \A j \in 1..i : seen[j].type # "completed"}

\* A spoken answer is the whole text of the turn: every delta the app-server
\* sent for it before the end, in its order, the ones that came before the
\* response of turn/start included, and none of another turn.
WholeAnswer ==
    answer = "text" =>
        /\ {text[k] : k \in 1..Len(text)} = {i \in BeforeEnd : seen[i].type = "delta"}
        /\ \A k \in 1..Len(text) : OwnTurn(seen[text[k]])
        /\ \A k, l \in 1..Len(text) : k < l => text[k] < text[l]

\* The bridge never speaks an answer of a turn that changed a device without
\* a confirmed read-back, whatever was confirmed after it.
NoFalseSuccess ==
    answer = "text" =>
        \A i \in BeforeEnd : ~(seen[i].type = "item" /\ seen[i].detail = "unverified")

\* A turn that used another connector or a tool outside the allowed three, or
\* another turn's tool, is never a success; without Homey, one that used a tool
\* of any named server.
OnlyOwnConnector ==
    answer \in {"text", "unconfirmed"} =>
        \A i \in BeforeEnd : seen[i].type = "item" => OwnTurn(seen[i]) /\ Allowed(seen[i])

\* No turn is started, and no thread handed to the engine, before the
\* app-server confirmed for that thread a read-only profile of this house.
ConfinedFirst ==
    at \in {"turnStart", "collect"} \/ answer \in {"thread", "text", "unconfirmed"} =>
        \E i \in 1..Len(seen) :
            seen[i].type = "result" /\ seen[i].thread = thread /\ seen[i].detail = "confined"

\* Requests, unlike notifications, are never ignored: each is answered once
\* and in order, an approval by declining it, and nothing is read past one
\* that was refused.  Only the last may go unanswered, when the socket broke.
RequestsNeverIgnored ==
    LET asked == {i \in 1..Len(seen) : seen[i].type = "request"}
        told  == {replied[k].to : k \in 1..Len(replied)}
    IN  /\ asked \ told \subseteq (IF answer = "error" THEN {Len(seen)} ELSE {})
        /\ told \subseteq asked
        /\ \A k, l \in 1..Len(replied) : k < l => replied[k].to < replied[l].to
        /\ \A k \in 1..Len(replied) :
              IF seen[replied[k].to].detail = "approval" THEN replied[k].with = "decline"
              ELSE replied[k].with = "refuse" /\ replied[k].to = Len(seen) /\ answer = "error"
=============================================================================
