------------------------- MODULE CodexClientProofs -------------------------
(***************************************************************************)
(* One call of the app-server, for any threads and turns, any number of     *)
(* messages and any order in which the app-server may send them.            *)
(***************************************************************************)
EXTENDS CodexClient, TLAPS

----------------------------------------------------------------------------
(* Sequences: what a queue of positions holds, and its order. *)

Elems(s) == {s[k] : k \in 1..Len(s)}

Increasing(s) == \A k, l \in 1..Len(s) : k < l => s[k] < s[l]

LEMMA AppendFacts ==
    ASSUME NEW S, NEW s \in Seq(S), NEW e \in S
    PROVE  /\ Append(s, e) \in Seq(S)
           /\ Len(Append(s, e)) = Len(s) + 1
           /\ Append(s, e)[Len(s) + 1] = e
           /\ \A k \in 1..Len(s) : Append(s, e)[k] = s[k]
  OBVIOUS

LEMMA TailFacts ==
    ASSUME NEW S, NEW s \in Seq(S), s # <<>>
    PROVE  /\ Len(s) \in Nat /\ Len(s) >= 1
           /\ Head(s) = s[1] /\ Head(s) \in S
           /\ Tail(s) \in Seq(S)
           /\ Len(Tail(s)) = Len(s) - 1
           /\ \A k \in 1..Len(s) - 1 : Tail(s)[k] = s[k + 1]
  OBVIOUS

LEMMA SeqMonotone ==
    ASSUME NEW S, NEW T, S \subseteq T, NEW s \in Seq(S)
    PROVE  s \in Seq(T)
  OBVIOUS

LEMMA ElemsOfAppend ==
    ASSUME NEW S, NEW s \in Seq(S), NEW e \in S
    PROVE  Elems(Append(s, e)) = Elems(s) \cup {e}
  <1> DEFINE t == Append(s, e)
  <1>1. /\ Len(s) \in Nat /\ Len(t) = Len(s) + 1 /\ t[Len(s) + 1] = e
        /\ \A k \in 1..Len(s) : t[k] = s[k]
    BY AppendFacts
  <1> HIDE DEF t
  <1>2. Elems(t) = Elems(s) \cup {e}
    BY <1>1 DEF Elems
  <1> QED  BY <1>2 DEF t

LEMMA ElemsOfSeq ==
    ASSUME NEW S, NEW s \in Seq(S)
    PROVE  Elems(s) \subseteq S
  BY DEF Elems

LEMMA IncreasingAppend ==
    ASSUME NEW s \in Seq(Nat), NEW e \in Nat, Increasing(s), \A i \in Elems(s) : i < e
    PROVE  Increasing(Append(s, e))
  <1> DEFINE t == Append(s, e)
  <1>1. /\ Len(s) \in Nat /\ Len(t) = Len(s) + 1 /\ t[Len(s) + 1] = e
        /\ \A k \in 1..Len(s) : t[k] = s[k]
    BY AppendFacts
  <1> HIDE DEF t
  <1>2. Increasing(t)
    BY <1>1 DEF Elems, Increasing
  <1> QED  BY <1>2 DEF t

\* The head of an increasing sequence is its least element, and only that one
\* is gone from the tail.
LEMMA IncreasingTail ==
    ASSUME NEW s \in Seq(Nat), s # <<>>, Increasing(s)
    PROVE  /\ Increasing(Tail(s))
           /\ Head(s) \in Elems(s)
           /\ Elems(Tail(s)) = Elems(s) \ {Head(s)}
           /\ \A i \in Elems(Tail(s)) : Head(s) < i
  <1> DEFINE t == Tail(s)
             h == Head(s)
  <1>1. /\ Len(s) \in Nat /\ Len(s) >= 1 /\ h = s[1] /\ h \in Nat
        /\ Len(t) = Len(s) - 1
        /\ \A k \in 1..Len(s) - 1 : t[k] = s[k + 1]
    BY TailFacts
  <1>2. \A k \in 1..Len(s) : s[k] \in Nat
    OBVIOUS
  <1> HIDE DEF t, h
  <1>3. Increasing(t)
    <2> SUFFICES ASSUME NEW k \in 1..Len(t), NEW l \in 1..Len(t), k < l PROVE t[k] < t[l]
      BY DEF Increasing
    <2>1. /\ k + 1 \in 1..Len(s) /\ l + 1 \in 1..Len(s) /\ k + 1 < l + 1
          /\ t[k] = s[k + 1] /\ t[l] = s[l + 1]
      BY <1>1
    <2> QED  BY <2>1 DEF Increasing
  <1>4. h \in Elems(s)
    BY <1>1 DEF Elems
  <1>5. \A i \in Elems(t) : i \in Elems(s) /\ h < i
    <2> SUFFICES ASSUME NEW k \in 1..Len(t) PROVE t[k] \in Elems(s) /\ h < t[k]
      BY DEF Elems
    <2>1. 1 \in 1..Len(s) /\ k + 1 \in 1..Len(s) /\ 1 < k + 1 /\ t[k] = s[k + 1]
      BY <1>1
    <2> QED  BY <1>1, <2>1 DEF Elems, Increasing
  <1>6. \A i \in Elems(s) : i # h => i \in Elems(t)
    <2> SUFFICES ASSUME NEW k \in 1..Len(s), s[k] # h PROVE s[k] \in Elems(t)
      BY DEF Elems
    <2>1. k - 1 \in 1..Len(t) /\ t[k - 1] = s[k]
      BY <1>1
    <2> QED  BY <2>1 DEF Elems
  <1>7. Elems(t) = Elems(s) \ {h}
    BY <1>2, <1>5, <1>6, <1>1
  <1> QED  BY <1>3, <1>4, <1>5, <1>7 DEF t, h

----------------------------------------------------------------------------
(* Messages. *)

Notes == {"delta", "item", "completed", "lifecycle"}

Messages ==
    Notifications \cup ServerRequests \cup Faults \cup
        UNION {Results(a, i) : a \in {"initialize", "resume", "turnStart"}, i \in 0..3}

\* What tells the messages apart.
LEMMA MessageFacts ==
    /\ \A m \in Notifications : m.type \in Notes
    /\ \A m \in ServerRequests : m.type = "request" /\ m.detail \in {"approval", "other"}
    /\ \A m \in Faults : m.type = "fault"
    /\ \A a, i : \A m \in Results(a, i) :
          m.type = "result" /\ m.thread \in Threads \cup {None} /\ m.turn \in Turns \cup {None}
  <1>1. \A m \in Notifications : m.type \in Notes
    <2>1. \A t, n, s, d : Item(t, n, s, d).type = "item"
      BY DEF Item, Message
    <2>2. \A k, i, t, n, d : Message(k, i, t, n, d).type = k
      BY DEF Message
    <2> QED  BY <2>1, <2>2 DEF Notifications, Notes
  <1>2. \A m \in ServerRequests : m.type = "request" /\ m.detail \in {"approval", "other"}
    BY DEF ServerRequests, Message
  <1>3. \A m \in Faults : m.type = "fault"
    BY DEF Faults, Message
  <1>4. ASSUME NEW a, NEW i, NEW m \in Results(a, i)
        PROVE  m.type = "result" /\ m.thread \in Threads \cup {None} /\ m.turn \in Turns \cup {None}
    <2>1. CASE a \in {"threadStart", "resume"}
      BY <1>4, <2>1 DEF Results, Message
    <2>2. CASE a = "turnStart"
      BY <1>4, <2>2 DEF Results, Message
    <2>3. CASE a \notin {"threadStart", "resume", "turnStart"}
      BY <1>4, <2>3 DEF Results, Message
    <2> QED  BY <2>1, <2>2, <2>3
  <1> QED  BY <1>1, <1>2, <1>3, <1>4

LEMMA ResultsAreMessages ==
    ASSUME NEW a, NEW i \in 0..3
    PROVE  Results(a, i) \subseteq Messages
  <1>1. CASE a \in {"threadStart", "resume"}
    <2>1. Results(a, i) = Results("resume", i)
      BY <1>1 DEF Results
    <2> QED  BY <2>1 DEF Messages
  <1>2. CASE a = "turnStart"
    BY <1>2 DEF Messages
  <1>3. CASE a \notin {"threadStart", "resume", "turnStart"}
    <2>1. Results(a, i) = Results("initialize", i)
      BY <1>3 DEF Results
    <2> QED  BY <2>1 DEF Messages
  <1> QED  BY <1>1, <1>2, <1>3

----------------------------------------------------------------------------
(* The invariant. *)

\* The request that is outstanding has the latest id, and the call has an
\* answer when it is over.
Progress ==
    /\ at = "idle" => id = 0 /\ seen = <<>>
    /\ at = "initialize" => id = 1
    /\ at \in {"threadStart", "resume"} => id = 2
    /\ at = "turnStart" => id = 3
    /\ at = "done" <=> answer # "none"

TypeInv == TypeOK /\ Progress

NotesSeen == {i \in 1..Len(seen) : seen[i].type \in Notes}

\* The notifications that collect_turn has looked at.
Observed == NotesSeen \ Elems(queue)

\* The queue holds notifications in the order of their arrival, and before
\* the turn has started all of them.
QueueInv ==
    /\ Increasing(queue)
    /\ Elems(queue) \subseteq NotesSeen
    /\ at \in {"idle", "initialize", "threadStart", "resume", "turnStart"} =>
          Observed = {} /\ text = <<>> /\ ~unverified

\* What was observed of a turn that goes on.
CollectInv ==
    at = "collect" =>
        /\ \A i \in Observed : \A j \in Elems(queue) : i < j
        /\ \A i \in Observed :
              /\ seen[i].type # "completed"
              /\ seen[i].type = "item" => OwnTurn(seen[i]) /\ Allowed(seen[i])
              /\ seen[i].type = "item" /\ seen[i].detail = "unverified" => unverified
              /\ seen[i].type = "delta" => OwnTurn(seen[i])
        /\ Elems(text) = {i \in Observed : seen[i].type = "delta"}
        /\ Increasing(text)

\* What the three properties say of a call that succeeds.
Delivered == WholeAnswer /\ NoFalseSuccess /\ OnlyOwnConnector

CallInv == TypeInv /\ QueueInv /\ CollectInv /\ Delivered

Replies(n) == [to : 1..n, with : {"decline", "refuse"}]

\* What a read leaves of the types.
LEMMA Grow ==
    ASSUME TypeOK, NEW m \in Messages, seen' = Append(seen, m)
    PROVE  /\ seen' \in Seq(Messages)
           /\ Len(seen) \in Nat /\ Len(seen') = Len(seen) + 1
           /\ seen'[Len(seen')] = m
           /\ \A i \in 1..Len(seen) : seen'[i] = seen[i]
           /\ queue \in Seq(1..Len(seen')) /\ text \in Seq(1..Len(seen'))
           /\ replied \in Seq(Replies(Len(seen')))
  <1>1. seen \in Seq(Messages) /\ Len(seen) \in Nat
    BY DEF TypeOK, Messages
  <1>2. /\ seen' \in Seq(Messages) /\ Len(seen') = Len(seen) + 1
        /\ seen'[Len(seen) + 1] = m
        /\ \A i \in 1..Len(seen) : seen'[i] = seen[i]
    BY <1>1, AppendFacts
  <1>3. 1..Len(seen) \subseteq 1..Len(seen')
    BY <1>1, <1>2
  <1>4. Replies(Len(seen)) \subseteq Replies(Len(seen'))
    BY <1>3 DEF Replies
  <1>5. queue \in Seq(1..Len(seen)) /\ text \in Seq(1..Len(seen)) /\ replied \in Seq(Replies(Len(seen)))
    BY DEF TypeOK, Replies
  <1>6. queue \in Seq(1..Len(seen')) /\ text \in Seq(1..Len(seen'))
    BY <1>3, <1>5, SeqMonotone
  <1>7. replied \in Seq(Replies(Len(seen')))
    BY <1>4, <1>5, SeqMonotone
  <1> QED  BY <1>1, <1>2, <1>6, <1>7

\* Every step, with what is known of the message it reads.
LEMMA Steps ==
    ASSUME TypeInv, [Next]_vars
    PROVE  \/ UNCHANGED vars
           \/ \E t \in Threads \cup {None} : Open(t)
           \/ Break
           \/ CollectQueued
           \/ \E m \in Messages :
                 \/ m.type \in Notes /\ Notified(m)
                 \/ m.type \notin Notes \cup {"request"} /\ Refused(m)
                 \/ /\ m.type = "result"
                    /\ m.thread \in Threads \cup {None} /\ m.turn \in Turns \cup {None}
                    /\ Initialized(m) \/ ThreadStarted(m) \/ Resumed(m) \/ TurnStarted(m)
                 \/ /\ m.type = "request" /\ m.detail \in {"approval", "other"}
                    /\ \E written \in BOOLEAN : HandleServerRequest(m, written)
                 \/ m.type \in Notes \cup {"result", "fault"} /\ CollectRead(m)
  <1>1. id \in 0..3 /\ 0 \in 0..3
    BY DEF TypeInv, TypeOK
  <1>2. Results(at, id) \subseteq Messages /\ Results(at, 0) \subseteq Messages
    BY <1>1, ResultsAreMessages
  <1>3. Notifications \cup Faults \cup ServerRequests \subseteq Messages
    BY DEF Messages
  <1>4. CASE \E m \in Notifications : Notified(m)
    BY <1>3, <1>4, MessageFacts
  <1>5. CASE \E m \in Faults \cup Results(at, 0) : Refused(m)
    BY <1>2, <1>3, <1>5, MessageFacts DEF Notes
  <1>6. CASE \E m \in Results(at, id) : Initialized(m) \/ ThreadStarted(m) \/ Resumed(m) \/ TurnStarted(m)
    BY <1>2, <1>6, MessageFacts
  <1>7. CASE \E m \in ServerRequests, written \in BOOLEAN : HandleServerRequest(m, written)
    BY <1>3, <1>7, MessageFacts
  <1>8. CASE \E m \in Notifications \cup Faults \cup Results(at, id) : CollectRead(m)
    BY <1>2, <1>3, <1>8, MessageFacts
  <1> QED  BY <1>4, <1>5, <1>6, <1>7, <1>8 DEF Next, Read

\* The kinds of all variables but the sequences.
Flat ==
    /\ at \in {"idle", "initialize", "threadStart", "resume", "turnStart", "collect", "done"}
    /\ id \in 0..3
    /\ thread \in Threads \cup {None}
    /\ turn \in Turns \cup {None}
    /\ unverified \in BOOLEAN
    /\ answer \in {"none", "text", "unconfirmed", "thread", "error"}

LEMMA TypeOKSplit ==
    TypeOK <=> /\ Flat
               /\ seen \in Seq(Messages)
               /\ queue \in Seq(1..Len(seen)) /\ text \in Seq(1..Len(seen))
               /\ replied \in Seq(Replies(Len(seen)))
  BY DEF TypeOK, Flat, Messages, Replies

\* observe: a message of the turn adds at most its own position to the text.
LEMMA ObserveTypes ==
    ASSUME NEW S, NEW i \in S, NEW m, text \in Seq(S), Flat, Progress, at = "collect", Observe(i, m)
    PROVE  /\ Flat' /\ text' \in Seq(S)
           /\ at' \in {"collect", "done"} /\ (at' = "done" <=> answer' # "none")
           /\ UNCHANGED <<id, thread, turn, replied>>
  <1> USE DEF Flat, Progress, Finish
  <1>1. UNCHANGED <<id, thread, turn, replied>>
    BY DEF Observe
  <1>2. CASE Delta(i, m)
    BY <1>1, <1>2, AppendFacts DEF Delta
  <1>3. CASE ObserveHomeyTool(m)
    BY <1>1, <1>3 DEF ObserveHomeyTool, Flag
  <1>4. CASE Completed(m)
    BY <1>1, <1>4 DEF Completed
  <1>5. CASE m.type = "lifecycle" /\ UNCHANGED <<at, text, unverified, answer>>
    BY <1>1, <1>5
  <1>6. CASE m.type \in {"result", "fault"} /\ Finish("error") /\ UNCHANGED <<text, unverified>>
    BY <1>1, <1>6
  <1> QED  BY <1>2, <1>3, <1>4, <1>5, <1>6 DEF Observe

LEMMA InitTypeInv == Init => TypeInv
  <1>0. Init => Flat
    <2>1. Init => unverified \in BOOLEAN
      BY Zenon DEF Init
    <2>2. Init => id \in 0..3
      BY DEF Init
    <2> QED  BY <2>1, <2>2, Zenon DEF Init, Flat
  <1>1. Init => Progress
    BY DEF Init, Progress
  <1>2. Init => /\ seen \in Seq(Messages) /\ queue \in Seq(1..Len(seen)) /\ text \in Seq(1..Len(seen))
                /\ replied \in Seq(Replies(Len(seen)))
    BY DEF Init
  <1> QED  BY <1>0, <1>1, <1>2, TypeOKSplit DEF TypeInv

LEMMA NextTypeInv == TypeInv /\ [Next]_vars => TypeInv'
  <1> SUFFICES ASSUME TypeInv, [Next]_vars PROVE TypeInv'
    OBVIOUS
  <1>0. /\ TypeOK /\ Flat /\ Progress
        /\ seen \in Seq(Messages) /\ queue \in Seq(1..Len(seen)) /\ text \in Seq(1..Len(seen))
        /\ replied \in Seq(Replies(Len(seen)))
    BY TypeOKSplit DEF TypeInv
  <1> SUFFICES /\ Flat' /\ Progress'
               /\ seen' \in Seq(Messages) /\ queue' \in Seq(1..Len(seen')) /\ text' \in Seq(1..Len(seen'))
               /\ replied' \in Seq(Replies(Len(seen')))
    BY DEF TypeInv, TypeOK, Flat, Messages, Replies
  <1>1. CASE UNCHANGED vars
    BY <1>0, <1>1 DEF vars, Flat, Progress
  <1>2. CASE \E t \in Threads \cup {None} : Open(t)
    BY <1>0, <1>2 DEF Open, Finish, Flat, Progress
  <1>3. CASE Break
    BY <1>0, <1>3 DEF Break, Waiting, Finish, Flat, Progress
  <1>4. CASE CollectQueued
    <2>1. /\ at = "collect" /\ Observe(Head(queue), seen[Head(queue)])
          /\ queue # <<>> /\ queue' = Tail(queue) /\ UNCHANGED seen
      BY <1>4 DEF CollectQueued
    <2>2. Head(queue) \in 1..Len(seen) /\ queue' \in Seq(1..Len(seen'))
      BY <1>0, <2>1, TailFacts
    <2>3. /\ Flat' /\ text' \in Seq(1..Len(seen))
          /\ at' \in {"collect", "done"} /\ (at' = "done" <=> answer' # "none")
          /\ UNCHANGED <<id, thread, turn, replied>>
      BY <1>0, <2>1, <2>2, ObserveTypes
    <2> QED  BY <1>0, <2>1, <2>2, <2>3 DEF Progress
  <1>5. ASSUME NEW m \in Messages, Notified(m)
        PROVE  Flat' /\ Progress' /\ queue' \in Seq(1..Len(seen')) /\ UNCHANGED <<text, replied>>
    <2>1. Len(seen') \in 1..Len(seen') /\ queue \in Seq(1..Len(seen'))
      BY <1>0, <1>5, Grow DEF Notified
    <2>2. queue' \in Seq(1..Len(seen'))
      BY <1>5, <2>1, AppendFacts DEF Notified, Queued
    <2> QED  BY <1>0, <1>5, <2>2 DEF Notified, Waiting, Flat, Progress
  <1>6. ASSUME NEW m \in Messages, Refused(m)
        PROVE  Flat' /\ Progress' /\ UNCHANGED <<queue, text, replied>>
    BY <1>0, <1>6 DEF Refused, Waiting, Finish, Flat, Progress
  <1>7. ASSUME NEW m \in Messages, m.thread \in Threads \cup {None}, m.turn \in Turns \cup {None},
               Initialized(m) \/ ThreadStarted(m) \/ Resumed(m) \/ TurnStarted(m)
        PROVE  Flat' /\ Progress' /\ UNCHANGED <<queue, text, replied>>
    <2> USE DEF Flat, Progress, Result, Send, Finish
    <2>1. CASE Initialized(m)
      BY <1>0, <2>1 DEF Initialized
    <2>2. CASE ThreadStarted(m)
      BY <1>0, <1>7, <2>2 DEF ThreadStarted
    <2>3. CASE Resumed(m)
      BY <1>0, <2>3 DEF Resumed
    <2>4. CASE TurnStarted(m)
      BY <1>0, <1>7, <2>4 DEF TurnStarted
    <2> QED  BY <1>7, <2>1, <2>2, <2>3, <2>4
  <1>8. ASSUME NEW m \in Messages, NEW written \in BOOLEAN, HandleServerRequest(m, written)
        PROVE  Flat' /\ Progress' /\ replied' \in Seq(Replies(Len(seen'))) /\ UNCHANGED <<queue, text>>
    <2>1. Len(seen') \in 1..Len(seen') /\ replied \in Seq(Replies(Len(seen')))
      BY <1>0, <1>8, Grow DEF HandleServerRequest
    <2>2. [to |-> Len(seen'), with |-> Verdict(m)] \in Replies(Len(seen'))
      BY <2>1 DEF Replies, Verdict
    <2>3. Append(replied, [to |-> Len(seen'), with |-> Verdict(m)]) \in Seq(Replies(Len(seen')))
      BY <2>1, <2>2, AppendFacts
    <2>4. replied' \in Seq(Replies(Len(seen')))
      BY <1>8, <2>1, <2>3 DEF HandleServerRequest
    <2> QED  BY <1>0, <1>8, <2>4 DEF HandleServerRequest, Waiting, Finish, Flat, Progress
  <1>9. ASSUME NEW m \in Messages, CollectRead(m)
        PROVE  Flat' /\ Progress' /\ text' \in Seq(1..Len(seen')) /\ UNCHANGED <<queue, replied>>
    <2>1. Len(seen') \in 1..Len(seen') /\ text \in Seq(1..Len(seen'))
      BY <1>0, <1>9, Grow DEF CollectRead
    <2>2. /\ Flat' /\ text' \in Seq(1..Len(seen'))
          /\ at' \in {"collect", "done"} /\ (at' = "done" <=> answer' # "none")
          /\ UNCHANGED <<id, thread, turn, replied>>
      BY <1>0, <1>9, <2>1, ObserveTypes DEF CollectRead
    <2> QED  BY <1>0, <1>9, <2>2 DEF CollectRead, Progress
  <1>10. ASSUME NEW m \in Messages, seen' = Append(seen, m)
         PROVE  /\ seen' \in Seq(Messages) /\ queue \in Seq(1..Len(seen')) /\ text \in Seq(1..Len(seen'))
                /\ replied \in Seq(Replies(Len(seen')))
    BY <1>0, <1>10, Grow
  <1>11. ASSUME NEW m \in Messages,
                \/ Notified(m) \/ Refused(m) \/ Initialized(m) \/ ThreadStarted(m) \/ Resumed(m)
                \/ TurnStarted(m) \/ CollectRead(m) \/ \E written \in BOOLEAN : HandleServerRequest(m, written)
         PROVE  seen' = Append(seen, m)
    BY <1>11 DEF Notified, Refused, Initialized, ThreadStarted, Resumed, TurnStarted, Result,
       HandleServerRequest, CollectRead
  <1> QED  BY <1>1, <1>2, <1>3, <1>4, <1>5, <1>6, <1>7, <1>8, <1>9, <1>10, <1>11, Steps

LEMMA AlwaysTypeInv == Spec => []TypeInv
  BY InitTypeInv, NextTypeInv, PTL DEF Spec

----------------------------------------------------------------------------
(* What was collected. *)

\* Positions in seen are natural numbers.
LEMMA Positions ==
    ASSUME TypeOK
    PROVE  /\ Len(seen) \in Nat
           /\ queue \in Seq(Nat) /\ text \in Seq(Nat)
           /\ Elems(queue) \subseteq 1..Len(seen) /\ Elems(text) \subseteq 1..Len(seen)
           /\ NotesSeen \subseteq 1..Len(seen) /\ Observed \subseteq 1..Len(seen)
  <1>1. seen \in Seq(Messages) /\ queue \in Seq(1..Len(seen)) /\ text \in Seq(1..Len(seen))
    BY TypeOKSplit
  <1>2. Len(seen) \in Nat /\ 1..Len(seen) \subseteq Nat
    BY <1>1
  <1>3. queue \in Seq(Nat) /\ text \in Seq(Nat)
    BY <1>1, <1>2, SeqMonotone
  <1>4. Elems(queue) \subseteq 1..Len(seen) /\ Elems(text) \subseteq 1..Len(seen)
    BY <1>1, ElemsOfSeq
  <1> QED  BY <1>2, <1>3, <1>4 DEF NotesSeen, Observed

\* A read adds its message to the notifications seen when it is one.
LEMMA GrowNotes ==
    ASSUME TypeOK, NEW m \in Messages, seen' = Append(seen, m)
    PROVE  /\ NotesSeen' = NotesSeen \cup (IF m.type \in Notes THEN {Len(seen')} ELSE {})
           /\ \A i \in NotesSeen : i < Len(seen') /\ seen'[i] = seen[i]
  <1>1. /\ Len(seen) \in Nat /\ Len(seen') = Len(seen) + 1
        /\ seen'[Len(seen')] = m
        /\ \A i \in 1..Len(seen) : seen'[i] = seen[i]
    BY Grow
  <1>2. \A i : i \in 1..Len(seen') <=> i \in 1..Len(seen) \/ i = Len(seen')
    BY <1>1
  <1> QED  BY <1>1, <1>2 DEF NotesSeen

\* While the call waits for a response.
LEMMA WaitingQueue ==
    ASSUME TypeOK, QueueInv, Waiting, NEW m \in Messages, m.type \in Notes, Notified(m)
    PROVE  QueueInv'
  <1>1. seen' = Append(seen, m) /\ queue' = Append(queue, Len(seen')) /\ UNCHANGED <<at, text, unverified>>
    BY DEF Notified, Queued
  <1>2. /\ NotesSeen' = NotesSeen \cup {Len(seen')}
        /\ \A i \in NotesSeen : i < Len(seen')
    BY <1>1, GrowNotes
  <1>3. queue \in Seq(Nat) /\ Len(seen') \in Nat
    BY <1>1, Positions, Grow
  <1>4. Elems(queue') = Elems(queue) \cup {Len(seen')}
    BY <1>1, <1>3, ElemsOfAppend
  <1>5. Increasing(queue')
    BY <1>1, <1>2, <1>3, IncreasingAppend DEF QueueInv
  <1> QED  BY <1>1, <1>2, <1>4, <1>5 DEF QueueInv, Observed, Waiting

\* A read of something else than a notification.
LEMMA OtherQueue ==
    ASSUME TypeOK, QueueInv, NEW m \in Messages, m.type \notin Notes, seen' = Append(seen, m),
           UNCHANGED queue
    PROVE  /\ Increasing(queue') /\ Elems(queue') \subseteq NotesSeen'
           /\ Observed' = Observed
           /\ \A i \in Observed : seen'[i] = seen[i]
  <1>1. NotesSeen' = NotesSeen /\ \A i \in NotesSeen : seen'[i] = seen[i]
    BY GrowNotes
  <1> QED  BY <1>1 DEF QueueInv, Observed

\* The call ends with a text: after the messages before the end, all observed,
\* the turn completed.
LEMMA EndOfTurn ==
    ASSUME TypeOK', NEW e \in 1..Len(seen'), seen'[e].type = "completed",
           NEW O, O = {i \in NotesSeen' : i < e}, \A i \in O : seen'[i].type # "completed"
    PROVE  BeforeEnd' = {i \in 1..Len(seen') : i < e}
  <1>1. Len(seen') \in Nat
    BY TypeOKSplit
  <1>2. \A j \in 1..Len(seen') : seen'[j].type = "completed" => j \in NotesSeen'
    BY DEF NotesSeen, Notes
  <1>3. \A j \in 1..Len(seen') : j < e => seen'[j].type # "completed"
    BY <1>2
  <1>4. \A i \in 1..Len(seen') : i < e <=> \A j \in 1..i : seen'[j].type # "completed"
    BY <1>1, <1>3
  <1> QED  BY <1>4 DEF BeforeEnd

\* observe, for a message that follows all that was observed and precedes all
\* that is queued.
LEMMA ObserveKeeps ==
    ASSUME TypeInv, TypeOK', CollectInv, at = "collect",
           NEW i \in 1..Len(seen'), NEW m, m = seen'[i], Observe(i, m),
           m.type \in Notes => Observed' = Observed \cup {i},
           \A j \in Observed : j < i /\ seen'[j] = seen[j],
           \A j \in Elems(queue') : i < j /\ j \in NotesSeen'
    PROVE  CollectInv' /\ Delivered'
  <1>0. /\ answer = "none" /\ TypeOK
        /\ UNCHANGED <<id, thread, turn, replied>>
    BY DEF TypeInv, Progress, Observe
  <1>1. ASSUME at' = "done", answer' = "error"
        PROVE  CollectInv' /\ Delivered'
    <2>1. Delivered'
      BY <1>1 DEF Delivered, WholeAnswer, NoFalseSuccess, OnlyOwnConnector
    <2> QED  BY <1>1, <2>1 DEF CollectInv
  <1>2. \A x : OwnTurn(x)' <=> x.thread = thread /\ x.turn = turn
    BY <1>0 DEF OwnTurn
  <1>3. i \in Nat /\ text \in Seq(Nat) /\ Observed \subseteq 1..Len(seen)
    BY <1>0, Positions
  \* The turn goes on, with one more message observed.
  <1>4. ASSUME UNCHANGED <<at, answer>>, m.type \in Notes, m.type # "completed",
               m.type = "item" => OwnTurn(m) /\ Allowed(m) /\ (m.detail = "unverified" => unverified'),
               m.type = "delta" => OwnTurn(m) /\ text' = Append(text, i),
               m.type # "delta" => text' = text,
               unverified => unverified'
        PROVE  CollectInv' /\ Delivered'
    <2>1. Delivered'
      BY <1>0, <1>4 DEF Delivered, WholeAnswer, NoFalseSuccess, OnlyOwnConnector
    <2>2. Observed' = Observed \cup {i}
      BY <1>4
    <2>3. \A j \in Elems(text) : j < i
      BY DEF CollectInv
    <2>4. Elems(text') = {j \in Observed' : seen'[j].type = "delta"} /\ Increasing(text')
      <3>1. CASE m.type = "delta"
        <4>0. Elems(Append(text, i)) = Elems(text) \cup {i}
          BY <1>3, ElemsOfAppend
        <4>1. Elems(text') = Elems(text) \cup {i}
          BY <1>4, <3>1, <4>0
        <4>2. Increasing(text')
          BY <1>3, <1>4, <2>3, <3>1, IncreasingAppend DEF CollectInv
        <4> QED  BY <2>2, <3>1, <4>1, <4>2 DEF CollectInv
      <3>2. CASE m.type # "delta"
        BY <1>4, <2>2, <3>2 DEF CollectInv
      <3> QED  BY <3>1, <3>2
    <2>5. \A j \in Observed' : \A k \in Elems(queue') : j < k
      <3>1. \A j \in Observed : j \in Nat /\ j < i
        BY <1>3
      <3>2. \A k \in Elems(queue') : k \in Nat /\ i < k
        BY DEF NotesSeen
      <3> QED  BY <1>3, <2>2, <3>1, <3>2
    <2>6. \A j \in Observed' :
              /\ seen'[j].type # "completed"
              /\ seen'[j].type = "item" => OwnTurn(seen[j])' /\ Allowed(seen'[j])
              /\ seen'[j].type = "item" /\ seen'[j].detail = "unverified" => unverified'
              /\ seen'[j].type = "delta" => OwnTurn(seen[j])'
      BY <1>0, <1>4, <2>2 DEF CollectInv, OwnTurn
    <2> QED  BY <2>1, <2>4, <2>5, <2>6 DEF CollectInv
  \* The turn is over.
  <1>5. ASSUME m.type = "completed", at' = "done", UNCHANGED <<text, unverified>>,
               answer' = IF unverified THEN "unconfirmed" ELSE IF text = <<>> THEN "error" ELSE "text"
        PROVE  CollectInv' /\ Delivered'
    <2>1. NotesSeen' = Observed \cup {i} \cup Elems(queue')
      <3>1. Observed' = Observed \cup {i}
        BY <1>5 DEF Notes
      <3> QED  BY <3>1 DEF Observed
    <2>2. \A j \in Observed : j \in Nat /\ j < i
      BY <1>3
    <2>3. \A j \in Elems(queue') : j \in Nat /\ i < j
      BY DEF NotesSeen
    <2>4. Observed = {j \in NotesSeen' : j < i}
      <3>1. \A j \in Elems(queue') \cup {i} : ~(j < i)
        BY <1>3, <2>3
      <3>2. \A j : j \in Observed <=> j \in NotesSeen' /\ j < i
        BY <2>1, <2>2, <3>1
      <3> QED  BY <3>2
    <2>5. \A j \in Observed : seen'[j].type # "completed"
      BY DEF CollectInv
    <2>6. BeforeEnd' = {j \in 1..Len(seen') : j < i}
      BY <1>5, <2>4, <2>5, EndOfTurn
    <2>7. \A j \in BeforeEnd' : seen'[j].type \in Notes => j \in Observed
      BY <2>4, <2>6 DEF NotesSeen
    <2>8. \A j \in Observed : j \in BeforeEnd'
      BY <2>4, <2>6 DEF NotesSeen
    <2>9. WholeAnswer'
      <3>1. Elems(text') = {j \in BeforeEnd' : seen'[j].type = "delta"}
        BY <1>5, <2>7, <2>8 DEF CollectInv, Notes
      <3>2. \A k \in 1..Len(text') : OwnTurn(seen[text[k]])'
        <4> SUFFICES ASSUME NEW k \in 1..Len(text') PROVE OwnTurn(seen[text[k]])'
          OBVIOUS
        <4>1. text'[k] \in Elems(text)
          BY <1>5 DEF Elems
        <4>2. text'[k] \in Observed /\ seen[text'[k]].type = "delta"
          BY <4>1 DEF CollectInv
        <4>3. OwnTurn(seen[text'[k]]) /\ seen'[text'[k]] = seen[text'[k]]
          BY <4>2 DEF CollectInv
        <4> QED  BY <1>0, <4>3 DEF OwnTurn
      <3>3. \A k, l \in 1..Len(text') : k < l => text'[k] < text'[l]
        BY <1>5 DEF CollectInv, Increasing
      <3> QED  BY <3>1, <3>2, <3>3 DEF WholeAnswer, Elems
    <2>10. NoFalseSuccess'
      <3> SUFFICES ASSUME answer' = "text", NEW j \in BeforeEnd',
                          seen'[j].type = "item", seen'[j].detail = "unverified"
                   PROVE  FALSE
        BY DEF NoFalseSuccess
      <3>1. j \in Observed
        BY <2>7 DEF Notes
      <3> QED  BY <1>5, <3>1 DEF CollectInv
    <2>11. OnlyOwnConnector'
      <3> SUFFICES ASSUME NEW j \in BeforeEnd', seen'[j].type = "item"
                   PROVE  OwnTurn(seen[j])' /\ Allowed(seen'[j])
        BY DEF OnlyOwnConnector
      <3>1. j \in Observed
        BY <2>7 DEF Notes
      <3> QED  BY <1>0, <3>1 DEF CollectInv, OwnTurn
    <2> QED  BY <1>5, <2>9, <2>10, <2>11 DEF Delivered, CollectInv
  <1>6. CASE Delta(i, m)
    BY <1>1, <1>4, <1>6 DEF Delta, Notes, Finish
  <1>7. CASE ObserveHomeyTool(m)
    BY <1>1, <1>4, <1>7 DEF ObserveHomeyTool, Flag, Notes, Finish
  <1>8. CASE Completed(m)
    BY <1>1, <1>5, <1>8 DEF Completed, Finish
  <1>9. CASE m.type = "lifecycle" /\ UNCHANGED <<at, text, unverified, answer>>
    BY <1>4, <1>9 DEF Notes
  <1>10. CASE m.type \in {"result", "fault"} /\ Finish("error") /\ UNCHANGED <<text, unverified>>
    BY <1>1, <1>10 DEF Finish
  <1> QED  BY <1>6, <1>7, <1>8, <1>9, <1>10 DEF Observe

LEMMA InitCallInv == Init => CallInv
  <1> SUFFICES ASSUME Init PROVE CallInv
    OBVIOUS
  <1>1. TypeInv
    BY InitTypeInv
  <1>2. Elems(queue) = {} /\ NotesSeen = {} /\ Increasing(queue) /\ text = <<>> /\ at = "idle" /\ answer = "none"
    BY DEF Init, Elems, NotesSeen, Increasing
  <1>3. ~unverified
    BY Zenon DEF Init
  <1>4. QueueInv
    BY <1>2, <1>3 DEF QueueInv, Observed
  <1> QED  BY <1>1, <1>2, <1>4 DEF CallInv, CollectInv, Delivered, WholeAnswer, NoFalseSuccess, OnlyOwnConnector

LEMMA NextCallInv == CallInv /\ [Next]_vars => CallInv'
  <1> SUFFICES ASSUME CallInv, [Next]_vars PROVE CallInv'
    OBVIOUS
  <1>0. TypeInv /\ TypeOK /\ QueueInv /\ CollectInv /\ Delivered /\ TypeInv' /\ TypeOK'
    BY NextTypeInv DEF CallInv, TypeInv
  <1> SUFFICES QueueInv' /\ CollectInv' /\ Delivered'
    BY <1>0 DEF CallInv
  <1>a. ASSUME answer' \notin {"text", "unconfirmed"}
        PROVE  Delivered'
    BY <1>a DEF Delivered, WholeAnswer, NoFalseSuccess, OnlyOwnConnector
  \* The call ends without a text.
  <1>b. ASSUME at' = "done", answer' \notin {"text", "unconfirmed"},
               Increasing(queue') /\ Elems(queue') \subseteq NotesSeen'
        PROVE  QueueInv' /\ CollectInv' /\ Delivered'
    BY <1>a, <1>b DEF QueueInv, CollectInv
  <1>c. at # "done" => answer = "none"
    BY <1>0 DEF TypeInv, Progress
  <1>1. CASE UNCHANGED vars
    BY <1>0, <1>1 DEF vars, QueueInv, CollectInv, Delivered, Observed, NotesSeen, OwnTurn, WholeAnswer,
       NoFalseSuccess, OnlyOwnConnector, BeforeEnd
  <1>2. CASE \E t \in Threads \cup {None} : Open(t)
    <2>1. /\ at = "idle" /\ UNCHANGED <<turn, seen, queue, text, unverified, replied>>
          /\ at' \in {"initialize", "done"} /\ answer' \in {"none", "error"}
      BY <1>2, <1>c DEF Open, Finish
    <2>2. Delivered'
      BY <1>a, <2>1
    <2>3. NotesSeen' = NotesSeen
      BY <2>1 DEF NotesSeen
    <2> QED  BY <1>0, <2>1, <2>2, <2>3 DEF QueueInv, CollectInv, Observed
  <1>3. CASE Break
    <2>1. at' = "done" /\ answer' = "error" /\ UNCHANGED <<queue, seen>>
      BY <1>3 DEF Break, Finish
    <2>2. Increasing(queue') /\ Elems(queue') \subseteq NotesSeen'
      BY <1>0, <2>1 DEF QueueInv, NotesSeen
    <2> QED  BY <1>b, <2>1, <2>2
  <1>4. CASE CollectQueued
    <2> DEFINE h == Head(queue)
    <2>1. /\ at = "collect" /\ queue # <<>> /\ Observe(h, seen[h])
          /\ queue' = Tail(queue) /\ seen' = seen
      BY <1>4 DEF CollectQueued
    <2>2. queue \in Seq(Nat) /\ Increasing(queue)
      BY <1>0, Positions DEF QueueInv
    <2>3. /\ Increasing(queue') /\ h \in Elems(queue)
          /\ Elems(queue') = Elems(queue) \ {h}
          /\ \A i \in Elems(queue') : h < i
      BY <2>1, <2>2, IncreasingTail
    <2> HIDE DEF h
    <2>4. NotesSeen' = NotesSeen /\ Elems(queue') \subseteq NotesSeen' /\ h \in NotesSeen
      BY <1>0, <2>1, <2>3 DEF NotesSeen, QueueInv
    <2>5. h \in 1..Len(seen') /\ seen[h] = seen'[h]
      BY <2>1, <2>4 DEF NotesSeen
    <2>6. Observed' = Observed \cup {h}
      BY <2>3, <2>4 DEF Observed
    <2>7. \A j \in Observed : j < h /\ seen'[j] = seen[j]
      BY <1>0, <2>1, <2>3 DEF CollectInv
    <2>8. \A j \in Elems(queue') : h < j /\ j \in NotesSeen'
      BY <2>3, <2>4
    <2>9. CollectInv' /\ Delivered'
      BY <1>0, <2>1, <2>5, <2>6, <2>7, <2>8, ObserveKeeps
    <2>10. at' \in {"collect", "done"}
      BY <2>1 DEF Observe, Delta, ObserveHomeyTool, Completed, Finish
    <2> QED  BY <2>3, <2>4, <2>9, <2>10 DEF QueueInv
  <1>5. ASSUME NEW m \in Messages, m.type \in Notes, Notified(m)
        PROVE  QueueInv' /\ CollectInv' /\ Delivered'
    <2>1. Waiting /\ UNCHANGED <<at, answer>>
      BY <1>5 DEF Notified
    <2>2. QueueInv'
      BY <1>0, <1>5, <2>1, WaitingQueue
    <2>3. answer' = "none" /\ at' # "collect"
      BY <1>c, <2>1 DEF Waiting
    <2> QED  BY <1>a, <2>2, <2>3 DEF CollectInv
  \* A message that is not a notification.
  <1>d. ASSUME NEW m \in Messages, m.type \notin Notes, seen' = Append(seen, m), UNCHANGED queue
        PROVE  /\ Increasing(queue') /\ Elems(queue') \subseteq NotesSeen'
               /\ Observed' = Observed
               /\ \A i \in Observed : seen'[i] = seen[i]
    BY <1>0, <1>d, OtherQueue
  <1>6. ASSUME NEW m \in Messages, m.type \notin Notes, Refused(m)
        PROVE  QueueInv' /\ CollectInv' /\ Delivered'
    <2>1. at' = "done" /\ answer' = "error" /\ seen' = Append(seen, m) /\ UNCHANGED queue
      BY <1>6 DEF Refused, Finish
    <2> QED  BY <1>6, <1>b, <1>d, <2>1
  <1>7. ASSUME NEW m \in Messages, m.type = "result",
               Initialized(m) \/ ThreadStarted(m) \/ Resumed(m) \/ TurnStarted(m)
        PROVE  QueueInv' /\ CollectInv' /\ Delivered'
    <2>1. seen' = Append(seen, m) /\ UNCHANGED <<queue, text, unverified>>
      BY <1>7 DEF Initialized, ThreadStarted, Resumed, TurnStarted, Result
    <2>2. /\ at \in {"initialize", "threadStart", "resume", "turnStart"}
          /\ at' \in {"threadStart", "resume", "turnStart", "collect", "done"}
          /\ answer' \in {"none", "thread", "error"}
      BY <1>7, <1>c DEF Initialized, ThreadStarted, Resumed, TurnStarted, Result, Send, Finish
    <2>3. Increasing(queue') /\ Elems(queue') \subseteq NotesSeen' /\ Observed' = Observed
      BY <1>7, <1>d, <2>1 DEF Notes
    <2>4. Observed' = {} /\ text' = <<>> /\ ~unverified'
      BY <1>0, <2>1, <2>2, <2>3 DEF QueueInv
    <2>5. Elems(text') = {} /\ Increasing(text')
      BY <2>4 DEF Elems, Increasing
    <2>6. Delivered'
      BY <1>a, <2>2
    <2>7. QueueInv'
      BY <2>3, <2>4 DEF QueueInv
    <2> QED  BY <2>4, <2>5, <2>6, <2>7 DEF CollectInv
  <1>8. ASSUME NEW m \in Messages, NEW written \in BOOLEAN, m.type = "request", HandleServerRequest(m, written)
        PROVE  QueueInv' /\ CollectInv' /\ Delivered'
    <2>1. seen' = Append(seen, m) /\ UNCHANGED <<thread, turn, queue, text, unverified>>
      BY <1>8 DEF HandleServerRequest
    <2>2. /\ Increasing(queue') /\ Elems(queue') \subseteq NotesSeen' /\ Observed' = Observed
          /\ \A i \in Observed : seen'[i] = seen[i]
      BY <1>8, <1>d, <2>1 DEF Notes
    <2>3. CASE at' = "done" /\ answer' = "error"
      BY <1>b, <2>2, <2>3
    <2>4. CASE UNCHANGED <<at, answer>>
      <3>1. answer' = "none"
        BY <1>8, <1>c, <2>4 DEF HandleServerRequest, Waiting
      <3>2. QueueInv'
        BY <1>0, <2>1, <2>2, <2>4 DEF QueueInv
      <3>3. CollectInv'
        BY <1>0, <2>1, <2>2, <2>4 DEF CollectInv, OwnTurn
      <3> QED  BY <1>a, <3>1, <3>2, <3>3
    <2> QED  BY <1>8, <2>3, <2>4 DEF HandleServerRequest, Finish
  <1>9. ASSUME NEW m \in Messages, m.type \in Notes \cup {"result", "fault"}, CollectRead(m)
        PROVE  QueueInv' /\ CollectInv' /\ Delivered'
    <2> DEFINE n == Len(seen')
    <2>1. at = "collect" /\ queue = <<>> /\ queue' = queue /\ seen' = Append(seen, m) /\ Observe(n, m)
      BY <1>9 DEF CollectRead
    <2>2. n \in 1..Len(seen') /\ seen'[n] = m
      BY <1>0, <2>1, Grow
    <2>3. Elems(queue') = {} /\ Increasing(queue') /\ Elems(queue) = {}
      BY <2>1 DEF Elems, Increasing
    <2>4. /\ NotesSeen' = NotesSeen \cup (IF m.type \in Notes THEN {n} ELSE {})
          /\ \A i \in NotesSeen : i < n /\ seen'[i] = seen[i]
      BY <1>0, <2>1, GrowNotes
    <2> HIDE DEF n
    <2>5. m.type \in Notes => Observed' = Observed \cup {n}
      BY <2>3, <2>4 DEF Observed
    <2>6. \A j \in Observed : j < n /\ seen'[j] = seen[j]
      BY <2>4 DEF Observed
    <2>7. CollectInv' /\ Delivered'
      BY <1>0, <2>1, <2>2, <2>3, <2>5, <2>6, ObserveKeeps
    <2>8. at' \in {"collect", "done"}
      BY <2>1 DEF Observe, Delta, ObserveHomeyTool, Completed, Finish
    <2> QED  BY <2>3, <2>7, <2>8 DEF QueueInv
  <1>10. \A m : m.type = "request" \/ m.type = "result" => m.type \notin Notes
    BY DEF Notes
  <1> QED  BY <1>0, <1>1, <1>2, <1>3, <1>4, <1>5, <1>6, <1>7, <1>8, <1>9, <1>10, Steps

LEMMA AlwaysCallInv == Spec => []CallInv
  BY InitCallInv, NextCallInv, PTL DEF Spec

\* Every variable of a call holds a value of its kind.
THEOREM TypeCorrect == Spec => []TypeOK
  <1>1. TypeInv => TypeOK
    BY DEF TypeInv
  <1> QED  BY <1>1, AlwaysTypeInv, PTL

\* A text that is spoken is the whole text of its turn, in order.
THEOREM AnswerIsWhole == Spec => []WholeAnswer
  <1>1. CallInv => WholeAnswer
    BY DEF CallInv, Delivered
  <1> QED  BY <1>1, AlwaysCallInv, PTL

\* No turn with an unconfirmed change of a device ends in a spoken text.
THEOREM SuccessIsConfirmed == Spec => []NoFalseSuccess
  <1>1. CallInv => NoFalseSuccess
    BY DEF CallInv, Delivered
  <1> QED  BY <1>1, AlwaysCallInv, PTL

\* A turn that used a tool it may not use is never a success.
THEOREM ToolsAreOwn == Spec => []OnlyOwnConnector
  <1>1. CallInv => OnlyOwnConnector
    BY DEF CallInv, Delivered
  <1> QED  BY <1>1, AlwaysCallInv, PTL

----------------------------------------------------------------------------
(* The permission profile. *)

\* The app-server confirmed the profile for this thread.
Confirmed ==
    \E i \in 1..Len(seen) : seen[i].type = "result" /\ seen[i].thread = thread /\ seen[i].detail = "confined"

LEMMA ConfirmedStays ==
    ASSUME TypeOK, NEW m \in Messages, seen' = Append(seen, m), UNCHANGED thread, Confirmed
    PROVE  Confirmed'
  BY Grow DEF Confirmed

LEMMA ConfirmedNow ==
    ASSUME TypeOK, NEW m \in Messages, seen' = Append(seen, m),
           m.type = "result", m.thread = thread', m.detail = "confined"
    PROVE  Confirmed'
  <1>1. Len(seen') \in 1..Len(seen') /\ seen'[Len(seen')] = m
    BY Grow
  <1> QED  BY <1>1 DEF Confirmed

LEMMA NextConfined == TypeInv /\ ConfinedFirst /\ [Next]_vars => ConfinedFirst'
  <1> SUFFICES ASSUME TypeInv, ConfinedFirst, [Next]_vars,
                      at' \in {"turnStart", "collect"} \/ answer' \in {"thread", "text", "unconfirmed"}
               PROVE  Confirmed'
    BY DEF ConfinedFirst, Confirmed
  <1>0. TypeOK /\ (at # "done" => answer = "none")
    BY DEF TypeInv, Progress
  <1>a. at \in {"turnStart", "collect"} \/ answer \in {"thread", "text", "unconfirmed"} => Confirmed
    BY DEF ConfinedFirst, Confirmed
  <1>1. CASE UNCHANGED vars
    BY <1>1, <1>a DEF vars, Confirmed
  <1>2. CASE \E t \in Threads \cup {None} : Open(t)
    BY <1>0, <1>2 DEF Open, Finish
  <1>3. CASE Break
    BY <1>3 DEF Break, Finish
  <1>4. CASE CollectQueued
    BY <1>4, <1>a DEF CollectQueued, Observe, Confirmed
  <1>5. ASSUME NEW m \in Messages, Notified(m)
        PROVE  Confirmed'
    BY <1>0, <1>5, <1>a, ConfirmedStays DEF Notified
  <1>6. ASSUME NEW m \in Messages, Refused(m)
        PROVE  Confirmed'
    BY <1>6 DEF Refused, Finish
  <1>7. ASSUME NEW m \in Messages, m.type = "result",
               Initialized(m) \/ ThreadStarted(m) \/ Resumed(m) \/ TurnStarted(m)
        PROVE  Confirmed'
    <2>1. CASE Initialized(m)
      BY <1>0, <2>1 DEF Initialized, Result, Send
    <2>2. CASE ThreadStarted(m)
      BY <1>0, <1>7, <2>2, ConfirmedNow DEF ThreadStarted, Result, Confined, Finish
    <2>3. CASE Resumed(m)
      BY <1>0, <1>7, <2>3, ConfirmedNow DEF Resumed, Result, Confined, Finish
    <2>4. CASE TurnStarted(m)
      BY <1>0, <1>a, <2>4, ConfirmedStays DEF TurnStarted, Result
    <2> QED  BY <1>7, <2>1, <2>2, <2>3, <2>4
  <1>8. ASSUME NEW m \in Messages, NEW written \in BOOLEAN, HandleServerRequest(m, written)
        PROVE  Confirmed'
    BY <1>0, <1>8, <1>a, ConfirmedStays DEF HandleServerRequest, Finish
  <1>9. ASSUME NEW m \in Messages, CollectRead(m)
        PROVE  Confirmed'
    BY <1>0, <1>9, <1>a, ConfirmedStays DEF CollectRead, Observe
  <1> QED  BY <1>1, <1>2, <1>3, <1>4, <1>5, <1>6, <1>7, <1>8, <1>9, Steps

\* No turn starts, and no thread is handed out, before its profile was confirmed.
THEOREM ProfileComesFirst == Spec => []ConfinedFirst
  <1>1. Init => ConfinedFirst
    BY DEF Init, ConfinedFirst
  <1> QED  BY <1>1, NextConfined, AlwaysTypeInv, PTL DEF Spec

----------------------------------------------------------------------------
(* The app-server's own requests. *)

\* The requests that were read, and the ones that were answered.
Asked == {i \in 1..Len(seen) : seen[i].type = "request"}
Told  == {replied[k].to : k \in 1..Len(replied)}

InOrder == \A k, l \in 1..Len(replied) : k < l => replied[k].to < replied[l].to

\* While the call goes on every request was answered, by declining it.
AllDeclined ==
    /\ Asked = Told
    /\ InOrder
    /\ \A k \in 1..Len(replied) : seen[replied[k].to].detail = "approval" /\ replied[k].with = "decline"

LEMMA DeclinedSoFar ==
    ASSUME TypeInv, RequestsNeverIgnored, at # "done"
    PROVE  AllDeclined
  <1>1. answer = "none"
    BY DEF TypeInv, Progress
  <1> QED  BY <1>1 DEF RequestsNeverIgnored, AllDeclined, Asked, Told, InOrder

\* A read that is not a request adds none.
LEMMA OtherRead ==
    ASSUME TypeOK, AllDeclined, NEW m \in Messages, m.type # "request", seen' = Append(seen, m), UNCHANGED replied
    PROVE  AllDeclined'
  <1>1. /\ Len(seen) \in Nat /\ Len(seen') = Len(seen) + 1
        /\ seen'[Len(seen')] = m
        /\ \A i \in 1..Len(seen) : seen'[i] = seen[i]
    BY Grow
  <1>2. \A i : i \in 1..Len(seen') <=> i \in 1..Len(seen) \/ i = Len(seen')
    BY <1>1
  <1>3. Asked' = Asked
    BY <1>1, <1>2 DEF Asked
  <1>4. \A k \in 1..Len(replied) : replied[k].to \in 1..Len(seen)
    BY DEF AllDeclined, Told, Asked
  <1> QED  BY <1>1, <1>3, <1>4 DEF AllDeclined, Told, InOrder

\* A request is read, and its answer written or not.
LEMMA RequestRead ==
    ASSUME TypeOK, AllDeclined, NEW m \in Messages, NEW written \in BOOLEAN,
           m.type = "request", m.detail \in {"approval", "other"}, HandleServerRequest(m, written)
    PROVE  RequestsNeverIgnored'
  <1> DEFINE n == Len(seen')
             e == [to |-> n, with |-> Verdict(m)]
  <1>1. /\ Len(seen) \in Nat /\ n = Len(seen) + 1
        /\ seen'[n] = m
        /\ \A i \in 1..Len(seen) : seen'[i] = seen[i]
        /\ replied \in Seq(Replies(n))
    BY Grow DEF HandleServerRequest
  <1>2. \A i : i \in 1..n <=> i \in 1..Len(seen) \/ i = n
    BY <1>1
  <1>3. /\ replied' = IF written THEN Append(replied, e) ELSE replied
        /\ ~(written /\ m.detail = "approval") => answer' = "error"
    BY DEF HandleServerRequest, Finish
  <1>4. e \in Replies(n) /\ e.to = n /\ e.with = Verdict(m)
    BY <1>1 DEF Replies, Verdict
  <1>5. /\ Len(replied) \in Nat /\ Len(Append(replied, e)) = Len(replied) + 1
        /\ Append(replied, e)[Len(replied) + 1] = e
        /\ \A k \in 1..Len(replied) : Append(replied, e)[k] = replied[k]
    BY <1>1, <1>4, AppendFacts
  <1> HIDE DEF n, e
  <1>6. Asked' = Asked \cup {n}
    BY <1>1, <1>2 DEF Asked, n
  <1>7. \A k \in 1..Len(replied) :
            /\ replied[k].to \in Asked
            /\ replied[k].to < n /\ seen'[replied[k].to].detail = "approval" /\ replied[k].with = "decline"
    BY <1>1 DEF AllDeclined, Told, Asked
  <1>8. CASE written
    <2>1. /\ Len(replied') = Len(replied) + 1 /\ replied'[Len(replied) + 1] = e
          /\ \A k \in 1..Len(replied) : replied'[k] = replied[k]
      BY <1>3, <1>5, <1>8
    <2>2. \A k : k \in 1..Len(replied') <=> k \in 1..Len(replied) \/ k = Len(replied) + 1
      BY <1>5, <2>1
    <2>3. Told' = Told \cup {n}
      BY <1>4, <2>1, <2>2 DEF Told
    <2>4. InOrder'
      <3> SUFFICES ASSUME NEW k \in 1..Len(replied'), NEW l \in 1..Len(replied'), k < l
                   PROVE  replied'[k].to < replied'[l].to
        BY DEF InOrder
      <3>1. k \in 1..Len(replied) /\ (l \in 1..Len(replied) \/ l = Len(replied) + 1)
        BY <1>5, <2>1
      <3>2. CASE l \in 1..Len(replied)
        BY <2>1, <3>1, <3>2 DEF AllDeclined, InOrder
      <3>3. CASE l = Len(replied) + 1
        BY <1>4, <1>7, <2>1, <3>1, <3>3
      <3> QED  BY <3>1, <3>2, <3>3
    <2>5. \A k \in 1..Len(replied') :
              IF seen'[replied'[k].to].detail = "approval" THEN replied'[k].with = "decline"
              ELSE replied'[k].with = "refuse" /\ replied'[k].to = Len(seen') /\ answer' = "error"
      <3> SUFFICES ASSUME NEW k \in 1..Len(replied')
                   PROVE  IF seen'[replied'[k].to].detail = "approval" THEN replied'[k].with = "decline"
                          ELSE replied'[k].with = "refuse" /\ replied'[k].to = Len(seen') /\ answer' = "error"
        OBVIOUS
      <3>1. CASE k \in 1..Len(replied)
        BY <1>7, <2>1, <3>1
      <3>2. CASE k = Len(replied) + 1
        <4>1. replied'[k].to = n /\ replied'[k].with = Verdict(m)
          BY <1>4, <2>1, <3>2
        <4> QED  BY <1>1, <1>3, <4>1 DEF Verdict, n
      <3> QED  BY <2>2, <3>1, <3>2
    <2>6. Asked' = Told'
      BY <1>6, <2>3 DEF AllDeclined
    <2> QED  BY <2>4, <2>5, <2>6 DEF RequestsNeverIgnored, Asked, Told, InOrder
  <1>9. CASE ~written
    <2>1. replied' = replied /\ answer' = "error"
      BY <1>3, <1>9
    <2>2. Asked' \ Told' \subseteq {Len(seen')} /\ Told' \subseteq Asked'
      BY <1>6, <2>1 DEF AllDeclined, Told, n
    <2>3. \A k \in 1..Len(replied') : seen'[replied'[k].to].detail = "approval" /\ replied'[k].with = "decline"
      BY <1>7, <2>1
    <2> QED  BY <2>1, <2>2, <2>3 DEF RequestsNeverIgnored, Asked, Told, InOrder, AllDeclined
  <1> QED  BY <1>8, <1>9

LEMMA NextRequests == TypeInv /\ RequestsNeverIgnored /\ [Next]_vars => RequestsNeverIgnored'
  <1> SUFFICES ASSUME TypeInv, RequestsNeverIgnored, [Next]_vars PROVE RequestsNeverIgnored'
    OBVIOUS
  <1>0. TypeOK
    BY DEF TypeInv
  <1>a. at # "done" => AllDeclined
    BY DeclinedSoFar
  <1>b. ASSUME AllDeclined'
        PROVE  RequestsNeverIgnored'
    BY <1>b DEF RequestsNeverIgnored, AllDeclined, Asked, Told, InOrder
  <1>1. CASE UNCHANGED vars
    BY <1>1 DEF vars, RequestsNeverIgnored
  \* Nothing is read.
  <1>2. CASE Break \/ CollectQueued \/ \E t \in Threads \cup {None} : Open(t)
    <2>1. at # "done" /\ UNCHANGED <<seen, replied>>
      BY <1>2 DEF Break, Waiting, CollectQueued, Observe, Open
    <2>2. AllDeclined'
      BY <1>a, <2>1 DEF AllDeclined, Asked, Told, InOrder
    <2> QED  BY <1>b, <2>2
  \* Something else is read.
  <1>3. ASSUME NEW m \in Messages, m.type # "request",
               \/ Notified(m) \/ Refused(m) \/ Initialized(m) \/ ThreadStarted(m) \/ Resumed(m)
               \/ TurnStarted(m) \/ CollectRead(m)
        PROVE  RequestsNeverIgnored'
    <2>1. at # "done" /\ seen' = Append(seen, m) /\ UNCHANGED replied
      BY <1>3 DEF Notified, Refused, Initialized, ThreadStarted, Resumed, TurnStarted, Result, Waiting,
         CollectRead, Observe
    <2>2. AllDeclined'
      BY <1>0, <1>3, <1>a, <2>1, OtherRead
    <2> QED  BY <1>b, <2>2
  <1>4. ASSUME NEW m \in Messages, NEW written \in BOOLEAN, m.type = "request",
               m.detail \in {"approval", "other"}, HandleServerRequest(m, written)
        PROVE  RequestsNeverIgnored'
    <2>1. at # "done"
      BY <1>4 DEF HandleServerRequest, Waiting
    <2> QED  BY <1>0, <1>4, <1>a, <2>1, RequestRead
  <1>5. \A m : m.type \in Notes \cup {"result", "fault"} => m.type # "request"
    BY DEF Notes
  <1> QED  BY <1>1, <1>2, <1>3, <1>4, <1>5, Steps

\* Every request of the app-server is answered, and answered as the code says.
THEOREM RequestsAnswered == Spec => []RequestsNeverIgnored
  <1>1. Init => RequestsNeverIgnored
    BY DEF Init, RequestsNeverIgnored
  <1> QED  BY <1>1, NextRequests, AlwaysTypeInv, PTL DEF Spec
=============================================================================
