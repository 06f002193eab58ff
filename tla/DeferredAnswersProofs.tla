----------------------- MODULE DeferredAnswersProofs -----------------------
(***************************************************************************)
(* Deferred answers are spoken once and to their own user, for every number *)
(* of users and requests, with overlapping calls, expiry and panics.        *)
(***************************************************************************)
EXTENDS DeferredAnswers, TLAPS

\* A request that arrived has a user.
Arrived == \A r \in Requests : pc[r] # "idle" => user[r] \in Users

\* Before ask_llm spawned the generation task.
Early == {"idle", "peek", "remove", "expire", "parse"}

\* A request that has not returned has no reply; one that has not asked the
\* model has no generation task either.
Unanswered ==
    \A r \in Requests : /\ pc[r] # "done" => reply[r] = NoReply
                        /\ pc[r] \in Early => gen[r] = "none"

\* A ready entry holds an answer that landed there, of that user, unspoken.
ReadyIsFresh ==
    \A u \in Users :
        slot[u].status = "ready" =>
            /\ slot[u].req \in Requests
            /\ user[slot[u].req] = u
            /\ gen[slot[u].req] = "landed"
            /\ \A r \in Requests : reply[r] # Answer(slot[u].req)

\* A spoken answer went either through the channel, to its own request, or
\* through the map, to a request of the same user.
SpokenKnown ==
    \A r \in Requests :
        reply[r].kind = "answer" =>
            /\ reply[r].req \in Requests
            /\ user[reply[r].req] = user[r]
            /\ \/ reply[r].req = r /\ gen[r] = "sent"
               \/ gen[reply[r].req] = "landed"

Inv == TypeOK /\ Arrived /\ Unanswered /\ ReadyIsFresh /\ SpokenKnown /\ AnsweredOnce

LEMMA InitInv == Init => Inv
    BY UsersAssumption DEF Init, Inv, TypeOK, Arrived, Unanswered, ReadyIsFresh, SpokenKnown,
       AnsweredOnce, Early, NoReply, Plain, NoSlot, Locations, GenSteps

\* What is calm was calm before.
LEMMA CalmBefore ==
    ASSUME TypeOK, [Next]_vars
    PROVE  calm' \in BOOLEAN /\ (calm' => calm)
<1>1. ASSUME NEW r \in Requests, NEW u \in Users, NEW k \in {"question", "command"},
             Arrive(r, u, k)
      PROVE  calm' \in BOOLEAN /\ (calm' => calm)
  <2>1. calm' = (calm /\ \A q \in Requests : Active(q) => user[q] # u)
      BY <1>1 DEF Arrive
  <2> QED BY <2>1
<1>2. ASSUME NEW r \in Requests, Handle(r) \/ Task(r)
      PROVE  calm' = calm
    BY <1>2 DEF Handle, Peek, Remove, Expire, Parse, Receive, ClearMark, Deadline, DropReceiver,
       Task, Generate, Send, Store, Panic
<1>3. ASSUME NEW u \in Users, Age(u)
      PROVE  calm' = FALSE
    BY <1>3 DEF Age
<1>4. CASE UNCHANGED vars
    BY <1>4 DEF vars, TypeOK
<1>5. calm \in BOOLEAN
    BY DEF TypeOK
<1>6. CASE \E r \in Requests : Handle(r) \/ Task(r)
    BY <1>2, <1>5, <1>6
<1>7. CASE \E u \in Users : Age(u)
  <2>1. calm' = FALSE
      BY <1>3, <1>7
  <2> QED BY <2>1
<1> QED BY <1>1, <1>4, <1>6, <1>7 DEF Next, Idle

LEMMA NextInv == Inv /\ [Next]_vars => Inv'
<1> SUFFICES ASSUME Inv, [Next]_vars PROVE Inv'
    OBVIOUS
<1> USE UsersAssumption DEF Inv
<1>0. calm' \in BOOLEAN
    BY CalmBefore
<1>1. ASSUME NEW r \in Requests, NEW u \in Users, NEW k \in {"question", "command"},
             Arrive(r, u, k)
      PROVE  Inv'
  <2>1. TypeOK' /\ Arrived' /\ Unanswered' /\ AnsweredOnce'
      BY <1>1 DEF Arrive, Goto, TypeOK, Arrived, Unanswered, AnsweredOnce, Early, Locations
  <2>2. \A q \in Requests : gen[q] # "none" \/ reply[q] # NoReply => user'[q] = user[q]
      BY <1>1 DEF Arrive, TypeOK, Unanswered, Early
  <2>3. ReadyIsFresh'
      BY <1>1, <2>2 DEF Arrive, ReadyIsFresh
  <2>4. SpokenKnown'
      BY <1>1, <2>2 DEF Arrive, SpokenKnown, NoReply, Plain
  <2> QED BY <2>1, <2>3, <2>4
\* A step that returns a phrase, and may empty the user's entry.
<1>a. ASSUME NEW r \in Requests, pc[r] # "done", pc[r] # "idle",
             NEW k \in {"command", "stillThinking", "thinkingStarted", "error"},
             Finish(r, Plain(k)), UNCHANGED <<user, kind, gen>>,
             slot' = slot \/ slot' = Removed(user[r])
      PROVE  Inv'
  <2>1. TypeOK' /\ Arrived' /\ Unanswered'
      BY <1>0, <1>a DEF Finish, Goto, Plain, Removed, NoSlot, TypeOK, Arrived, Unanswered, Early, Locations
  <2>2. \A q \in Requests : reply'[q].kind = "answer" => reply'[q] = reply[q]
      BY <1>a DEF Finish, Plain, TypeOK
  <2>3. AnsweredOnce' /\ SpokenKnown'
      BY <1>a, <2>2 DEF AnsweredOnce, SpokenKnown
  <2>4. ReadyIsFresh'
    <3>1. \A p \in Requests : \A q : reply'[p] = Answer(q) => reply[p] = Answer(q)
        BY <2>2 DEF Answer
    <3> QED BY <1>a, <3>1 DEF ReadyIsFresh, Removed, NoSlot, TypeOK
  <2> QED BY <2>1, <2>3, <2>4
\* A step that goes on, and may empty the user's entry.
<1>b. ASSUME NEW r \in Requests, NEW l \in Locations \ {"idle", "done"}, Goto(r, l),
             pc[r] # "idle", pc[r] # "done", pc[r] \in Early \/ l \notin Early,
             UNCHANGED <<user, kind, reply, gen>>,
             slot' = slot \/ slot' = Removed(user[r])
      PROVE  Inv'
  <2>1. TypeOK' /\ Arrived' /\ Unanswered'
    <3>1. TypeOK'
        BY <1>0, <1>b DEF Goto, Removed, NoSlot, TypeOK
    <3>2. \A q \in Requests : pc'[q] = IF q = r THEN l ELSE pc[q]
        BY <1>b DEF Goto, TypeOK
    <3>3. Arrived' /\ Unanswered'
        BY <1>b, <3>2 DEF Arrived, Unanswered, Early
    <3> QED BY <3>1, <3>3
  <2>2. AnsweredOnce' /\ SpokenKnown'
      BY <1>b DEF AnsweredOnce, SpokenKnown
  <2>3. ReadyIsFresh'
      BY <1>b DEF ReadyIsFresh, Removed, NoSlot, TypeOK
  <2> QED BY <2>1, <2>2, <2>3
<1>2. ASSUME NEW r \in Requests, Peek(r)
      PROVE  Inv'
    BY <1>2, <1>a, <1>b DEF Peek, Locations, Early
\* An answer that nobody heard is spoken, and leaves the map.
<1>c. ASSUME NEW r \in Requests, NEW q \in Requests, pc[r] # "done", pc[r] # "idle",
             Finish(r, Answer(q)), UNCHANGED <<user, kind, gen>>, slot' = Removed(user[r]),
             user[q] = user[r],
             \A p \in Requests : reply[p] # Answer(q),
             (q = r /\ gen[r] = "sent") \/ gen[q] = "landed"
      PROVE  Inv'
  <2>1. TypeOK' /\ Arrived' /\ Unanswered'
      BY <1>0, <1>c DEF Finish, Goto, Answer, Removed, NoSlot, TypeOK, Arrived, Unanswered, Early, Locations
  <2>2. \A p \in Requests : reply'[p] = IF p = r THEN Answer(q) ELSE reply[p]
      BY <1>c DEF Finish, TypeOK
  <2>3. AnsweredOnce'
      BY <1>c, <2>2 DEF AnsweredOnce
  <2>4. SpokenKnown'
      BY <1>c, <2>2 DEF SpokenKnown, Answer
  <2>5. ReadyIsFresh'
    <3>1. \A u \in Users : slot'[u] = IF u = user[r] THEN NoSlot ELSE slot[u]
        BY <1>c DEF Removed, TypeOK
    <3> QED BY <1>c, <2>2, <3>1 DEF ReadyIsFresh, NoSlot, Answer
  <2> QED BY <2>1, <2>3, <2>4, <2>5
<1>3. ASSUME NEW r \in Requests, Remove(r)
      PROVE  Inv'
  <2>1. user[r] \in Users
      BY <1>3 DEF Remove, Arrived
  <2>2. CASE slot[user[r]].status = "ready" /\ Finish(r, Answer(slot[user[r]].req))
      BY <1>3, <1>c, <2>1, <2>2 DEF Remove, ReadyIsFresh
  <2>3. CASE Goto(r, "parse") /\ UNCHANGED reply
      BY <1>3, <1>b, <2>3 DEF Remove, Locations, Early
  <2> QED BY <1>3, <2>2, <2>3 DEF Remove
<1>4. ASSUME NEW r \in Requests, Expire(r)
      PROVE  Inv'
    BY <1>4, <1>b DEF Expire, Locations, Early
<1>5. ASSUME NEW r \in Requests, Parse(r)
      PROVE  Inv'
  <2>1. CASE Finish(r, Plain("command")) /\ UNCHANGED <<gen, slot>>
      BY <1>5, <1>a, <2>1 DEF Parse
  <2>2. CASE /\ slot' = MarkThinking(user[r], r)
             /\ gen'  = [gen EXCEPT ![r] = "running"]
             /\ Goto(r, "wait")
             /\ UNCHANGED reply
    <3>1. pc[r] = "parse" /\ user[r] \in Users /\ gen[r] = "none" /\ UNCHANGED <<user, kind>>
        BY <1>5 DEF Parse, Arrived, Unanswered, Early
    <3>2. TypeOK' /\ Arrived' /\ Unanswered'
        BY <1>0, <2>2, <3>1 DEF MarkThinking, Goto, TypeOK, Arrived, Unanswered, Early, Locations, GenSteps
    <3>3. \A u \in Users : slot'[u].status = "ready" => slot'[u] = slot[u]
        BY <2>2, <3>1 DEF MarkThinking, TypeOK
    <3>4. ReadyIsFresh'
        BY <2>2, <3>1, <3>3 DEF ReadyIsFresh, TypeOK
    <3>5. SpokenKnown' /\ AnsweredOnce'
        BY <2>2, <3>1 DEF SpokenKnown, AnsweredOnce, TypeOK
    <3> QED BY <3>2, <3>4, <3>5
  <2> QED BY <1>5, <2>1, <2>2 DEF Parse
<1>6. ASSUME NEW r \in Requests, Receive(r) \/ Deadline(r)
      PROVE  Inv'
    BY <1>6, <1>b DEF Receive, Deadline, Locations, Early
<1>7. ASSUME NEW r \in Requests, ClearMark(r)
      PROVE  Inv'
  <2>1. pc[r] = "clear" /\ reply[r] = NoReply
      BY <1>7 DEF ClearMark, Unanswered
  <2>2. CASE gen[r] = "sent"
    <3>1. \A p \in Requests : reply[p] # Answer(r)
        BY <2>1, <2>2 DEF SpokenKnown, Answer, NoReply, Plain
    <3> QED BY <1>7, <1>c, <2>1, <2>2, <3>1 DEF ClearMark
  <2>3. CASE gen[r] # "sent"
      BY <1>7, <1>a, <2>1, <2>3 DEF ClearMark
  <2> QED BY <2>2, <2>3
<1>8. ASSUME NEW r \in Requests, DropReceiver(r)
      PROVE  Inv'
    BY <1>8, <1>a DEF DropReceiver
\* A step of the generation task of an answer that is nowhere yet.
<1>9. ASSUME NEW r \in Requests, Generate(r) \/ Send(r) \/ Panic(r)
      PROVE  Inv'
  <2>1. /\ UNCHANGED <<pc, user, kind, reply, slot>>
        /\ gen[r] \in {"running", "send"}
        /\ \E g \in GenSteps \ {"none"} : gen' = [gen EXCEPT ![r] = g]
      BY <1>9 DEF Generate, Send, Panic, GenSteps
  <2>2. TypeOK' /\ Arrived' /\ Unanswered'
      BY <1>0, <2>1 DEF TypeOK, Arrived, Unanswered
  <2>3. ReadyIsFresh'
      BY <2>1 DEF ReadyIsFresh, TypeOK
  <2>4. SpokenKnown' /\ AnsweredOnce'
      BY <2>1 DEF SpokenKnown, AnsweredOnce, TypeOK
  <2> QED BY <2>2, <2>3, <2>4
<1>10. ASSUME NEW r \in Requests, Store(r)
       PROVE  Inv'
  <2>1. gen[r] = "complete" /\ pc[r] \notin Early /\ user[r] \in Users
      BY <1>10 DEF Store, Unanswered, Arrived, Early
  <2>2. \A p \in Requests : reply[p] # Answer(r)
      BY <2>1 DEF SpokenKnown, Answer
  <2>3. TypeOK' /\ Arrived' /\ Unanswered'
      BY <1>10, <2>1 DEF Store, Complete, TypeOK, Arrived, Unanswered, GenSteps
  <2>4. \A q \in Requests : q # r => gen'[q] = gen[q]
      BY <1>10 DEF Store, TypeOK
  <2>5. ReadyIsFresh'
    <3>1. CASE Empty(user[r])
        BY <1>10, <2>1, <2>4, <3>1 DEF Store, Complete, ReadyIsFresh, TypeOK
    <3>2. CASE ~Empty(user[r])
      <4>1. gen'[r] = "landed"
          BY <1>10, <3>2 DEF Store, TypeOK
      <4>2. \A u \in Users : slot'[u] = IF u = user[r] THEN [status |-> "ready", req |-> r]
                                                    ELSE slot[u]
          BY <1>10, <3>2 DEF Store, Complete, TypeOK
      <4> QED BY <1>10, <2>1, <2>2, <2>4, <4>1, <4>2 DEF Store, ReadyIsFresh
    <3> QED BY <3>1, <3>2
  <2>6. SpokenKnown' /\ AnsweredOnce'
      BY <1>10, <2>1, <2>4 DEF Store, SpokenKnown, AnsweredOnce
  <2> QED BY <2>3, <2>5, <2>6
<1>11. ASSUME NEW u \in Users, Age(u)
       PROVE  Inv'
  <2>1. /\ UNCHANGED <<pc, user, kind, reply, gen>>
        /\ \A v \in Users : slot'[v].status = "ready" => slot'[v] = slot[v]
        /\ slot' \in [Users -> [status : {"absent", "thinking", "stale", "ready"},
                                req : Requests \cup {None}]]
      BY <1>11 DEF Age, TypeOK
  <2> QED BY <1>0, <2>1 DEF TypeOK, Arrived, Unanswered, ReadyIsFresh, SpokenKnown, AnsweredOnce
<1>12. CASE UNCHANGED vars
    BY <1>12 DEF vars, TypeOK, Arrived, Unanswered, ReadyIsFresh, SpokenKnown, AnsweredOnce
<1> HIDE DEF Inv
<1> QED BY <1>1, <1>2, <1>3, <1>4, <1>5, <1>6, <1>7, <1>8, <1>9, <1>10, <1>11, <1>12
        DEF Next, Handle, Task, Idle

LEMMA Invariance == Spec => []Inv
    BY InitInv, NextInv, PTL DEF Spec

\* Every variable holds a value of its kind.
THEOREM TypeCorrect == Spec => []TypeOK
<1>1. Inv => TypeOK
    BY DEF Inv
<1> QED BY <1>1, Invariance, PTL

\* Whether it takes the channel or the map, an answer is spoken at most once.
THEOREM AtMostOnce == Spec => []AnsweredOnce
<1>1. Inv => AnsweredOnce
    BY DEF Inv
<1> QED BY <1>1, Invariance, PTL

\* An answer is spoken only to the user who asked, after it was generated.
THEOREM OwnUser == Spec => []AnswerOfSameUser
<1>1. Inv => AnswerOfSameUser
    BY DEF Inv, SpokenKnown, AnswerOfSameUser
<1> QED BY <1>1, Invariance, PTL

----------------------------------------------------------------------------
(* One call at a time, and no entry expires. *)

Thinking(r) == [status |-> "thinking", req |-> r]

\* A user has one call under way.
Alone == \A q, r \in Requests : Active(q) /\ Active(r) /\ user[q] = user[r] => q = r

Pending == {"running", "send", "complete"}

\* The entry of the user is still what the call last saw or wrote.
AsSeen(r) ==
    /\ pc[r] # "expire"
    /\ pc[r] = "remove" => slot[user[r]].status = "ready"
    /\ pc[r] = "parse" => Empty(user[r])
    /\ pc[r] \in {"wait", "late", "clear"} => slot[user[r]] = Thinking(r)

\* While the model thinks, the entry of the user waits for that answer.
MarkHeld(q) == gen[q] \in Pending => slot[user[q]] = Thinking(q)

\* Where a finished answer is.
Kept(q) ==
    /\ pc[q] = "clear" => gen[q] \in {"sent", "closed"}
    /\ gen[q] = "complete" => pc[q] = "done"
    /\ gen[q] = "sent" => pc[q] \in {"wait", "clear"} \/ reply[q] = Answer(q)
    /\ gen[q] = "landed" => \/ slot[user[q]] = [status |-> "ready", req |-> q]
                            \/ \E r \in Requests : reply[r] = Answer(q)
    /\ gen[q] # "nowhere"

KeptInv ==
    /\ Inv /\ Alone
    /\ \A u \in Users : slot[u].status # "stale"
    /\ \A r \in Requests : AsSeen(r) /\ MarkHeld(r) /\ Kept(r)

LEMMA InitKeptInv == Init => KeptInv
<1> SUFFICES ASSUME Init PROVE KeptInv
    OBVIOUS
<1>1. Inv
    BY InitInv
<1> QED BY <1>1 DEF Init, KeptInv, Alone, AsSeen, MarkHeld, Kept, Active, NoSlot, Pending

\* A step of one request that changes at most the entry of its user, on which
\* no other request relies.
LEMMA LocalStep ==
    ASSUME KeptInv, Inv', NEW r \in Requests, user[r] \in Users, UNCHANGED user,
           \A q \in Requests : q # r => pc'[q] = pc[q] /\ gen'[q] = gen[q] /\ reply'[q] = reply[q],
           \A v \in Users : v # user[r] => slot'[v] = slot[v],
           \/ slot' = slot
           \/ /\ \A q \in Requests : q # r /\ user[q] = user[r] =>
                    pc[q] \in {"idle", "peek", "done"} /\ gen[q] \notin Pending
              /\ slot[user[r]].status # "ready" \/ reply'[r] = Answer(slot[user[r]].req),
           reply[r] = NoReply \/ reply'[r] = reply[r],
           slot'[user[r]].status # "stale",
           pc[r] = "done" => pc'[r] = "done", pc[r] = "idle" => pc'[r] = "idle",
           AsSeen(r)' /\ MarkHeld(r)' /\ Kept(r)'
    PROVE  KeptInv'
<1>1. Alone'
    BY DEF KeptInv, Alone, Active
<1>2. \A u \in Users : slot'[u].status # "stale"
    BY DEF KeptInv
<1>3. \A p \in Requests : \A q : reply[p] = Answer(q) => reply'[p] = Answer(q)
    BY DEF NoReply, Plain, Answer
<1>4. ASSUME NEW q \in Requests, q # r
      PROVE  AsSeen(q)' /\ MarkHeld(q)' /\ Kept(q)'
  <2>0. /\ pc'[q] = pc[q] /\ gen'[q] = gen[q] /\ reply'[q] = reply[q] /\ user'[q] = user[q]
        /\ AsSeen(q) /\ MarkHeld(q) /\ Kept(q)
      BY <1>4 DEF KeptInv
  <2>1. pc[q] # "idle" => user[q] \in Users
      BY DEF KeptInv, Inv, Arrived
  <2>2. pc[q] = "idle" => gen[q] = "none"
      BY DEF KeptInv, Inv, Unanswered, Early
  <2>3. CASE user[q] # user[r] \/ slot' = slot
    <3>1. pc[q] # "idle" => slot'[user[q]] = slot[user[q]]
        BY <2>1, <2>3
    <3>2. AsSeen(q)'
        BY <2>0, <3>1 DEF AsSeen, Empty
    <3>3. MarkHeld(q)'
        BY <2>0, <2>2, <3>1 DEF MarkHeld, Pending
    <3>4. Kept(q)'
        BY <1>3, <2>0, <2>2, <3>1 DEF Kept
    <3> QED BY <3>2, <3>3, <3>4
  <2>4. CASE user[q] = user[r] /\ slot' # slot
    <3>1. /\ pc[q] \in {"idle", "peek", "done"} /\ gen[q] \notin Pending
          /\ slot[user[r]].status # "ready" \/ reply'[r] = Answer(slot[user[r]].req)
        BY <1>4, <2>4
    <3>2. gen[q] = "landed" => \E p \in Requests : reply'[p] = Answer(q)
        BY <1>3, <2>0, <2>4, <3>1 DEF Kept
    <3>3. Kept(q)'
        BY <1>3, <2>0, <3>1, <3>2 DEF Kept
    <3> QED BY <2>0, <3>1, <3>3 DEF AsSeen, MarkHeld
  <2> QED BY <2>3, <2>4
<1> QED BY <1>1, <1>2, <1>4 DEF KeptInv

\* No other request relies on the entry of a user whose call is under way,
\* unless the model is thinking about it.
LEMMA OthersQuiet ==
    ASSUME KeptInv, NEW r \in Requests, Active(r),
           \A q \in Requests : q # r => slot[user[r]] # Thinking(q)
    PROVE  \A q \in Requests : q # r /\ user[q] = user[r] =>
                pc[q] \in {"idle", "peek", "done"} /\ gen[q] \notin Pending
    BY DEF KeptInv, Alone, Active, MarkHeld

LEMMA NextKeptInv ==
    ASSUME KeptInv, [Next]_vars, calm'
    PROVE  KeptInv'
<1>0. Inv /\ Inv' /\ TypeOK
    BY NextInv DEF KeptInv, Inv
<1>t. \A q, r \in Requests : q # r => Thinking(q) # Thinking(r)
    BY DEF Thinking
<1>1. ASSUME NEW r \in Requests, NEW u \in Users, NEW k \in {"question", "command"},
             Arrive(r, u, k)
      PROVE  KeptInv'
  <2>1. /\ pc[r] = "idle" /\ \A q \in Requests : Active(q) => user[q] # u
        /\ UNCHANGED <<reply, gen, slot>>
        /\ \A q \in Requests : pc'[q] = IF q = r THEN "peek" ELSE pc[q]
        /\ \A q \in Requests : user'[q] = IF q = r THEN u ELSE user[q]
      BY <1>0, <1>1 DEF Arrive, Goto, TypeOK
  <2>2. Alone'
      BY <2>1 DEF KeptInv, Alone, Active
  <2>3. gen[r] = "none"
      BY <1>0, <2>1 DEF Inv, Unanswered, Early
  <2>4. ASSUME NEW q \in Requests
        PROVE  AsSeen(q)' /\ MarkHeld(q)' /\ Kept(q)'
    <3>1. CASE q = r
        BY <2>1, <2>3, <3>1 DEF AsSeen, MarkHeld, Kept, Pending
    <3>2. CASE q # r
      <4>1. AsSeen(q) /\ MarkHeld(q) /\ Kept(q) /\ pc'[q] = pc[q] /\ user'[q] = user[q]
          BY <2>1, <3>2 DEF KeptInv
      <4> QED BY <2>1, <4>1 DEF AsSeen, MarkHeld, Kept, Empty
    <3> QED BY <3>1, <3>2
  <2> QED BY <1>0, <2>1, <2>2, <2>4 DEF KeptInv
\* A step of the call of r that leaves the entry alone.
<1>a. ASSUME NEW r \in Requests, Active(r), UNCHANGED <<user, gen, slot>>,
             \A q \in Requests : q # r => pc'[q] = pc[q] /\ reply'[q] = reply[q],
             pc'[r] # "idle",
             AsSeen(r)', pc'[r] = "clear" => gen[r] \in {"sent", "closed"},
             gen[r] = "sent" => pc'[r] \in {"wait", "clear"}
      PROVE  KeptInv'
  <2>1. /\ user[r] \in Users /\ reply[r] = NoReply
        /\ AsSeen(r) /\ MarkHeld(r) /\ Kept(r) /\ slot[user[r]].status # "stale"
      BY <1>0, <1>a DEF KeptInv, Inv, Arrived, Unanswered, Active
  <2>2. MarkHeld(r)'
      BY <1>a, <2>1 DEF MarkHeld
  <2>3. \A p \in Requests : \A q : reply[p] = Answer(q) => reply'[p] = Answer(q)
      BY <1>a, <2>1 DEF NoReply, Plain, Answer
  <2>4. Kept(r)'
      BY <1>a, <2>1, <2>3 DEF Kept, Active
  <2> QED BY <1>0, <1>a, <2>1, <2>2, <2>4, LocalStep DEF Active
<1>2. ASSUME NEW r \in Requests, Peek(r)
      PROVE  KeptInv'
  <2>1. /\ Active(r) /\ pc[r] = "peek" /\ gen[r] = "none" /\ user[r] \in Users
        /\ UNCHANGED <<user, gen, slot>> /\ slot[user[r]].status # "stale"
      BY <1>0, <1>2 DEF Peek, Active, KeptInv, Inv, Arrived, Unanswered, Early
  <2>2. \A q \in Requests : q # r => pc'[q] = pc[q] /\ reply'[q] = reply[q]
      BY <1>0, <1>2 DEF Peek, Goto, Finish, TypeOK
  <2>3. \/ Empty(user[r]) /\ pc'[r] = "parse"
        \/ slot[user[r]].status = "ready" /\ pc'[r] = "remove"
        \/ pc'[r] = "done"
      BY <1>0, <1>2, <2>1 DEF Peek, Goto, Finish, TypeOK
  <2>4. AsSeen(r)'
      BY <2>1, <2>3 DEF AsSeen, Empty
  <2> QED BY <1>a, <2>1, <2>2, <2>3, <2>4
<1>3. ASSUME NEW r \in Requests, Remove(r)
      PROVE  KeptInv'
  <2>1. /\ Active(r) /\ pc[r] = "remove" /\ gen[r] = "none" /\ user[r] \in Users /\ reply[r] = NoReply
        /\ slot[user[r]].status = "ready" /\ UNCHANGED <<user, gen>>
      BY <1>0, <1>3 DEF Remove, Active, KeptInv, Inv, Arrived, Unanswered, Early, AsSeen
  <2>2. /\ pc'[r] = "done" /\ reply'[r] = Answer(slot[user[r]].req)
        /\ \A q \in Requests : q # r => pc'[q] = pc[q] /\ reply'[q] = reply[q]
        /\ \A v \in Users : slot'[v] = IF v = user[r] THEN NoSlot ELSE slot[v]
      BY <1>0, <1>3, <2>1 DEF Remove, Finish, Goto, Removed, TypeOK
  <2>3. \A q \in Requests : q # r => slot[user[r]] # Thinking(q)
      BY <2>1 DEF Thinking
  <2>4. AsSeen(r)' /\ MarkHeld(r)' /\ Kept(r)'
      BY <2>1, <2>2 DEF AsSeen, MarkHeld, Kept, Pending
  <2> QED BY <1>0, <2>1, <2>2, <2>3, <2>4, OthersQuiet, LocalStep DEF NoSlot
<1>4. ASSUME NEW r \in Requests, Expire(r)
      PROVE  KeptInv'
    BY <1>4 DEF Expire, KeptInv, AsSeen
<1>5. ASSUME NEW r \in Requests, Parse(r)
      PROVE  KeptInv'
  <2>1. /\ Active(r) /\ pc[r] = "parse" /\ gen[r] = "none" /\ user[r] \in Users /\ reply[r] = NoReply
        /\ Empty(user[r]) /\ UNCHANGED <<user>>
      BY <1>0, <1>5 DEF Parse, Active, KeptInv, Inv, Arrived, Unanswered, Early, AsSeen
  <2>2. CASE Finish(r, Plain("command")) /\ UNCHANGED <<gen, slot>>
    <3>1. pc'[r] = "done" /\ \A q \in Requests : q # r => pc'[q] = pc[q] /\ reply'[q] = reply[q]
        BY <1>0, <2>2 DEF Finish, Goto, TypeOK
    <3>2. AsSeen(r)'
        BY <3>1 DEF AsSeen
    <3> QED BY <1>a, <2>1, <2>2, <3>1, <3>2
  <2>3. CASE /\ slot' = MarkThinking(user[r], r)
             /\ gen'  = [gen EXCEPT ![r] = "running"]
             /\ Goto(r, "wait")
             /\ UNCHANGED reply
    <3>1. /\ pc'[r] = "wait" /\ gen'[r] = "running"
          /\ \A q \in Requests : q # r => pc'[q] = pc[q] /\ gen'[q] = gen[q]
          /\ \A v \in Users : slot'[v] = IF v = user[r] THEN Thinking(r) ELSE slot[v]
        BY <1>0, <2>1, <2>3 DEF MarkThinking, Thinking, Goto, TypeOK
    <3>2. \A q \in Requests : q # r => slot[user[r]] # Thinking(q)
        BY <2>1 DEF Thinking, Empty
    <3>3. AsSeen(r)' /\ MarkHeld(r)' /\ Kept(r)'
        BY <2>1, <3>1 DEF AsSeen, MarkHeld, Kept, Empty
    <3>4. slot[user[r]].status # "ready" /\ slot'[user[r]].status # "stale"
        BY <2>1, <3>1 DEF Empty, Thinking
    <3> QED BY <1>0, <2>1, <2>3, <3>1, <3>2, <3>3, <3>4, OthersQuiet, LocalStep
  <2> QED BY <1>5, <2>2, <2>3 DEF Parse
<1>6. ASSUME NEW r \in Requests, Receive(r) \/ Deadline(r)
      PROVE  KeptInv'
  <2>1. /\ Active(r) /\ pc[r] = "wait" /\ UNCHANGED <<user, gen, slot, reply>>
        /\ slot[user[r]] = Thinking(r)
      BY <1>6 DEF Receive, Deadline, Active, KeptInv, AsSeen
  <2>2. /\ \A q \in Requests : q # r => pc'[q] = pc[q]
        /\ \/ pc'[r] = "clear" /\ gen[r] \in {"sent", "closed"}
           \/ pc'[r] = "late" /\ gen[r] # "sent"
      BY <1>0, <1>6 DEF Receive, Deadline, Goto, TypeOK
  <2>3. AsSeen(r)'
      BY <2>1, <2>2 DEF AsSeen
  <2> QED BY <1>a, <2>1, <2>2, <2>3
<1>7. ASSUME NEW r \in Requests, ClearMark(r)
      PROVE  KeptInv'
  <2>1. /\ Active(r) /\ pc[r] = "clear" /\ user[r] \in Users /\ reply[r] = NoReply
        /\ slot[user[r]] = Thinking(r) /\ gen[r] \in {"sent", "closed"} /\ UNCHANGED <<user, gen>>
      BY <1>0, <1>7 DEF ClearMark, Active, KeptInv, Inv, Arrived, Unanswered, AsSeen, Kept
  <2>2. /\ pc'[r] = "done" /\ gen[r] = "sent" => reply'[r] = Answer(r)
        /\ \A q \in Requests : q # r => pc'[q] = pc[q] /\ reply'[q] = reply[q]
        /\ \A v \in Users : slot'[v] = IF v = user[r] THEN NoSlot ELSE slot[v]
        /\ pc'[r] = "done"
      BY <1>0, <1>7 DEF ClearMark, Finish, Goto, Removed, TypeOK
  <2>3. \A q \in Requests : q # r => slot[user[r]] # Thinking(q)
      BY <1>t, <2>1
  <2>4. AsSeen(r)' /\ MarkHeld(r)' /\ Kept(r)'
      BY <2>1, <2>2 DEF AsSeen, MarkHeld, Kept, Pending
  <2>5. slot[user[r]].status # "ready" /\ slot'[user[r]].status # "stale"
      BY <2>1, <2>2 DEF Thinking, NoSlot
  <2> QED BY <1>0, <2>1, <2>2, <2>3, <2>4, <2>5, OthersQuiet, LocalStep
<1>8. ASSUME NEW r \in Requests, DropReceiver(r)
      PROVE  KeptInv'
  <2>1. Active(r) /\ pc[r] = "late" /\ UNCHANGED <<user, gen, slot>> /\ Kept(r)
      BY <1>8 DEF DropReceiver, Active, KeptInv
  <2>2. gen[r] # "sent"
    <3>1. reply[r] # Answer(r)
        BY <1>0, <2>1 DEF Inv, Unanswered, NoReply, Plain, Answer
    <3> QED BY <2>1, <3>1 DEF Kept
  <2>3. pc'[r] = "done" /\ \A q \in Requests : q # r => pc'[q] = pc[q] /\ reply'[q] = reply[q]
      BY <1>0, <1>8 DEF DropReceiver, Finish, Goto, TypeOK
  <2>4. AsSeen(r)'
      BY <2>3 DEF AsSeen
  <2> QED BY <1>a, <2>1, <2>2, <2>3, <2>4
\* The generation task up to the end of the channel.
<1>9. ASSUME NEW r \in Requests, Generate(r) \/ Send(r) \/ Panic(r)
      PROVE  KeptInv'
  <2>1. /\ UNCHANGED <<pc, user, reply, slot>> /\ gen[r] \in {"running", "send"}
        /\ AsSeen(r) /\ MarkHeld(r) /\ Kept(r)
      BY <1>9 DEF Generate, Send, Panic, KeptInv
  <2>2. /\ \A q \in Requests : q # r => gen'[q] = gen[q]
        /\ \/ gen'[r] = "send" \/ gen'[r] = "closed"
           \/ gen'[r] = "sent" /\ pc[r] = "wait"
           \/ gen'[r] = "lost"
           \/ gen'[r] = "complete" /\ pc[r] = "done"
      BY <1>0, <1>9 DEF Generate, Send, Panic, TypeOK
  <2>3. pc[r] # "idle" /\ user[r] \in Users
      BY <1>0, <2>1 DEF Inv, Unanswered, Early, Arrived
  <2>4. pc[r] # "clear"
      BY <2>1 DEF Kept
  <2>5. AsSeen(r)' /\ MarkHeld(r)' /\ Kept(r)'
      BY <2>1, <2>2, <2>4 DEF AsSeen, Empty, MarkHeld, Kept, Pending
  <2>6. slot[user[r]].status # "stale"
      BY <2>3 DEF KeptInv
  <2> QED BY <1>0, <2>1, <2>2, <2>3, <2>5, <2>6, LocalStep
<1>10. ASSUME NEW r \in Requests, Store(r)
       PROVE  KeptInv'
  <2>1. /\ UNCHANGED <<pc, user, reply>> /\ gen[r] = "complete"
        /\ AsSeen(r) /\ MarkHeld(r) /\ Kept(r)
      BY <1>10 DEF Store, KeptInv
  <2>2. pc[r] # "idle" /\ user[r] \in Users
      BY <1>0, <2>1 DEF Inv, Unanswered, Early, Arrived
  <2>3. slot[user[r]] = Thinking(r) /\ ~Empty(user[r])
      BY <2>1 DEF MarkHeld, Pending, Thinking, Empty
  <2>4. /\ gen'[r] = "landed" /\ \A q \in Requests : q # r => gen'[q] = gen[q]
        /\ \A v \in Users : slot'[v] = IF v = user[r] THEN [status |-> "ready", req |-> r] ELSE slot[v]
      BY <1>0, <1>10, <2>2, <2>3 DEF Store, Complete, TypeOK
  <2>5. pc[r] = "done"
      BY <2>1 DEF Kept
  <2>6. AsSeen(r)' /\ MarkHeld(r)' /\ Kept(r)'
      BY <2>1, <2>2, <2>4, <2>5 DEF AsSeen, MarkHeld, Kept, Pending
  <2>7. ASSUME NEW q \in Requests, q # r, user[q] = user[r]
        PROVE  pc[q] \in {"idle", "peek", "done"} /\ gen[q] \notin Pending
    <3>1. AsSeen(q) /\ MarkHeld(q) /\ slot[user[q]] # Thinking(q) /\ pc[q] \in Locations
        BY <1>0, <1>t, <2>3, <2>7 DEF KeptInv, TypeOK
    <3>2. slot[user[q]].status = "thinking"
        BY <2>3, <2>7 DEF Thinking
    <3> QED BY <3>1, <3>2 DEF AsSeen, MarkHeld, Locations, Empty
  <2>8. slot[user[r]].status # "ready" /\ slot'[user[r]].status # "stale"
      BY <2>2, <2>3, <2>4 DEF Thinking
  <2> QED BY <1>0, <2>1, <2>2, <2>4, <2>5, <2>6, <2>7, <2>8, LocalStep
<1>11. ASSUME NEW u \in Users, Age(u)
       PROVE  KeptInv'
    BY <1>11 DEF Age
<1>12. CASE UNCHANGED vars
    BY <1>0, <1>12 DEF vars, KeptInv, Alone, Active, AsSeen, MarkHeld, Kept, Empty
<1> HIDE DEF KeptInv
<1> QED BY <1>1, <1>2, <1>3, <1>4, <1>5, <1>6, <1>7, <1>8, <1>9, <1>10, <1>11, <1>12
        DEF Next, Handle, Task, Idle

\* While a user has one call under way at a time and no entry expires, a
\* finished answer is spoken, on its way to the caller, or waits in the map.
THEOREM KeptButInRace == Spec => []LostOnlyInRace
<1> DEFINE CalmInv == Inv /\ (calm => KeptInv)
<1>1. Init => CalmInv
    BY InitInv, InitKeptInv
<1>2. CalmInv /\ [Next]_vars => CalmInv'
  <2> SUFFICES ASSUME Inv, calm => KeptInv, [Next]_vars PROVE CalmInv'
      OBVIOUS
  <2>1. Inv'
      BY NextInv
  <2>2. ASSUME calm' PROVE KeptInv'
    <3>1. calm
        BY <2>2, CalmBefore DEF Inv
    <3> QED BY <2>2, <3>1, NextKeptInv
  <2> QED BY <2>1, <2>2
<1>3. CalmInv => LostOnlyInRace
    BY DEF KeptInv, Kept, LostOnlyInRace, Reachable
<1> QED BY <1>1, <1>2, <1>3, PTL DEF Spec
=============================================================================
