----------------------- MODULE HouseholdEngineProofs -----------------------
(***************************************************************************)
(* Safety of the household engine for every number of houses, surfaces,    *)
(* requests and chunks, and for every setting of the switches: overlapping *)
(* requests, failing and lost store and runtime calls, expiry and crashes. *)
(***************************************************************************)
EXTENDS HouseholdEngine, TLAPS

\* A request about to shape, save or speak a text has one.
CarryNamesAnswer ==
    \A r \in Requests :
        pc[r] \in {"again", "keep", "deliver", "clear"} => carry[r].req \in Requests

\* A request that arrived has a surface.
Arrived == \A r \in Requests : pc[r] # "idle" => app[r] \in Apps

\* TypeOK alone is not inductive: Remaining reads parts[carry[r].req], and
\* Resolve reads thread[HouseOf[app[r]]].
TypeInv == TypeOK /\ CarryNamesAnswer /\ Arrived

\* What every action's proof needs to know of the constants.
LEMMA Constants ==
    /\ HouseOf \in [Apps -> Houses \cup {None}]
    /\ None \notin Requests /\ None \notin Houses /\ None \notin Apps
    /\ MaxParts \in Nat /\ 1 \in 0..MaxParts /\ 0 \in 0..MaxParts
    /\ \A i \in Inputs : i \in [utterance : Utterances, session : Sessions]
    BY HouseOfAssumption, NoneAssumption, InputsAssumption, PartsAssumption

\* The rest of a well-typed text is a well-typed continuations row.
LEMMA RemainingType ==
    ASSUME NEW r \in Requests, TypeOK, carry[r].req \in Requests
    PROVE  Remaining(carry[r]) \in [req : MaybeRequest, from : 0..MaxParts,
                                    age : {"live", "expired"}]
    BY Constants DEF Remaining, TypeOK, NoRest, MaybeRequest

LEMMA InitTypeInv == Init => TypeInv
    BY Constants DEF Init, TypeInv, TypeOK, CarryNamesAnswer, Arrived, NoInput, NoText, NoReply, Plain,
       NoRow, NoRest, MaybeRequest, Replies, Utterances, Sessions, Locations, WorkSteps

\* A request that returns, or fails, keeps the types of what respond owns.
LEMMA FinishType ==
    ASSUME NEW r \in Requests, NEW answer \in Replies, TypeInv, Finish(r, answer),
           pc[r] # "idle", UNCHANGED app
    PROVE  /\ pc' \in [Requests -> Locations]
           /\ carry' \in [Requests -> [req : MaybeRequest, from : 0..MaxParts]]
           /\ reply' \in [Requests -> Replies]
           /\ CarryNamesAnswer'
           /\ Arrived'
    BY Constants DEF TypeInv, TypeOK, CarryNamesAnswer, Arrived, Finish, Goto, NoText,
       MaybeRequest, Locations

LEMMA PlainType ==
    \A kind \in {"turnedAway", "askAgain", "greeting", "busy", "stillThinking", "error"} :
        Plain(kind) \in Replies
    BY Constants DEF Plain, Replies, MaybeRequest

LEMMA SpokenType ==
    ASSUME NEW r \in Requests, TypeOK
    PROVE  Spoken(carry[r]) \in Replies
    BY DEF Spoken, TypeOK, Replies

LEMMA NextTypeInv == TypeInv /\ [Next]_vars => TypeInv'
<1> SUFFICES ASSUME TypeInv, [Next]_vars PROVE TypeInv'
    OBVIOUS
<1> USE Constants DEF TypeInv, TypeOK
<1>1. ASSUME NEW r \in Requests, NEW a \in Apps, NEW i \in Inputs, Arrive(r, a, i)
      PROVE  TypeInv'
    BY <1>1 DEF CarryNamesAnswer, Arrived, Arrive, Goto, Locations, taskVars, storeVars
<1>2. ASSUME NEW r \in Requests, NEW o \in StoreOutcomes, Resolve(r, o)
      PROVE  TypeInv'
  <2>1. CASE Fail(r) /\ UNCHANGED tid
      BY <1>2, <2>1, FinishType, PlainType DEF Resolve, Fail, inputVars, storeVars
  <2>2. CASE Finish(r, Plain("turnedAway")) /\ UNCHANGED tid
      BY <1>2, <2>2, FinishType, PlainType DEF Resolve, inputVars, storeVars
  <2>3. CASE /\ House(r) # None
             /\ Goto(r, "take")
             /\ tid' = [tid EXCEPT ![r] = thread[House(r)]]
             /\ UNCHANGED <<carry, reply>>
      BY <1>2, <2>3 DEF CarryNamesAnswer, Arrived, Resolve, Goto, Locations, MaybeRequest, House,
         inputVars, storeVars
  <2> QED BY <1>2, <2>1, <2>2, <2>3 DEF Resolve
<1>3. ASSUME NEW r \in Requests, NEW o \in StoreOutcomes, Take(r, o)
      PROVE  TypeInv'
  <2>1. continuation' \in [Apps -> [req : MaybeRequest, from : 0..MaxParts,
                                    age : {"live", "expired"}]]
      BY <1>3 DEF Take, Stored, TakeContinuation, NoRest, MaybeRequest
  <2>2. UNCHANGED <<inputVars, taskVars, thread, pending>> /\ pc[r] = "take" /\ app[r] \in Apps
      BY <1>3 DEF Take, Arrived
  <2>3. CASE Fail(r)
      BY <2>1, <2>2, <2>3, FinishType, PlainType DEF Fail, inputVars, taskVars
  <2>4. CASE Finish(r, [kind |-> "stopped", req |-> continuation[app[r]].req,
                        part |-> continuation[app[r]].from])
    <3>1. [kind |-> "stopped", req |-> continuation[app[r]].req,
           part |-> continuation[app[r]].from] \in Replies
        BY <2>2 DEF Replies
    <3> QED BY <2>1, <2>2, <2>4, <3>1, FinishType DEF inputVars, taskVars
  <2>5. ASSUME NEW l \in {"again", "keep"}, Goto(r, l), Deliverable(continuation[app[r]]),
               carry' = [carry EXCEPT ![r] = [req  |-> continuation[app[r]].req,
                                              from |-> continuation[app[r]].from]],
               UNCHANGED reply
        PROVE  TypeInv'
      BY <2>1, <2>2, <2>5 DEF CarryNamesAnswer, Arrived, Goto, Deliverable, Locations, MaybeRequest,
         inputVars, taskVars
  <2>6. CASE Goto(r, "poll") /\ UNCHANGED <<carry, reply>>
      BY <2>1, <2>2, <2>6 DEF CarryNamesAnswer, Arrived, Goto, Locations, inputVars, taskVars
  <2> QED BY <1>3, <2>3, <2>4, <2>5, <2>6 DEF Take, AnswerContinuation
<1>4. ASSUME NEW r \in Requests, NEW o \in StoreOutcomes, Again(r, o)
      PROVE  TypeInv'
  <2>1. continuation' \in [Apps -> [req : MaybeRequest, from : 0..MaxParts,
                                    age : {"live", "expired"}]]
      BY <1>4, RemainingType DEF Again, Stored, SaveContinuation, CarryNamesAnswer
  <2>2. CASE Finish(r, Plain("askAgain"))
      BY <1>4, <2>1, <2>2, FinishType, PlainType, SpokenType DEF Again, inputVars, taskVars
  <2>3. CASE Fail(r)
      BY <1>4, <2>1, <2>3, FinishType, PlainType DEF Again, Fail, inputVars, taskVars
  <2> QED BY <1>4, <2>2, <2>3 DEF Again
<1>5. ASSUME NEW r \in Requests, NEW o \in StoreOutcomes, Keep(r, o)
      PROVE  TypeInv'
  <2>1. continuation' \in [Apps -> [req : MaybeRequest, from : 0..MaxParts,
                                    age : {"live", "expired"}]]
      BY <1>5, RemainingType DEF Keep, Stored, SaveContinuation, CarryNamesAnswer
  <2>2. CASE Finish(r, Spoken(carry[r]))
      BY <1>5, <2>1, <2>2, FinishType, PlainType, SpokenType DEF Keep, inputVars, taskVars
  <2>3. CASE Fail(r)
      BY <1>5, <2>1, <2>3, FinishType, PlainType DEF Keep, Fail, inputVars, taskVars
  <2> QED BY <1>5, <2>2, <2>3 DEF Keep
<1>6. ASSUME NEW r \in Requests, NEW o \in StoreOutcomes, Poll(r, o)
      PROVE  TypeInv'
  <2>1. UNCHANGED <<inputVars, taskVars, storeVars>> /\ pc[r] = "poll" /\ app[r] \in Apps
      BY <1>6 DEF Poll, Arrived
  <2>2. CASE Fail(r) \/ Finish(r, Plain("stillThinking"))
      BY <2>1, <2>2, FinishType, PlainType DEF Fail, inputVars, taskVars, storeVars
  <2>3. CASE /\ Deliverable(pending[app[r]])
             /\ Goto(r, "deliver")
             /\ carry' = [carry EXCEPT ![r] = [req |-> pending[app[r]].req, from |-> 1]]
             /\ UNCHANGED reply
      BY <2>1, <2>3 DEF CarryNamesAnswer, Arrived, Goto, Deliverable, Locations, MaybeRequest,
         inputVars, taskVars, storeVars
  <2>4. CASE Goto(r, "gate") /\ UNCHANGED <<carry, reply>>
      BY <2>1, <2>4 DEF CarryNamesAnswer, Arrived, Goto, Locations, inputVars, taskVars, storeVars
  <2> QED BY <1>6, <2>2, <2>3, <2>4 DEF Poll
<1>7. ASSUME NEW r \in Requests, NEW o \in StoreOutcomes, Deliver(r, o)
      PROVE  TypeInv'
  <2>1. continuation' \in [Apps -> [req : MaybeRequest, from : 0..MaxParts,
                                    age : {"live", "expired"}]]
      BY <1>7, RemainingType DEF Deliver, Stored, SaveContinuation, CarryNamesAnswer
  <2>2. CASE Goto(r, "clear") /\ UNCHANGED <<carry, reply>>
      BY <1>7, <2>1, <2>2 DEF Deliver, CarryNamesAnswer, Arrived, Goto, Locations, inputVars, taskVars
  <2>3. CASE Fail(r)
      BY <1>7, <2>1, <2>3, FinishType, PlainType DEF Deliver, Fail, inputVars, taskVars
  <2> QED BY <1>7, <2>2, <2>3 DEF Deliver
<1>8. ASSUME NEW r \in Requests, NEW o \in StoreOutcomes, Clear(r, o)
      PROVE  TypeInv'
  <2>1. pending' \in [Apps -> [status : {"absent", "thinking", "ready"},
                               req : MaybeRequest, age : {"live", "expired"}]]
      BY <1>8 DEF Clear, Stored, ClearPending, NoRow, MaybeRequest
  <2>2. CASE Finish(r, Spoken(carry[r]))
      BY <1>8, <2>1, <2>2, FinishType, SpokenType DEF Clear, inputVars, taskVars
  <2>3. CASE Fail(r)
      BY <1>8, <2>1, <2>3, FinishType, PlainType DEF Clear, Fail, inputVars, taskVars
  <2> QED BY <1>8, <2>2, <2>3 DEF Clear
<1>9. ASSUME NEW r \in Requests, Gate(r)
      PROVE  TypeInv'
  <2>1. CASE (Finish(r, Plain("greeting")) \/ Finish(r, Plain("busy"))) /\ UNCHANGED <<work, lock>>
      BY <1>9, <2>1, FinishType, PlainType DEF Gate, inputVars, storeVars
  <2>2. CASE /\ lock' = [lock EXCEPT ![House(r)] = r]
             /\ work' = [work EXCEPT ![r] = IF tid[r] = None THEN "start" ELSE "turn"]
             /\ Goto(r, "wait")
             /\ UNCHANGED <<carry, reply>>
      BY <1>9, <2>2 DEF Gate, CarryNamesAnswer, Arrived, Goto, Locations, WorkSteps, MaybeRequest,
         inputVars, storeVars
  <2> QED BY <1>9, <2>1, <2>2 DEF Gate
<1>10. ASSUME NEW r \in Requests, Collect(r)
       PROVE  TypeInv'
  <2>1. CASE Fail(r)
      BY <1>10, <2>1, FinishType, PlainType DEF Collect, Fail, inputVars, taskVars, storeVars
  <2>2. CASE /\ Goto(r, "keep")
             /\ carry' = [carry EXCEPT ![r] = [req |-> r, from |-> 1]]
             /\ UNCHANGED reply
      BY <1>10, <2>2 DEF Collect, CarryNamesAnswer, Arrived, Goto, Locations, MaybeRequest,
         inputVars, taskVars, storeVars
  <2> QED BY <1>10, <2>1, <2>2 DEF Collect
<1>11. ASSUME NEW r \in Requests, Deadline(r)
       PROVE  TypeInv'
    BY <1>11 DEF Deadline, CarryNamesAnswer, Arrived, Goto, Locations, inputVars, taskVars, storeVars
<1>12. ASSUME NEW r \in Requests, NEW o \in StoreOutcomes, Mark(r, o)
       PROVE  TypeInv'
  <2>1. pending' \in [Apps -> [status : {"absent", "thinking", "ready"},
                               req : MaybeRequest, age : {"live", "expired"}]]
      BY <1>12 DEF Mark, Stored, MarkThinking, MaybeRequest
  <2>2. handle' \in [Requests -> {"none", "saver", "abort", "closed"}]
      BY <1>12 DEF Mark
  <2> QED BY <1>12, <2>1, <2>2, FinishType, PlainType DEF Mark, Fail, inputVars
<1>13. ASSUME NEW r \in Requests, NEW o \in RuntimeOutcomes, StartThread(r, o)
       PROVE  TypeInv'
    BY <1>13 DEF StartThread, EndWork, CarryNamesAnswer, Arrived, WorkSteps, MaybeRequest,
       inputVars, storeVars
<1>14. ASSUME NEW r \in Requests, NEW o \in StoreOutcomes, SaveThread(r, o)
       PROVE  TypeInv'
  <2>1. thread' \in [Houses -> MaybeRequest]
      BY <1>14 DEF SaveThread, Stored, MaybeRequest
  <2>2. CASE /\ work' = [work EXCEPT ![r] = "turn"]
             /\ tid'  = [tid EXCEPT ![r] = r]
             /\ UNCHANGED lock
      BY <1>14, <2>1, <2>2 DEF SaveThread, CarryNamesAnswer, Arrived, WorkSteps, MaybeRequest, inputVars
  <2>3. CASE EndWork(r, "err") /\ UNCHANGED tid
      BY <1>14, <2>1, <2>3 DEF SaveThread, EndWork, CarryNamesAnswer, Arrived, WorkSteps,
         MaybeRequest, inputVars
  <2> QED BY <1>14, <2>2, <2>3 DEF SaveThread
<1>15. ASSUME NEW r \in Requests, NEW o \in RuntimeOutcomes, Turn(r, o)
       PROVE  TypeInv'
  <2>1. parts' \in [Requests -> 0..MaxParts]
      BY <1>15 DEF Turn
  <2>2. work' \in [Requests -> WorkSteps] /\ lock' \in [Houses -> MaybeRequest]
      BY <1>15 DEF Turn, EndWork, WorkSteps, MaybeRequest
  <2> QED BY <1>15, <2>1, <2>2 DEF Turn, CarryNamesAnswer, Arrived, inputVars, storeVars
<1>16. ASSUME NEW r \in Requests, Cancelled(r)
       PROVE  TypeInv'
    BY <1>16 DEF Cancelled, EndWork, CarryNamesAnswer, Arrived, WorkSteps, MaybeRequest,
       inputVars, storeVars
<1>17. ASSUME NEW r \in Requests, NEW o \in StoreOutcomes, Saver(r, o)
       PROVE  TypeInv'
  <2>1. pending' \in [Apps -> [status : {"absent", "thinking", "ready"},
                               req : MaybeRequest, age : {"live", "expired"}]]
    <3>1. CASE pending' = Stored(o, pending, SaveReady(app[r], r))
        BY <3>1 DEF Stored, SaveReady, MaybeRequest
    <3>2. CASE pending' = Stored(o, pending, ClearPending(app[r]))
        BY <3>2 DEF Stored, ClearPending, NoRow, MaybeRequest
    <3> QED BY <1>17, <3>1, <3>2 DEF Saver
  <2> QED BY <1>17, <2>1 DEF Saver, CarryNamesAnswer, Arrived, inputVars
<1>18. ASSUME NEW a \in Apps, ExpirePending(a) \/ ExpireContinuation(a)
       PROVE  TypeInv'
  <2>1. CASE ExpirePending(a)
      BY <2>1 DEF ExpirePending, CarryNamesAnswer, Arrived, inputVars, taskVars
  <2>2. CASE ExpireContinuation(a)
      BY <2>2 DEF ExpireContinuation, CarryNamesAnswer, Arrived, inputVars, taskVars
  <2> QED BY <1>18, <2>1, <2>2
<1>19. CASE Crash
    BY <1>19 DEF Crash, Active, Working, CarryNamesAnswer, Arrived, NoText, Locations, WorkSteps,
       MaybeRequest, inputVars, storeVars
<1>20. CASE UNCHANGED vars
    BY <1>20 DEF vars, CarryNamesAnswer, Arrived, inputVars, taskVars, storeVars
<1> HIDE DEF TypeInv, TypeOK
<1> QED BY <1>1, <1>2, <1>3, <1>4, <1>5, <1>6, <1>7, <1>8, <1>9, <1>10, <1>11, <1>12, <1>13,
           <1>14, <1>15, <1>16, <1>17, <1>18, <1>19, <1>20
        DEF Next, Handler, Task, Idle

\* Every reachable state of the household engine is well typed.
THEOREM TypeCorrect == Spec => []TypeOK
<1>1. TypeInv => TypeOK
    BY DEF TypeInv
<1> QED BY <1>1, InitTypeInv, NextTypeInv, PTL DEF Spec

----------------------------------------------------------------------------
(* Deferred answers and continuations stay with the surface that asked. *)

\* If q is a request at all, surface a sent it.
SentBy(q, a) == q \in Requests => pc[q] # "idle" /\ app[q] = a

\* A row kept for a surface belongs to a request of that surface.
RowsOfSurface ==
    \A a \in Apps : SentBy(pending[a].req, a) /\ SentBy(continuation[a].req, a)

\* So does the text a request carries, and what it said.
TextsOfSurface ==
    \A r \in Requests : SentBy(carry[r].req, app[r]) /\ SentBy(reply[r].req, app[r])

\* A request that has not arrived neither carries nor said anything; a task
\* belongs to a request that has arrived.
NothingBeforeArrival ==
    \A r \in Requests : pc[r] = "idle" => /\ carry[r].req \notin Requests
                                          /\ reply[r].req \notin Requests
                                          /\ work[r] = "none" /\ handle[r] = "none"

SurfaceInv == RowsOfSurface /\ TextsOfSurface /\ NothingBeforeArrival

LEMMA InitSurfaceInv == Init => SurfaceInv
    BY Constants DEF Init, SurfaceInv, RowsOfSurface, TextsOfSurface, NothingBeforeArrival, SentBy,
       NoText, NoReply, Plain, NoRow, NoRest

\* Where a step leaves app alone and moves no request back to "idle", what was
\* sent by a surface stays so.
LEMMA SentByStable ==
    ASSUME UNCHANGED app, \A q \in Requests : pc[q] # "idle" => pc'[q] # "idle"
    PROVE  \A q, a : SentBy(q, a) => SentBy(q, a)'
    BY DEF SentBy

LEMMA NextSurfaceInv == TypeInv /\ SurfaceInv /\ [Next]_vars => SurfaceInv'
<1> SUFFICES ASSUME TypeInv, SurfaceInv, [Next]_vars PROVE SurfaceInv'
    OBVIOUS
<1> USE Constants DEF SurfaceInv
<1>t. TypeOK /\ CarryNamesAnswer /\ Arrived
    BY DEF TypeInv
<1>a. ASSUME NEW r \in Requests, NEW location \in Locations \ {"idle"},
             Goto(r, location), pc[r] # "idle", UNCHANGED app
      PROVE  \A q, a : SentBy(q, a) => SentBy(q, a)'
    BY <1>a, <1>t, SentByStable DEF Goto, TypeOK
\* A step of respond that returns: the rows need only be the surface's own.
<1>b. ASSUME NEW r \in Requests, NEW answer, Finish(r, answer), pc[r] # "idle",
             UNCHANGED <<app, work>>, SentBy(answer.req, app[r]), RowsOfSurface',
             \A q \in Requests : q # r => handle'[q] = handle[q]
      PROVE  SurfaceInv'
  <2>1. \A q, a : SentBy(q, a) => SentBy(q, a)'
      BY <1>a, <1>b DEF Finish, Locations
  <2>2. TextsOfSurface'
      BY <1>b, <1>t, <2>1 DEF Finish, TextsOfSurface, SentBy, NoText, TypeOK
  <2>3. NothingBeforeArrival'
      BY <1>b, <1>t DEF Finish, Goto, NothingBeforeArrival, TypeOK
  <2> QED BY <1>b, <2>2, <2>3
\* A step of respond that goes on, with a text of its own surface or the old one.
<1>c. ASSUME NEW r \in Requests, NEW location \in Locations \ {"idle"}, Goto(r, location),
             pc[r] # "idle", UNCHANGED <<app, work, handle, reply>>, RowsOfSurface',
             \/ UNCHANGED carry
             \/ \E text : SentBy(text.req, app[r]) /\ carry' = [carry EXCEPT ![r] = text]
      PROVE  SurfaceInv'
  <2>1. \A q, a : SentBy(q, a) => SentBy(q, a)'
      BY <1>a, <1>c
  <2>2. TextsOfSurface'
    <3>1. CASE UNCHANGED carry
        BY <1>c, <2>1, <3>1 DEF TextsOfSurface
    <3>2. CASE \E text : SentBy(text.req, app[r]) /\ carry' = [carry EXCEPT ![r] = text]
      <4>1. PICK text : SentBy(text.req, app[r]) /\ carry' = [carry EXCEPT ![r] = text]
          BY <3>2
      <4>2. \A q \in Requests : carry'[q] = IF q = r THEN text ELSE carry[q]
          BY <4>1, <1>t DEF TypeOK
      <4> QED BY <1>c, <2>1, <4>1, <4>2 DEF TextsOfSurface
    <3> QED BY <1>c, <3>1, <3>2
  <2>3. NothingBeforeArrival'
      BY <1>c, <1>t DEF Goto, NothingBeforeArrival, TypeOK
  <2> QED BY <1>c, <2>2, <2>3
\* A step of a task: respond and the inputs are left alone.
<1>d. ASSUME NEW r \in Requests, pc[r] # "idle", UNCHANGED <<pc, app, carry, reply>>,
             RowsOfSurface',
             \A q \in Requests : q # r => work'[q] = work[q] /\ handle'[q] = handle[q]
      PROVE  SurfaceInv'
    BY <1>d DEF TextsOfSurface, NothingBeforeArrival, SentBy
<1>p. ASSUME NEW kind PROVE \A a : SentBy(Plain(kind).req, a)
    BY DEF SentBy, Plain
<1>1. ASSUME NEW r \in Requests, NEW a \in Apps, NEW i \in Inputs, Arrive(r, a, i)
      PROVE  SurfaceInv'
  <2>1. \A q \in Requests : pc[q] # "idle" => pc'[q] # "idle" /\ app'[q] = app[q]
      BY <1>1, <1>t DEF Arrive, Goto, TypeOK
  <2>2. RowsOfSurface'
      BY <1>1, <2>1 DEF Arrive, RowsOfSurface, SentBy, storeVars
  <2>3. TextsOfSurface'
      BY <1>1, <1>t, <2>1 DEF Arrive, TextsOfSurface, NothingBeforeArrival, SentBy, TypeOK
  <2>4. NothingBeforeArrival'
      BY <1>1, <1>t DEF Arrive, Goto, NothingBeforeArrival, taskVars, TypeOK
  <2> QED BY <2>2, <2>3, <2>4
<1>2. ASSUME NEW r \in Requests, NEW o \in StoreOutcomes, Resolve(r, o)
      PROVE  SurfaceInv'
  <2>1. \A q, a : SentBy(q, a) => SentBy(q, a)'
      BY <1>2, <1>a DEF Resolve, Finish, Fail, Locations, inputVars
  <2>2. RowsOfSurface'
      BY <1>2, <2>1 DEF Resolve, RowsOfSurface, storeVars
  <2>3. CASE Finish(r, Plain("error")) \/ Finish(r, Plain("turnedAway"))
      BY <1>2, <2>2, <2>3, <1>b, <1>p DEF Resolve, inputVars
  <2>4. CASE Goto(r, "take") /\ UNCHANGED <<carry, reply>>
      BY <1>2, <1>t, <2>1, <2>2, <2>4 DEF Resolve, TextsOfSurface, NothingBeforeArrival, Goto,
         inputVars, SentBy, TypeOK
  <2> QED BY <1>2, <2>3, <2>4 DEF Resolve, Fail
<1>3. ASSUME NEW r \in Requests, NEW o \in StoreOutcomes, Take(r, o)
      PROVE  SurfaceInv'
  <2>1. app[r] \in Apps /\ pc[r] = "take" /\ UNCHANGED <<app, work, handle, pending>>
      BY <1>3, <1>t DEF Take, Arrived, inputVars, taskVars
  <2>2. SentBy(continuation[app[r]].req, app[r])
      BY <2>1 DEF RowsOfSurface
  <2>3. \A q, a : SentBy(q, a) => SentBy(q, a)'
      BY <1>3, <1>a, <2>1 DEF Take, AnswerContinuation, Finish, Fail, Locations
  <2>4. RowsOfSurface'
      BY <1>3, <1>t, <2>1, <2>3 DEF Take, Stored, TakeContinuation, RowsOfSurface, SentBy, NoRest, TypeOK
  <2>5. CASE Fail(r)
      BY <2>1, <2>4, <2>5, <1>b, <1>p DEF Fail
  <2>6. CASE Finish(r, [kind |-> "stopped", req |-> continuation[app[r]].req,
                        part |-> continuation[app[r]].from])
      BY <2>1, <2>2, <2>4, <2>6, <1>b
  <2>7. ASSUME NEW l \in {"again", "keep"}, Goto(r, l), UNCHANGED reply,
               carry' = [carry EXCEPT ![r] = [req  |-> continuation[app[r]].req,
                                              from |-> continuation[app[r]].from]]
        PROVE  SurfaceInv'
      BY <2>1, <2>2, <2>4, <2>7, <1>c DEF Locations
  <2>8. CASE Goto(r, "poll") /\ UNCHANGED <<carry, reply>>
      BY <2>1, <2>4, <2>8, <1>c DEF Locations
  <2> QED BY <1>3, <2>5, <2>6, <2>7, <2>8 DEF Take, AnswerContinuation
<1>4. ASSUME NEW r \in Requests, NEW o \in StoreOutcomes, Again(r, o)
      PROVE  SurfaceInv'
  <2>1. app[r] \in Apps /\ pc[r] # "idle" /\ UNCHANGED <<app, work, handle, pending>>
      BY <1>4, <1>t DEF Again, Arrived, inputVars, taskVars
  <2>2. SentBy(carry[r].req, app[r])
      BY DEF TextsOfSurface
  <2>3. \A q, a : SentBy(q, a) => SentBy(q, a)'
      BY <1>4, <1>a, <2>1 DEF Again, Finish, Fail, Locations
  <2>4. RowsOfSurface'
      BY <1>4, <1>t, <2>1, <2>2, <2>3 DEF Again, Stored, SaveContinuation, RowsOfSurface, SentBy,
         NoRest, TypeOK
  <2>5. SentBy((Plain("askAgain")).req, app[r])
      BY <2>2 DEF Spoken, Plain, SentBy
  <2>6. CASE Finish(r, Plain("askAgain"))
      BY <2>1, <2>4, <2>5, <2>6, <1>b
  <2>7. CASE Fail(r)
      BY <2>1, <2>4, <2>7, <1>b, <1>p DEF Fail
  <2> QED BY <1>4, <2>6, <2>7 DEF Again
<1>5. ASSUME NEW r \in Requests, NEW o \in StoreOutcomes, Keep(r, o)
      PROVE  SurfaceInv'
  <2>1. app[r] \in Apps /\ pc[r] # "idle" /\ UNCHANGED <<app, work, handle, pending>>
      BY <1>5, <1>t DEF Keep, Arrived, inputVars, taskVars
  <2>2. SentBy(carry[r].req, app[r])
      BY DEF TextsOfSurface
  <2>3. \A q, a : SentBy(q, a) => SentBy(q, a)'
      BY <1>5, <1>a, <2>1 DEF Keep, Finish, Fail, Locations
  <2>4. RowsOfSurface'
      BY <1>5, <1>t, <2>1, <2>2, <2>3 DEF Keep, Stored, SaveContinuation, Remaining, RowsOfSurface, SentBy,
         NoRest, TypeOK
  <2>5. SentBy((Spoken(carry[r])).req, app[r])
      BY <2>2 DEF Spoken, Plain, SentBy
  <2>6. CASE Finish(r, Spoken(carry[r]))
      BY <2>1, <2>4, <2>5, <2>6, <1>b
  <2>7. CASE Fail(r)
      BY <2>1, <2>4, <2>7, <1>b, <1>p DEF Fail
  <2> QED BY <1>5, <2>6, <2>7 DEF Keep
<1>6. ASSUME NEW r \in Requests, NEW o \in StoreOutcomes, Poll(r, o)
      PROVE  SurfaceInv'
  <2>1. app[r] \in Apps /\ pc[r] = "poll" /\ UNCHANGED <<app, work, handle, pending, continuation>>
      BY <1>6, <1>t DEF Poll, Arrived, inputVars, taskVars, storeVars
  <2>2. SentBy(pending[app[r]].req, app[r])
      BY <2>1 DEF RowsOfSurface
  <2>3. \A q, a : SentBy(q, a) => SentBy(q, a)'
      BY <1>6, <1>a, <2>1 DEF Poll, Finish, Fail, Locations
  <2>4. RowsOfSurface'
      BY <2>1, <2>3 DEF RowsOfSurface
  <2>5. CASE Finish(r, Plain("error")) \/ Finish(r, Plain("stillThinking"))
      BY <2>1, <2>4, <2>5, <1>b, <1>p
  <2>6. CASE /\ Goto(r, "deliver")
             /\ carry' = [carry EXCEPT ![r] = [req |-> pending[app[r]].req, from |-> 1]]
             /\ UNCHANGED reply
      BY <2>1, <2>2, <2>4, <2>6, <1>c DEF Locations
  <2>7. CASE Goto(r, "gate") /\ UNCHANGED <<carry, reply>>
      BY <2>1, <2>4, <2>7, <1>c DEF Locations
  <2> QED BY <1>6, <2>5, <2>6, <2>7 DEF Poll, Fail
<1>7. ASSUME NEW r \in Requests, NEW o \in StoreOutcomes, Deliver(r, o)
      PROVE  SurfaceInv'
  <2>1. app[r] \in Apps /\ pc[r] = "deliver" /\ UNCHANGED <<app, work, handle, pending>>
      BY <1>7, <1>t DEF Deliver, Arrived, inputVars, taskVars
  <2>2. SentBy(carry[r].req, app[r])
      BY DEF TextsOfSurface
  <2>3. \A q, a : SentBy(q, a) => SentBy(q, a)'
      BY <1>7, <1>a, <2>1 DEF Deliver, Finish, Fail, Locations
  <2>4. RowsOfSurface'
      BY <1>7, <1>t, <2>1, <2>2, <2>3 DEF Deliver, Stored, SaveContinuation, Remaining, RowsOfSurface,
         SentBy, NoRest, TypeOK
  <2>5. CASE Goto(r, "clear") /\ UNCHANGED <<carry, reply>>
      BY <2>1, <2>4, <2>5, <1>c DEF Locations
  <2>6. CASE Fail(r)
      BY <2>1, <2>4, <2>6, <1>b, <1>p DEF Fail
  <2> QED BY <1>7, <2>5, <2>6 DEF Deliver
<1>8. ASSUME NEW r \in Requests, NEW o \in StoreOutcomes, Clear(r, o)
      PROVE  SurfaceInv'
  <2>1. app[r] \in Apps /\ pc[r] = "clear" /\ UNCHANGED <<app, work, handle, continuation>>
      BY <1>8, <1>t DEF Clear, Arrived, inputVars, taskVars
  <2>2. SentBy(Spoken(carry[r]).req, app[r])
      BY DEF TextsOfSurface, Spoken
  <2>3. \A q, a : SentBy(q, a) => SentBy(q, a)'
      BY <1>8, <1>a, <2>1 DEF Clear, Finish, Fail, Locations
  <2>4. RowsOfSurface'
      BY <1>8, <1>t, <2>1, <2>3 DEF Clear, Stored, ClearPending, RowsOfSurface, SentBy, NoRow, TypeOK
  <2>5. CASE Finish(r, Spoken(carry[r]))
      BY <2>1, <2>2, <2>4, <2>5, <1>b
  <2>6. CASE Fail(r)
      BY <2>1, <2>4, <2>6, <1>b, <1>p DEF Fail
  <2> QED BY <1>8, <2>5, <2>6 DEF Clear
<1>9. ASSUME NEW r \in Requests, Gate(r)
      PROVE  SurfaceInv'
  <2>1. pc[r] = "gate" /\ UNCHANGED <<app, handle, pending, continuation>>
      BY <1>9 DEF Gate, inputVars, storeVars
  <2>2. \A q, a : SentBy(q, a) => SentBy(q, a)'
      BY <1>9, <1>a, <2>1 DEF Gate, Finish, Locations
  <2>3. RowsOfSurface'
      BY <2>1, <2>2 DEF RowsOfSurface
  <2>4. CASE (Finish(r, Plain("greeting")) \/ Finish(r, Plain("busy"))) /\ UNCHANGED work
      BY <2>1, <2>3, <2>4, <1>b, <1>p
  <2>5. CASE /\ work' = [work EXCEPT ![r] = IF tid[r] = None THEN "start" ELSE "turn"]
             /\ Goto(r, "wait")
             /\ UNCHANGED <<carry, reply>>
    <3>1. TextsOfSurface'
        BY <2>1, <2>2, <2>5 DEF TextsOfSurface
    <3>2. NothingBeforeArrival'
        BY <1>t, <2>1, <2>5 DEF NothingBeforeArrival, Goto, TypeOK
    <3> QED BY <2>3, <3>1, <3>2
  <2> QED BY <1>9, <2>4, <2>5 DEF Gate
<1>10. ASSUME NEW r \in Requests, Collect(r)
       PROVE  SurfaceInv'
  <2>1. pc[r] = "wait" /\ UNCHANGED <<app, work, handle, pending, continuation>>
      BY <1>10 DEF Collect, inputVars, taskVars, storeVars
  <2>2. \A q, a : SentBy(q, a) => SentBy(q, a)'
      BY <1>10, <1>a, <2>1 DEF Collect, Finish, Fail, Locations
  <2>3. RowsOfSurface'
      BY <2>1, <2>2 DEF RowsOfSurface
  <2>4. CASE Fail(r)
      BY <2>1, <2>3, <2>4, <1>b, <1>p DEF Fail
  <2>5. CASE /\ Goto(r, "keep")
             /\ carry' = [carry EXCEPT ![r] = [req |-> r, from |-> 1]]
             /\ UNCHANGED reply
    <3>1. SentBy([req |-> r, from |-> 1].req, app[r])
        BY <2>1 DEF SentBy
    <3> QED BY <2>1, <2>3, <2>5, <3>1, <1>c DEF Locations
  <2> QED BY <1>10, <2>4, <2>5 DEF Collect
<1>11. ASSUME NEW r \in Requests, Deadline(r)
       PROVE  SurfaceInv'
  <2>1. /\ pc[r] = "wait" /\ Goto(r, "mark")
        /\ UNCHANGED <<carry, reply, app, work, handle, pending, continuation>>
      BY <1>11 DEF Deadline, inputVars, taskVars, storeVars
  <2>2. RowsOfSurface'
      BY <1>a, <2>1 DEF RowsOfSurface, Locations
  <2> QED BY <2>1, <2>2, <1>c DEF Locations
<1>12. ASSUME NEW r \in Requests, NEW o \in StoreOutcomes, Mark(r, o)
       PROVE  SurfaceInv'
  <2>1. app[r] \in Apps /\ pc[r] = "mark" /\ UNCHANGED <<app, work, continuation>>
      BY <1>12, <1>t DEF Mark, Arrived, inputVars
  <2>2. \A q, a : SentBy(q, a) => SentBy(q, a)'
      BY <1>12, <1>a, <2>1 DEF Mark, Finish, Fail, Locations
  <2>3. SentBy(r, app[r])'
      BY <2>1, <2>2 DEF SentBy
  <2>4. RowsOfSurface'
      BY <1>12, <1>t, <2>1, <2>2, <2>3 DEF Mark, Stored, MarkThinking, RowsOfSurface, TypeOK
  <2>5. \A q \in Requests : q # r => handle'[q] = handle[q]
      BY <1>12, <1>t DEF Mark, TypeOK
  <2> QED BY <1>12, <2>1, <2>4, <2>5, <1>b, <1>p DEF Mark, Fail
<1>13. ASSUME NEW r \in Requests,
              \/ \E o \in RuntimeOutcomes : StartThread(r, o) \/ Turn(r, o)
              \/ \E o \in StoreOutcomes : SaveThread(r, o)
              \/ Cancelled(r)
       PROVE  SurfaceInv'
  <2>1. /\ UNCHANGED <<pc, app, carry, reply, handle, pending, continuation>>
        /\ work[r] # "none"
        /\ \A q \in Requests : q # r => work'[q] = work[q]
      BY <1>13, <1>t DEF StartThread, Turn, SaveThread, Cancelled, Working, EndWork, inputVars, storeVars,
         TypeOK
  <2>2. RowsOfSurface'
      BY <2>1 DEF RowsOfSurface, SentBy
  <2>3. pc[r] # "idle"
      BY <2>1 DEF NothingBeforeArrival
  <2> QED BY <2>1, <2>2, <2>3, <1>d
<1>14. ASSUME NEW r \in Requests, NEW o \in StoreOutcomes, Saver(r, o)
       PROVE  SurfaceInv'
  <2>1. /\ UNCHANGED <<pc, app, carry, reply, work, continuation>>
        /\ pc[r] # "idle"
        /\ \A q \in Requests : q # r => handle'[q] = handle[q]
      BY <1>14, <1>t DEF Saver, NothingBeforeArrival, inputVars, TypeOK
  <2>2. RowsOfSurface'
    <3>1. CASE pending' = Stored(o, pending, SaveReady(app[r], r))
        BY <1>t, <2>1, <3>1 DEF Stored, SaveReady, RowsOfSurface, SentBy, TypeOK
    <3>2. CASE pending' = Stored(o, pending, ClearPending(app[r]))
        BY <1>t, <2>1, <3>2 DEF Stored, ClearPending, NoRow, RowsOfSurface, SentBy, TypeOK
    <3> QED BY <1>14, <3>1, <3>2 DEF Saver
  <2> QED BY <2>1, <2>2, <1>d
<1>15. ASSUME NEW a \in Apps, ExpirePending(a) \/ ExpireContinuation(a)
       PROVE  SurfaceInv'
  <2>1. /\ UNCHANGED <<pc, app, carry, reply, work, handle>>
        /\ \A b \in Apps : /\ pending'[b].req = pending[b].req
                           /\ continuation'[b].req = continuation[b].req
    <3>1. CASE ExpirePending(a)
        BY <1>t, <3>1 DEF ExpirePending, inputVars, taskVars, TypeOK
    <3>2. CASE ExpireContinuation(a)
        BY <1>t, <3>2 DEF ExpireContinuation, inputVars, taskVars, TypeOK
    <3> QED BY <1>15, <3>1, <3>2
  <2> QED BY <2>1 DEF RowsOfSurface, TextsOfSurface, NothingBeforeArrival, SentBy
<1>16. CASE Crash
  <2>1. \A q, a : SentBy(q, a) => SentBy(q, a)'
      BY <1>16, SentByStable DEF Crash, Active, inputVars
  <2>2. RowsOfSurface' /\ TextsOfSurface'
      BY <1>16, <2>1 DEF Crash, RowsOfSurface, TextsOfSurface, SentBy, NoText, inputVars, storeVars
  <2>3. NothingBeforeArrival'
      BY <1>16 DEF Crash, Active, Working, NothingBeforeArrival, NoText
  <2> QED BY <2>2, <2>3
<1>17. CASE UNCHANGED vars
    BY <1>17 DEF vars, RowsOfSurface, TextsOfSurface, NothingBeforeArrival, SentBy, inputVars, taskVars,
       storeVars
<1> HIDE DEF SurfaceInv
<1> QED BY <1>1, <1>2, <1>3, <1>4, <1>5, <1>6, <1>7, <1>8, <1>9, <1>10, <1>11, <1>12, <1>13,
           <1>14, <1>15, <1>16, <1>17
        DEF Next, Handler, Task, Idle

\* A chunk of an answer is spoken or declined only on the surface that asked,
\* for any number of surfaces and houses and whatever fails.
THEOREM SurfaceIsolation == Spec => []OnlyInitiatingSurface
<1>1. TypeInv /\ SurfaceInv => OnlyInitiatingSurface
    BY DEF TypeInv, TypeOK, SurfaceInv, TextsOfSurface, SentBy, OnlyInitiatingSurface, Replies,
       MaybeRequest
<1>2. Init => TypeInv /\ SurfaceInv
    BY InitTypeInv, InitSurfaceInv
<1>3. (TypeInv /\ SurfaceInv) /\ [Next]_vars => (TypeInv /\ SurfaceInv)'
    BY NextTypeInv, NextSurfaceInv
<1> QED BY <1>1, <1>2, <1>3, PTL DEF Spec

----------------------------------------------------------------------------
(* One conversation and one working task per house. *)

\* A request past resolve_surface, and its work, belong to a house.
HouseKnown ==
    \A r \in Requests :
        pc[r] \in {"take", "again", "poll", "gate", "wait", "keep", "deliver", "clear", "mark"}
        \/ work[r] # "none" => app[r] \in Apps /\ House(r) \in Houses

\* The copy of the thread id a request made stays equal to the house row.
ThreadKnown ==
    \A r \in Requests :
        tid[r] # None => /\ app[r] \in Apps /\ House(r) \in Houses
                         /\ tid[r] = thread[House(r)]

\* Turns and answers need a thread.
TurnHasThread ==
    \A r \in Requests : work[r] = "turn" \/ parts[r] > 0 => tid[r] # None

\* Before its house row was read, a request knows no thread and has no work.
FreshUntilResolved ==
    \A r \in Requests :
        pc[r] \in {"idle", "resolve"} => work[r] = "none" /\ parts[r] = 0 /\ tid[r] = None

\* Working tasks hold the lock of their house.
LockHeld == \A r \in Requests : Working(r) => lock[House(r)] = r

HouseInv == HouseKnown /\ ThreadKnown /\ TurnHasThread /\ FreshUntilResolved /\ LockHeld

LEMMA InitHouseInv == Init => HouseInv
    BY Constants DEF Init, HouseInv, HouseKnown, ThreadKnown, TurnHasThread, FreshUntilResolved,
       LockHeld, Working

LEMMA NextHouseInv == TypeInv /\ HouseInv /\ [Next]_vars => HouseInv'
<1> SUFFICES ASSUME TypeInv, HouseInv, [Next]_vars PROVE HouseInv'
    OBVIOUS
<1> USE Constants DEF HouseInv
<1>t. TypeOK /\ CarryNamesAnswer /\ Arrived
    BY DEF TypeInv
\* A step of respond past resolve_surface that leaves tasks and threads alone.
<1>a. ASSUME NEW r \in Requests, NEW location \in Locations \ {"idle", "resolve"},
             Goto(r, location),
             pc[r] \in {"take", "again", "poll", "gate", "wait", "keep", "deliver", "clear", "mark"},
             UNCHANGED <<app, work, tid, parts, lock, thread>>
      PROVE  HouseInv'
    BY <1>a, <1>t DEF HouseKnown, ThreadKnown, TurnHasThread, FreshUntilResolved, LockHeld, Working,
       House, Goto, TypeOK
\* A task that ends: no other task of the house depends on the lock.
<1>b. ASSUME NEW r \in Requests, NEW how \in {"ok", "err"}, Working(r), EndWork(r, how),
             UNCHANGED <<pc, app, tid, thread>>,
             work[r] = "turn" \/ UNCHANGED parts,
             \A q \in Requests : q # r => parts'[q] = parts[q]
      PROVE  HouseInv'
  <2>1. \A q \in Requests : q # r /\ Working(q) => House(q) # House(r)
      BY <1>b DEF LockHeld
  <2>2. LockHeld'
      BY <1>b, <1>t, <2>1 DEF LockHeld, EndWork, Working, House, TypeOK, MaybeRequest
  <2>3. HouseKnown' /\ ThreadKnown'
      BY <1>b, <1>t DEF HouseKnown, ThreadKnown, EndWork, Working, House, TypeOK
  <2>4. TurnHasThread' /\ FreshUntilResolved'
      BY <1>b, <1>t DEF TurnHasThread, FreshUntilResolved, EndWork, Working, TypeOK
  <2> QED BY <2>2, <2>3, <2>4
<1>1. ASSUME NEW r \in Requests, NEW a \in Apps, NEW i \in Inputs, Arrive(r, a, i)
      PROVE  HouseInv'
    BY <1>1, <1>t DEF Arrive, Goto, HouseKnown, ThreadKnown, TurnHasThread, FreshUntilResolved,
       LockHeld, Working, House, taskVars, storeVars, TypeOK
<1>2. ASSUME NEW r \in Requests, NEW o \in StoreOutcomes, Resolve(r, o)
      PROVE  HouseInv'
  <2>1. /\ pc[r] = "resolve" /\ app[r] \in Apps
        /\ UNCHANGED <<app, work, parts, lock, thread>>
      BY <1>2, <1>t DEF Resolve, Arrived, inputVars, storeVars
  <2>2. CASE Goto(r, "done") /\ UNCHANGED tid
      BY <1>t, <2>1, <2>2 DEF Goto, HouseKnown, ThreadKnown, TurnHasThread, FreshUntilResolved,
         LockHeld, Working, House, TypeOK
  <2>3. CASE /\ House(r) # None
             /\ Goto(r, "take")
             /\ tid' = [tid EXCEPT ![r] = thread[House(r)]]
      BY <1>t, <2>1, <2>3 DEF Goto, HouseKnown, ThreadKnown, TurnHasThread, FreshUntilResolved,
         LockHeld, Working, House, TypeOK
  <2> QED BY <1>2, <2>2, <2>3 DEF Resolve, Finish, Fail
<1>3. ASSUME NEW r \in Requests, NEW o \in StoreOutcomes,
             \/ Take(r, o) \/ Again(r, o) \/ Keep(r, o) \/ Poll(r, o)
             \/ Deliver(r, o) \/ Clear(r, o) \/ Mark(r, o)
      PROVE  HouseInv'
  <2>1. CASE Take(r, o)
      BY <2>1, <1>a DEF Take, AnswerContinuation, Finish, Fail, Locations, inputVars, taskVars
  <2>2. CASE Again(r, o) \/ Keep(r, o) \/ Clear(r, o)
      BY <2>2, <1>a DEF Again, Keep, Clear, Finish, Fail, Locations, inputVars, taskVars
  <2>3. CASE Poll(r, o)
      BY <2>3, <1>a DEF Poll, Finish, Fail, Locations, inputVars, taskVars, storeVars
  <2>4. CASE Deliver(r, o)
      BY <2>4, <1>a DEF Deliver, Finish, Fail, Locations, inputVars, taskVars
  <2>5. CASE Mark(r, o)
      BY <2>5, <1>a DEF Mark, Finish, Fail, Locations, inputVars
  <2> QED BY <1>3, <2>1, <2>2, <2>3, <2>4, <2>5
<1>4. ASSUME NEW r \in Requests, Gate(r)
      PROVE  HouseInv'
  <2>1. CASE Goto(r, "done") /\ UNCHANGED <<work, lock>>
      BY <1>4, <2>1, <1>a DEF Gate, Locations, inputVars, storeVars
  <2>2. CASE /\ lock[House(r)] = None
             /\ lock' = [lock EXCEPT ![House(r)] = r]
             /\ work' = [work EXCEPT ![r] = IF tid[r] = None THEN "start" ELSE "turn"]
             /\ Goto(r, "wait")
    <3>1. /\ pc[r] = "gate" /\ app[r] \in Apps /\ House(r) \in Houses
          /\ UNCHANGED <<app, tid, parts, thread>>
        BY <1>4, <1>t DEF Gate, Arrived, HouseKnown, inputVars, storeVars
    <3>2. \A q \in Requests : Working(q) => House(q) # House(r)
        BY <2>2 DEF LockHeld
    <3>3. LockHeld'
        BY <1>t, <2>2, <3>1, <3>2 DEF LockHeld, Working, House, TypeOK
    <3>4. HouseKnown' /\ ThreadKnown' /\ FreshUntilResolved'
        BY <1>t, <2>2, <3>1 DEF HouseKnown, ThreadKnown, FreshUntilResolved, Goto, House, TypeOK
    <3>5. TurnHasThread'
        BY <1>t, <2>2, <3>1 DEF TurnHasThread, TypeOK
    <3> QED BY <3>3, <3>4, <3>5
  <2> QED BY <1>4, <2>1, <2>2 DEF Gate, Finish
<1>5. ASSUME NEW r \in Requests, Collect(r) \/ Deadline(r)
      PROVE  HouseInv'
    BY <1>5, <1>a DEF Collect, Deadline, Finish, Fail, Locations, inputVars, taskVars, storeVars
<1>6. ASSUME NEW r \in Requests, NEW o \in RuntimeOutcomes, StartThread(r, o)
      PROVE  HouseInv'
  <2>1. CASE EndWork(r, "err")
      BY <1>6, <2>1, <1>b DEF StartThread, Working, inputVars, storeVars
  <2>2. CASE work' = [work EXCEPT ![r] = "save"] /\ UNCHANGED lock
      BY <1>6, <1>t, <2>2 DEF StartThread, HouseKnown, ThreadKnown, TurnHasThread,
         FreshUntilResolved, LockHeld, Working, House, inputVars, storeVars, TypeOK
  <2> QED BY <1>6, <2>1, <2>2 DEF StartThread
<1>7. ASSUME NEW r \in Requests, NEW o \in StoreOutcomes, SaveThread(r, o)
      PROVE  HouseInv'
  <2>1. /\ work[r] = "save" /\ app[r] \in Apps /\ House(r) \in Houses
        /\ UNCHANGED <<pc, app, parts>>
      BY <1>7 DEF SaveThread, HouseKnown, inputVars
  \* No request holds a different thread of this house: the row would name it.
  <2>2. \A q \in Requests : tid[q] # None => thread'[House(q)] = tid[q]
      BY <1>7, <1>t, <2>1 DEF SaveThread, Stored, MaySaveThread, ThreadKnown, TypeOK
  <2>3. CASE /\ o = "ok" /\ MaySaveThread(House(r), r)
             /\ work' = [work EXCEPT ![r] = "turn"]
             /\ tid'  = [tid EXCEPT ![r] = r]
             /\ UNCHANGED lock
    <3>1. thread'[House(r)] = r
        BY <1>7, <1>t, <2>1, <2>3 DEF SaveThread, Stored, TypeOK
    <3>2. ThreadKnown'
        BY <1>t, <2>1, <2>2, <2>3, <3>1 DEF ThreadKnown, House, TypeOK
    <3>3. HouseKnown' /\ TurnHasThread' /\ FreshUntilResolved' /\ LockHeld'
        BY <1>t, <2>1, <2>3 DEF HouseKnown, TurnHasThread, FreshUntilResolved, LockHeld, Working,
           House, TypeOK
    <3> QED BY <3>2, <3>3
  <2>4. CASE EndWork(r, "err") /\ UNCHANGED tid
    <3>1. \A q \in Requests : q # r /\ Working(q) => House(q) # House(r)
        BY <2>1 DEF LockHeld, Working
    <3>2. LockHeld'
        BY <1>t, <2>1, <2>4, <3>1 DEF LockHeld, EndWork, Working, House, TypeOK
    <3>3. ThreadKnown'
        BY <2>1, <2>2, <2>4 DEF ThreadKnown, House
    <3>4. HouseKnown' /\ TurnHasThread' /\ FreshUntilResolved'
        BY <1>t, <2>1, <2>4 DEF HouseKnown, TurnHasThread, FreshUntilResolved, EndWork, House, TypeOK
    <3> QED BY <3>2, <3>3, <3>4
  <2> QED BY <1>7, <2>3, <2>4 DEF SaveThread
<1>8. ASSUME NEW r \in Requests, NEW o \in RuntimeOutcomes, Turn(r, o)
      PROVE  HouseInv'
  <2>1. \A q \in Requests : q # r => parts'[q] = parts[q]
      BY <1>8, <1>t DEF Turn, TypeOK
  <2> QED BY <1>8, <2>1, <1>b DEF Turn, Working, inputVars, storeVars
<1>9. ASSUME NEW r \in Requests, Cancelled(r)
      PROVE  HouseInv'
    BY <1>9, <1>b DEF Cancelled, inputVars, storeVars
<1>10. ASSUME NEW r \in Requests, NEW o \in StoreOutcomes, Saver(r, o)
       PROVE  HouseInv'
    BY <1>10 DEF Saver, HouseKnown, ThreadKnown, TurnHasThread, FreshUntilResolved, LockHeld,
       Working, House, inputVars
<1>11. ASSUME NEW a \in Apps, ExpirePending(a) \/ ExpireContinuation(a)
       PROVE  HouseInv'
    BY <1>11 DEF ExpirePending, ExpireContinuation, HouseKnown, ThreadKnown, TurnHasThread,
       FreshUntilResolved, LockHeld, Working, House, inputVars, taskVars
<1>12. CASE Crash
    BY <1>12 DEF Crash, Active, HouseKnown, ThreadKnown, TurnHasThread, FreshUntilResolved,
       LockHeld, Working, House, inputVars, storeVars
<1>13. CASE UNCHANGED vars
    BY <1>13 DEF vars, HouseKnown, ThreadKnown, TurnHasThread, FreshUntilResolved, LockHeld, Working,
       House, inputVars, taskVars, storeVars
<1> HIDE DEF HouseInv
<1> QED BY <1>1, <1>2, <1>3, <1>4, <1>5, <1>6, <1>7, <1>8, <1>9, <1>10, <1>11, <1>12, <1>13
        DEF Next, Handler, Task, Idle

LEMMA HouseInvariant == Spec => [](TypeInv /\ HouseInv)
<1>1. Init => TypeInv /\ HouseInv
    BY InitTypeInv, InitHouseInv
<1>2. (TypeInv /\ HouseInv) /\ [Next]_vars => (TypeInv /\ HouseInv)'
    BY NextTypeInv, NextHouseInv
<1> QED BY <1>1, <1>2, PTL DEF Spec

\* Turns and answers only on the thread of the house row: the copy respond
\* read before it took the lock is never a different thread.
THEOREM OneConversation == Spec => []TurnsOnHouseThread
<1>1. HouseInv => TurnsOnHouseThread
    BY DEF HouseInv, ThreadKnown, TurnHasThread, TurnsOnHouseThread
<1> QED BY <1>1, HouseInvariant, PTL

\* Two work tasks of one house never coexist.
THEOREM MutualExclusion == Spec => []OneWorkPerHouse
<1>1. HouseInv => OneWorkPerHouse
    BY DEF HouseInv, LockHeld, OneWorkPerHouse
<1> QED BY <1>1, HouseInvariant, PTL

----------------------------------------------------------------------------
(* The engine implements HouseChat. *)

\* A request that has not reached the house lock has no work and no answer.
NoWorkBeforeGate ==
    \A r \in Requests :
        pc[r] \in {"idle", "resolve", "take", "poll", "gate"} => work[r] = "none" /\ parts[r] = 0

LEMMA NextNoWorkBeforeGate ==
    TypeInv /\ NoWorkBeforeGate /\ [Next]_vars => NoWorkBeforeGate'
<1> SUFFICES ASSUME TypeInv, NoWorkBeforeGate, [Next]_vars PROVE NoWorkBeforeGate'
    OBVIOUS
<1>t. TypeOK
    BY DEF TypeInv
\* A step of respond towards the lock, or past it.
<1>a. ASSUME NEW r \in Requests, NEW location, Goto(r, location), UNCHANGED <<work, parts>>,
             \/ pc[r] \in {"idle", "resolve", "take", "poll", "gate"}
             \/ location \notin {"idle", "resolve", "take", "poll", "gate"}
      PROVE  NoWorkBeforeGate'
    BY <1>a, <1>t DEF NoWorkBeforeGate, Goto, TypeOK
\* A step of a task: its request is past the lock.
<1>b. ASSUME NEW r \in Requests, work[r] # "none", UNCHANGED pc,
             \A q \in Requests : q # r => work'[q] = work[q] /\ parts'[q] = parts[q]
      PROVE  NoWorkBeforeGate'
    BY <1>b DEF NoWorkBeforeGate
<1>1. ASSUME NEW r \in Requests, NEW a \in Apps, NEW i \in Inputs, Arrive(r, a, i)
      PROVE  NoWorkBeforeGate'
    BY <1>1, <1>a DEF Arrive, taskVars
<1>2. ASSUME NEW r \in Requests, NEW o \in StoreOutcomes,
             \/ Resolve(r, o) \/ Take(r, o) \/ Again(r, o) \/ Keep(r, o) \/ Poll(r, o)
             \/ Deliver(r, o) \/ Clear(r, o) \/ Mark(r, o)
      PROVE  NoWorkBeforeGate'
  <2>1. CASE Resolve(r, o) \/ Take(r, o) \/ Poll(r, o)
      BY <2>1, <1>a DEF Resolve, Take, Poll, AnswerContinuation, Finish, Fail, taskVars
  <2>2. CASE Again(r, o) \/ Keep(r, o) \/ Deliver(r, o) \/ Clear(r, o) \/ Mark(r, o)
      BY <2>2, <1>a DEF Again, Keep, Deliver, Clear, Mark, Finish, Fail, taskVars
  <2> QED BY <1>2, <2>1, <2>2
<1>3. ASSUME NEW r \in Requests, Gate(r)
      PROVE  NoWorkBeforeGate'
  <2>1. CASE Goto(r, "done") /\ UNCHANGED work
      BY <1>3, <2>1, <1>a DEF Gate
  <2>2. CASE /\ work' = [work EXCEPT ![r] = IF tid[r] = None THEN "start" ELSE "turn"]
             /\ Goto(r, "wait")
      BY <1>3, <1>t, <2>2 DEF Gate, Goto, NoWorkBeforeGate, TypeOK
  <2> QED BY <1>3, <2>1, <2>2 DEF Gate, Finish
<1>4. ASSUME NEW r \in Requests, Collect(r) \/ Deadline(r)
      PROVE  NoWorkBeforeGate'
    BY <1>4, <1>a DEF Collect, Deadline, Finish, Fail, taskVars
<1>5. ASSUME NEW r \in Requests, NEW o \in RuntimeOutcomes, StartThread(r, o) \/ Turn(r, o)
      PROVE  NoWorkBeforeGate'
    BY <1>5, <1>b, <1>t DEF StartThread, Turn, EndWork, TypeOK
<1>6. ASSUME NEW r \in Requests, NEW o \in StoreOutcomes, SaveThread(r, o) \/ Saver(r, o)
      PROVE  NoWorkBeforeGate'
    BY <1>6, <1>b, <1>t DEF SaveThread, Saver, EndWork, TypeOK
<1>7. ASSUME NEW r \in Requests, Cancelled(r)
      PROVE  NoWorkBeforeGate'
    BY <1>7, <1>b, <1>t DEF Cancelled, Working, EndWork, TypeOK
<1>8. ASSUME NEW a \in Apps, ExpirePending(a) \/ ExpireContinuation(a)
      PROVE  NoWorkBeforeGate'
    BY <1>8 DEF ExpirePending, ExpireContinuation, NoWorkBeforeGate, taskVars
<1>9. CASE Crash
    BY <1>9 DEF Crash, Active, Working, NoWorkBeforeGate
<1>10. CASE UNCHANGED vars
    BY <1>10 DEF vars, taskVars, NoWorkBeforeGate
<1> QED BY <1>1, <1>2, <1>3, <1>4, <1>5, <1>6, <1>7, <1>8, <1>9, <1>10
        DEF Next, Handler, Task, Idle

\* Every step of the engine is a step of HouseChat or leaves it alone.
LEMMA StepImplementsChat ==
    TypeInv /\ HouseInv /\ NoWorkBeforeGate /\ [Next]_vars => [Chat!Next]_(Chat!chatVars)
<1> SUFFICES ASSUME TypeInv, HouseInv, NoWorkBeforeGate, [Next]_vars
             PROVE  Chat!Next \/ UNCHANGED <<lock, thread, {r \in Requests : parts[r] > 0}>>
    BY DEF Chat!chatVars
<1> DEFINE answered == {r \in Requests : parts[r] > 0}
<1>t. TypeOK
    BY DEF TypeInv
<1>s. ASSUME UNCHANGED <<lock, thread, parts>>
      PROVE  UNCHANGED <<lock, thread, answered>>
    BY <1>s
\* The end of a task without an answer gives the house up.
<1>g. ASSUME NEW r \in Requests, Working(r), lock' = [lock EXCEPT ![House(r)] = None],
             UNCHANGED <<thread, parts>>
      PROVE  Chat!Next
  <2>1. House(r) \in Houses /\ {House(r)} \in SUBSET Houses
      BY <1>g DEF HouseInv, HouseKnown, Working
  <2>2. lock' = [h \in Houses |-> IF h \in {House(r)} THEN None ELSE lock[h]]
      BY <1>g, <1>t DEF TypeOK
  <2>3. Chat!GiveUp({House(r)})
      BY <1>g, <2>2 DEF Chat!GiveUp
  <2> QED BY <2>1, <2>3 DEF Chat!Next
<1>1. ASSUME NEW r \in Requests, Gate(r)
      PROVE  Chat!Next \/ UNCHANGED <<lock, thread, answered>>
  <2>1. CASE UNCHANGED lock
      BY <1>1, <2>1, <1>s DEF Gate, storeVars
  <2>2. CASE lock[House(r)] = None /\ lock' = [lock EXCEPT ![House(r)] = r]
    <3>1. House(r) \in Houses /\ r \notin answered
        BY <1>1, <1>t DEF Gate, HouseInv, HouseKnown, NoWorkBeforeGate, TypeOK
    <3>2. Chat!Begin(House(r), r)
        BY <1>1, <2>2, <3>1 DEF Chat!Begin, Gate, storeVars
    <3> QED BY <3>1, <3>2 DEF Chat!Next
  <2> QED BY <1>1, <2>1, <2>2 DEF Gate
<1>2. ASSUME NEW r \in Requests, NEW o \in RuntimeOutcomes, StartThread(r, o)
      PROVE  Chat!Next \/ UNCHANGED <<lock, thread, answered>>
    BY <1>2, <1>s, <1>g DEF StartThread, EndWork, Working, storeVars
<1>3. ASSUME NEW r \in Requests, NEW o \in StoreOutcomes, SaveThread(r, o)
      PROVE  Chat!Next \/ UNCHANGED <<lock, thread, answered>>
  <2>1. House(r) \in Houses /\ lock[House(r)] = r /\ Working(r) /\ UNCHANGED parts
      BY <1>3 DEF SaveThread, HouseInv, HouseKnown, LockHeld, Working
  <2>2. lock' \in {lock, [lock EXCEPT ![House(r)] = None]}
      BY <1>3 DEF SaveThread, EndWork
  <2>3. CASE UNCHANGED thread
      BY <2>1, <2>2, <2>3, <1>s, <1>g
  <2>4. CASE thread' # thread
    <3>1. thread[House(r)] = None /\ thread' = [thread EXCEPT ![House(r)] = r]
        BY <1>3, <1>t, <2>1, <2>4 DEF SaveThread, Stored, MaySaveThread, TypeOK
    <3>2. Chat!Adopt(House(r), r)
        BY <2>1, <2>2, <3>1 DEF Chat!Adopt
    <3> QED BY <2>1, <3>2 DEF Chat!Next
  <2> QED BY <2>3, <2>4
<1>4. ASSUME NEW r \in Requests, NEW o \in RuntimeOutcomes, Turn(r, o)
      PROVE  Chat!Next \/ UNCHANGED <<lock, thread, answered>>
  <2>1. /\ House(r) \in Houses /\ lock[House(r)] = r /\ Working(r) /\ thread[House(r)] # None
        /\ lock' = [lock EXCEPT ![House(r)] = None] /\ UNCHANGED thread
      BY <1>4 DEF Turn, EndWork, HouseInv, HouseKnown, LockHeld, TurnHasThread, ThreadKnown, Working,
         storeVars
  <2>2. CASE UNCHANGED parts
      BY <2>1, <2>2, <1>g
  <2>3. ASSUME NEW n \in 1..MaxParts, parts' = [parts EXCEPT ![r] = n]
        PROVE  Chat!Next
    <3>1. answered' = answered \cup {r}
        BY <1>t, <2>3, Constants DEF TypeOK
    <3>2. Chat!Answer(House(r), r)
        BY <2>1, <3>1 DEF Chat!Answer
    <3> QED BY <2>1, <3>2 DEF Chat!Next
  <2> QED BY <1>4, <2>2, <2>3 DEF Turn
<1>5. ASSUME NEW r \in Requests, Cancelled(r)
      PROVE  Chat!Next \/ UNCHANGED <<lock, thread, answered>>
    BY <1>5, <1>g DEF Cancelled, EndWork, storeVars
<1>6. CASE Crash
  <2>1. lock' = [h \in Houses |-> IF h \in Houses THEN None ELSE lock[h]]
      BY <1>6 DEF Crash
  <2>2. Chat!GiveUp(Houses)
      BY <1>6, <2>1 DEF Chat!GiveUp, Crash, storeVars
  <2> QED BY <2>2 DEF Chat!Next
<1>7. ASSUME NEW r \in Requests, NEW o \in StoreOutcomes,
             \/ Resolve(r, o) \/ Take(r, o) \/ Again(r, o) \/ Keep(r, o) \/ Poll(r, o)
             \/ Deliver(r, o) \/ Clear(r, o) \/ Mark(r, o) \/ Saver(r, o)
      PROVE  UNCHANGED <<lock, thread, answered>>
    BY <1>7, <1>s DEF Resolve, Take, Again, Keep, Poll, Deliver, Clear, Mark, Saver, taskVars, storeVars
<1>8. ASSUME NEW r \in Requests,
             \/ \E a \in Apps, i \in Inputs : Arrive(r, a, i)
             \/ Collect(r) \/ Deadline(r)
      PROVE  UNCHANGED <<lock, thread, answered>>
    BY <1>8, <1>s DEF Arrive, Collect, Deadline, taskVars, storeVars
<1>9. ASSUME NEW a \in Apps, ExpirePending(a) \/ ExpireContinuation(a)
      PROVE  UNCHANGED <<lock, thread, answered>>
    BY <1>9, <1>s DEF ExpirePending, ExpireContinuation, taskVars
<1>10. CASE UNCHANGED vars
    BY <1>10, <1>s DEF vars, taskVars, storeVars
<1> HIDE DEF answered
<1> QED BY <1>1, <1>2, <1>3, <1>4, <1>5, <1>6, <1>7, <1>8, <1>9, <1>10
        DEF Next, Handler, Task, Idle, answered

\* The engine implements HouseChat, for any number of houses, surfaces and
\* requests: one conversation per house, and in it one request at a time.
THEOREM ImplementsHouseChat == Spec => KeepsOneChat
<1>1. Init => Chat!Init
    BY Constants DEF Init, Chat!Init
<1>2. Init => NoWorkBeforeGate
    BY DEF Init, NoWorkBeforeGate
<1> QED BY <1>1, <1>2, HouseInvariant, NextNoWorkBeforeGate, StepImplementsChat, PTL
        DEF Spec, KeepsOneChat, Chat!Spec
=============================================================================
