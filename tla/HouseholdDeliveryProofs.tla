---------------------- MODULE HouseholdDeliveryProofs ----------------------
(***************************************************************************)
(* Delivery of answers by the household engine, while a surface waits for  *)
(* its reply, the store answers and the process lives: every chunk is      *)
(* spoken at most once and in order, whatever the runtime does and         *)
(* whenever rows expire; and as long as none expires no chunk is lost.     *)
(***************************************************************************)
EXTENDS HouseholdEngineProofs

Speaking == {"again", "keep", "deliver", "clear"}

\* A surface has one request under way.
Alone == \A q, r \in Requests : Active(q) /\ Active(r) /\ app[q] = app[r] => q = r

\* The answer to q has left the work task: respond collected it, or the saver
\* stored it.
Released(q) ==
    /\ work[q] = "ok"
    /\ \/ pc[q] = "keep" /\ handle[q] = "none"
       \/ pc[q] = "done" /\ handle[q] \in {"none", "closed"}

\* Of the answer to q, the chunks before n were spoken and no other.
SaidUpTo(q, n) ==
    /\ \A k \in 1 .. n - 1 : Said(q, k)
    /\ \A r \in Requests : reply[r].kind = "part" /\ reply[r].req = q => reply[r].part < n

Ready(a, q) == pending[a].status = "ready" /\ pending[a].req = q
Rest(a, q)  == continuation[a].req = q

\* The request of surface a that saved the rest of an answer, and has yet to
\* clear the pending row and to speak.
Clearing(r, a) == app[r] = a /\ pc[r] = "clear"

\* What was said agrees with what is kept ...
NothingSaidYet(q) == ~Released(q) => SaidUpTo(q, 1)
ReadyIsUnsaid(a, q) == Ready(a, q) => Released(q) /\ SaidUpTo(q, 1)
RestIsNext(a, q, n) ==
    Rest(a, q) /\ continuation[a].from = n =>
        /\ Released(q)
        /\ \/ SaidUpTo(q, n)
           \/ \E r \in Requests : Clearing(r, a) /\ carry[r].req = q /\ n = carry[r].from + 1
CarryIsNext(r, q, n) ==
    pc[r] \in Speaking /\ carry[r].req = q /\ carry[r].from = n => Released(q) /\ SaidUpTo(q, n)

\* ... and the rest of an answer is kept in one place.
OnePlace(a, q) == Ready(a, q) /\ Rest(a, q) => \E r \in Requests : Clearing(r, a)
OnlyCarried(r, a, q) ==
    app[r] = a /\ carry[r].req = q =>
        /\ pc[r] \in {"again", "keep"} => ~Ready(a, q)
        /\ pc[r] \in {"again", "keep", "deliver"} => ~Rest(a, q)
        /\ pc[r] = "clear" /\ Rest(a, q) => continuation[a].from = carry[r].from + 1

SurfaceKept(a) ==
    \A q \in Requests : ReadyIsUnsaid(a, q) /\ OnePlace(a, q) /\ \A n \in Nat : RestIsNext(a, q, n)
RequestKept(r) ==
    \A q \in Requests : /\ \A n \in Nat : CarryIsNext(r, q, n)
                        /\ \A a \in Apps : OnlyCarried(r, a, q)

Unanswered == \A r \in Requests : pc[r] # "done" => reply[r] = NoReply

\* Respond gives the work away as it returns.
HandedOver == \A r \in Requests : handle[r] # "none" => pc[r] = "done"

DeliveryInv ==
    /\ TypeInv /\ SurfaceInv /\ Alone /\ Unanswered /\ HandedOver
    /\ SaidOnce /\ ChunksInOrder
    /\ \A q \in Requests : NothingSaidYet(q)
    /\ \A a \in Apps : SurfaceKept(a)
    /\ \A r \in Requests : RequestKept(r)

LEMMA InitDeliveryInv == Init => DeliveryInv
<1> SUFFICES ASSUME Init PROVE DeliveryInv
    OBVIOUS
<1>1. TypeInv /\ SurfaceInv
    BY InitTypeInv, InitSurfaceInv
<1>2. \A r \in Requests : reply[r] = NoReply /\ reply[r].kind # "part" /\ pc[r] = "idle"
    BY DEF Init, NoReply, Plain
<1>3. SaidOnce /\ ChunksInOrder /\ Alone /\ Unanswered /\ HandedOver
    BY <1>2 DEF Init, SaidOnce, ChunksInOrder, Said, Alone, Active, Unanswered, HandedOver, NoReply, Plain
<1>4. \A q \in Requests : NothingSaidYet(q)
    BY <1>2 DEF NothingSaidYet, SaidUpTo
<1>5. \A a \in Apps : SurfaceKept(a)
    BY Constants DEF Init, SurfaceKept, ReadyIsUnsaid, OnePlace, RestIsNext, Ready, Rest, NoRow, NoRest
<1>6. \A r \in Requests : RequestKept(r)
    BY <1>2 DEF RequestKept, CarryIsNext, OnlyCarried, Speaking
<1> QED BY <1>1, <1>3, <1>4, <1>5, <1>6 DEF DeliveryInv

\* Nothing is spoken in a step.
Silence == \A r \in Requests : \/ reply'[r] = reply[r]
                               \/ reply[r].kind # "part" /\ reply'[r].kind # "part"

LEMMA SilenceKeepsSaid ==
    ASSUME Silence
    PROVE  /\ \A q, n : Said(q, n) <=> Said(q, n)'
           /\ \A q, n : SaidUpTo(q, n) <=> SaidUpTo(q, n)'
           /\ SaidOnce => SaidOnce'
           /\ ChunksInOrder => ChunksInOrder'
<1>1. \A q, n : Said(q, n) <=> Said(q, n)'
  <2> SUFFICES ASSUME NEW q, NEW n PROVE Said(q, n) <=> Said(q, n)'
      OBVIOUS
  <2>1. ASSUME NEW r \in Requests
        PROVE  reply[r] = [kind |-> "part", req |-> q, part |-> n] <=>
               reply'[r] = [kind |-> "part", req |-> q, part |-> n]
      BY DEF Silence
  <2> QED BY <2>1 DEF Said
<1>2. \A q, n : SaidUpTo(q, n) <=> SaidUpTo(q, n)'
    BY <1>1 DEF SaidUpTo, Silence
<1>3. SaidOnce => SaidOnce'
    BY DEF SaidOnce, Silence
<1>4. ChunksInOrder => ChunksInOrder'
    BY <1>1 DEF ChunksInOrder
<1> QED BY <1>1, <1>2, <1>3, <1>4

\* Respond runs for one request only.
OthersStay(r) ==
    \A q \in Requests : q # r => pc'[q] = pc[q] /\ carry'[q] = carry[q] /\ reply'[q] = reply[q]

\* A step of one request that says nothing: what it has to keep is what
\* concerns its own surface.
LEMMA SilentStep ==
    ASSUME DeliveryInv, TypeInv', SurfaceInv', HandedOver', NEW r \in Requests, NEW a \in Apps, app[r] = a,
           UNCHANGED app, OthersStay(r),
           reply'[r] = reply[r] \/ (reply[r] = NoReply /\ reply'[r].kind # "part"),
           pc'[r] # "done" => reply'[r] = NoReply,
           Active(r)' => Active(r),
           \A q \in Requests : Released(q) => Released(q)',
           \A b \in Apps : b # a => pending'[b] = pending[b] /\ continuation'[b] = continuation[b],
           Active(r) \/ \A q \in Requests : q # r /\ app[q] = a => RequestKept(q)',
           SurfaceKept(a)', RequestKept(r)'
    PROVE  DeliveryInv'
<1>1. Silence
    BY DEF OthersStay, Silence, NoReply, Plain
<1>2. SaidOnce' /\ ChunksInOrder'
    BY <1>1, SilenceKeepsSaid DEF DeliveryInv
<1>3. \A q, n : SaidUpTo(q, n) => SaidUpTo(q, n)'
    BY <1>1, SilenceKeepsSaid
<1>4. Alone' /\ Unanswered'
    BY DEF DeliveryInv, Alone, Unanswered, Active, OthersStay
<1>5. \A q \in Requests : NothingSaidYet(q)'
    BY <1>3 DEF DeliveryInv, NothingSaidYet
<1>6. ASSUME NEW b \in Apps, b # a
      PROVE  SurfaceKept(b)'
  <2>1. SurfaceKept(b) /\ pending'[b] = pending[b] /\ continuation'[b] = continuation[b]
      BY <1>6 DEF DeliveryInv
  <2>2. \A p \in Requests : Clearing(p, b) => Clearing(p, b)' /\ carry'[p] = carry[p]
      BY <1>6 DEF Clearing, OthersStay
  <2>3. ASSUME NEW q \in Requests
        PROVE  ReadyIsUnsaid(b, q)' /\ OnePlace(b, q)'
      BY <1>3, <2>1, <2>2 DEF SurfaceKept, ReadyIsUnsaid, OnePlace, Ready, Rest
  <2>4. ASSUME NEW q \in Requests, NEW n \in Nat
        PROVE  RestIsNext(b, q, n)'
      BY <1>3, <2>1, <2>2 DEF SurfaceKept, RestIsNext, Rest
  <2> QED BY <2>3, <2>4 DEF SurfaceKept
<1>7. ASSUME NEW q \in Requests, q # r
      PROVE  RequestKept(q)'
  <2>1. RequestKept(q) /\ pc'[q] = pc[q] /\ carry'[q] = carry[q]
      BY <1>7 DEF DeliveryInv, OthersStay
  <2>2. CASE app[q] = a /\ Active(r)
    <3>1. ~Active(q)
        BY <1>7, <2>2 DEF DeliveryInv, Alone
    <3> QED BY <2>1, <3>1 DEF Active, RequestKept, CarryIsNext, OnlyCarried, Speaking
  <2>3. CASE app[q] # a
    <3>1. ASSUME NEW p \in Requests, NEW n \in Nat
          PROVE  CarryIsNext(q, p, n)'
        BY <1>3, <2>1 DEF RequestKept, CarryIsNext
    <3>2. ASSUME NEW p \in Requests, NEW b \in Apps
          PROVE  OnlyCarried(q, b, p)'
        BY <2>1, <2>3 DEF RequestKept, OnlyCarried, Ready, Rest
    <3> QED BY <3>1, <3>2 DEF RequestKept
  <2> QED BY <1>7, <2>2, <2>3
<1> QED BY <1>2, <1>4, <1>5, <1>6, <1>7 DEF DeliveryInv

\* A step of respond that says nothing and leaves the rows alone.
LEMMA MoveStep ==
    ASSUME DeliveryInv, TypeInv', SurfaceInv', HandedOver', NEW r \in Requests,
           Active(r), pc[r] # "clear", UNCHANGED <<app, pending, continuation>>, OthersStay(r),
           reply'[r] = NoReply \/ (pc'[r] = "done" /\ reply'[r].kind # "part"),
           \A q \in Requests : Released(q) => Released(q)',
           RequestKept(r)'
    PROVE  DeliveryInv'
<1>1. PICK a \in Apps : app[r] = a
    BY DEF DeliveryInv, TypeInv, Arrived, Active
<1>2. reply[r] = NoReply
    BY DEF DeliveryInv, Unanswered, Active
<1>3. \A p \in Requests : ~Clearing(p, a)
    BY <1>1 DEF DeliveryInv, Alone, Active, Clearing
<1>4. Silence
    BY <1>2 DEF OthersStay, Silence, NoReply, Plain
<1>5. \A q, n : SaidUpTo(q, n) => SaidUpTo(q, n)'
    BY <1>4, SilenceKeepsSaid
<1>6. SurfaceKept(a)'
  <2>1. SurfaceKept(a)
      BY DEF DeliveryInv
  <2>2. ASSUME NEW q \in Requests
        PROVE  ReadyIsUnsaid(a, q)' /\ OnePlace(a, q)'
      BY <1>3, <1>5, <2>1 DEF SurfaceKept, ReadyIsUnsaid, OnePlace, Ready, Rest
  <2>3. ASSUME NEW q \in Requests, NEW n \in Nat
        PROVE  RestIsNext(a, q, n)'
      BY <1>3, <1>5, <2>1 DEF SurfaceKept, RestIsNext, Rest
  <2> QED BY <2>2, <2>3 DEF SurfaceKept
<1> QED BY <1>1, <1>2, <1>6, SilentStep

\* A request speaks chunk n of the answer to q.
LEMMA SpeakStep ==
    ASSUME DeliveryInv, TypeInv', SurfaceInv', HandedOver', NEW r \in Requests, NEW a \in Apps, app[r] = a,
           NEW q \in Requests, NEW n \in Nat, pc[r] \in Speaking, carry[r].req = q, carry[r].from = n,
           UNCHANGED app, OthersStay(r), pc'[r] = "done",
           reply'[r] = [kind |-> "part", req |-> q, part |-> n],
           \A p \in Requests : Released(p) => Released(p)',
           \A b \in Apps : b # a => pending'[b] = pending[b] /\ continuation'[b] = continuation[b],
           ~Ready(a, q)', \A p \in Requests : Ready(a, p)' => Ready(a, p) /\ p # q,
           \A p \in Requests : Rest(a, p)' => \/ p = q /\ continuation'[a].from = n + 1
                                              \/ p # q /\ SaidUpTo(p, continuation'[a].from),
           \A p \in Requests : Rest(a, p)' /\ Ready(a, p)' => FALSE,
           \A p \in Requests : Rest(a, p)' => Released(p)
    PROVE  DeliveryInv'
<1>1. /\ Active(r) /\ reply[r] = NoReply /\ Released(q) /\ SaidUpTo(q, n) /\ app[q] = a
    BY DEF DeliveryInv, RequestKept, CarryIsNext, Active, Speaking, Unanswered, SurfaceInv, TextsOfSurface,
       SentBy
<1>2. \A p \in Requests : reply[p].kind = "part" /\ reply[p].req = q => reply[p].part < n
    BY <1>1 DEF SaidUpTo
<1>3. \A p \in Requests, m \in Nat : Said(p, m) => Said(p, m)'
  <2>1. \A p \in Requests : reply'[p] = reply[p] \/ (p = r /\ reply[p].kind # "part")
      BY <1>1 DEF OthersStay, NoReply, Plain
  <2> QED BY <2>1 DEF Said
<1>4. Said(q, n)'
    BY DEF Said
<1>5. SaidUpTo(q, n + 1)'
  <2>1. \A k \in 1 .. (n + 1) - 1 : Said(q, k)'
      BY <1>1, <1>3, <1>4 DEF SaidUpTo
  <2>2. ASSUME NEW p \in Requests, reply'[p].kind = "part", reply'[p].req = q
        PROVE  reply'[p].part < n + 1
    <3>1. CASE p = r
        BY <3>1
    <3>2. CASE p # r
      <4>1. reply[p].part < n /\ reply'[p].part = reply[p].part /\ reply[p].part \in Nat
          BY <1>2, <2>2, <3>2, Constants DEF OthersStay, DeliveryInv, TypeInv, TypeOK, Replies
      <4> QED BY <4>1
    <3> QED BY <3>1, <3>2
  <2> QED BY <2>1, <2>2 DEF SaidUpTo
<1>6. ASSUME NEW p \in Requests, p # q, NEW m, SaidUpTo(p, m)
      PROVE  SaidUpTo(p, m)'
  <2>1. \A k : Said(p, k) => Said(p, k)'
    <3>1. \A t \in Requests : reply'[t] = reply[t] \/ (t = r /\ reply[t].kind # "part")
        BY <1>1 DEF OthersStay, NoReply, Plain
    <3> QED BY <3>1 DEF Said
  <2>2. \A t \in Requests : reply'[t].kind = "part" /\ reply'[t].req = p =>
            t # r /\ reply'[t] = reply[t]
      BY <1>6 DEF OthersStay
  <2> QED BY <1>6, <2>1, <2>2 DEF SaidUpTo
<1>7. SaidOnce'
  <2> SUFFICES ASSUME NEW p \in Requests, NEW t \in Requests, reply'[p].kind = "part",
                      reply'[p] = reply'[t]
               PROVE  p = t
      BY DEF SaidOnce
  <2>1. CASE p # r /\ t # r
      BY <2>1 DEF OthersStay, DeliveryInv, SaidOnce
  <2>2. \A v \in Requests : v # r => reply'[v] # [kind |-> "part", req |-> q, part |-> n]
    <3> SUFFICES ASSUME NEW v \in Requests, v # r,
                        reply'[v] = [kind |-> "part", req |-> q, part |-> n]
                 PROVE  FALSE
        OBVIOUS
    <3>1. reply[v].kind = "part" /\ reply[v].req = q /\ reply[v].part = n
        BY DEF OthersStay
    <3> QED BY <1>2, <3>1
  <2> QED BY <2>1, <2>2
<1>8. ChunksInOrder'
  <2> SUFFICES ASSUME NEW p \in Requests, NEW m \in 2 .. MaxParts, Said(p, m)'
               PROVE  Said(p, m - 1)'
      BY DEF ChunksInOrder
  <2>1. m \in Nat /\ m - 1 \in Nat
      BY Constants
  <2>2. CASE p = q /\ m = n
    <3>1. m - 1 \in 1 .. n - 1
        BY <2>1, <2>2
    <3>2. Said(p, m - 1)
        BY <1>1, <2>2, <3>1 DEF SaidUpTo
    <3> QED BY <1>3, <2>1, <3>2
  <2>3. CASE ~(p = q /\ m = n)
    <3>1. Said(p, m)
      <4>1. PICK v \in Requests : reply'[v] = [kind |-> "part", req |-> p, part |-> m]
          BY DEF Said
      <4>2. v # r
          BY <2>3, <4>1
      <4> QED BY <4>1, <4>2 DEF Said, OthersStay
    <3>2. Said(p, m - 1)
        BY <3>1 DEF DeliveryInv, ChunksInOrder
    <3> QED BY <1>3, <2>1, <3>2
  <2> QED BY <2>2, <2>3
<1>9. Alone' /\ Unanswered'
    BY DEF DeliveryInv, Alone, Unanswered, Active, OthersStay
<1>10. \A p \in Requests : NothingSaidYet(p)'
    BY <1>1, <1>6 DEF DeliveryInv, NothingSaidYet
<1>11. SurfaceKept(a)'
  <2>1. ASSUME NEW p \in Requests
        PROVE  ReadyIsUnsaid(a, p)' /\ OnePlace(a, p)'
      BY <1>6 DEF DeliveryInv, SurfaceKept, ReadyIsUnsaid, OnePlace
  <2>2. ASSUME NEW p \in Requests, NEW m \in Nat
        PROVE  RestIsNext(a, p, m)'
      BY <1>5, <1>6 DEF RestIsNext
  <2> QED BY <2>1, <2>2 DEF SurfaceKept
<1>12. ASSUME NEW b \in Apps, b # a
       PROVE  SurfaceKept(b)'
  <2>1. SurfaceKept(b) /\ pending'[b] = pending[b] /\ continuation'[b] = continuation[b]
      BY <1>12 DEF DeliveryInv
  <2>2. ~Rest(b, q) /\ ~Ready(b, q)
      BY <1>1, <1>12 DEF DeliveryInv, SurfaceInv, RowsOfSurface, SentBy, Ready, Rest
  <2>3. \A p \in Requests : Clearing(p, b) => Clearing(p, b)' /\ carry'[p] = carry[p]
      BY <1>12 DEF Clearing, OthersStay
  <2>4. ASSUME NEW p \in Requests
        PROVE  ReadyIsUnsaid(b, p)' /\ OnePlace(b, p)'
      BY <1>6, <2>1, <2>2, <2>3 DEF SurfaceKept, ReadyIsUnsaid, OnePlace, Ready, Rest
  <2>5. ASSUME NEW p \in Requests, NEW m \in Nat
        PROVE  RestIsNext(b, p, m)'
      BY <1>6, <2>1, <2>2, <2>3 DEF SurfaceKept, RestIsNext, Rest
  <2> QED BY <2>4, <2>5 DEF SurfaceKept
<1>13. RequestKept(r)'
    BY DEF RequestKept, CarryIsNext, OnlyCarried, Speaking
<1>14. ASSUME NEW p \in Requests, p # r
       PROVE  RequestKept(p)'
  <2>1. RequestKept(p) /\ pc'[p] = pc[p] /\ carry'[p] = carry[p]
      BY <1>14 DEF DeliveryInv, OthersStay
  <2>2. CASE pc[p] \notin Speaking
      BY <2>1, <2>2 DEF RequestKept, CarryIsNext, OnlyCarried, Speaking
  <2>3. CASE pc[p] \in Speaking
    <3>1. Active(p) /\ app[p] # a
        BY <1>1, <1>14, <2>3 DEF DeliveryInv, Alone, Active, Speaking
    <3>2. carry[p].req # q
        BY <1>1, <3>1 DEF DeliveryInv, SurfaceInv, TextsOfSurface, SentBy
    <3>3. ASSUME NEW v \in Requests, NEW m \in Nat
          PROVE  CarryIsNext(p, v, m)'
        BY <1>6, <2>1, <3>2 DEF RequestKept, CarryIsNext
    <3>4. ASSUME NEW v \in Requests, NEW b \in Apps
          PROVE  OnlyCarried(p, b, v)'
        BY <2>1, <3>1 DEF RequestKept, OnlyCarried, Ready, Rest
    <3> QED BY <3>3, <3>4 DEF RequestKept
  <2> QED BY <2>2, <2>3
<1> QED BY <1>7, <1>8, <1>9, <1>10, <1>11, <1>12, <1>13, <1>14 DEF DeliveryInv

\* A step of the tasks, of time, or none: respond stands still and rows keep
\* what they hold.
LEMMA QuietStep ==
    ASSUME DeliveryInv, TypeInv', SurfaceInv', HandedOver', UNCHANGED <<pc, app, carry, reply>>,
           \A q \in Requests : Released(q) => Released(q)',
           \A a \in Apps, q \in Requests : Ready(a, q)' => Ready(a, q),
           \A a \in Apps : /\ continuation'[a].req = continuation[a].req
                           /\ continuation'[a].from = continuation[a].from
    PROVE  DeliveryInv'
<1>1. /\ \A q, n : SaidUpTo(q, n) => SaidUpTo(q, n)'
      /\ SaidOnce' /\ ChunksInOrder'
    BY SilenceKeepsSaid DEF Silence, DeliveryInv
<1>2. Alone' /\ Unanswered'
    BY DEF DeliveryInv, Alone, Active, Unanswered
<1>3. \A q \in Requests : NothingSaidYet(q)'
    BY <1>1 DEF DeliveryInv, NothingSaidYet
<1>4. ASSUME NEW a \in Apps
      PROVE  SurfaceKept(a)'
  <2>1. SurfaceKept(a)
      BY DEF DeliveryInv
  <2>2. ASSUME NEW q \in Requests
        PROVE  ReadyIsUnsaid(a, q)' /\ OnePlace(a, q)'
      BY <1>1, <2>1 DEF SurfaceKept, ReadyIsUnsaid, OnePlace, Rest, Clearing
  <2>3. ASSUME NEW q \in Requests, NEW n \in Nat
        PROVE  RestIsNext(a, q, n)'
      BY <1>1, <2>1 DEF SurfaceKept, RestIsNext, Rest, Clearing
  <2> QED BY <2>2, <2>3 DEF SurfaceKept
<1>5. ASSUME NEW r \in Requests
      PROVE  RequestKept(r)'
  <2>1. RequestKept(r)
      BY DEF DeliveryInv
  <2>2. ASSUME NEW q \in Requests, NEW n \in Nat
        PROVE  CarryIsNext(r, q, n)'
      BY <1>1, <2>1 DEF RequestKept, CarryIsNext
  <2>3. ASSUME NEW q \in Requests, NEW a \in Apps
        PROVE  OnlyCarried(r, a, q)'
      BY <2>1 DEF RequestKept, OnlyCarried, Rest
  <2> QED BY <2>2, <2>3 DEF RequestKept
<1> QED BY <1>1, <1>2, <1>3, <1>4, <1>5 DEF DeliveryInv

\* What a return, and a step that goes on, do to respond's own state.
LEMMA Returns ==
    ASSUME TypeOK, NEW r \in Requests, NEW answer, Finish(r, answer)
    PROVE  OthersStay(r) /\ pc'[r] = "done" /\ reply'[r] = answer /\ carry'[r] = NoText
    BY DEF TypeOK, Finish, Goto, OthersStay

LEMMA GoesOn ==
    ASSUME TypeOK, NEW r \in Requests, NEW location, Goto(r, location), UNCHANGED reply,
           NEW text, carry' = [carry EXCEPT ![r] = text]
    PROVE  OthersStay(r) /\ pc'[r] = location /\ reply'[r] = reply[r] /\ carry'[r] = text
    BY DEF TypeOK, Goto, OthersStay

\* An answer that left its task stays so, if only the request that is about
\* to speak its own answer leaves "keep".
LEMMA ReleasedStays ==
    ASSUME NEW r \in Requests, OthersStay(r), pc[r] # "done",
           pc[r] = "keep" => pc'[r] = "done" /\ work'[r] = work[r] /\ handle'[r] = handle[r],
           \A q \in Requests : q # r => work'[q] = work[q] /\ handle'[q] = handle[q]
    PROVE  \A q \in Requests : Released(q) => Released(q)'
    BY DEF Released, OthersStay

\* A request that is not about to speak has nothing to keep.
LEMMA SilentRequestKept ==
    ASSUME NEW r \in Requests, pc'[r] \notin Speaking
    PROVE  RequestKept(r)'
    BY DEF RequestKept, CarryIsNext, OnlyCarried, Speaking

LEMMA NextHandedOver ==
    ASSUME ~MayCrash
    PROVE  TypeInv /\ SurfaceInv /\ HandedOver /\ [Next]_vars => HandedOver'
<1> SUFFICES ASSUME TypeOK, SurfaceInv, HandedOver, [Next]_vars PROVE HandedOver'
    BY DEF TypeInv
<1>1. ASSUME NEW r \in Requests, NEW location, Goto(r, location), pc[r] # "done", UNCHANGED handle
      PROVE  HandedOver'
    BY <1>1 DEF HandedOver, Goto, TypeOK
<1>2. ASSUME NEW r \in Requests, NEW a \in Apps, NEW i \in Inputs, Arrive(r, a, i)
      PROVE  HandedOver'
    BY <1>1, <1>2 DEF Arrive, taskVars
<1>3. ASSUME NEW r \in Requests, NEW o \in StoreOutcomes,
             \/ Resolve(r, o) \/ Take(r, o) \/ Again(r, o) \/ Keep(r, o)
             \/ Poll(r, o) \/ Deliver(r, o) \/ Clear(r, o)
      PROVE  HandedOver'
    BY <1>1, <1>3 DEF Resolve, Take, AnswerContinuation, Again, Keep, Poll, Deliver, Clear, Finish, Fail,
       taskVars
<1>4. ASSUME NEW r \in Requests, NEW o \in StoreOutcomes, Mark(r, o)
      PROVE  HandedOver'
    BY <1>4 DEF Mark, Finish, Fail, Goto, HandedOver, TypeOK
<1>5. ASSUME NEW r \in Requests, Gate(r) \/ Collect(r) \/ Deadline(r)
      PROVE  HandedOver'
    BY <1>1, <1>5 DEF Gate, Collect, Deadline, Finish, Fail, taskVars
<1>6. ASSUME NEW r \in Requests, Task(r)
      PROVE  HandedOver'
    BY <1>6 DEF Task, StartThread, Turn, SaveThread, Saver, Cancelled, HandedOver, TypeOK
<1>7. ASSUME NEW a \in Apps, ExpirePending(a) \/ ExpireContinuation(a)
      PROVE  HandedOver'
    BY <1>7 DEF ExpirePending, ExpireContinuation, HandedOver, taskVars
<1>8. CASE UNCHANGED vars
    BY <1>8 DEF vars, taskVars, HandedOver
<1> QED BY <1>2, <1>3, <1>4, <1>5, <1>6, <1>7, <1>8 DEF Next, Handler, Idle, Crash

LEMMA ArriveDelivers ==
    ASSUME DeliveryInv, TypeInv', SurfaceInv', HandedOver', ~Overlap,
           NEW r \in Requests, NEW a \in Apps, NEW i \in Inputs, Arrive(r, a, i)
    PROVE  DeliveryInv'
<1>1. /\ \A q \in Requests : pc'[q] = IF q = r THEN "resolve" ELSE pc[q]
      /\ \A q \in Requests : app'[q] = IF q = r THEN a ELSE app[q]
      /\ pc[r] = "idle" /\ UNCHANGED <<carry, reply, pending, continuation, work, handle>>
    BY DEF DeliveryInv, TypeInv, TypeOK, Arrive, Goto, taskVars, storeVars
<1>2. Alone'
    BY <1>1 DEF Arrive, DeliveryInv, Alone, Active
<1>3. Unanswered'
    BY <1>1 DEF DeliveryInv, Unanswered
<1>4. /\ \A q, n : SaidUpTo(q, n) => SaidUpTo(q, n)'
      /\ SaidOnce' /\ ChunksInOrder'
    BY <1>1, SilenceKeepsSaid DEF Silence, DeliveryInv
<1>5. \A q \in Requests : Released(q) <=> Released(q)'
    BY <1>1 DEF Released
<1>6. \A q \in Requests : NothingSaidYet(q)'
    BY <1>4, <1>5 DEF DeliveryInv, NothingSaidYet
<1>7. \A b \in Apps, q \in Requests : Clearing(q, b) => Clearing(q, b)'
    BY <1>1 DEF Clearing
<1>8. ASSUME NEW b \in Apps
      PROVE  SurfaceKept(b)'
  <2>1. SurfaceKept(b)
      BY DEF DeliveryInv
  <2>2. ASSUME NEW q \in Requests
        PROVE  ReadyIsUnsaid(b, q)' /\ OnePlace(b, q)'
      BY <1>1, <1>4, <1>5, <1>7, <2>1 DEF SurfaceKept, ReadyIsUnsaid, OnePlace, Ready, Rest
  <2>3. ASSUME NEW q \in Requests, NEW n \in Nat
        PROVE  RestIsNext(b, q, n)'
      BY <1>1, <1>4, <1>5, <1>7, <2>1 DEF SurfaceKept, RestIsNext, Rest
  <2> QED BY <2>2, <2>3 DEF SurfaceKept
<1>9. ASSUME NEW q \in Requests
      PROVE  RequestKept(q)'
  <2>1. CASE q = r
      BY <1>1, <2>1, SilentRequestKept DEF Speaking
  <2>2. CASE q # r
    <3>1. RequestKept(q) /\ pc'[q] = pc[q] /\ app'[q] = app[q]
        BY <1>1, <2>2 DEF DeliveryInv
    <3>2. ASSUME NEW p \in Requests, NEW n \in Nat
          PROVE  CarryIsNext(q, p, n)'
        BY <1>1, <1>4, <1>5, <3>1 DEF RequestKept, CarryIsNext
    <3>3. ASSUME NEW p \in Requests, NEW b \in Apps
          PROVE  OnlyCarried(q, b, p)'
        BY <1>1, <3>1 DEF RequestKept, OnlyCarried, Ready, Rest
    <3> QED BY <3>2, <3>3 DEF RequestKept
  <2> QED BY <2>1, <2>2
<1> QED BY <1>2, <1>3, <1>4, <1>6, <1>8, <1>9 DEF DeliveryInv

\* The request under way on a surface is the only one there: none clears.
LEMMA NoneClearing ==
    ASSUME DeliveryInv, NEW r \in Requests, Active(r), pc[r] # "clear"
    PROVE  \A q \in Requests : ~Clearing(q, app[r])
    BY DEF DeliveryInv, Alone, Active, Clearing

\* Steps of respond before it has something to say.
LEMMA WalkDelivers ==
    ASSUME DeliveryInv, TypeInv', SurfaceInv', HandedOver', NEW r \in Requests,
           Resolve(r, "ok") \/ Gate(r) \/ Deadline(r)
    PROVE  DeliveryInv'
<1>1. TypeOK /\ Unanswered
    BY DEF DeliveryInv, TypeInv
<1>2. /\ pc[r] \in {"resolve", "gate", "wait"} /\ UNCHANGED <<app, pending, continuation, handle>>
      /\ \A q \in Requests : q # r => work'[q] = work[q]
    BY <1>1 DEF Resolve, Gate, Deadline, inputVars, taskVars, storeVars, TypeOK
<1>3. \/ \E kind \in {"turnedAway", "greeting", "busy"} : Finish(r, Plain(kind))
      \/ \E location \in {"take", "wait", "mark"} : Goto(r, location) /\ UNCHANGED <<carry, reply>>
    BY DEF Resolve, Gate, Deadline
<1>4. /\ OthersStay(r) /\ pc'[r] \in {"done", "take", "wait", "mark"}
      /\ reply'[r] = NoReply \/ (pc'[r] = "done" /\ reply'[r].kind # "part")
  <2>1. ASSUME NEW kind \in {"turnedAway", "greeting", "busy"}, Finish(r, Plain(kind))
        PROVE  <1>4!1 /\ <1>4!2
      BY <1>1, <2>1, Returns DEF Plain
  <2>2. ASSUME NEW location \in {"take", "wait", "mark"}, Goto(r, location), UNCHANGED <<carry, reply>>
        PROVE  <1>4!1 /\ <1>4!2
      BY <1>1, <1>2, <2>2 DEF Goto, OthersStay, TypeOK, Unanswered
  <2> QED BY <1>3, <2>1, <2>2
<1>5. \A q \in Requests : Released(q) => Released(q)'
    BY <1>2, <1>4, ReleasedStays
<1>6. RequestKept(r)'
    BY <1>4, SilentRequestKept DEF Speaking
<1> QED BY <1>2, <1>4, <1>5, <1>6, MoveStep DEF Active

\* A ready answer is picked up: none of it was said.
LEMMA PollDelivers ==
    ASSUME DeliveryInv, TypeInv', SurfaceInv', HandedOver', NEW r \in Requests, Poll(r, "ok")
    PROVE  DeliveryInv'
<1>1. TypeOK /\ Unanswered /\ app[r] \in Apps /\ Active(r) /\ pc[r] = "poll" /\ reply[r] = NoReply
    BY DEF DeliveryInv, TypeInv, Arrived, Unanswered, Poll, Active
<1>2. UNCHANGED <<app, pending, continuation, work, handle>>
    BY DEF Poll, inputVars, taskVars, storeVars
<1>3. CASE \/ Finish(r, Plain("stillThinking"))
           \/ Goto(r, "gate") /\ UNCHANGED <<carry, reply>>
  <2>1. /\ OthersStay(r) /\ pc'[r] \in {"done", "gate"}
        /\ reply'[r] = NoReply \/ (pc'[r] = "done" /\ reply'[r].kind # "part")
    <3>1. CASE Finish(r, Plain("stillThinking"))
        BY <1>1, <3>1, Returns DEF Plain
    <3>2. CASE Goto(r, "gate") /\ UNCHANGED <<carry, reply>>
        BY <1>1, <3>2 DEF Goto, OthersStay, TypeOK
    <3> QED BY <1>3, <3>1, <3>2
  <2>2. \A q \in Requests : Released(q) => Released(q)'
      BY <1>1, <1>2, <2>1, ReleasedStays
  <2>3. RequestKept(r)'
      BY <2>1, SilentRequestKept DEF Speaking
  <2> QED BY <1>1, <1>2, <2>1, <2>2, <2>3, MoveStep
<1>4. CASE /\ Deliverable(pending[app[r]]) /\ pending[app[r]].status = "ready"
           /\ Goto(r, "deliver") /\ UNCHANGED reply
           /\ carry' = [carry EXCEPT ![r] = [req |-> pending[app[r]].req, from |-> 1]]
  <2>1. PICK q \in Requests : q = pending[app[r]].req /\ Ready(app[r], q)
      BY <1>1, <1>4 DEF Deliverable, TypeOK, MaybeRequest, Ready
  <2>2. OthersStay(r) /\ pc'[r] = "deliver" /\ reply'[r] = NoReply /\ carry'[r] = [req |-> q, from |-> 1]
    <3>1. carry' = [carry EXCEPT ![r] = [req |-> q, from |-> 1]]
        BY <1>4, <2>1
    <3> QED BY <1>1, <1>4, <3>1, GoesOn
  <2>3. \A p \in Requests : Released(p) => Released(p)'
      BY <1>1, <1>2, <2>2, ReleasedStays
  <2>4. \A p, n : SaidUpTo(p, n) => SaidUpTo(p, n)'
    <3>1. Silence
        BY <1>1, <2>2 DEF Silence, OthersStay
    <3> QED BY <3>1, SilenceKeepsSaid
  <2>5. Released(q)' /\ SaidUpTo(q, 1)' /\ ~Rest(app[r], q)
      BY <1>1, <2>1, <2>3, <2>4, NoneClearing DEF DeliveryInv, SurfaceKept, ReadyIsUnsaid, OnePlace
  <2>6. ASSUME NEW p \in Requests, NEW n \in Nat
        PROVE  CarryIsNext(r, p, n)'
      BY <2>2, <2>5 DEF CarryIsNext
  <2>7. ASSUME NEW p \in Requests, NEW a \in Apps
        PROVE  OnlyCarried(r, a, p)'
      BY <1>2, <2>2, <2>5 DEF OnlyCarried, Rest
  <2>8. RequestKept(r)'
      BY <2>6, <2>7 DEF RequestKept
  <2> QED BY <1>1, <1>2, <2>2, <2>3, <2>8, MoveStep
<1> QED BY <1>3, <1>4 DEF Poll

\* The answer arrives within the budget: none of it was said.
LEMMA CollectDelivers ==
    ASSUME DeliveryInv, TypeInv', SurfaceInv', HandedOver', NEW r \in Requests, Collect(r)
    PROVE  DeliveryInv'
<1>1. /\ TypeOK /\ app[r] \in Apps /\ Active(r) /\ pc[r] = "wait" /\ reply[r] = NoReply
      /\ handle[r] = "none"
    BY DEF DeliveryInv, TypeInv, Arrived, Unanswered, HandedOver, Collect, Active
<1>2. UNCHANGED <<app, pending, continuation, work, handle>>
    BY DEF Collect, inputVars, taskVars, storeVars
<1>3. CASE Fail(r)
  <2>1. OthersStay(r) /\ pc'[r] = "done" /\ reply'[r].kind # "part"
      BY <1>1, <1>3, Returns DEF Fail, Plain
  <2>2. \A q \in Requests : Released(q) => Released(q)'
      BY <1>1, <1>2, <2>1, ReleasedStays
  <2>3. RequestKept(r)'
      BY <2>1, SilentRequestKept DEF Speaking
  <2> QED BY <1>1, <1>2, <2>1, <2>2, <2>3, MoveStep
<1>4. CASE /\ work[r] = "ok" /\ Goto(r, "keep") /\ UNCHANGED reply
           /\ carry' = [carry EXCEPT ![r] = [req |-> r, from |-> 1]]
  <2>1. OthersStay(r) /\ pc'[r] = "keep" /\ reply'[r] = NoReply /\ carry'[r] = [req |-> r, from |-> 1]
      BY <1>1, <1>4, GoesOn
  <2>2. \A p \in Requests : Released(p) => Released(p)'
      BY <1>1, <1>2, <2>1, ReleasedStays
  <2>3. \A p, n : SaidUpTo(p, n) => SaidUpTo(p, n)'
    <3>1. Silence
        BY <1>1, <2>1 DEF Silence, OthersStay
    <3> QED BY <3>1, SilenceKeepsSaid
  <2>4. ~Released(r) /\ Released(r)'
      BY <1>1, <1>2, <1>4, <2>1 DEF Released
  <2>5. SaidUpTo(r, 1)'
      BY <2>3, <2>4 DEF DeliveryInv, NothingSaidYet
  <2>6. ~Ready(app[r], r) /\ ~Rest(app[r], r)
    <3>1. SurfaceKept(app[r]) /\ continuation[app[r]].from \in Nat
        BY <1>1, Constants DEF DeliveryInv, TypeOK
    <3> QED BY <2>4, <3>1 DEF SurfaceKept, ReadyIsUnsaid, RestIsNext
  <2>7. ASSUME NEW p \in Requests, NEW n \in Nat
        PROVE  CarryIsNext(r, p, n)'
      BY <2>1, <2>4, <2>5 DEF CarryIsNext
  <2>8. ASSUME NEW p \in Requests, NEW a \in Apps
        PROVE  OnlyCarried(r, a, p)'
      BY <1>2, <2>1, <2>6 DEF OnlyCarried, Rest, Ready
  <2>9. RequestKept(r)'
      BY <2>7, <2>8 DEF RequestKept
  <2> QED BY <1>1, <1>2, <2>1, <2>2, <2>9, MoveStep
<1> QED BY <1>3, <1>4 DEF Collect

\* The rest of an answer is taken: by Alone no other request is about to speak
\* of it.
LEMMA TakeDelivers ==
    ASSUME DeliveryInv, TypeInv', SurfaceInv', HandedOver', NEW r \in Requests, Take(r, "ok")
    PROVE  DeliveryInv'
<1>1. TypeOK /\ Active(r) /\ pc[r] = "take" /\ reply[r] = NoReply /\ app[r] \in Apps
    BY DEF DeliveryInv, TypeInv, Arrived, Unanswered, Take, Active
<1>2. UNCHANGED <<app, pending, work, handle>>
    BY DEF Take, inputVars, taskVars
<1>a. PICK a \in Apps : app[r] = a
    BY <1>1
<1>3. CASE ~Deliverable(continuation[a]) /\ Goto(r, "poll") /\ UNCHANGED <<carry, reply>>
  <2>1. OthersStay(r) /\ pc'[r] = "poll" /\ reply'[r] = NoReply
      BY <1>1, <1>3 DEF Goto, OthersStay, TypeOK
  <2>2. UNCHANGED continuation
      BY <1>1, <1>a, <1>3 DEF Take, Stored, TakeContinuation, TypeOK
  <2>3. \A p \in Requests : Released(p) => Released(p)'
      BY <1>1, <1>2, <2>1, ReleasedStays
  <2>4. RequestKept(r)'
      BY <2>1, SilentRequestKept DEF Speaking
  <2> QED BY <1>1, <1>2, <2>1, <2>2, <2>3, <2>4, MoveStep
<1>4. CASE Deliverable(continuation[a]) /\ AnswerContinuation(r, continuation[a])
  <2>1. PICK q \in Requests, m \in Nat :
            q = continuation[a].req /\ m = continuation[a].from /\ Rest(a, q)
    <3>1. continuation[a].req \in Requests /\ continuation[a].from \in Nat
        BY <1>1, <1>4, Constants DEF Deliverable, TypeOK, MaybeRequest
    <3> QED BY <3>1 DEF Rest
  <2>2. continuation' = [continuation EXCEPT ![a] = NoRest]
      BY <1>a, <1>4 DEF Take, Stored, TakeContinuation
  <2>3. /\ \A p \in Requests : ~Rest(a, p)'
        /\ \A b \in Apps : b # a => continuation'[b] = continuation[b]
      BY <1>1, <1>2, <2>2, Constants DEF Rest, NoRest, TypeOK
  <2>4. \/ Finish(r, [kind |-> "stopped", req |-> q, part |-> m])
        \/ \E location \in {"again", "keep"} :
              /\ Goto(r, location) /\ UNCHANGED reply
              /\ carry' = [carry EXCEPT ![r] = [req |-> q, from |-> m]]
      BY <1>4, <2>1 DEF AnswerContinuation
  <2>5. /\ OthersStay(r) /\ pc'[r] \in {"done", "again", "keep"}
        /\ pc'[r] # "done" => reply'[r] = NoReply /\ carry'[r] = [req |-> q, from |-> m]
        /\ pc'[r] = "done" => reply'[r].kind # "part"
    <3>1. CASE Finish(r, [kind |-> "stopped", req |-> q, part |-> m])
        BY <1>1, <3>1, Returns
    <3>2. ASSUME NEW location \in {"again", "keep"}, Goto(r, location), UNCHANGED reply,
                 carry' = [carry EXCEPT ![r] = [req |-> q, from |-> m]]
          PROVE  <2>5!1 /\ <2>5!2 /\ <2>5!3
        BY <1>1, <3>2, GoesOn
    <3> QED BY <2>4, <3>1, <3>2
  <2>6. \A p \in Requests : Released(p) => Released(p)'
      BY <1>1, <1>2, <2>5, ReleasedStays
  <2>7. \A p, n : SaidUpTo(p, n) => SaidUpTo(p, n)'
    <3>1. Silence
        BY <1>1, <2>5 DEF Silence, OthersStay, NoReply, Plain
    <3> QED BY <3>1, SilenceKeepsSaid
  <2>8. Released(q)' /\ SaidUpTo(q, m)' /\ ~Ready(a, q)
    <3>1. SurfaceKept(a)
        BY <1>1 DEF DeliveryInv
    <3> QED BY <1>1, <1>a, <2>1, <2>6, <2>7, <3>1, NoneClearing DEF SurfaceKept, RestIsNext, OnePlace
  <2>9. SurfaceKept(a)'
    <3>1. SurfaceKept(a)
        BY <1>1 DEF DeliveryInv
    <3>2. \A p \in Requests : Ready(a, p)' => Ready(a, p)
        BY <1>2 DEF Ready
    <3> QED BY <1>2, <2>3, <2>6, <2>7, <3>1, <3>2 DEF SurfaceKept, ReadyIsUnsaid, OnePlace, RestIsNext
  <2>10. RequestKept(r)'
    <3>1. CASE pc'[r] = "done"
        BY <3>1, SilentRequestKept DEF Speaking
    <3>2. CASE pc'[r] # "done"
      <4>1. ASSUME NEW p \in Requests, NEW n \in Nat
            PROVE  CarryIsNext(r, p, n)'
          BY <2>5, <2>8, <3>2 DEF CarryIsNext
      <4>2. ASSUME NEW p \in Requests, NEW b \in Apps
            PROVE  OnlyCarried(r, b, p)'
          BY <1>2, <1>a, <2>3, <2>5, <2>8, <3>2 DEF OnlyCarried, Ready
      <4> QED BY <4>1, <4>2 DEF RequestKept
    <3> QED BY <3>1, <3>2
  <2> QED BY <1>1, <1>2, <1>a, <2>3, <2>5, <2>6, <2>9, <2>10, SilentStep
<1> QED BY <1>a, <1>3, <1>4 DEF Take

\* What is left of an answer once its chunk n was taken to be spoken.
LEMMA RestOfText ==
    ASSUME TypeOK, NEW r \in Requests, NEW q \in Requests, NEW n \in Nat,
           carry[r].req = q, carry[r].from = n
    PROVE  \/ Remaining(carry[r]).req = q /\ Remaining(carry[r]).from = n + 1
           \/ Remaining(carry[r]).req \notin Requests
    BY Constants DEF Remaining, NoRest

\* The text a request is about to speak, by name.
LEMMA CarriedText ==
    ASSUME DeliveryInv, NEW r \in Requests, pc[r] \in Speaking
    PROVE  \E a \in Apps, q \in Requests, n \in Nat :
              /\ app[r] = a /\ carry[r].req = q /\ carry[r].from = n
              /\ Released(q) /\ SaidUpTo(q, n) /\ OnlyCarried(r, a, q)
<1>1. app[r] \in Apps /\ carry[r].req \in Requests /\ carry[r].from \in Nat
    BY Constants DEF DeliveryInv, TypeInv, TypeOK, CarryNamesAnswer, Arrived, Speaking
<1> QED BY <1>1 DEF DeliveryInv, RequestKept, CarryIsNext

\* The chunks are put back unspoken.
LEMMA AgainDelivers ==
    ASSUME DeliveryInv, TypeInv', SurfaceInv', HandedOver', NEW r \in Requests, Again(r, "ok")
    PROVE  DeliveryInv'
<1>1. TypeOK /\ Active(r) /\ pc[r] = "again" /\ reply[r] = NoReply
    BY DEF DeliveryInv, TypeInv, Unanswered, Again, Active
<1>2. UNCHANGED <<app, pending, work, handle>>
    BY DEF Again, inputVars, taskVars
<1>3. PICK a \in Apps, q \in Requests, n \in Nat :
              /\ app[r] = a /\ carry[r].req = q /\ carry[r].from = n
              /\ Released(q) /\ SaidUpTo(q, n) /\ OnlyCarried(r, a, q)
    BY <1>1, CarriedText DEF Speaking
<1>4. OthersStay(r) /\ pc'[r] = "done" /\ reply'[r].kind # "part"
    BY <1>1, Returns DEF Again, Fail, Plain
<1>5. continuation' = [continuation EXCEPT ![a] = [req |-> q, from |-> n, age |-> "live"]]
    BY <1>3 DEF Again, Stored, SaveContinuation
<1>6. \A p \in Requests : Released(p) => Released(p)'
    BY <1>1, <1>2, <1>4, ReleasedStays
<1>7. \A p, m : SaidUpTo(p, m) => SaidUpTo(p, m)'
  <2>1. Silence
      BY <1>1, <1>4 DEF Silence, OthersStay, NoReply, Plain
  <2> QED BY <2>1, SilenceKeepsSaid
<1>8. /\ \A p \in Requests : Rest(a, p)' => p = q
      /\ continuation'[a].from = n
      /\ \A b \in Apps : b # a => continuation'[b] = continuation[b]
    BY <1>1, <1>5 DEF Rest, TypeOK
<1>9. ~Ready(a, q)
    BY <1>1, <1>3 DEF OnlyCarried
<1>10. SurfaceKept(a)'
  <2>1. SurfaceKept(a)
      BY DEF DeliveryInv
  <2>2. ASSUME NEW p \in Requests
        PROVE  ReadyIsUnsaid(a, p)' /\ OnePlace(a, p)'
      BY <1>2, <1>6, <1>7, <1>8, <1>9, <2>1 DEF SurfaceKept, ReadyIsUnsaid, OnePlace, Ready
  <2>3. ASSUME NEW p \in Requests, NEW m \in Nat
        PROVE  RestIsNext(a, p, m)'
      BY <1>3, <1>6, <1>7, <1>8 DEF RestIsNext
  <2> QED BY <2>2, <2>3 DEF SurfaceKept
<1>11. RequestKept(r)'
    BY <1>4, SilentRequestKept DEF Speaking
<1> QED BY <1>1, <1>2, <1>3, <1>4, <1>6, <1>8, <1>10, <1>11, SilentStep

\* A chunk of a collected answer or of a continuation is spoken.
LEMMA KeepDelivers ==
    ASSUME DeliveryInv, TypeInv', SurfaceInv', HandedOver', NEW r \in Requests, Keep(r, "ok")
    PROVE  DeliveryInv'
<1>1. TypeOK /\ pc[r] = "keep" /\ pc[r] \in Speaking
    BY DEF DeliveryInv, TypeInv, Keep, Speaking
<1>2. UNCHANGED <<app, pending, work, handle>>
    BY DEF Keep, inputVars, taskVars
<1>3. PICK a \in Apps, q \in Requests, n \in Nat :
              /\ app[r] = a /\ carry[r].req = q /\ carry[r].from = n
              /\ Released(q) /\ SaidUpTo(q, n) /\ OnlyCarried(r, a, q)
    BY <1>1, CarriedText
<1>4. OthersStay(r) /\ pc'[r] = "done" /\ reply'[r] = [kind |-> "part", req |-> q, part |-> n]
  <2>1. Finish(r, [kind |-> "part", req |-> q, part |-> n])
      BY <1>3 DEF Keep, Spoken
  <2> QED BY <1>1, <2>1, Returns
<1>5. continuation' = [continuation EXCEPT ![a] = Remaining(carry[r])]
    BY <1>3 DEF Keep, Stored, SaveContinuation
<1>6. \A p \in Requests : Released(p) => Released(p)'
    BY <1>1, <1>2, <1>4, ReleasedStays
<1>7. /\ \A p \in Requests : Rest(a, p)' => p = q /\ continuation'[a].from = n + 1
      /\ \A b \in Apps : b # a => continuation'[b] = continuation[b]
    BY <1>1, <1>3, <1>5, RestOfText DEF Rest, TypeOK
<1>8. \A p \in Requests : Ready(a, p)' => Ready(a, p) /\ p # q
    BY <1>1, <1>2, <1>3 DEF OnlyCarried, Ready
<1> QED BY <1>1, <1>2, <1>3, <1>4, <1>6, <1>7, <1>8, SpeakStep

\* The rest of a ready answer is saved before its first chunk is spoken.
LEMMA DeliverDelivers ==
    ASSUME DeliveryInv, TypeInv', SurfaceInv', HandedOver', NEW r \in Requests, Deliver(r, "ok")
    PROVE  DeliveryInv'
<1>1. TypeOK /\ Active(r) /\ pc[r] = "deliver" /\ pc[r] \in Speaking /\ reply[r] = NoReply
    BY DEF DeliveryInv, TypeInv, Unanswered, Deliver, Active, Speaking
<1>2. UNCHANGED <<app, pending, work, handle, carry, reply>>
    BY DEF Deliver, inputVars, taskVars
<1>3. PICK a \in Apps, q \in Requests, n \in Nat :
              /\ app[r] = a /\ carry[r].req = q /\ carry[r].from = n
              /\ Released(q) /\ SaidUpTo(q, n) /\ OnlyCarried(r, a, q)
    BY <1>1, CarriedText
<1>4. OthersStay(r) /\ pc'[r] = "clear"
    BY <1>1, <1>2 DEF Deliver, Goto, OthersStay, TypeOK
<1>5. continuation' = [continuation EXCEPT ![a] = Remaining(carry[r])]
    BY <1>3 DEF Deliver, Stored, SaveContinuation
<1>6. \A p \in Requests : Released(p) => Released(p)'
    BY <1>1, <1>2, <1>4, ReleasedStays
<1>7. \A p, m : SaidUpTo(p, m) => SaidUpTo(p, m)'
    BY <1>2, SilenceKeepsSaid DEF Silence
<1>8. /\ \A p \in Requests : Rest(a, p)' => p = q /\ continuation'[a].from = n + 1
      /\ \A b \in Apps : b # a => continuation'[b] = continuation[b]
    BY <1>1, <1>3, <1>5, RestOfText DEF Rest, TypeOK
<1>9. Clearing(r, a)' /\ carry'[r].req = q /\ carry'[r].from = n
    BY <1>2, <1>3, <1>4 DEF Clearing
<1>10. SurfaceKept(a)'
  <2>1. SurfaceKept(a)
      BY DEF DeliveryInv
  <2>2. ASSUME NEW p \in Requests
        PROVE  ReadyIsUnsaid(a, p)' /\ OnePlace(a, p)'
      BY <1>2, <1>6, <1>7, <1>9, <2>1 DEF SurfaceKept, ReadyIsUnsaid, OnePlace, Ready
  <2>3. ASSUME NEW p \in Requests, NEW m \in Nat
        PROVE  RestIsNext(a, p, m)'
      BY <1>3, <1>6, <1>8, <1>9 DEF RestIsNext
  <2> QED BY <2>2, <2>3 DEF SurfaceKept
<1>11. RequestKept(r)'
  <2>1. ASSUME NEW p \in Requests, NEW m \in Nat
        PROVE  CarryIsNext(r, p, m)'
      BY <1>3, <1>6, <1>7, <1>9 DEF CarryIsNext
  <2>2. ASSUME NEW p \in Requests, NEW b \in Apps
        PROVE  OnlyCarried(r, b, p)'
      BY <1>2, <1>3, <1>4, <1>8, <1>9 DEF OnlyCarried
  <2> QED BY <2>1, <2>2 DEF RequestKept
<1> QED BY <1>1, <1>2, <1>3, <1>4, <1>6, <1>8, <1>10, <1>11, SilentStep DEF Active

\* The row is cleared and the first chunk spoken.
LEMMA ClearDelivers ==
    ASSUME DeliveryInv, TypeInv', SurfaceInv', HandedOver', NEW r \in Requests, Clear(r, "ok")
    PROVE  DeliveryInv'
<1>1. TypeOK /\ Active(r) /\ pc[r] = "clear" /\ pc[r] \in Speaking
    BY DEF DeliveryInv, TypeInv, Clear, Speaking, Active
<1>2. UNCHANGED <<app, continuation, work, handle>>
    BY DEF Clear, inputVars, taskVars
<1>3. PICK a \in Apps, q \in Requests, n \in Nat :
              /\ app[r] = a /\ carry[r].req = q /\ carry[r].from = n
              /\ Released(q) /\ SaidUpTo(q, n) /\ OnlyCarried(r, a, q)
    BY <1>1, CarriedText
<1>4. OthersStay(r) /\ pc'[r] = "done" /\ reply'[r] = [kind |-> "part", req |-> q, part |-> n]
  <2>1. Finish(r, [kind |-> "part", req |-> q, part |-> n])
      BY <1>3 DEF Clear, Spoken
  <2> QED BY <1>1, <2>1, Returns
<1>5. pending' = [pending EXCEPT ![a] = NoRow]
    BY <1>3 DEF Clear, Stored, ClearPending
<1>6. \A p \in Requests : Released(p) => Released(p)'
    BY <1>1, <1>2, <1>4, ReleasedStays
<1>7. /\ \A p \in Requests : ~Ready(a, p)'
      /\ \A b \in Apps : b # a => pending'[b] = pending[b]
    BY <1>1, <1>5 DEF Ready, NoRow, TypeOK
<1>8. ASSUME NEW p \in Requests, Rest(a, p)'
      PROVE  /\ Released(p)
             /\ \/ p = q /\ continuation'[a].from = n + 1
                \/ p # q /\ SaidUpTo(p, continuation'[a].from)
  <2>1. PICK m \in Nat : continuation[a].from = m
      BY <1>1, Constants DEF TypeOK
  <2>2. Rest(a, p) /\ RestIsNext(a, p, m)
      BY <1>2, <1>8 DEF Rest, DeliveryInv, SurfaceKept
  <2>3. CASE p = q
      BY <1>1, <1>2, <1>3, <2>1, <2>2, <2>3 DEF OnlyCarried, RestIsNext
  <2>4. CASE p # q
    <3>1. \A t \in Requests : Clearing(t, a) => t = r
        BY <1>1, <1>3 DEF DeliveryInv, Alone, Clearing, Active
    <3> QED BY <1>2, <1>3, <2>1, <2>2, <2>4, <3>1 DEF RestIsNext
  <2> QED BY <2>3, <2>4
<1> QED BY <1>1, <1>2, <1>3, <1>4, <1>6, <1>7, <1>8, SpeakStep

\* The mark replaces whatever the surface's row held.
LEMMA MarkDelivers ==
    ASSUME DeliveryInv, TypeInv', SurfaceInv', HandedOver', NEW r \in Requests, Mark(r, "ok")
    PROVE  DeliveryInv'
<1>1. TypeOK /\ Active(r) /\ pc[r] = "mark" /\ reply[r] = NoReply /\ app[r] \in Apps
    BY DEF DeliveryInv, TypeInv, Unanswered, Arrived, Mark, Active
<1>2. UNCHANGED <<app, continuation, work>> /\ \A q \in Requests : q # r => handle'[q] = handle[q]
    BY <1>1 DEF Mark, inputVars, TypeOK
<1>3. PICK a \in Apps : app[r] = a
    BY <1>1
<1>4. OthersStay(r) /\ pc'[r] = "done" /\ reply'[r].kind # "part"
    BY <1>1, Returns DEF Mark, Fail, Plain
<1>5. \A p \in Requests : Released(p) => Released(p)'
    BY <1>1, <1>2, <1>4, ReleasedStays
<1>6. \A p, m : SaidUpTo(p, m) => SaidUpTo(p, m)'
  <2>1. Silence
      BY <1>1, <1>4 DEF Silence, OthersStay, NoReply, Plain
  <2> QED BY <2>1, SilenceKeepsSaid
<1>7. /\ \A p \in Requests : ~Ready(a, p)'
      /\ \A b \in Apps : b # a => pending'[b] = pending[b]
    BY <1>1, <1>3 DEF Mark, Stored, MarkThinking, Ready, TypeOK
<1>8. SurfaceKept(a)'
  <2>1. SurfaceKept(a)
      BY DEF DeliveryInv
  <2>2. ASSUME NEW p \in Requests, NEW m \in Nat
        PROVE  RestIsNext(a, p, m)'
    <3>1. ASSUME Rest(a, p)', continuation'[a].from = m
          PROVE  Released(p) /\ SaidUpTo(p, m)
        BY <1>1, <1>2, <1>3, <2>1, <3>1, NoneClearing DEF SurfaceKept, RestIsNext, Rest
    <3> QED BY <1>5, <1>6, <3>1 DEF RestIsNext
  <2> QED BY <1>7, <2>2 DEF SurfaceKept, ReadyIsUnsaid, OnePlace
<1>9. RequestKept(r)'
    BY <1>4, SilentRequestKept DEF Speaking
<1> QED BY <1>1, <1>2, <1>3, <1>4, <1>5, <1>7, <1>8, <1>9, SilentStep

\* The saver stores an answer of which nothing was said.
LEMMA SaverDelivers ==
    ASSUME DeliveryInv, TypeInv', SurfaceInv', HandedOver', NEW r \in Requests, Saver(r, "ok")
    PROVE  DeliveryInv'
<1>1. TypeOK /\ handle[r] = "saver" /\ pc[r] = "done" /\ app[r] \in Apps
    BY DEF DeliveryInv, TypeInv, HandedOver, Arrived, Saver
<1>2. /\ UNCHANGED <<pc, app, carry, reply, continuation, work>> /\ handle'[r] = "closed"
      /\ \A q \in Requests : q # r => handle'[q] = handle[q]
    BY <1>1 DEF Saver, inputVars, TypeOK
<1>3. PICK a \in Apps : app[r] = a
    BY <1>1
<1>4. OthersStay(r) /\ \A p \in Requests : Released(p) => Released(p)'
    BY <1>1, <1>2 DEF OthersStay, Released
<1>5. \A p, m : SaidUpTo(p, m) => SaidUpTo(p, m)'
    BY <1>2, SilenceKeepsSaid DEF Silence
<1>6. ~Released(r) /\ SaidUpTo(r, 1)'
    BY <1>1, <1>5 DEF Released, DeliveryInv, NothingSaidYet
<1>7. /\ \A p \in Requests : Ready(a, p)' => p = r /\ Released(r)'
      /\ \A b \in Apps : b # a => pending'[b] = pending[b]
    BY <1>1, <1>2, <1>3 DEF Saver, Stored, SaveReady, ClearPending, NoRow, Ready, Released, TypeOK
<1>8. ~Rest(a, r)
    BY <1>1, <1>6, Constants DEF DeliveryInv, SurfaceKept, RestIsNext, TypeOK
<1>9. SurfaceKept(a)'
  <2>1. SurfaceKept(a)
      BY DEF DeliveryInv
  <2>2. ASSUME NEW p \in Requests
        PROVE  ReadyIsUnsaid(a, p)' /\ OnePlace(a, p)'
      BY <1>2, <1>6, <1>7, <1>8 DEF ReadyIsUnsaid, OnePlace, Rest
  <2>3. ASSUME NEW p \in Requests, NEW m \in Nat
        PROVE  RestIsNext(a, p, m)'
      BY <1>2, <1>4, <1>5, <2>1 DEF SurfaceKept, RestIsNext, Rest, Clearing
  <2> QED BY <2>2, <2>3 DEF SurfaceKept
<1>10. ASSUME NEW q \in Requests, q # r, app[q] = a
       PROVE  RequestKept(q)'
  <2>1. RequestKept(q)
      BY DEF DeliveryInv
  <2>2. pc[q] \in Speaking => carry[q].req # r
      BY <1>1, <1>6, <2>1, Constants DEF RequestKept, CarryIsNext, TypeOK
  <2>3. ASSUME NEW p \in Requests, NEW m \in Nat
        PROVE  CarryIsNext(q, p, m)'
      BY <1>2, <1>4, <1>5, <2>1 DEF RequestKept, CarryIsNext
  <2>4. ASSUME NEW p \in Requests, NEW b \in Apps
        PROVE  OnlyCarried(q, b, p)'
      BY <1>2, <1>7, <1>10, <2>1, <2>2 DEF RequestKept, OnlyCarried, Rest, Speaking
  <2> QED BY <2>3, <2>4 DEF RequestKept
<1>11. RequestKept(r)'
    BY <1>1, <1>2, SilentRequestKept DEF Speaking
<1> QED BY <1>1, <1>2, <1>3, <1>4, <1>7, <1>9, <1>10, <1>11, SilentStep DEF Active

LEMMA NextDeliveryInv ==
    ASSUME ~Overlap, ~MayCrash, StoreOutcomes = {"ok"}
    PROVE  DeliveryInv /\ [Next]_vars => DeliveryInv'
<1> SUFFICES ASSUME DeliveryInv, [Next]_vars PROVE DeliveryInv'
    OBVIOUS
<1>t. TypeInv' /\ SurfaceInv' /\ HandedOver' /\ TypeOK
    BY NextTypeInv, NextSurfaceInv, NextHandedOver DEF DeliveryInv, TypeInv
<1>1. ASSUME NEW r \in Requests, NEW a \in Apps, NEW i \in Inputs, Arrive(r, a, i)
      PROVE  DeliveryInv'
    BY <1>1, <1>t, ArriveDelivers
<1>2. ASSUME NEW r \in Requests, Handler(r)
      PROVE  DeliveryInv'
    BY <1>2, <1>t, WalkDelivers, TakeDelivers, AgainDelivers, KeepDelivers, PollDelivers, DeliverDelivers,
       ClearDelivers, MarkDelivers, CollectDelivers DEF Handler
<1>3. ASSUME NEW r \in Requests, NEW o \in StoreOutcomes, Saver(r, o)
      PROVE  DeliveryInv'
    BY <1>3, <1>t, SaverDelivers
<1>4. ASSUME NEW r \in Requests,
             \/ \E o \in RuntimeOutcomes : StartThread(r, o) \/ Turn(r, o)
             \/ \E o \in StoreOutcomes : SaveThread(r, o)
             \/ Cancelled(r)
      PROVE  DeliveryInv'
  <2>1. UNCHANGED <<pc, app, carry, reply, handle, pending, continuation>>
      BY <1>4 DEF StartThread, Turn, SaveThread, Cancelled, inputVars, storeVars
  <2>2. work[r] # "ok" /\ \A q \in Requests : q # r => work'[q] = work[q]
      BY <1>4, <1>t DEF StartThread, Turn, SaveThread, Cancelled, EndWork, Working, TypeOK
  <2>3. \A q \in Requests : Released(q) => Released(q)'
      BY <2>1, <2>2 DEF Released
  <2> QED BY <1>t, <2>1, <2>3, QuietStep DEF Ready
<1>5. ASSUME NEW a \in Apps, ExpirePending(a) \/ ExpireContinuation(a)
      PROVE  DeliveryInv'
  <2>1. UNCHANGED <<pc, app, carry, reply, work, handle>>
      BY <1>5 DEF ExpirePending, ExpireContinuation, inputVars, taskVars
  <2>2. /\ \A b \in Apps, q \in Requests : Ready(b, q)' => Ready(b, q)
        /\ \A b \in Apps : /\ continuation'[b].req = continuation[b].req
                           /\ continuation'[b].from = continuation[b].from
    <3>1. CASE ExpirePending(a)
      <4>1. \A b \in Apps : pending'[b].status = pending[b].status /\ pending'[b].req = pending[b].req
          BY <1>t, <3>1 DEF ExpirePending, TypeOK
      <4> QED BY <3>1, <4>1 DEF ExpirePending, Ready
    <3>2. CASE ExpireContinuation(a)
      <4>1. \A b \in Apps : /\ continuation'[b].req = continuation[b].req
                            /\ continuation'[b].from = continuation[b].from
          BY <1>t, <3>2 DEF ExpireContinuation, TypeOK
      <4> QED BY <3>2, <4>1 DEF ExpireContinuation, Ready
    <3> QED BY <1>5, <3>1, <3>2
  <2>3. \A q \in Requests : Released(q) => Released(q)'
      BY <2>1 DEF Released
  <2> QED BY <1>t, <2>1, <2>2, <2>3, QuietStep
<1>6. CASE UNCHANGED vars
  <2>1. \A q \in Requests : Released(q) => Released(q)'
      BY <1>6 DEF vars, taskVars, Released
  <2> QED BY <1>6, <1>t, <2>1, QuietStep DEF vars, inputVars, storeVars, Ready
<1> QED BY <1>1, <1>2, <1>3, <1>4, <1>5, <1>6 DEF Next, Task, Idle, Crash

\* Through deadlines, deferred answers, continuations, expiry and failures of
\* the runtime no chunk of an answer is spoken twice, while a surface calls
\* again only after its reply, the process lives and the store answers.
THEOREM NoChunkTwice ==
    ASSUME ~Overlap, ~MayCrash, StoreOutcomes = {"ok"}
    PROVE  Spec => []SaidOnce
<1>1. DeliveryInv => SaidOnce
    BY DEF DeliveryInv
<1> QED BY <1>1, InitDeliveryInv, NextDeliveryInv, PTL DEF Spec

\* Under the same conditions an answer is spoken from its first chunk on, with
\* none skipped: respond takes a continuation where the chunk before it ended.
THEOREM SpokenInOrder ==
    ASSUME ~Overlap, ~MayCrash, StoreOutcomes = {"ok"}
    PROVE  Spec => []ChunksInOrder
<1>1. DeliveryInv => ChunksInOrder
    BY DEF DeliveryInv
<1> QED BY <1>1, InitDeliveryInv, NextDeliveryInv, PTL DEF Spec

----------------------------------------------------------------------------
(* No row expires. *)

\* What the request under way knows of its surface's rows.
RowsKnown(r) ==
    /\ pc[r] \notin Speaking => carry[r] = NoText
    /\ pc[r] \in {"again", "keep", "poll", "gate", "wait", "mark", "deliver"} =>
          continuation[app[r]] = NoRest
    /\ pc[r] = "clear" => continuation[app[r]] = Remaining(carry[r])
    /\ pc[r] \in {"deliver", "clear"} => Ready(app[r], carry[r].req) /\ carry[r].from = 1
    /\ pc[r] \in {"gate", "wait", "mark"} => pending[app[r]] = NoRow

\* A work task has someone waiting for it, and the mark of a saver stays.
Awaited(r) ==
    /\ handle[r] \in {"none", "saver", "closed"} /\ pc[r] # "gone"
    /\ handle[r] = "saver" => pending[app[r]] = [status |-> "thinking", req |-> r, age |-> "live"]
    /\ Working(r) \/ (work[r] = "ok" /\ ~Released(r)) =>
          pc[r] \in {"wait", "mark"} \/ handle[r] = "saver"
    /\ parts[r] > 0 => work[r] = "ok"

LiveRows ==
    \A a \in Apps : /\ pending[a].age = "live" /\ continuation[a].age = "live"
                    /\ pending[a].req = None => pending[a] = NoRow
                    /\ continuation[a].req = None => continuation[a] = NoRest

KeepInv ==
    /\ DeliveryInv /\ LiveRows /\ NothingLost
    /\ \A r \in Requests : RowsKnown(r) /\ Awaited(r)

LEMMA InitKeepInv == Init => KeepInv
<1> SUFFICES ASSUME Init PROVE KeepInv
    OBVIOUS
<1>1. LiveRows
    BY Constants DEF Init, LiveRows, NoRow, NoRest
<1>2. NothingLost
    BY DEF Init, NothingLost
<1>3. ASSUME NEW r \in Requests
      PROVE  RowsKnown(r) /\ Awaited(r)
    BY DEF Init, RowsKnown, Awaited, Working, Speaking
<1> QED BY <1>1, <1>2, <1>3, InitDeliveryInv DEF KeepInv

\* Where request r of surface a may hold chunk n of the answer to q.
OwnHeld(r, a, q, n) ==
    \/ q = r /\ work[r] = "ok" /\ (pc[r] \in {"wait", "mark"} \/ handle[r] = "saver")
    \/ Ready(a, q)
    \/ Rest(a, q) /\ continuation[a].from <= n
    \/ carry[r].req = q /\ carry[r].from <= n

\* A step of respond for r moves what r and its surface hold; the rest stays.
LEMMA OwnStep ==
    ASSUME KeepInv, DeliveryInv', NEW r \in Requests, NEW a \in Apps, app[r] = a, Active(r),
           UNCHANGED <<app, parts>>, OthersStay(r),
           \A q \in Requests : q # r => work'[q] = work[q] /\ handle'[q] = handle[q],
           \A b \in Apps : b # a => pending'[b] = pending[b] /\ continuation'[b] = continuation[b],
           pending[a].status = "thinking" => pending'[a] = pending[a],
           LiveRows', RowsKnown(r)', Awaited(r)',
           \A q \in Requests : \A n \in 1 .. parts[q] :
              OwnHeld(r, a, q, n) => OwnHeld(r, a, q, n)' \/ Said(q, n)' \/ Declined(q, n)'
    PROVE  KeepInv'
<1>1. reply[r] = NoReply
    BY DEF KeepInv, DeliveryInv, Unanswered, Active
<1>2. \A q, n : (Said(q, n) => Said(q, n)') /\ (Declined(q, n) => Declined(q, n)')
  <2>1. \A p \in Requests : reply'[p] = reply[p] \/ reply[p].kind = "none"
      BY <1>1 DEF OthersStay, NoReply, Plain
  <2> QED BY <2>1 DEF Said, Declined
<1>3. ASSUME NEW q \in Requests, NEW n \in 1 .. parts[q], Held(q, n)
      PROVE  Said(q, n)' \/ Declined(q, n)' \/ Held(q, n)'
  <2>1. OwnHeld(r, a, q, n)' => Held(q, n)'
      BY DEF OwnHeld, Held, Ready, Rest
  <2>2. OwnHeld(r, a, q, n) \/ Held(q, n)'
      BY <1>3 DEF OwnHeld, Held, Ready, Rest, OthersStay
  <2> QED BY <2>1, <2>2
<1>4. NothingLost'
    BY <1>2, <1>3 DEF KeepInv, NothingLost
<1>5. ASSUME NEW q \in Requests, q # r
      PROVE  RowsKnown(q)' /\ Awaited(q)'
  <2>1. RowsKnown(q) /\ Awaited(q) /\ pc'[q] = pc[q] /\ carry'[q] = carry[q] /\ app'[q] = app[q]
      BY <1>5 DEF KeepInv, OthersStay
  <2>2. handle[q] = "saver" => pending'[app[q]] = pending[app[q]]
    <3>1. handle[q] = "saver" => app[q] \in Apps
        BY DEF KeepInv, DeliveryInv, HandedOver, TypeInv, Arrived
    <3> QED BY <2>1, <3>1 DEF Awaited
  <2>3. Awaited(q)'
    <3>1. (Working(q)' <=> Working(q)) /\ (Released(q)' <=> Released(q)) /\ parts'[q] = parts[q]
        BY <1>5, <2>1 DEF Working, Released
    <3> QED BY <1>5, <2>1, <2>2, <3>1 DEF Awaited
  <2>4. CASE ~Active(q)
      BY <2>1, <2>3, <2>4 DEF RowsKnown, Active, Speaking
  <2>5. CASE Active(q)
    <3>1. app[q] \in Apps /\ app[q] # a
        BY <1>5, <2>5 DEF KeepInv, DeliveryInv, Alone, Active, TypeInv, Arrived
    <3>2. Remaining(carry[q])' = Remaining(carry[q])
        BY <2>1 DEF Remaining
    <3>3. pending'[app'[q]] = pending[app[q]] /\ continuation'[app'[q]] = continuation[app[q]]
        BY <2>1, <3>1
    <3>4. Ready(app[q], carry[q].req)' <=> Ready(app[q], carry[q].req)
        BY <2>1, <3>3 DEF Ready
    <3> QED BY <2>1, <2>3, <3>2, <3>3, <3>4 DEF RowsKnown
  <2> QED BY <2>4, <2>5
<1> QED BY <1>4, <1>5 DEF KeepInv

\* What is known of a request under way.
LEMMA UnderWay ==
    ASSUME KeepInv, NEW r \in Requests, Active(r)
    PROVE  /\ TypeOK /\ DeliveryInv /\ LiveRows /\ RowsKnown(r) /\ Awaited(r)
           /\ app[r] \in Apps /\ handle[r] = "none" /\ reply[r] = NoReply
    BY DEF KeepInv, DeliveryInv, TypeInv, Arrived, HandedOver, Unanswered, Active

\* Before and after respond waits for its work, that work is none or done with.
LEMMA AwaitedStays ==
    ASSUME KeepInv, NEW r \in Requests, Active(r), pc[r] \notin {"wait", "mark"},
           UNCHANGED <<work, handle, parts>>, pc'[r] # "gone", pc[r] = "keep" => pc'[r] = "done"
    PROVE  Awaited(r)'
<1>1. Awaited(r) /\ handle[r] = "none"
    BY UnderWay
<1>2. Released(r) => Released(r)'
    BY <1>1 DEF Released, Active
<1>3. ~Working(r)' /\ (work'[r] = "ok" => Released(r)')
    BY <1>1, <1>2 DEF Awaited, Working
<1> QED BY <1>1, <1>3 DEF Awaited

\* Steps of respond on the way to its work.
LEMMA WalkKeeps ==
    ASSUME KeepInv, DeliveryInv', NEW r \in Requests, Resolve(r, "ok") \/ Gate(r) \/ Deadline(r)
    PROVE  KeepInv'
<1>0. pc[r] \in {"resolve", "gate", "wait"} /\ Active(r)
    BY DEF Resolve, Gate, Deadline, Active
<1>1. /\ TypeOK /\ LiveRows /\ RowsKnown(r) /\ Awaited(r) /\ handle[r] = "none"
      /\ carry[r] = NoText /\ reply[r] = NoReply /\ app[r] \in Apps
    BY <1>0, UnderWay DEF RowsKnown, Speaking
<1>2. PICK a \in Apps : app[r] = a
    BY <1>1
<1>3. /\ UNCHANGED <<app, pending, continuation, handle, parts>>
      /\ \A q \in Requests : q # r => work'[q] = work[q]
    BY <1>1 DEF Resolve, Gate, Deadline, inputVars, taskVars, storeVars, TypeOK
<1>4. \/ \E kind \in {"turnedAway", "greeting", "busy"} : Finish(r, Plain(kind))
      \/ \E location \in {"take", "wait", "mark"} : Goto(r, location) /\ UNCHANGED <<carry, reply>>
    BY DEF Resolve, Gate, Deadline
<1>5. OthersStay(r) /\ carry'[r] = NoText
  <2>1. ASSUME NEW kind \in {"turnedAway", "greeting", "busy"}, Finish(r, Plain(kind))
        PROVE  <1>5
      BY <1>1, <2>1, Returns
  <2>2. ASSUME NEW location \in {"take", "wait", "mark"}, Goto(r, location), UNCHANGED <<carry, reply>>
        PROVE  <1>5
      BY <1>1, <2>2 DEF Goto, OthersStay, TypeOK
  <2> QED BY <1>4, <2>1, <2>2
<1>6. /\ pc[r] = "resolve" => pc'[r] \in {"done", "take"}
      /\ pc[r] = "gate"    => pc'[r] \in {"done", "wait"}
      /\ pc[r] = "wait"    => pc'[r] = "mark"
    BY <1>1 DEF Resolve, Gate, Deadline, Finish, Fail, Goto, TypeOK
<1>7. RowsKnown(r)'
    BY <1>0, <1>1, <1>3, <1>5, <1>6 DEF RowsKnown, Speaking
<1>8. Awaited(r)'
  <2>1. CASE UNCHANGED work /\ pc[r] \in {"resolve", "gate"}
      BY <1>0, <1>3, <1>6, <2>1, AwaitedStays
  <2>2. CASE UNCHANGED work /\ pc[r] = "wait"
      BY <1>1, <1>3, <1>6, <2>2 DEF Awaited
  <2>3. CASE pc[r] = "gate" /\ pc'[r] = "wait" /\ work'[r] \in {"start", "turn"}
    <3>1. parts[r] \in Nat /\ work[r] # "ok"
        BY <1>1, <2>3, Constants DEF Awaited, Released, TypeOK
    <3>2. ~(parts'[r] > 0)
        BY <1>1, <1>3, <3>1 DEF Awaited
    <3> QED BY <1>1, <1>3, <2>3, <3>2 DEF Awaited
  <2>4. \/ UNCHANGED work
        \/ pc[r] = "gate" /\ pc'[r] = "wait" /\ work'[r] \in {"start", "turn"}
      BY <1>1 DEF Resolve, Gate, Deadline, taskVars, Goto, TypeOK
  <2> QED BY <1>0, <2>1, <2>2, <2>3, <2>4
<1>9. ASSUME NEW q \in Requests, NEW n \in 1 .. parts[q], OwnHeld(r, a, q, n)
      PROVE  OwnHeld(r, a, q, n)'
  <2>1. CASE Ready(a, q) \/ (Rest(a, q) /\ continuation[a].from <= n)
      BY <1>3, <2>1 DEF OwnHeld, Ready, Rest
  <2>2. CASE q = r /\ work[r] = "ok" /\ pc[r] \in {"wait", "mark"}
    <3>1. pc[r] = "wait" /\ UNCHANGED work
        BY <1>0, <2>2 DEF Resolve, Gate, Deadline, taskVars
    <3> QED BY <1>6, <2>2, <3>1 DEF OwnHeld
  <2> QED BY <1>1, <1>9, <2>1, <2>2, Constants DEF OwnHeld, NoText
<1>10. LiveRows'
    BY <1>1, <1>3 DEF LiveRows
<1> QED BY <1>0, <1>2, <1>3, <1>5, <1>7, <1>8, <1>9, <1>10, OwnStep

\* A row that is not ready, or an answer that is, leaves the rows alone.
LEMMA PollKeeps ==
    ASSUME KeepInv, DeliveryInv', NEW r \in Requests, Poll(r, "ok")
    PROVE  KeepInv'
<1>0. pc[r] = "poll" /\ Active(r)
    BY DEF Poll, Active
<1>1. /\ TypeOK /\ LiveRows /\ RowsKnown(r) /\ handle[r] = "none"
      /\ carry[r] = NoText /\ reply[r] = NoReply /\ app[r] \in Apps
    BY <1>0, UnderWay DEF RowsKnown, Speaking
<1>2. PICK a \in Apps : app[r] = a
    BY <1>1
<1>3. UNCHANGED <<app, pending, continuation, work, handle, parts>>
    BY DEF Poll, inputVars, taskVars, storeVars
<1>4. /\ OthersStay(r) /\ pc'[r] \in {"done", "gate", "deliver"}
      /\ pc'[r] # "deliver" => carry'[r] = NoText
      /\ pc'[r] = "gate" => pending[a] = NoRow
      /\ pc'[r] = "deliver" => carry'[r] = [req |-> pending[a].req, from |-> 1] /\ pending[a].status = "ready"
  <2>1. CASE Finish(r, Plain("stillThinking"))
      BY <1>1, <2>1, Returns
  <2>2. CASE ~Deliverable(pending[a]) /\ Goto(r, "gate") /\ UNCHANGED <<carry, reply>>
      BY <1>1, <2>2 DEF Goto, OthersStay, TypeOK, Deliverable, LiveRows
  <2>3. CASE /\ pending[a].status = "ready" /\ Goto(r, "deliver") /\ UNCHANGED reply
             /\ carry' = [carry EXCEPT ![r] = [req |-> pending[a].req, from |-> 1]]
      BY <1>1, <2>3 DEF Goto, OthersStay, TypeOK
  <2> QED BY <1>2, <2>1, <2>2, <2>3 DEF Poll
<1>5. RowsKnown(r)'
    BY <1>0, <1>1, <1>2, <1>3, <1>4 DEF RowsKnown, Speaking, Ready
<1>6. Awaited(r)'
    BY <1>0, <1>3, <1>4, AwaitedStays
<1>7. ASSUME NEW q \in Requests, NEW n \in 1 .. parts[q], OwnHeld(r, a, q, n)
      PROVE  OwnHeld(r, a, q, n)'
    BY <1>0, <1>1, <1>3, <1>7, Constants DEF OwnHeld, Ready, Rest, NoText
<1>8. LiveRows'
    BY <1>1, <1>3 DEF LiveRows
<1> QED BY <1>0, <1>2, <1>3, <1>4, <1>5, <1>6, <1>7, <1>8, OwnStep

\* The answer goes from the work task to respond.
LEMMA CollectKeeps ==
    ASSUME KeepInv, DeliveryInv', NEW r \in Requests, Collect(r)
    PROVE  KeepInv'
<1>0. pc[r] = "wait" /\ Active(r)
    BY DEF Collect, Active
<1>1. /\ TypeOK /\ LiveRows /\ RowsKnown(r) /\ Awaited(r) /\ handle[r] = "none"
      /\ carry[r] = NoText /\ reply[r] = NoReply /\ app[r] \in Apps
    BY <1>0, UnderWay DEF RowsKnown, Speaking
<1>2. PICK a \in Apps : app[r] = a
    BY <1>1
<1>3. UNCHANGED <<app, pending, continuation, work, handle, parts>>
    BY DEF Collect, inputVars, taskVars, storeVars
<1>4. /\ OthersStay(r)
      /\ \/ pc'[r] = "done" /\ carry'[r] = NoText /\ work[r] = "err"
         \/ pc'[r] = "keep" /\ carry'[r] = [req |-> r, from |-> 1] /\ work[r] = "ok"
  <2>1. CASE work[r] = "err" /\ Fail(r)
      BY <1>1, <2>1, Returns DEF Fail
  <2>2. CASE /\ work[r] = "ok" /\ Goto(r, "keep") /\ UNCHANGED reply
             /\ carry' = [carry EXCEPT ![r] = [req |-> r, from |-> 1]]
      BY <1>1, <2>2 DEF Goto, OthersStay, TypeOK
  <2> QED BY <2>1, <2>2 DEF Collect
<1>5. RowsKnown(r)'
    BY <1>0, <1>1, <1>3, <1>4 DEF RowsKnown, Speaking
<1>6. Awaited(r)'
    BY <1>1, <1>3, <1>4 DEF Awaited, Working, Released
<1>7. ASSUME NEW q \in Requests, NEW n \in 1 .. parts[q], OwnHeld(r, a, q, n)
      PROVE  OwnHeld(r, a, q, n)'
  <2>1. CASE q = r /\ work[r] = "ok"
    <3>1. parts[q] \in Nat /\ carry'[r].req = q /\ carry'[r].from = 1
        BY <1>1, <1>4, <2>1, Constants DEF TypeOK
    <3>2. carry'[r].from <= n
        BY <3>1
    <3> QED BY <3>1, <3>2 DEF OwnHeld
  <2>2. CASE Ready(a, q) \/ (Rest(a, q) /\ continuation[a].from <= n)
      BY <1>3, <2>2 DEF OwnHeld, Ready, Rest
  <2> QED BY <1>1, <1>7, <2>1, <2>2, Constants DEF OwnHeld, NoText
<1>8. LiveRows'
    BY <1>1, <1>3 DEF LiveRows
<1> QED BY <1>0, <1>2, <1>3, <1>4, <1>5, <1>6, <1>7, <1>8, OwnStep

\* A continuation is offered to the listener, or declined.
LEMMA TakeKeeps ==
    ASSUME KeepInv, DeliveryInv', NEW r \in Requests, Take(r, "ok")
    PROVE  KeepInv'
<1>0. pc[r] = "take" /\ Active(r)
    BY DEF Take, Active
<1>1. /\ TypeOK /\ LiveRows /\ RowsKnown(r) /\ handle[r] = "none"
      /\ carry[r] = NoText /\ reply[r] = NoReply /\ app[r] \in Apps
    BY <1>0, UnderWay DEF RowsKnown, Speaking
<1>2. PICK a \in Apps : app[r] = a
    BY <1>1
<1>3. UNCHANGED <<app, pending, work, handle, parts>>
    BY DEF Take, inputVars, taskVars
<1>4. /\ continuation'[a] = NoRest
      /\ \A b \in Apps : b # a => continuation'[b] = continuation[b]
    BY <1>1, <1>2 DEF Take, Stored, TakeContinuation, Deliverable, LiveRows, TypeOK
<1>5. /\ OthersStay(r) /\ pc'[r] \in {"poll", "done", "again", "keep"}
      /\ pc'[r] \in {"poll", "done"} => carry'[r] = NoText
      /\ pc'[r] = "poll" => continuation[a].req = None
      /\ pc'[r] = "done" => reply'[r] = [kind |-> "stopped", req |-> continuation[a].req,
                                         part |-> continuation[a].from]
      /\ pc'[r] \in {"again", "keep"} =>
            carry'[r] = [req |-> continuation[a].req, from |-> continuation[a].from]
  <2>1. CASE ~Deliverable(continuation[a]) /\ Goto(r, "poll") /\ UNCHANGED <<carry, reply>>
      BY <1>1, <2>1 DEF Goto, OthersStay, TypeOK, Deliverable, LiveRows
  <2>2. CASE Finish(r, [kind |-> "stopped", req |-> continuation[a].req, part |-> continuation[a].from])
      BY <1>1, <2>2 DEF Finish, Goto, OthersStay, TypeOK
  <2>3. CASE /\ Goto(r, "again") \/ Goto(r, "keep")
             /\ carry' = [carry EXCEPT ![r] = [req |-> continuation[a].req,
                                               from |-> continuation[a].from]]
             /\ UNCHANGED reply
      BY <1>1, <2>3 DEF Goto, OthersStay, TypeOK
  <2> QED BY <1>2, <2>1, <2>2, <2>3 DEF Take, AnswerContinuation
<1>6. RowsKnown(r)'
    BY <1>2, <1>3, <1>4, <1>5 DEF RowsKnown, Speaking
<1>7. Awaited(r)'
    BY <1>0, <1>3, <1>5, AwaitedStays
<1>8. ASSUME NEW q \in Requests, NEW n \in 1 .. parts[q], OwnHeld(r, a, q, n)
      PROVE  OwnHeld(r, a, q, n)' \/ Said(q, n)' \/ Declined(q, n)'
  <2>1. CASE Ready(a, q)
      BY <1>3, <2>1 DEF OwnHeld, Ready
  <2>2. CASE Rest(a, q) /\ continuation[a].from <= n
    <3>1. pc'[r] # "poll"
        BY <1>5, <2>2, Constants DEF Rest
    <3>2. CASE pc'[r] = "done"
        BY <1>5, <2>2, <3>2 DEF Declined, Rest
    <3>3. CASE pc'[r] \in {"again", "keep"}
        BY <1>5, <2>2, <3>3 DEF OwnHeld, Rest
    <3> QED BY <1>5, <3>1, <3>2, <3>3
  <2> QED BY <1>0, <1>1, <1>8, <2>1, <2>2, Constants DEF OwnHeld, NoText
<1>9. LiveRows'
    BY <1>1, <1>3, <1>4 DEF LiveRows, NoRest
<1> QED BY <1>0, <1>2, <1>3, <1>4, <1>5, <1>6, <1>7, <1>8, <1>9, OwnStep

\* What a request about to speak carries, and what is left of it.
LEMMA AboutToSpeak ==
    ASSUME KeepInv, NEW r \in Requests, pc[r] \in Speaking
    PROVE  \E a \in Apps, q \in Requests, n \in Nat :
              /\ app[r] = a /\ carry[r].req = q /\ carry[r].from = n
              /\ n < parts[q] =>
                    Remaining(carry[r]) = [req |-> q, from |-> n + 1, age |-> "live"]
              /\ ~(n < parts[q]) => Remaining(carry[r]) = NoRest
<1>1. app[r] \in Apps /\ carry[r].req \in Requests /\ carry[r].from \in Nat
    BY Constants DEF KeepInv, DeliveryInv, TypeInv, TypeOK, CarryNamesAnswer, Arrived, Speaking
<1>2. /\ carry[r].from < parts[carry[r].req] =>
            Remaining(carry[r]) = [req |-> carry[r].req, from |-> carry[r].from + 1, age |-> "live"]
      /\ ~(carry[r].from < parts[carry[r].req]) => Remaining(carry[r]) = NoRest
    BY DEF Remaining
<1> QED BY <1>1, <1>2

\* The chunks go back into the empty row.
LEMMA AgainKeeps ==
    ASSUME KeepInv, DeliveryInv', NEW r \in Requests, Again(r, "ok")
    PROVE  KeepInv'
<1>0. pc[r] = "again" /\ Active(r) /\ pc[r] \in Speaking
    BY DEF Again, Active, Speaking
<1>1. TypeOK /\ LiveRows /\ RowsKnown(r) /\ handle[r] = "none"
    BY <1>0, UnderWay
<1>2. PICK a \in Apps, p \in Requests, m \in Nat :
          app[r] = a /\ carry[r].req = p /\ carry[r].from = m
    BY <1>0, AboutToSpeak
<1>3. UNCHANGED <<app, pending, work, handle, parts>>
    BY DEF Again, inputVars, taskVars
<1>4. /\ continuation'[a] = [req |-> p, from |-> m, age |-> "live"]
      /\ \A b \in Apps : b # a => continuation'[b] = continuation[b]
    BY <1>1, <1>2 DEF Again, Stored, SaveContinuation, TypeOK
<1>5. OthersStay(r) /\ pc'[r] = "done" /\ carry'[r] = NoText
    BY <1>1, Returns DEF Again, Fail
<1>6. RowsKnown(r)'
    BY <1>5 DEF RowsKnown
<1>7. Awaited(r)'
    BY <1>0, <1>3, <1>5, AwaitedStays
<1>8. ASSUME NEW q \in Requests, NEW n \in 1 .. parts[q], OwnHeld(r, a, q, n)
      PROVE  OwnHeld(r, a, q, n)'
  <2>1. CASE Ready(a, q)
      BY <1>3, <2>1 DEF OwnHeld, Ready
  <2>2. ~Rest(a, q)
      BY <1>0, <1>1, <1>2, Constants DEF RowsKnown, Rest, NoRest
  <2>3. CASE carry[r].req = q /\ carry[r].from <= n
      BY <1>2, <1>4, <2>3 DEF OwnHeld, Rest
  <2> QED BY <1>0, <1>1, <1>8, <2>1, <2>2, <2>3 DEF OwnHeld
<1>9. LiveRows'
    BY <1>1, <1>3, <1>4, Constants DEF LiveRows
<1> QED BY <1>0, <1>2, <1>3, <1>4, <1>5, <1>6, <1>7, <1>8, <1>9, OwnStep

\* A chunk is spoken and the chunks after it go into the empty row.
LEMMA KeepKeeps ==
    ASSUME KeepInv, DeliveryInv', NEW r \in Requests, Keep(r, "ok")
    PROVE  KeepInv'
<1>0. pc[r] = "keep" /\ Active(r) /\ pc[r] \in Speaking
    BY DEF Keep, Active, Speaking
<1>1. TypeOK /\ LiveRows /\ RowsKnown(r) /\ handle[r] = "none"
    BY <1>0, UnderWay
<1>2. PICK a \in Apps, p \in Requests, m \in Nat :
          /\ app[r] = a /\ carry[r].req = p /\ carry[r].from = m
          /\ m < parts[p] => Remaining(carry[r]) = [req |-> p, from |-> m + 1, age |-> "live"]
          /\ ~(m < parts[p]) => Remaining(carry[r]) = NoRest
    BY <1>0, AboutToSpeak
<1>3. UNCHANGED <<app, pending, work, handle, parts>>
    BY DEF Keep, inputVars, taskVars
<1>4. /\ continuation'[a] = Remaining(carry[r])
      /\ \A b \in Apps : b # a => continuation'[b] = continuation[b]
    BY <1>1, <1>2 DEF Keep, Stored, SaveContinuation, TypeOK
<1>5. /\ OthersStay(r) /\ pc'[r] = "done" /\ carry'[r] = NoText
      /\ reply'[r] = [kind |-> "part", req |-> p, part |-> m]
  <2>1. Finish(r, [kind |-> "part", req |-> p, part |-> m])
      BY <1>2 DEF Keep, Spoken
  <2> QED BY <1>1, <2>1, Returns
<1>6. RowsKnown(r)'
    BY <1>5 DEF RowsKnown
<1>7. Awaited(r)'
    BY <1>0, <1>3, <1>5, AwaitedStays
<1>8. ASSUME NEW q \in Requests, NEW n \in 1 .. parts[q], OwnHeld(r, a, q, n)
      PROVE  OwnHeld(r, a, q, n)' \/ Said(q, n)'
  <2>1. CASE Ready(a, q)
      BY <1>3, <2>1 DEF OwnHeld, Ready
  <2>2. ~Rest(a, q)
      BY <1>0, <1>1, <1>2, Constants DEF RowsKnown, Rest, NoRest
  <2>3. CASE q = p /\ n = m
      BY <1>5, <2>3 DEF Said
  <2>4. CASE q = p /\ n # m /\ m <= n
    <3>1. parts[p] \in Nat
        BY <1>1, Constants DEF TypeOK
    <3>2. m < parts[p] /\ m + 1 <= n
        BY <2>4, <3>1
    <3> QED BY <1>2, <1>4, <2>4, <3>2 DEF OwnHeld, Rest
  <2> QED BY <1>0, <1>1, <1>2, <1>8, <2>1, <2>2, <2>3, <2>4 DEF OwnHeld
<1>9. LiveRows'
    BY <1>1, <1>2, <1>3, <1>4, Constants DEF LiveRows, NoRest
<1> QED BY <1>0, <1>2, <1>3, <1>4, <1>5, <1>6, <1>7, <1>8, <1>9, OwnStep

\* The chunks after the first go into the empty row; the whole answer stays in
\* the other until they did.
LEMMA DeliverKeeps ==
    ASSUME KeepInv, DeliveryInv', NEW r \in Requests, Deliver(r, "ok")
    PROVE  KeepInv'
<1>0. pc[r] = "deliver" /\ Active(r) /\ pc[r] \in Speaking
    BY DEF Deliver, Active, Speaking
<1>1. TypeOK /\ LiveRows /\ RowsKnown(r) /\ handle[r] = "none"
    BY <1>0, UnderWay
<1>2. PICK a \in Apps, p \in Requests, m \in Nat :
          /\ app[r] = a /\ carry[r].req = p /\ carry[r].from = m
          /\ m < parts[p] => Remaining(carry[r]) = [req |-> p, from |-> m + 1, age |-> "live"]
          /\ ~(m < parts[p]) => Remaining(carry[r]) = NoRest
    BY <1>0, AboutToSpeak
<1>3. UNCHANGED <<app, pending, work, handle, parts, carry, reply>>
    BY DEF Deliver, inputVars, taskVars
<1>4. /\ continuation'[a] = Remaining(carry[r])
      /\ \A b \in Apps : b # a => continuation'[b] = continuation[b]
    BY <1>1, <1>2 DEF Deliver, Stored, SaveContinuation, TypeOK
<1>5. OthersStay(r) /\ pc'[r] = "clear"
    BY <1>1, <1>3 DEF Deliver, Goto, OthersStay, TypeOK
<1>6. RowsKnown(r)'
  <2>1. Remaining(carry[r])' = Remaining(carry[r])
      BY <1>3 DEF Remaining
  <2>2. Ready(app[r], carry[r].req)' /\ carry'[r].from = 1
      BY <1>0, <1>1, <1>3 DEF RowsKnown, Ready
  <2> QED BY <1>2, <1>3, <1>4, <1>5, <2>1, <2>2 DEF RowsKnown, Speaking
<1>7. Awaited(r)'
    BY <1>0, <1>3, <1>5, AwaitedStays
<1>8. ASSUME NEW q \in Requests, NEW n \in 1 .. parts[q], OwnHeld(r, a, q, n)
      PROVE  OwnHeld(r, a, q, n)'
  <2>1. ~Rest(a, q)
      BY <1>0, <1>1, <1>2, Constants DEF RowsKnown, Rest, NoRest
  <2> QED BY <1>0, <1>1, <1>3, <1>8, <2>1 DEF OwnHeld, Ready
<1>9. LiveRows'
    BY <1>1, <1>2, <1>3, <1>4, Constants DEF LiveRows, NoRest
<1> QED BY <1>0, <1>2, <1>3, <1>4, <1>5, <1>6, <1>7, <1>8, <1>9, OwnStep

\* The row is cleared: its first chunk is spoken, the others were saved.
LEMMA ClearKeeps ==
    ASSUME KeepInv, DeliveryInv', NEW r \in Requests, Clear(r, "ok")
    PROVE  KeepInv'
<1>0. pc[r] = "clear" /\ Active(r) /\ pc[r] \in Speaking
    BY DEF Clear, Active, Speaking
<1>1. TypeOK /\ LiveRows /\ RowsKnown(r) /\ handle[r] = "none"
    BY <1>0, UnderWay
<1>2. PICK a \in Apps, p \in Requests, m \in Nat :
          /\ app[r] = a /\ carry[r].req = p /\ carry[r].from = m
          /\ m < parts[p] => Remaining(carry[r]) = [req |-> p, from |-> m + 1, age |-> "live"]
          /\ ~(m < parts[p]) => Remaining(carry[r]) = NoRest
    BY <1>0, AboutToSpeak
<1>3. UNCHANGED <<app, continuation, work, handle, parts>>
    BY DEF Clear, inputVars, taskVars
<1>4. /\ pending'[a] = NoRow
      /\ \A b \in Apps : b # a => pending'[b] = pending[b]
    BY <1>1, <1>2 DEF Clear, Stored, ClearPending, TypeOK
<1>5. /\ OthersStay(r) /\ pc'[r] = "done" /\ carry'[r] = NoText
      /\ reply'[r] = [kind |-> "part", req |-> p, part |-> m]
  <2>1. Finish(r, [kind |-> "part", req |-> p, part |-> m])
      BY <1>2 DEF Clear, Spoken
  <2> QED BY <1>1, <2>1, Returns
<1>6. RowsKnown(r)'
    BY <1>5 DEF RowsKnown
<1>7. Awaited(r)'
    BY <1>0, <1>3, <1>5, AwaitedStays
<1>8. /\ pending[a].status = "ready" /\ pending[a].req = p /\ m = 1
      /\ continuation[a] = Remaining(carry[r])
    BY <1>0, <1>1, <1>2 DEF RowsKnown, Ready
<1>9. ASSUME NEW q \in Requests, NEW n \in 1 .. parts[q], OwnHeld(r, a, q, n)
      PROVE  OwnHeld(r, a, q, n)' \/ Said(q, n)'
  <2>1. CASE Rest(a, q) /\ continuation[a].from <= n
      BY <1>3, <2>1 DEF OwnHeld, Rest
  <2>2. CASE q = p /\ n = m
      BY <1>5, <2>2 DEF Said
  <2>3. CASE q = p /\ n # m
    <3>1. parts[p] \in Nat
        BY <1>1, Constants DEF TypeOK
    <3>2. m < parts[p] /\ m + 1 <= n
        BY <1>8, <2>3, <3>1
    <3> QED BY <1>2, <1>3, <1>8, <2>3, <3>2 DEF OwnHeld, Rest
  <2> QED BY <1>0, <1>1, <1>2, <1>8, <1>9, <2>1, <2>2, <2>3 DEF OwnHeld, Ready
<1>10. LiveRows'
    BY <1>1, <1>3, <1>4 DEF LiveRows, NoRow
<1> QED BY <1>0, <1>2, <1>3, <1>4, <1>5, <1>6, <1>7, <1>8, <1>9, <1>10, OwnStep

\* The mark goes into the empty row and the work to the saver.
LEMMA MarkKeeps ==
    ASSUME KeepInv, DeliveryInv', NEW r \in Requests, Mark(r, "ok")
    PROVE  KeepInv'
<1>0. pc[r] = "mark" /\ Active(r)
    BY DEF Mark, Active
<1>1. /\ TypeOK /\ LiveRows /\ RowsKnown(r) /\ Awaited(r) /\ handle[r] = "none"
      /\ carry[r] = NoText /\ app[r] \in Apps
    BY <1>0, UnderWay DEF RowsKnown, Speaking
<1>2. PICK a \in Apps : app[r] = a
    BY <1>1
<1>3. /\ UNCHANGED <<app, continuation, work, parts>> /\ handle'[r] = "saver"
      /\ \A q \in Requests : q # r => handle'[q] = handle[q]
    BY <1>1 DEF Mark, inputVars, TypeOK
<1>4. /\ pending'[a] = [status |-> "thinking", req |-> r, age |-> "live"] /\ pending[a] = NoRow
      /\ \A b \in Apps : b # a => pending'[b] = pending[b]
    BY <1>0, <1>1, <1>2 DEF Mark, Stored, MarkThinking, RowsKnown, TypeOK
<1>5. OthersStay(r) /\ pc'[r] = "done" /\ carry'[r] = NoText
    BY <1>1, Returns DEF Mark, Fail
<1>6. RowsKnown(r)'
    BY <1>5 DEF RowsKnown
<1>7. Awaited(r)'
    BY <1>1, <1>2, <1>3, <1>4, <1>5 DEF Awaited
<1>8. ASSUME NEW q \in Requests, NEW n \in 1 .. parts[q], OwnHeld(r, a, q, n)
      PROVE  OwnHeld(r, a, q, n)'
    BY <1>1, <1>3, <1>4, <1>8, Constants DEF OwnHeld, Ready, Rest, NoText, NoRow
<1>9. LiveRows'
    BY <1>1, <1>3, <1>4, Constants DEF LiveRows
<1> QED BY <1>0, <1>2, <1>3, <1>4, <1>5, <1>6, <1>7, <1>8, <1>9, OwnStep DEF NoRow

\* The answer, or nothing, replaces the mark; no other request uses the row.
LEMMA SaverKeeps ==
    ASSUME KeepInv, DeliveryInv', NEW r \in Requests, Saver(r, "ok")
    PROVE  KeepInv'
<1>1. /\ TypeOK /\ LiveRows /\ RowsKnown(r) /\ Awaited(r)
      /\ handle[r] = "saver" /\ pc[r] = "done" /\ app[r] \in Apps
    BY DEF KeepInv, DeliveryInv, TypeInv, HandedOver, Arrived, Saver
<1>2. PICK a \in Apps : app[r] = a
    BY <1>1
<1>3. /\ UNCHANGED <<pc, app, carry, reply, work, parts, continuation>> /\ handle'[r] = "closed"
      /\ \A q \in Requests : q # r => handle'[q] = handle[q]
    BY <1>1 DEF Saver, inputVars, TypeOK
<1>4. /\ pending[a] = [status |-> "thinking", req |-> r, age |-> "live"]
      /\ \A b \in Apps : b # a => pending'[b] = pending[b]
      /\ work[r] = "ok" => pending'[a] = [status |-> "ready", req |-> r, age |-> "live"]
      /\ work[r] # "ok" => pending'[a] = NoRow
      /\ work[r] \in {"ok", "err"}
    BY <1>1, <1>2 DEF Saver, Stored, SaveReady, ClearPending, Awaited, TypeOK
<1>5. LiveRows'
    BY <1>1, <1>3, <1>4, Constants DEF LiveRows, NoRow
<1>6. RowsKnown(r)'
    BY <1>1, <1>3 DEF RowsKnown
<1>7. Awaited(r)'
  <2>1. ~Working(r)' /\ (work'[r] = "ok" => Released(r)')
      BY <1>1, <1>3, <1>4 DEF Working, Released
  <2> QED BY <1>1, <1>3, <2>1 DEF Awaited
<1>8. ASSUME NEW q \in Requests, q # r
      PROVE  RowsKnown(q)' /\ Awaited(q)'
  <2>1. RowsKnown(q) /\ Awaited(q) /\ (handle[q] = "saver" \/ Active(q) => app[q] \in Apps)
      BY DEF KeepInv, DeliveryInv, TypeInv, HandedOver, Arrived, Active
  <2>2. Awaited(q)'
    <3>1. handle[q] = "saver" => app[q] # a
        BY <1>4, <1>8, <2>1 DEF Awaited
    <3>2. (Working(q)' <=> Working(q)) /\ (Released(q)' <=> Released(q))
        BY <1>3, <1>8 DEF Working, Released
    <3> QED BY <1>3, <1>4, <1>8, <2>1, <3>1, <3>2 DEF Awaited
  <2>3. RowsKnown(q)'
    <3>1. pc[q] \in {"gate", "wait", "mark", "deliver", "clear"} => app[q] # a /\ app[q] \in Apps
        BY <1>4, <2>1 DEF RowsKnown, Active, Ready, NoRow
    <3>2. Remaining(carry[q])' = Remaining(carry[q])
        BY <1>3 DEF Remaining
    <3>3. pc[q] \in {"gate", "wait", "mark", "deliver", "clear"} =>
              pending'[app'[q]] = pending[app[q]]
        BY <1>3, <1>4, <3>1
    <3>4. pc[q] \in {"deliver", "clear"} =>
              (Ready(app[q], carry[q].req)' <=> Ready(app[q], carry[q].req))
        BY <1>3, <3>3 DEF Ready
    <3> QED BY <1>3, <2>1, <3>2, <3>3, <3>4 DEF RowsKnown
  <2> QED BY <2>2, <2>3
<1>9. NothingLost'
  <2>1. ASSUME NEW q \in Requests, NEW n \in 1 .. parts[q], Held(q, n)
        PROVE  Held(q, n)'
    <3>1. CASE q = r
      <4>1. work[r] = "ok"
          BY <1>1, <3>1, Constants DEF Awaited, TypeOK
      <4> QED BY <1>4, <3>1, <4>1 DEF Held
    <3>2. CASE q # r
      <4>1. \A b \in Apps : pending[b].status = "ready" => pending'[b] = pending[b]
          BY <1>4
      <4> QED BY <1>3, <2>1, <3>2, <4>1 DEF Held
    <3> QED BY <3>1, <3>2
  <2>2. \A q, n : (Said(q, n) => Said(q, n)') /\ (Declined(q, n) => Declined(q, n)')
      BY <1>3 DEF Said, Declined
  <2> QED BY <1>3, <2>1, <2>2 DEF KeepInv, NothingLost
<1> QED BY <1>5, <1>6, <1>7, <1>8, <1>9 DEF KeepInv

\* A work task has its answer for whoever waits for it.
LEMMA WorkKeeps ==
    ASSUME KeepInv, DeliveryInv', NEW r \in Requests,
           \/ \E o \in RuntimeOutcomes : StartThread(r, o) \/ Turn(r, o)
           \/ \E o \in StoreOutcomes : SaveThread(r, o)
           \/ Cancelled(r)
    PROVE  KeepInv'
<1>1. TypeOK /\ LiveRows /\ RowsKnown(r) /\ Awaited(r)
    BY DEF KeepInv, DeliveryInv, TypeInv
<1>2. UNCHANGED <<pc, app, carry, reply, handle, pending, continuation>>
    BY DEF StartThread, Turn, SaveThread, Cancelled, inputVars, storeVars
<1>3. /\ Working(r) /\ work[r] # "ok"
      /\ \A q \in Requests : q # r => work'[q] = work[q] /\ parts'[q] = parts[q]
      /\ work'[r] = "ok" \/ parts'[r] = parts[r]
    BY <1>1 DEF StartThread, Turn, SaveThread, Cancelled, EndWork, Working, TypeOK
<1>4. LiveRows'
    BY <1>1, <1>2 DEF LiveRows
<1>5. parts[r] \in Nat /\ ~(parts[r] > 0) /\ (pc[r] \in {"wait", "mark"} \/ handle[r] = "saver")
    BY <1>1, <1>3, Constants DEF Awaited, TypeOK
<1>6. ASSUME NEW q \in Requests
      PROVE  Awaited(q)'
  <2>1. CASE q = r
      BY <1>1, <1>2, <1>3, <1>5, <2>1 DEF Awaited
  <2>2. CASE q # r
    <3>1. (Working(q)' <=> Working(q)) /\ (Released(q)' <=> Released(q))
        BY <1>2, <1>3, <2>2 DEF Working, Released
    <3>2. Awaited(q)
        BY DEF KeepInv
    <3> QED BY <1>2, <1>3, <2>2, <3>1, <3>2 DEF Awaited
  <2> QED BY <2>1, <2>2
<1>7. ASSUME NEW q \in Requests
      PROVE  RowsKnown(q)'
  <2>1. RowsKnown(q)
      BY DEF KeepInv
  <2>2. pc[q] = "clear" => Remaining(carry[q])' = Remaining(carry[q])
    <3>1. ASSUME pc[q] = "clear" PROVE carry[q].req \in Requests \ {r}
      <4>1. PICK p \in Requests : carry[q].req = p /\ Released(p)
          BY <3>1, CarriedText DEF KeepInv, Speaking
      <4> QED BY <1>3, <4>1 DEF Released
    <3> QED BY <1>2, <1>3, <3>1 DEF Remaining
  <2> QED BY <1>2, <2>1, <2>2 DEF RowsKnown, Ready
<1>8. NothingLost'
  <2> SUFFICES ASSUME NEW q \in Requests, NEW n \in 1 .. parts'[q]
               PROVE  Said(q, n)' \/ Declined(q, n)' \/ Held(q, n)'
      BY DEF NothingLost
  <2>1. CASE q = r
    <3>1. work'[r] = "ok"
        BY <1>3, <1>5, <2>1
    <3> QED BY <1>2, <1>5, <2>1, <3>1 DEF Held
  <2>2. CASE q # r
    <3>1. Said(q, n) \/ Declined(q, n) \/ Held(q, n)
        BY <1>3, <2>2 DEF KeepInv, NothingLost
    <3> QED BY <1>2, <1>3, <2>2, <3>1 DEF Said, Declined, Held
  <2> QED BY <2>1, <2>2
<1> QED BY <1>4, <1>6, <1>7, <1>8 DEF KeepInv

\* A request that arrives holds nothing and finds the rows as they are.
LEMMA ArriveKeeps ==
    ASSUME KeepInv, DeliveryInv', NEW r \in Requests, NEW a \in Apps, NEW i \in Inputs, Arrive(r, a, i)
    PROVE  KeepInv'
<1>1. TypeOK /\ LiveRows /\ HandedOver
    BY DEF KeepInv, DeliveryInv, TypeInv
<1>2. /\ \A q \in Requests : pc'[q] = IF q = r THEN "resolve" ELSE pc[q]
      /\ \A q \in Requests : q # r => app'[q] = app[q]
      /\ pc[r] = "idle" /\ handle[r] = "none"
      /\ UNCHANGED <<carry, reply, pending, continuation, work, handle, parts>>
    BY <1>1 DEF Arrive, Goto, taskVars, storeVars, TypeOK, HandedOver
<1>3. LiveRows'
    BY <1>1, <1>2 DEF LiveRows
<1>4. ASSUME NEW q \in Requests
      PROVE  RowsKnown(q)' /\ Awaited(q)'
  <2>1. RowsKnown(q) /\ Awaited(q)
      BY DEF KeepInv
  <2>2. (Released(q)' <=> Released(q)) /\ (Working(q)' <=> Working(q))
      BY <1>2 DEF Released, Working
  <2>3. CASE q = r
      BY <1>2, <2>1, <2>2, <2>3 DEF RowsKnown, Awaited, Speaking
  <2>4. CASE q # r
    <3>1. Awaited(q)'
        BY <1>2, <2>1, <2>2, <2>4 DEF Awaited
    <3>2. (Remaining(carry[q])' = Remaining(carry[q])) /\
          (Ready(app[q], carry[q].req)' <=> Ready(app[q], carry[q].req))
        BY <1>2, <2>4 DEF Remaining, Ready
    <3> QED BY <1>2, <2>1, <2>4, <3>1, <3>2 DEF RowsKnown
  <2> QED BY <2>3, <2>4
<1>5. NothingLost'
  <2>1. \A q \in Requests : \A n : Held(q, n) => Held(q, n)'
      BY <1>2 DEF Held
  <2>2. \A q, n : (Said(q, n) => Said(q, n)') /\ (Declined(q, n) => Declined(q, n)')
      BY <1>2 DEF Said, Declined
  <2> QED BY <1>2, <2>1, <2>2 DEF KeepInv, NothingLost
<1> QED BY <1>3, <1>4, <1>5 DEF KeepInv

LEMMA NextKeepInv ==
    ASSUME ~Overlap, ~MayCrash, ~TimeMoves, StoreOutcomes = {"ok"}
    PROVE  KeepInv /\ [Next]_vars => KeepInv'
<1> SUFFICES ASSUME KeepInv, [Next]_vars PROVE KeepInv'
    OBVIOUS
<1>t. DeliveryInv'
    BY NextDeliveryInv DEF KeepInv
<1>1. ASSUME NEW r \in Requests, NEW a \in Apps, NEW i \in Inputs, Arrive(r, a, i)
      PROVE  KeepInv'
    BY <1>1, <1>t, ArriveKeeps
<1>2. ASSUME NEW r \in Requests, Handler(r)
      PROVE  KeepInv'
    BY <1>2, <1>t, WalkKeeps, TakeKeeps, AgainKeeps, KeepKeeps, PollKeeps, DeliverKeeps, ClearKeeps,
       MarkKeeps, CollectKeeps DEF Handler
<1>3. ASSUME NEW r \in Requests, Task(r)
      PROVE  KeepInv'
    BY <1>3, <1>t, WorkKeeps, SaverKeeps DEF Task
<1>4. CASE UNCHANGED vars
  <2>1. LiveRows' /\ NothingLost'
      BY <1>4 DEF vars, taskVars, storeVars, KeepInv, LiveRows, NothingLost, Said, Declined, Held
  <2>2. ASSUME NEW r \in Requests
        PROVE  RowsKnown(r)' /\ Awaited(r)'
      BY <1>4 DEF vars, inputVars, taskVars, storeVars, KeepInv, RowsKnown, Awaited, Ready, Working,
         Released, Remaining
  <2> QED BY <1>t, <2>1, <2>2 DEF KeepInv
<1> QED BY <1>1, <1>2, <1>3, <1>4 DEF Next, Idle, Crash, ExpirePending, ExpireContinuation

\* While a surface calls again only after its reply, the process lives, the
\* store answers and no row expires, every chunk of every finished answer is
\* spoken, declined or still held: deadlines, savers and continuations lose
\* none, whatever the runtime does.
THEOREM EveryChunkKept ==
    ASSUME ~Overlap, ~MayCrash, ~TimeMoves, StoreOutcomes = {"ok"}
    PROVE  Spec => []NothingLost
<1>1. KeepInv => NothingLost
    BY DEF KeepInv
<1> QED BY <1>1, InitKeepInv, NextKeepInv, PTL DEF Spec
=============================================================================
