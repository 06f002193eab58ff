---------------------- MODULE ConversationMemoryProofs ----------------------
(***************************************************************************)
(* Profiles never mix, for any number of profiles and of interleaved        *)
(* exchanges, whatever fails and whenever the active profile changes.       *)
(* While exchanges come one at a time, the summary never moves back; as     *)
(* long as the store answers it holds what it covers, and as long as the    *)
(* model answers too it leaves a bounded number of messages to fold.        *)
(***************************************************************************)
EXTENDS ConversationMemory, TLAPS, FiniteSetTheorems

\* Row m was said under profile p.
SaidUnder(m, p) ==
    /\ m.exchange \in Exchanges
    /\ step[m.exchange] # "idle"
    /\ profile[m.exchange] = p

\* The tables and the tasks are functions over profiles and exchanges.
Shapes ==
    /\ active \in Profiles
    /\ step \in [Exchanges -> Steps]
    /\ profile \in [Exchanges -> Profiles]
    /\ inserted = [x \in Exchanges |-> inserted[x]]
    /\ backlog  = [x \in Exchanges |-> backlog[x]]
    /\ previous = [x \in Exchanges |-> previous[x]]
    /\ messages = [p \in Profiles |-> messages[p]]
    /\ summary  = [p \in Profiles |-> summary[p]]

\* What is stored for a profile was said under it.
StoredUnder ==
    \A p \in Profiles : \A m : m \in messages[p] \/ m \in summary[p].facts => SaidUnder(m, p)

\* What a task is about to store was said under the task's own profile.
CarriedUnder ==
    \A x \in Exchanges : \A m :
        m \in inserted[x] \/ m \in backlog[x] \/ m \in previous[x] => SaidUnder(m, profile[x])

\* A question not asked yet carries nothing.
NothingBeforeAsk ==
    \A x \in Exchanges : step[x] = "idle" =>
        inserted[x] = {} /\ backlog[x] = {} /\ previous[x] = {}

Inv == Shapes /\ StoredUnder /\ CarriedUnder /\ NothingBeforeAsk

LEMMA InitInv == Init => Inv
    BY ProfilesAssumption DEF Init, Inv, Shapes, StoredUnder, CarriedUnder, NothingBeforeAsk,
       NoSummary, Steps

\* A step of an asked exchange leaves what was said where it was said.
LEMMA SaidUnderStable ==
    ASSUME NEW x \in Exchanges, NEW s \in Steps \ {"idle"}, Shapes, Goto(x, s), UNCHANGED profile
    PROVE  \A m, p : SaidUnder(m, p) => SaidUnder(m, p)'
    BY DEF Shapes, Goto, SaidUnder

LEMMA NextInv == Inv /\ [Next]_vars => Inv'
<1> SUFFICES ASSUME Inv, [Next]_vars PROVE Inv'
    OBVIOUS
<1> USE DEF Inv
<1>1. ASSUME NEW p \in Profiles, Introduce(p)
      PROVE  Inv'
    BY <1>1 DEF Introduce, Shapes, StoredUnder, CarriedUnder, NothingBeforeAsk, SaidUnder,
       taskVars, storeVars
<1>2. ASSUME NEW n \in WindowsSaid, SetWindow(n)
      PROVE  Inv'
    BY <1>2 DEF SetWindow, Shapes, StoredUnder, CarriedUnder, NothingBeforeAsk, SaidUnder,
       taskVars, storeVars
<1>3. ASSUME NEW o \in StoreOutcomes, Forget(o)
      PROVE  Inv'
  <2>1. UNCHANGED <<active, step, profile, inserted, backlog, previous>>
      BY <1>3 DEF Forget, taskVars
  <2>2. CarriedUnder' /\ NothingBeforeAsk'
      BY <2>1 DEF CarriedUnder, NothingBeforeAsk, SaidUnder
  <2>3. CASE UNCHANGED <<messages, summary>>
      BY <2>1, <2>2, <2>3 DEF Shapes, StoredUnder, SaidUnder
  <2>4. CASE Cleared(active)
      BY <2>1, <2>2, <2>4 DEF Cleared, NoSummary, Shapes, StoredUnder, SaidUnder
  <2> QED BY <1>3, <2>3, <2>4 DEF Forget
<1>4. ASSUME NEW x \in Exchanges, Ask(x)
      PROVE  Inv'
  <2>1. Shapes'
      BY <1>4 DEF Ask, Goto, Shapes, Steps, stateVars, storeVars
  <2>2. \A m, p : SaidUnder(m, p) => SaidUnder(m, p)'
      BY <1>4 DEF Ask, Goto, Shapes, SaidUnder
  <2>3. StoredUnder'
      BY <1>4, <2>2 DEF Ask, StoredUnder, storeVars
  <2>4. CarriedUnder'
    <3>1. \A y \in Exchanges : y # x => profile'[y] = profile[y]
        BY <1>4 DEF Ask, Shapes
    <3> QED BY <1>4, <2>2, <3>1 DEF Ask, CarriedUnder, NothingBeforeAsk
  <2>5. NothingBeforeAsk'
      BY <1>4 DEF Ask, Goto, Shapes, NothingBeforeAsk
  <2> QED BY <2>1, <2>3, <2>4, <2>5
\* A step that changes neither the tables nor what the task carries.
<1>a. ASSUME NEW x \in Exchanges, NEW s \in Steps \ {"idle"}, Goto(x, s),
             UNCHANGED <<active, profile, inserted, backlog, previous, messages, summary>>
      PROVE  Inv'
  <2>1. \A m, p : SaidUnder(m, p) => SaidUnder(m, p)'
      BY <1>a, SaidUnderStable
  <2>2. StoredUnder' /\ CarriedUnder'
      BY <1>a, <2>1 DEF StoredUnder, CarriedUnder
  <2>3. Shapes' /\ NothingBeforeAsk'
      BY <1>a DEF Shapes, NothingBeforeAsk, Goto
  <2> QED BY <2>2, <2>3
<1>5. ASSUME NEW x \in Exchanges, NEW o \in ProviderOutcomes, Chat(x, o) \/ Fold(x, o)
      PROVE  Inv'
    BY <1>5, <1>a DEF Chat, Fold, Steps, stateVars, taskVars, storeVars
<1>6. ASSUME NEW x \in Exchanges, ReadWindow(x)
      PROVE  Inv'
    BY <1>6, <1>a DEF ReadWindow, Steps, stateVars, storeVars
<1>7. ASSUME NEW x \in Exchanges, NEW o \in StoreOutcomes, Insert(x, o)
      PROVE  Inv'
  <2>1. CASE UNCHANGED inserted
      BY <1>7, <1>a, <2>1 DEF Insert, Steps, stateVars
  <2>2. CASE /\ inserted' = [inserted EXCEPT ![x] = {[id |-> nextId, exchange |-> x],
                                                     [id |-> nextId + 1, exchange |-> x]}]
             /\ Goto(x, "commit")
    <3>1. step[x] = "insert" /\ UNCHANGED <<active, profile, backlog, previous, messages, summary>>
        BY <1>7 DEF Insert, stateVars
    <3>2. \A m, p : SaidUnder(m, p) => SaidUnder(m, p)'
        BY <2>2, <3>1, SaidUnderStable DEF Steps
    <3>3. \A m \in inserted'[x] : SaidUnder(m, profile[x])'
        BY <2>2, <3>1 DEF Shapes, SaidUnder, Goto
    <3>4. \A y \in Exchanges : y # x => inserted'[y] = inserted[y]
        BY <2>2 DEF Shapes
    <3>5. StoredUnder' /\ CarriedUnder'
        BY <3>1, <3>2, <3>3, <3>4 DEF StoredUnder, CarriedUnder
    <3>6. Shapes' /\ NothingBeforeAsk'
        BY <2>2, <3>1, <3>4 DEF Shapes, NothingBeforeAsk, Goto, Steps
    <3> QED BY <3>5, <3>6
  <2> QED BY <1>7, <2>1, <2>2 DEF Insert
<1>8. ASSUME NEW x \in Exchanges, NEW o \in StoreOutcomes, Commit(x, o)
      PROVE  Inv'
  <2>1. /\ step[x] = "commit" /\ Goto(x, "window")
        /\ UNCHANGED <<active, profile, inserted, backlog, previous, summary>>
      BY <1>8 DEF Commit, stateVars, taskVars
  <2>2. \A m, p : SaidUnder(m, p) => SaidUnder(m, p)'
      BY <2>1, SaidUnderStable DEF Steps
  <2>3. \A p \in Profiles : \A m \in messages'[p] :
            m \in messages[p] \/ (p = profile[x] /\ m \in inserted[x])
      BY <1>8 DEF Commit, Shapes
  <2>4. StoredUnder' /\ CarriedUnder'
      BY <2>1, <2>2, <2>3 DEF StoredUnder, CarriedUnder
  <2>5. messages' = [p \in Profiles |-> messages'[p]]
      BY <1>8 DEF Commit, Shapes
  <2>6. Shapes' /\ NothingBeforeAsk'
      BY <2>1, <2>5 DEF Shapes, NothingBeforeAsk, Goto, Steps
  <2> QED BY <2>4, <2>6
<1>9. ASSUME NEW x \in Exchanges, NEW o \in StoreOutcomes, ReadBacklog(x, o)
      PROVE  Inv'
  <2>1. CASE UNCHANGED backlog
      BY <1>9, <1>a, <2>1 DEF ReadBacklog, Steps, stateVars, storeVars
  <2>2. CASE /\ backlog' = [backlog EXCEPT ![x] = Unsummarized(profile[x], keep[x])]
             /\ Goto(x, "previous")
    <3>1. step[x] = "backlog" /\ UNCHANGED <<active, profile, inserted, previous, messages, summary>>
        BY <1>9 DEF ReadBacklog, stateVars, storeVars
    <3>2. \A m, p : SaidUnder(m, p) => SaidUnder(m, p)'
        BY <2>2, <3>1, SaidUnderStable DEF Steps
    <3>3. \A y \in Exchanges : backlog'[y] = IF y = x THEN Unsummarized(profile[x], keep[x])
                                             ELSE backlog[y]
        BY <2>2 DEF Shapes
    <3>4. \A m \in Unsummarized(profile[x], keep[x]) : m \in messages[profile[x]]
        BY DEF Unsummarized, Older
    <3>5. profile[x] \in Profiles
        BY DEF Shapes
    <3>6. StoredUnder' /\ CarriedUnder'
        BY <3>1, <3>2, <3>3, <3>4, <3>5 DEF StoredUnder, CarriedUnder
    <3>7. Shapes' /\ NothingBeforeAsk'
        BY <2>2, <3>1, <3>3 DEF Shapes, NothingBeforeAsk, Goto, Steps
    <3> QED BY <3>6, <3>7
  <2> QED BY <1>9, <2>1, <2>2 DEF ReadBacklog
<1>10. ASSUME NEW x \in Exchanges, NEW o \in StoreOutcomes, ReadPrevious(x, o)
       PROVE  Inv'
  <2>1. /\ step[x] = "previous" /\ Goto(x, "fold")
        /\ UNCHANGED <<active, profile, inserted, backlog, messages, summary>>
      BY <1>10 DEF ReadPrevious, stateVars, storeVars
  <2>2. \A m, p : SaidUnder(m, p) => SaidUnder(m, p)'
      BY <2>1, SaidUnderStable DEF Steps
  <2>3. \A y \in Exchanges : \A m \in previous'[y] :
            m \in previous[y] \/ (y = x /\ m \in summary[profile[x]].facts)
      BY <1>10 DEF ReadPrevious, Shapes
  <2>4. profile[x] \in Profiles
      BY DEF Shapes
  <2>5. StoredUnder' /\ CarriedUnder'
      BY <2>1, <2>2, <2>3, <2>4 DEF StoredUnder, CarriedUnder
  <2>6. \A y \in Exchanges : y # x => previous'[y] = previous[y]
      BY <1>10 DEF ReadPrevious, Shapes
  <2>7. previous' = [y \in Exchanges |-> previous'[y]]
      BY <1>10 DEF ReadPrevious, Shapes
  <2>8. Shapes' /\ NothingBeforeAsk'
      BY <2>1, <2>6, <2>7 DEF Shapes, NothingBeforeAsk, Goto, Steps
  <2> QED BY <2>5, <2>8
<1>11. ASSUME NEW x \in Exchanges, NEW o \in StoreOutcomes, Upsert(x, o)
       PROVE  Inv'
  <2>1. /\ step[x] = "upsert" /\ Goto(x, "over")
        /\ UNCHANGED <<active, profile, inserted, backlog, previous, messages>>
      BY <1>11 DEF Upsert, stateVars, taskVars
  <2>2. \A m, p : SaidUnder(m, p) => SaidUnder(m, p)'
      BY <2>1, SaidUnderStable DEF Steps
  <2>3. \A p \in Profiles : \A m \in summary'[p].facts :
            \/ m \in summary[p].facts
            \/ p = profile[x] /\ (m \in previous[x] \/ m \in backlog[x])
      BY <1>11 DEF Upsert, Shapes
  <2>4. StoredUnder' /\ CarriedUnder'
      BY <2>1, <2>2, <2>3 DEF StoredUnder, CarriedUnder
  <2>5. summary' = [p \in Profiles |-> summary'[p]]
      BY <1>11 DEF Upsert, Shapes
  <2>6. Shapes' /\ NothingBeforeAsk'
      BY <2>1, <2>5 DEF Shapes, NothingBeforeAsk, Goto, Steps
  <2> QED BY <2>4, <2>6
<1>12. CASE UNCHANGED vars
    BY <1>12 DEF vars, stateVars, taskVars, storeVars, Shapes, StoredUnder, CarriedUnder,
       NothingBeforeAsk, SaidUnder
<1> HIDE DEF Inv
<1> QED BY <1>1, <1>2, <1>3, <1>4, <1>5, <1>6, <1>7, <1>8, <1>9, <1>10, <1>11, <1>12
        DEF Next, Task, Idle

\* History and summary of a profile hold only what was said under it.
THEOREM ProfileIsolation == Spec => []ProfilesApart
<1>1. Inv => ProfilesApart
    BY DEF Inv, StoredUnder, SaidUnder, ProfilesApart
<1> QED BY <1>1, InitInv, NextInv, PTL DEF Spec

----------------------------------------------------------------------------
(* What LastId and Older return. *)

\* A bounded set of numbers has a greatest one.
LEMMA GreatestExists ==
    ASSUME NEW S \in SUBSET Nat, S # {}, NEW b \in Nat, \A s \in S : s < b
    PROVE  \E n \in S : \A s \in S : s <= n
<1> DEFINE Above(s) == {t \in S : t > s}
           rank     == [s \in S |-> Cardinality(Above(s))]
<1> SUFFICES ASSUME \A s \in S : Above(s) # {} PROVE FALSE
    OBVIOUS
<1>1. IsFiniteSet(S)
    BY FS_BoundedSetOfNaturals
<1>2. \A s \in S : IsFiniteSet(Above(s))
    BY <1>1, FS_Subset
<1>3. \A s \in S : Cardinality(Above(s)) \in Nat
    BY <1>2, FS_CardinalityType
<1>4. Cardinality(S) \in Nat
    BY <1>1, FS_CardinalityType
<1>5. ASSUME NEW s \in S
      PROVE  Cardinality(Above(s)) \in 1 .. Cardinality(S) - 1
  <2>1. Cardinality(Above(s)) # 0
      BY <1>2, FS_EmptySet
  <2>2. Above(s) \subseteq S /\ s \notin Above(s)
      OBVIOUS
  <2>3. Cardinality(Above(s)) <= Cardinality(S) /\ Cardinality(S) # Cardinality(Above(s))
      BY <1>1, <2>2, FS_Subset
  <2> HIDE DEF Above
  <2> QED BY <1>3, <1>4, <2>1, <2>3
<1>6. ASSUME NEW s \in S, NEW t \in S, s < t
      PROVE  Cardinality(Above(s)) # Cardinality(Above(t))
  <2>1. t \in Above(s) /\ t \notin Above(t)
      BY <1>6
  <2>2. ASSUME NEW n \in S, n > t
        PROVE  n > s
    <3>1. n \in Nat /\ s \in Nat /\ t \in Nat
        OBVIOUS
    <3> QED BY <1>6, <2>2, <3>1
  <2>3. Above(t) \subseteq Above(s)
      BY <2>2
  <2> HIDE DEF Above
  <2> QED BY <1>2, <2>1, <2>3, FS_Subset
<1>7. IsFiniteSet(1 .. Cardinality(S) - 1) /\ Cardinality(1 .. Cardinality(S) - 1) < Cardinality(S)
  <2>1. 0 < Cardinality(S)
      BY <1>1, <1>4, FS_EmptySet
  <2> QED BY <1>4, <2>1, FS_Interval
<1>8. rank \in [S -> 1 .. Cardinality(S) - 1]
    BY <1>5
<1>9. \E s, t \in S : s # t /\ rank[s] = rank[t]
  <2> HIDE DEF rank
  <2> QED BY <1>1, <1>7, <1>8, FS_PigeonHole
<1>10. \A s, t \in S : s # t => s < t \/ t < s
    OBVIOUS
<1> HIDE DEF Above
<1> QED BY <1>6, <1>9, <1>10

\* The id that LastId returns is that of one of the rows, and no row has a
\* greater one.
LEMMA LastIdIsGreatest ==
    ASSUME NEW rows \in SUBSET Rows, NEW b \in Nat \ {0}, \A m \in rows : m.id < b
    PROVE  /\ LastId(rows) \in Nat /\ LastId(rows) < b
           /\ \A m \in rows : m.id <= LastId(rows)
           /\ rows # {} => \E m \in rows : m.id = LastId(rows)
<1>1. CASE rows = {}
    BY <1>1 DEF LastId
<1>2. CASE rows # {}
  <2> DEFINE ids == {m.id : m \in rows}
  <2>1. ids \subseteq Nat /\ ids # {} /\ \A n \in ids : n < b
      BY <1>2 DEF Rows
  <2>2. \E n \in ids : \A k \in ids : k <= n
      BY <2>1, GreatestExists
  <2>3. \E n \in ids : \A m \in rows : m.id <= n
      BY <2>2
  <2>4. LastId(rows) \in ids /\ \A m \in rows : m.id <= LastId(rows)
      BY <1>2, <2>3 DEF LastId
  <2> QED BY <2>1, <2>4
<1> QED BY <1>1, <1>2

\* The rows later than m.
Later(rows, m) == {l \in rows : l.id > m.id}

\* A row with fewer later ones is not before a row with more.
LEMMA LaterShrinks ==
    ASSUME NEW rows \in SUBSET Rows, IsFiniteSet(rows), NEW m \in rows, NEW b \in rows
    PROVE  /\ Cardinality(Later(rows, m)) \in Nat
           /\ m.id <= b.id => Cardinality(Later(rows, b)) <= Cardinality(Later(rows, m))
           /\ m.id < b.id => Cardinality(Later(rows, b)) < Cardinality(Later(rows, m))
<1>1. m.id \in Nat /\ b.id \in Nat /\ \A l \in rows : l.id \in Nat
    BY DEF Rows
<1>2. /\ IsFiniteSet(Later(rows, m)) /\ IsFiniteSet(Later(rows, b))
    BY FS_Subset DEF Later
<1>3. Cardinality(Later(rows, m)) \in Nat /\ Cardinality(Later(rows, b)) \in Nat
    BY <1>2, FS_CardinalityType
<1>4. ASSUME m.id <= b.id
      PROVE  Later(rows, b) \subseteq Later(rows, m)
    BY <1>1, <1>4 DEF Later
<1>5. ASSUME m.id <= b.id
      PROVE  /\ Cardinality(Later(rows, b)) <= Cardinality(Later(rows, m))
             /\ Cardinality(Later(rows, m)) = Cardinality(Later(rows, b)) =>
                    Later(rows, m) = Later(rows, b)
    BY <1>2, <1>4, <1>5, FS_Subset
<1>6. m.id < b.id => b \in Later(rows, m) /\ b \notin Later(rows, b)
    BY <1>1 DEF Later
<1> QED BY <1>1, <1>3, <1>5, <1>6

\* A row before an older one is an older one.
LEMMA OlderIsPrefix ==
    ASSUME NEW rows \in SUBSET Rows, IsFiniteSet(rows), NEW n \in Nat,
           NEW m \in rows, NEW b \in Older(rows, n), m.id <= b.id
    PROVE  m \in Older(rows, n)
<1>1. b \in rows /\ Cardinality(Later(rows, b)) >= n
    BY DEF Older, Later
<1>2. /\ Cardinality(Later(rows, m)) \in Nat /\ Cardinality(Later(rows, b)) \in Nat
      /\ Cardinality(Later(rows, b)) <= Cardinality(Later(rows, m))
    BY <1>1, LaterShrinks
<1>3. Cardinality(Later(rows, m)) >= n
    BY <1>1, <1>2
<1> QED BY <1>3 DEF Older, Later

\* At most n rows have fewer than n later ones.
LEMMA FewAreNotOlder ==
    ASSUME NEW rows \in SUBSET Rows, IsFiniteSet(rows), NEW n \in Nat,
           \A m, l \in rows : m.id = l.id => m = l
    PROVE  /\ IsFiniteSet(rows \ Older(rows, n))
           /\ Cardinality(rows \ Older(rows, n)) <= n
<1> DEFINE newer == rows \ Older(rows, n)
           rank  == [m \in newer |-> Cardinality(Later(rows, m))]
<1>1. \A m \in newer : m \in rows /\ Cardinality(Later(rows, m)) \in Nat
    BY LaterShrinks
<1>2. \A m \in newer : ~(Cardinality(Later(rows, m)) >= n)
    BY DEF Older, Later
<1>3. \A m \in newer : rank[m] \in 0 .. n - 1
    BY <1>1, <1>2
<1>4. ASSUME NEW m \in newer, NEW l \in newer, rank[m] = rank[l]
      PROVE  m = l
  <2>1. Cardinality(Later(rows, m)) = Cardinality(Later(rows, l)) /\ m \in rows /\ l \in rows
      BY <1>1, <1>4
  <2>2. Cardinality(Later(rows, m)) \in Nat /\ m.id \in Nat /\ l.id \in Nat
      BY <1>1 DEF Rows
  <2>3. ~(m.id < l.id) /\ ~(l.id < m.id)
      BY <2>1, <2>2, LaterShrinks
  <2> QED BY <2>1, <2>2, <2>3
<1>5. rank \in Injection(newer, 0 .. n - 1)
    BY <1>3, <1>4 DEF Injection, IsInjective
<1>6. IsFiniteSet(0 .. n - 1) /\ Cardinality(0 .. n - 1) = n
    BY FS_Interval
<1> HIDE DEF rank
<1> QED BY <1>5, <1>6, FS_Injection

----------------------------------------------------------------------------
(* Types, for any outcomes and any interleaving. *)

BelowNext(rows) == \A m \in rows : m.id < nextId

\* No id is beyond the sequence: the largest one of a backlog exists.
Numbered ==
    /\ \A p \in Profiles : BelowNext(messages[p]) /\ summary[p].covers < nextId
    /\ \A x \in Exchanges : BelowNext(inserted[x]) /\ BelowNext(backlog[x])

TypeInv == TypeOK /\ Numbered

LEMMA InitTypeInv == Init => TypeInv
    BY ProfilesAssumption, WindowAssumption
    DEF Init, TypeInv, TypeOK, Numbered, BelowNext, NoSummary, Steps, Rows, Calm, Overlapped

\* A problem that happens is noted; the worst one is never taken back.
LEMMA MeetKeepsWorst ==
    ASSUME NEW happens, NEW problem \in Calm..Overlapped, trouble \in Calm..Overlapped,
           Meet(happens, problem)
    PROVE  /\ trouble' \in Calm..Overlapped /\ trouble' >= trouble
           /\ happens => trouble' >= problem
    BY DEF Meet, Calm, Overlapped

LEMMA TroubleGrows ==
    ASSUME trouble \in Calm..Overlapped, [Next]_vars
    PROVE  trouble' \in Calm..Overlapped /\ trouble' >= trouble
<1>1. /\ ModelFailed \in Calm..Overlapped /\ StoreFailed \in Calm..Overlapped
      /\ Overlapped \in Calm..Overlapped
    BY DEF Calm, ModelFailed, StoreFailed, Overlapped
<1>2. CASE UNCHANGED trouble
    BY <1>2 DEF Calm, Overlapped
<1>3. ASSUME NEW happens, NEW problem \in Calm..Overlapped, Meet(happens, problem)
      PROVE  trouble' \in Calm..Overlapped /\ trouble' >= trouble
    BY <1>3, MeetKeepsWorst
<1>4. ASSUME NEW o \in StoreOutcomes, Forget(o)
      PROVE  trouble' \in Calm..Overlapped /\ trouble' >= trouble
    BY <1>1, <1>3, <1>4 DEF Forget
<1>5. ASSUME NEW x \in Exchanges, Task(x)
      PROVE  trouble' \in Calm..Overlapped /\ trouble' >= trouble
  <2>1. CASE Ask(x)
      BY <1>1, <1>3, <2>1 DEF Ask
  <2>2. ASSUME NEW o \in ProviderOutcomes, Chat(x, o) \/ Fold(x, o)
        PROVE  trouble' \in Calm..Overlapped /\ trouble' >= trouble
      BY <1>1, <1>3, <2>2 DEF Chat, Fold
  <2>3. ASSUME NEW o \in StoreOutcomes,
               \/ Insert(x, o) \/ Commit(x, o)
               \/ ReadBacklog(x, o) \/ ReadPrevious(x, o) \/ Upsert(x, o)
        PROVE  trouble' \in Calm..Overlapped /\ trouble' >= trouble
      BY <1>1, <1>3, <2>3 DEF Insert, Commit, ReadBacklog, ReadPrevious, Upsert
  <2> QED BY <1>2, <1>5, <2>1, <2>2, <2>3 DEF Task, ReadWindow
<1> QED BY <1>2, <1>4, <1>5 DEF Next, Introduce, SetWindow, Idle, vars

LEMMA NextTypeInv == TypeInv /\ [Next]_vars => TypeInv'
<1> SUFFICES ASSUME TypeInv, [Next]_vars PROVE TypeInv'
    OBVIOUS
<1>0. TypeOK /\ Numbered /\ trouble' \in Calm..Overlapped
    BY TroubleGrows DEF TypeInv, TypeOK
<1>1. ASSUME NEW p \in Profiles, Introduce(p)
      PROVE  TypeInv'
    BY <1>0, <1>1 DEF Introduce, TypeInv, TypeOK, Numbered, BelowNext, taskVars, storeVars
<1>2. ASSUME NEW n \in WindowsSaid, SetWindow(n)
      PROVE  TypeInv'
  <2>1. Clamp(n) \in 1 .. MaxWindow
      BY <1>2, WindowAssumption DEF Clamp
  <2> QED BY <1>0, <1>2, <2>1
          DEF SetWindow, TypeInv, TypeOK, Numbered, BelowNext, taskVars, storeVars
<1>3. ASSUME NEW o \in StoreOutcomes, Forget(o)
      PROVE  TypeInv'
  <2>1. /\ UNCHANGED <<active, window, step, profile, inserted, keep, backlog, previous, nextId>>
        /\ forgets' \in 0 .. MaxForgets
        /\ forgotten' \in [Profiles -> SUBSET Rows]
      BY <1>0, <1>3, WindowAssumption DEF Forget, TypeOK, taskVars
  <2>2. CASE UNCHANGED <<messages, summary>>
      BY <1>0, <2>1, <2>2 DEF TypeInv, TypeOK, Numbered, BelowNext
  <2>3. CASE Cleared(active)
    <3>1. /\ messages' \in [Profiles -> SUBSET Rows]
          /\ summary' \in [Profiles -> [facts : SUBSET Rows, covers : Nat]]
          /\ \A p \in Profiles : BelowNext(messages[p])' /\ summary'[p].covers < nextId'
        BY <1>0, <2>1, <2>3 DEF Cleared, NoSummary, TypeOK, Numbered, BelowNext
    <3> QED BY <1>0, <2>1, <3>1 DEF TypeInv, TypeOK, Numbered, BelowNext
  <2> QED BY <1>3, <2>2, <2>3 DEF Forget
<1>4. ASSUME NEW x \in Exchanges, Ask(x)
      PROVE  TypeInv'
  <2>1. profile' \in [Exchanges -> Profiles] /\ step' \in [Exchanges -> Steps]
      BY <1>0, <1>4 DEF Ask, Goto, TypeOK, Steps
  <2> QED BY <1>0, <1>4, <2>1 DEF Ask, TypeInv, TypeOK, Numbered, BelowNext, stateVars, storeVars
\* A step that moves a task and changes no row.
<1>a. ASSUME NEW x \in Exchanges, NEW s \in Steps, Goto(x, s),
             UNCHANGED <<stateVars, profile, storeVars, inserted, backlog>>,
             keep' \in [Exchanges -> Nat], previous' \in [Exchanges -> SUBSET Rows]
      PROVE  TypeInv'
  <2>1. step' \in [Exchanges -> Steps]
      BY <1>0, <1>a DEF Goto, TypeOK
  <2> QED BY <1>0, <1>a, <2>1 DEF TypeInv, TypeOK, Numbered, BelowNext, stateVars, storeVars
<1>5. ASSUME NEW x \in Exchanges, NEW o \in ProviderOutcomes, Chat(x, o) \/ Fold(x, o)
      PROVE  TypeInv'
    BY <1>0, <1>5, <1>a DEF Chat, Fold, Steps, taskVars, TypeOK
<1>6. ASSUME NEW x \in Exchanges, ReadWindow(x)
      PROVE  TypeInv'
  <2>1. keep' \in [Exchanges -> Nat]
      BY <1>0, <1>6, WindowAssumption DEF ReadWindow, TypeOK
  <2> QED BY <1>0, <1>6, <1>a, <2>1 DEF ReadWindow, Steps, TypeOK
<1>7. ASSUME NEW x \in Exchanges, NEW o \in StoreOutcomes, Insert(x, o)
      PROVE  TypeInv'
  <2>1. /\ UNCHANGED <<stateVars, profile, keep, backlog, previous, messages, summary, forgotten>>
        /\ step' \in [Exchanges -> Steps]
      BY <1>0, <1>7 DEF Insert, Goto, Steps, TypeOK
  <2>2. nextId' \in Nat \ {0} /\ nextId' >= nextId /\ (o = "ok" => nextId' = nextId + 2)
      BY <1>0, <1>7 DEF Insert, TypeOK
  <2>3. /\ inserted' \in [Exchanges -> SUBSET Rows]
        /\ \A y \in Exchanges : \A m \in inserted'[y] :
              m \in inserted[y] \/ (o = "ok" /\ m.id \in {nextId, nextId + 1})
    <3> DEFINE pair == {[id |-> nextId, exchange |-> x], [id |-> nextId + 1, exchange |-> x]}
    <3>1. pair \subseteq Rows /\ \A m \in pair : m.id \in {nextId, nextId + 1}
        BY <1>0 DEF TypeOK, Rows
    <3>2. \/ inserted' = inserted
          \/ o = "ok" /\ inserted' = [inserted EXCEPT ![x] = pair]
        BY <1>7 DEF Insert
    <3> HIDE DEF pair
    <3> QED BY <1>0, <3>1, <3>2 DEF TypeOK
  <2>4. /\ \A m \in Rows : m.id \in Nat
        /\ \A p \in Profiles : messages[p] \subseteq Rows /\ summary[p].covers \in Nat
        /\ \A y \in Exchanges : inserted[y] \subseteq Rows /\ backlog[y] \subseteq Rows
        /\ nextId \in Nat
      BY <1>0 DEF TypeOK, Rows
  <2>5. \A p \in Profiles : BelowNext(messages[p])' /\ summary'[p].covers < nextId'
      BY <1>0, <2>1, <2>2, <2>4 DEF Numbered, BelowNext
  <2>6. \A y \in Exchanges : BelowNext(inserted[y])' /\ BelowNext(backlog[y])'
      BY <1>0, <2>1, <2>2, <2>3, <2>4 DEF Numbered, BelowNext
  <2> QED BY <1>0, <2>1, <2>2, <2>3, <2>5, <2>6 DEF TypeInv, TypeOK, Numbered, stateVars
<1>8. ASSUME NEW x \in Exchanges, NEW o \in StoreOutcomes, Commit(x, o)
      PROVE  TypeInv'
  <2>1. /\ UNCHANGED <<stateVars, taskVars, nextId, summary, forgotten>>
        /\ step' \in [Exchanges -> Steps]
      BY <1>0, <1>8 DEF Commit, Goto, Steps, TypeOK
  <2>2. /\ messages' \in [Profiles -> SUBSET Rows]
        /\ \A p \in Profiles : messages'[p] \subseteq messages[p] \cup inserted[x]
      BY <1>0, <1>8 DEF Commit, TypeOK
  <2>3. \A p \in Profiles : BelowNext(messages[p])'
      BY <1>0, <2>1, <2>2 DEF Numbered, BelowNext
  <2> QED BY <1>0, <2>1, <2>2, <2>3 DEF TypeInv, TypeOK, Numbered, BelowNext, stateVars, taskVars
<1>9. ASSUME NEW x \in Exchanges, NEW o \in StoreOutcomes, ReadBacklog(x, o)
      PROVE  TypeInv'
  <2>1. /\ UNCHANGED <<stateVars, profile, inserted, keep, previous, storeVars>>
        /\ step' \in [Exchanges -> Steps]
      BY <1>0, <1>9 DEF ReadBacklog, Goto, Steps, TypeOK
  <2>2. profile[x] \in Profiles /\ Unsummarized(profile[x], keep[x]) \subseteq messages[profile[x]]
      BY <1>0 DEF Unsummarized, Older, TypeOK
  <2>3. /\ backlog' \in [Exchanges -> SUBSET Rows]
        /\ \A y \in Exchanges : backlog'[y] \subseteq backlog[y] \cup messages[profile[x]]
    <3>1. \/ backlog' = backlog
          \/ backlog' = [backlog EXCEPT ![x] = Unsummarized(profile[x], keep[x])]
        BY <1>9 DEF ReadBacklog
    <3>2. Unsummarized(profile[x], keep[x]) \in SUBSET Rows
        BY <1>0, <2>2 DEF TypeOK
    <3>3. backlog' \in [Exchanges -> SUBSET Rows]
        BY <1>0, <3>1, <3>2 DEF TypeOK
    <3>4. \A y \in Exchanges : backlog'[y] = backlog[y] \/ backlog'[y] = Unsummarized(profile[x], keep[x])
        BY <1>0, <3>1 DEF TypeOK
    <3> QED BY <2>2, <3>3, <3>4
  <2>4. \A y \in Exchanges : BelowNext(backlog[y])'
      BY <1>0, <2>1, <2>2, <2>3 DEF Numbered, BelowNext, storeVars
  <2> QED BY <1>0, <2>1, <2>3, <2>4 DEF TypeInv, TypeOK, Numbered, BelowNext, stateVars, storeVars
<1>10. ASSUME NEW x \in Exchanges, NEW o \in StoreOutcomes, ReadPrevious(x, o)
       PROVE  TypeInv'
  <2>1. previous' \in [Exchanges -> SUBSET Rows]
      BY <1>0, <1>10 DEF ReadPrevious, TypeOK
  <2> QED BY <1>0, <1>10, <1>a, <2>1 DEF ReadPrevious, Steps, TypeOK
<1>11. ASSUME NEW x \in Exchanges, NEW o \in StoreOutcomes, Upsert(x, o)
       PROVE  TypeInv'
  <2>1. /\ UNCHANGED <<stateVars, taskVars, nextId, messages, forgotten>>
        /\ step' \in [Exchanges -> Steps]
      BY <1>0, <1>11 DEF Upsert, Goto, Steps, TypeOK
  <2>2. LastId(backlog[x]) \in Nat /\ LastId(backlog[x]) < nextId
      BY <1>0, LastIdIsGreatest DEF TypeOK, Numbered, BelowNext
  <2>3. /\ summary' \in [Profiles -> [facts : SUBSET Rows, covers : Nat]]
        /\ \A p \in Profiles : summary'[p].covers < nextId
      BY <1>0, <1>11, <2>2 DEF Upsert, TypeOK, Numbered
  <2> QED BY <1>0, <2>1, <2>3 DEF TypeInv, TypeOK, Numbered, BelowNext, stateVars, taskVars
<1>12. CASE UNCHANGED vars
    BY <1>0, <1>12 DEF vars, stateVars, taskVars, storeVars, TypeInv, TypeOK, Numbered, BelowNext
<1> QED BY <1>1, <1>2, <1>3, <1>4, <1>5, <1>6, <1>7, <1>8, <1>9, <1>10, <1>11, <1>12
        DEF Next, Task, Idle

\* Every variable holds a value of its kind, whatever fails and however the
\* exchanges interleave; covers_until_message_id is a number though it is the
\* greatest id of a backlog that may be empty.
THEOREM TypeCorrect == Spec => []TypeOK
<1>1. TypeInv => TypeOK
    BY DEF TypeInv
<1> QED BY <1>1, InitTypeInv, NextTypeInv, PTL DEF Spec

----------------------------------------------------------------------------
(* One exchange at a time. *)

Waiting(p) == {m \in messages[p] : m.id > summary[p].covers}

OneAtATime == \A x, y \in Exchanges : Running(x) /\ Running(y) => x = y

\* The store has answered so far.
StoreAnswered == trouble <= ModelFailed

\* With a configured window of at least 1, no window is ever 0.
WindowsPositive == ContextWindow > 0 => window > 0 /\ \A x \in Exchanges : keep[x] > 0

\* The history of a profile is finite, and an id is that of one row.
History(p) ==
    /\ IsFiniteSet(messages[p])
    /\ \A m, l \in messages[p] : m.id = l.id => m = l

\* What exchange x carries agrees with the tables.
Agrees(x) ==
    /\ step[x] = "commit" =>
          /\ nextId > 2
          /\ inserted[x] = {[id |-> nextId - 2, exchange |-> x], [id |-> nextId - 1, exchange |-> x]}
          /\ \A p \in Profiles : summary[p].covers < nextId - 2
          /\ \A p \in Profiles : \A m \in messages[p] : m.id < nextId - 2
    /\ step[x] \in {"window", "backlog"} /\ StoreAnswered => Waiting(profile[x]) # {}
    /\ step[x] \in {"previous", "fold", "upsert"} =>
          /\ backlog[x] = Unsummarized(profile[x], keep[x])
          /\ ContextWindow > 0 \/ StoreAnswered => backlog[x] # {}
    /\ step[x] \in {"fold", "upsert"} /\ StoreAnswered => previous[x] = summary[profile[x]].facts

SerialInv ==
    /\ TypeInv /\ OneAtATime /\ WindowsPositive /\ SummaryComplete
    /\ \A p \in Profiles : History(p)
    /\ \A x \in Exchanges : Agrees(x)

LEMMA InitSerialInv == Init => SerialInv
<1> SUFFICES ASSUME Init PROVE SerialInv
    OBVIOUS
<1>1. TypeInv
    BY InitTypeInv
<1>2. \A p \in Profiles : History(p)
    BY FS_EmptySet DEF Init, History
<1> QED BY <1>1, <1>2
        DEF Init, SerialInv, OneAtATime, WindowsPositive, Running, SummaryComplete, Folded, Agrees

\* A step of exchange x, the only one under way.
LEMMA SerialTaskStep ==
    ASSUME SerialInv, TypeInv', NEW x \in Exchanges,
           \A y \in Exchanges : y # x => ~Running(y) /\ step'[y] = step[y],
           WindowsPositive', SummaryComplete', \A p \in Profiles : History(p)', Agrees(x)'
    PROVE  SerialInv'
<1>1. \A y \in Exchanges : y # x => step'[y] \in {"idle", "over"}
    BY DEF Running
<1>2. OneAtATime'
    BY <1>1 DEF OneAtATime, Running
<1>3. \A y \in Exchanges : y # x => Agrees(y)'
    BY <1>1 DEF Agrees
<1> QED BY <1>2, <1>3 DEF SerialInv

\* The backlog of exchange x ends where the rows left out of it begin.
LEMMA BacklogIsPrefix ==
    ASSUME SerialInv, NEW x \in Exchanges, step[x] \in {"previous", "fold", "upsert"},
           ContextWindow > 0 \/ StoreAnswered
    PROVE  /\ LastId(backlog[x]) \in Nat
           /\ LastId(backlog[x]) > summary[profile[x]].covers
           /\ backlog[x] = {m \in Waiting(profile[x]) : m.id <= LastId(backlog[x])}
<1> DEFINE p == profile[x]
<1>1. /\ p \in Profiles /\ messages[p] \subseteq Rows /\ backlog[x] \subseteq Rows /\ keep[x] \in Nat
      /\ summary[p].covers \in Nat /\ nextId \in Nat \ {0} /\ \A m \in Rows : m.id \in Nat
    BY DEF SerialInv, TypeInv, TypeOK, Rows
<1>2. backlog[x] = Older(Waiting(p), keep[x]) /\ backlog[x] # {}
    BY DEF SerialInv, Agrees, Unsummarized, Waiting
<1>3. /\ LastId(backlog[x]) \in Nat
      /\ \A m \in backlog[x] : m.id <= LastId(backlog[x])
      /\ \E m \in backlog[x] : m.id = LastId(backlog[x])
  <2>1. \A m \in backlog[x] : m.id < nextId
      BY DEF SerialInv, TypeInv, Numbered, BelowNext
  <2> QED BY <1>1, <1>2, <2>1, LastIdIsGreatest
<1>4. PICK b \in backlog[x] : b.id = LastId(backlog[x])
    BY <1>3
<1>5. Waiting(p) \subseteq Rows /\ IsFiniteSet(Waiting(p))
    BY <1>1, FS_Subset DEF Waiting, SerialInv, History
<1>6. backlog[x] \subseteq Waiting(p)
    BY <1>2 DEF Older
<1>7. \A m \in Waiting(p) : m.id <= b.id => m \in backlog[x]
    BY <1>1, <1>2, <1>4, <1>5, OlderIsPrefix
<1>8. b.id > summary[p].covers
    BY <1>6 DEF Waiting
<1> QED BY <1>3, <1>4, <1>6, <1>7, <1>8

LEMMA NextSerialInv ==
    ASSUME SerialInv, [Next]_vars, trouble' # Overlapped
    PROVE  SerialInv'
<1>0. /\ TypeOK /\ TypeInv' /\ Numbered /\ OneAtATime /\ WindowsPositive /\ SummaryComplete
      /\ \A p \in Profiles : History(p)
    BY NextTypeInv DEF SerialInv, TypeInv
<1>c. /\ trouble \in Calm..Overlapped /\ trouble' \in Calm..Overlapped
      /\ StoreAnswered' => StoreAnswered
  <2>1. trouble \in Calm..Overlapped
      BY <1>0 DEF TypeOK
  <2>2. trouble' \in Calm..Overlapped /\ trouble' >= trouble
      BY <2>1, TroubleGrows
  <2> QED BY <2>1, <2>2 DEF StoreAnswered, ModelFailed, Calm, Overlapped
<1>d. ASSUME NEW o, Meet(o # "ok", StoreFailed), StoreAnswered'
      PROVE  o = "ok"
    BY <1>c, <1>d DEF Meet, StoreAnswered, ModelFailed, StoreFailed, Calm, Overlapped
<1>e. ASSUME Meet(Busy, Overlapped)
      PROVE  ~Busy
    BY <1>c, <1>e DEF Meet, Calm, Overlapped
<1>1. ASSUME NEW p \in Profiles, Introduce(p)
      PROVE  SerialInv'
    BY <1>0, <1>1 DEF Introduce, SerialInv, OneAtATime, WindowsPositive, Running, SummaryComplete, Folded,
       History, Agrees, StoreAnswered, Waiting, Unsummarized, taskVars, storeVars
<1>2. ASSUME NEW n \in WindowsSaid, SetWindow(n)
      PROVE  SerialInv'
  <2>1. Clamp(n) > 0
      BY <1>2, WindowAssumption DEF Clamp
  <2>2. WindowsPositive'
      BY <1>0, <1>2, <2>1 DEF SetWindow, WindowsPositive, taskVars
  <2> QED BY <1>0, <1>2, <2>2 DEF SetWindow, SerialInv, OneAtATime, Running, SummaryComplete, Folded,
          History, Agrees, StoreAnswered, Waiting, Unsummarized, taskVars, storeVars
<1>3. ASSUME NEW o \in StoreOutcomes, Forget(o)
      PROVE  SerialInv'
  <2>1. \A x \in Exchanges : ~Running(x)
    <3>1. CASE Busy
      <4>1. Meet(TRUE, Overlapped)
          BY <1>3, <3>1 DEF Forget
      <4> QED BY <1>c, <4>1 DEF Meet, Calm, Overlapped
    <3> QED BY <3>1 DEF Busy
  <2>2. /\ UNCHANGED <<window, keep, step>>
        /\ \A p \in Profiles : \/ messages'[p] = {} /\ summary'[p] = NoSummary
                               \/ messages'[p] = messages[p] /\ summary'[p] = summary[p]
      BY <1>0, <1>3 DEF Forget, Cleared, TypeOK, taskVars
  <2>3. SummaryComplete'
      BY <1>0, <1>c, <2>2 DEF SummaryComplete, Folded, StoreAnswered
  <2>4. \A p \in Profiles : History(p)'
      BY <1>0, <2>2, FS_EmptySet DEF History
  <2>5. OneAtATime' /\ WindowsPositive' /\ \A x \in Exchanges : Agrees(x)'
      BY <1>0, <2>1, <2>2 DEF OneAtATime, WindowsPositive, Running, Agrees
  <2> QED BY <1>0, <2>3, <2>4, <2>5 DEF SerialInv
\* A step of x, the only exchange under way, that changes neither table.
<1>a. ASSUME NEW x \in Exchanges, \A y \in Exchanges : y # x => ~Running(y) /\ step'[y] = step[y],
             UNCHANGED <<messages, summary>>, WindowsPositive', Agrees(x)'
      PROVE  SerialInv'
  <2>1. SummaryComplete' /\ \A p \in Profiles : History(p)'
      BY <1>0, <1>a, <1>c DEF SummaryComplete, Folded, StoreAnswered, History
  <2> QED BY <1>0, <1>a, <2>1, SerialTaskStep
<1>b. \A x, y \in Exchanges : Running(x) /\ y # x => ~Running(y)
    BY <1>0 DEF OneAtATime
<1>4. ASSUME NEW x \in Exchanges, Ask(x)
      PROVE  SerialInv'
  <2>1. /\ step'[x] = "chat" /\ UNCHANGED <<window, keep, messages, summary>>
        /\ \A y \in Exchanges : y # x => ~Running(y) /\ step'[y] = step[y]
      BY <1>0, <1>4, <1>e DEF Ask, Busy, Goto, TypeOK, stateVars, storeVars
  <2>2. Agrees(x)' /\ WindowsPositive'
      BY <1>0, <2>1 DEF Agrees, WindowsPositive
  <2> QED BY <1>a, <2>1, <2>2
<1>5. ASSUME NEW x \in Exchanges, NEW o \in ProviderOutcomes, Chat(x, o) \/ Fold(x, o)
      PROVE  SerialInv'
  <2>1. /\ UNCHANGED <<window, profile, keep, backlog, previous, messages, summary>> /\ Running(x)
        /\ \A y \in Exchanges : y # x => step'[y] = step[y]
        /\ \/ step[x] = "fold" /\ step'[x] = "upsert"
           \/ step'[x] \in {"insert", "over"}
      BY <1>0, <1>5 DEF Chat, Fold, Goto, TypeOK, Running, stateVars, taskVars, storeVars
  <2>2. Agrees(x)' /\ WindowsPositive'
      BY <1>0, <1>c, <2>1 DEF SerialInv, Agrees, WindowsPositive, Unsummarized
  <2> QED BY <1>a, <1>b, <2>1, <2>2
<1>6. ASSUME NEW x \in Exchanges, ReadWindow(x)
      PROVE  SerialInv'
  <2>1. /\ step[x] = "window" /\ step'[x] = "backlog" /\ Running(x)
        /\ UNCHANGED <<window, profile, messages, summary, trouble>>
        /\ \A y \in Exchanges : y # x => step'[y] = step[y]
        /\ \A y \in Exchanges : keep'[y] = IF y = x THEN window ELSE keep[y]
      BY <1>0, <1>6 DEF ReadWindow, Goto, TypeOK, Running, stateVars, storeVars
  <2>2. Agrees(x)' /\ WindowsPositive'
      BY <1>0, <2>1 DEF SerialInv, Agrees, WindowsPositive, StoreAnswered, Waiting
  <2> QED BY <1>a, <1>b, <2>1, <2>2
<1>7. ASSUME NEW x \in Exchanges, NEW o \in StoreOutcomes, Insert(x, o)
      PROVE  SerialInv'
  <2>1. /\ Running(x) /\ UNCHANGED <<window, keep, messages, summary>>
        /\ \A y \in Exchanges : y # x => step'[y] = step[y]
        /\ Meet(o # "ok", StoreFailed)
        /\ \/ o # "ok" /\ step'[x] = "window"
           \/ /\ step'[x] = "commit" /\ nextId' = nextId + 2
              /\ inserted'[x] = {[id |-> nextId, exchange |-> x], [id |-> nextId + 1, exchange |-> x]}
      BY <1>0, <1>7 DEF Insert, Goto, TypeOK, Running, stateVars
  <2>2. CASE step'[x] = "window"
    <3>1. ~StoreAnswered'
        BY <1>d, <2>1, <2>2
    <3> QED BY <1>0, <1>a, <1>b, <2>1, <2>2, <3>1 DEF Agrees, WindowsPositive
  <2>3. CASE step'[x] = "commit"
    <3>1. nextId \in Nat \ {0}
        BY <1>0 DEF TypeOK
    <3>2. nextId' > 2 /\ nextId' - 2 = nextId /\ nextId' - 1 = nextId + 1
        BY <2>1, <2>3, <3>1
    <3>3. Agrees(x)' /\ WindowsPositive'
        BY <1>0, <2>1, <2>3, <3>2 DEF Agrees, WindowsPositive, Numbered, BelowNext
    <3> QED BY <1>a, <1>b, <2>1, <3>3
  <2> QED BY <2>1, <2>2, <2>3
<1>8. ASSUME NEW x \in Exchanges, NEW o \in StoreOutcomes, Commit(x, o)
      PROVE  SerialInv'
  <2> DEFINE first  == [id |-> nextId - 2, exchange |-> x]
             second == [id |-> nextId - 1, exchange |-> x]
  <2>1. /\ step[x] = "commit" /\ step'[x] = "window" /\ Running(x)
        /\ UNCHANGED <<window, keep, profile, summary>> /\ profile[x] \in Profiles
        /\ \A y \in Exchanges : y # x => step'[y] = step[y]
        /\ Meet(o # "ok", StoreFailed)
        /\ \A p \in Profiles : messages'[p] = IF p = profile[x] /\ o # "failed"
                                               THEN messages[p] \cup inserted[x] ELSE messages[p]
      BY <1>0, <1>8 DEF Commit, Goto, TypeOK, Running, stateVars, taskVars
  <2>2. /\ nextId > 2 /\ inserted[x] = {first, second}
        /\ \A p \in Profiles : summary[p].covers < nextId - 2
        /\ \A p \in Profiles : \A m \in messages[p] : m.id < nextId - 2
      BY <2>1 DEF SerialInv, Agrees
  <2>3. /\ nextId \in Nat /\ first.id = nextId - 2 /\ second.id = nextId - 1
        /\ \A p \in Profiles : summary[p].covers \in Nat /\ \A m \in messages[p] : m.id \in Nat
      BY <1>0 DEF TypeOK, Rows
  <2> HIDE DEF first, second
  <2>4. SummaryComplete'
    <3> SUFFICES ASSUME StoreAnswered, NEW p \in Profiles, NEW m \in messages'[p],
                        m.id <= summary[p].covers
                 PROVE  m \in summary[p].facts
        BY <1>c, <2>1 DEF SummaryComplete, Folded, StoreAnswered
    <3>1. m # first /\ m # second
        BY <2>2, <2>3
    <3>2. m \in messages[p]
        BY <2>1, <2>2, <3>1
    <3> QED BY <1>0, <3>2 DEF SummaryComplete, Folded, StoreAnswered
  <2>5. ASSUME NEW p \in Profiles
        PROVE  History(p)'
    <3>1. IsFiniteSet(messages[p])
        BY <1>0 DEF History
    <3>2. IsFiniteSet(messages'[p])
      <4>1. IsFiniteSet(messages[p] \cup {first})
          BY <3>1, FS_AddElement
      <4>2. IsFiniteSet((messages[p] \cup {first}) \cup {second})
          BY <4>1, FS_AddElement
      <4>3. \/ messages'[p] = messages[p]
            \/ messages'[p] = (messages[p] \cup {first}) \cup {second}
          BY <2>1, <2>2
      <4> QED BY <3>1, <4>2, <4>3
    <3>3. \A m \in messages'[p] : m \in messages[p] \/ m = first \/ m = second
        BY <2>1, <2>2
    <3>4. ASSUME NEW m \in messages'[p], NEW l \in messages'[p], m.id = l.id
          PROVE  m = l
        BY <1>0, <2>2, <2>3, <3>3, <3>4 DEF History
    <3> QED BY <3>2, <3>4 DEF History
  <2>6. Agrees(x)' /\ WindowsPositive'
    <3>1. StoreAnswered' => first \in messages'[profile[x]] /\ first.id > summary[profile[x]].covers
        BY <1>d, <2>1, <2>2, <2>3
    <3> QED BY <1>0, <2>1, <3>1 DEF Agrees, WindowsPositive, Waiting
  <2> QED BY <1>0, <1>b, <2>1, <2>4, <2>5, <2>6, SerialTaskStep
<1>9. ASSUME NEW x \in Exchanges, NEW o \in StoreOutcomes, ReadBacklog(x, o)
      PROVE  SerialInv'
  <2> DEFINE rows == Unsummarized(profile[x], keep[x])
  <2>1. /\ step[x] = "backlog" /\ Running(x) /\ UNCHANGED <<window, profile, keep, messages, summary>>
        /\ \A y \in Exchanges : y # x => step'[y] = step[y]
        /\ \/ step'[x] = "over"
           \/ step'[x] = "previous" /\ backlog'[x] = rows /\ Cardinality(rows) >= keep[x]
      BY <1>0, <1>9 DEF ReadBacklog, Goto, TypeOK, Running, stateVars, storeVars
  <2>2. ASSUME Cardinality(rows) >= keep[x], ContextWindow > 0 \/ StoreAnswered
        PROVE  rows # {}
    <3>1. /\ profile[x] \in Profiles /\ keep[x] \in Nat
          /\ IsFiniteSet(Waiting(profile[x])) /\ rows = Older(Waiting(profile[x]), keep[x])
          /\ Waiting(profile[x]) \in SUBSET Rows
        BY <1>0, <2>1, FS_Subset DEF SerialInv, Agrees, TypeOK, History, Waiting, Unsummarized
    <3>2. CASE keep[x] = 0
      <4>0. Waiting(profile[x]) # {}
          BY <1>0, <2>1, <2>2, <3>2 DEF SerialInv, Agrees, WindowsPositive
      <4>1. \A m \in Waiting(profile[x]) : Cardinality(Later(Waiting(profile[x]), m)) \in Nat
          BY <3>1, LaterShrinks
      <4>2. \A m \in Waiting(profile[x]) : Cardinality(Later(Waiting(profile[x]), m)) >= 0
          BY <4>1
      <4> QED BY <3>1, <3>2, <4>0, <4>2 DEF Older, Later
    <3>3. CASE keep[x] # 0
        BY <2>2, <3>1, <3>3, FS_EmptySet
    <3> QED BY <3>2, <3>3
  <2>3. Unsummarized(profile[x], keep[x])' = rows
      BY <2>1 DEF Unsummarized
  <2> HIDE DEF rows
  <2>4. Agrees(x)' /\ WindowsPositive'
      BY <1>0, <1>c, <2>1, <2>2, <2>3 DEF Agrees, WindowsPositive
  <2> QED BY <1>a, <1>b, <2>1, <2>4
<1>10. ASSUME NEW x \in Exchanges, NEW o \in StoreOutcomes, ReadPrevious(x, o)
       PROVE  SerialInv'
  <2>1. /\ step[x] = "previous" /\ step'[x] = "fold" /\ Running(x)
        /\ UNCHANGED <<window, profile, keep, backlog, messages, summary>>
        /\ \A y \in Exchanges : y # x => step'[y] = step[y]
        /\ Meet(o # "ok", StoreFailed)
        /\ o = "ok" => previous'[x] = summary[profile[x]].facts
      BY <1>0, <1>10 DEF ReadPrevious, Goto, TypeOK, Running, stateVars, storeVars
  <2>2. StoreAnswered' => StoreAnswered /\ o = "ok"
      BY <1>c, <1>d, <2>1
  <2>3. Agrees(x)' /\ WindowsPositive'
      BY <1>0, <1>c, <2>1, <2>2 DEF SerialInv, Agrees, WindowsPositive, Unsummarized
  <2> QED BY <1>a, <1>b, <2>1, <2>3
<1>11. ASSUME NEW x \in Exchanges, NEW o \in StoreOutcomes, Upsert(x, o)
       PROVE  SerialInv'
  <2>1. /\ step[x] = "upsert" /\ step'[x] = "over" /\ Running(x)
        /\ UNCHANGED <<window, keep, messages>> /\ Meet(o # "ok", StoreFailed)
        /\ \A y \in Exchanges : y # x => step'[y] = step[y]
        /\ \A p \in Profiles : summary'[p] = IF p = profile[x] /\ o # "failed"
                                              THEN [facts  |-> previous[x] \cup backlog[x],
                                                    covers |-> LastId(backlog[x])]
                                              ELSE summary[p]
      BY <1>0, <1>11 DEF Upsert, Goto, TypeOK, Running, stateVars, taskVars
  <2>4. SummaryComplete'
    <3> SUFFICES ASSUME StoreAnswered', NEW p \in Profiles, NEW m \in messages[p],
                        m.id <= summary'[p].covers
                 PROVE  m \in summary'[p].facts
        BY <2>1 DEF SummaryComplete, Folded, StoreAnswered
    <3>a. StoreAnswered /\ o = "ok" /\ Folded
        BY <1>0, <1>c, <1>d, <2>1 DEF SummaryComplete, StoreAnswered
    <3>b. previous[x] = summary[profile[x]].facts
        BY <2>1, <3>a DEF SerialInv, Agrees
    <3>c. /\ LastId(backlog[x]) \in Nat
          /\ backlog[x] = {l \in Waiting(profile[x]) : l.id <= LastId(backlog[x])}
        BY <2>1, <3>a, BacklogIsPrefix
    <3>1. CASE p # profile[x]
        BY <2>1, <3>1, <3>a DEF Folded
    <3>2. CASE p = profile[x]
      <4>1. m.id <= LastId(backlog[x])
          BY <2>1, <3>2, <3>a
      <4>2. m.id \in Nat /\ summary[p].covers \in Nat
          BY <1>0 DEF TypeOK, Rows
      <4>3. m \in previous[x] \/ m \in backlog[x]
        <5>1. CASE m.id <= summary[p].covers
            BY <3>2, <3>a, <3>b, <5>1 DEF Folded
        <5>2. CASE m.id > summary[p].covers
          <6>1. m \in Waiting(profile[x])
              BY <3>2, <5>2 DEF Waiting
          <6> QED BY <3>c, <4>1, <6>1
        <5> QED BY <4>2, <5>1, <5>2
      <4> QED BY <2>1, <3>2, <3>a, <4>3
    <3> QED BY <3>1, <3>2
  <2>5. \A p \in Profiles : History(p)'
      BY <1>0, <2>1 DEF History
  <2>6. Agrees(x)' /\ WindowsPositive'
      BY <1>0, <2>1 DEF Agrees, WindowsPositive
  <2> QED BY <1>0, <1>b, <2>1, <2>4, <2>5, <2>6, SerialTaskStep
<1>12. CASE UNCHANGED vars
    BY <1>0, <1>12 DEF vars, stateVars, taskVars, storeVars, SerialInv, OneAtATime, WindowsPositive,
       Running, SummaryComplete, Folded, History, Agrees, StoreAnswered, Waiting, Unsummarized
<1> QED BY <1>1, <1>2, <1>3, <1>4, <1>5, <1>6, <1>7, <1>8, <1>9, <1>10, <1>11, <1>12
        DEF Next, Task, Idle

\* What holds as long as the exchanges come one at a time.
OrderlyInv == TypeInv /\ (trouble # Overlapped => SerialInv)

LEMMA NextOrderlyInv == OrderlyInv /\ [Next]_vars => OrderlyInv'
<1> SUFFICES ASSUME OrderlyInv, [Next]_vars PROVE OrderlyInv'
    OBVIOUS
<1>1. TypeInv /\ TypeInv' /\ trouble \in Calm..Overlapped
    BY NextTypeInv DEF OrderlyInv, TypeInv, TypeOK
<1>2. trouble' \in Calm..Overlapped /\ trouble' >= trouble
    BY <1>1, TroubleGrows
<1>3. ASSUME trouble' # Overlapped
      PROVE  SerialInv'
  <2>1. trouble # Overlapped
      BY <1>1, <1>2, <1>3 DEF Calm, Overlapped
  <2>2. SerialInv
      BY <2>1 DEF OrderlyInv
  <2> QED BY <1>3, <2>2, NextSerialInv
<1> QED BY <1>1, <1>3 DEF OrderlyInv

LEMMA AlwaysOrderlyInv == Spec => []OrderlyInv
<1>1. Init => OrderlyInv
    BY InitTypeInv, InitSerialInv DEF OrderlyInv
<1> QED BY <1>1, NextOrderlyInv, PTL DEF Spec

\* While exchanges come one at a time and the store answers, a message that
\* the summary covers, and that is sent no more, is in the summary, whatever
\* windows are named and whichever model requests fail.
THEOREM NothingDropped == Spec => []SummaryComplete
<1>1. OrderlyInv => SummaryComplete
  <2> SUFFICES ASSUME OrderlyInv PROVE SummaryComplete
      OBVIOUS
  <2>1. trouble \in Calm..Overlapped
      BY DEF OrderlyInv, TypeInv, TypeOK
  <2>2. CASE trouble = Overlapped
      BY <2>1, <2>2 DEF SummaryComplete, Overlapped, ModelFailed
  <2>3. CASE trouble # Overlapped
      BY <2>3 DEF OrderlyInv, SerialInv
  <2> QED BY <2>2, <2>3
<1> QED BY <1>1, AlwaysOrderlyInv, PTL

\* While exchanges come one at a time, and with a configured window of at
\* least 1, no fold takes covers_until_message_id back: whatever failed before,
\* the record of the exchange included, a backlog that is folded is not empty
\* and lies after the summary.
THEOREM FoldsMoveForward ==
    ASSUME ContextWindow > 0
    PROVE  Spec => SummaryMovesForward
<1> DEFINE Forward == \A p \in Profiles : \/ summary'[p].covers >= summary[p].covers
                                          \/ messages'[p] = {} /\ summary'[p] = NoSummary
<1>1. ASSUME OrderlyInv, [Next]_vars
      PROVE  [trouble' = Overlapped \/ Forward]_vars
  <2> SUFFICES ASSUME trouble' # Overlapped PROVE Forward \/ UNCHANGED vars
      OBVIOUS
  <2>0. TypeOK /\ SerialInv /\ \A p \in Profiles : summary[p].covers \in Nat
    <3>1. TypeOK /\ trouble \in Calm..Overlapped
        BY <1>1 DEF OrderlyInv, TypeInv, TypeOK
    <3>2. trouble' \in Calm..Overlapped /\ trouble' >= trouble
        BY <1>1, <3>1, TroubleGrows
    <3>3. trouble # Overlapped
        BY <3>1, <3>2 DEF Calm, Overlapped
    <3> QED BY <1>1, <3>1, <3>3 DEF OrderlyInv, TypeOK
  <2>1. CASE UNCHANGED summary
      BY <2>0, <2>1
  <2>2. ASSUME NEW o \in StoreOutcomes, Forget(o)
        PROVE  Forward
    <3>1. \A p \in Profiles : \/ messages'[p] = {} /\ summary'[p] = NoSummary
                             \/ summary'[p] = summary[p]
        BY <2>0, <2>2 DEF Forget, Cleared, TypeOK
    <3> QED BY <2>0, <3>1
  <2>3. ASSUME NEW x \in Exchanges, NEW o \in StoreOutcomes, Upsert(x, o)
        PROVE  Forward
    <3>1. /\ step[x] = "upsert"
          /\ \A p \in Profiles : \/ summary'[p] = summary[p]
                                 \/ p = profile[x] /\ summary'[p].covers = LastId(backlog[x])
        BY <2>0, <2>3 DEF Upsert, TypeOK
    <3>2. LastId(backlog[x]) \in Nat /\ LastId(backlog[x]) > summary[profile[x]].covers
        BY <2>0, <3>1, BacklogIsPrefix
    <3> QED BY <2>0, <3>1, <3>2
  <2>4. \/ UNCHANGED summary
        \/ \E o \in StoreOutcomes : Forget(o)
        \/ \E x \in Exchanges, o \in StoreOutcomes : Upsert(x, o)
      BY <1>1 DEF Next, Task, Idle, Introduce, SetWindow, Ask, Chat, Fold, ReadWindow, Insert, Commit,
         ReadBacklog, ReadPrevious, vars, storeVars
  <2> HIDE DEF Forward
  <2> QED BY <2>1, <2>2, <2>3, <2>4
<1> QED BY <1>1, AlwaysOrderlyInv, PTL DEF Spec, SummaryMovesForward

----------------------------------------------------------------------------
(* How much waits for the summary, while the model folds what it is asked to. *)

Largest == IF ContextWindow > MaxWindow THEN ContextWindow ELSE MaxWindow

Summarizing(x) == step[x] \in {"window", "backlog", "previous", "fold", "upsert"}

Short(p) == Cardinality(Waiting(p)) < 2 * Largest

BacklogInv ==
    /\ SerialInv
    /\ window <= Largest /\ \A x \in Exchanges : keep[x] <= Largest
    /\ \A p \in Profiles : Short(p) \/ \E x \in Exchanges : profile[x] = p /\ Summarizing(x)

LEMMA LargestIsPositive == Largest \in Nat /\ Largest >= 1
    BY WindowAssumption DEF Largest

LEMMA InitBacklogInv == Init => BacklogInv
<1> SUFFICES ASSUME Init PROVE BacklogInv
    OBVIOUS
<1>1. SerialInv
    BY InitSerialInv
<1>2. ContextWindow <= Largest
    BY WindowAssumption DEF Largest
<1>3. ASSUME NEW p \in Profiles
      PROVE  Short(p)
  <2>1. Waiting(p) = {}
      BY DEF Init, Waiting
  <2> QED BY <2>1, LargestIsPositive, FS_EmptySet DEF Short
<1> QED BY <1>1, <1>2, <1>3 DEF Init, BacklogInv

\* A step that shortens what waits under the profile of x, or leaves x
\* summarizing.
LEMMA BacklogTaskStep ==
    ASSUME BacklogInv, SerialInv', window' <= Largest, NEW x \in Exchanges,
           NEW q \in Profiles, q = profile[x],
           \A y \in Exchanges : keep'[y] <= Largest,
           \A y \in Exchanges : y # x => step'[y] = step[y] /\ profile'[y] = profile[y],
           \A p \in Profiles : p # q => Waiting(p)' = Waiting(p),
           \/ Summarizing(x)' /\ profile'[x] = q
           \/ Short(q)'
           \/ ~Summarizing(x) /\ Waiting(q)' = Waiting(q)
    PROVE  BacklogInv'
<1>1. ASSUME NEW p \in Profiles, ~Short(p)'
      PROVE  \E y \in Exchanges : profile'[y] = p /\ Summarizing(y)'
  <2>1. CASE Summarizing(x)' /\ profile'[x] = q /\ p = q
      BY <2>1
  <2>2. CASE p # q \/ (~Summarizing(x) /\ Waiting(q)' = Waiting(q))
    <3>1. ~Short(p)
        BY <1>1, <2>2 DEF Short
    <3>2. PICK y \in Exchanges : profile[y] = p /\ Summarizing(y)
        BY <3>1 DEF BacklogInv
    <3>3. y # x
        BY <2>2, <3>2
    <3> QED BY <3>2, <3>3 DEF Summarizing
  <2> QED BY <1>1, <2>1, <2>2
<1> QED BY <1>1 DEF BacklogInv

LEMMA NextBacklogInv ==
    ASSUME BacklogInv, [Next]_vars, trouble' = Calm
    PROVE  BacklogInv'
<1>0. SerialInv /\ SerialInv' /\ TypeOK
  <2>1. trouble' # Overlapped
      BY DEF Calm, Overlapped
  <2> QED BY <2>1, NextSerialInv DEF BacklogInv, SerialInv, TypeInv
<1>c. ASSUME NEW o, Meet(o # "ok", StoreFailed) \/ Meet(o # "ok", ModelFailed)
      PROVE  o = "ok"
  <2>1. trouble \in Calm..Overlapped
      BY <1>0 DEF TypeOK
  <2> QED BY <1>c, <2>1 DEF Meet, ModelFailed, StoreFailed, Calm, Overlapped
<1>d. StoreAnswered
  <2>1. trouble \in Calm..Overlapped
      BY <1>0 DEF TypeOK
  <2> QED BY <2>1, TroubleGrows DEF StoreAnswered, ModelFailed, Calm, Overlapped
<1>i. /\ window <= Largest /\ \A y \in Exchanges : keep[y] <= Largest
      /\ \A p \in Profiles : Short(p) \/ \E x \in Exchanges : profile[x] = p /\ Summarizing(x)
    BY DEF BacklogInv
<1>1. ASSUME NEW p \in Profiles, Introduce(p)
      PROVE  BacklogInv'
    BY <1>0, <1>1, <1>i DEF Introduce, BacklogInv, Summarizing, Short, Waiting, taskVars, storeVars
<1>2. ASSUME NEW n \in WindowsSaid, SetWindow(n)
      PROVE  BacklogInv'
  <2>1. Clamp(n) <= Largest
      BY WindowAssumption DEF Clamp, Largest
  <2> QED BY <1>0, <1>2, <1>i, <2>1
          DEF SetWindow, BacklogInv, Summarizing, Short, Waiting, taskVars, storeVars
<1>3. ASSUME NEW o \in StoreOutcomes, Forget(o)
      PROVE  BacklogInv'
  <2>1. /\ UNCHANGED <<window, step, keep, profile>>
        /\ \A p \in Profiles : \/ messages'[p] = {}
                               \/ messages'[p] = messages[p] /\ summary'[p] = summary[p]
      BY <1>0, <1>3 DEF Forget, Cleared, TypeOK, taskVars
  <2>2. ASSUME NEW p \in Profiles
        PROVE  Short(p)' \/ Waiting(p)' = Waiting(p)
    <3>1. CASE messages'[p] = {}
      <4>1. Waiting(p)' = {}
          BY <2>1, <3>1 DEF Waiting
      <4> QED BY <4>1, LargestIsPositive, FS_EmptySet DEF Short
    <3>2. CASE messages'[p] = messages[p] /\ summary'[p] = summary[p]
        BY <3>2 DEF Waiting
    <3> QED BY <2>1, <3>1, <3>2
  <2> QED BY <1>0, <1>i, <2>1, <2>2 DEF BacklogInv, Short, Summarizing
\* A step of x that changes neither table and does not end a summarizer.
<1>a. ASSUME NEW x \in Exchanges, UNCHANGED <<window, messages, summary>>,
             \A y \in Exchanges : keep'[y] <= Largest,
             \A y \in Exchanges : y # x => step'[y] = step[y] /\ profile'[y] = profile[y],
             Summarizing(x) => Summarizing(x)' /\ profile'[x] = profile[x]
      PROVE  BacklogInv'
  <2>1. \A p \in Profiles : Waiting(p)' = Waiting(p)
      BY <1>a DEF Waiting
  <2>2. profile[x] \in Profiles
      BY <1>0 DEF TypeOK
  <2> QED BY <1>0, <1>a, <1>i, <2>1, <2>2, BacklogTaskStep
<1>4. ASSUME NEW x \in Exchanges, Ask(x)
      PROVE  BacklogInv'
  <2>1. /\ ~Summarizing(x) /\ UNCHANGED <<window, keep, messages, summary>>
        /\ \A y \in Exchanges : y # x => step'[y] = step[y] /\ profile'[y] = profile[y]
      BY <1>0, <1>4 DEF Ask, Goto, TypeOK, Summarizing, stateVars, storeVars
  <2> QED BY <1>a, <1>i, <2>1
<1>5. ASSUME NEW x \in Exchanges, NEW o \in ProviderOutcomes, Chat(x, o) \/ Fold(x, o)
      PROVE  BacklogInv'
  <2>1. /\ Summarizing(x) => Summarizing(x)'
        /\ UNCHANGED <<window, keep, profile, messages, summary>>
        /\ \A y \in Exchanges : y # x => step'[y] = step[y]
      BY <1>0, <1>5, <1>c DEF Chat, Fold, Goto, TypeOK, Summarizing, stateVars, taskVars, storeVars
  <2> QED BY <1>a, <1>i, <2>1
<1>6. ASSUME NEW x \in Exchanges, ReadWindow(x)
      PROVE  BacklogInv'
  <2>1. /\ Summarizing(x)' /\ UNCHANGED <<window, profile, messages, summary>>
        /\ \A y \in Exchanges : y # x => step'[y] = step[y]
        /\ \A y \in Exchanges : keep'[y] = IF y = x THEN window ELSE keep[y]
      BY <1>0, <1>6 DEF ReadWindow, Goto, TypeOK, Summarizing, stateVars, storeVars
  <2> QED BY <1>a, <1>i, <2>1
<1>7. ASSUME NEW x \in Exchanges, NEW o \in StoreOutcomes, Insert(x, o)
      PROVE  BacklogInv'
  <2>1. /\ ~Summarizing(x) /\ UNCHANGED <<window, keep, profile, messages, summary>>
        /\ \A y \in Exchanges : y # x => step'[y] = step[y]
      BY <1>0, <1>7 DEF Insert, Goto, TypeOK, Summarizing, stateVars
  <2> QED BY <1>a, <1>i, <2>1
<1>8. ASSUME NEW x \in Exchanges, NEW o \in StoreOutcomes, Commit(x, o)
      PROVE  BacklogInv'
  <2>1. /\ Summarizing(x)' /\ UNCHANGED <<window, keep, profile, summary>> /\ profile[x] \in Profiles
        /\ \A y \in Exchanges : y # x => step'[y] = step[y]
        /\ \A p \in Profiles : p # profile[x] => messages'[p] = messages[p]
      BY <1>0, <1>8 DEF Commit, Goto, TypeOK, Summarizing, stateVars, taskVars
  <2>2. \A p \in Profiles : p # profile[x] => Waiting(p)' = Waiting(p)
      BY <2>1 DEF Waiting
  <2> QED BY <1>0, <1>i, <2>1, <2>2, BacklogTaskStep
\* What waits under the profile of x, split into the rows a fold takes and
\* the at most keep[x] rows it leaves.
<1>b. ASSUME NEW x \in Exchanges, NEW old, old = Unsummarized(profile[x], keep[x])
      PROVE  /\ profile[x] \in Profiles /\ keep[x] \in Nat
             /\ IsFiniteSet(Waiting(profile[x])) /\ IsFiniteSet(old) /\ old \subseteq Waiting(profile[x])
             /\ IsFiniteSet(Waiting(profile[x]) \ old)
             /\ Cardinality(Waiting(profile[x]) \ old) <= keep[x]
  <2>1. /\ profile[x] \in Profiles /\ keep[x] \in Nat /\ Waiting(profile[x]) \in SUBSET Rows
        /\ old = Older(Waiting(profile[x]), keep[x])
      BY <1>0, <1>b DEF TypeOK, Waiting, Unsummarized
  <2>2. /\ IsFiniteSet(Waiting(profile[x]))
        /\ \A m, l \in Waiting(profile[x]) : m.id = l.id => m = l
      BY <1>0, <2>1, FS_Subset DEF SerialInv, History, Waiting
  <2>3. old \subseteq Waiting(profile[x])
      BY <2>1 DEF Older
  <2> QED BY <2>1, <2>2, <2>3, FewAreNotOlder, FS_Subset
<1>9. ASSUME NEW x \in Exchanges, NEW o \in StoreOutcomes, ReadBacklog(x, o)
      PROVE  BacklogInv'
  <2> DEFINE rows == Unsummarized(profile[x], keep[x])
             all  == Waiting(profile[x])
  <2>1. /\ UNCHANGED <<window, keep, profile, messages, summary>>
        /\ \A y \in Exchanges : y # x => step'[y] = step[y]
        /\ \/ step'[x] = "over" /\ Cardinality(rows) < keep[x]
           \/ step'[x] = "previous"
      BY <1>0, <1>9, <1>c DEF ReadBacklog, Goto, TypeOK, stateVars, storeVars
  <2>2. CASE step'[x] = "previous"
      BY <1>a, <1>i, <2>1, <2>2 DEF Summarizing
  <2>3. CASE Cardinality(rows) < keep[x]
    <3>1. /\ profile[x] \in Profiles /\ keep[x] \in Nat
          /\ IsFiniteSet(all) /\ IsFiniteSet(rows) /\ rows \subseteq all /\ IsFiniteSet(all \ rows)
          /\ Cardinality(all \ rows) <= keep[x]
        BY <1>b
    <3>2. Cardinality(all) < 2 * Largest
      <4>1. Cardinality(rows) \in Nat /\ Cardinality(all \ rows) \in Nat
          BY <3>1, FS_CardinalityType
      <4>2. all = rows \cup (all \ rows) /\ rows \cap (all \ rows) = {}
          BY <3>1
      <4>3. Cardinality(all) = Cardinality(rows) + Cardinality(all \ rows) - 0
        <5> HIDE DEF rows, all
        <5>1. Cardinality(rows \cup (all \ rows)) =
                Cardinality(rows) + Cardinality(all \ rows) - Cardinality(rows \cap (all \ rows))
            BY <3>1, FS_Union
        <5> QED BY <4>2, <5>1, FS_EmptySet
      <4> HIDE DEF rows, all
      <4>4. keep[x] <= Largest
          BY <1>i
      <4> QED BY <2>3, <3>1, <4>1, <4>3, <4>4, LargestIsPositive
    <3>3. \A p \in Profiles : Waiting(p)' = Waiting(p)
        BY <2>1 DEF Waiting
    <3>4. PICK q \in Profiles : q = profile[x]
        BY <3>1
    <3>5. Short(q)'
        BY <3>2, <3>3, <3>4 DEF Short
    <3> QED BY <1>0, <1>i, <2>1, <3>3, <3>4, <3>5, BacklogTaskStep
  <2> QED BY <2>1, <2>2, <2>3
<1>10. ASSUME NEW x \in Exchanges, NEW o \in StoreOutcomes, ReadPrevious(x, o)
       PROVE  BacklogInv'
  <2>1. /\ Summarizing(x)' /\ UNCHANGED <<window, keep, profile, messages, summary>>
        /\ \A y \in Exchanges : y # x => step'[y] = step[y]
      BY <1>0, <1>10 DEF ReadPrevious, Goto, TypeOK, Summarizing, stateVars, storeVars
  <2> QED BY <1>a, <1>i, <2>1
<1>11. ASSUME NEW x \in Exchanges, NEW o \in StoreOutcomes, Upsert(x, o)
       PROVE  BacklogInv'
  <2>1. /\ step[x] = "upsert" /\ UNCHANGED <<window, keep, profile, messages>>
        /\ \A y \in Exchanges : y # x => step'[y] = step[y]
        /\ \A p \in Profiles : IF p = profile[x] THEN summary'[p].covers = LastId(backlog[x])
                               ELSE summary'[p] = summary[p]
      BY <1>0, <1>11, <1>c DEF Upsert, Goto, TypeOK, stateVars, taskVars
  <2>2. PICK q \in Profiles : q = profile[x]
      BY <1>0 DEF TypeOK
  <2>3. backlog[x] = Unsummarized(q, keep[x])
      BY <1>0, <2>1, <2>2 DEF SerialInv, Agrees
  <2>4. Waiting(q)' = Waiting(q) \ backlog[x]
    <3>1. /\ LastId(backlog[x]) \in Nat /\ LastId(backlog[x]) > summary[q].covers
          /\ backlog[x] = {m \in Waiting(q) : m.id <= LastId(backlog[x])}
        BY <1>0, <1>d, <2>1, <2>2, BacklogIsPrefix
    <3>2. summary[q].covers \in Nat /\ \A m \in messages[q] : m.id \in Nat
        BY <1>0 DEF TypeOK, Rows
    <3>3. Waiting(q)' = {m \in messages[q] : m.id > LastId(backlog[x])}
        BY <2>1, <2>2 DEF Waiting
    <3>4. ASSUME NEW m \in messages[q]
          PROVE  m.id > LastId(backlog[x]) <=> m.id > summary[q].covers /\ ~(m.id <= LastId(backlog[x]))
        BY <3>1, <3>2
    <3> QED BY <3>1, <3>3, <3>4 DEF Waiting
  <2>5. Short(q)'
    <3>1. /\ keep[x] \in Nat /\ Cardinality(Waiting(q) \ backlog[x]) <= keep[x]
          /\ IsFiniteSet(Waiting(q) \ backlog[x])
        BY <1>b, <2>2, <2>3
    <3>2. Cardinality(Waiting(q) \ backlog[x]) \in Nat /\ keep[x] <= Largest
        BY <1>i, <3>1, FS_CardinalityType
    <3>3. Cardinality(Waiting(q) \ backlog[x]) < 2 * Largest
        BY <3>1, <3>2, LargestIsPositive
    <3> QED BY <2>4, <3>3 DEF Short
  <2>6. \A p \in Profiles : p # q => Waiting(p)' = Waiting(p)
      BY <2>1, <2>2 DEF Waiting
  <2> QED BY <1>0, <1>i, <2>1, <2>2, <2>5, <2>6, BacklogTaskStep
<1>12. CASE UNCHANGED vars
    BY <1>0, <1>12, <1>i DEF vars, stateVars, taskVars, storeVars, BacklogInv, Summarizing, Short, Waiting
<1> QED BY <1>1, <1>2, <1>3, <1>4, <1>5, <1>6, <1>7, <1>8, <1>9, <1>10, <1>11, <1>12
        DEF Next, Task, Idle

\* While exchanges come one at a time and neither the store nor the model
\* fails, fewer messages wait for the summary between two exchanges than two
\* of the largest windows, whatever windows the users name.
THEOREM BacklogStaysShort == Spec => []BacklogBounded
<1> DEFINE CalmInv == TypeInv /\ (trouble = Calm => BacklogInv)
<1>1. Init => CalmInv
    BY InitTypeInv, InitBacklogInv
<1>2. ASSUME CalmInv, [Next]_vars
      PROVE  CalmInv'
  <2>1. TypeInv' /\ trouble \in Calm..Overlapped
      BY <1>2, NextTypeInv DEF TypeInv, TypeOK
  <2>2. trouble' \in Calm..Overlapped /\ trouble' >= trouble
      BY <1>2, <2>1, TroubleGrows
  <2>3. ASSUME trouble' = Calm
        PROVE  BacklogInv'
    <3>1. trouble = Calm
        BY <2>1, <2>2, <2>3 DEF Calm, Overlapped
    <3> QED BY <1>2, <2>3, <3>1, NextBacklogInv
  <2> QED BY <2>1, <2>3
<1>3. CalmInv => BacklogBounded
  <2> SUFFICES ASSUME BacklogInv, \A x \in Exchanges : ~Running(x), NEW p \in Profiles
               PROVE  Cardinality({m \in messages[p] : m.id > summary[p].covers}) < 2 * Largest
      BY DEF BacklogBounded, Largest
  <2>1. Short(p)
      BY DEF BacklogInv, Running, Summarizing
  <2> QED BY <2>1 DEF Short, Waiting
<1> HIDE DEF CalmInv
<1> QED BY <1>1, <1>2, <1>3, PTL DEF Spec
=============================================================================
