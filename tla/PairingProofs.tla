--------------------------- MODULE PairingProofs ---------------------------
(***************************************************************************)
(* A surface never changes its house, and approvals mean what was typed,    *)
(* for every number of houses, accounts, applications, codes, calls and     *)
(* approvals, whatever statement fails.                                     *)
(***************************************************************************)
EXTENDS Pairing, TLAPS

\* A call that began has an identity; one that has not heard nothing.
CallsKnown ==
    \A c \in Calls :
        /\ at[c] # "idle" => caller[c].user \in Users /\ caller[c].app \in Apps
        /\ at[c] # "done" => heard[c].kind = "none"
        /\ heard[c].kind = "bound" => heard[c].house \in Houses

\* An approval that began has a house and a code, and a target past its
\* SELECT; it reports success only at its end.
ApprovalsKnown ==
    \A p \in Approvals :
        /\ step[p] # "idle" => typed[p].house \in Houses /\ typed[p].code \in Codes
        /\ step[p] \in {"check", "bind"} \/ result[p] = "approved" =>
               target[p].app \in Apps /\ target[p].user \in Users
        /\ result[p] = "approved" => step[p] = "done"

\* The row an approval matched is locked by it and is still that row.
RowHeld ==
    \A p \in Approvals :
        step[p] \in {"check", "bind"} =>
            /\ lock[target[p].app] = p
            /\ request[target[p].app].user = target[p].user
            /\ request[target[p].app].code = typed[p].code

\* ApprovedAsTyped, by an approval that is over.
ApprovedBefore ==
    \A a \in Apps :
        request[a].status = "approved" =>
            \E p \in Approvals :
                /\ step[p] = "done"
                /\ typed[p] = [house |-> request[a].house, code |-> request[a].code]
                /\ target[p] = [app |-> a, user |-> request[a].user]

Inv == TypeOK /\ CallsKnown /\ ApprovalsKnown /\ RowHeld /\ ApprovedBefore
       /\ BoundForGood /\ ApprovalInForce

LEMMA InitInv == Init => Inv
    BY NoneAssumption DEF Init, Inv, TypeOK, CallsKnown, ApprovalsKnown, RowHeld, ApprovedBefore,
       BoundForGood, ApprovalInForce, NoSurface, NoRequest, SurfaceRows, RequestRows, Replies,
       Plain, Locations, Statements

\* No step gives a bound surface another house or account.
LEMMA SurfaceFixed ==
    ASSUME TypeOK, [Next]_vars, NEW a \in Apps, surface[a] # NoSurface
    PROVE  surface'[a] # NoSurface
           /\ surface'[a].house = surface[a].house /\ surface'[a].user = surface[a].user
<1>1. ASSUME NEW p \in Approvals, NEW o \in StoreOutcomes, Bind(p, o)
      PROVE  surface'[a] # NoSurface
             /\ surface'[a].house = surface[a].house /\ surface'[a].user = surface[a].user
    BY <1>1, NoneAssumption DEF Bind, Conflict, TypeOK, SurfaceRows, NoSurface
<1>2. ASSUME NEW b \in Apps, DisableSurface(b)
      PROVE  surface'[a] # NoSurface
             /\ surface'[a].house = surface[a].house /\ surface'[a].user = surface[a].user
    BY <1>2, NoneAssumption DEF DisableSurface, TypeOK, SurfaceRows, NoSurface
<1>3. UNCHANGED surface \/ (\E p \in Approvals, o \in StoreOutcomes : Bind(p, o))
          \/ (\E b \in Apps : DisableSurface(b))
    BY DEF Next, Resolve, ApprovePairing, Administer, Call, LookUp, Exists, Members,
       CreatePairingRequest, Approve, Select, Check, CreateHouse, AddMember, DisableMember,
       ExpireRequest, vars
<1> QED BY <1>1, <1>2, <1>3

\* The answers without a house.
LEMMA PlainReply ==
    /\ Plain("error") \in Replies /\ Plain("unauthorized") \in Replies
    /\ Plain("pairing") \in Replies
    BY DEF Plain, Replies

LEMMA NextTypeOK == Inv /\ [Next]_vars => TypeOK'
<1> SUFFICES ASSUME Inv, [Next]_vars PROVE TypeOK'
    OBVIOUS
<1> USE NoneAssumption DEF Inv
<1>1. ASSUME NEW c \in Calls, NEW u \in Users, NEW a \in Apps, Call(c, u, a) PROVE TypeOK'
    BY <1>1 DEF Call, TypeOK, Locations, adminVars, approveVars
<1>2. ASSUME NEW c \in Calls, NEW o \in StoreOutcomes, LookUp(c, o) PROVE TypeOK'
  <2>1. caller[c].app \in Apps
      BY <1>2 DEF LookUp, CallsKnown
  <2>2. Served(caller[c].user, caller[c].app) =>
            [kind |-> "bound", house |-> surface[caller[c].app].house] \in Replies
      BY <2>1 DEF Served, TypeOK, SurfaceRows, Replies, NoSurface
  <2>3. heard' \in [Calls -> Replies]
      BY <1>2, <2>2, PlainReply DEF LookUp, Answer, TypeOK
  <2>4. at' \in [Calls -> Locations]
    <3>1. at' = [at EXCEPT ![c] = "done"] \/ at' = [at EXCEPT ![c] = "exists"]
        BY <1>2 DEF LookUp, Answer
    <3> QED BY <3>1 DEF TypeOK, Locations
  <2> QED BY <1>2, <2>3, <2>4 DEF LookUp, TypeOK, adminVars, approveVars
<1>3. ASSUME NEW c \in Calls, NEW o \in StoreOutcomes, Exists(c, o) PROVE TypeOK'
  <2>1. heard' \in [Calls -> Replies]
      BY <1>3, PlainReply DEF Exists, Answer, TypeOK
  <2>2. at' \in [Calls -> Locations]
    <3>1. at' = [at EXCEPT ![c] = "done"] \/ at' = [at EXCEPT ![c] = "members"]
        BY <1>3 DEF Exists, Answer
    <3> QED BY <3>1 DEF TypeOK, Locations
  <2> QED BY <1>3, <2>1, <2>2 DEF Exists, TypeOK, adminVars, approveVars
<1>4. ASSUME NEW c \in Calls, NEW o \in StoreOutcomes, Members(c, o) PROVE TypeOK'
  <2>1. heard' \in [Calls -> Replies]
      BY <1>4, PlainReply DEF Members, Answer, TypeOK
  <2>2. at' \in [Calls -> Locations]
      BY <1>4 DEF Members, Answer, TypeOK, Locations
  <2>3. Memberships(caller[c].user) \subseteq Houses
      BY DEF Memberships, TypeOK
  <2>4. choice' \in [Calls -> Houses \cup {None}]
      BY <1>4, <2>3 DEF Members, TypeOK
  <2> QED BY <1>4, <2>1, <2>2, <2>4 DEF Members, TypeOK, adminVars, approveVars
<1>5. ASSUME NEW c \in Calls, NEW k \in Codes, NEW o \in StoreOutcomes,
             CreatePairingRequest(c, k, o)
      PROVE  TypeOK'
  <2>1. caller[c].user \in Users /\ caller[c].app \in Apps
      BY <1>5 DEF CreatePairingRequest, CallsKnown
  <2>2. [status |-> "open", house |-> choice[c], user |-> caller[c].user, code |-> k]
            \in RequestRows
      BY <2>1 DEF TypeOK, RequestRows
  <2>3. request' \in [Apps -> RequestRows]
      BY <1>5, <2>2 DEF CreatePairingRequest, TypeOK
  <2>4. heard' \in [Calls -> Replies]
      BY <1>5, PlainReply DEF CreatePairingRequest, Answer, TypeOK
  <2>5. at' \in [Calls -> Locations] /\ choice' \in [Calls -> Houses \cup {None}]
      BY <1>5 DEF CreatePairingRequest, Answer, TypeOK, Locations
  <2> QED BY <1>5, <2>3, <2>4, <2>5 DEF CreatePairingRequest, TypeOK, adminVars, approveVars
<1>6. ASSUME NEW p \in Approvals, NEW h \in Houses, NEW k \in Codes, Approve(p, h, k)
      PROVE  TypeOK'
    BY <1>6 DEF Approve, TypeOK, Statements, adminVars, callVars
<1>7. ASSUME NEW p \in Approvals, NEW o \in StoreOutcomes, Select(p, o) PROVE TypeOK'
  <2>1. \A a \in Candidates(p) : a \in Apps /\ request[a].user \in Users
      BY DEF Candidates, TypeOK, RequestRows, NoRequest
  <2>2. target' \in [Approvals -> [app : Apps \cup {None}, user : Users \cup {None}]]
      BY <1>7, <2>1 DEF Select, TypeOK
  <2>3. lock' \in [Apps -> Approvals \cup {None}]
      BY <1>7 DEF Select, Locked, Close, TypeOK
  <2>4. step' \in [Approvals -> Statements]
        /\ result' \in [Approvals -> {"none", "approved", "notFound", "error"}]
      BY <1>7 DEF Select, Close, TypeOK, Statements
  <2> QED BY <1>7, <2>2, <2>3, <2>4 DEF Select, TypeOK, adminVars, callVars
<1>8. ASSUME NEW p \in Approvals, NEW o \in StoreOutcomes, Check(p, o) PROVE TypeOK'
  <2>1. lock' \in [Apps -> Approvals \cup {None}]
      BY <1>8 DEF Check, Close, TypeOK
  <2>2. step' \in [Approvals -> Statements]
        /\ result' \in [Approvals -> {"none", "approved", "notFound", "error"}]
      BY <1>8 DEF Check, Close, TypeOK, Statements
  <2> QED BY <1>8, <2>1, <2>2 DEF Check, TypeOK, adminVars, callVars
<1>9. ASSUME NEW p \in Approvals, NEW o \in StoreOutcomes, Bind(p, o) PROVE TypeOK'
  <2>1. target[p].app \in Apps /\ target[p].user \in Users /\ typed[p].house \in Houses
      BY <1>9 DEF Bind, ApprovalsKnown
  <2>2. request[target[p].app] # NoRequest
      BY <1>9, <2>1 DEF Bind, RowHeld, NoRequest
  <2>3. surface' \in [Apps -> SurfaceRows]
    <3>1. [house |-> typed[p].house, user |-> target[p].user, enabled |-> TRUE] \in SurfaceRows
        BY <2>1 DEF SurfaceRows
    <3> QED BY <1>9, <3>1 DEF Bind, TypeOK
  <2>4. request' \in [Apps -> RequestRows]
    <3>1. request[target[p].app] \in
              [status : {"open", "expired", "approved"}, house : Houses \cup {None},
               user : Users, code : Codes]
        BY <2>1, <2>2 DEF TypeOK, RequestRows
    <3>2. ApprovedRow(target[p].app, typed[p].house) \in RequestRows
        BY <2>1, <3>1 DEF ApprovedRow, RequestRows
    <3> QED BY <1>9, <2>1, <3>2 DEF Bind, TypeOK
  <2>5. lock' \in [Apps -> Approvals \cup {None}]
      BY <1>9 DEF Bind, Close, TypeOK
  <2>6. step' \in [Approvals -> Statements]
        /\ result' \in [Approvals -> {"none", "approved", "notFound", "error"}]
      BY <1>9 DEF Bind, BindResult, Close, TypeOK, Statements
  <2> QED BY <1>9, <2>3, <2>4, <2>5, <2>6 DEF Bind, TypeOK, adminVars, callVars
<1>10. ASSUME NEW h \in Houses, CreateHouse(h) PROVE TypeOK'
    BY <1>10 DEF CreateHouse, TypeOK, callVars, approveVars
<1>11. ASSUME NEW h \in Houses, NEW u \in Users, AddMember(h, u) \/ DisableMember(h, u)
       PROVE  TypeOK'
  <2>1. PICK v \in {"on", "off"} : member' = [member EXCEPT ![h][u] = v]
      BY <1>11 DEF AddMember, DisableMember
  <2>2. [member[h] EXCEPT ![u] = v] \in [Users -> {"none", "on", "off"}]
      BY DEF TypeOK
  <2>3. member' \in [Houses -> [Users -> {"none", "on", "off"}]]
      BY <2>1, <2>2 DEF TypeOK
  <2> QED BY <1>11, <2>3 DEF AddMember, DisableMember, TypeOK, callVars, approveVars
<1>12. ASSUME NEW a \in Apps, DisableSurface(a) PROVE TypeOK'
  <2>1. [surface[a] EXCEPT !.enabled = FALSE] \in SurfaceRows
    <3>1. surface[a] \in [house : Houses, user : Users, enabled : BOOLEAN]
        BY <1>12 DEF DisableSurface, TypeOK, SurfaceRows, NoSurface
    <3> QED BY <3>1 DEF SurfaceRows
  <2>2. surface' \in [Apps -> SurfaceRows]
      BY <1>12, <2>1 DEF DisableSurface, TypeOK
  <2> QED BY <1>12, <2>2 DEF DisableSurface, TypeOK, adminVars, callVars, approveVars
<1>13. ASSUME NEW a \in Apps, ExpireRequest(a) PROVE TypeOK'
  <2>1. [request[a] EXCEPT !.status = "expired"] \in RequestRows
    <3>1. request[a] \in [status : {"open", "expired", "approved"}, house : Houses \cup {None},
                           user : Users, code : Codes]
        BY <1>13 DEF ExpireRequest, TypeOK, RequestRows, NoRequest
    <3> QED BY <3>1 DEF RequestRows
  <2>2. request' \in [Apps -> RequestRows]
      BY <1>13, <2>1 DEF ExpireRequest, TypeOK
  <2> QED BY <1>13, <2>2 DEF ExpireRequest, TypeOK, adminVars, callVars, approveVars
<1>14. CASE UNCHANGED vars
    BY <1>14 DEF TypeOK, vars, adminVars, callVars, approveVars
<1> QED BY <1>1, <1>2, <1>3, <1>4, <1>5, <1>6, <1>7, <1>8, <1>9, <1>10, <1>11, <1>12, <1>13, <1>14
        DEF Next, Resolve, ApprovePairing, Administer

\* Only its own steps touch a call.
LEMMA CallsFrame ==
    [Next]_vars => UNCHANGED callVars \/ \E c \in Calls : Resolve(c)
    BY DEF Next, ApprovePairing, Administer, Approve, Select, Check, Bind, CreateHouse, AddMember,
       DisableMember, DisableSurface, ExpireRequest, vars, callVars

\* Only its own steps touch an approval.
LEMMA ApprovalsFrame ==
    [Next]_vars => UNCHANGED approveVars \/ \E p \in Approvals : ApprovePairing(p)
    BY DEF Next, Resolve, Administer, Call, LookUp, Exists, Members, CreatePairingRequest,
       CreateHouse, AddMember, DisableMember, DisableSurface, ExpireRequest, vars, approveVars

\* What one step may do to a call: nothing, begin it, take it on or turn it
\* away, or serve it.
CallRests(c) == at'[c] = at[c] /\ caller'[c] = caller[c] /\ heard'[c] = heard[c]
CallBegins(c) ==
    /\ at[c] = "idle" /\ at'[c] = "bound" /\ heard'[c] = heard[c]
    /\ caller'[c].user \in Users /\ caller'[c].app \in Apps
CallGoesOn(c) ==
    /\ at[c] # "idle" /\ at[c] # "done" /\ caller'[c] = caller[c]
    /\ \/ at'[c] # "done" /\ heard'[c] = heard[c]
       \/ at'[c] = "done" /\ heard'[c].kind \in {"unauthorized", "pairing", "error"}
CallServed(c) ==
    /\ at[c] # "idle" /\ at'[c] = "done" /\ caller'[c] = caller[c]
    /\ heard'[c] = [kind |-> "bound", house |-> surface[caller[c].app].house]
    /\ surface[caller[c].app].enabled
    /\ surface[caller[c].app].user = caller[c].user
    /\ UNCHANGED surface

LEMMA CallStep ==
    ASSUME Inv, [Next]_vars, NEW c \in Calls
    PROVE  CallRests(c) \/ CallBegins(c) \/ CallGoesOn(c) \/ CallServed(c)
<1> DEFINE G == CallRests(c) \/ CallBegins(c) \/ CallGoesOn(c) \/ CallServed(c)
<1> USE DEF Inv, TypeOK, CallRests, CallBegins, CallGoesOn, CallServed
<1>1. CASE UNCHANGED callVars
    BY <1>1 DEF callVars
<1>2. ASSUME NEW d \in Calls, NEW u \in Users, NEW a \in Apps, Call(d, u, a) PROVE G
    BY <1>2 DEF Call
<1>3. ASSUME NEW d \in Calls, NEW o \in StoreOutcomes, LookUp(d, o) PROVE G
    BY <1>3 DEF LookUp, Served, Answer, Plain
<1>4. ASSUME NEW d \in Calls, NEW o \in StoreOutcomes, Exists(d, o) PROVE G
    BY <1>4 DEF Exists, Answer, Plain
<1>5. ASSUME NEW d \in Calls, NEW o \in StoreOutcomes, Members(d, o) PROVE G
    BY <1>5 DEF Members, Answer, Plain
<1>6. ASSUME NEW d \in Calls, NEW k \in Codes, NEW o \in StoreOutcomes,
             CreatePairingRequest(d, k, o)
      PROVE  G
    BY <1>6 DEF CreatePairingRequest, Answer, Plain
<1> QED BY <1>1, <1>2, <1>3, <1>4, <1>5, <1>6, CallsFrame DEF Resolve

LEMMA NextCallsKnown == Inv /\ [Next]_vars => CallsKnown'
<1> SUFFICES ASSUME Inv, [Next]_vars, NEW c \in Calls
             PROVE  /\ at'[c] # "idle" => caller'[c].user \in Users /\ caller'[c].app \in Apps
                    /\ at'[c] # "done" => heard'[c].kind = "none"
                    /\ heard'[c].kind = "bound" => heard'[c].house \in Houses
    BY DEF CallsKnown
<1>1. CASE CallRests(c)
    BY <1>1 DEF Inv, CallsKnown, CallRests
<1>2. CASE CallBegins(c)
    BY <1>2 DEF Inv, CallsKnown, CallBegins
<1>3. CASE CallGoesOn(c)
    BY <1>3 DEF Inv, CallsKnown, CallGoesOn
<1>4. CASE CallServed(c)
  <2>1. surface[caller[c].app].house \in Houses
      BY <1>4 DEF Inv, CallsKnown, CallServed, TypeOK, SurfaceRows, NoSurface
  <2> QED BY <1>4, <2>1 DEF Inv, CallsKnown, CallServed
<1> QED BY <1>1, <1>2, <1>3, <1>4, CallStep

LEMMA NextBoundForGood == Inv /\ [Next]_vars => BoundForGood'
<1> SUFFICES ASSUME Inv, [Next]_vars, NEW c \in Calls, heard'[c].kind = "bound"
             PROVE  /\ surface'[caller'[c].app].house = heard'[c].house
                    /\ surface'[caller'[c].app].user = caller'[c].user
    BY DEF BoundForGood
<1>1. CASE CallRests(c)
  <2>1. caller[c].app \in Apps /\ heard[c].house \in Houses
      BY <1>1 DEF Inv, CallsKnown, CallRests
  <2>2. surface[caller[c].app] # NoSurface
      BY <1>1, <2>1, NoneAssumption DEF Inv, BoundForGood, CallRests, NoSurface
  <2> QED BY <1>1, <2>1, <2>2, SurfaceFixed DEF Inv, BoundForGood, CallRests
<1>2. CASE CallBegins(c) \/ CallGoesOn(c)
    BY <1>2 DEF Inv, CallsKnown, CallBegins, CallGoesOn
<1>3. CASE CallServed(c)
    BY <1>3 DEF CallServed
<1> QED BY <1>1, <1>2, <1>3, CallStep

----------------------------------------------------------------------------
\* What one step may do to an approval: nothing, begin it, match a row, pass
\* the check, end it in vain, or bind the surface it matched.
Done(p) == step'[p] = "done" /\ typed'[p] = typed[p]
ApprovalRests(p) ==
    step'[p] = step[p] /\ typed'[p] = typed[p] /\ target'[p] = target[p] /\ result'[p] = result[p]
ApprovalBegins(p) ==
    /\ step[p] = "idle" /\ step'[p] = "select"
    /\ typed'[p].house \in Houses /\ typed'[p].code \in Codes
    /\ target'[p] = target[p] /\ result'[p] = result[p]
ApprovalMatches(p) ==
    /\ step[p] = "select" /\ step'[p] = "check"
    /\ typed'[p] = typed[p] /\ result'[p] = result[p]
    /\ \E a \in Candidates(p) :
          request[a].code = typed[p].code /\ target'[p] = [app |-> a, user |-> request[a].user]
    /\ lock' = Locked(p)
    /\ UNCHANGED request
ApprovalPasses(p) ==
    /\ step[p] = "check" /\ step'[p] = "bind"
    /\ typed'[p] = typed[p] /\ target'[p] = target[p] /\ result'[p] = result[p]
ApprovalFails(p) ==
    /\ step[p] # "idle" /\ Done(p)
    /\ target'[p] = target[p] /\ result'[p] \in {"notFound", "error"}
ApprovalBinds(p) ==
    /\ step[p] = "bind" /\ Done(p)
    /\ target'[p] = target[p] /\ result'[p] = "approved"
    /\ surface' = [surface EXCEPT ![target[p].app] =
                       [house |-> typed[p].house, user |-> target[p].user, enabled |-> TRUE]]

LEMMA ApprovalStep ==
    ASSUME Inv, [Next]_vars, NEW p \in Approvals
    PROVE  ApprovalRests(p) \/ ApprovalBegins(p) \/ ApprovalMatches(p) \/ ApprovalPasses(p)
           \/ ApprovalFails(p) \/ ApprovalBinds(p)
<1> DEFINE G == ApprovalRests(p) \/ ApprovalBegins(p) \/ ApprovalMatches(p) \/ ApprovalPasses(p)
                \/ ApprovalFails(p) \/ ApprovalBinds(p)
<1> USE DEF Inv, TypeOK, Done, ApprovalRests, ApprovalBegins, ApprovalMatches, ApprovalPasses,
            ApprovalFails, ApprovalBinds
<1>1. CASE UNCHANGED approveVars
    BY <1>1 DEF approveVars
<1>2. ASSUME NEW q \in Approvals, NEW h \in Houses, NEW k \in Codes, Approve(q, h, k) PROVE G
    BY <1>2 DEF Approve
<1>3. ASSUME NEW q \in Approvals, NEW o \in StoreOutcomes, Select(q, o) PROVE G
    BY <1>3 DEF Select, Close
<1>4. ASSUME NEW q \in Approvals, NEW o \in StoreOutcomes, Check(q, o) PROVE G
    BY <1>4 DEF Check, Close
<1>5. ASSUME NEW q \in Approvals, NEW o \in StoreOutcomes, Bind(q, o) PROVE G
    BY <1>5 DEF Bind, BindResult, Close
<1> QED BY <1>1, <1>2, <1>3, <1>4, <1>5, ApprovalsFrame DEF ApprovePairing

LEMMA NextApprovalsKnown == Inv /\ [Next]_vars => ApprovalsKnown'
<1> SUFFICES ASSUME Inv, [Next]_vars, NEW p \in Approvals
             PROVE  /\ step'[p] # "idle" => typed'[p].house \in Houses /\ typed'[p].code \in Codes
                    /\ step'[p] \in {"check", "bind"} \/ result'[p] = "approved" =>
                           target'[p].app \in Apps /\ target'[p].user \in Users
                    /\ result'[p] = "approved" => step'[p] = "done"
    BY DEF ApprovalsKnown
<1> USE DEF Inv, ApprovalsKnown
<1>1. CASE ApprovalRests(p) \/ ApprovalBegins(p)
    BY <1>1 DEF ApprovalRests, ApprovalBegins
<1>2. CASE ApprovalMatches(p)
  <2>1. \A a \in Candidates(p) : a \in Apps /\ request[a].user \in Users
      BY DEF Candidates, TypeOK, RequestRows, NoRequest
  <2> QED BY <1>2, <2>1 DEF ApprovalMatches
<1>3. CASE ApprovalPasses(p) \/ ApprovalFails(p) \/ ApprovalBinds(p)
    BY <1>3 DEF ApprovalPasses, ApprovalFails, ApprovalBinds, Done
<1> QED BY <1>1, <1>2, <1>3, ApprovalStep

LEMMA NextApprovalInForce == Inv /\ [Next]_vars => ApprovalInForce'
<1> SUFFICES ASSUME Inv, [Next]_vars, NEW p \in Approvals, result'[p] = "approved"
             PROVE  /\ surface'[target'[p].app].house = typed'[p].house
                    /\ surface'[target'[p].app].user = target'[p].user
    BY DEF ApprovalInForce
<1>1. CASE ApprovalRests(p)
  <2>1. target[p].app \in Apps /\ typed[p].house \in Houses
      BY <1>1 DEF Inv, ApprovalsKnown, ApprovalRests
  <2>2. surface[target[p].app] # NoSurface
      BY <1>1, <2>1, NoneAssumption DEF Inv, ApprovalInForce, ApprovalRests, NoSurface
  <2> QED BY <1>1, <2>1, <2>2, SurfaceFixed DEF Inv, ApprovalInForce, ApprovalRests
<1>2. CASE ApprovalBegins(p) \/ ApprovalMatches(p) \/ ApprovalPasses(p) \/ ApprovalFails(p)
    BY <1>2 DEF Inv, ApprovalsKnown, ApprovalBegins, ApprovalMatches, ApprovalPasses, ApprovalFails
<1>3. CASE ApprovalBinds(p)
    BY <1>3 DEF Inv, ApprovalsKnown, TypeOK, ApprovalBinds, Done
<1> QED BY <1>1, <1>2, <1>3, ApprovalStep

\* A row that an approval holds is not rewritten and stays locked until the
\* approval ends.
LEMMA HeldRowStays ==
    ASSUME Inv, [Next]_vars, NEW p \in Approvals, step[p] \in {"check", "bind"},
           step'[p] # "done"
    PROVE  LET a == target[p].app
           IN  lock'[a] = p /\ request'[a].user = request[a].user
               /\ request'[a].code = request[a].code
<1> DEFINE a == target[p].app
           G == lock'[a] = p /\ request'[a].user = request[a].user
                /\ request'[a].code = request[a].code
<1>0. a \in Apps /\ lock[a] = p /\ p # None /\ request[a] # NoRequest /\ request[a].user \in Users
  <2>1. a \in Apps /\ lock[a] = p /\ p # None /\ request[a].user = target[p].user
        /\ target[p].user \in Users
      BY NoneAssumption DEF Inv, RowHeld, ApprovalsKnown
  <2> QED BY <2>1, NoneAssumption DEF NoRequest
<1> USE <1>0 DEF Inv, TypeOK
<1>1. CASE UNCHANGED <<request, lock>>
    BY <1>1
<1>2. ASSUME NEW c \in Calls, NEW k \in Codes, NEW o \in StoreOutcomes,
             CreatePairingRequest(c, k, o)
      PROVE  G
    BY <1>2, <1>0 DEF CreatePairingRequest
<1>3. ASSUME NEW q \in Approvals, NEW o \in StoreOutcomes, Select(q, o) PROVE G
    BY <1>3, <1>0 DEF Select, Close, Locked
<1>4. ASSUME NEW q \in Approvals, NEW o \in StoreOutcomes, Check(q, o) PROVE G
    BY <1>4, <1>0 DEF Check, Close
<1>5. ASSUME NEW q \in Approvals, NEW o \in StoreOutcomes, Bind(q, o) PROVE G
  <2>1. q # p
      BY <1>5 DEF Bind, Close
  <2>2. target[q].app # a
      BY <1>5, <2>1, <1>0 DEF Bind, RowHeld
  <2> QED BY <1>5, <1>0, <2>1, <2>2 DEF Bind, Close
<1>6. ASSUME NEW b \in Apps, ExpireRequest(b) PROVE G
    BY <1>6, <1>0 DEF ExpireRequest, RequestRows
<1> QED BY <1>1, <1>2, <1>3, <1>4, <1>5, <1>6 DEF Next, Resolve, ApprovePairing, Administer, Call,
        LookUp, Exists, Members, Approve, CreateHouse, AddMember, DisableMember, DisableSurface, vars

LEMMA NextRowHeld == Inv /\ [Next]_vars => RowHeld'
<1> SUFFICES ASSUME Inv, [Next]_vars, NEW p \in Approvals, step'[p] \in {"check", "bind"}
             PROVE  /\ lock'[target'[p].app] = p
                    /\ request'[target'[p].app].user = target'[p].user
                    /\ request'[target'[p].app].code = typed'[p].code
    BY DEF RowHeld
<1>1. CASE ApprovalRests(p) \/ ApprovalPasses(p)
  <2>1. step[p] \in {"check", "bind"} /\ target'[p] = target[p] /\ typed'[p] = typed[p]
      BY <1>1 DEF ApprovalRests, ApprovalPasses
  <2> QED BY <2>1, HeldRowStays DEF Inv, RowHeld
<1>2. CASE ApprovalMatches(p)
    BY <1>2 DEF ApprovalMatches, Locked, Candidates
<1>3. CASE ApprovalBegins(p) \/ ApprovalFails(p) \/ ApprovalBinds(p)
    BY <1>3 DEF ApprovalBegins, ApprovalFails, ApprovalBinds, Done
<1> QED BY <1>1, <1>2, <1>3, ApprovalStep

LEMMA NextApprovedBefore == Inv /\ [Next]_vars => ApprovedBefore'
<1> SUFFICES ASSUME Inv, [Next]_vars, NEW a \in Apps, request'[a].status = "approved"
             PROVE  \E p \in Approvals :
                        /\ step'[p] = "done"
                        /\ typed'[p] = [house |-> request'[a].house, code |-> request'[a].code]
                        /\ target'[p] = [app |-> a, user |-> request'[a].user]
    BY DEF ApprovedBefore
<1> DEFINE G == \E p \in Approvals :
                    /\ step'[p] = "done"
                    /\ typed'[p] = [house |-> request'[a].house, code |-> request'[a].code]
                    /\ target'[p] = [app |-> a, user |-> request'[a].user]
<1>1. \A p \in Approvals : step[p] = "done" =>
          step'[p] = "done" /\ typed'[p] = typed[p] /\ target'[p] = target[p]
    BY ApprovalStep DEF ApprovalRests, ApprovalBegins, ApprovalMatches, ApprovalPasses,
       ApprovalFails, ApprovalBinds, Done
<1>2. ASSUME request'[a] = request[a] PROVE G
  <2>1. PICK p \in Approvals :
            /\ step[p] = "done"
            /\ typed[p] = [house |-> request[a].house, code |-> request[a].code]
            /\ target[p] = [app |-> a, user |-> request[a].user]
      BY <1>2 DEF Inv, ApprovedBefore
  <2> QED BY <1>1, <1>2, <2>1
<1>3. ASSUME NEW c \in Calls, NEW k \in Codes, NEW o \in StoreOutcomes,
             CreatePairingRequest(c, k, o)
      PROVE  G
    BY <1>2, <1>3 DEF CreatePairingRequest, Inv, TypeOK
<1>4. ASSUME NEW p \in Approvals, NEW o \in StoreOutcomes, Bind(p, o) PROVE G
  <2>1. CASE request'[a] = request[a]
      BY <1>2, <2>1
  <2>2. CASE request'[a] # request[a]
    <3>1. /\ a = target[p].app
          /\ request' = [request EXCEPT ![a] = ApprovedRow(a, typed[p].house)]
        BY <1>4, <2>2 DEF Bind, Inv, TypeOK
    <3>2. request[a].user = target[p].user /\ request[a].code = typed[p].code
          /\ request[a] # NoRequest
        BY <1>4, <3>1, NoneAssumption DEF Bind, Inv, RowHeld, ApprovalsKnown, NoRequest
    <3>3. request[a] \in [status : {"open", "expired", "approved"}, house : Houses \cup {None},
                          user : Users, code : Codes]
        BY <3>2 DEF Inv, TypeOK, RequestRows
    <3>4. request'[a].house = typed[p].house /\ request'[a].user = target[p].user
          /\ request'[a].code = typed[p].code
        BY <3>1, <3>2, <3>3 DEF ApprovedRow, Inv, TypeOK
    <3>5. typed[p] = [house |-> typed[p].house, code |-> typed[p].code]
          /\ target[p] = [app |-> target[p].app, user |-> target[p].user]
        BY DEF Inv, TypeOK
    <3>6. step'[p] = "done" /\ typed'[p] = typed[p] /\ target'[p] = target[p]
        BY <1>4 DEF Bind, Close, Inv, TypeOK
    <3> QED BY <3>1, <3>4, <3>5, <3>6
  <2> QED BY <2>1, <2>2
<1>5. ASSUME NEW b \in Apps, ExpireRequest(b) PROVE G
  <2>1. CASE b = a
    <3>1. request[a] \in [status : {"open", "expired", "approved"}, house : Houses \cup {None},
                          user : Users, code : Codes]
        BY <1>5, <2>1 DEF ExpireRequest, Inv, TypeOK, RequestRows, NoRequest
    <3>2. request'[a] = [request[a] EXCEPT !.status = "expired"]
        BY <1>5, <2>1 DEF ExpireRequest, Inv, TypeOK
    <3> QED BY <3>1, <3>2
  <2>2. CASE b # a
      BY <1>2, <1>5, <2>2 DEF ExpireRequest, Inv, TypeOK
  <2> QED BY <2>1, <2>2
<1> QED BY <1>2, <1>3, <1>4, <1>5 DEF Next, Resolve, ApprovePairing, Administer, Call, LookUp,
        Exists, Members, Approve, Select, Check, CreateHouse, AddMember, DisableMember,
        DisableSurface, vars

LEMMA SpecInv == Spec => []Inv
<1>1. Inv /\ [Next]_vars => Inv'
    BY NextTypeOK, NextCallsKnown, NextApprovalsKnown, NextRowHeld, NextApprovedBefore,
       NextBoundForGood, NextApprovalInForce DEF Inv
<1> QED BY InitInv, <1>1, PTL DEF Spec

\* The variables of pairing keep their types: every answered call, every row
\* and every approval is of its kind.
THEOREM TypeCorrect == Spec => []TypeOK
<1>1. Inv => TypeOK
    BY DEF Inv
<1> QED BY <1>1, SpecInv, PTL

\* A surface that was served for a house stays with that house and account,
\* however resolve_surface, approve_pairing and the administrator interleave.
THEOREM SurfaceKeepsHouse == Spec => []BoundForGood
<1>1. Inv => BoundForGood
    BY DEF Inv
<1> QED BY <1>1, SpecInv, PTL

\* The request approve_pairing marks approved is the one whose code was typed
\* for that house.
THEOREM ApprovalMeansTyped == Spec => []ApprovedAsTyped
<1>1. Inv => ApprovedAsTyped
    BY DEF Inv, ApprovedBefore, ApprovedAsTyped
<1> QED BY <1>1, SpecInv, PTL

\* An approval that approve_pairing reported stays in force.
THEOREM ApprovalHolds == Spec => []ApprovalInForce
<1>1. Inv => ApprovalInForce
    BY DEF Inv
<1> QED BY <1>1, SpecInv, PTL
=============================================================================
