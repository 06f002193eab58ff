------------------------------ MODULE Pairing ------------------------------
(***************************************************************************)
(* Pairing a surface with a house: resolve_surface, create_pairing_request  *)
(* and approve_pairing of crates/bridge-server/src/house_store_pg.rs, and   *)
(* the commands of crates/bridge-server/src/bin/bridge-admin.rs.            *)
(*                                                                         *)
(* resolve_surface is a chain of queries without a transaction, so other    *)
(* calls and the administrator come between them.  approve_pairing is one   *)
(* transaction at READ COMMITTED: each of its reads sees what is committed  *)
(* then, the rows it selected FOR UPDATE stay locked to its end, and its    *)
(* writes appear together.                                                  *)
(*                                                                         *)
(* A code is a model value: well-formed codes only, since the command line  *)
(* and approve_pairing refuse others before they touch the database.  The   *)
(* stored hash binds the code to the row's user and application, so a row   *)
(* matches exactly the code it was made for.                                *)
(***************************************************************************)
EXTENDS Naturals, FiniteSets

CONSTANTS
    Houses,         \* ids of houses
    Users,          \* Yandex user ids
    Apps,           \* application ids
    Codes,          \* pairing codes
    Calls,          \* runs of resolve_surface; each happens at most once
    Approvals,      \* runs of approve_pairing; each happens at most once
    StoreOutcomes,  \* how a statement or a commit may end
    None            \* no house, user, application, code or approval

\* "lost": done, but the caller sees an error.
Outcomes == {"ok", "lost", "failed"}

ASSUME NoneAssumption ==
    None \notin Houses \cup Users \cup Apps \cup Codes \cup Approvals
ASSUME OutcomesAssumption == StoreOutcomes \subseteq Outcomes

VARIABLES
    houses,    \* rows of houses
    member,    \* member[h][u]: no row, enabled or disabled
    surface,   \* surface[a]: the row of surfaces
    request,   \* request[a]: the row of pairing_requests
    lock,      \* lock[a]: the transaction that holds request[a]
    at,        \* at[c]: the query of resolve_surface call c is at
    caller,    \* caller[c]: the identity of call c
    choice,    \* choice[c]: the house of the request c is about to make
    heard,     \* heard[c]: what resolve_surface returned
    step,      \* step[p]: the statement of approve_pairing p is at
    typed,     \* typed[p]: the house and the code given to p
    target,    \* target[p]: the application p's code matched
    result     \* result[p]: what approve_pairing returned

adminVars   == <<houses, member>>
callVars    == <<at, caller, choice, heard>>
approveVars == <<step, typed, target, result>>
vars == <<adminVars, surface, request, lock, callVars, approveVars>>

----------------------------------------------------------------------------
NoSurface == [house |-> None, user |-> None, enabled |-> FALSE]
NoRequest == [status |-> "absent", house |-> None, user |-> None, code |-> None]

Plain(kind) == [kind |-> kind, house |-> None]

SurfaceRows == {NoSurface} \cup [house : Houses, user : Users, enabled : BOOLEAN]
RequestRows == {NoRequest} \cup
    [status : {"open", "expired"}, house : Houses \cup {None}, user : Users, code : Codes] \cup
    [status : {"approved"}, house : Houses, user : Users, code : Codes]
Replies == [kind : {"none", "bound", "unauthorized", "pairing", "error"},
            house : Houses \cup {None}]

Locations == {"idle", "bound", "exists", "members", "create", "done"}
Statements == {"idle", "select", "check", "bind", "done"}

\* The join of surfaces, house_members and houses finds the identity.
Served(u, a) ==
    /\ surface[a].enabled
    /\ surface[a].user = u
    /\ member[surface[a].house][u] = "on"

\* The houses an account is an enabled member of.
Memberships(u) == {h \in houses : member[h][u] = "on"}

Answer(c, what) ==
    /\ at' = [at EXCEPT ![c] = "done"]
    /\ heard' = [heard EXCEPT ![c] = what]

----------------------------------------------------------------------------
(* resolve_surface, one action per query. *)

Call(c, u, a) ==
    /\ at[c] = "idle"
    /\ at' = [at EXCEPT ![c] = "bound"]
    /\ caller' = [caller EXCEPT ![c] = [user |-> u, app |-> a]]
    /\ UNCHANGED <<adminVars, surface, request, lock, choice, heard, approveVars>>

\* The first query: a served identity gets its house.
LookUp(c, o) ==
    LET u == caller[c].user
        a == caller[c].app
    IN  /\ at[c] = "bound"
        /\ \/ /\ o # "ok"
              /\ Answer(c, Plain("error"))
           \/ /\ o = "ok"
              /\ Served(u, a)
              /\ Answer(c, [kind |-> "bound", house |-> surface[a].house])
           \/ /\ o = "ok"
              /\ ~Served(u, a)
              /\ at' = [at EXCEPT ![c] = "exists"]
              /\ UNCHANGED heard
        /\ UNCHANGED <<adminVars, surface, request, lock, caller, choice, approveVars>>

\* The second: a surface someone else has, or that is disabled, is refused.
Exists(c, o) ==
    /\ at[c] = "exists"
    /\ \/ /\ o # "ok"
          /\ Answer(c, Plain("error"))
       \/ /\ o = "ok"
          /\ surface[caller[c].app] # NoSurface
          /\ Answer(c, Plain("unauthorized"))
       \/ /\ o = "ok"
          /\ surface[caller[c].app] = NoSurface
          /\ at' = [at EXCEPT ![c] = "members"]
          /\ UNCHANGED heard
    /\ UNCHANGED <<adminVars, surface, request, lock, caller, choice, approveVars>>

\* The third: a stranger is refused; the house of a request is left open when
\* the account belongs to more than one.
Members(c, o) ==
    LET found == Memberships(caller[c].user)
    IN  /\ at[c] = "members"
        /\ \/ /\ o # "ok"
              /\ Answer(c, Plain("error"))
              /\ UNCHANGED choice
           \/ /\ o = "ok"
              /\ found = {}
              /\ Answer(c, Plain("unauthorized"))
              /\ UNCHANGED choice
           \/ /\ o = "ok"
              /\ found # {}
              /\ at' = [at EXCEPT ![c] = "create"]
              /\ \E h \in found : choice' = [choice EXCEPT ![c] = IF found = {h} THEN h ELSE None]
              /\ UNCHANGED heard
        /\ UNCHANGED <<adminVars, surface, request, lock, caller, approveVars>>

\* create_pairing_request: one row per application, overwritten by the next
\* request; the upsert waits for a transaction that locked the row.
CreatePairingRequest(c, k, o) ==
    LET a == caller[c].app
    IN  /\ at[c] = "create"
        /\ lock[a] = None
        /\ request' = IF o = "failed" THEN request
                      ELSE [request EXCEPT ![a] = [status |-> "open", house |-> choice[c],
                                                   user |-> caller[c].user, code |-> k]]
        /\ Answer(c, Plain(IF o = "ok" THEN "pairing" ELSE "error"))
        /\ choice' = [choice EXCEPT ![c] = None]
        /\ UNCHANGED <<adminVars, surface, lock, caller, approveVars>>

----------------------------------------------------------------------------
(* approve_pairing. *)

Approve(p, h, k) ==
    /\ step[p] = "idle"
    /\ step' = [step EXCEPT ![p] = "select"]
    /\ typed' = [typed EXCEPT ![p] = [house |-> h, code |-> k]]
    /\ UNCHANGED <<adminVars, surface, request, lock, callVars, target, result>>

\* The requests the transaction reads: open, and of this house or of none.
Candidates(p) ==
    {a \in Apps : request[a].status = "open" /\ request[a].house \in {typed[p].house, None}}

\* The transaction ends: its row locks are gone.
Close(p, what) ==
    /\ step' = [step EXCEPT ![p] = "done"]
    /\ result' = [result EXCEPT ![p] = what]
    /\ lock' = [a \in Apps |-> IF lock[a] = p THEN None ELSE lock[a]]

\* Mutant of Locked: the rows are read without FOR UPDATE.
LockedNot(p) == lock

\* The row locks after SELECT ... FOR UPDATE.
Locked(p) == [a \in Apps |-> IF a \in Candidates(p) THEN p ELSE lock[a]]

\* SELECT ... FOR UPDATE, which waits for rows locked by another transaction
\* (or is aborted as a deadlock, one of the errors), and the search for a row
\* with the code.
Select(p, o) ==
    /\ step[p] = "select"
    /\ \A a \in Candidates(p) : lock[a] = None
    /\ \/ /\ o # "ok"
          /\ Close(p, "error")
          /\ UNCHANGED target
       \/ /\ o = "ok"
          /\ \A a \in Candidates(p) : request[a].code # typed[p].code
          /\ Close(p, "notFound")
          /\ UNCHANGED target
       \/ /\ o = "ok"
          /\ \E a \in Candidates(p) :
                /\ request[a].code = typed[p].code
                /\ target' = [target EXCEPT ![p] = [app |-> a, user |-> request[a].user]]
          /\ lock' = Locked(p)
          /\ step' = [step EXCEPT ![p] = "check"]
          /\ UNCHANGED result
    /\ UNCHANGED <<adminVars, surface, request, callVars, typed>>

\* Only an enabled member of the named house is paired with it.
Check(p, o) ==
    /\ step[p] = "check"
    /\ \/ /\ o # "ok"
          /\ Close(p, "error")
       \/ /\ o = "ok"
          /\ typed[p].house \notin Memberships(target[p].user)
          /\ Close(p, "notFound")
       \/ /\ o = "ok"
          /\ typed[p].house \in Memberships(target[p].user)
          /\ step' = [step EXCEPT ![p] = "bind"]
          /\ UNCHANGED <<lock, result>>
    /\ UNCHANGED <<adminVars, surface, request, callVars, typed, target>>

\* Mutant of Conflict: the upsert has no condition on the existing row.
ConflictNever(a, h, u) == FALSE

\* The application is bound already, and not to this user and house.
Conflict(a, h, u) ==
    surface[a] # NoSurface /\ (surface[a].house # h \/ surface[a].user # u)

\* Mutant of BindResult: the number of affected rows is not looked at.
BindResultUnchecked(p, o) == IF o = "ok" THEN "approved" ELSE "error"

BindResult(p, o) ==
    IF o = "ok" /\ ~Conflict(target[p].app, typed[p].house, target[p].user)
    THEN "approved" ELSE "error"

\* Mutant of ApprovedRow: only the time of the approval is written.
ApprovedRowUnassigned(a, h) == [request[a] EXCEPT !.status = "approved"]

\* UPDATE pairing_requests: the request belongs to the house from now on.
ApprovedRow(a, h) == [request[a] EXCEPT !.status = "approved", !.house = h]

\* The upsert of the surface, the update of the request and the commit: the
\* locks leave nobody who could tell the three apart.
Bind(p, o) ==
    LET a == target[p].app
        h == typed[p].house
        u == target[p].user
    IN  /\ step[p] = "bind"
        /\ \/ /\ o = "failed" \/ Conflict(a, h, u)
              /\ UNCHANGED <<surface, request>>
           \/ /\ o # "failed" /\ ~Conflict(a, h, u)
              /\ surface' = [surface EXCEPT ![a] = [house |-> h, user |-> u, enabled |-> TRUE]]
              /\ request' = [request EXCEPT ![a] = ApprovedRow(a, h)]
        /\ Close(p, BindResult(p, o))
        /\ UNCHANGED <<adminVars, callVars, typed, target>>

----------------------------------------------------------------------------
(* The other commands of bridge-admin, and time. *)

CreateHouse(h) ==
    /\ h \notin houses
    /\ houses' = houses \cup {h}
    /\ UNCHANGED <<member, surface, request, lock, callVars, approveVars>>

\* An existing member is enabled again.
AddMember(h, u) ==
    /\ h \in houses
    /\ member[h][u] # "on"
    /\ member' = [member EXCEPT ![h][u] = "on"]
    /\ UNCHANGED <<houses, surface, request, lock, callVars, approveVars>>

DisableMember(h, u) ==
    /\ member[h][u] = "on"
    /\ member' = [member EXCEPT ![h][u] = "off"]
    /\ UNCHANGED <<houses, surface, request, lock, callVars, approveVars>>

DisableSurface(a) ==
    /\ surface[a].enabled
    /\ surface' = [surface EXCEPT ![a].enabled = FALSE]
    /\ UNCHANGED <<adminVars, request, lock, callVars, approveVars>>

\* A code passes its ten minutes.
ExpireRequest(a) ==
    /\ request[a].status = "open"
    /\ request' = [request EXCEPT ![a].status = "expired"]
    /\ UNCHANGED <<adminVars, surface, lock, callVars, approveVars>>

----------------------------------------------------------------------------
Init ==
    /\ houses  = {}
    /\ member  = [h \in Houses |-> [u \in Users |-> "none"]]
    /\ surface = [a \in Apps |-> NoSurface]
    /\ request = [a \in Apps |-> NoRequest]
    /\ lock    = [a \in Apps |-> None]
    /\ at      = [c \in Calls |-> "idle"]
    /\ caller  = [c \in Calls |-> [user |-> None, app |-> None]]
    /\ choice  = [c \in Calls |-> None]
    /\ heard   = [c \in Calls |-> Plain("none")]
    /\ step    = [p \in Approvals |-> "idle"]
    /\ typed   = [p \in Approvals |-> [house |-> None, code |-> None]]
    /\ target  = [p \in Approvals |-> [app |-> None, user |-> None]]
    /\ result  = [p \in Approvals |-> "none"]

Resolve(c) ==
    \/ \E u \in Users, a \in Apps : Call(c, u, a)
    \/ \E o \in StoreOutcomes :
          \/ LookUp(c, o) \/ Exists(c, o) \/ Members(c, o)
          \/ \E k \in Codes : CreatePairingRequest(c, k, o)

ApprovePairing(p) ==
    \/ \E h \in Houses, k \in Codes : Approve(p, h, k)
    \/ \E o \in StoreOutcomes : Select(p, o) \/ Check(p, o) \/ Bind(p, o)

Administer ==
    \/ \E h \in Houses : CreateHouse(h) \/ \E u \in Users : AddMember(h, u) \/ DisableMember(h, u)
    \/ \E a \in Apps : DisableSurface(a) \/ ExpireRequest(a)

Next ==
    \/ \E c \in Calls : Resolve(c)
    \/ \E p \in Approvals : ApprovePairing(p)
    \/ Administer

Spec == Init /\ [][Next]_vars

----------------------------------------------------------------------------
(* Properties. *)

\* Every variable holds a value of its kind; a bound surface has a house and
\* a user, and an approved request a house, also one that was made without.
TypeOK ==
    /\ houses \subseteq Houses
    /\ member \in [Houses -> [Users -> {"none", "on", "off"}]]
    /\ surface \in [Apps -> SurfaceRows]
    /\ request \in [Apps -> RequestRows]
    /\ lock \in [Apps -> Approvals \cup {None}]
    /\ at \in [Calls -> Locations]
    /\ caller \in [Calls -> [user : Users \cup {None}, app : Apps \cup {None}]]
    /\ choice \in [Calls -> Houses \cup {None}]
    /\ heard \in [Calls -> Replies]
    /\ step \in [Approvals -> Statements]
    /\ typed \in [Approvals -> [house : Houses \cup {None}, code : Codes \cup {None}]]
    /\ target \in [Approvals -> [app : Apps \cup {None}, user : Users \cup {None}]]
    /\ result \in [Approvals -> {"none", "approved", "notFound", "error"}]

\* A surface that was once served for a house belongs to that house and that
\* account for good, whatever is approved, disabled or requested later: its
\* continuations and deferred answers never turn up in another home.
BoundForGood ==
    \A c \in Calls :
        heard[c].kind = "bound" =>
            /\ surface[caller[c].app].house = heard[c].house
            /\ surface[caller[c].app].user = caller[c].user

\* The request marked approved is one whose code an administrator typed for
\* that house: a request made meanwhile from the same application, with
\* another code or account, is not approved in its place.
ApprovedAsTyped ==
    \A a \in Apps :
        request[a].status = "approved" =>
            \E p \in Approvals :
                /\ typed[p] = [house |-> request[a].house, code |-> request[a].code]
                /\ target[p] = [app |-> a, user |-> request[a].user]

\* An approval reported as done is in force: the surface whose code was typed
\* belongs to the house that was named.
ApprovalInForce ==
    \A p \in Approvals :
        result[p] = "approved" =>
            /\ surface[target[p].app].house = typed[p].house
            /\ surface[target[p].app].user = target[p].user
=============================================================================
