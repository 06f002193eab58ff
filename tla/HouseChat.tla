----------------------------- MODULE HouseChat -----------------------------
(***************************************************************************)
(* What the household engine promises of a house ("one home, one Codex     *)
(* thread"): one conversation, and one question at a time in it.           *)
(*                                                                         *)
(* A house works on at most one request.  The first one to get that far    *)
(* makes the conversation the house keeps for good; a request is answered  *)
(* only in that conversation, only while it is the one being worked on,    *)
(* and at most once.  Work may be given up at any time.                    *)
(***************************************************************************)
CONSTANTS Houses, Requests, None

VARIABLES
    busy,      \* busy[h]: the request house h works on, or None
    chat,      \* chat[h]: the conversation of house h, or None
    answered   \* the requests that were answered

chatVars == <<busy, chat, answered>>

Init ==
    /\ busy = [h \in Houses |-> None]
    /\ chat = [h \in Houses |-> None]
    /\ answered = {}

Begin(h, r) ==
    /\ busy[h] = None
    /\ r \notin answered
    /\ busy' = [busy EXCEPT ![h] = r]
    /\ UNCHANGED <<chat, answered>>

\* A conversation is named after the request that made it.  The work may be
\* given up in the same step: the conversation is then kept all the same.
Adopt(h, r) ==
    /\ busy[h] = r
    /\ chat[h] = None
    /\ chat' = [chat EXCEPT ![h] = r]
    /\ busy' \in {busy, [busy EXCEPT ![h] = None]}
    /\ UNCHANGED answered

Answer(h, r) ==
    /\ busy[h] = r
    /\ chat[h] # None
    /\ busy' = [busy EXCEPT ![h] = None]
    /\ answered' = answered \cup {r}
    /\ UNCHANGED chat

\* A failure ends the work of a house, the death of the process that of all.
GiveUp(given) ==
    /\ busy' = [h \in Houses |-> IF h \in given THEN None ELSE busy[h]]
    /\ UNCHANGED <<chat, answered>>

Next ==
    \/ \E h \in Houses, r \in Requests : Begin(h, r) \/ Adopt(h, r) \/ Answer(h, r)
    \/ \E given \in SUBSET Houses : GiveUp(given)

Spec == Init /\ [][Next]_chatVars
=============================================================================
