------------------------------ MODULE CallLink ------------------------------
(***************************************************************************)
(* What a link to a helper process promises the program that uses it: one  *)
(* request at a time, each settled by its own answer or by the end of the  *)
(* link; a link that ended never answers again. The window links           *)
(* (HelperLink) and the SQLite link (SqliteSession) implement it.          *)
(***************************************************************************)
EXTENDS Naturals

VARIABLES
    phase,      \* "idle", or "waiting" for the answer to a request
    asked,      \* the number of the latest request
    answered,   \* the request whose answer was handed to the program last
    broken      \* the link has ended

vars == <<phase, asked, answered, broken>>

Init == phase = "idle" /\ asked = 0 /\ answered = 0 /\ broken = FALSE

Ask ==
    /\ phase = "idle" /\ ~broken
    /\ phase' = "waiting" /\ asked' = asked + 1
    /\ UNCHANGED <<answered, broken>>

\* The program gets the answer to its own request.
Answer ==
    /\ phase = "waiting"
    /\ phase' = "idle" /\ answered' = asked
    /\ UNCHANGED <<asked, broken>>

\* The program is told that the link is over, now and for every later request.
Break ==
    /\ phase' = "idle" /\ broken' = TRUE
    /\ UNCHANGED <<asked, answered>>

\* The request is numbered and the link found to be over in one step.
AskInVain ==
    /\ phase = "idle" /\ ~broken
    /\ asked' = asked + 1 /\ broken' = TRUE
    /\ UNCHANGED <<phase, answered>>

Next == Ask \/ Answer \/ Break \/ AskInVain

\* Every request is settled.
Settle == phase = "waiting" /\ (Answer \/ Break)

\* The part that has no fairness in it.
Safety == Init /\ [][Next]_vars

Spec == Safety /\ WF_vars(Settle)
=============================================================================
