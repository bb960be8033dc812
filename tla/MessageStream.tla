--------------------------- MODULE MessageStream ---------------------------
(***************************************************************************)
(* What receive promises a program: the peer's messages in order and       *)
(* without loss, then one end. Null says that the peer closed and that     *)
(* every message it sent has been received, unless the program had closed  *)
(* the stream itself. WebSocketClient implements it.                       *)
(***************************************************************************)
EXTENDS Naturals

VARIABLES
    sent,       \* messages the peer has sent
    received,   \* the number of the last message the program received
    waiting,    \* the program is in receive
    left,       \* the program has closed the stream
    told        \* how the end was reported: "open", "null" or "error"

vars == <<sent, received, waiting, left, told>>

Init == sent = 0 /\ received = 0 /\ waiting = FALSE /\ left = FALSE /\ told = "open"

Put == sent' = sent + 1 /\ UNCHANGED <<received, waiting, left, told>>

Receive == ~waiting /\ waiting' = TRUE /\ UNCHANGED <<sent, received, left, told>>

Deliver ==
    /\ waiting /\ told = "open" /\ received < sent
    /\ received' = received + 1 /\ waiting' = FALSE
    /\ UNCHANGED <<sent, left, told>>

TimeOut == waiting /\ waiting' = FALSE /\ UNCHANGED <<sent, received, left, told>>

\* The end is always reported in the same way.
End(how) ==
    /\ waiting /\ waiting' = FALSE
    /\ told \in {"open", how} /\ told' = how
    /\ how = "null" => left \/ received = sent
    /\ UNCHANGED <<sent, received, left>>

Leave == ~waiting /\ left' = TRUE /\ UNCHANGED <<sent, received, waiting, told>>

Next == Put \/ Receive \/ Deliver \/ TimeOut \/ Leave \/ \E how \in {"null", "error"} : End(how)

Spec == Init /\ [][Next]_vars
=============================================================================
