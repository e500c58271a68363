----------------------------- MODULE ByteStream -----------------------------
(***************************************************************************)
(* What a data link promises to the protocol, whatever driver, timers and  *)
(* handlers it is made of.  Bytes come in one after the other.  A read     *)
(* that is answered gives as many as were asked for, the next ones in      *)
(* order: no byte is given twice, none out of order and none from before   *)
(* a drop.  Bytes are lost only while a read or a drop is under way.       *)
(***************************************************************************)
EXTENDS Naturals

CONSTANT Sizes \* of the buffers that are read into

VARIABLES
    arrived,  \* bytes that have come in
    gone,     \* of these, the ones that were given or lost
    asked,    \* bytes that the read under way asks for, or 0
    dropping, \* a drop is under way
    floor,    \* bytes that had come in when the last drop began
    given     \* what the last call gave

vars == <<arrived, gone, asked, dropping, floor, given>>

Init ==
    /\ arrived = 0 /\ gone = 0 /\ floor = 0
    /\ asked = 0 /\ dropping = FALSE /\ given = <<>>

Idle == asked = 0 /\ ~dropping

Arrive == arrived' = arrived + 1 /\ UNCHANGED <<gone, asked, dropping, floor, given>>

Ask(n) == Idle /\ asked' = n /\ UNCHANGED <<arrived, gone, dropping, floor, given>>

Drop ==
    /\ Idle
    /\ dropping' = TRUE /\ floor' = arrived
    /\ UNCHANGED <<arrived, gone, asked, given>>

Lose ==
    /\ ~Idle
    /\ gone' \in gone..arrived
    /\ UNCHANGED <<arrived, asked, dropping, floor, given>>

Give ==
    /\ asked # 0 /\ asked' = 0
    /\ floor <= gone /\ gone' = gone + asked /\ gone' <= arrived
    /\ given' = [ i \in 1..asked |-> gone + i ]
    /\ UNCHANGED <<arrived, dropping, floor>>

\* A write or a drop ends, or a read that gives nothing.
EndOther ==
    /\ asked' = 0 /\ dropping' = FALSE /\ given' = <<>>
    /\ gone' \in gone..arrived /\ (Idle => gone' = gone)
    /\ UNCHANGED <<arrived, floor>>

Next ==
    \/ Arrive \/ Drop \/ Lose \/ Give \/ EndOther
    \/ \E n \in Sizes : Ask(n)

Spec == Init /\ [][Next]_vars

=============================================================================
