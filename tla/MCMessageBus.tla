---------------------------- MODULE MCMessageBus ----------------------------
(***************************************************************************)
(* MessageBus for TLC: the drivers, their types and how often they ask.    *)
(***************************************************************************)
EXTENDS MessageBus

\* Driver 2 has type 6, the others have type 5.
BusIdentity == [c \in Conns |-> IF c = 2 THEN 6 ELSE 5]

MailAsks == <<1, 3>>
ReturnAsks == <<1, 3, 0>>
=============================================================================
