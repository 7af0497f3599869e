----------------------------- MODULE MCChatWire -----------------------------
(***************************************************************************)
(* ChatWire for TLC: two users and the menu.                               *)
(***************************************************************************)
EXTENDS ChatWire

MCTable == <<"ann", "bob">>

MCOrders == {[oper |-> o, name |-> "bob", blank |-> FALSE] : o \in {1, 2, 3, 4, 6}}
            \cup {[oper |-> 1, name |-> "nobody", blank |-> FALSE]}
            \cup {[oper |-> 1, name |-> "bob", blank |-> TRUE]}

MCMaxAsks == [waits \in BOOLEAN |-> IF waits THEN 3 ELSE 2]
=============================================================================
