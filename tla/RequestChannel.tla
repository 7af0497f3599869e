--------------------------- MODULE RequestChannel ---------------------------
(***************************************************************************)
(* What the chat server promises to a user who waits: her requests take    *)
(* effect in the order in which she makes them, each at most once, and     *)
(* only a request made right behind a status report may be passed over.    *)
(***************************************************************************)
EXTENDS Naturals, Sequences, SequencesExt

CONSTANTS Orders,    \* the requests of the menu
          IsStatus(_)

VARIABLES asked,     \* the requests made
          served     \* the numbers of those that took effect

vars == <<asked, served>>

Init ==
    /\ asked = << >>
    /\ served = << >>

Ask ==
    /\ \E order \in Orders : asked' = Append(asked, order)
    /\ UNCHANGED served

BehindStatus(n) == n > 1 /\ IsStatus(asked[n - 1])

LastServed == IF served = << >> THEN 0 ELSE Last(served)

Serve ==
    /\ \E n \in LastServed + 1..Len(asked) :
         /\ \A skipped \in LastServed + 1..n - 1 : BehindStatus(skipped)
         /\ served' = Append(served, n)
    /\ UNCHANGED asked

Next == Ask \/ Serve

Spec == Init /\ [][Next]_vars
=============================================================================
