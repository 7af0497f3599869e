------------------------------ MODULE MailDrop ------------------------------
(***************************************************************************)
(* What the local server of the network message bus promises its drivers,  *)
(* without select, sockets and processes: messages are stored, a request   *)
(* takes the oldest message of the driver's own type, and when there is    *)
(* none the reply repeats an old message or is garbage.                    *)
(***************************************************************************)
EXTENDS Integers, Sequences

CONSTANTS Drivers,
          Types,        \* message types
          Identity      \* Identity[d]: the message type that driver d asks for

Nothing == 0            \* a reply that holds no message

VARIABLES
    types,     \* types[i]: the type of message i
    stored,    \* the messages that wait, oldest first
    replies,   \* replies[d]: the messages that were sent to driver d
    left       \* drivers that have gone

dropVars == <<types, stored, replies, left>>

For(d) == {n \in DOMAIN stored : types[stored[n]] = Identity[d]}

Init ==
    /\ types = << >>
    /\ stored = << >>
    /\ replies = [d \in Drivers |-> << >>]
    /\ left = {}

Create(t) ==
    /\ types' = Append(types, t)
    /\ UNCHANGED <<stored, replies, left>>

Store(i) ==
    /\ \A n \in DOMAIN stored : stored[n] # i
    /\ \A d \in Drivers : \A n \in DOMAIN replies[d] : replies[d][n] # i
    /\ stored' = Append(stored, i)
    /\ UNCHANGED <<types, replies, left>>

Without(n) == SubSeq(stored, 1, n - 1) \o SubSeq(stored, n + 1, Len(stored))

\* The oldest message of its type is handed to the driver that asks.
Hand(d, n) ==
    /\ n \in For(d) /\ \A m \in For(d) : n <= m
    /\ stored' = Without(n)
    /\ replies' = [replies EXCEPT ![d] = Append(@, stored[n])]
    /\ UNCHANGED <<types, left>>

\* A reply without a new message is for a driver that has none waiting.  What
\* it repeats is a message that no longer waits.
Repeat(d, i) ==
    /\ For(d) = {}
    /\ \A n \in DOMAIN stored : stored[n] # i
    /\ replies' = [replies EXCEPT ![d] = Append(@, i)]
    /\ UNCHANGED <<types, stored, left>>

\* A message is lost only after a driver has gone: in a reply to a driver
\* that is no longer there.
Lose(n) ==
    /\ left # {}
    /\ stored' = Without(n)
    /\ UNCHANGED <<types, replies, left>>

Leave(d) ==
    /\ left' = left \cup {d}
    /\ UNCHANGED <<types, stored, replies>>

Next ==
    \/ \E t \in Types : Create(t)
    \/ \E i \in DOMAIN types : Store(i)
    \/ \E n \in DOMAIN stored : Lose(n)
    \/ \E d \in Drivers :
         \/ \E n \in DOMAIN stored : Hand(d, n)
         \/ \E i \in DOMAIN types \cup {Nothing} : Repeat(d, i)
         \/ Leave(d)

Spec == Init /\ [][Next]_dropVars
=============================================================================
