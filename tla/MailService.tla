---------------------------- MODULE MailService ----------------------------
(***************************************************************************)
(* What the chat server promises about mail, without its processes, its    *)
(* message queue and its connections: which copies of a message exist, and *)
(* that each of them is handed over at most once or destroyed for a cause. *)
(***************************************************************************)
EXTENDS Naturals, Sequences

CONSTANTS Users,      \* user_ids
          Everyone    \* the address of a broadcast

VARIABLES
    mail,         \* mail[i] is the i-th accepted message, [from, to]
    pending,      \* copies <<i, u>> of message i on their way to user u
    delivered,    \* copies handed to a client of u
    destroyed,    \* copies that no client will ever get
    blocked,      \* blocked[u]: the users whose messages u refuses
    left          \* users of whom some client has gone

mailVars == <<mail, pending, delivered, destroyed, blocked, left>>

Copies == pending \cup delivered \cup destroyed

Init ==
    /\ mail = << >>
    /\ pending = {}
    /\ delivered = {}
    /\ destroyed = {}
    /\ blocked \in [Users -> SUBSET Users]
    /\ left = {}

\* A message is accepted.  A private one has its copy at once.
Accept(from, to) ==
    /\ mail' = Append(mail, [from |-> from, to |-> to])
    /\ pending' = IF to = Everyone THEN pending
                                   ELSE pending \cup {<<Len(mail'), to>>}
    /\ UNCHANGED <<delivered, destroyed, blocked, left>>

\* A broadcast gets its copy for one of the other users.
Spread(i, u) ==
    /\ mail[i].to = Everyone
    /\ mail[i].from # u
    /\ <<i, u>> \notin Copies
    /\ pending' = pending \cup {<<i, u>>}
    /\ UNCHANGED <<mail, delivered, destroyed, blocked, left>>

Deliver(i, u) ==
    /\ <<i, u>> \in pending
    /\ pending' = pending \ {<<i, u>>}
    /\ delivered' = delivered \cup {<<i, u>>}
    /\ UNCHANGED <<mail, destroyed, blocked, left>>

\* Only a block, or a client that went away, costs a user a message.
Destroy(i, u) ==
    /\ <<i, u>> \in pending
    /\ mail[i].from \in blocked[u] \/ u \in left
    /\ pending' = pending \ {<<i, u>>}
    /\ destroyed' = destroyed \cup {<<i, u>>}
    /\ UNCHANGED <<mail, delivered, blocked, left>>

ChangeBlocks(u) ==
    /\ \E v \in Users : \/ blocked' = [blocked EXCEPT ![u] = @ \cup {v}]
                        \/ blocked' = [blocked EXCEPT ![u] = @ \ {v}]
    /\ UNCHANGED <<mail, pending, delivered, destroyed, left>>

ClientLeaves(u) ==
    /\ left' = left \cup {u}
    /\ UNCHANGED <<mail, pending, delivered, destroyed, blocked>>

Next ==
    \/ \E from \in Users, to \in Users \cup {Everyone} : Accept(from, to)
    \/ \E i \in DOMAIN mail, u \in Users :
         Spread(i, u) \/ Deliver(i, u) \/ Destroy(i, u)
    \/ \E u \in Users : ChangeBlocks(u) \/ ClientLeaves(u)

Spec == Init /\ [][Next]_mailVars
=============================================================================
