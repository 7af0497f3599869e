--------------------------- MODULE MCChatSession ---------------------------
(***************************************************************************)
(* ChatSession for TLC: who connects and what the clients may ask.         *)
(***************************************************************************)
EXTENDS ChatSession, TLC

CONSTANTS a, b, c      \* sessions

\* Requests.
Req(oper, u) == [oper |-> oper, name |-> u, torn |-> FALSE]
Write(u) == Req(1, u)
Shout == Req(2, BroadcastType)
Status == Req(3, BroadcastType)
Stop(u) == Req(4, u)
Allow(u) == Req(5, u)
Leave == Req(6, BroadcastType)
Torn(oper) == [oper |-> oper, name |-> BroadcastType, torn |-> TRUE]

\* User 3 writes to user 2, who is logged in twice and may die once, and to
\* everyone; user 4 is never online.
MailOwner == (a :> 3) @@ (b :> 2) @@ (c :> 2)
MailMay == (a :> {Write(2), Shout}) @@ (b :> {Stop(3), Leave}) @@ (c :> {})

\* Users 2 and 3 use every kind of request.
TalkOwner == (a :> 2) @@ (b :> 3)
TalkMay == (a :> {Write(3), Shout, Write(Unknown), Status, Torn(1)})
        @@ (b :> {Stop(2), Allow(2), Stop(Unknown), Leave})

\* User 2 writes and may die, user 3 reads and blocks.
ReadMay == (a :> {Write(3), Shout}) @@ (b :> {Stop(2)})
=============================================================================
