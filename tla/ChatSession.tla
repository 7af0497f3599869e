---------------------------- MODULE ChatSession ----------------------------
(***************************************************************************)
(* The chat server at work: per connection a handler process that serves   *)
(* the client's requests and a listener process that forwards the client's *)
(* mail, one broadcaster, and what they share: the System V message queue, *)
(* the online_status and blocked_id fields of the user table, and, between *)
(* handler and listener, the client's socket.  One action is one system    *)
(* call, or one access to the table, with the local code that follows it.  *)
(*                                                                         *)
(* Accounts exist from the start (UserRegistry is about how they come      *)
(* about), and a request is read as one record of a code and a payload.    *)
(***************************************************************************)
EXTENDS Naturals, Sequences, FiniteSets

CONSTANTS NumUsers,    \* registered accounts
          Sessions,    \* connections, each with its client and its handler
          Owner,       \* Owner[s]: the user_id that the client of s logs in as
          May,         \* May[s]: the requests that the client of s may make
          QueueCap,    \* messages that the kernel's queue holds
          MaxMail,     \* bound: messages that clients send in all
          Unknown,     \* a username that nobody has
          Mortal,      \* sessions whose client may die without a logout
          MainFails    \* whether accept may fail

BroadcastType == 1                 \* the message type of the broadcaster
Users == 2..(NumUsers + 1)         \* user_ids, in the order of the table
Types == {BroadcastType} \cup Users

\* The menu of the client: code and payload of a request.  A torn request is
\* a code whose payload never comes.
Requests == [oper : 1..6, name : Users \cup {Unknown, BroadcastType}, torn : BOOLEAN]

ASSUME SessionAssumption ==
    /\ NumUsers \in Nat \ {0}
    /\ QueueCap \in Nat \ {0}
    /\ MaxMail \in Nat
    /\ Owner \in [Sessions -> Users]
    /\ May \in [Sessions -> SUBSET Requests]
    /\ Unknown \notin Types
    /\ Mortal \subseteq Sessions
    /\ MainFails \in BOOLEAN

VARIABLES
    online,    \* online[u]: online_status
    blocked,   \* blocked[u]: the ids whose entry in blocked_id of u is set
    queue,     \* queue[t]: the messages of type t in the queue, oldest first
    qnum,      \* the number of messages in the queue, which the kernel keeps
    mail,      \* mail[i]: sender and type of the i-th message of a client;
               \* everywhere else a message is its number
    hpc,       \* where the handler of a session is
    hreq,      \* the request it is serving
    hline,     \* the line of the status report it sends next
    lpc,       \* where the listener of a session is
    lmsg,      \* the message it holds, 0 if none
    bpc,       \* where the broadcaster is
    bmsg,      \* the message it holds, 0 if none
    bpos,      \* the user it forwards to next
    sock,      \* the connection of a session, seen from the client
    line,      \* the request in flight from the client to the handler
    inbox,     \* the messages that reached the client
    mainUp,    \* the accepting process runs
    destroyed, \* history: copies <<message, user>> that were dropped
    late       \* history: messages that reached the client of s from a user
               \* it had blocked, since it last blocked one

table == <<online, blocked>>
handlerVars == <<hpc, hreq, hline>>
listenerVars == <<lpc, lmsg>>
broadVars == <<bpc, bmsg, bpos>>
kernel == <<queue, qnum>>
vars == <<table, kernel, mail, handlerVars, listenerVars, broadVars, sock,
          line, inbox, mainUp, destroyed, late>>

Idle == [oper |-> 0]

TypeOK ==
    /\ online \in [Users -> {0, 1}]
    /\ blocked \in [Users -> SUBSET Users]
    /\ queue \in [Types -> Seq(1..Len(mail))]
    /\ qnum \in 0..QueueCap
    /\ mail \in Seq([from : Users, to : Types])
    /\ hpc \in [Sessions -> {"none", "greet", "loop", "msgsnd", "ack",
                             "status", "exited", "dead"}]
    /\ hreq \in [Sessions -> Requests \cup {Idle}]
    /\ hline \in [Sessions -> 0..(NumUsers + 2)]
    /\ lpc \in [Sessions -> {"none", "poll", "msgrcv", "check", "send",
                             "exited", "dead"}]
    /\ lmsg \in [Sessions -> 0..Len(mail)]
    /\ bpc \in {"poll", "msgrcv", "forward", "exited"}
    /\ bmsg \in 0..Len(mail)
    /\ bpos \in 2..(NumUsers + 2)
    /\ sock \in [Sessions -> {"none", "open", "leaving", "fin", "rst",
                              "closed"}]
    /\ line \in [Sessions -> Seq(Requests)]
    /\ inbox \in [Sessions -> Seq(1..Len(mail))]
    /\ mainUp \in BOOLEAN
    /\ destroyed \subseteq (1..Len(mail)) \X Users
    /\ late \in [Sessions -> SUBSET (1..Len(mail))]

Init ==
    /\ online = [u \in Users |-> 0]
    /\ blocked = [u \in Users |-> {}]
    /\ queue = [t \in Types |-> << >>]
    /\ qnum = 0
    /\ mail = << >>
    /\ hpc = [s \in Sessions |-> "none"]
    /\ hreq = [s \in Sessions |-> Idle]
    /\ hline = [s \in Sessions |-> 0]
    /\ lpc = [s \in Sessions |-> "none"]
    /\ lmsg = [s \in Sessions |-> 0]
    /\ bpc = "poll" /\ bmsg = 0 /\ bpos = 2
    /\ sock = [s \in Sessions |-> "none"]
    /\ line = [s \in Sessions |-> << >>]
    /\ inbox = [s \in Sessions |-> << >>]
    /\ mainUp = TRUE
    /\ destroyed = {}
    /\ late = [s \in Sessions |-> {}]

-----------------------------------------------------------------------------
\* Mutant of Room: msgsnd with IPC_NOWAIT in mind, as if nothing could be full.
RoomAlways == TRUE

\* All messages have the same size, so the byte limit of the queue is a limit
\* on their number.  msgsnd blocks while there is no room.
Room == qnum < QueueCap

\* msgsnd and msgrcv of message i, of type t.
MsgSnd(t, i) ==
    /\ Room
    /\ queue' = [queue EXCEPT ![t] = Append(@, i)]
    /\ qnum' = qnum + 1

MsgRcv(t) ==
    /\ queue[t] # << >>
    /\ queue' = [queue EXCEPT ![t] = Tail(@)]
    /\ qnum' = qnum - 1

\* send on a socket: to a client that has closed, the data is lost and may
\* come back as a reset, after which the next send raises SIGPIPE.
Arrives(s) == sock[s] \in {"open", "leaving"}
Broken(s) == sock[s] = "rst"
SockAfterSend(s) == IF sock[s] = "fin" THEN {"fin", "rst"} ELSE {sock[s]}

\* The handler sends a reply and goes on, or dies of SIGPIPE.
HandlerSend(s, next) ==
    /\ hpc' = [hpc EXCEPT ![s] = IF Broken(s) THEN "dead" ELSE next]
    /\ \E k \in SockAfterSend(s) : sock' = [sock EXCEPT ![s] = k]

\* The request that the handler receives next.
Request(s) == Head(line[s])

\* The handler receives that request and comes to pc next.
TakeRequest(s, next) ==
    /\ hpc[s] = "loop"
    /\ line[s] # << >>
    /\ line' = [line EXCEPT ![s] = Tail(@)]
    /\ hpc' = [hpc EXCEPT ![s] = next]

-----------------------------------------------------------------------------
(* The client: it may log in once, make requests one after the other, and  *)
(* close the connection with a logout or without.                          *)

\* accept, fork, and a password that is right: "verusr;1" is sent.
Login(s) ==
    /\ hpc[s] = "none"
    /\ mainUp
    /\ hpc' = [hpc EXCEPT ![s] = "greet"]
    /\ sock' = [sock EXCEPT ![s] = "open"]
    /\ UNCHANGED <<table, kernel, mail, hreq, hline, listenerVars, broadVars,
                   line, inbox, mainUp, destroyed, late>>

\* Messages that clients have sent and that are not in the queue yet.
OnTheWay == Cardinality({s \in Sessions :
    \/ hpc[s] = "msgsnd"
    \/ \E i \in DOMAIN line[s] : line[s][i].oper \in {1, 2}})

\* A request from the menu.  Bounds: one request in flight per connection,
\* MaxMail messages.  A client that logs out is about to close, one that
\* dies after the code of a request has closed.
Ask(s) ==
    /\ sock[s] = "open"
    /\ hpc[s] \notin {"none", "greet"}
    /\ line[s] = << >>
    /\ \E r \in May[s] :
         /\ r.oper \in {1, 2} => Len(mail) + OnTheWay < MaxMail
         /\ line' = [line EXCEPT ![s] = <<r>>]
         /\ \E k \in IF r.oper = 6 THEN {"leaving"}
                     ELSE IF r.torn THEN {"fin", "rst"} ELSE {"open"} :
              sock' = [sock EXCEPT ![s] = k]
    /\ UNCHANGED <<table, kernel, mail, handlerVars, listenerVars, broadVars,
                   inbox, mainUp, destroyed, late>>

\* The client closes, after a logout or because it dies.  With data that it
\* has not read the connection is reset at once.
ClientClose(s) ==
    /\ sock[s] = "leaving" \/ (sock[s] = "open" /\ s \in Mortal)
    /\ \E k \in {"fin", "rst"} : sock' = [sock EXCEPT ![s] = k]
    /\ UNCHANGED <<table, kernel, mail, handlerVars, listenerVars, broadVars,
                   line, inbox, mainUp, destroyed, late>>

-----------------------------------------------------------------------------
(* handle_client, from the greeting on.                                    *)

\* A wrong password: "verusr;2" is sent and the handler exits.
Refuse(s) ==
    /\ hpc[s] = "none"
    /\ mainUp
    /\ hpc' = [hpc EXCEPT ![s] = "exited"]
    /\ UNCHANGED <<table, kernel, mail, hreq, hline, listenerVars, broadVars,
                   sock, line, inbox, mainUp, destroyed, late>>

\* Mutant of Enter: online_status is left alone.
EnterUnseen(s) ==
    /\ hpc[s] = "greet"
    /\ HandlerSend(s, "loop")
    /\ lpc' = [lpc EXCEPT ![s] = IF Broken(s) THEN "none" ELSE "poll"]
    /\ UNCHANGED <<table, kernel, mail, hreq, hline, lmsg, broadVars, line,
                   inbox, mainUp, destroyed, late>>

\* The user is online, the welcome is sent and the listener forked.  If the
\* send fails the handler dies and there is no listener.
Enter(s) ==
    /\ hpc[s] = "greet"
    /\ online' = [online EXCEPT ![Owner[s]] = 1]
    /\ HandlerSend(s, "loop")
    /\ lpc' = [lpc EXCEPT ![s] = IF Broken(s) THEN "none" ELSE "poll"]
    /\ UNCHANGED <<blocked, kernel, mail, hreq, hline, lmsg, broadVars, line,
                   inbox, mainUp, destroyed, late>>

\* Operations 1 and 2: the message is built, msgsnd comes next.
TakeMessage(s) ==
    /\ TakeRequest(s, "msgsnd")
    /\ Request(s).oper \in {1, 2} /\ ~Request(s).torn
    /\ Request(s).name # Unknown
    /\ hreq' = [hreq EXCEPT ![s] = Request(s)]
    /\ UNCHANGED <<table, kernel, mail, hline, listenerVars, broadVars, sock,
                   inbox, mainUp, destroyed, late>>

\* Operation 1 to a name that find_user does not know: "msgack;2" comes next.
TakeUnaddressed(s) ==
    /\ TakeRequest(s, "ack")
    /\ Request(s).oper = 1 /\ ~Request(s).torn
    /\ Request(s).name = Unknown
    /\ UNCHANGED <<table, kernel, mail, hreq, hline, listenerVars, broadVars,
                   sock, inbox, mainUp, destroyed, late>>

TypeOf(r) == IF r.oper = 2 THEN BroadcastType ELSE r.name

\* msgsnd: it blocks until there is room.
Post(s) ==
    /\ hpc[s] = "msgsnd"
    /\ mail' = Append(mail, [from |-> Owner[s], to |-> TypeOf(hreq[s])])
    /\ MsgSnd(TypeOf(hreq[s]), Len(mail'))
    /\ hpc' = [hpc EXCEPT ![s] = "ack"]
    /\ hreq' = [hreq EXCEPT ![s] = Idle]
    /\ UNCHANGED <<table, hline, listenerVars, broadVars, sock, line, inbox,
                   mainUp, destroyed, late>>

\* Mutant of Acknowledge: it insists on an open connection.
AcknowledgeOpen(s) ==
    /\ hpc[s] = "ack"
    /\ Arrives(s)
    /\ HandlerSend(s, "loop")
    /\ UNCHANGED <<table, kernel, mail, hreq, hline, listenerVars, broadVars,
                   line, inbox, mainUp, destroyed, late>>

\* "msgack;1" or "msgack;2".
Acknowledge(s) ==
    /\ hpc[s] = "ack"
    /\ HandlerSend(s, "loop")
    /\ UNCHANGED <<table, kernel, mail, hreq, hline, listenerVars, broadVars,
                   line, inbox, mainUp, destroyed, late>>

\* Operation 3.  A missing payload is no harm here.
TakeStatus(s) ==
    /\ TakeRequest(s, "status")
    /\ Request(s).oper = 3
    /\ hline' = [hline EXCEPT ![s] = 1]
    /\ UNCHANGED <<table, kernel, mail, hreq, listenerVars, broadVars, sock,
                   inbox, mainUp, destroyed, late>>

\* The lines of the report: a header, a line per user, "gibber" at the end.
ReportLine(s) ==
    /\ hpc[s] = "status"
    /\ IF hline[s] < NumUsers + 2
       THEN /\ HandlerSend(s, "status")
            /\ hline' = [hline EXCEPT ![s] = IF Broken(s) THEN 0 ELSE @ + 1]
       ELSE /\ HandlerSend(s, "loop")
            /\ hline' = [hline EXCEPT ![s] = 0]
    /\ UNCHANGED <<table, kernel, mail, hreq, listenerVars, broadVars, line,
                   inbox, mainUp, destroyed, late>>

\* Operation 4.
Block(s) ==
    /\ TakeRequest(s, "loop")
    /\ Request(s).oper = 4 /\ ~Request(s).torn
    /\ Request(s).name \in Users
    /\ blocked' = [blocked EXCEPT ![Owner[s]] = @ \cup {Request(s).name}]
    /\ late' = [t \in Sessions |-> IF Owner[t] = Owner[s] THEN {} ELSE late[t]]
    /\ UNCHANGED <<online, kernel, mail, hreq, hline, listenerVars, broadVars,
                   sock, inbox, mainUp, destroyed>>

\* Operation 5.
Unblock(s) ==
    /\ TakeRequest(s, "loop")
    /\ Request(s).oper = 5 /\ ~Request(s).torn
    /\ Request(s).name \in Users
    /\ blocked' = [blocked EXCEPT ![Owner[s]] = @ \ {Request(s).name}]
    /\ UNCHANGED <<online, kernel, mail, hreq, hline, listenerVars, broadVars,
                   sock, inbox, mainUp, destroyed, late>>

\* strtok or find_user returns NULL and it is dereferenced: a payload that
\* never came, or a name to block or unblock that nobody has.
Crash(s) ==
    /\ TakeRequest(s, "dead")
    /\ \/ Request(s).torn /\ Request(s).oper \in {1, 2, 4, 5}
       \/ Request(s).oper \in {4, 5} /\ Request(s).name = Unknown
    /\ UNCHANGED <<table, kernel, mail, hreq, hline, listenerVars, broadVars,
                   sock, inbox, mainUp, destroyed, late>>

\* Mutant of Logout: online_status is left alone.
LogoutUnseen(s) ==
    /\ TakeRequest(s, "exited")
    /\ Request(s).oper = 6
    /\ lpc' = [lpc EXCEPT ![s] = "dead"]
    /\ lmsg' = [lmsg EXCEPT ![s] = 0]
    /\ destroyed' = IF lmsg[s] = 0 THEN destroyed
                                   ELSE destroyed \cup {<<lmsg[s], Owner[s]>>}
    /\ sock' = [sock EXCEPT ![s] = "closed"]
    /\ UNCHANGED <<table, kernel, mail, hreq, hline, broadVars, inbox,
                   mainUp, late>>

\* Operation 6: the listener is killed, with the message it may hold.
Logout(s) ==
    /\ TakeRequest(s, "exited")
    /\ Request(s).oper = 6
    /\ online' = [online EXCEPT ![Owner[s]] = 0]
    /\ lpc' = [lpc EXCEPT ![s] = "dead"]
    /\ lmsg' = [lmsg EXCEPT ![s] = 0]
    /\ destroyed' = IF lmsg[s] = 0 THEN destroyed
                                   ELSE destroyed \cup {<<lmsg[s], Owner[s]>>}
    /\ sock' = [sock EXCEPT ![s] = "closed"]
    /\ UNCHANGED <<blocked, kernel, mail, hreq, hline, broadVars, inbox,
                   mainUp, late>>

HandlerStep(s) ==
    \/ Enter(s) \/ TakeMessage(s) \/ TakeUnaddressed(s) \/ Post(s)
    \/ Acknowledge(s) \/ TakeStatus(s) \/ ReportLine(s) \/ Block(s)
    \/ Unblock(s) \/ Crash(s) \/ Logout(s)

-----------------------------------------------------------------------------
(* The listener of a session, forked by its handler.                       *)

\* kill(parent, 0) succeeds for a parent that has died as long as main, which
\* never waits for its children, keeps it as a zombie.
ParentSeen(s) == hpc[s] # "dead" \/ mainUp

Poll(s) ==
    /\ lpc[s] = "poll"
    /\ ParentSeen(s)
    /\ lpc' = [lpc EXCEPT ![s] = "msgrcv"]
    /\ UNCHANGED <<table, kernel, mail, handlerVars, lmsg, broadVars, sock,
                   line, inbox, mainUp, destroyed, late>>

\* The branch of the listener without a parent.
Orphaned(s) ==
    /\ lpc[s] = "poll"
    /\ ~ParentSeen(s)
    /\ lpc' = [lpc EXCEPT ![s] = "exited"]
    /\ online' = [online EXCEPT ![Owner[s]] = 0]
    /\ UNCHANGED <<blocked, kernel, mail, handlerVars, lmsg, broadVars, sock,
                   line, inbox, mainUp, destroyed, late>>

\* Mutant of Receive: the newest message comes first.
ReceiveNewest(s) ==
    /\ lpc[s] = "msgrcv"
    /\ queue[Owner[s]] # << >>
    /\ LET q == queue[Owner[s]]
       IN /\ lmsg' = [lmsg EXCEPT ![s] = q[Len(q)]]
          /\ queue' = [queue EXCEPT ![Owner[s]] = SubSeq(q, 1, Len(q) - 1)]
    /\ qnum' = qnum - 1
    /\ lpc' = [lpc EXCEPT ![s] = "check"]
    /\ UNCHANGED <<table, mail, handlerVars, broadVars, sock, line, inbox,
                   mainUp, destroyed, late>>

\* msgrcv takes the oldest message of the user's type.
Receive(s) ==
    /\ lpc[s] = "msgrcv"
    /\ MsgRcv(Owner[s])
    /\ lmsg' = [lmsg EXCEPT ![s] = Head(queue[Owner[s]])]
    /\ lpc' = [lpc EXCEPT ![s] = "check"]
    /\ UNCHANGED <<table, mail, handlerVars, broadVars, sock, line, inbox,
                   mainUp, destroyed, late>>

SenderBlocked(s) == mail[lmsg[s]].from \in blocked[Owner[s]]

\* Mutant of Pass: blocked_id is not looked at.
PassAll(s) ==
    /\ lpc[s] = "check"
    /\ lpc' = [lpc EXCEPT ![s] = "send"]
    /\ UNCHANGED <<table, kernel, mail, handlerVars, lmsg, broadVars, sock,
                   line, inbox, mainUp, destroyed, late>>

\* A message of a sender that is not blocked goes on to be sent.
Pass(s) ==
    /\ lpc[s] = "check"
    /\ ~SenderBlocked(s)
    /\ lpc' = [lpc EXCEPT ![s] = "send"]
    /\ UNCHANGED <<table, kernel, mail, handlerVars, lmsg, broadVars, sock,
                   line, inbox, mainUp, destroyed, late>>

\* Mutant of Discard: the listener keeps the message until it may be sent.
DiscardLater(s) == FALSE

\* A message of a blocked sender is dropped.
Discard(s) ==
    /\ lpc[s] = "check"
    /\ SenderBlocked(s)
    /\ lpc' = [lpc EXCEPT ![s] = "poll"]
    /\ lmsg' = [lmsg EXCEPT ![s] = 0]
    /\ destroyed' = destroyed \cup {<<lmsg[s], Owner[s]>>}
    /\ UNCHANGED <<table, kernel, mail, handlerVars, broadVars, sock, line,
                   inbox, mainUp, late>>

\* The message is sent on the connection, whose client may have gone.
Forward(s) ==
    /\ lpc[s] = "send"
    /\ lmsg' = [lmsg EXCEPT ![s] = 0]
    /\ lpc' = [lpc EXCEPT ![s] = IF Broken(s) THEN "dead" ELSE "poll"]
    /\ \E k \in SockAfterSend(s) : sock' = [sock EXCEPT ![s] = k]
    /\ IF Arrives(s)
       THEN /\ inbox' = [inbox EXCEPT ![s] = Append(@, lmsg[s])]
            /\ late' = [late EXCEPT ![s] =
                           IF SenderBlocked(s) THEN @ \cup {lmsg[s]} ELSE @]
            /\ UNCHANGED destroyed
       ELSE /\ destroyed' = destroyed \cup {<<lmsg[s], Owner[s]>>}
            /\ UNCHANGED <<inbox, late>>
    /\ UNCHANGED <<table, kernel, mail, handlerVars, broadVars, line, mainUp>>

ListenerStep(s) ==
    \/ Poll(s) \/ Orphaned(s) \/ Receive(s) \/ Pass(s) \/ Discard(s)
    \/ Forward(s)

-----------------------------------------------------------------------------
(* The broadcaster, and the accepting process that is its parent.          *)

BroadcasterPoll ==
    /\ bpc = "poll"
    /\ bpc' = IF mainUp THEN "msgrcv" ELSE "exited"
    /\ UNCHANGED <<table, kernel, mail, handlerVars, listenerVars, bmsg, bpos,
                   sock, line, inbox, mainUp, destroyed, late>>

BroadcasterReceive ==
    /\ bpc = "msgrcv"
    /\ MsgRcv(BroadcastType)
    /\ bmsg' = Head(queue[BroadcastType])
    /\ bpos' = 2
    /\ bpc' = "forward"
    /\ UNCHANGED <<table, mail, handlerVars, listenerVars, sock, line, inbox,
                   mainUp, destroyed, late>>

\* Mutants of BroadcasterForward: the sender gets a copy, or ends the loop.
ForwardToAll ==
    /\ bpc = "forward"
    /\ bpos \in Users
    /\ bpos' = bpos + 1
    /\ MsgSnd(bpos, bmsg)
    /\ UNCHANGED <<table, mail, handlerVars, listenerVars, bpc, bmsg, sock,
                   line, inbox, mainUp, destroyed, late>>

ForwardUntilSender ==
    /\ bpc = "forward"
    /\ bpos \in Users
    /\ IF mail[bmsg].from = bpos
       THEN bpos' = NumUsers + 2 /\ UNCHANGED kernel
       ELSE bpos' = bpos + 1 /\ MsgSnd(bpos, bmsg)
    /\ UNCHANGED <<table, mail, handlerVars, listenerVars, bpc, bmsg, sock,
                   line, inbox, mainUp, destroyed, late>>

\* One turn of the loop over the users: a copy for everyone but the sender.
\* msgsnd blocks until there is room.
BroadcasterForward ==
    /\ bpc = "forward"
    /\ bpos \in Users
    /\ bpos' = bpos + 1
    /\ IF mail[bmsg].from = bpos
       THEN UNCHANGED kernel
       ELSE MsgSnd(bpos, bmsg)
    /\ UNCHANGED <<table, mail, handlerVars, listenerVars, bpc, bmsg, sock,
                   line, inbox, mainUp, destroyed, late>>

BroadcasterDone ==
    /\ bpc = "forward"
    /\ bpos \notin Users
    /\ bpc' = "poll"
    /\ bmsg' = 0
    /\ UNCHANGED <<table, kernel, mail, handlerVars, listenerVars, bpos, sock,
                   line, inbox, mainUp, destroyed, late>>

BroadcasterStep ==
    \/ BroadcasterPoll \/ BroadcasterReceive \/ BroadcasterForward
    \/ BroadcasterDone

\* accept fails and main exits: no new clients, and init reaps the handlers.
MainExits ==
    /\ mainUp /\ MainFails
    /\ mainUp' = FALSE
    /\ UNCHANGED <<table, kernel, mail, handlerVars, listenerVars, broadVars,
                   sock, line, inbox, destroyed, late>>

Next ==
    \/ \E s \in Sessions :
         \/ Login(s) \/ Refuse(s) \/ Ask(s) \/ ClientClose(s)
         \/ HandlerStep(s) \/ ListenerStep(s)
    \/ BroadcasterStep
    \/ MainExits

Spec == Init /\ [][Next]_vars

\* Every server process is scheduled again and again; what clients do, and
\* whether main fails, is up to them.
FairSpec ==
    /\ Spec
    /\ \A s \in Sessions : WF_vars(HandlerStep(s)) /\ WF_vars(ListenerStep(s))
    /\ WF_vars(BroadcasterStep)

-----------------------------------------------------------------------------
\* The sessions of each user.
Of == [u \in Users |-> {s \in Sessions : Owner[s] = u}]

\* Message i is in the queue for u, in the hands of a listener of u, or with
\* a client of u.
Queued(i, u) == \E n \in DOMAIN queue[u] : queue[u][n] = i
Held(i, u) == \E s \in Of[u] : lmsg[s] = i
Arrived(i, u) == \E s \in Of[u] : \E n \in DOMAIN inbox[s] : inbox[s][n] = i

\* The copies on their way, those handed over, and the users of whom some
\* client has gone.
Pending == {c \in (DOMAIN mail) \X Users : Queued(c[1], c[2]) \/ Held(c[1], c[2])}
Delivered == {c \in (DOMAIN mail) \X Users : Arrived(c[1], c[2])}
Left == {u \in Users : \E s \in Of[u] :
            sock[s] \in {"leaving", "fin", "rst", "closed"}}

\* The mail service that the processes implement.
Mail == INSTANCE MailService WITH
    Everyone  <- BroadcastType,
    pending   <- Pending,
    delivered <- Delivered,
    left      <- Left

\* A message is handed over at most once and to its addressee alone, a
\* broadcast to everyone but its sender; it disappears only if its sender is
\* blocked or a client of its addressee has gone.
MailIsKept == Mail!Spec

\* Messages reach a client in the order in which they entered the queue,
\* private ones among themselves and broadcasts among themselves.
InboxOrder ==
    \A s \in Sessions : \A m, n \in DOMAIN inbox[s] :
        LET Broad(i) == mail[i].to = BroadcastType
        IN m < n /\ (Broad(inbox[s][m]) <=> Broad(inbox[s][n]))
             => inbox[s][m] < inbox[s][n]

\* Once a block is in force, at most one message of a blocked sender still
\* reaches the client: the one its listener had already checked.
BlockTakesEffect == \A s \in Sessions : Cardinality(late[s]) <= 1

\* The status of a user is online only while a session of hers that has not
\* logged out exists.
OnlineHasSession ==
    \A u \in Users : online[u] = 1 =>
        \E s \in Of[u] : hpc[s] \notin {"none", "greet", "exited"}

\* A user with one session is online for as long as its handler serves it:
\* neither the crash of another handler nor the end of main marks her offline.
ServedShowsOnline ==
    \A s \in Sessions :
        Of[Owner[s]] = {s} /\ hpc[s] \in {"loop", "msgsnd", "ack", "status"}
            => online[Owner[s]] = 1

Listening(s) == lpc[s] \in {"poll", "msgrcv", "check", "send"}

\* A message that is queued for a user reaches a client of hers or is dropped
\* as long as a listener of hers lives: no message is left behind in the
\* queue by listeners that wait.
AttendedMailSettles ==
    \A s \in Sessions, i \in 1..MaxMail :
        Queued(i, Owner[s]) /\ Listening(s)
            ~> Arrived(i, Owner[s]) \/ <<i, Owner[s]>> \in destroyed
                                    \/ ~Listening(s)

\* An accepted broadcast gets its copy for every other user, unless the
\* accepting process fails: the broadcaster never stops half-way.  This needs
\* a queue that does not run full.
BroadcastIsSpread ==
    \A i \in 1..MaxMail, u \in Users :
        i \in DOMAIN mail /\ mail[i].to = BroadcastType /\ mail[i].from # u
            ~> \/ Queued(i, u) \/ Held(i, u) \/ Arrived(i, u)
               \/ <<i, u>> \in destroyed
               \/ ~mainUp

\* Every request is taken from the connection, whatever the client asked
\* before and wherever it has gone since, unless its handler dies: no reply
\* stops a handler for good.  This too needs a queue that does not run full.
RequestIsServed ==
    \A s \in Sessions : line[s] # << >> ~> line[s] = << >> \/ hpc[s] = "dead"
=============================================================================
