----------------------------- MODULE MessageBus -----------------------------
(***************************************************************************)
(* The local server of the network message bus on one machine: the process *)
(* that serves the drivers (client_facing, a select loop over their        *)
(* connections), the process that listens to the multicast group           *)
(* (network_facing), the System V queue between them, and the drivers with *)
(* the library nmb.c.  The other machines are part of the environment.     *)
(*                                                                         *)
(* Descriptors grow with every accept and are never closed, so connections *)
(* are numbered in the order of their descriptors.  A message is a number; *)
(* its type is made of the address, the port and the padding that it       *)
(* carries.                                                                *)
(***************************************************************************)
EXTENDS Integers, Sequences, FiniteSets

CONSTANTS NumConns,    \* bound: connections that drivers ever make
          FdLimit,     \* connections until the process is out of descriptors
          Identity,    \* Identity[c]: my_mtype of the driver at connection c
          Dest,        \* types of the messages that drivers send
          Foreign,     \* types of the messages that other machines send
          QueueCap,    \* messages that the kernel's queue holds
          NetCap,      \* datagrams that the receiving socket holds
          MaxMsgs,     \* bound: messages in all
          MaxAsks,     \* MaxAsks[c]: bound on the requests of driver c
          Senders,     \* bound: the drivers that send messages
          Leavers,     \* bound: the drivers that close their connection
          ReplyWords   \* a reply is so many times sizeof(msgp) long

Conns == 1..NumConns

ASSUME BusAssumption ==
    /\ NumConns \in Nat \ {0} /\ FdLimit \in Nat \ {0}
    /\ Identity \in [Conns -> Int]
    /\ Dest \subseteq Nat /\ Foreign \subseteq Nat
    /\ QueueCap \in Nat \ {0} /\ NetCap \in Nat \ {0}
    /\ MaxMsgs \in Nat /\ MaxAsks \in [Conns -> Nat] /\ Senders \subseteq Conns
    /\ Leavers \subseteq Conns
    /\ ReplyWords \in Nat \ {0, 1}

VARIABLES
    msgs,      \* msgs[i]: the type of message i
    conn,      \* the connection of a driver, seen from the server: "rst" has
               \* an error pending, "gone" has reported it
    sent,      \* the records that the server has yet to read from it
    out,       \* the replies that were sent to the driver, Garbage if none
    asks,      \* msgrcv_nmb calls of the driver
    words,     \* words that it has read of its replies
    waiting,   \* it is in the recv of msgrcv_nmb
    pc,        \* client_facing: at select, within a pass, or gone
    accepted,  \* connections accepted
    allset,    \* the descriptors that select watches
    rset,      \* the ready ones that the pass has yet to look at
    pbuffer,   \* the record received last in this pass
    send_msg,  \* the buffer that msgrcv fills, never initialised
    net,       \* datagrams in the socket of network_facing
    inc_msg,   \* the message that network_facing is about to queue, 0 if none
    queue      \* the message queue, oldest first

drivers == <<asks, words, waiting>>
facing == <<pc, accepted, allset, rset, pbuffer, send_msg>>
bus == <<net, inc_msg, queue>>
vars == <<msgs, conn, sent, out, drivers, facing, bus>>

Garbage == 0
Put(i) == [oper |-> "put", msg |-> i]
Get(t) == [oper |-> "mreq;", type |-> t]
Zeroes == [oper |-> "zero"]
Asked(r) == r.oper = "mreq;"

TypeOK ==
    LET Sent == {Put(i) : i \in 1..Len(msgs)} \cup {Get(Identity[c]) : c \in Conns}
    IN /\ msgs \in Seq(Dest \cup Foreign)
       /\ conn \in [Conns -> {"none", "open", "fin", "rst", "gone"}]
       /\ sent \in [Conns -> Seq(Sent)]
       /\ out \in [Conns -> Seq(0..Len(msgs))]
       /\ \A c \in Conns : asks[c] \in 0..MaxAsks[c] /\ words[c] \in 0..asks[c]
       /\ waiting \subseteq Conns
       /\ pc \in {"select", "pass", "exited", "killed"}
       /\ accepted \in 0..FdLimit
       /\ allset \subseteq 1..accepted
       /\ rset \subseteq allset
       /\ pbuffer \in Sent \cup {Zeroes}
       /\ send_msg \in 0..Len(msgs)
       /\ net \in Seq(1..Len(msgs)) /\ Len(net) <= NetCap
       /\ inc_msg \in 0..Len(msgs)
       /\ queue \in Seq(1..Len(msgs)) /\ Len(queue) <= QueueCap

Init ==
    /\ msgs = << >>
    /\ conn = [c \in Conns |-> "none"]
    /\ sent = [c \in Conns |-> << >>]
    /\ out = [c \in Conns |-> << >>]
    /\ asks = [c \in Conns |-> 0]
    /\ words = [c \in Conns |-> 0]
    /\ waiting = {}
    /\ pc = "select" /\ accepted = 0 /\ allset = {} /\ rset = {}
    /\ pbuffer = Zeroes /\ send_msg = Garbage
    /\ net = << >> /\ inc_msg = 0 /\ queue = << >>

Serving == pc \in {"select", "pass"}

-----------------------------------------------------------------------------
(* A driver.                                                               *)

Connect(c) ==
    /\ Serving
    /\ conn[c] = "none"
    /\ c > 1 => conn[c - 1] # "none"
    /\ conn' = [conn EXCEPT ![c] = "open"]
    /\ UNCHANGED <<msgs, sent, out, drivers, facing, bus>>

Idle(c) == Serving /\ conn[c] = "open" /\ c \notin waiting

\* Choice 1, msgsnd_nmb.
Send(c) ==
    /\ Idle(c)
    /\ c \in Senders /\ Len(msgs) < MaxMsgs
    /\ \E t \in Dest : msgs' = Append(msgs, t)
    /\ sent' = [sent EXCEPT ![c] = Append(@, Put(Len(msgs')))]
    /\ UNCHANGED <<conn, out, drivers, facing, bus>>

\* Choice 2, msgrcv_nmb up to its recv.
Ask(c) ==
    /\ Idle(c)
    /\ asks[c] < MaxAsks[c]
    /\ asks' = [asks EXCEPT ![c] = @ + 1]
    /\ waiting' = waiting \cup {c}
    /\ sent' = [sent EXCEPT ![c] = Append(@, Get(Identity[c]))]
    /\ UNCHANGED <<msgs, conn, out, words, facing, bus>>

Unread(c) == words[c] < ReplyWords * Len(out[c])

\* recv takes sizeof(msgp) bytes, a word of the reply, and no more.
ReadWord(c) ==
    /\ c \in waiting /\ conn[c] = "open"
    /\ Unread(c)
    /\ words' = [words EXCEPT ![c] = @ + 1]
    /\ waiting' = waiting \ {c}
    /\ UNCHANGED <<msgs, conn, sent, out, asks, facing, bus>>

\* recv fails since the server is gone.
ReadFails(c) ==
    /\ c \in waiting /\ ~Serving
    /\ waiting' = waiting \ {c}
    /\ UNCHANGED <<msgs, conn, sent, out, asks, words, facing, bus>>

\* Choice 3, or the driver dies.  The rest of a reply that it has not read
\* makes the kernel reset the connection.
Close(c) ==
    /\ Serving
    /\ c \in Leavers /\ conn[c] = "open"
    /\ conn' = [conn EXCEPT ![c] = IF Unread(c) THEN "rst" ELSE "fin"]
    /\ waiting' = waiting \ {c}
    /\ UNCHANGED <<msgs, sent, out, asks, words, facing, bus>>

-----------------------------------------------------------------------------
(* The message queue and the multicast group.                              *)

\* The places in the queue that msgrcv chooses from: a type, the lowest type
\* up to -t, or any.
Candidates(t) ==
    LET Low == {n \in DOMAIN queue : msgs[queue[n]] <= -t}
    IN IF t > 0 THEN {n \in DOMAIN queue : msgs[queue[n]] = t}
       ELSE IF t = 0 THEN DOMAIN queue
       ELSE {n \in Low : \A m \in Low : msgs[queue[n]] <= msgs[queue[m]]}

First(S) == CHOOSE n \in S : \A m \in S : n <= m

\* msgrcv with IPC_NOWAIT.  It leaves its buffer alone when there is nothing;
\* what is in there then is the message before, or whatever was on the stack.
MsgRcv(t) ==
    IF Candidates(t) = {}
    THEN /\ send_msg' \in {send_msg, Garbage}
         /\ UNCHANGED queue
    ELSE LET n == First(Candidates(t))
         IN /\ send_msg' = queue[n]
            /\ queue' = SubSeq(queue, 1, n - 1) \o SubSeq(queue, n + 1, Len(queue))

\* A datagram to the group reaches this machine's socket, or is lost.
Multicast(i) ==
    \/ Len(net) < NetCap /\ net' = Append(net, i)
    \/ UNCHANGED net

-----------------------------------------------------------------------------
(* client_facing.                                                          *)

Readable == {c \in allset : sent[c] # << >> \/ conn[c] # "open"}
Backlog == {c \in Conns : c > accepted /\ conn[c] # "none"}

\* Mutant of Select: the pass looks at every descriptor, FD_ISSET is forgotten.
SelectAll ==
    /\ pc = "select"
    /\ Readable # {} \/ Backlog # {}
    /\ pbuffer' = Zeroes
    /\ rset' = allset
    /\ pc' = IF allset = {} THEN "select" ELSE "pass"
    /\ IF Backlog = {}
       THEN UNCHANGED <<accepted, allset>>
       ELSE /\ accepted < FdLimit
            /\ accepted' = accepted + 1
            /\ allset' = allset \cup {accepted'}
    /\ UNCHANGED <<msgs, conn, sent, out, drivers, send_msg, bus>>

\* select returns and a connection is accepted if there is one.  The pass
\* ahead looks at what was ready before.
Select ==
    /\ pc = "select"
    /\ Readable # {} \/ Backlog # {}
    /\ pbuffer' = Zeroes
    /\ rset' = Readable
    /\ pc' = IF Readable = {} THEN "select" ELSE "pass"
    /\ IF Backlog = {}
       THEN UNCHANGED <<accepted, allset>>
       ELSE /\ accepted < FdLimit
            /\ accepted' = accepted + 1
            /\ allset' = allset \cup {accepted'}
    /\ UNCHANGED <<msgs, conn, sent, out, drivers, send_msg, bus>>

\* accept fails for want of a descriptor and the process exits.
AcceptFails ==
    /\ pc = "select"
    /\ Backlog # {} /\ accepted = FdLimit
    /\ pc' = "exited"
    /\ UNCHANGED <<msgs, conn, sent, out, drivers, accepted, allset, rset,
                   pbuffer, send_msg, bus>>

\* The loop over the descriptors comes to c and goes on behind it.
Visit(c) ==
    /\ pc = "pass"
    /\ c \in rset /\ \A d \in rset : c <= d
    /\ rset' = rset \ {c}

AfterVisit(c) == IF rset = {c} THEN "select" ELSE "pass"

Receive(c) ==
    /\ Visit(c)
    /\ sent[c] # << >>
    /\ sent' = [sent EXCEPT ![c] = Tail(@)]
    /\ pbuffer' = Head(sent[c])

\* Mutants of Answer: msgrcv takes any type, blocks, or its failure is noticed.
AnswerAny(c) ==
    /\ Receive(c)
    /\ Asked(pbuffer')
    /\ MsgRcv(0)
    /\ out' = IF conn[c] = "open" THEN [out EXCEPT ![c] = Append(@, send_msg')]
                                  ELSE out
    /\ \E k \in CASE conn[c] = "fin" -> {"fin", "gone"}
                  [] conn[c] = "rst" -> {"gone"}
                  [] OTHER           -> {conn[c]} :
         conn' = [conn EXCEPT ![c] = k]
    /\ pc' = IF conn[c] = "gone" THEN "killed" ELSE AfterVisit(c)
    /\ UNCHANGED <<msgs, drivers, accepted, allset, net, inc_msg>>

AnswerBlocking(c) ==
    /\ Receive(c)
    /\ Asked(pbuffer')
    /\ Candidates(pbuffer'.type) # {}
    /\ MsgRcv(pbuffer'.type)
    /\ out' = IF conn[c] = "open" THEN [out EXCEPT ![c] = Append(@, send_msg')]
                                  ELSE out
    /\ \E k \in CASE conn[c] = "fin" -> {"fin", "gone"}
                  [] conn[c] = "rst" -> {"gone"}
                  [] OTHER           -> {conn[c]} :
         conn' = [conn EXCEPT ![c] = k]
    /\ pc' = IF conn[c] = "gone" THEN "killed" ELSE AfterVisit(c)
    /\ UNCHANGED <<msgs, drivers, accepted, allset, net, inc_msg>>

AnswerIfAny(c) ==
    /\ Receive(c)
    /\ Asked(pbuffer')
    /\ MsgRcv(pbuffer'.type)
    /\ out' = IF conn[c] = "open" /\ Candidates(pbuffer'.type) # {}
              THEN [out EXCEPT ![c] = Append(@, send_msg')]
              ELSE out
    /\ \E k \in CASE conn[c] = "fin" -> {"fin", "gone"}
                  [] conn[c] = "rst" -> {"gone"}
                  [] OTHER           -> {conn[c]} :
         conn' = [conn EXCEPT ![c] = k]
    /\ pc' = IF conn[c] = "gone" THEN "killed" ELSE AfterVisit(c)
    /\ UNCHANGED <<msgs, drivers, accepted, allset, net, inc_msg>>

\* A request: msgrcv, and the reply is sent.  It is lost if the driver has
\* closed, and kills the process if that is known already.
Answer(c) ==
    /\ Receive(c)
    /\ Asked(pbuffer')
    /\ MsgRcv(pbuffer'.type)
    /\ out' = IF conn[c] = "open" THEN [out EXCEPT ![c] = Append(@, send_msg')]
                                  ELSE out
    /\ \E k \in CASE conn[c] = "fin" -> {"fin", "gone"}
                  [] conn[c] = "rst" -> {"gone"}
                  [] OTHER           -> {conn[c]} :
         conn' = [conn EXCEPT ![c] = k]
    /\ pc' = IF conn[c] = "gone" THEN "killed" ELSE AfterVisit(c)
    /\ UNCHANGED <<msgs, drivers, accepted, allset, net, inc_msg>>

\* A message: it is multicast as it is.
Relay(c) ==
    /\ Receive(c)
    /\ ~Asked(pbuffer')
    /\ Multicast(pbuffer'.msg)
    /\ pc' = AfterVisit(c)
    /\ UNCHANGED <<msgs, conn, out, drivers, accepted, allset, send_msg,
                   inc_msg, queue>>

\* recv returns no data: c is no longer watched and its sending side is shut.
Ended(c) ==
    /\ Visit(c)
    /\ sent[c] = << >>
    /\ allset' = allset \ {c}
    /\ conn' = [conn EXCEPT ![c] = IF @ = "rst" THEN "gone" ELSE @]

Hangup(c) ==
    /\ Ended(c)
    /\ ~Asked(pbuffer)
    /\ pc' = AfterVisit(c)
    /\ UNCHANGED <<msgs, sent, out, drivers, accepted, pbuffer, send_msg, bus>>

\* pbuffer still holds the request of a connection before: it is answered
\* again, on a connection that is shut, and SIGPIPE kills the process.
HangupStale(c) ==
    /\ Ended(c)
    /\ Asked(pbuffer)
    /\ MsgRcv(pbuffer.type)
    /\ pc' = "killed"
    /\ UNCHANGED <<msgs, sent, out, drivers, accepted, pbuffer, net, inc_msg>>

ClientFacing ==
    \/ Select \/ AcceptFails
    \/ \E c \in Conns : Answer(c) \/ Relay(c) \/ Hangup(c) \/ HangupStale(c)

-----------------------------------------------------------------------------
(* network_facing, and the machines that send to the group.                *)

ForeignSend ==
    /\ Len(msgs) < MaxMsgs
    /\ \E t \in Foreign : msgs' = Append(msgs, t)
    /\ Multicast(Len(msgs'))
    /\ UNCHANGED <<conn, sent, out, drivers, facing, inc_msg, queue>>

RecvFrom ==
    /\ inc_msg = 0
    /\ net # << >>
    /\ inc_msg' = Head(net)
    /\ net' = Tail(net)
    /\ UNCHANGED <<msgs, conn, sent, out, drivers, facing, queue>>

\* Mutant of MsgSnd: no queue is ever full.
MsgSndAlways ==
    /\ inc_msg # 0
    /\ inc_msg' = 0
    /\ IF msgs[inc_msg] = 0
       THEN UNCHANGED queue
       ELSE queue' = Append(queue, inc_msg)
    /\ UNCHANGED <<msgs, conn, sent, out, drivers, facing, net>>

\* msgsnd refuses type 0 and blocks while the queue is full.  Whether the
\* message is for this machine is not looked at.
MsgSnd ==
    /\ inc_msg # 0
    /\ inc_msg' = 0
    /\ IF msgs[inc_msg] = 0
       THEN UNCHANGED queue
       ELSE /\ Len(queue) < QueueCap
            /\ queue' = Append(queue, inc_msg)
    /\ UNCHANGED <<msgs, conn, sent, out, drivers, facing, net>>

NetworkFacing == RecvFrom \/ MsgSnd

Driver(c) ==
    Connect(c) \/ Send(c) \/ Ask(c) \/ ReadWord(c) \/ ReadFails(c) \/ Close(c)

Next ==
    \/ \E c \in Conns : Driver(c)
    \/ ClientFacing \/ NetworkFacing \/ ForeignSend

Spec == Init /\ [][Next]_vars

\* The server's processes run, and a driver in recv returns when it can.
FairSpec ==
    /\ Spec
    /\ WF_vars(ClientFacing) /\ WF_vars(NetworkFacing)
    /\ \A c \in Conns : WF_vars(ReadWord(c) \/ ReadFails(c))

-----------------------------------------------------------------------------
\* The promise of MailDrop, for drivers whose my_mtype is a type: a request
\* takes the oldest message for the driver, a reply without one is sent only
\* if none waits, and mail is lost only after a driver has gone.
Drop == INSTANCE MailDrop WITH
    Drivers <- Conns,
    Types   <- Dest \cup Foreign,
    types   <- msgs,
    stored  <- queue,
    replies <- out,
    left    <- {c \in Conns : conn[c] \in {"fin", "rst", "gone"}}

MailIsKept == Drop!Spec

\* As long as a driver stays connected each of its requests is answered
\* exactly once, by the pass that reads it: no pass skips it, and the stale
\* buffer never makes the server answer it again.
AnswerPerRequest ==
    \A c \in Conns : conn[c] = "open" =>
        asks[c] = Len(out[c])
                  + Cardinality({n \in DOMAIN sent[c] : Asked(sent[c][n])})

\* Drivers that stay cannot kill the server: SIGPIPE takes one that has gone.
KilledByDeparture ==
    pc = "killed" => \E c \in Conns : conn[c] \in {"fin", "gone"}

\* msgrcv_nmb returns, whether or not there is mail, and whatever the others
\* do: with the reply, or because the server is gone.
RequestReturns == \A c \in Conns : c \in waiting ~> c \notin waiting
=============================================================================
