------------------------- MODULE ChatSessionProofs -------------------------
(***************************************************************************)
(* The chat server for any number of users, sessions and messages.  Its    *)
(* types need two facts that no single action shows: qnum is the number of *)
(* messages in the queue, so that a message taken leaves no count below 0, *)
(* and what a process holds fits where it is.  On these rest the proofs    *)
(* about who is shown online, about what a block promises, and about mail: *)
(* it reaches a client in the order in which it was accepted, and the      *)
(* processes implement MailService.                                        *)
(***************************************************************************)
EXTENDS ChatSession, FiniteSetTheorems, TLAPS

\* The places of the message queue that are taken.
InQueue == UNION {{<<t, n>> : n \in DOMAIN queue[t]} : t \in Types}

\* The kernel's count is the length of the queue.
QueueCounted == IsFiniteSet(InQueue) /\ Cardinality(InQueue) = qnum

\* Where handler, listener and client of a session may be at the same time: a
\* listener exists from the greeting on, holds a message exactly between
\* msgrcv and send, and a client that has asked to log out is leaving.
SessionControl(s) ==
    /\ hpc[s] = "none" => sock[s] = "none" /\ line[s] = << >>
    /\ hpc[s] \in {"none", "greet"} => lpc[s] = "none"
    /\ sock[s] = "none" => lpc[s] = "none" /\ hpc[s] \in {"none", "exited"}
    /\ lpc[s] \in {"check", "send"} <=> lmsg[s] # 0
    /\ hpc[s] = "msgsnd" => /\ hreq[s] \in Requests
                            /\ hreq[s].oper \in {1, 2}
                            /\ hreq[s].name # Unknown
    /\ \A n \in DOMAIN line[s] :
         line[s][n].oper = 6 => sock[s] \notin {"none", "open"}

\* Of the broadcaster, that it forwards a message it has.
Control ==
    /\ \A s \in Sessions : SessionControl(s)
    /\ bpc = "forward" => bmsg # 0

-----------------------------------------------------------------------------
\* More messages do no harm to a sequence of message numbers.
LEMMA SeqWidens ==
    ASSUME NEW S, NEW T, S \subseteq T, NEW q \in Seq(S)
    PROVE  q \in Seq(T)
    OBVIOUS

\* What is left when the first element is taken.
LEMMA TailFacts ==
    ASSUME NEW S, NEW q \in Seq(S), q # << >>
    PROVE  /\ Head(q) \in S /\ Head(q) = q[1] /\ 1 \in DOMAIN q
           /\ Tail(q) \in Seq(S) /\ Len(Tail(q)) = Len(q) - 1
           /\ DOMAIN Tail(q) = 1..(Len(q) - 1)
           /\ \A n \in DOMAIN Tail(q) : n + 1 \in DOMAIN q /\ Tail(q)[n] = q[n + 1]
    OBVIOUS

\* What an element adds.
LEMMA AppendFacts ==
    ASSUME NEW S, NEW q \in Seq(S), NEW x \in S
    PROVE  /\ Append(q, x) \in Seq(S) /\ Len(Append(q, x)) = Len(q) + 1
           /\ DOMAIN Append(q, x) = 1..(Len(q) + 1)
           /\ Append(q, x)[Len(q) + 1] = x
           /\ \A n \in DOMAIN q : n \in DOMAIN Append(q, x) /\ Append(q, x)[n] = q[n]
    OBVIOUS

\* Nobody is connected and the queue is empty.
LEMMA InitType == Init => TypeOK
<1> SUFFICES ASSUME Init PROVE TypeOK
    OBVIOUS
<1> USE SessionAssumption DEF Init, Users, Types, BroadcastType
<1>1. queue \in [Types -> Seq(1..Len(mail))] /\ inbox \in [Sessions -> Seq(1..Len(mail))]
    OBVIOUS
<1>2. line \in [Sessions -> Seq(Requests)]
    OBVIOUS
<1>3. mail \in Seq([from : Users, to : Types])
    OBVIOUS
<1> QED
    BY <1>1, <1>2, <1>3 DEF TypeOK

-----------------------------------------------------------------------------
(* Types, action by action.                                                *)

HandlerPCs == {"none", "greet", "loop", "msgsnd", "ack", "status", "exited", "dead"}
SockStates == {"none", "open", "leaving", "fin", "rst", "closed"}

\* A send leaves the socket in some state, and the handler somewhere.
LEMMA SendType ==
    ASSUME TypeOK, NEW s \in Sessions, NEW next \in HandlerPCs,
           HandlerSend(s, next)
    PROVE  hpc' \in [Sessions -> HandlerPCs] /\ sock' \in [Sessions -> SockStates]
    BY DEF HandlerSend, TypeOK, SockAfterSend, HandlerPCs, SockStates

\* What a handler takes from its connection is a request.
LEMMA TakeType ==
    ASSUME TypeOK, NEW s \in Sessions, NEW next \in HandlerPCs,
           TakeRequest(s, next)
    PROVE  /\ hpc' \in [Sessions -> HandlerPCs]
           /\ line' \in [Sessions -> Seq(Requests)]
           /\ Request(s) \in Requests
<1>1. line[s] \in Seq(Requests) /\ line[s] # << >>
    BY DEF TakeRequest, TypeOK
<1>2. Head(line[s]) \in Requests /\ Tail(line[s]) \in Seq(Requests)
    BY <1>1, TailFacts
<1> QED
    BY <1>2 DEF TakeRequest, TypeOK, Request, HandlerPCs

\* The client.
LEMMA ClientType ==
    ASSUME TypeOK, NEW s \in Sessions,
           Login(s) \/ Refuse(s) \/ Ask(s) \/ ClientClose(s)
    PROVE  TypeOK'
<1>1. CASE Login(s)
    BY <1>1 DEF Login, TypeOK, table, kernel, handlerVars, listenerVars, broadVars
<1>2. CASE Refuse(s)
    BY <1>2 DEF Refuse, TypeOK, table, kernel, handlerVars, listenerVars, broadVars
<1>3. CASE Ask(s)
    <2>1. PICK r \in May[s] : line' = [line EXCEPT ![s] = <<r>>]
        BY <1>3 DEF Ask
    <2>2. <<r>> \in Seq(Requests)
        BY SessionAssumption
    <2>3. line' \in [Sessions -> Seq(Requests)]
        BY <2>1, <2>2 DEF TypeOK
    <2>4. sock' \in [Sessions -> {"none", "open", "leaving", "fin", "rst", "closed"}]
        BY <1>3 DEF Ask, TypeOK
    <2> QED
        BY <1>3, <2>3, <2>4 DEF Ask, TypeOK, table, kernel, handlerVars, listenerVars, broadVars
<1>4. CASE ClientClose(s)
    BY <1>4 DEF ClientClose, TypeOK, table, kernel, handlerVars, listenerVars, broadVars
<1> QED
    BY <1>1, <1>2, <1>3, <1>4

\* The handler, but for msgsnd.
LEMMA HandlerType ==
    ASSUME TypeOK, NEW s \in Sessions,
           \/ Enter(s) \/ TakeMessage(s) \/ TakeUnaddressed(s)
           \/ Acknowledge(s) \/ TakeStatus(s) \/ ReportLine(s) \/ Block(s)
           \/ Unblock(s) \/ Crash(s) \/ Logout(s)
    PROVE  TypeOK'
<1> USE DEF table, kernel, handlerVars, listenerVars, broadVars
<1>0. Owner[s] \in Users /\ NumUsers \in Nat
    BY SessionAssumption
<1>a. ASSUME NEW next \in HandlerPCs, HandlerSend(s, next)
      PROVE  hpc' \in [Sessions -> HandlerPCs] /\ sock' \in [Sessions -> SockStates]
    BY <1>a, SendType
<1>b. ASSUME NEW next \in HandlerPCs, TakeRequest(s, next)
      PROVE  /\ hpc' \in [Sessions -> HandlerPCs]
             /\ line' \in [Sessions -> Seq(Requests)]
             /\ Request(s) \in Requests
    BY <1>b, TakeType
<1> USE DEF HandlerPCs
<1>1. CASE Enter(s)
    <2>1. hpc' \in [Sessions -> HandlerPCs] /\ sock' \in [Sessions -> SockStates]
        BY <1>1, <1>a DEF Enter
    <2> QED
        BY <1>0, <1>1, <2>1 DEF Enter, TypeOK, SockStates
<1>2. CASE TakeMessage(s)
    <2>1. /\ hpc' \in [Sessions -> HandlerPCs] /\ line' \in [Sessions -> Seq(Requests)]
          /\ Request(s) \in Requests
        BY <1>2, <1>b DEF TakeMessage
    <2>2. hreq' = [hreq EXCEPT ![s] = Request(s)]
        BY <1>2 DEF TakeMessage
    <2>3. hreq' \in [Sessions -> Requests \cup {Idle}]
        BY <2>1, <2>2 DEF TypeOK
    <2>4. UNCHANGED <<table, kernel, mail, hline, listenerVars, broadVars, sock,
                      inbox, mainUp, destroyed, late>>
        BY <1>2 DEF TakeMessage
    <2> QED
        BY <2>1, <2>3, <2>4 DEF TypeOK
<1>3. CASE TakeUnaddressed(s)
    <2>1. hpc' \in [Sessions -> HandlerPCs] /\ line' \in [Sessions -> Seq(Requests)]
        BY <1>3, <1>b DEF TakeUnaddressed
    <2> QED
        BY <1>3, <2>1 DEF TakeUnaddressed, TypeOK
<1>4. CASE Acknowledge(s)
    <2>1. hpc' \in [Sessions -> HandlerPCs] /\ sock' \in [Sessions -> SockStates]
        BY <1>4, <1>a DEF Acknowledge
    <2> QED
        BY <1>4, <2>1 DEF Acknowledge, TypeOK, SockStates
<1>5. CASE TakeStatus(s)
    <2>1. hpc' \in [Sessions -> HandlerPCs] /\ line' \in [Sessions -> Seq(Requests)]
        BY <1>5, <1>b DEF TakeStatus
    <2>2. /\ hline' \in [Sessions -> 0..(NumUsers + 2)]
          /\ UNCHANGED <<table, kernel, mail, hreq, listenerVars, broadVars,
                         sock, inbox, mainUp, destroyed, late>>
        BY <1>0, <1>5 DEF TakeStatus, TypeOK
    <2> QED
        BY <2>1, <2>2 DEF TypeOK
<1>6. CASE ReportLine(s)
    <2>1. hline' \in [Sessions -> 0..(NumUsers + 2)]
        <3>1. /\ hline[s] \in 0..(NumUsers + 2) /\ hline \in [Sessions -> 0..(NumUsers + 2)]
              /\ \A n \in 0..(NumUsers + 2) : [hline EXCEPT ![s] = n] \in [Sessions -> 0..(NumUsers + 2)]
            BY DEF TypeOK
        <3>2. \/ hline' = hline
              \/ \E n \in 0..(NumUsers + 2) : hline' = [hline EXCEPT ![s] = n]
            BY <1>0, <1>6, <3>1 DEF ReportLine
        <3> QED
            BY <3>1, <3>2
    <2>2. hpc' \in [Sessions -> HandlerPCs] /\ sock' \in [Sessions -> SockStates]
        BY <1>6, <1>a DEF ReportLine
    <2> QED
        BY <1>6, <2>1, <2>2 DEF ReportLine, TypeOK, SockStates
<1>7. CASE Block(s)
    <2>1. hpc' \in [Sessions -> HandlerPCs] /\ line' \in [Sessions -> Seq(Requests)]
        BY <1>7, <1>b DEF Block
    <2>2. blocked' \in [Users -> SUBSET Users]
        BY <1>0, <1>7 DEF Block, TypeOK
    <2>3. late' \in [Sessions -> SUBSET (1..Len(mail))]
        BY <1>7 DEF Block, TypeOK
    <2> QED
        BY <1>7, <2>1, <2>2, <2>3 DEF Block, TypeOK
<1>8. CASE Unblock(s)
    <2>1. hpc' \in [Sessions -> HandlerPCs] /\ line' \in [Sessions -> Seq(Requests)]
        BY <1>8, <1>b DEF Unblock
    <2>2. blocked' \in [Users -> SUBSET Users]
        BY <1>0, <1>8 DEF Unblock, TypeOK
    <2> QED
        BY <1>8, <2>1, <2>2 DEF Unblock, TypeOK
<1>9. CASE Crash(s)
    <2>1. hpc' \in [Sessions -> HandlerPCs] /\ line' \in [Sessions -> Seq(Requests)]
        BY <1>9, <1>b DEF Crash
    <2> QED
        BY <1>9, <2>1 DEF Crash, TypeOK
<1>10. CASE Logout(s)
    <2>1. hpc' \in [Sessions -> HandlerPCs] /\ line' \in [Sessions -> Seq(Requests)]
        BY <1>10, <1>b DEF Logout
    <2>2. destroyed' \subseteq (1..Len(mail)) \X Users
        BY <1>0, <1>10 DEF Logout, TypeOK
    <2>3. /\ online' \in [Users -> {0, 1}]
          /\ lmsg' \in [Sessions -> 0..Len(mail)]
          /\ lpc' = [lpc EXCEPT ![s] = "dead"]
          /\ sock' = [sock EXCEPT ![s] = "closed"]
          /\ UNCHANGED <<blocked, kernel, mail, hreq, hline, broadVars, inbox,
                         mainUp, late>>
        BY <1>0, <1>10 DEF Logout, TypeOK
    <2> QED
        BY <2>1, <2>2, <2>3 DEF TypeOK
<1> QED
    BY <1>1, <1>2, <1>3, <1>4, <1>5, <1>6, <1>7, <1>8, <1>9, <1>10

\* The listener, but for msgrcv.
LEMMA ListenerType ==
    ASSUME TypeOK, Control, NEW s \in Sessions,
           Poll(s) \/ Orphaned(s) \/ Pass(s) \/ Discard(s) \/ Forward(s)
    PROVE  TypeOK'
<1> USE DEF table, kernel, handlerVars, listenerVars, broadVars
<1>0. Owner[s] \in Users
    BY SessionAssumption
<1>1. CASE Poll(s)
    BY <1>1 DEF Poll, TypeOK
<1>2. CASE Orphaned(s)
    BY <1>0, <1>2 DEF Orphaned, TypeOK
<1>3. CASE Pass(s)
    BY <1>3 DEF Pass, TypeOK
<1>4. CASE Discard(s)
    <2>1. lmsg[s] \in 1..Len(mail)
        BY <1>4 DEF Discard, TypeOK, Control, SessionControl
    <2>2. destroyed' \subseteq (1..Len(mail)) \X Users
        BY <1>0, <1>4, <2>1 DEF Discard, TypeOK
    <2>3. /\ lmsg' \in [Sessions -> 0..Len(mail)]
          /\ lpc' = [lpc EXCEPT ![s] = "poll"]
          /\ UNCHANGED <<table, kernel, mail, handlerVars, broadVars, sock, line,
                         inbox, mainUp, late>>
        BY <1>4 DEF Discard, TypeOK
    <2> QED
        BY <2>2, <2>3 DEF TypeOK
<1>5. CASE Forward(s)
    <2>1. lmsg[s] \in 1..Len(mail)
        BY <1>5 DEF Forward, TypeOK, Control, SessionControl
    <2>2. inbox[s] \in Seq(1..Len(mail))
        BY DEF TypeOK
    <2>3. Append(inbox[s], lmsg[s]) \in Seq(1..Len(mail))
        BY <2>1, <2>2, AppendFacts
    <2>4. inbox' \in [Sessions -> Seq(1..Len(mail))]
        BY <1>5, <2>3 DEF Forward, TypeOK
    <2>5. sock' \in [Sessions -> SockStates]
        BY <1>5 DEF Forward, TypeOK, SockAfterSend, SockStates
    <2>6. destroyed' \subseteq (1..Len(mail)) \X Users
        BY <1>0, <1>5, <2>1 DEF Forward, TypeOK
    <2>9. late' \in [Sessions -> SUBSET (1..Len(mail))]
        <3>1. late' = late \/ late' = [late EXCEPT ![s] = @ \cup {lmsg[s]}]
            BY <1>5 DEF Forward, TypeOK
        <3>2. late[s] \cup {lmsg[s]} \in SUBSET (1..Len(mail))
            BY <2>1 DEF TypeOK
        <3> QED
            BY <3>1, <3>2 DEF TypeOK
    <2>8. lmsg' \in [Sessions -> 0..Len(mail)]
        BY <1>5 DEF Forward, TypeOK
    <2>7. /\ lpc' = [lpc EXCEPT ![s] = IF Broken(s) THEN "dead" ELSE "poll"]
          /\ UNCHANGED <<table, kernel, mail, handlerVars, broadVars, line, mainUp>>
        BY <1>5 DEF Forward
    <2> QED
        BY <2>4, <2>5, <2>6, <2>7, <2>8, <2>9 DEF TypeOK, SockStates
<1> QED
    BY <1>1, <1>2, <1>3, <1>4, <1>5

-----------------------------------------------------------------------------
(* The queue and its count.                                                *)

\* The queue of a type is finite.
LEMMA QueueFinite ==
    ASSUME TypeOK, NEW t \in Types
    PROVE  queue[t] \in Seq(1..Len(mail)) /\ DOMAIN queue[t] = 1..Len(queue[t])
    BY DEF TypeOK

\* msgsnd adds one place to the queue.
LEMMA SndCounted ==
    ASSUME TypeOK, QueueCounted, NEW t \in Types, NEW i, MsgSnd(t, i)
    PROVE  QueueCounted' /\ qnum' \in 0..QueueCap
<1> DEFINE n == Len(queue[t])
<1>1. queue[t] \in Seq(1..Len(mail)) /\ n \in Nat /\ DOMAIN queue[t] = 1..n
    BY QueueFinite
<1>2. queue' = [queue EXCEPT ![t] = Append(@, i)] /\ DOMAIN queue = Types
    BY DEF MsgSnd, TypeOK
<1>3. DOMAIN queue'[t] = (1..n) \cup {n + 1}
    BY <1>1, <1>2
<1>4. \A u \in Types : u # t => queue'[u] = queue[u]
    BY <1>2
<1> HIDE DEF n
<1>5. InQueue' = InQueue \cup {<<t, n + 1>>}
    BY <1>1, <1>3, <1>4, Z3 DEF InQueue
<1>6. <<t, n + 1>> \notin InQueue
    BY <1>1 DEF InQueue
<1>7. qnum' = qnum + 1 /\ qnum \in 0..QueueCap /\ qnum < QueueCap
    BY DEF MsgSnd, Room, TypeOK
<1>8. IsFiniteSet(InQueue') /\ Cardinality(InQueue') = Cardinality(InQueue) + 1
    BY <1>5, <1>6, FS_AddElement DEF QueueCounted
<1> QED
    BY <1>7, <1>8, SessionAssumption DEF QueueCounted

\* msgrcv takes one away, so that the count is above 0 before.
LEMMA RcvCounted ==
    ASSUME TypeOK, QueueCounted, NEW t \in Types, MsgRcv(t)
    PROVE  /\ QueueCounted' /\ qnum' \in 0..QueueCap
           /\ queue' \in [Types -> Seq(1..Len(mail))]
           /\ Head(queue[t]) \in 1..Len(mail)
<1> DEFINE n == Len(queue[t])
           S == 1..Len(mail)
<1>1. queue[t] \in Seq(S) /\ queue[t] # << >>
    BY QueueFinite DEF MsgRcv
<1>2. /\ n \in Nat \ {0} /\ DOMAIN queue[t] = 1..n
      /\ Tail(queue[t]) \in Seq(S) /\ DOMAIN Tail(queue[t]) = 1..(n - 1)
      /\ Head(queue[t]) \in S
    <2> HIDE DEF S
    <2> QED BY <1>1, TailFacts
<1>3. queue' = [queue EXCEPT ![t] = Tail(@)] /\ queue \in [Types -> Seq(S)]
    BY DEF MsgRcv, TypeOK
<1>4. \A u \in Types : u # t => queue'[u] = queue[u]
    BY <1>3
<1>5. DOMAIN queue'[t] = (1..n) \ {n}
    BY <1>2, <1>3
<1>10. queue' \in [Types -> Seq(S)]
    BY <1>2, <1>3
<1> HIDE DEF n
<1>6. InQueue' = InQueue \ {<<t, n>>}
    <2>1. \A u \in Types : DOMAIN queue'[u] =
              IF u = t THEN (DOMAIN queue[t]) \ {n} ELSE DOMAIN queue[u]
        BY <1>2, <1>4, <1>5
    <2>2. ASSUME NEW u \in Types, NEW k
          PROVE  k \in DOMAIN queue'[u] <=>
                     k \in DOMAIN queue[u] /\ <<u, k>> # <<t, n>>
        BY <2>1
    <2> QED
        BY <2>2 DEF InQueue
<1>7. <<t, n>> \in InQueue
    BY <1>2 DEF InQueue
<1>8. qnum' = qnum - 1 /\ qnum \in 0..QueueCap
    BY DEF MsgRcv, TypeOK
<1>9. /\ IsFiniteSet(InQueue') /\ Cardinality(InQueue') = Cardinality(InQueue) - 1
      /\ Cardinality(InQueue') \in Nat
    BY <1>6, <1>7, FS_RemoveElement, FS_CardinalityType DEF QueueCounted
<1> QED
    BY <1>2, <1>8, <1>9, <1>10, SessionAssumption DEF QueueCounted

\* Handler, listener and broadcaster at the queue.
LEMMA PostType ==
    ASSUME TypeOK, Control, QueueCounted, NEW s \in Sessions, Post(s)
    PROVE  TypeOK' /\ QueueCounted'
<1> DEFINE r == hreq[s]
           t == TypeOf(r)
           N == Len(mail)
<1>1. r \in Requests /\ r.oper \in {1, 2} /\ r.name # Unknown
    BY DEF Post, Control, SessionControl
<1>2. t \in Types
    BY <1>1 DEF Requests, TypeOf, Types
<1>3. Owner[s] \in Users /\ N \in Nat /\ mail \in Seq([from : Users, to : Types])
    BY SessionAssumption DEF TypeOK
<1>4. [from |-> Owner[s], to |-> t] \in [from : Users, to : Types]
    BY <1>2, <1>3
<1>5. mail' = Append(mail, [from |-> Owner[s], to |-> t])
    BY DEF Post
<1>6. mail' \in Seq([from : Users, to : Types]) /\ Len(mail') = N + 1
    BY <1>3, <1>4, <1>5, AppendFacts
<1>7. MsgSnd(t, N + 1)
    BY <1>6 DEF Post
<1>8. QueueCounted' /\ qnum' \in 0..QueueCap
    BY <1>2, <1>7, SndCounted
<1>9. \A q \in Seq(1..N) : q \in Seq(1..(N + 1)) /\ Append(q, N + 1) \in Seq(1..(N + 1))
    BY <1>3
<1>10. queue' \in [Types -> Seq(1..(N + 1))]
    BY <1>2, <1>7, <1>9 DEF MsgSnd, TypeOK
<1>11. inbox' \in [Sessions -> Seq(1..(N + 1))]
    BY <1>9 DEF Post, TypeOK
<1>12. /\ lmsg' \in [Sessions -> 0..(N + 1)] /\ bmsg' \in 0..(N + 1)
       /\ destroyed' \subseteq (1..(N + 1)) \X Users
       /\ late' \in [Sessions -> SUBSET (1..(N + 1))]
    <2>1. UNCHANGED <<lmsg, bmsg, destroyed, late>>
        BY DEF Post, listenerVars, broadVars
    <2>2. lmsg' \in [Sessions -> 0..(N + 1)] /\ bmsg' \in 0..(N + 1)
        BY <1>3, <2>1 DEF TypeOK
    <2>3. destroyed' \subseteq (1..(N + 1)) \X Users
        BY <1>3, <2>1 DEF TypeOK
    <2>4. late' \in [Sessions -> SUBSET (1..(N + 1))]
        BY <1>3, <2>1 DEF TypeOK
    <2> QED
        BY <2>2, <2>3, <2>4
<1>13. /\ hpc' \in [Sessions -> HandlerPCs] /\ hreq' \in [Sessions -> Requests \cup {Idle}]
    BY DEF Post, TypeOK, HandlerPCs
<1>14. UNCHANGED <<table, hline, lpc, bpc, bpos, sock, line, mainUp>>
    BY DEF Post, listenerVars, broadVars
<1> HIDE DEF t, N, r
<1> QED
    BY <1>6, <1>8, <1>10, <1>11, <1>12, <1>13, <1>14
    DEF TypeOK, HandlerPCs, table

\* msgrcv of a listener.
LEMMA ReceiveType ==
    ASSUME TypeOK, QueueCounted, NEW s \in Sessions, Receive(s)
    PROVE  TypeOK' /\ QueueCounted'
<1>1. Owner[s] \in Types
    BY SessionAssumption DEF Types
<1>2. MsgRcv(Owner[s])
    BY DEF Receive
<1>3. /\ QueueCounted' /\ qnum' \in 0..QueueCap
      /\ queue' \in [Types -> Seq(1..Len(mail))]
      /\ Head(queue[Owner[s]]) \in 1..Len(mail)
    BY <1>1, <1>2, RcvCounted
<1>4. lmsg' \in [Sessions -> 0..Len(mail)]
    <2>1. lmsg' = [lmsg EXCEPT ![s] = Head(queue[Owner[s]])]
        BY DEF Receive
    <2>2. Len(mail) \in Nat /\ lmsg \in [Sessions -> 0..Len(mail)]
        BY DEF TypeOK
    <2>3. Head(queue[Owner[s]]) \in 0..Len(mail)
        BY <1>3, <2>2
    <2> QED
        BY <2>1, <2>2, <2>3
<1>5. /\ lpc' = [lpc EXCEPT ![s] = "check"]
      /\ UNCHANGED <<table, mail, handlerVars, broadVars, sock, line, inbox,
                     mainUp, destroyed, late>>
    BY DEF Receive
<1> QED
    BY <1>3, <1>4, <1>5 DEF TypeOK, table, handlerVars, broadVars

\* Every step of the broadcaster.
LEMMA BroadcasterType ==
    ASSUME TypeOK, Control, QueueCounted, BroadcasterStep
    PROVE  TypeOK' /\ QueueCounted'
<1> USE DEF table, kernel, handlerVars, listenerVars, broadVars
<1>1. CASE BroadcasterPoll
    BY <1>1 DEF BroadcasterPoll, TypeOK, QueueCounted, InQueue
<1>2. CASE BroadcasterReceive
    <2>1. BroadcastType \in Types /\ MsgRcv(BroadcastType)
        BY <1>2 DEF Types, BroadcasterReceive
    <2>2. /\ QueueCounted' /\ qnum' \in 0..QueueCap
          /\ queue' \in [Types -> Seq(1..Len(mail))]
          /\ Head(queue[BroadcastType]) \in 1..Len(mail)
        BY <2>1, RcvCounted
    <2>3. bmsg' \in 0..Len(mail) /\ bpos' \in 2..(NumUsers + 2) /\ bpc' = "forward"
        BY <1>2, <2>2, SessionAssumption DEF BroadcasterReceive
    <2>4. UNCHANGED <<table, mail, handlerVars, listenerVars, sock, line, inbox,
                      mainUp, destroyed, late>>
        BY <1>2 DEF BroadcasterReceive
    <2> QED
        BY <2>2, <2>3, <2>4 DEF TypeOK
<1>3. CASE BroadcasterForward
    <2>1. bpos \in Types /\ bpos' \in 2..(NumUsers + 2)
        BY <1>3, SessionAssumption DEF BroadcasterForward, Types, Users
    <2>2. bmsg \in 1..Len(mail)
        BY <1>3 DEF BroadcasterForward, Control, TypeOK
    <2>3. UNCHANGED <<table, mail, handlerVars, listenerVars, bpc, bmsg, sock,
                      line, inbox, mainUp, destroyed, late>>
        BY <1>3 DEF BroadcasterForward
    <2>4. CASE UNCHANGED kernel
        BY <2>1, <2>3, <2>4 DEF TypeOK, QueueCounted, InQueue
    <2>5. CASE MsgSnd(bpos, bmsg)
        <3>1. QueueCounted' /\ qnum' \in 0..QueueCap
            BY <2>1, <2>5, SndCounted
        <3>2. queue[bpos] \in Seq(1..Len(mail))
            BY <2>1, QueueFinite
        <3>3. Append(queue[bpos], bmsg) \in Seq(1..Len(mail))
            BY <2>2, <3>2, AppendFacts
        <3>4. queue' \in [Types -> Seq(1..Len(mail))]
            BY <2>5, <3>3 DEF MsgSnd, TypeOK
        <3> QED
            BY <2>1, <2>3, <3>1, <3>4 DEF TypeOK
    <2> QED
        BY <1>3, <2>4, <2>5 DEF BroadcasterForward
<1>4. CASE BroadcasterDone
    BY <1>4 DEF BroadcasterDone, TypeOK, QueueCounted, InQueue
<1> QED
    BY <1>1, <1>2, <1>3, <1>4 DEF BroadcasterStep

-----------------------------------------------------------------------------
(* The processes of a session.                                             *)

\* The other sessions are left alone.
Outside(s) == \A t \in Sessions : t # s =>
    UNCHANGED <<hpc[t], hreq[t], lpc[t], lmsg[t], sock[t], line[t]>>

\* So it is enough to look at the session that moves.
LEMMA OthersControlled ==
    ASSUME Control, NEW s \in Sessions, Outside(s), SessionControl(s)',
           UNCHANGED broadVars
    PROVE  Control'
    BY DEF Control, SessionControl, Outside, broadVars

\* The client moves.
LEMMA ClientControl ==
    ASSUME TypeOK, Control, NEW s \in Sessions,
           Login(s) \/ Refuse(s) \/ Ask(s) \/ ClientClose(s)
    PROVE  Outside(s) /\ SessionControl(s)' /\ UNCHANGED broadVars
<1> USE DEF handlerVars, listenerVars, Control, SessionControl, Outside, TypeOK
<1>1. CASE Login(s)
    BY <1>1 DEF Login
<1>2. CASE Refuse(s)
    BY <1>2 DEF Refuse
<1>3. CASE Ask(s)
    BY <1>3 DEF Ask
<1>4. CASE ClientClose(s)
    BY <1>4 DEF ClientClose
<1> QED
    BY <1>1, <1>2, <1>3, <1>4

\* The handler takes a request: it is the first, and the others move up.
LEMMA TakeFacts ==
    ASSUME TypeOK, NEW s \in Sessions, NEW next, TakeRequest(s, next)
    PROVE  /\ hpc[s] = "loop" /\ hpc'[s] = next
           /\ \A t \in Sessions : t # s => hpc'[t] = hpc[t] /\ line'[t] = line[t]
           /\ Request(s) = line[s][1] /\ 1 \in DOMAIN line[s]
           /\ \A n \in DOMAIN line'[s] :
                n + 1 \in DOMAIN line[s] /\ line'[s][n] = line[s][n + 1]
<1>1. line[s] \in Seq(Requests) /\ line[s] # << >>
    BY DEF TakeRequest, TypeOK
<1>2. line'[s] = Tail(line[s]) /\ \A t \in Sessions : t # s => line'[t] = line[t]
    BY DEF TakeRequest, TypeOK
<1>3. /\ Head(line[s]) = line[s][1] /\ 1 \in DOMAIN line[s]
      /\ \A n \in DOMAIN Tail(line[s]) :
           n + 1 \in DOMAIN line[s] /\ Tail(line[s])[n] = line[s][n + 1]
    BY <1>1, TailFacts
<1>4. /\ hpc[s] = "loop" /\ hpc'[s] = next
      /\ \A t \in Sessions : t # s => hpc'[t] = hpc[t]
    BY DEF TakeRequest, TypeOK
<1> QED
    BY <1>2, <1>3, <1>4 DEF Request

\* Then the session is where its request sends it.
LEMMA TakeControl ==
    ASSUME TypeOK, Control, NEW s \in Sessions,
           NEW next \in {"msgsnd", "ack", "status", "loop", "dead"},
           TakeRequest(s, next), UNCHANGED <<lpc, lmsg, sock>>,
           \A t \in Sessions : t # s => hreq'[t] = hreq[t],
           next = "msgsnd" => /\ hreq'[s] \in Requests
                              /\ hreq'[s].oper \in {1, 2}
                              /\ hreq'[s].name # Unknown
    PROVE  Outside(s) /\ SessionControl(s)'
<1>1. Outside(s)
    BY TakeFacts DEF Outside
<1>2. SessionControl(s) /\ hpc[s] = "loop" /\ hpc'[s] = next
    BY TakeFacts DEF Control
<1>3. \A n \in DOMAIN line'[s] : line'[s][n].oper = 6 => sock[s] \notin {"none", "open"}
    BY <1>2, TakeFacts DEF SessionControl
<1> QED
    BY <1>1, <1>2, <1>3 DEF SessionControl

\* The handler sends, on a connection that the client may have left.
LEMMA SendControl ==
    ASSUME TypeOK, Control, NEW s \in Sessions, NEW next \in {"loop", "status"},
           hpc[s] \in {"greet", "ack", "status"}, HandlerSend(s, next),
           UNCHANGED <<hreq, lmsg, line>>,
           \/ UNCHANGED lpc
           \/ lpc[s] = "none" /\ \E p \in {"none", "poll"} : lpc' = [lpc EXCEPT ![s] = p]
    PROVE  Outside(s) /\ SessionControl(s)'
<1>1. hpc'[s] \in {"dead", next} /\ \A t \in Sessions : t # s => hpc'[t] = hpc[t]
    BY DEF HandlerSend, TypeOK
<1>2. \A t \in Sessions : t # s => sock'[t] = sock[t]
    BY DEF HandlerSend, TypeOK
<1>3. sock'[s] = sock[s] \/ sock'[s] \in {"fin", "rst"}
    BY DEF HandlerSend, TypeOK, SockAfterSend
<1>6. /\ lpc'[s] = lpc[s] \/ (lpc[s] = "none" /\ lpc'[s] \in {"none", "poll"})
      /\ \A t \in Sessions : t # s => lpc'[t] = lpc[t]
    BY DEF TypeOK
<1>4. Outside(s)
    BY <1>1, <1>2, <1>6 DEF Outside
<1>5. SessionControl(s)
    BY DEF Control
<1> QED
    BY <1>1, <1>3, <1>4, <1>5, <1>6 DEF SessionControl

\* Every step of the handler.
LEMMA HandlerControl ==
    ASSUME TypeOK, Control, NEW s \in Sessions, HandlerStep(s)
    PROVE  Outside(s) /\ SessionControl(s)' /\ UNCHANGED broadVars
<1> USE DEF handlerVars, listenerVars
<1>1. CASE Enter(s)
    <2>1. /\ hpc[s] = "greet" /\ HandlerSend(s, "loop")
          /\ lpc' = [lpc EXCEPT ![s] = IF Broken(s) THEN "none" ELSE "poll"]
          /\ UNCHANGED <<hreq, lmsg, line, broadVars>>
        BY <1>1 DEF Enter
    <2>2. lpc[s] = "none"
        BY <2>1 DEF Control, SessionControl
    <2> QED
        BY <2>1, <2>2, SendControl
<1>2. CASE TakeMessage(s)
    <2>1. /\ TakeRequest(s, "msgsnd")
          /\ Request(s).oper \in {1, 2} /\ Request(s).name # Unknown
          /\ hreq' = [hreq EXCEPT ![s] = Request(s)]
          /\ UNCHANGED <<lpc, lmsg, sock, broadVars>>
        BY <1>2 DEF TakeMessage
    <2>2. Request(s) \in Requests
        BY <2>1, TakeType DEF HandlerPCs
    <2>3. /\ hreq'[s] = Request(s)
          /\ \A t \in Sessions : t # s => hreq'[t] = hreq[t]
        BY <2>1 DEF TypeOK
    <2> QED
        BY <2>1, <2>2, <2>3, TakeControl
<1>3. CASE TakeUnaddressed(s)
    BY <1>3, TakeControl DEF TakeUnaddressed
<1>4. CASE Acknowledge(s)
    <2>1. /\ hpc[s] = "ack" /\ HandlerSend(s, "loop")
          /\ UNCHANGED <<hreq, lpc, lmsg, line, broadVars>>
        BY <1>4 DEF Acknowledge
    <2> QED
        BY <2>1, SendControl
<1>5. CASE TakeStatus(s)
    BY <1>5, TakeControl DEF TakeStatus
<1>6. CASE ReportLine(s)
    <2>1. /\ hpc[s] = "status" /\ UNCHANGED <<hreq, lpc, lmsg, line, broadVars>>
          /\ HandlerSend(s, "status") \/ HandlerSend(s, "loop")
        BY <1>6 DEF ReportLine
    <2> QED
        BY <2>1, SendControl
<1>7. CASE Block(s)
    BY <1>7, TakeControl DEF Block
<1>8. CASE Unblock(s)
    BY <1>8, TakeControl DEF Unblock
<1>9. CASE Crash(s)
    BY <1>9, TakeControl DEF Crash
<1>10. CASE Logout(s)
    <2>1. /\ TakeRequest(s, "exited")
          /\ lpc' = [lpc EXCEPT ![s] = "dead"] /\ lmsg' = [lmsg EXCEPT ![s] = 0]
          /\ sock' = [sock EXCEPT ![s] = "closed"]
          /\ UNCHANGED <<hreq, broadVars>>
        BY <1>10 DEF Logout
    <2>2. /\ lpc'[s] = "dead" /\ lmsg'[s] = 0 /\ sock'[s] = "closed"
          /\ \A t \in Sessions : t # s =>
               lpc'[t] = lpc[t] /\ lmsg'[t] = lmsg[t] /\ sock'[t] = sock[t]
        BY <2>1 DEF TypeOK
    <2>3. /\ hpc'[s] = "exited"
          /\ \A t \in Sessions : t # s => hpc'[t] = hpc[t] /\ line'[t] = line[t]
        BY <2>1, TakeFacts
    <2> QED
        BY <2>1, <2>2, <2>3 DEF Outside, SessionControl
<1>11. CASE Post(s)
    BY <1>11 DEF Post, Control, SessionControl, Outside, TypeOK
<1> QED
    BY <1>1, <1>2, <1>3, <1>4, <1>5, <1>6, <1>7, <1>8, <1>9, <1>10, <1>11 DEF HandlerStep

\* Every step of the listener.  It needs the numbers of messages in the queue,
\* which are not 0.
LEMMA ListenerControl ==
    ASSUME TypeOK, Control, QueueCounted, NEW s \in Sessions, ListenerStep(s)
    PROVE  Outside(s) /\ SessionControl(s)' /\ UNCHANGED broadVars
<1> USE DEF handlerVars, listenerVars, Control, SessionControl, Outside, TypeOK
<1>1. CASE Poll(s)
    BY <1>1 DEF Poll
<1>2. CASE Orphaned(s)
    BY <1>2 DEF Orphaned
<1>3. CASE Pass(s)
    BY <1>3 DEF Pass
<1>4. CASE Discard(s)
    BY <1>4 DEF Discard
<1>5. CASE Forward(s)
    BY <1>5 DEF Forward, SockAfterSend
<1>6. CASE Receive(s)
    <2>1. lmsg' = [lmsg EXCEPT ![s] = Head(queue[Owner[s]])]
        BY <1>6 DEF Receive
    <2>2. Head(queue[Owner[s]]) # 0
        <3>1. Owner[s] \in Types /\ MsgRcv(Owner[s])
            BY <1>6, SessionAssumption DEF Receive, Types
        <3>2. Len(mail) \in Nat
            BY DEF TypeOK
        <3>3. Head(queue[Owner[s]]) \in 1..Len(mail)
            BY <3>1, RcvCounted
        <3> QED
            BY <3>2, <3>3
    <2>3. lmsg'[s] # 0 /\ \A t \in Sessions : t # s => lmsg'[t] = lmsg[t]
        BY <2>1, <2>2
    <2>4. /\ lpc[s] = "msgrcv" /\ lpc' = [lpc EXCEPT ![s] = "check"]
          /\ UNCHANGED <<hpc, hreq, sock, line, broadVars>>
        BY <1>6 DEF Receive
    <2> QED
        BY <2>3, <2>4
<1> QED
    BY <1>1, <1>2, <1>3, <1>4, <1>5, <1>6 DEF ListenerStep

-----------------------------------------------------------------------------
(* The invariant is inductive.                                             *)

\* It holds when the server starts.
LEMMA InitCInv == Init => TypeOK /\ Control /\ QueueCounted
<1> SUFFICES ASSUME Init PROVE Control /\ QueueCounted
    BY InitType
<1>1. Control
    BY DEF Init, Control, SessionControl
<1>2. InQueue = {}
    BY DEF Init, InQueue
<1> QED
    BY <1>1, <1>2, FS_EmptySet DEF QueueCounted, Init

\* And every step keeps it.
LEMMA StepCInv ==
    TypeOK /\ Control /\ QueueCounted /\ [Next]_vars
        => TypeOK' /\ Control' /\ QueueCounted'
<1> SUFFICES ASSUME TypeOK, Control, QueueCounted, [Next]_vars
             PROVE  TypeOK' /\ Control' /\ QueueCounted'
    OBVIOUS
<1>0. ASSUME UNCHANGED kernel
      PROVE  QueueCounted'
    BY <1>0 DEF kernel, QueueCounted, InQueue
<1>1. ASSUME NEW s \in Sessions,
             Login(s) \/ Refuse(s) \/ Ask(s) \/ ClientClose(s)
      PROVE  TypeOK' /\ Control' /\ QueueCounted'
    <2>1. UNCHANGED kernel
        BY <1>1 DEF Login, Refuse, Ask, ClientClose
    <2> QED
        BY <1>0, <1>1, <2>1, ClientType, ClientControl, OthersControlled
<1>2. ASSUME NEW s \in Sessions, HandlerStep(s)
      PROVE  TypeOK' /\ Control' /\ QueueCounted'
    <2>1. Control'
        BY <1>2, HandlerControl, OthersControlled
    <2>2. CASE Post(s)
        BY <2>1, <2>2, PostType
    <2>3. CASE ~Post(s)
        <3>1. TypeOK'
            BY <1>2, <2>3, HandlerType DEF HandlerStep
        <3>2. UNCHANGED kernel
            BY <1>2, <2>3 DEF HandlerStep, Enter, TakeMessage, TakeUnaddressed,
                Acknowledge, TakeStatus, ReportLine, Block, Unblock, Crash, Logout
        <3> QED
            BY <1>0, <2>1, <3>1, <3>2
    <2> QED
        BY <2>2, <2>3
<1>3. ASSUME NEW s \in Sessions, ListenerStep(s)
      PROVE  TypeOK' /\ Control' /\ QueueCounted'
    <2>1. Control'
        BY <1>3, ListenerControl, OthersControlled
    <2>2. CASE Receive(s)
        BY <2>1, <2>2, ReceiveType
    <2>3. CASE ~Receive(s)
        <3>1. TypeOK'
            BY <1>3, <2>3, ListenerType DEF ListenerStep
        <3>2. UNCHANGED kernel
            BY <1>3, <2>3 DEF ListenerStep, Poll, Orphaned, Pass, Discard, Forward
        <3> QED
            BY <1>0, <2>1, <3>1, <3>2
    <2> QED
        BY <2>2, <2>3
<1>4. CASE BroadcasterStep
    <2>1. \A s \in Sessions : SessionControl(s)'
        BY <1>4 DEF BroadcasterStep, BroadcasterPoll, BroadcasterReceive,
            BroadcasterForward, BroadcasterDone, handlerVars, listenerVars,
            Control, SessionControl
    <2>2. TypeOK' /\ QueueCounted'
        BY <1>4, BroadcasterType
    <2>3. bpc' = "forward" => bmsg' # 0
        <3>1. CASE BroadcasterReceive
            <4>1. Head(queue[BroadcastType]) \in 1..Len(mail) /\ Len(mail) \in Nat
                <5>1. queue[BroadcastType] # << >> /\ BroadcastType \in Types
                    BY <3>1 DEF BroadcasterReceive, MsgRcv, Types
                <5>2. queue[BroadcastType] \in Seq(1..Len(mail)) /\ Len(mail) \in Nat
                    BY <5>1 DEF TypeOK
                <5> QED
                    BY <5>1, <5>2
            <4> QED
                BY <3>1, <4>1 DEF BroadcasterReceive
        <3>2. CASE ~BroadcasterReceive
            BY <1>4, <3>2 DEF BroadcasterStep, BroadcasterPoll,
                BroadcasterForward, BroadcasterDone, Control
        <3> QED
            BY <3>1, <3>2
    <2> QED
        BY <2>1, <2>2, <2>3 DEF Control
<1>5. CASE MainExits
    BY <1>0, <1>5 DEF MainExits, TypeOK, Control, SessionControl, table, kernel,
        handlerVars, listenerVars, broadVars
<1>6. CASE UNCHANGED vars
    BY <1>0, <1>6 DEF vars, TypeOK, Control, SessionControl, table, kernel,
        handlerVars, listenerVars, broadVars
<1> QED
    BY <1>1, <1>2, <1>3, <1>4, <1>5, <1>6 DEF Next

\* The state of the server stays what it is declared as: above all qnum, which
\* msgsnd raises and msgrcv lowers from several processes, stays between 0 and
\* the capacity, and every message that a process holds was accepted before.
THEOREM TypeCorrect == Spec => []TypeOK
    BY InitCInv, StepCInv, PTL DEF Spec

-----------------------------------------------------------------------------
(* Who is marked online.                                                   *)

\* The handler is past the greeting and serves requests.
Serving == {"loop", "msgsnd", "ack", "status"}

\* The two properties of online_status are inductive together: the handler
\* that greets sets it, the one that logs out takes it back, and a listener
\* takes it back for a handler that has died.
LEMMA StepOnline ==
    TypeOK /\ OnlineHasSession /\ ServedShowsOnline /\ [Next]_vars
        => OnlineHasSession' /\ ServedShowsOnline'
<1> SUFFICES ASSUME TypeOK, OnlineHasSession, ServedShowsOnline, [Next]_vars
             PROVE  OnlineHasSession' /\ ServedShowsOnline'
    OBVIOUS
\* Most steps leave the status alone, and no handler behind.
<1>1. ASSUME UNCHANGED online,
             \A s \in Sessions : /\ hpc[s] \notin {"none", "greet", "exited"}
                                      => hpc'[s] \notin {"none", "greet", "exited"}
                                 /\ hpc'[s] \in Serving => hpc[s] \in Serving
      PROVE  OnlineHasSession' /\ ServedShowsOnline'
    BY <1>1 DEF OnlineHasSession, ServedShowsOnline, Of, Serving
<1>2. ASSUME NEW s \in Sessions, Enter(s)
      PROVE  OnlineHasSession' /\ ServedShowsOnline'
    <2>1. /\ online' = [online EXCEPT ![Owner[s]] = 1]
          /\ hpc'[s] \in {"dead", "loop"}
          /\ \A t \in Sessions : t # s => hpc'[t] = hpc[t]
        BY <1>2 DEF Enter, HandlerSend, TypeOK
    <2>2. online'[Owner[s]] = 1 /\ \A u \in Users : u # Owner[s] => online'[u] = online[u]
        BY <2>1, SessionAssumption DEF TypeOK
    <2>3. OnlineHasSession'
        BY <2>1, <2>2 DEF OnlineHasSession, Of
    <2>4. ServedShowsOnline'
        BY <2>1, <2>2, SessionAssumption DEF ServedShowsOnline, Of
    <2> QED
        BY <2>3, <2>4
<1>3. ASSUME NEW s \in Sessions, Logout(s)
      PROVE  OnlineHasSession' /\ ServedShowsOnline'
    <2>1. online' = [online EXCEPT ![Owner[s]] = 0] /\ TakeRequest(s, "exited")
        BY <1>3 DEF Logout
    <2>2. hpc'[s] = "exited" /\ \A t \in Sessions : t # s => hpc'[t] = hpc[t]
        BY <2>1, TakeFacts
    <2>3. online'[Owner[s]] = 0 /\ \A u \in Users : u # Owner[s] => online'[u] = online[u]
        BY <2>1, SessionAssumption DEF TypeOK
    <2>4. OnlineHasSession'
        BY <2>2, <2>3 DEF OnlineHasSession, Of
    <2>5. ServedShowsOnline'
        <3>1. ASSUME NEW t \in Sessions, Of[Owner[t]] = {t},
                     hpc'[t] \in {"loop", "msgsnd", "ack", "status"}
              PROVE  online'[Owner[t]] = 1
            <4>1. t # s /\ hpc'[t] = hpc[t]
                BY <2>2, <3>1
            <4>2. Owner[t] \in Users /\ online[Owner[t]] = 1
                BY <3>1, <4>1, SessionAssumption DEF ServedShowsOnline
            <4>3. Owner[t] # Owner[s]
                <5>1. s \in Of[Owner[s]] /\ Owner[s] \in Users
                    BY SessionAssumption DEF Of
                <5> QED
                    BY <3>1, <4>1, <5>1
            <4> QED
                BY <2>3, <4>2, <4>3
        <3> QED
            BY <3>1 DEF ServedShowsOnline
    <2> QED
        BY <2>4, <2>5
<1>4. ASSUME NEW s \in Sessions, Orphaned(s)
      PROVE  OnlineHasSession' /\ ServedShowsOnline'
    <2>1. /\ online' = [online EXCEPT ![Owner[s]] = 0] /\ hpc' = hpc
          /\ hpc[s] = "dead"
        BY <1>4 DEF Orphaned, ParentSeen, handlerVars
    <2>2. online'[Owner[s]] = 0 /\ \A u \in Users : u # Owner[s] => online'[u] = online[u]
        BY <2>1, SessionAssumption DEF TypeOK
    <2>3. OnlineHasSession'
        BY <2>1, <2>2 DEF OnlineHasSession, Of
    <2>4. ServedShowsOnline'
        BY <2>1, <2>2, SessionAssumption DEF ServedShowsOnline, Of
    <2> QED
        BY <2>3, <2>4
<1>5. ASSUME NEW s \in Sessions, NEW next \in Serving \cup {"dead"},
             TakeRequest(s, next), UNCHANGED online
      PROVE  OnlineHasSession' /\ ServedShowsOnline'
    BY <1>1, <1>5, TakeFacts DEF Serving
<1>6. ASSUME NEW s \in Sessions, NEW next \in Serving, HandlerSend(s, next),
             hpc[s] \in Serving, UNCHANGED online
      PROVE  OnlineHasSession' /\ ServedShowsOnline'
    <2>1. hpc'[s] \in {"dead", next} /\ \A t \in Sessions : t # s => hpc'[t] = hpc[t]
        BY <1>6 DEF HandlerSend, TypeOK
    <2> QED
        BY <1>1, <1>6, <2>1 DEF Serving
<1>7. ASSUME NEW s \in Sessions, HandlerStep(s)
      PROVE  OnlineHasSession' /\ ServedShowsOnline'
    <2>1. CASE Acknowledge(s) \/ ReportLine(s)
        <3>1. /\ HandlerSend(s, "loop") \/ HandlerSend(s, "status")
              /\ hpc[s] \in Serving /\ UNCHANGED online
            BY <2>1 DEF Acknowledge, ReportLine, table, Serving
        <3> QED
            BY <1>6, <3>1 DEF Serving
    <2>2. CASE \/ TakeMessage(s) \/ TakeUnaddressed(s) \/ TakeStatus(s)
               \/ Block(s) \/ Unblock(s) \/ Crash(s)
        <3>1. /\ \E next \in Serving \cup {"dead"} : TakeRequest(s, next)
              /\ UNCHANGED online
            BY <2>2 DEF TakeMessage, TakeUnaddressed, TakeStatus, Block,
                Unblock, Crash, table, Serving
        <3> QED
            BY <1>5, <3>1
    <2>3. CASE Post(s)
        <3>1. /\ hpc[s] = "msgsnd" /\ hpc'[s] = "ack" /\ UNCHANGED online
              /\ \A t \in Sessions : t # s => hpc'[t] = hpc[t]
            BY <2>3 DEF Post, table, TypeOK
        <3> QED
            BY <1>1, <3>1 DEF Serving
    <2> QED
        BY <1>2, <1>3, <1>7, <2>1, <2>2, <2>3 DEF HandlerStep
<1>8. ASSUME NEW s \in Sessions, Login(s) \/ Refuse(s)
      PROVE  OnlineHasSession' /\ ServedShowsOnline'
    <2>1. /\ hpc[s] = "none" /\ hpc'[s] \in {"greet", "exited"} /\ UNCHANGED online
          /\ \A t \in Sessions : t # s => hpc'[t] = hpc[t]
        BY <1>8 DEF Login, Refuse, table, TypeOK
    <2> QED
        BY <1>1, <2>1 DEF Serving
<1>9. ASSUME UNCHANGED <<online, hpc>>
      PROVE  OnlineHasSession' /\ ServedShowsOnline'
    BY <1>1, <1>9
<1>10. ASSUME NEW s \in Sessions, Ask(s) \/ ClientClose(s) \/ (ListenerStep(s) /\ ~Orphaned(s))
       PROVE  UNCHANGED <<online, hpc>>
    BY <1>10 DEF Ask, ClientClose, ListenerStep, Poll, Receive, Pass, Discard,
        Forward, table, handlerVars
<1>11. ASSUME BroadcasterStep \/ MainExits \/ UNCHANGED vars
       PROVE  UNCHANGED <<online, hpc>>
    BY <1>11 DEF BroadcasterStep, BroadcasterPoll, BroadcasterReceive,
        BroadcasterForward, BroadcasterDone, MainExits, vars, table, handlerVars
<1> QED
    BY <1>4, <1>7, <1>8, <1>9, <1>10, <1>11 DEF Next, ListenerStep

\* Both hold from the start on.
LEMMA OnlineIsServed == Spec => [](OnlineHasSession /\ ServedShowsOnline)
<1>1. Init => OnlineHasSession /\ ServedShowsOnline
    BY SessionAssumption DEF Init, OnlineHasSession, ServedShowsOnline
<1> QED
    BY <1>1, StepOnline, TypeCorrect, PTL DEF Spec

\* Nobody is shown online without a session that has entered and not logged
\* out: the status that operation 3 reports is not a leftover.
THEOREM OnlineNeedsSession == Spec => []OnlineHasSession
    BY OnlineIsServed, PTL

\* A user with one session is shown online while its handler serves it: what
\* other handlers and listeners write to the shared table does not hide her.
THEOREM ServedIsOnline == Spec => []ServedShowsOnline
    BY OnlineIsServed, PTL

-----------------------------------------------------------------------------
(* What a block promises.                                                  *)

\* A message that passed the check before the block, and is now sent in spite
\* of it, is the first since.
LateInv == \A s \in Sessions :
    /\ lpc[s] = "send" /\ SenderBlocked(s) => late[s] = {}
    /\ IsFiniteSet(late[s]) /\ Cardinality(late[s]) <= 1

\* It is inductive: only Pass lets a message go on, after a look at blocked_id.
LEMMA StepLate ==
    TypeOK /\ Control /\ LateInv /\ [Next]_vars => LateInv'
<1> SUFFICES ASSUME TypeOK, Control, LateInv, [Next]_vars
             PROVE  LateInv'
    OBVIOUS
<1>1. ASSUME UNCHANGED <<late, blocked, mail>>,
             \A t \in Sessions : lpc'[t] = "send" =>
                 lpc[t] = "send" /\ lmsg'[t] = lmsg[t]
      PROVE  LateInv'
    BY <1>1 DEF LateInv, SenderBlocked
<1>2. ASSUME UNCHANGED <<late, blocked, mail, lpc, lmsg>>
      PROVE  LateInv'
    BY <1>1, <1>2
<1>3. ASSUME NEW s \in Sessions, NEW p, p # "send", lpc' = [lpc EXCEPT ![s] = p],
             \A t \in Sessions : t # s => lmsg'[t] = lmsg[t],
             UNCHANGED <<late, blocked, mail>>
      PROVE  LateInv'
    BY <1>1, <1>3 DEF TypeOK
<1>4. ASSUME NEW s \in Sessions, Block(s)
      PROVE  LateInv'
    <2>1. /\ blocked' = [blocked EXCEPT ![Owner[s]] = @ \cup {Request(s).name}]
          /\ late' = [t \in Sessions |-> IF Owner[t] = Owner[s] THEN {} ELSE late[t]]
          /\ UNCHANGED <<mail, lpc, lmsg>>
        BY <1>4 DEF Block, listenerVars
    <2>2. ASSUME NEW t \in Sessions, Owner[t] # Owner[s]
          PROVE  late'[t] = late[t] /\ SenderBlocked(t)' = SenderBlocked(t)
        BY <2>1, <2>2, SessionAssumption DEF SenderBlocked, TypeOK
    <2>3. ASSUME NEW t \in Sessions, Owner[t] = Owner[s]
          PROVE  late'[t] = {}
        BY <2>1, <2>3
    <2> QED
        BY <2>1, <2>2, <2>3, FS_EmptySet DEF LateInv
<1>5. ASSUME NEW s \in Sessions, Unblock(s)
      PROVE  LateInv'
    <2>1. /\ blocked' = [blocked EXCEPT ![Owner[s]] = @ \ {Request(s).name}]
          /\ UNCHANGED <<mail, lpc, lmsg, late>>
        BY <1>5 DEF Unblock, listenerVars
    <2>2. \A u \in Users : blocked'[u] \subseteq blocked[u]
        BY <2>1, SessionAssumption DEF TypeOK
    <2>3. \A t \in Sessions : SenderBlocked(t)' => SenderBlocked(t)
        BY <2>1, <2>2, SessionAssumption DEF SenderBlocked
    <2> QED
        BY <2>1, <2>3 DEF LateInv
<1>6. ASSUME NEW s \in Sessions, Post(s)
      PROVE  LateInv'
    <2>1. /\ \E m \in [from : Users, to : {TypeOf(hreq[s])}] : mail' = Append(mail, m)
          /\ UNCHANGED <<blocked, lpc, lmsg, late>>
        BY <1>6, SessionAssumption DEF Post, listenerVars, table
    <2>2. \A n \in 1..Len(mail) : mail'[n] = mail[n]
        BY <2>1 DEF TypeOK
    <2>3. \A t \in Sessions : lpc[t] = "send" => lmsg[t] \in 1..Len(mail)
        BY DEF TypeOK, Control, SessionControl
    <2>4. \A t \in Sessions : lpc[t] = "send" => SenderBlocked(t)' = SenderBlocked(t)
        BY <2>1, <2>2, <2>3 DEF SenderBlocked
    <2> QED
        BY <2>1, <2>4 DEF LateInv
<1>7. ASSUME NEW s \in Sessions, Pass(s)
      PROVE  LateInv'
    <2>1. /\ ~SenderBlocked(s) /\ lpc' = [lpc EXCEPT ![s] = "send"]
          /\ UNCHANGED <<blocked, mail, lmsg, late>>
        BY <1>7 DEF Pass, kernel, table
    <2>2. \A t \in Sessions : t # s => lpc'[t] = lpc[t]
        BY <2>1 DEF TypeOK
    <2> QED
        BY <2>1, <2>2 DEF LateInv, SenderBlocked
<1>8. ASSUME NEW s \in Sessions, Forward(s)
      PROVE  LateInv'
    <2>1. /\ lpc[s] = "send" /\ UNCHANGED <<blocked, mail>>
          /\ \E p \in {"dead", "poll"} : lpc' = [lpc EXCEPT ![s] = p]
          /\ lmsg' = [lmsg EXCEPT ![s] = 0]
          /\ \/ UNCHANGED late
             \/ /\ SenderBlocked(s)
                /\ late' = [late EXCEPT ![s] = @ \cup {lmsg[s]}]
        BY <1>8 DEF Forward, kernel, table, TypeOK
    <2>2. /\ lpc'[s] # "send"
          /\ \A t \in Sessions : t # s => /\ lpc'[t] = lpc[t] /\ lmsg'[t] = lmsg[t]
                                          /\ late'[t] = late[t]
        BY <2>1 DEF TypeOK
    <2>3. late'[s] = late[s] \/ late'[s] = {lmsg[s]}
        BY <2>1 DEF LateInv, TypeOK
    <2>4. IsFiniteSet(late'[s]) /\ Cardinality(late'[s]) <= 1
        <3>1. CASE late'[s] = late[s]
            BY <3>1 DEF LateInv
        <3>2. CASE late'[s] = {lmsg[s]}
            <4>1. IsFiniteSet(late'[s]) /\ Cardinality(late'[s]) = 1
                BY <3>2, FS_Singleton
            <4> QED
                BY <4>1
        <3> QED
            BY <2>3, <3>1, <3>2
    <2> QED
        BY <2>1, <2>2, <2>4 DEF LateInv, SenderBlocked
<1>9. ASSUME NEW s \in Sessions, HandlerStep(s)
      PROVE  LateInv'
    <2>1. CASE Enter(s)
        <3>1. /\ \E p \in {"none", "poll"} : lpc' = [lpc EXCEPT ![s] = p]
              /\ UNCHANGED <<late, blocked, mail, lmsg>>
            BY <2>1 DEF Enter
        <3> QED
            BY <1>3, <3>1
    <2>2. CASE Logout(s)
        <3>1. /\ lpc' = [lpc EXCEPT ![s] = "dead"] /\ lmsg' = [lmsg EXCEPT ![s] = 0]
              /\ UNCHANGED <<late, blocked, mail>>
            BY <2>2 DEF Logout
        <3>2. \A t \in Sessions : t # s => lmsg'[t] = lmsg[t]
            BY <3>1 DEF TypeOK
        <3> QED
            BY <1>3, <3>1, <3>2
    <2>3. CASE \/ TakeMessage(s) \/ TakeUnaddressed(s) \/ TakeStatus(s) \/ Crash(s)
               \/ Acknowledge(s) \/ ReportLine(s)
        <3>1. UNCHANGED <<late, blocked, mail, lpc, lmsg>>
            BY <2>3 DEF TakeMessage, TakeUnaddressed, TakeStatus, Crash,
                Acknowledge, ReportLine, table, listenerVars
        <3> QED
            BY <1>2, <3>1
    <2> QED
        BY <1>4, <1>5, <1>6, <1>9, <2>1, <2>2, <2>3 DEF HandlerStep
<1>10. ASSUME NEW s \in Sessions, ListenerStep(s)
       PROVE  LateInv'
    <2>1. CASE Poll(s) \/ Orphaned(s)
        <3>1. /\ \E p \in {"msgrcv", "exited"} : lpc' = [lpc EXCEPT ![s] = p]
              /\ UNCHANGED <<late, blocked, mail, lmsg>>
            BY <2>1 DEF Poll, Orphaned, table
        <3> QED
            BY <1>3, <3>1
    <2>2. CASE Receive(s) \/ Discard(s)
        <3>1. /\ \E p \in {"check", "poll"} : lpc' = [lpc EXCEPT ![s] = p]
              /\ \E i \in {0, Head(queue[Owner[s]])} : lmsg' = [lmsg EXCEPT ![s] = i]
              /\ UNCHANGED <<late, blocked, mail>>
            BY <2>2 DEF Receive, Discard, table
        <3>2. \A t \in Sessions : t # s => lmsg'[t] = lmsg[t]
            BY <3>1 DEF TypeOK
        <3> QED
            BY <1>3, <3>1, <3>2
    <2> QED
        BY <1>7, <1>8, <1>10, <2>1, <2>2 DEF ListenerStep
<1>11. ASSUME \/ \E s \in Sessions : Login(s) \/ Refuse(s) \/ Ask(s) \/ ClientClose(s)
              \/ BroadcasterStep \/ MainExits \/ UNCHANGED vars
       PROVE  UNCHANGED <<late, blocked, mail, lpc, lmsg>>
    BY <1>11 DEF Login, Refuse, Ask, ClientClose, BroadcasterStep, BroadcasterPoll,
        BroadcasterReceive, BroadcasterForward, BroadcasterDone, MainExits, vars,
        table, listenerVars
<1> QED
    BY <1>2, <1>9, <1>10, <1>11 DEF Next

\* After a block at most one message of a blocked sender reaches a client, the
\* one between the check of its listener and the send.
THEOREM BlocksTakeEffect == Spec => []BlockTakesEffect
<1>1. Init => LateInv
    BY FS_EmptySet DEF Init, LateInv
<1>2. LateInv => BlockTakesEffect
    BY DEF LateInv, BlockTakesEffect
<1> QED
    BY <1>1, <1>2, InitCInv, StepCInv, StepLate, PTL DEF Spec

-----------------------------------------------------------------------------
(* Mail.  Its order needs an invariant over every place where a message    *)
(* can be; the implementation of MailService needs the same one, for a     *)
(* copy is never in two places.                                            *)

\* Message i is a broadcast.
Broad(i) == mail[i].to = BroadcastType
\* If i and j are of one kind, i was accepted first.
Ahead(i, j) == (Broad(i) <=> Broad(j)) => i < j
\* There is, or was, a copy of message i for u.
Copy(i, u) == Queued(i, u) \/ Held(i, u) \/ Arrived(i, u) \/ <<i, u>> \in destroyed

\* The queue of each type is in order.
QueueOrder ==
    \A t \in Types : \A m, n \in DOMAIN queue[t] :
        m < n => Ahead(queue[t][m], queue[t][n])

\* A listener holds a message that is ahead of those still queued for it.
HeldFirst ==
    \A s \in Sessions : lmsg[s] # 0 =>
        \A j \in DOMAIN mail : Queued(j, Owner[s]) => Ahead(lmsg[s], j)

\* No two listeners hold the same message for the same user.
HeldOnce ==
    \A s, t \in Sessions :
        lmsg[s] # 0 /\ lmsg[s] = lmsg[t] /\ Owner[s] = Owner[t] => s = t

\* What reached a client is ahead of what its listener holds and of what is
\* still queued.
InboxFirst ==
    \A s \in Sessions : \A m \in DOMAIN inbox[s] :
        /\ lmsg[s] # 0 => Ahead(inbox[s][m], lmsg[s])
        /\ \A j \in DOMAIN mail : Queued(j, Owner[s]) => Ahead(inbox[s][m], j)

\* What reached a client did so in order.
InboxSorted ==
    \A s \in Sessions : \A m, n \in DOMAIN inbox[s] :
        m < n => Ahead(inbox[s][m], inbox[s][n])

\* Only broadcasts wait for the broadcaster, and it has taken the first of them.
BroadcastsWait ==
    /\ \A j \in DOMAIN mail : Queued(j, BroadcastType) => Broad(j)
    /\ bpc = "forward" =>
         /\ Broad(bmsg)
         /\ \A j \in DOMAIN mail : Queued(j, BroadcastType) => bmsg < j

\* The copies of broadcasts are made in the order of the broadcasts: those that
\* exist are of earlier ones, or of the one that the broadcaster spreads, to the
\* users it has passed.
SpreadInOrder ==
    \A i \in DOMAIN mail, u \in Users : Broad(i) /\ Copy(i, u) =>
        /\ \A j \in DOMAIN mail : Queued(j, BroadcastType) => i < j
        /\ bpc = "forward" => IF u < bpos THEN i <= bmsg ELSE i < bmsg

\* All of it is inductive together.
MailInv ==
    /\ QueueOrder /\ HeldFirst /\ HeldOnce /\ InboxFirst /\ InboxSorted
    /\ BroadcastsWait /\ SpreadInOrder

-----------------------------------------------------------------------------
\* What the types say of message numbers, queues and users.
LEMMA Numbers ==
    ASSUME TypeOK
    PROVE  /\ Len(mail) \in Nat /\ DOMAIN mail = 1..Len(mail)
           /\ \A t \in Types : /\ queue[t] \in Seq(1..Len(mail))
                               /\ DOMAIN queue[t] = 1..Len(queue[t]) /\ Len(queue[t]) \in Nat
           /\ \A t \in Types : \A i : Queued(i, t) => i \in DOMAIN mail
           /\ \A s \in Sessions : Owner[s] \in Users /\ Owner[s] \in Types
           /\ Users \subseteq Nat /\ BroadcastType \notin Users /\ BroadcastType \in Types
           /\ Users \subseteq Types
<1>1. Len(mail) \in Nat /\ DOMAIN mail = 1..Len(mail)
    BY DEF TypeOK
<1>2. \A t \in Types : /\ queue[t] \in Seq(1..Len(mail))
                       /\ DOMAIN queue[t] = 1..Len(queue[t]) /\ Len(queue[t]) \in Nat
    BY DEF TypeOK
<1>3. ASSUME NEW t \in Types, NEW i, Queued(i, t)
      PROVE  i \in DOMAIN mail
    BY <1>1, <1>2, <1>3 DEF Queued
<1>4. /\ \A s \in Sessions : Owner[s] \in Users /\ Owner[s] \in Types
      /\ Users \subseteq Nat /\ BroadcastType \notin Users /\ BroadcastType \in Types
      /\ Users \subseteq Types
    BY SessionAssumption DEF Types, Users, BroadcastType
<1> QED
    BY <1>1, <1>2, <1>3, <1>4

\* msgsnd adds the message to one queue.
LEMMA SndQueued ==
    ASSUME TypeOK, NEW t \in Types, NEW i, MsgSnd(t, i)
    PROVE  \A u \in Types : \A j : Queued(j, u)' <=> Queued(j, u) \/ (u = t /\ j = i)
<1>1. queue[t] \in Seq(1..Len(mail)) /\ DOMAIN queue[t] = 1..Len(queue[t]) /\ Len(queue[t]) \in Nat
    BY Numbers
<1>2. queue' = [queue EXCEPT ![t] = Append(@, i)] /\ DOMAIN queue = Types
    BY DEF MsgSnd, TypeOK
<1>3. ASSUME NEW u \in Types, u # t
      PROVE  queue'[u] = queue[u]
    BY <1>2, <1>3
<1>4. /\ DOMAIN queue'[t] = 1..(Len(queue[t]) + 1)
      /\ queue'[t][Len(queue[t]) + 1] = i
      /\ \A n \in DOMAIN queue[t] : queue'[t][n] = queue[t][n]
    BY <1>1, <1>2
<1>5. \A j : Queued(j, t)' <=> Queued(j, t) \/ j = i
    <2>1. PICK l \in Nat : l = Len(queue[t])
        BY <1>1
    <2>2. \A n \in 1..(l + 1) : n \in 1..l \/ n = l + 1
        BY <2>1
    <2>3. 1..l \subseteq 1..(l + 1) /\ l + 1 \in 1..(l + 1)
        BY <2>1
    <2> QED
        BY <1>1, <1>4, <2>1, <2>2, <2>3 DEF Queued
<1> QED
    BY <1>3, <1>5 DEF Queued

\* That queue stays in order if the message comes behind all in it.
LEMMA SndOrder ==
    ASSUME TypeOK, QueueOrder, NEW t \in Types, NEW i, MsgSnd(t, i),
           \A j \in DOMAIN mail : mail'[j] = mail[j],
           \A j \in DOMAIN mail : Queued(j, t) =>
               ((Broad(j) <=> mail'[i].to = BroadcastType) => j < i)
    PROVE  QueueOrder'
<1>1. queue[t] \in Seq(1..Len(mail)) /\ DOMAIN queue[t] = 1..Len(queue[t]) /\ Len(queue[t]) \in Nat
    BY Numbers
<1>2. queue' = [queue EXCEPT ![t] = Append(@, i)] /\ DOMAIN queue = Types
    BY DEF MsgSnd, TypeOK
<1>3. ASSUME NEW u \in Types, u # t
      PROVE  queue'[u] = queue[u]
    BY <1>2, <1>3
<1>4. /\ DOMAIN queue'[t] = 1..(Len(queue[t]) + 1)
      /\ queue'[t][Len(queue[t]) + 1] = i
      /\ \A n \in DOMAIN queue[t] : queue'[t][n] = queue[t][n]
    BY <1>1, <1>2
<1>5. ASSUME NEW u \in Types, NEW m \in DOMAIN queue[u]
      PROVE  queue[u][m] \in DOMAIN mail /\ Queued(queue[u][m], u)
    BY Numbers DEF Queued
<1>6. ASSUME NEW m \in DOMAIN queue'[t], NEW n \in DOMAIN queue'[t], m < n
      PROVE  (mail'[queue'[t][m]].to = BroadcastType
                  <=> mail'[queue'[t][n]].to = BroadcastType)
                 => queue'[t][m] < queue'[t][n]
    <2>1. m \in DOMAIN queue[t] /\ queue'[t][m] = queue[t][m]
        BY <1>1, <1>4, <1>6
    <2>2. CASE n \in DOMAIN queue[t]
        <3>1. Ahead(queue[t][m], queue[t][n])
            BY <1>6, <2>1, <2>2 DEF QueueOrder
        <3>2. queue'[t][n] = queue[t][n]
            BY <1>4, <2>2
        <3> QED
            BY <1>5, <2>1, <2>2, <3>1, <3>2 DEF Ahead, Broad
    <2>3. CASE n \notin DOMAIN queue[t]
        <3>1. queue'[t][n] = i
            BY <1>1, <1>4, <2>3
        <3> QED
            BY <1>5, <2>1, <3>1 DEF Broad
    <2> QED
        BY <2>2, <2>3
<1>7. ASSUME NEW u \in Types, u # t, NEW m \in DOMAIN queue'[u], NEW n \in DOMAIN queue'[u], m < n
      PROVE  (mail'[queue'[u][m]].to = BroadcastType
                  <=> mail'[queue'[u][n]].to = BroadcastType)
                 => queue'[u][m] < queue'[u][n]
    BY <1>3, <1>5, <1>7 DEF QueueOrder, Ahead, Broad
<1> QED
    BY <1>6, <1>7 DEF QueueOrder, Ahead, Broad

\* msgrcv takes the message that is ahead of the others.
LEMMA RcvQueued ==
    ASSUME TypeOK, QueueOrder, NEW t \in Types, MsgRcv(t), UNCHANGED mail
    PROVE  /\ Queued(Head(queue[t]), t) /\ Head(queue[t]) \in DOMAIN mail
           /\ \A u \in Types : \A j : u # t => (Queued(j, u)' <=> Queued(j, u))
           /\ \A j : Queued(j, t) => j = Head(queue[t]) \/ Queued(j, t)'
           /\ \A j : Queued(j, t)' =>
                  Queued(j, t) /\ j # Head(queue[t]) /\ Ahead(Head(queue[t]), j)
           /\ QueueOrder'
<1> DEFINE q == queue[t]
<1>1. /\ queue' = [queue EXCEPT ![t] = Tail(@)] /\ DOMAIN queue = Types
      /\ q \in Seq(1..Len(mail)) /\ q # << >> /\ DOMAIN q = 1..Len(q) /\ Len(q) \in Nat
    BY Numbers DEF MsgRcv, TypeOK
<1>2. ASSUME NEW u \in Types, u # t
      PROVE  queue'[u] = queue[u]
    BY <1>1, <1>2
<1>3. /\ Head(q) = q[1] /\ 1 \in DOMAIN q
      /\ \A n \in DOMAIN Tail(q) : n + 1 \in DOMAIN q /\ Tail(q)[n] = q[n + 1]
      /\ DOMAIN Tail(q) = 1..(Len(q) - 1)
    <2> HIDE DEF q
    <2> QED BY <1>1, TailFacts
<1>4. queue'[t] = Tail(q)
    BY <1>1
<1> HIDE DEF q
<1>5. Queued(Head(q), t) /\ Head(q) \in DOMAIN mail
    <2>1. Queued(q[1], t)
        BY <1>3 DEF Queued, q
    <2> QED
        BY <1>3, <2>1, Numbers
<1>6. \A u \in Types : \A j : u # t => (Queued(j, u)' <=> Queued(j, u))
    BY <1>2 DEF Queued
<1>7. ASSUME NEW j, Queued(j, t)
      PROVE  j = Head(q) \/ Queued(j, t)'
    <2>1. PICK n \in DOMAIN q : q[n] = j
        BY <1>7 DEF Queued, q
    <2>2. CASE n = 1
        BY <1>3, <2>1, <2>2
    <2>3. CASE n # 1
        <3>1. n - 1 \in DOMAIN Tail(q) /\ Tail(q)[n - 1] = j
            BY <1>1, <1>3, <2>1, <2>3
        <3> QED
            BY <1>4, <3>1 DEF Queued
    <2> QED
        BY <2>2, <2>3
<1>8. ASSUME NEW j, Queued(j, t)'
      PROVE  Queued(j, t) /\ j # Head(q) /\ Ahead(Head(q), j)
    <2>1. PICK n \in DOMAIN Tail(q) : Tail(q)[n] = j
        BY <1>4, <1>8 DEF Queued
    <2>2. n + 1 \in DOMAIN q /\ q[n + 1] = j /\ 1 < n + 1
        BY <1>1, <1>3, <2>1
    <2>3. Queued(j, t) /\ j \in DOMAIN mail
        <3>1. Queued(j, t)
            BY <2>2 DEF Queued, q
        <3> QED
            BY <3>1, Numbers
    <2>4. Ahead(q[1], q[n + 1])
        BY <1>3, <2>2 DEF QueueOrder, q
    <2>5. Ahead(Head(q), j)
        BY <1>3, <2>2, <2>4
    <2>6. j # Head(q)
        BY <1>5, <2>3, <2>5, Numbers DEF Ahead
    <2> QED
        BY <2>3, <2>5, <2>6
<1>9. QueueOrder'
    <2>1. ASSUME NEW m \in DOMAIN Tail(q), NEW n \in DOMAIN Tail(q), m < n
          PROVE  Ahead(Tail(q)[m], Tail(q)[n])
        <3>1. /\ m + 1 \in DOMAIN q /\ n + 1 \in DOMAIN q /\ m + 1 < n + 1
              /\ Tail(q)[m] = q[m + 1] /\ Tail(q)[n] = q[n + 1]
            BY <1>1, <1>3, <2>1
        <3>2. Ahead(q[m + 1], q[n + 1])
            BY <3>1 DEF QueueOrder, q
        <3> QED
            BY <3>1, <3>2
    <2>2. \A u \in Types : \A m, n \in DOMAIN queue'[u] :
              m < n => Ahead(queue'[u][m], queue'[u][n])
        BY <1>2, <1>4, <2>1 DEF QueueOrder
    <2> QED
        BY <2>2 DEF QueueOrder, Ahead, Broad
<1> QED
    BY <1>5, <1>6, <1>7, <1>8, <1>9 DEF q

-----------------------------------------------------------------------------
\* A step that moves no message keeps the order.
LEMMA QuietOrder ==
    ASSUME MailInv, UNCHANGED <<queue, mail, lmsg, inbox, destroyed>>,
           UNCHANGED <<bpc, bmsg, bpos>> \/ bpc' # "forward"
    PROVE  MailInv'
<1>1. \A i, u : (Copy(i, u)' <=> Copy(i, u)) /\ (Queued(i, u)' <=> Queued(i, u))
    BY DEF Copy, Queued, Held, Arrived
<1>2. (QueueOrder /\ HeldFirst /\ HeldOnce /\ InboxFirst /\ InboxSorted)'
    BY <1>1 DEF MailInv, QueueOrder, HeldFirst, HeldOnce, InboxFirst,
        InboxSorted, Ahead, Broad
<1>3. BroadcastsWait'
    BY <1>1 DEF MailInv, BroadcastsWait, Broad
<1>4. SpreadInOrder'
    BY <1>1 DEF MailInv, SpreadInOrder, Broad
<1> QED
    BY <1>2, <1>3, <1>4 DEF MailInv

\* A message leaves the hands of a listener for the list of the destroyed.
Drop(s) ==
    /\ lmsg[s] # 0
    /\ lmsg' = [lmsg EXCEPT ![s] = 0]
    /\ destroyed' = destroyed \cup {<<lmsg[s], Owner[s]>>}
    /\ UNCHANGED <<queue, mail, inbox, bpc, bmsg, bpos, blocked>>

\* Or for the client.
Deliver(s) ==
    /\ lmsg[s] # 0
    /\ lmsg' = [lmsg EXCEPT ![s] = 0]
    /\ inbox' = [inbox EXCEPT ![s] = Append(@, lmsg[s])]
    /\ UNCHANGED <<queue, mail, destroyed, bpc, bmsg, bpos, blocked>>

\* So does one that loses the message of a listener.
LEMMA DropOrder ==
    ASSUME TypeOK, MailInv, NEW s \in Sessions, Drop(s)
    PROVE  MailInv'
<1>1. lmsg'[s] = 0 /\ \A t \in Sessions : t # s => lmsg'[t] = lmsg[t]
    BY DEF Drop, TypeOK
<1>2. \A i, u : Queued(i, u)' <=> Queued(i, u)
    BY DEF Drop, Queued
<1>3. ASSUME NEW i \in DOMAIN mail, NEW u \in Users, Copy(i, u)'
      PROVE  Copy(i, u)
    <2>1. 0 \notin DOMAIN mail
        BY Numbers
    <2>2. Held(i, u)' => Held(i, u)
        BY <1>1, <2>1 DEF Held, Of
    <2>3. Arrived(i, u)' => Arrived(i, u)
        BY DEF Arrived, Drop
    <2>4. <<i, u>> \in destroyed' => <<i, u>> \in destroyed \/ Held(i, u)
        BY DEF Drop, Held, Of
    <2> QED
        BY <1>2, <1>3, <2>2, <2>3, <2>4 DEF Copy
<1>4. (QueueOrder /\ HeldFirst /\ HeldOnce /\ InboxFirst /\ InboxSorted)'
    BY <1>1, <1>2 DEF MailInv, QueueOrder, HeldFirst, HeldOnce, InboxFirst,
        InboxSorted, Ahead, Broad, Drop
<1>5. BroadcastsWait'
    BY <1>2 DEF MailInv, BroadcastsWait, Broad, Drop
<1>6. SpreadInOrder'
    BY <1>2, <1>3 DEF MailInv, SpreadInOrder, Broad, Drop
<1> QED
    BY <1>4, <1>5, <1>6 DEF MailInv

\* A delivered message is the last one with the client.
LEMMA DeliverArrived ==
    ASSUME TypeOK, NEW s \in Sessions, Deliver(s)
    PROVE  /\ lmsg'[s] = 0 /\ \A t \in Sessions : t # s => lmsg'[t] = lmsg[t]
           /\ \A t \in Sessions : t # s => inbox'[t] = inbox[t]
           /\ Len(inbox[s]) \in Nat /\ DOMAIN inbox[s] = 1..Len(inbox[s])
           /\ DOMAIN inbox'[s] = 1..(Len(inbox[s]) + 1)
           /\ inbox'[s][Len(inbox[s]) + 1] = lmsg[s]
           /\ \A n \in DOMAIN inbox[s] : inbox'[s][n] = inbox[s][n]
           /\ \A i : \A u \in Users : Arrived(i, u)' <=>
                  Arrived(i, u) \/ (u = Owner[s] /\ i = lmsg[s])
           /\ lmsg[s] \in DOMAIN mail
<1>1. /\ lmsg'[s] = 0 /\ \A t \in Sessions : t # s => lmsg'[t] = lmsg[t]
      /\ lmsg[s] \in 1..Len(mail)
    BY DEF Deliver, TypeOK
<1>2. \A t \in Sessions : t # s => inbox'[t] = inbox[t]
    BY DEF Deliver, TypeOK
<1>3. inbox[s] \in Seq(1..Len(mail)) /\ inbox'[s] = Append(inbox[s], lmsg[s])
    BY DEF Deliver, TypeOK
<1>4. /\ Len(inbox[s]) \in Nat /\ DOMAIN inbox[s] = 1..Len(inbox[s])
      /\ DOMAIN inbox'[s] = 1..(Len(inbox[s]) + 1)
      /\ inbox'[s][Len(inbox[s]) + 1] = lmsg[s]
      /\ \A n \in DOMAIN inbox[s] : inbox'[s][n] = inbox[s][n]
    BY <1>1, <1>3
<1>5. ASSUME NEW i
      PROVE  (\E n \in DOMAIN inbox'[s] : inbox'[s][n] = i) <=>
                 (\E n \in DOMAIN inbox[s] : inbox[s][n] = i) \/ i = lmsg[s]
    BY <1>4
<1>6. ASSUME NEW i, NEW u \in Users
      PROVE  Arrived(i, u)' <=> Arrived(i, u) \/ (u = Owner[s] /\ i = lmsg[s])
    BY <1>2, <1>5 DEF Arrived, Of
<1> QED
    BY <1>1, <1>2, <1>4, <1>6, Numbers

\* It was ahead of those still queued, and behind those before it.
LEMMA DeliverOrder ==
    ASSUME TypeOK, MailInv, NEW s \in Sessions, Deliver(s)
    PROVE  MailInv'
<1> DEFINE N == Len(inbox[s])
<1>0. mail' = mail /\ queue' = queue /\ bpc' = bpc /\ bmsg' = bmsg /\ bpos' = bpos
      /\ lmsg[s] # 0 /\ destroyed' = destroyed
    BY DEF Deliver
<1>1. \A i, u : Queued(i, u)' <=> Queued(i, u)
    BY <1>0 DEF Queued
<1>2. ASSUME NEW i \in DOMAIN mail, NEW u \in Users, Copy(i, u)'
      PROVE  Copy(i, u)
    <2>1. 0 \notin DOMAIN mail
        BY Numbers
    <2>2. Held(i, u)' => Held(i, u)
        BY <2>1, DeliverArrived DEF Held, Of
    <2>3. Arrived(i, u)' => Arrived(i, u) \/ Held(i, u)
        BY DeliverArrived DEF Held, Of
    <2> QED
        BY <1>0, <1>1, <1>2, <2>2, <2>3 DEF Copy
<1>3. (QueueOrder /\ HeldFirst /\ HeldOnce)'
    BY <1>0, <1>1, DeliverArrived DEF MailInv, QueueOrder, HeldFirst, HeldOnce,
        Ahead, Broad
<1>4. \A n \in DOMAIN inbox'[s] : n \in DOMAIN inbox[s] \/ n = N + 1
    BY DeliverArrived
<1>5. InboxFirst'
    <2>1. ASSUME NEW n \in DOMAIN inbox'[s], NEW j \in DOMAIN mail, Queued(j, Owner[s])
          PROVE  Ahead(inbox'[s][n], j)
        BY <1>0, <1>4, <2>1, DeliverArrived DEF MailInv, InboxFirst, HeldFirst
    <2>2. ASSUME NEW t \in Sessions, t # s, NEW n \in DOMAIN inbox'[t]
          PROVE  /\ lmsg'[t] # 0 => Ahead(inbox'[t][n], lmsg'[t])
                 /\ \A j \in DOMAIN mail : Queued(j, Owner[t]) => Ahead(inbox'[t][n], j)
        BY <2>2, DeliverArrived DEF MailInv, InboxFirst
    <2> QED
        BY <1>0, <1>1, <2>1, <2>2, DeliverArrived DEF InboxFirst, Ahead, Broad
<1>6. InboxSorted'
    <2>1. ASSUME NEW m \in DOMAIN inbox'[s], NEW n \in DOMAIN inbox'[s], m < n
          PROVE  Ahead(inbox'[s][m], inbox'[s][n])
        <3>1. m \in DOMAIN inbox[s] /\ inbox'[s][m] = inbox[s][m]
            BY <2>1, DeliverArrived
        <3>2. CASE n \in DOMAIN inbox[s]
            <4>1. inbox'[s][n] = inbox[s][n]
                BY <3>2, DeliverArrived
            <4> QED
                BY <2>1, <3>1, <3>2, <4>1 DEF MailInv, InboxSorted
        <3>3. CASE n = N + 1
            <4>1. inbox'[s][n] = lmsg[s]
                BY <3>3, DeliverArrived
            <4> QED
                BY <1>0, <3>1, <4>1 DEF MailInv, InboxFirst
        <3> QED
            BY <1>4, <3>2, <3>3
    <2>2. ASSUME NEW t \in Sessions, t # s, NEW m \in DOMAIN inbox'[t],
                 NEW n \in DOMAIN inbox'[t], m < n
          PROVE  Ahead(inbox'[t][m], inbox'[t][n])
        BY <2>2, DeliverArrived DEF MailInv, InboxSorted
    <2> QED
        BY <1>0, <2>1, <2>2 DEF InboxSorted, Ahead, Broad
<1>7. BroadcastsWait'
    BY <1>0, <1>1 DEF MailInv, BroadcastsWait, Broad
<1>8. SpreadInOrder'
    BY <1>0, <1>1, <1>2 DEF MailInv, SpreadInOrder, Broad
<1> QED
    BY <1>3, <1>5, <1>6, <1>7, <1>8 DEF MailInv

\* A listener takes the first message of its user.
LEMMA ReceiveOrder ==
    ASSUME TypeOK, Control, MailInv, NEW s \in Sessions, Receive(s)
    PROVE  MailInv'
<1> DEFINE u0 == Owner[s]
           h == Head(queue[u0])
<1>0. /\ MsgRcv(u0) /\ u0 \in Types /\ u0 \in Users /\ QueueOrder
      /\ UNCHANGED <<mail, inbox, destroyed, bpc, bmsg, bpos>>
    BY Numbers DEF Receive, MailInv, broadVars
<1>1. lmsg'[s] = h /\ \A t \in Sessions : t # s => lmsg'[t] = lmsg[t]
    BY DEF Receive, TypeOK
<1>2. /\ Queued(h, u0) /\ h \in DOMAIN mail
      /\ \A u \in Types : \A j : u # u0 => (Queued(j, u)' <=> Queued(j, u))
      /\ \A j : Queued(j, u0)' => Queued(j, u0) /\ Ahead(h, j)
      /\ QueueOrder'
    BY <1>0, RcvQueued
<1> HIDE DEF h, u0
<1>3. \A u \in Types : \A j : Queued(j, u)' => Queued(j, u)
    BY <1>2
<1>4. ASSUME NEW i \in DOMAIN mail, NEW u \in Users, Copy(i, u)'
      PROVE  Copy(i, u)
    <2>1. Queued(i, u)' => Queued(i, u)
        BY <1>3, Numbers
    <2>2. Held(i, u)' => Held(i, u) \/ Queued(i, u)
        BY <1>1, <1>2 DEF Held, Of, u0
    <2>3. Arrived(i, u)' => Arrived(i, u)
        BY <1>0 DEF Arrived
    <2> QED
        BY <1>0, <1>4, <2>1, <2>2, <2>3 DEF Copy
<1>5. HeldFirst'
    <2>1. ASSUME NEW t \in Sessions, lmsg'[t] # 0, NEW j \in DOMAIN mail, Queued(j, Owner[t])'
          PROVE  Ahead(lmsg'[t], j)
        BY <1>1, <1>2, <1>3, <2>1, Numbers DEF MailInv, HeldFirst, u0
    <2> QED
        BY <1>0, <2>1 DEF HeldFirst, Ahead, Broad
<1>6. HeldOnce'
    <2>1. \A t \in Sessions : lmsg[t] # 0 /\ Owner[t] = u0 => lmsg[t] # h
        BY <1>2, Numbers DEF MailInv, HeldFirst, Ahead
    <2> QED
        BY <1>1, <2>1 DEF MailInv, HeldOnce, u0
<1>7. InboxFirst'
    <2>1. ASSUME NEW t \in Sessions, NEW m \in DOMAIN inbox[t]
          PROVE  /\ lmsg'[t] # 0 => Ahead(inbox[t][m], lmsg'[t])
                 /\ \A j \in DOMAIN mail : Queued(j, Owner[t])' => Ahead(inbox[t][m], j)
        BY <1>1, <1>2, <1>3, <2>1, Numbers DEF MailInv, InboxFirst, u0
    <2> QED
        BY <1>0, <2>1 DEF InboxFirst, Ahead, Broad
<1>8. InboxSorted'
    BY <1>0 DEF MailInv, InboxSorted, Ahead, Broad
<1>9. BroadcastsWait'
    BY <1>0, <1>3, Numbers DEF MailInv, BroadcastsWait, Broad
<1>10. SpreadInOrder'
    BY <1>0, <1>3, <1>4, Numbers DEF MailInv, SpreadInOrder, Broad
<1> QED
    BY <1>2, <1>5, <1>6, <1>7, <1>8, <1>9, <1>10 DEF MailInv

\* A new message goes to its queue with a number above all others.
\* msgsnd of a client's message gives it the next number.
LEMMA PostFacts ==
    ASSUME TypeOK, Control, NEW s \in Sessions, Post(s)
    PROVE  \E t \in Types :
              /\ MsgSnd(t, Len(mail) + 1)
              /\ mail' = Append(mail, [from |-> Owner[s], to |-> t])
              /\ mail'[Len(mail) + 1] = [from |-> Owner[s], to |-> t]
              /\ DOMAIN mail' = 1..(Len(mail) + 1) /\ Len(mail) \in Nat
              /\ Len(mail') = Len(mail) + 1
              /\ \A j \in DOMAIN mail : mail'[j] = mail[j]
<1> DEFINE t == TypeOf(hreq[s])
<1>1. t \in Types
    BY DEF Post, Control, SessionControl, Requests, TypeOf, Types
<1>2. mail' = Append(mail, [from |-> Owner[s], to |-> t]) /\ MsgSnd(t, Len(mail'))
    BY DEF Post
<1>3. mail \in Seq([from : Users, to : Types])
    BY DEF TypeOK
<1> HIDE DEF t
<1>4. /\ Len(mail') = Len(mail) + 1 /\ DOMAIN mail' = 1..(Len(mail) + 1)
      /\ Len(mail) \in Nat /\ mail'[Len(mail) + 1] = [from |-> Owner[s], to |-> t]
      /\ \A j \in DOMAIN mail : mail'[j] = mail[j]
    BY <1>2, <1>3
<1>5. MsgSnd(t, Len(mail) + 1)
    BY <1>2, <1>4
<1> QED
    BY <1>1, <1>2, <1>4, <1>5

\* It is behind every other message.
LEMMA PostOrder ==
    ASSUME TypeOK, Control, MailInv, NEW s \in Sessions, Post(s)
    PROVE  MailInv'
<1>1. PICK t \in Types :
          /\ MsgSnd(t, Len(mail) + 1)
          /\ mail'[Len(mail) + 1] = [from |-> Owner[s], to |-> t]
          /\ DOMAIN mail' = 1..(Len(mail) + 1) /\ Len(mail) \in Nat
          /\ \A j \in DOMAIN mail : mail'[j] = mail[j]
    BY PostFacts
<1>17. PICK i \in Nat : i = Len(mail) + 1
    BY <1>1
<1>2. /\ DOMAIN mail' = DOMAIN mail \cup {i}
      /\ i \in Nat /\ i # 0 /\ i \notin DOMAIN mail
      /\ \A j \in DOMAIN mail : j < i /\ j \in Nat
    BY <1>1, <1>17, Numbers
<1>3. mail'[i].to = t
    BY <1>1, <1>17
<1>4. UNCHANGED <<lmsg, inbox, destroyed, bpc, bmsg, bpos>>
    BY DEF Post, listenerVars, broadVars
<1>5. MsgSnd(t, i) /\ QueueOrder
    BY <1>1, <1>17 DEF MailInv
<1>6. \A u \in Types : \A j : Queued(j, u)' <=> Queued(j, u) \/ (u = t /\ j = i)
    BY <1>5, SndQueued
<1>7. QueueOrder'
    <2>1. \A j \in DOMAIN mail : j < i
        BY <1>2
    <2> QED
        BY <1>1, <1>5, <2>1, SndOrder
<1>8. /\ \A r \in Sessions : lmsg[r] # 0 => lmsg[r] \in DOMAIN mail
      /\ \A r \in Sessions : \A m \in DOMAIN inbox[r] : inbox[r][m] \in DOMAIN mail
      /\ bpc = "forward" => bmsg \in DOMAIN mail
    <2>1. \A r \in Sessions : lmsg[r] # 0 => lmsg[r] \in DOMAIN mail
        BY DEF TypeOK
    <2>2. \A r \in Sessions : \A m \in DOMAIN inbox[r] : inbox[r][m] \in DOMAIN mail
        BY DEF TypeOK
    <2>3. bpc = "forward" => bmsg \in DOMAIN mail
        BY DEF TypeOK, Control
    <2> QED
        BY <2>1, <2>2, <2>3
<1>9. ASSUME NEW j \in DOMAIN mail
      PROVE  Broad(j)' <=> Broad(j)
    BY <1>1 DEF Broad
<1>18. ASSUME NEW k \in DOMAIN mail, NEW j \in DOMAIN mail', j = i \/ Ahead(k, j)
      PROVE  Ahead(k, j)'
    BY <1>2, <1>9, <1>18 DEF Ahead
<1>10. ASSUME NEW u \in Types, NEW j \in DOMAIN mail', Queued(j, u)'
       PROVE  j = i \/ (j \in DOMAIN mail /\ Queued(j, u))
    BY <1>2, <1>6, <1>10
<1>11. HeldFirst'
    <2>1. ASSUME NEW r \in Sessions, NEW k \in DOMAIN mail, lmsg[r] = k,
                 NEW j \in DOMAIN mail', Queued(j, Owner[r])'
          PROVE  Ahead(k, j)'
        <3>1. j = i \/ Ahead(k, j)
            <4>1. PICK u \in Types : u = Owner[r]
                BY Numbers
            <4>2. j = i \/ (j \in DOMAIN mail /\ Queued(j, u))
                BY <1>10, <2>1, <4>1
            <4>3. lmsg[r] # 0
                BY <2>1, Numbers
            <4> QED
                BY <2>1, <4>1, <4>2, <4>3 DEF MailInv, HeldFirst
        <3> QED
            BY <1>18, <3>1
    <2> QED
        BY <1>4, <1>8, <2>1 DEF HeldFirst, Ahead, Broad
<1>12. HeldOnce'
    BY <1>4 DEF MailInv, HeldOnce
<1>13. InboxFirst'
    <2>1. ASSUME NEW r \in Sessions, NEW m \in DOMAIN inbox[r], NEW k \in DOMAIN mail,
                 inbox[r][m] = k, NEW j \in DOMAIN mail', Queued(j, Owner[r])'
          PROVE  Ahead(k, j)'
        <3>1. j = i \/ Ahead(k, j)
            BY <1>10, <2>1, Numbers DEF MailInv, InboxFirst
        <3> QED
            BY <1>18, <3>1
    <2>2. ASSUME NEW r \in Sessions, NEW m \in DOMAIN inbox[r], NEW k \in DOMAIN mail,
                 inbox[r][m] = k, NEW j \in DOMAIN mail, lmsg[r] = j
          PROVE  Ahead(k, j)'
        <3>1. lmsg[r] # 0
            BY <2>2, Numbers
        <3>2. Ahead(k, j)
            BY <2>2, <3>1 DEF MailInv, InboxFirst
        <3> QED
            BY <1>2, <1>18, <3>2
    <2> QED
        BY <1>4, <1>8, <2>1, <2>2 DEF InboxFirst, Ahead, Broad
<1>14. InboxSorted'
    <2>1. ASSUME NEW r \in Sessions, NEW m \in DOMAIN inbox[r],
                 NEW n \in DOMAIN inbox[r], m < n, NEW k \in DOMAIN mail,
                 NEW j \in DOMAIN mail, inbox[r][m] = k, inbox[r][n] = j
          PROVE  Ahead(k, j)'
        <3>1. Ahead(k, j) /\ j \in DOMAIN mail'
            BY <1>2, <2>1 DEF MailInv, InboxSorted
        <3> QED
            BY <1>18, <3>1
    <2> QED
        BY <1>4, <1>8, <2>1 DEF InboxSorted, Ahead, Broad
<1>15. BroadcastsWait'
    <2>1. ASSUME NEW j \in DOMAIN mail', Queued(j, BroadcastType)'
          PROVE  Broad(j)'
        <3>1. CASE j = i
            <4>1. t = BroadcastType
                BY <1>2, <1>6, <2>1, <3>1, Numbers
            <4> QED
                BY <1>3, <3>1, <4>1 DEF Broad
        <3>2. CASE j # i
            BY <1>9, <1>10, <2>1, <3>2, Numbers DEF MailInv, BroadcastsWait
        <3> QED
            BY <3>1, <3>2
    <2>2. ASSUME bpc = "forward"
          PROVE  /\ Broad(bmsg)'
                 /\ \A j \in DOMAIN mail' : Queued(j, BroadcastType)' => bmsg < j
        BY <1>2, <1>4, <1>8, <1>9, <1>10, <2>2, Numbers DEF MailInv, BroadcastsWait, Broad
    <2> QED
        BY <1>4, <2>1, <2>2 DEF BroadcastsWait
<1>16. SpreadInOrder'
    <2>1. ASSUME NEW k \in DOMAIN mail', NEW u \in Users, Broad(k)', Copy(k, u)'
          PROVE  k \in DOMAIN mail /\ Broad(k) /\ Copy(k, u)
        <3>1. CASE k = i
            <4>1. t # u
                BY <1>3, <2>1, <3>1, Numbers DEF Broad
            <4>2. Queued(i, u)
                <5>1. ~Held(i, u)'
                    BY <1>2, <1>4, <1>8 DEF Held, Of
                <5>2. ~Arrived(i, u)'
                    BY <1>2, <1>4, <1>8 DEF Arrived, Of
                <5>3. <<i, u>> \notin destroyed
                    BY <1>2, Numbers DEF TypeOK
                <5> QED
                    BY <1>4, <1>6, <2>1, <3>1, <4>1, <5>1, <5>2, <5>3, Numbers DEF Copy
            <4> QED
                BY <1>2, <4>2, Numbers
        <3>2. CASE k # i
            <4>1. k \in DOMAIN mail /\ Broad(k)
                BY <1>2, <1>9, <2>1, <3>2
            <4>2. /\ Queued(k, u)' => Queued(k, u)
                  /\ Held(k, u)' => Held(k, u)
                  /\ Arrived(k, u)' => Arrived(k, u)
                BY <1>4, <1>6, <3>2, Numbers DEF Held, Arrived
            <4> QED
                BY <1>4, <2>1, <4>1, <4>2 DEF Copy
        <3> QED
            BY <3>1, <3>2
    <2>2. ASSUME NEW k \in DOMAIN mail, NEW j \in DOMAIN mail', Queued(j, BroadcastType)',
                 NEW u \in Users, Broad(k), Copy(k, u)
          PROVE  k < j
        BY <1>2, <1>10, <2>2, Numbers DEF MailInv, SpreadInOrder
    <2> QED
        BY <1>4, <2>1, <2>2 DEF MailInv, SpreadInOrder
<1> QED
    BY <1>7, <1>11, <1>12, <1>13, <1>14, <1>15, <1>16 DEF MailInv

\* The broadcaster takes the first broadcast, of which no copy exists.
LEMMA BroadcasterReceiveOrder ==
    ASSUME TypeOK, MailInv, BroadcasterReceive
    PROVE  MailInv'
<1> DEFINE h == Head(queue[BroadcastType])
<1>1. /\ MsgRcv(BroadcastType) /\ BroadcastType \in Types /\ QueueOrder
      /\ bmsg' = h /\ bpos' = 2
      /\ UNCHANGED <<mail, lmsg, inbox, destroyed>>
    BY Numbers DEF BroadcasterReceive, MailInv, listenerVars
<1>2. /\ Queued(h, BroadcastType) /\ h \in DOMAIN mail
      /\ \A u \in Types : \A j : u # BroadcastType => (Queued(j, u)' <=> Queued(j, u))
      /\ \A j : Queued(j, BroadcastType)' => Queued(j, BroadcastType) /\ Ahead(h, j)
      /\ QueueOrder'
    BY <1>1, RcvQueued
<1> HIDE DEF h
<1>3. \A u \in Types : \A j : Queued(j, u)' => Queued(j, u)
    BY <1>2
<1>4. ASSUME NEW i \in DOMAIN mail, NEW u \in Users, Copy(i, u)'
      PROVE  Copy(i, u)
    BY <1>1, <1>3, <1>4, Numbers DEF Copy, Held, Arrived
<1>5. (HeldFirst /\ HeldOnce)'
    BY <1>1, <1>3, Numbers DEF MailInv, HeldFirst, HeldOnce, Ahead, Broad
<1>6. (InboxFirst /\ InboxSorted)'
    BY <1>1, <1>3, Numbers DEF MailInv, InboxFirst, InboxSorted, Ahead, Broad
<1>7. Broad(h) /\ \A j \in DOMAIN mail : Queued(j, BroadcastType)' => Broad(j) /\ h < j
    BY <1>2, <1>3, Numbers DEF MailInv, BroadcastsWait, Ahead
<1>8. BroadcastsWait'
    BY <1>1, <1>7 DEF BroadcastsWait, Broad
<1>9. SpreadInOrder'
    <2>1. ASSUME NEW i \in DOMAIN mail, NEW u \in Users, Broad(i), Copy(i, u)'
          PROVE  /\ \A j \in DOMAIN mail : Queued(j, BroadcastType)' => i < j
                 /\ i < h /\ ~(u < 2)
        BY <1>2, <1>3, <1>4, <2>1, Numbers, SessionAssumption
        DEF MailInv, SpreadInOrder, Users
    <2> QED
        BY <1>1, <2>1 DEF SpreadInOrder, Broad
<1> QED
    BY <1>2, <1>5, <1>6, <1>8, <1>9 DEF MailInv

\* A copy of it is behind every broadcast that its user has got.
LEMMA BroadcasterForwardOrder ==
    ASSUME TypeOK, Control, MailInv, BroadcasterForward
    PROVE  MailInv'
<1>1. /\ bpc = "forward" /\ bpos \in Users /\ bpos \in Types /\ bpos \in Nat
      /\ bpos' = bpos + 1 /\ QueueOrder
      /\ UNCHANGED <<mail, lmsg, inbox, destroyed, bpc, bmsg>>
      /\ UNCHANGED queue \/ MsgSnd(bpos, bmsg)
    BY Numbers DEF BroadcasterForward, MailInv, listenerVars, kernel
<1>2. bmsg \in DOMAIN mail
    BY <1>1, Numbers DEF TypeOK, Control
<1>3. bmsg \in Nat /\ Broad(bmsg)
    BY <1>1, <1>2, Numbers DEF MailInv, BroadcastsWait
\* Whatever has come to the user is in front of the message.
<1>4. ASSUME NEW j \in DOMAIN mail, Copy(j, bpos)
      PROVE  Ahead(j, bmsg)
    BY <1>1, <1>3, <1>4 DEF MailInv, SpreadInOrder, Ahead
<1>5. CASE UNCHANGED queue
    <2>1. \A i, u : (Copy(i, u)' <=> Copy(i, u)) /\ (Queued(i, u)' <=> Queued(i, u))
        BY <1>1, <1>5 DEF Copy, Queued, Held, Arrived
    <2>2. (QueueOrder /\ HeldFirst /\ HeldOnce /\ InboxFirst /\ InboxSorted)'
        BY <1>1, <1>5, <2>1 DEF MailInv, QueueOrder, HeldFirst, HeldOnce,
            InboxFirst, InboxSorted, Ahead, Broad
    <2>3. BroadcastsWait'
        BY <1>1, <2>1 DEF MailInv, BroadcastsWait, Broad
    <2>4. SpreadInOrder'
        <3>1. ASSUME NEW i \in DOMAIN mail, NEW u \in Users, Broad(i), Copy(i, u)
              PROVE  IF u < bpos + 1 THEN i <= bmsg ELSE i < bmsg
            BY <1>1, <1>3, <3>1, Numbers DEF MailInv, SpreadInOrder
        <3> QED
            BY <1>1, <2>1, <3>1 DEF MailInv, SpreadInOrder, Broad
    <2> QED
        BY <2>2, <2>3, <2>4 DEF MailInv
<1>6. CASE MsgSnd(bpos, bmsg)
    <2>1. \A u \in Types : \A j : Queued(j, u)' <=> Queued(j, u) \/ (u = bpos /\ j = bmsg)
        BY <1>1, <1>6, SndQueued
    <2>2. \A j \in DOMAIN mail : Queued(j, bpos) => Ahead(j, bmsg)
        BY <1>4 DEF Copy
    <2>3. QueueOrder'
        BY <1>1, <1>6, <2>2, SndOrder DEF Ahead, Broad
    <2>4. HeldFirst'
        <3>1. ASSUME NEW s \in Sessions, lmsg[s] # 0, Owner[s] = bpos
              PROVE  Ahead(lmsg[s], bmsg)
            <4>1. lmsg[s] \in DOMAIN mail /\ Held(lmsg[s], bpos)
                <5>1. lmsg[s] \in DOMAIN mail
                    BY <3>1, Numbers DEF TypeOK
                <5>2. Held(lmsg[s], bpos)
                    BY <1>1, <3>1 DEF Held, Of
                <5> QED
                    BY <5>1, <5>2
            <4> QED
                BY <1>4, <4>1 DEF Copy
        <3> QED
            <4>1. ASSUME NEW s \in Sessions, lmsg[s] # 0,
                         NEW j \in DOMAIN mail, Queued(j, Owner[s])'
                  PROVE  Ahead(lmsg[s], j)
                <5>1. PICK u \in Types : u = Owner[s]
                    BY Numbers
                <5>2. Queued(j, u)'
                    BY <4>1, <5>1
                <5>3. Queued(j, u) \/ (u = bpos /\ j = bmsg)
                    BY <2>1, <5>2
                <5> QED
                    BY <3>1, <4>1, <5>1, <5>3 DEF MailInv, HeldFirst
            <4> QED
                BY <1>1, <4>1 DEF HeldFirst, Ahead, Broad
    <2>5. HeldOnce'
        BY <1>1 DEF MailInv, HeldOnce
    <2>6. InboxFirst'
        <3>1. ASSUME NEW s \in Sessions, NEW m \in DOMAIN inbox[s], Owner[s] = bpos
              PROVE  Ahead(inbox[s][m], bmsg)
            <4>1. inbox[s][m] \in DOMAIN mail
                BY <3>1, Numbers DEF TypeOK
            <4>2. Arrived(inbox[s][m], bpos)
                BY <1>1, <3>1 DEF Arrived, Of
            <4> QED
                BY <1>4, <4>1, <4>2 DEF Copy
        <3>2. ASSUME NEW s \in Sessions, NEW m \in DOMAIN inbox[s],
                     NEW j \in DOMAIN mail, Queued(j, Owner[s])'
              PROVE  Ahead(inbox[s][m], j)
            BY <2>1, <3>1, <3>2, Numbers DEF MailInv, InboxFirst
        <3> QED
            BY <1>1, <3>2 DEF MailInv, InboxFirst, Ahead, Broad
    <2>7. InboxSorted'
        BY <1>1 DEF MailInv, InboxSorted, Ahead, Broad
    <2>8. \A j \in DOMAIN mail : Queued(j, BroadcastType)' <=> Queued(j, BroadcastType)
        BY <1>1, <2>1, Numbers
    <2>9. BroadcastsWait'
        BY <1>1, <2>8 DEF MailInv, BroadcastsWait, Broad
    <2>10. SpreadInOrder'
        <3>1. ASSUME NEW i \in DOMAIN mail, NEW u \in Users, Copy(i, u)'
              PROVE  Copy(i, u) \/ (i = bmsg /\ u = bpos)
            <4>1. (Held(i, u)' => Held(i, u)) /\ (Arrived(i, u)' => Arrived(i, u))
                BY <1>1 DEF Held, Arrived
            <4> QED
                BY <1>1, <2>1, <3>1, <4>1, Numbers DEF Copy
        <3>2. ASSUME NEW i \in DOMAIN mail, NEW u \in Users, Broad(i), Copy(i, u)'
              PROVE  /\ \A j \in DOMAIN mail : Queued(j, BroadcastType) => i < j
                     /\ IF u < bpos + 1 THEN i <= bmsg ELSE i < bmsg
            <4>1. CASE Copy(i, u)
                BY <1>1, <1>3, <3>2, <4>1, Numbers DEF MailInv, SpreadInOrder
            <4>2. CASE i = bmsg /\ u = bpos
                BY <1>1, <1>3, <4>2 DEF MailInv, BroadcastsWait
            <4> QED
                BY <3>1, <3>2, <4>1, <4>2
        <3> QED
            BY <1>1, <2>8, <3>2 DEF SpreadInOrder, Broad
    <2> QED
        BY <2>3, <2>4, <2>5, <2>6, <2>7, <2>9, <2>10 DEF MailInv
<1> QED
    BY <1>1, <1>5, <1>6

-----------------------------------------------------------------------------
\* A step that moves no message.
Quiet ==
    /\ UNCHANGED <<queue, mail, lmsg, inbox, destroyed>>
    /\ UNCHANGED <<bpc, bmsg, bpos>> \/ bpc' # "forward"

\* What the steps of a handler do with messages.
LEMMA HandlerMoves ==
    ASSUME TypeOK, NEW s \in Sessions, HandlerStep(s)
    PROVE  \/ Post(s)
           \/ Block(s) /\ Quiet
           \/ Unblock(s) /\ Quiet
           \/ Logout(s) /\ Drop(s)
           \/ Logout(s) /\ Quiet /\ UNCHANGED blocked
           \/ UNCHANGED blocked /\ Quiet /\ ~Logout(s)
<1> USE DEF table, kernel, listenerVars, broadVars, Quiet
<1>1. CASE Logout(s)
    <2>1. CASE lmsg[s] = 0
        <3>1. lmsg' = lmsg
            BY <1>1, <2>1 DEF Logout, TypeOK
        <3> QED
            BY <1>1, <2>1, <3>1 DEF Logout
    <2>2. CASE lmsg[s] # 0
        BY <1>1, <2>2 DEF Logout, Drop
    <2> QED
        BY <2>1, <2>2
<1>2. CASE ~Logout(s)
    <2>1. CASE Block(s)
        BY <2>1 DEF Block
    <2>2. CASE Unblock(s)
        BY <2>2 DEF Unblock
    <2>3. CASE ~Block(s) /\ ~Unblock(s) /\ ~Post(s)
        BY <1>2, <2>3 DEF HandlerStep, Enter, TakeMessage, TakeUnaddressed,
            Acknowledge, TakeStatus, ReportLine, Crash
    <2> QED
        BY <2>1, <2>2, <2>3
<1> QED
    BY <1>1, <1>2

\* And those of a listener.
LEMMA ListenerMoves ==
    ASSUME Control, NEW s \in Sessions, ListenerStep(s)
    PROVE  /\ UNCHANGED blocked
           /\ \/ Receive(s)
              \/ Discard(s) /\ Drop(s)
              \/ Forward(s) /\ Arrives(s) /\ Deliver(s)
              \/ Forward(s) /\ ~Arrives(s) /\ Drop(s)
              \/ (Poll(s) \/ Orphaned(s) \/ Pass(s)) /\ Quiet
<1> USE DEF table, kernel, listenerVars, broadVars
<1>1. lpc[s] \in {"check", "send"} => lmsg[s] # 0
    BY DEF Control, SessionControl
<1>2. CASE Poll(s) \/ Orphaned(s) \/ Pass(s)
    BY <1>2 DEF Poll, Orphaned, Pass, Quiet
<1>3. CASE Discard(s)
    BY <1>1, <1>3 DEF Discard, Drop
<1>4. CASE Forward(s)
    BY <1>1, <1>4 DEF Forward, Drop, Deliver
<1>5. CASE Receive(s)
    BY <1>5 DEF Receive
<1> QED
    BY <1>2, <1>3, <1>4, <1>5 DEF ListenerStep

\* The other processes, but for the broadcaster, move no message.
LEMMA OtherMoves ==
    ASSUME \/ \E s \in Sessions : Login(s) \/ Refuse(s) \/ Ask(s) \/ ClientClose(s)
           \/ BroadcasterPoll \/ BroadcasterDone \/ MainExits \/ UNCHANGED vars
    PROVE  Quiet /\ UNCHANGED blocked
    BY DEF Login, Refuse, Ask, ClientClose, BroadcasterPoll, BroadcasterDone,
        MainExits, vars, Quiet, table, kernel, listenerVars, broadVars

\* Every step keeps the order.
LEMMA StepOrder ==
    TypeOK /\ Control /\ MailInv /\ [Next]_vars => MailInv'
<1> SUFFICES ASSUME TypeOK, Control, MailInv, [Next]_vars
             PROVE  MailInv'
    OBVIOUS
<1>1. ASSUME Quiet
      PROVE  MailInv'
    BY <1>1, QuietOrder DEF Quiet
<1>2. ASSUME NEW s \in Sessions, HandlerStep(s)
      PROVE  MailInv'
    BY <1>1, <1>2, HandlerMoves, PostOrder, DropOrder
<1>3. ASSUME NEW s \in Sessions, ListenerStep(s)
      PROVE  MailInv'
    BY <1>1, <1>3, ListenerMoves, ReceiveOrder, DropOrder, DeliverOrder
<1> QED
    BY <1>1, <1>2, <1>3, OtherMoves, BroadcasterReceiveOrder,
       BroadcasterForwardOrder
    DEF Next, BroadcasterStep

\* There is no message at the start.
LEMMA InitOrder == Init => MailInv
<1> SUFFICES ASSUME Init PROVE MailInv
    OBVIOUS
<1>1. /\ \A t \in Types : queue[t] = << >>
      /\ \A s \in Sessions : lmsg[s] = 0 /\ inbox[s] = << >>
      /\ mail = << >> /\ bpc = "poll"
    BY DEF Init
<1> QED
    BY <1>1 DEF MailInv, QueueOrder, HeldFirst, HeldOnce, InboxFirst,
        InboxSorted, BroadcastsWait, SpreadInOrder

\* A client gets private messages in the order in which they were accepted, and
\* broadcasts too, although two listeners of a user may race for her queue and
\* the broadcaster makes copies of one message while others are accepted.
THEOREM InboxesInOrder == Spec => []InboxOrder
<1>1. MailInv => InboxOrder
    BY DEF MailInv, InboxSorted, InboxOrder, Ahead, Broad
<1> QED
    BY <1>1, InitCInv, StepCInv, InitOrder, StepOrder, PTL DEF Spec

-----------------------------------------------------------------------------
(* The processes implement the mail service.                               *)

\* The client of a socket in state k has gone, or is about to.
Gone(k) == k \in {"leaving", "fin", "rst", "closed"}

\* Whose client has gone depends on the sockets alone.
LEMMA LeftSame ==
    ASSUME \A s \in Sessions : Gone(sock[s])' <=> Gone(sock[s])
    PROVE  Left' = Left
    BY DEF Left, Of, Gone

\* A step of a client adds its user to those of whom a client has gone, or nobody.
LEMMA ClientLeft ==
    ASSUME TypeOK, Control, NEW s \in Sessions,
           Login(s) \/ Refuse(s) \/ Ask(s) \/ ClientClose(s)
    PROVE  Left' = Left \/ Left' = Left \cup {Owner[s]}
<1>1. CASE Login(s)
    <2>1. sock[s] = "none" /\ sock' = [sock EXCEPT ![s] = "open"]
        BY <1>1 DEF Login, Control, SessionControl
    <2>2. \A t \in Sessions : Gone(sock[t])' <=> Gone(sock[t])
        BY <2>1 DEF Gone, TypeOK
    <2> QED
        BY <2>2, LeftSame
<1>2. CASE Refuse(s)
    BY <1>2, LeftSame DEF Refuse, Gone
<1>3. CASE Ask(s) \/ ClientClose(s)
    <2>1. PICK k : sock' = [sock EXCEPT ![s] = k] /\ (Gone(k) \/ (k = "open" /\ sock[s] = "open"))
        BY <1>3 DEF Ask, ClientClose, Gone
    <2>2. sock'[s] = k /\ \A t \in Sessions : t # s => sock'[t] = sock[t]
        BY <2>1 DEF TypeOK
    <2>3. CASE Gone(k)
        <3>1. Left' = Left \cup {Owner[s]}
            <4>1. Owner[s] \in Users /\ Owner[s] \in Left'
                BY <2>2, <2>3, SessionAssumption DEF Left, Of, Gone
            <4>2. \A u \in Users : u # Owner[s] => (u \in Left' <=> u \in Left)
                BY <2>2 DEF Left, Of
            <4>3. Left \subseteq Users /\ Left' \subseteq Users /\ Left \subseteq Left'
                BY <2>2, <2>3 DEF Left, Of, Gone
            <4> QED
                BY <4>1, <4>2, <4>3
        <3> QED
            BY <3>1
    <2>4. CASE k = "open" /\ sock[s] = "open"
        BY <2>2, <2>4, LeftSame DEF Gone
    <2> QED
        BY <2>1, <2>3, <2>4
<1> QED
    BY <1>1, <1>2, <1>3

\* The server's steps add nobody: a send to a client, and the close after its
\* logout, find it gone already.
LEMMA ServerLeft ==
    ASSUME TypeOK, Control, NEW s \in Sessions, HandlerStep(s) \/ ListenerStep(s)
    PROVE  Left' = Left /\ (Logout(s) => Owner[s] \in Left)
<1>1. ASSUME NEW next, HandlerSend(s, next)
      PROVE  Left' = Left
    <2>1. /\ \A t \in Sessions : t # s => sock'[t] = sock[t]
          /\ sock'[s] = sock[s] \/ (sock[s] = "fin" /\ sock'[s] = "rst")
        BY <1>1 DEF HandlerSend, SockAfterSend, TypeOK
    <2>2. \A t \in Sessions : Gone(sock[t])' <=> Gone(sock[t])
        BY <2>1 DEF Gone
    <2> QED
        BY <2>2, LeftSame
<1>2. ASSUME Logout(s)
      PROVE  Left' = Left /\ Owner[s] \in Left
    <2>1. TakeRequest(s, "exited") /\ Request(s).oper = 6
          /\ sock' = [sock EXCEPT ![s] = "closed"]
        BY <1>2 DEF Logout
    <2>2. sock[s] \notin {"none", "open"}
        BY <2>1, TakeFacts DEF Control, SessionControl
    <2>3. Gone(sock[s]) /\ Gone(sock'[s])
        BY <2>1, <2>2 DEF TypeOK, Gone
    <2>4. \A t \in Sessions : t # s => sock'[t] = sock[t]
        BY <2>1 DEF TypeOK
    <2>5. \A t \in Sessions : Gone(sock[t])' <=> Gone(sock[t])
        BY <2>3, <2>4 DEF Gone
    <2>6. Owner[s] \in Left
        BY <2>3, SessionAssumption DEF Left, Of, Gone
    <2> QED
        BY <2>5, <2>6, LeftSame
<1>3. ASSUME Forward(s)
      PROVE  Left' = Left
    <2>1. /\ \A t \in Sessions : t # s => sock'[t] = sock[t]
          /\ sock'[s] = sock[s] \/ (sock[s] = "fin" /\ sock'[s] = "rst")
        BY <1>3 DEF Forward, SockAfterSend, TypeOK
    <2>2. \A t \in Sessions : Gone(sock[t])' <=> Gone(sock[t])
        BY <2>1 DEF Gone
    <2> QED
        BY <2>2, LeftSame
<1>4. ASSUME UNCHANGED sock
      PROVE  Left' = Left
    BY <1>4, LeftSame DEF Gone
<1>5. CASE ListenerStep(s) /\ ~Forward(s)
    <2>1. UNCHANGED sock /\ ~Logout(s)
        BY <1>5 DEF ListenerStep, Poll, Orphaned, Receive, Pass, Discard,
            Logout, TakeRequest, handlerVars, TypeOK
    <2> QED
        BY <1>4, <2>1
<1>6. CASE HandlerStep(s) /\ ~Logout(s)
    <2>1. UNCHANGED sock \/ \E next : HandlerSend(s, next)
        BY <1>6 DEF HandlerStep, Enter, TakeMessage, TakeUnaddressed, Post,
            Acknowledge, TakeStatus, ReportLine, Block, Unblock, Crash
    <2> QED
        BY <1>1, <1>4, <1>6, <2>1
<1> QED
    BY <1>2, <1>3, <1>5, <1>6

\* Membership in the sets of copies.
LEMMA CopySets ==
    ASSUME NEW i, NEW u
    PROVE  /\ <<i, u>> \in Pending <=> /\ i \in DOMAIN mail /\ u \in Users
                                       /\ Queued(i, u) \/ Held(i, u)
           /\ <<i, u>> \in Delivered <=> i \in DOMAIN mail /\ u \in Users /\ Arrived(i, u)
           /\ Pending \subseteq (DOMAIN mail) \X Users
           /\ Delivered \subseteq (DOMAIN mail) \X Users
    BY DEF Pending, Delivered

\* Copies move only if the tests for them do.
LEMMA SameCopies ==
    ASSUME UNCHANGED mail,
           \A i \in DOMAIN mail : \A u \in Users :
               /\ (Queued(i, u) \/ Held(i, u))' <=> Queued(i, u) \/ Held(i, u)
               /\ Arrived(i, u)' <=> Arrived(i, u)
    PROVE  UNCHANGED <<Pending, Delivered>>
    BY DEF Pending, Delivered

\* A step that moves no message.
LEMMA QuietMail ==
    ASSUME Quiet
    PROVE  UNCHANGED <<mail, destroyed, Pending, Delivered>>
<1>1. \A i, u : (Queued(i, u)' <=> Queued(i, u)) /\ (Held(i, u)' <=> Held(i, u))
                /\ (Arrived(i, u)' <=> Arrived(i, u))
    BY DEF Quiet, Queued, Held, Arrived
<1> QED
    BY <1>1, SameCopies DEF Quiet

\* The message that a listener holds is on its way, and nowhere else.
LEMMA HeldAlone ==
    ASSUME TypeOK, MailInv, NEW s \in Sessions, lmsg[s] # 0,
           lmsg' = [lmsg EXCEPT ![s] = 0], UNCHANGED <<queue, mail>>
    PROVE  /\ lmsg[s] \in DOMAIN mail /\ Owner[s] \in Users
           /\ <<lmsg[s], Owner[s]>> \in Pending
           /\ Pending' = Pending \ {<<lmsg[s], Owner[s]>>}
<1>1. PICK i : i = lmsg[s]
    OBVIOUS
<1>2. PICK u : u = Owner[s]
    OBVIOUS
<1>3. i \in DOMAIN mail /\ u \in Users /\ u \in Types
    <2>1. lmsg[s] \in 0..Len(mail)
        BY DEF TypeOK
    <2> QED
        BY <1>1, <1>2, <2>1, Numbers
<1>4. Held(i, u)
    BY <1>1, <1>2, <1>3 DEF Held, Of
<1>5. ~Queued(i, u)
    BY <1>1, <1>2, <1>3, Numbers DEF MailInv, HeldFirst, Ahead
<1>6. lmsg'[s] = 0 /\ \A t \in Sessions : t # s => lmsg'[t] = lmsg[t]
    BY DEF TypeOK
<1>7. 0 \notin DOMAIN mail
    BY Numbers
<1>8. ~Held(i, u)'
    BY <1>1, <1>2, <1>3, <1>6, <1>7 DEF Held, Of, MailInv, HeldOnce
<1>9. \A j, v : Queued(j, v)' <=> Queued(j, v)
    BY DEF Queued
<1>10. ASSUME NEW j \in DOMAIN mail, NEW v \in Users, <<j, v>> # <<i, u>>
       PROVE  Held(j, v)' <=> Held(j, v)
    BY <1>1, <1>2, <1>6, <1>7, <1>10 DEF Held, Of
<1>11. ASSUME NEW j \in DOMAIN mail, NEW v \in Users
       PROVE  (Queued(j, v) \/ Held(j, v))' <=>
                  (Queued(j, v) \/ Held(j, v)) /\ <<j, v>> # <<i, u>>
    BY <1>5, <1>8, <1>9, <1>10
<1>12. Pending' = Pending \ {<<i, u>>}
    BY <1>11 DEF Pending
<1>13. <<i, u>> \in Pending
    BY <1>3, <1>4, CopySets
<1> QED
    BY <1>1, <1>2, <1>3, <1>12, <1>13

\* A copy is destroyed for a cause.
LEMMA DropMail ==
    ASSUME TypeOK, MailInv, NEW s \in Sessions, Drop(s), Left' = Left,
           mail[lmsg[s]].from \in blocked[Owner[s]] \/ Owner[s] \in Left
    PROVE  Mail!Next
<1>1. /\ lmsg[s] \in DOMAIN mail /\ Owner[s] \in Users
      /\ <<lmsg[s], Owner[s]>> \in Pending
      /\ Pending' = Pending \ {<<lmsg[s], Owner[s]>>}
    BY HeldAlone DEF Drop
<1>2. Delivered' = Delivered
    BY DEF Drop, Delivered, Arrived
<1>3. Mail!Destroy(lmsg[s], Owner[s])
    BY <1>1, <1>2 DEF Mail!Destroy, Drop
<1> QED
    BY <1>1, <1>3 DEF Mail!Next

\* A copy is handed over.
LEMMA DeliverMail ==
    ASSUME TypeOK, MailInv, NEW s \in Sessions, Deliver(s), Left' = Left
    PROVE  Mail!Next
<1>1. /\ lmsg[s] \in DOMAIN mail /\ Owner[s] \in Users
      /\ <<lmsg[s], Owner[s]>> \in Pending
      /\ Pending' = Pending \ {<<lmsg[s], Owner[s]>>}
    BY HeldAlone DEF Deliver
<1>2. Delivered' = Delivered \cup {<<lmsg[s], Owner[s]>>}
    <2>1. \A i : \A u \in Users : Arrived(i, u)' <=>
                     Arrived(i, u) \/ (u = Owner[s] /\ i = lmsg[s])
        BY DeliverArrived
    <2>2. mail' = mail
        BY DEF Deliver
    <2> QED
        BY <1>1, <2>1, <2>2 DEF Delivered
<1>3. Mail!Deliver(lmsg[s], Owner[s])
    BY <1>1, <1>2 DEF Mail!Deliver, Deliver
<1> QED
    BY <1>1, <1>3 DEF Mail!Next

\* msgsnd of a client's message accepts it.
LEMMA PostMail ==
    ASSUME TypeOK, Control, NEW s \in Sessions, Post(s)
    PROVE  Mail!Next
<1>1. PICK t \in Types :
          /\ MsgSnd(t, Len(mail) + 1)
          /\ mail' = Append(mail, [from |-> Owner[s], to |-> t])
          /\ DOMAIN mail' = 1..(Len(mail) + 1) /\ Len(mail) \in Nat
          /\ Len(mail') = Len(mail) + 1
    BY PostFacts
<1>2. PICK i \in Nat : i = Len(mail) + 1
    BY <1>1
<1>3. /\ DOMAIN mail' = DOMAIN mail \cup {i} /\ i \notin DOMAIN mail /\ i # 0
      /\ Len(mail') = i
    BY <1>1, <1>2, Numbers
<1>4. UNCHANGED <<lmsg, inbox, destroyed, blocked, sock>>
    BY DEF Post, listenerVars, table
<1>5. \A u \in Types : \A j : Queued(j, u)' <=> Queued(j, u) \/ (u = t /\ j = i)
    BY <1>1, <1>2, SndQueued
<1>6. /\ \A r \in Sessions : lmsg[r] # i
      /\ \A r \in Sessions : \A m \in DOMAIN inbox[r] : inbox[r][m] # i
    <2>1. \A r \in Sessions : lmsg[r] # i
        BY <1>3 DEF TypeOK
    <2>2. \A r \in Sessions : \A m \in DOMAIN inbox[r] : inbox[r][m] # i
        BY <1>3 DEF TypeOK
    <2> QED
        BY <2>1, <2>2
<1>7. \A j, u : (Held(j, u)' <=> Held(j, u)) /\ (Arrived(j, u)' <=> Arrived(j, u))
    BY <1>4 DEF Held, Arrived
<1>8. \A u \in Users : ~Queued(i, u) /\ ~Held(i, u) /\ ~Arrived(i, u)
    BY <1>3, <1>6, Numbers DEF Held, Arrived, Of
<1>9. Delivered' = Delivered
    BY <1>3, <1>7, <1>8 DEF Delivered
<1>10. ASSUME NEW j \in DOMAIN mail', NEW u \in Users
       PROVE  (Queued(j, u) \/ Held(j, u))' <=>
                  \/ j \in DOMAIN mail /\ (Queued(j, u) \/ Held(j, u))
                  \/ u = t /\ j = i
    BY <1>3, <1>5, <1>7, <1>8, Numbers
<1>11. Pending' = IF t = BroadcastType THEN Pending ELSE Pending \cup {<<i, t>>}
    <2>1. CASE t = BroadcastType
        <3>1. \A u \in Users : u # t
            BY <2>1, Numbers
        <3> QED
            BY <1>3, <1>10, <2>1, <3>1 DEF Pending
    <2>2. CASE t # BroadcastType
        <3>1. t \in Users
            BY <2>2 DEF Types
        <3> QED
            BY <1>3, <1>10, <2>2, <3>1 DEF Pending
    <2> QED
        BY <2>1, <2>2
<1>12. Left' = Left
    BY <1>4, LeftSame DEF Gone
<1>13. Mail!Accept(Owner[s], t)
    BY <1>1, <1>3, <1>4, <1>9, <1>11, <1>12 DEF Mail!Accept
<1>14. Owner[s] \in Users /\ t \in Users \cup {BroadcastType}
    BY Numbers DEF Types
<1> QED
    BY <1>13, <1>14 DEF Mail!Next

\* msgrcv leaves every copy on its way: it goes from the queue to the listener.
LEMMA ReceiveMail ==
    ASSUME TypeOK, Control, MailInv, NEW s \in Sessions, Receive(s)
    PROVE  UNCHANGED <<mail, destroyed, Pending, Delivered>>
<1>1. PICK h : h = Head(queue[Owner[s]])
    OBVIOUS
<1>2. PICK o \in Users : o = Owner[s] /\ o \in Types
    BY Numbers
<1>3. /\ MsgRcv(o) /\ lmsg' = [lmsg EXCEPT ![s] = h]
      /\ UNCHANGED <<mail, inbox, destroyed>>
    BY <1>1, <1>2 DEF Receive
<1>4. lmsg[s] = 0
    BY DEF Receive, Control, SessionControl
<1>5. lmsg'[s] = h /\ \A t \in Sessions : t # s => lmsg'[t] = lmsg[t]
    BY <1>3 DEF TypeOK
<1>6. /\ Queued(h, o) /\ h \in DOMAIN mail
      /\ \A u \in Types : \A j : u # o => (Queued(j, u)' <=> Queued(j, u))
      /\ \A j : Queued(j, o) => j = h \/ Queued(j, o)'
      /\ \A j : Queued(j, o)' => Queued(j, o)
    BY <1>1, <1>2, <1>3, RcvQueued DEF MailInv
<1>7. 0 \notin DOMAIN mail
    BY Numbers
<1>8. ASSUME NEW j \in DOMAIN mail, NEW u \in Users
      PROVE  Held(j, u)' <=> Held(j, u) \/ (j = h /\ u = o)
    BY <1>2, <1>4, <1>5, <1>7 DEF Held, Of
<1>9. ASSUME NEW j \in DOMAIN mail, NEW u \in Users
      PROVE  (Queued(j, u) \/ Held(j, u))' <=> Queued(j, u) \/ Held(j, u)
    BY <1>6, <1>8, Numbers
<1>10. \A j, u : Arrived(j, u)' <=> Arrived(j, u)
    BY <1>3 DEF Arrived
<1> QED
    BY <1>3, <1>9, <1>10, SameCopies

\* What waits for the broadcaster is no copy yet.
LEMMA BroadcasterReceiveMail ==
    ASSUME TypeOK, MailInv, BroadcasterReceive
    PROVE  UNCHANGED <<mail, destroyed, Pending, Delivered>>
<1>1. MsgRcv(BroadcastType) /\ UNCHANGED <<mail, lmsg, inbox, destroyed>>
    BY DEF BroadcasterReceive, listenerVars
<1>2. \A u \in Users : \A j : Queued(j, u)' <=> Queued(j, u)
    BY <1>1, RcvQueued, Numbers DEF MailInv
<1>3. \A j, u : (Held(j, u)' <=> Held(j, u)) /\ (Arrived(j, u)' <=> Arrived(j, u))
    BY <1>1 DEF Held, Arrived
<1> QED
    BY <1>1, <1>2, <1>3, SameCopies

\* The broadcaster makes a copy, or passes the sender over.
LEMMA BroadcasterForwardMail ==
    ASSUME TypeOK, Control, MailInv, BroadcasterForward
    PROVE  [Mail!Next]_Mail!mailVars
<1>1. /\ bpc = "forward" /\ bpos \in Users /\ bpos \in Types /\ bpos \in Nat
      /\ UNCHANGED <<mail, lmsg, inbox, destroyed, sock, blocked>>
      /\ UNCHANGED queue \/ (mail[bmsg].from # bpos /\ MsgSnd(bpos, bmsg))
    BY Numbers DEF BroadcasterForward, listenerVars, kernel, table
<1>2. bmsg \in DOMAIN mail /\ bmsg \in Nat
    BY <1>1, Numbers DEF TypeOK, Control
<1>3. Left' = Left
    BY <1>1, LeftSame DEF Gone
<1>4. \A j, u : (Held(j, u)' <=> Held(j, u)) /\ (Arrived(j, u)' <=> Arrived(j, u))
    BY <1>1 DEF Held, Arrived
<1>5. CASE UNCHANGED queue
    <2>1. UNCHANGED <<Pending, Delivered>>
        BY <1>1, <1>4, <1>5, SameCopies DEF Queued
    <2> QED
        BY <1>1, <1>3, <2>1 DEF Mail!mailVars
<1>6. CASE mail[bmsg].from # bpos /\ MsgSnd(bpos, bmsg)
    <2>1. \A u \in Types : \A j : Queued(j, u)' <=> Queued(j, u) \/ (u = bpos /\ j = bmsg)
        BY <1>1, <1>6, SndQueued
    <2>2. Broad(bmsg)
        BY <1>1 DEF MailInv, BroadcastsWait
    <2>3. ~Copy(bmsg, bpos)
        BY <1>1, <1>2, <2>2 DEF MailInv, SpreadInOrder
    <2>4. <<bmsg, bpos>> \notin Mail!Copies
        BY <2>3 DEF Mail!Copies, Copy, Pending, Delivered
    <2>5. Delivered' = Delivered
        BY <1>1, <1>4 DEF Delivered
    <2>6. \A j \in DOMAIN mail, u \in Users :
              (Queued(j, u) \/ Held(j, u))' <=>
                  (Queued(j, u) \/ Held(j, u)) \/ (u = bpos /\ j = bmsg)
        BY <1>4, <2>1, Numbers
    <2>7. Pending' = Pending \cup {<<bmsg, bpos>>}
        <3>1. DOMAIN mail' = DOMAIN mail
            BY <1>1
        <3>2. <<bmsg, bpos>> \in (DOMAIN mail) \X Users
            BY <1>1, <1>2
        <3>3. \A c \in (DOMAIN mail) \X Users :
                  (Queued(c[1], c[2]) \/ Held(c[1], c[2]))' <=>
                      (Queued(c[1], c[2]) \/ Held(c[1], c[2])) \/ c = <<bmsg, bpos>>
            BY <2>6
        <3> QED
            BY <3>1, <3>2, <3>3 DEF Pending
    <2>8. Mail!Spread(bmsg, bpos)
        BY <1>1, <1>3, <1>6, <2>2, <2>4, <2>5, <2>7 DEF Mail!Spread, Broad
    <2> QED
        BY <1>1, <1>2, <2>8 DEF Mail!Next
<1> QED
    BY <1>1, <1>5, <1>6

\* The handler.
LEMMA HandlerMail ==
    ASSUME TypeOK, Control, MailInv, NEW s \in Sessions, HandlerStep(s)
    PROVE  [Mail!Next]_Mail!mailVars
<1>1. Left' = Left /\ (Logout(s) => Owner[s] \in Left)
    BY ServerLeft
<1>2. CASE Post(s)
    BY <1>2, PostMail
<1>3. CASE (Block(s) \/ Unblock(s)) /\ Quiet
    <2>1. UNCHANGED <<mail, destroyed, Pending, Delivered>>
        BY <1>3, QuietMail
    <2>2. PICK v \in Users :
              \/ blocked' = [blocked EXCEPT ![Owner[s]] = @ \cup {v}]
              \/ blocked' = [blocked EXCEPT ![Owner[s]] = @ \ {v}]
        BY <1>3 DEF Block, Unblock
    <2>3. Mail!ChangeBlocks(Owner[s])
        BY <1>1, <2>1, <2>2 DEF Mail!ChangeBlocks
    <2> QED
        BY <2>3, Numbers DEF Mail!Next
<1>4. CASE Logout(s) /\ Drop(s)
    BY <1>1, <1>4, DropMail
<1>5. CASE Quiet /\ UNCHANGED blocked
    <2>1. UNCHANGED <<mail, destroyed, Pending, Delivered>>
        BY <1>5, QuietMail
    <2> QED
        BY <1>1, <1>5, <2>1 DEF Mail!mailVars
<1> QED
    BY <1>2, <1>3, <1>4, <1>5, HandlerMoves

\* The listener: what it drops is from a blocked sender, or for a client that
\* has gone.
LEMMA ListenerMail ==
    ASSUME TypeOK, Control, MailInv, NEW s \in Sessions, ListenerStep(s)
    PROVE  [Mail!Next]_Mail!mailVars
<1>1. Left' = Left /\ UNCHANGED blocked
    BY ServerLeft, ListenerMoves
<1>2. CASE Receive(s)
    <2>1. UNCHANGED <<mail, destroyed, Pending, Delivered>>
        BY <1>2, ReceiveMail
    <2> QED
        BY <1>1, <2>1 DEF Mail!mailVars
<1>3. CASE Discard(s) /\ Drop(s)
    <2>1. mail[lmsg[s]].from \in blocked[Owner[s]]
        BY <1>3 DEF Discard, SenderBlocked
    <2> QED
        BY <1>1, <1>3, <2>1, DropMail
<1>4. CASE Forward(s) /\ Arrives(s) /\ Deliver(s)
    BY <1>1, <1>4, DeliverMail
<1>5. CASE Forward(s) /\ ~Arrives(s) /\ Drop(s)
    <2>1. lpc[s] = "send"
        BY <1>5 DEF Forward
    <2>2. sock[s] # "none"
        BY <2>1 DEF Control, SessionControl
    <2>3. Gone(sock[s])
        BY <1>5, <2>2 DEF Arrives, Gone, TypeOK
    <2>4. Owner[s] \in Left
        BY <2>3, SessionAssumption DEF Left, Of, Gone
    <2> QED
        BY <1>1, <1>5, <2>4, DropMail
<1>6. CASE Quiet
    <2>1. UNCHANGED <<mail, destroyed, Pending, Delivered>>
        BY <1>6, QuietMail
    <2> QED
        BY <1>1, <2>1 DEF Mail!mailVars
<1> QED
    BY <1>2, <1>3, <1>4, <1>5, <1>6, ListenerMoves

\* The client.
LEMMA ClientMail ==
    ASSUME TypeOK, Control, NEW s \in Sessions,
           Login(s) \/ Refuse(s) \/ Ask(s) \/ ClientClose(s)
    PROVE  [Mail!Next]_Mail!mailVars
<1>1. Quiet /\ UNCHANGED blocked
    BY OtherMoves
<1>2. UNCHANGED <<mail, destroyed, Pending, Delivered>>
    BY <1>1, QuietMail
<1>3. CASE Left' = Left
    BY <1>1, <1>2, <1>3 DEF Mail!mailVars
<1>4. CASE Left' = Left \cup {Owner[s]}
    <2>1. Mail!ClientLeaves(Owner[s])
        BY <1>1, <1>2, <1>4 DEF Mail!ClientLeaves
    <2> QED
        BY <2>1, Numbers DEF Mail!Next
<1> QED
    BY <1>3, <1>4, ClientLeft

\* Every step of the server is a step of the service, or none.
LEMMA StepMail ==
    TypeOK /\ Control /\ MailInv /\ [Next]_vars => [Mail!Next]_Mail!mailVars
<1> SUFFICES ASSUME TypeOK, Control, MailInv, [Next]_vars
             PROVE  [Mail!Next]_Mail!mailVars
    OBVIOUS
<1>1. ASSUME UNCHANGED <<mail, destroyed, Pending, Delivered>>, UNCHANGED <<sock, blocked>>
      PROVE  [Mail!Next]_Mail!mailVars
    <2>1. Left' = Left
        BY <1>1, LeftSame DEF Gone
    <2> QED
        BY <1>1, <2>1 DEF Mail!mailVars
<1>2. CASE BroadcasterPoll \/ BroadcasterDone \/ MainExits \/ UNCHANGED vars
    <2>1. UNCHANGED <<sock, blocked>>
        BY <1>2 DEF BroadcasterPoll, BroadcasterDone, MainExits, vars, table
    <2>2. Quiet
        BY <1>2, OtherMoves
    <2> QED
        BY <1>1, <2>1, <2>2, QuietMail
<1>3. CASE BroadcasterReceive
    <2>1. UNCHANGED <<sock, blocked>>
        BY <1>3 DEF BroadcasterReceive, table
    <2> QED
        BY <1>1, <1>3, <2>1, BroadcasterReceiveMail
<1> QED
    BY <1>2, <1>3, HandlerMail, ListenerMail, ClientMail, BroadcasterForwardMail
    DEF Next, BroadcasterStep

\* The service starts with no mail.
LEMMA InitMail == Init => Mail!Init
<1> SUFFICES ASSUME Init PROVE Mail!Init
    OBVIOUS
<1>1. mail = << >> /\ destroyed = {} /\ blocked \in [Users -> SUBSET Users]
    BY DEF Init
<1>2. Pending = {} /\ Delivered = {}
    BY <1>1 DEF Pending, Delivered
<1>3. Left = {}
    BY DEF Init, Left, Of
<1> QED
    BY <1>1, <1>2, <1>3 DEF Mail!Init

\* The processes implement the service: no copy is handed over twice, to someone
\* it is not addressed to, or dropped without a cause.
THEOREM MailServiceImplemented == Spec => MailIsKept
    BY InitCInv, StepCInv, InitOrder, StepOrder, InitMail, StepMail, PTL
    DEF Spec, MailIsKept, Mail!Spec
=============================================================================
