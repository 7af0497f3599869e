-------------------------- MODULE MessageBusProofs --------------------------
(***************************************************************************)
(* The local server of the message bus for any number of drivers and       *)
(* messages.  First what a driver is owed (ServeInv): connections are made *)
(* and accepted in order, so a pass only looks at drivers that were there, *)
(* and the requests of a driver are the replies it was sent and the        *)
(* requests that the server has not read.  Then where the messages are     *)
(* (MailInv): each is in one place at a time and never goes back, from     *)
(* which the promise of MailDrop follows step by step.                     *)
(***************************************************************************)
EXTENDS MessageBus, FiniteSetTheorems, SequenceTheorems, WellFoundedInduction, TLAPS

\* What a driver may have sent.
Records == {Put(i) : i \in 1..Len(msgs)} \cup {Get(Identity[c]) : c \in Conns}

\* A driver in recv has not read a word of the reply that it waits for.
Reads ==
    /\ asks \in [Conns -> Nat] /\ words \in [Conns -> Nat]
    /\ \A c \in waiting : words[c] < asks[c]

\* Connections are made, and accepted, in the order of their numbers.
Connected ==
    /\ \A c, d \in Conns : c < d /\ conn[d] # "none" => conn[c] # "none"
    /\ \A c \in Conns : c <= accepted => conn[c] # "none"

\* What select has found readable stays so.
Ready == \A c \in Conns : c \in rset => sent[c] # << >> \/ conn[c] # "open"

\* Nothing was said on a connection that is not made.
Silent ==
    \A c \in Conns : conn[c] = "none" =>
        asks[c] = 0 /\ out[c] = << >> /\ sent[c] = << >>

\* What holds of the connections and the requests.
ServeInv == Connected /\ Ready /\ Silent /\ AnswerPerRequest /\ KilledByDeparture

\* The inductive invariant of types and requests.
BusInv == TypeOK /\ Reads /\ ServeInv

-----------------------------------------------------------------------------
\* A set of numbers has a least one: what First chooses exists.
LEMMA Least ==
    ASSUME NEW S \in SUBSET Nat, S # {}
    PROVE  First(S) \in S /\ \A m \in S : First(S) <= m
<1>1. IsWellFoundedOn(OpToRel(<, Nat), Nat)
    BY NatLessThanWellFounded
<1>2. PICK n \in S : \A m \in S : ~(<<m, n>> \in OpToRel(<, Nat))
    BY <1>1, WFMin
<1>3. \A m \in S : ~(m < n)
    BY <1>2 DEF OpToRel
<1>4. \A m \in S : n <= m
    BY <1>3
<1> QED
    BY <1>4 DEF First

\* Requests and messages are told apart.
LEMMA RecordFacts ==
    /\ \A t : Asked(Get(t)) /\ Get(t).type = t
    /\ \A n : ~Asked(Put(n)) /\ Put(n).msg = n
    /\ ~Asked(Zeroes)
    BY DEF Asked, Get, Put, Zeroes

\* What is left when the first element is taken.
LEMMA TailFacts ==
    ASSUME NEW S, NEW q \in Seq(S), q # << >>
    PROVE  /\ Head(q) \in S /\ Head(q) = q[1] /\ 1 \in DOMAIN q
           /\ Tail(q) \in Seq(S) /\ Len(Tail(q)) = Len(q) - 1
           /\ Len(q) \in Nat /\ DOMAIN q = 1..Len(q)
           /\ DOMAIN Tail(q) = 1..(Len(q) - 1)
           /\ \A n \in DOMAIN Tail(q) : n + 1 \in DOMAIN q /\ Tail(q)[n] = q[n + 1]
    OBVIOUS

\* What an element adds.
LEMMA AppendFacts ==
    ASSUME NEW S, NEW q \in Seq(S), NEW x \in S
    PROVE  /\ Append(q, x) \in Seq(S) /\ Len(Append(q, x)) = Len(q) + 1
           /\ Len(q) \in Nat /\ DOMAIN q = 1..Len(q)
           /\ DOMAIN Append(q, x) = 1..(Len(q) + 1)
           /\ Append(q, x)[Len(q) + 1] = x
           /\ \A n \in DOMAIN q : n \in DOMAIN Append(q, x) /\ Append(q, x)[n] = q[n]
    OBVIOUS

\* More messages do no harm to a sequence of message numbers.
LEMMA SeqWidens ==
    ASSUME NEW S, NEW T, S \subseteq T, NEW q \in Seq(S)
    PROVE  q \in Seq(T)
    OBVIOUS

\* A sequence without its element n, as msgrcv leaves the queue.
Removed(q, n) == SubSeq(q, 1, n - 1) \o SubSeq(q, n + 1, Len(q))

\* The elements before n stay in place, those behind it move up by one.
LEMMA RemoveFacts ==
    ASSUME NEW S, NEW q \in Seq(S), NEW n \in DOMAIN q, NEW r,
           r = Removed(q, n)
    PROVE  /\ r \in Seq(S) /\ Len(r) = Len(q) - 1 /\ DOMAIN r = 1..(Len(q) - 1)
           /\ Len(q) \in Nat /\ DOMAIN q = 1..Len(q) /\ q[n] \in S
           /\ \A m \in 1..(Len(q) - 1) : r[m] = IF m < n THEN q[m] ELSE q[m + 1]
<1> DEFINE a == SubSeq(q, 1, n - 1)
           b == SubSeq(q, n + 1, Len(q))
<1>1. Len(q) \in Nat /\ DOMAIN q = 1..Len(q) /\ n \in Nat /\ 1 <= n /\ n <= Len(q) /\ q[n] \in S
    OBVIOUS
<1>2. a \in Seq(S) /\ Len(a) = n - 1 /\ \A m \in 1..(n - 1) : a[m] = q[m]
    BY <1>1
<1>3. b \in Seq(S) /\ Len(b) = Len(q) - n /\ \A m \in 1..(Len(q) - n) : b[m] = q[n + m]
    <2>1. PICK l \in Nat : l = Len(q)
        BY <1>1
    <2>2. n + 1 \in Int /\ \A m \in (n + 1)..l : q[m] \in S
        BY <1>1, <2>1
    <2>3. /\ b \in Seq(S) /\ Len(b) = IF n + 1 <= l THEN l - (n + 1) + 1 ELSE 0
          /\ \A m \in 1..(l - (n + 1) + 1) : b[m] = q[(n + 1) + m - 1]
        BY <2>1, <2>2, SubSeqProperties
    <2> HIDE DEF b
    <2>4. (l - (n + 1)) + 1 = l - n /\ n <= l /\ n \in Nat
        BY <1>1, <2>1
    <2>5. Len(b) = l - n
        BY <2>3, <2>4
    <2>6. \A m \in 1..(l - n) : (n + 1) + m - 1 = n + m
        BY <1>1, <2>1
    <2> QED
        BY <2>1, <2>3, <2>4, <2>5, <2>6
<1>4. r = a \o b
    BY DEF Removed
<1> HIDE DEF a, b
<1>8. /\ r \in Seq(S) /\ Len(r) = Len(a) + Len(b)
      /\ \A m \in 1..(Len(a) + Len(b)) : r[m] = IF m <= Len(a) THEN a[m] ELSE b[m - Len(a)]
    <2>1. /\ a \o b \in Seq(S) /\ Len(a \o b) = Len(a) + Len(b)
          /\ \A m \in 1..(Len(a) + Len(b)) :
                (a \o b)[m] = IF m <= Len(a) THEN a[m] ELSE b[m - Len(a)]
        BY <1>2, <1>3, ConcatProperties, Zenon
    <2> QED
        BY <1>4, <2>1
<1>5. r \in Seq(S) /\ Len(r) = Len(q) - 1 /\ Len(a) + Len(b) = Len(q) - 1
    <2>1. PICK l \in Nat : l = Len(q)
        BY <1>1
    <2>2. PICK k \in Nat : k = n
        BY <1>1
    <2>3. (k - 1) + (l - k) = l - 1
        OBVIOUS
    <2>4. Len(a) = k - 1 /\ Len(b) = l - k
        BY <1>2, <1>3, <2>1, <2>2
    <2>5. Len(a) + Len(b) = l - 1
        BY <2>3, <2>4
    <2> QED
        BY <1>8, <2>1, <2>5
<1>6. ASSUME NEW m \in 1..(Len(q) - 1)
      PROVE  r[m] = IF m < n THEN q[m] ELSE q[m + 1]
    <2>1. CASE m < n
        <3>1. m \in 1..(n - 1) /\ m <= Len(a)
            BY <1>1, <1>2, <2>1
        <3> QED
            BY <1>2, <1>5, <1>8, <2>1, <3>1
    <2>2. CASE ~(m < n)
        <3>1. PICK l \in Nat : l = Len(q)
            BY <1>1
        <3>2. PICK k \in Nat : k = n /\ k >= 1
            BY <1>1
        <3>5. PICK x \in Nat : x = m /\ x <= l - 1 /\ x >= k
            BY <2>2, <3>1, <3>2
        <3>6. PICK j \in Int : j = x - (k - 1)
            OBVIOUS
        <3>7. j \in 1..(l - k) /\ k + j = x + 1 /\ ~(x <= k - 1)
            BY <3>5, <3>6
        <3>3. j \in 1..(l - n) /\ n + j = m + 1 /\ ~(m <= n - 1) /\ j = m - (n - 1)
            BY <3>2, <3>5, <3>6, <3>7
        <3>4. r[m] = b[j]
            BY <1>2, <1>5, <1>8, <3>3
        <3> QED
            BY <1>3, <2>2, <3>1, <3>3, <3>4
    <2> QED
        BY <2>1, <2>2
<1>7. DOMAIN r = 1..(Len(q) - 1)
    BY <1>5
<1> QED
    BY <1>1, <1>5, <1>6, <1>7

\* msgrcv takes the first of the messages that it may choose from, or leaves
\* its buffer alone.
LEMMA RcvFacts ==
    ASSUME queue \in Seq(1..Len(msgs)), NEW t, MsgRcv(t)
    PROVE  \/ Candidates(t) = {} /\ send_msg' \in {send_msg, Garbage} /\ queue' = queue
           \/ \E n \in Candidates(t) :
                 /\ \A m \in Candidates(t) : n <= m
                 /\ n \in DOMAIN queue /\ send_msg' = queue[n]
                 /\ queue' = Removed(queue, n)
<1>1. CASE Candidates(t) = {}
    BY <1>1 DEF MsgRcv
<1>2. CASE Candidates(t) # {}
    <2>1. Candidates(t) \in SUBSET (DOMAIN queue)
        BY DEF Candidates
    <2>2. Candidates(t) \in SUBSET Nat
        BY <2>1
    <2>3. First(Candidates(t)) \in Candidates(t)
          /\ \A m \in Candidates(t) : First(Candidates(t)) <= m
        BY <1>2, <2>2, Least
    <2> QED
        BY <1>2, <2>1, <2>3 DEF MsgRcv, Removed
<1> QED
    BY <1>1, <1>2

\* The requests in a sequence.
Requests(q) == {n \in DOMAIN q : Asked(q[n])}

\* They can be counted.
LEMMA RequestsFinite ==
    ASSUME NEW S, NEW q \in Seq(S)
    PROVE  IsFiniteSet(Requests(q)) /\ Cardinality(Requests(q)) \in Nat
<1>1. Requests(q) \in SUBSET (1..Len(q)) /\ Len(q) \in Nat
    BY DEF Requests
<1>2. IsFiniteSet(1..Len(q))
    BY <1>1, FS_Interval
<1>3. IsFiniteSet(Requests(q))
    BY <1>1, <1>2, FS_Subset
<1> QED
    BY <1>3, FS_CardinalityType

\* A record more is a request more if it is one.
LEMMA RequestsAppend ==
    ASSUME NEW S, NEW q \in Seq(S), NEW x \in S
    PROVE  Cardinality(Requests(Append(q, x))) =
               Cardinality(Requests(q)) + IF Asked(x) THEN 1 ELSE 0
<1> DEFINE n == Len(q) + 1
<1>1. /\ DOMAIN Append(q, x) = (DOMAIN q) \cup {n} /\ n \notin DOMAIN q
      /\ Append(q, x)[n] = x /\ \A m \in DOMAIN q : Append(q, x)[m] = q[m]
    BY AppendFacts
<1>2. IsFiniteSet(Requests(q)) /\ Cardinality(Requests(q)) \in Nat /\ n \notin Requests(q)
    BY <1>1, RequestsFinite DEF Requests
<1> HIDE DEF n
<1>3. CASE Asked(x)
    <2>1. Requests(Append(q, x)) = Requests(q) \cup {n}
        BY <1>1, <1>3 DEF Requests
    <2>2. Cardinality(Requests(q) \cup {n}) = Cardinality(Requests(q)) + 1
        BY <1>2, FS_AddElement
    <2> QED
        BY <1>3, <2>1, <2>2
<1>4. CASE ~Asked(x)
    <2>1. Requests(Append(q, x)) = Requests(q)
        BY <1>1, <1>4 DEF Requests
    <2> QED
        BY <1>2, <1>4, <2>1
<1> QED
    BY <1>3, <1>4

\* Without its first record a sequence has a request less if that was one.
LEMMA RequestsTail ==
    ASSUME NEW S, NEW q \in Seq(S), q # << >>
    PROVE  Cardinality(Requests(q)) =
               Cardinality(Requests(Tail(q))) + IF Asked(Head(q)) THEN 1 ELSE 0
<1> DEFINE A == Requests(Tail(q))
           B == Requests(q) \ {1}
           f == [n \in A |-> n + 1]
<1>1. /\ 1 \in DOMAIN q /\ Head(q) = q[1] /\ DOMAIN q = 1..Len(q) /\ Len(q) \in Nat
      /\ DOMAIN Tail(q) = 1..(Len(q) - 1)
      /\ \A n \in DOMAIN Tail(q) : n + 1 \in DOMAIN q /\ Tail(q)[n] = q[n + 1]
    BY TailFacts
<1>2. IsFiniteSet(A) /\ Cardinality(A) \in Nat
    BY TailFacts, RequestsFinite
<1>3. \A n \in A : n \in Nat /\ f[n] = n + 1 /\ n + 1 \in B
    BY <1>1 DEF Requests
<1>4. \A m \in B : m - 1 \in A /\ f[m - 1] = m
    <2>1. ASSUME NEW m \in B
          PROVE  m - 1 \in A
        <3>1. m \in 2..Len(q) /\ Asked(q[m])
            BY <1>1 DEF Requests
        <3>2. m - 1 \in DOMAIN Tail(q) /\ (m - 1) + 1 = m
            BY <1>1, <3>1
        <3>3. Tail(q)[m - 1] = q[m]
            BY <1>1, <3>2
        <3> QED
            BY <3>1, <3>2, <3>3 DEF Requests
    <2>2. \A m \in B : m \in Int
        BY <1>1 DEF Requests
    <2> QED
        BY <2>1, <2>2
<1>5. f \in Bijection(A, B)
    <2>1. f \in [A -> B]
        BY <1>3
    <2>2. \A m, n \in A : f[m] = f[n] => m = n
        BY <1>3
    <2>3. \A m \in B : \E n \in A : f[n] = m
        BY <1>4
    <2> HIDE DEF A, B, f
    <2>4. f \in Injection(A, B)
        BY <2>1, <2>2 DEF Injection, IsInjective
    <2>5. f \in Surjection(A, B)
        BY <2>1, <2>3 DEF Surjection
    <2> QED
        BY <2>4, <2>5 DEF Bijection
<1> HIDE DEF A, B, f
<1>6. IsFiniteSet(B) /\ Cardinality(B) = Cardinality(A)
    BY <1>2, <1>5, FS_Bijection DEF ExistsBijection
<1>7. CASE Asked(Head(q))
    <2>1. Requests(q) = B \cup {1} /\ 1 \notin B
        BY <1>1, <1>7 DEF Requests, B
    <2>2. Cardinality(B \cup {1}) = Cardinality(B) + 1
        BY <1>6, <2>1, FS_AddElement
    <2> QED
        BY <1>6, <1>7, <2>1, <2>2 DEF A
<1>8. CASE ~Asked(Head(q))
    <2>1. Requests(q) = B
        BY <1>1, <1>8 DEF Requests, B
    <2>2. Cardinality(A) + 0 = Cardinality(A)
        BY <1>2
    <2> QED
        BY <1>6, <1>8, <2>1, <2>2 DEF A
<1> QED
    BY <1>7, <1>8

-----------------------------------------------------------------------------
\* The type invariant, with the records named.
LEMMA TypeFacts ==
    TypeOK <=>
       /\ msgs \in Seq(Dest \cup Foreign)
       /\ conn \in [Conns -> {"none", "open", "fin", "rst", "gone"}]
       /\ sent \in [Conns -> Seq(Records)]
       /\ out \in [Conns -> Seq(0..Len(msgs))]
       /\ \A c \in Conns : asks[c] \in 0..MaxAsks[c] /\ words[c] \in 0..asks[c]
       /\ waiting \subseteq Conns
       /\ pc \in {"select", "pass", "exited", "killed"}
       /\ accepted \in 0..FdLimit
       /\ allset \subseteq 1..accepted
       /\ rset \subseteq allset
       /\ pbuffer \in Records \cup {Zeroes}
       /\ send_msg \in 0..Len(msgs)
       /\ net \in Seq(1..Len(msgs)) /\ Len(net) <= NetCap
       /\ inc_msg \in 0..Len(msgs)
       /\ queue \in Seq(1..Len(msgs)) /\ Len(queue) <= QueueCap
    BY DEF TypeOK, Records

\* A new message, and all that holds of the ones before.
LEMMA NewMessage ==
    ASSUME TypeOK, NEW t \in Dest \cup Foreign, msgs' = Append(msgs, t)
    PROVE  /\ msgs' \in Seq(Dest \cup Foreign)
           /\ Len(msgs) \in Nat /\ Len(msgs') = Len(msgs) + 1
           /\ 1..Len(msgs) \subseteq 1..Len(msgs') /\ 0..Len(msgs) \subseteq 0..Len(msgs')
           /\ Records \subseteq Records' /\ Put(Len(msgs')) \in Records'
           /\ out \in [Conns -> Seq(0..Len(msgs'))]
           /\ queue \in Seq(1..Len(msgs'))
           /\ net \in Seq(1..Len(msgs')) /\ Len(msgs') \in 1..Len(msgs')
           /\ sent \in [Conns -> Seq(Records')]
<1>1. msgs \in Seq(Dest \cup Foreign)
    BY DEF TypeOK
<1>2. PICK l \in Nat : l = Len(msgs)
    BY <1>1
<1>3. msgs' \in Seq(Dest \cup Foreign) /\ Len(msgs') = l + 1
    BY <1>1, <1>2
<1>4. 1..l \subseteq 1..(l + 1) /\ 0..l \subseteq 0..(l + 1) /\ l + 1 \in 1..(l + 1)
    OBVIOUS
<1>5. Records \subseteq Records' /\ Put(l + 1) \in Records'
    BY <1>2, <1>3, <1>4 DEF Records, Put, Get
<1>6. ASSUME NEW c \in Conns
      PROVE  out[c] \in Seq(0..(l + 1)) /\ sent[c] \in Seq(Records')
    <2>1. out[c] \in Seq(0..l) /\ sent[c] \in Seq(Records)
        BY <1>2, TypeFacts
    <2> QED
        BY <1>4, <1>5, <2>1, SeqWidens
<1>7. out \in [Conns -> Seq(0..(l + 1))] /\ sent \in [Conns -> Seq(Records')]
    BY <1>6, TypeFacts
<1>8. net \in Seq(1..(l + 1)) /\ queue \in Seq(1..(l + 1))
    BY <1>2, <1>4, SeqWidens, TypeFacts
<1> QED
    BY <1>2, <1>3, <1>4, <1>5, <1>7, <1>8

\* A datagram arrives or is lost.
LEMMA CastTypes ==
    ASSUME TypeOK, NEW n \in 1..Len(msgs), Multicast(n)
    PROVE  net' \in Seq(1..Len(msgs)) /\ Len(net') <= NetCap
<1>1. net \in Seq(1..Len(msgs)) /\ Len(net) <= NetCap /\ NetCap \in Nat
    BY TypeFacts, BusAssumption
<1>2. CASE Len(net) < NetCap /\ net' = Append(net, n)
    BY <1>1, <1>2
<1>3. CASE UNCHANGED net
    BY <1>1, <1>3
<1> QED
    BY <1>2, <1>3 DEF Multicast

\* What msgrcv leaves in its buffer and in the queue.
LEMMA RcvTypes ==
    ASSUME TypeOK, NEW t, MsgRcv(t)
    PROVE  /\ send_msg' \in 0..Len(msgs)
           /\ queue' \in Seq(1..Len(msgs)) /\ Len(queue') <= QueueCap
<1>1. /\ queue \in Seq(1..Len(msgs)) /\ Len(queue) <= QueueCap
      /\ send_msg \in 0..Len(msgs) /\ Garbage \in 0..Len(msgs)
      /\ QueueCap \in Nat /\ 1..Len(msgs) \subseteq 0..Len(msgs)
    BY TypeFacts, BusAssumption DEF Garbage
<1>2. CASE Candidates(t) = {} /\ send_msg' \in {send_msg, Garbage} /\ queue' = queue
    BY <1>1, <1>2
<1>3. ASSUME NEW n \in DOMAIN queue, send_msg' = queue[n],
             queue' = Removed(queue, n)
      PROVE  /\ send_msg' \in 0..Len(msgs)
             /\ queue' \in Seq(1..Len(msgs)) /\ Len(queue') <= QueueCap
    <2>1. PICK r : r = Removed(queue, n)
        OBVIOUS
    <2>2. /\ r \in Seq(1..Len(msgs)) /\ Len(r) = Len(queue) - 1
          /\ Len(queue) \in Nat /\ queue[n] \in 1..Len(msgs)
        <3> DEFINE S == 1..Len(msgs)
        <3>1. queue \in Seq(S)
            BY <1>1
        <3> HIDE DEF S
        <3>2. r \in Seq(S) /\ Len(r) = Len(queue) - 1 /\ Len(queue) \in Nat /\ queue[n] \in S
            BY <2>1, <3>1, RemoveFacts
        <3> QED
            BY <3>2 DEF S
    <2>3. Len(r) <= QueueCap
        BY <1>1, <2>2
    <2> QED
        BY <1>1, <1>3, <2>1, <2>2, <2>3
<1> QED
    BY <1>1, <1>2, <1>3, RcvFacts

\* Nobody is connected and there is no message.
LEMMA InitTypes == Init => TypeOK /\ Reads
<1> SUFFICES ASSUME Init PROVE TypeOK /\ Reads
    OBVIOUS
<1>1. Len(<< >>) = 0 /\ \A S : << >> \in Seq(S)
    OBVIOUS
<1>2. /\ sent \in [Conns -> Seq(Records)] /\ out \in [Conns -> Seq(0..Len(msgs))]
      /\ conn \in [Conns -> {"none", "open", "fin", "rst", "gone"}]
    BY <1>1 DEF Init
<1>3. \A c \in Conns : asks[c] \in 0..MaxAsks[c] /\ words[c] \in 0..asks[c]
    BY BusAssumption DEF Init
<1>4. TypeOK
    BY <1>1, <1>2, <1>3, BusAssumption, TypeFacts DEF Init, Garbage
<1> QED
    BY <1>4 DEF Init, Reads

\* The steps of a driver keep the types.
LEMMA DriverTypes ==
    ASSUME TypeOK, Reads, NEW c \in Conns, Driver(c)
    PROVE  TypeOK' /\ Reads'
<1> USE DEF drivers, facing, bus
<1>1. CASE Connect(c)
    BY <1>1 DEF Connect, TypeOK, Reads
<1>2. CASE Send(c)
    <2>1. PICK t \in Dest : msgs' = Append(msgs, t)
        BY <1>2 DEF Send
    <2>2. /\ sent' = [sent EXCEPT ![c] = Append(@, Put(Len(msgs')))]
          /\ UNCHANGED <<conn, out, drivers, facing, bus>>
        BY <1>2 DEF Send
    <2>3. sent' \in [Conns -> Seq(Records')]
        <3>1. Append(sent[c], Put(Len(msgs'))) \in Seq(Records')
            BY <2>1, NewMessage
        <3> QED
            BY <2>1, <2>2, <3>1, NewMessage
    <2>4. /\ pbuffer' \in Records' \cup {Zeroes}
          /\ send_msg' \in 0..Len(msgs') /\ inc_msg' \in 0..Len(msgs')
          /\ out' \in [Conns -> Seq(0..Len(msgs'))]
          /\ net' \in Seq(1..Len(msgs')) /\ queue' \in Seq(1..Len(msgs'))
          /\ msgs' \in Seq(Dest \cup Foreign)
        BY <2>1, <2>2, NewMessage, TypeFacts
    <2> QED
        BY <2>2, <2>3, <2>4, TypeFacts DEF TypeOK, Records, Reads
<1>3. CASE Ask(c)
    <2>1. /\ Idle(c) /\ asks[c] < MaxAsks[c] /\ asks' = [asks EXCEPT ![c] = @ + 1]
          /\ waiting' = waiting \cup {c}
          /\ sent' = [sent EXCEPT ![c] = Append(@, Get(Identity[c]))]
          /\ UNCHANGED <<msgs, conn, out, words, facing, bus>>
        BY <1>3 DEF Ask
    <2>2. sent' \in [Conns -> Seq(Records)]
        <3>1. Get(Identity[c]) \in Records /\ sent[c] \in Seq(Records)
            BY TypeFacts DEF Records
        <3>2. Append(sent[c], Get(Identity[c])) \in Seq(Records)
            BY <3>1
        <3> QED
            BY <2>1, <3>2, TypeFacts
    <2>3. \A d \in Conns : asks'[d] \in 0..MaxAsks[d] /\ words'[d] \in 0..asks'[d]
        <3>1. ASSUME NEW d \in Conns
              PROVE  asks'[d] \in 0..MaxAsks[d] /\ words'[d] \in 0..asks'[d]
            <4>4. asks[d] \in Nat /\ words[d] \in Nat /\ words'[d] = words[d]
                BY <2>1 DEF Reads
            <4>5. MaxAsks[d] \in Nat
                BY BusAssumption
            <4>6. asks[d] \in 0..MaxAsks[d] /\ words[d] \in 0..asks[d]
                BY DEF TypeOK
            <4>1. /\ asks[d] \in Nat /\ words[d] \in Nat /\ MaxAsks[d] \in Nat
                  /\ asks[d] <= MaxAsks[d] /\ words[d] <= asks[d] /\ words'[d] = words[d]
                BY <4>4, <4>5, <4>6
            <4>2. CASE d = c
                <5>1. asks'[d] = asks[d] + 1
                    BY <2>1, <4>2 DEF Reads
                <5> QED
                    BY <2>1, <4>1, <4>2, <5>1
            <4>3. CASE d # c
                BY <2>1, <4>1, <4>3 DEF Reads
            <4> QED
                BY <4>2, <4>3
        <3> QED
            BY <3>1
    <2>4. Reads'
        <3>1. asks' \in [Conns -> Nat] /\ words' \in [Conns -> Nat]
            BY <2>1 DEF Reads
        <3>2. ASSUME NEW d \in waiting'
              PROVE  words'[d] < asks'[d]
            <4>1. CASE d = c
                <5>1. words[c] \in Nat /\ asks[c] \in Nat /\ words[c] <= asks[c]
                    BY DEF TypeOK, Reads
                <5>2. asks'[c] = asks[c] + 1 /\ words'[c] = words[c]
                    BY <2>1 DEF Reads
                <5> QED
                    BY <4>1, <5>1, <5>2
            <4>2. CASE d # c
                <5>1. d \in waiting /\ d \in Conns
                    BY <2>1, <3>2, <4>2 DEF TypeOK
                <5> QED
                    BY <2>1, <4>2, <5>1 DEF Reads
            <4> QED
                BY <4>1, <4>2
        <3> QED
            BY <3>1, <3>2 DEF Reads
    <2>5. waiting' \subseteq Conns
        BY <2>1 DEF TypeOK
    <2> QED
        BY <2>1, <2>2, <2>3, <2>4, <2>5 DEF TypeOK, Records
<1>4. CASE ReadWord(c)
    <2>1. /\ c \in waiting /\ words' = [words EXCEPT ![c] = @ + 1]
          /\ waiting' = waiting \ {c}
          /\ UNCHANGED <<msgs, conn, sent, out, asks, facing, bus>>
        BY <1>4 DEF ReadWord
    <2>2. words[c] \in Nat /\ asks[c] \in Nat /\ words[c] < asks[c]
        BY <2>1 DEF Reads
    <2>3. words'[c] = words[c] + 1 /\ \A d \in Conns : d # c => words'[d] = words[d]
        BY <2>1 DEF Reads
    <2>4. words[c] + 1 \in 0..asks[c]
        BY <2>2
    <2>5. \A d \in Conns : asks'[d] \in 0..MaxAsks[d] /\ words'[d] \in 0..asks'[d]
        BY <2>1, <2>3, <2>4 DEF TypeOK
    <2>6. Reads'
        BY <2>1, <2>3 DEF TypeOK, Reads
    <2> QED
        BY <2>1, <2>5, <2>6 DEF TypeOK
<1>5. CASE ReadFails(c)
    BY <1>5 DEF ReadFails, TypeOK, Reads
<1>6. CASE Close(c)
    BY <1>6 DEF Close, TypeOK, Reads
<1> QED
    BY <1>1, <1>2, <1>3, <1>4, <1>5, <1>6 DEF Driver

\* The server receives what a driver has sent.
LEMMA ReceiveTypes ==
    ASSUME TypeOK, NEW c \in Conns, Receive(c)
    PROVE  /\ sent' \in [Conns -> Seq(Records)] /\ pbuffer' \in Records
           /\ rset' \subseteq allset /\ pc = "pass" /\ c \in rset
<1>1. sent[c] \in Seq(Records) /\ sent[c] # << >>
    BY TypeFacts DEF Receive
<1>2. Head(sent[c]) \in Records /\ Tail(sent[c]) \in Seq(Records)
    BY <1>1
<1> QED
    BY <1>2, TypeFacts DEF Receive, Visit

\* The steps of the server, and of other machines, keep the types.
LEMMA ServerTypes ==
    ASSUME TypeOK, Reads, ClientFacing \/ NetworkFacing \/ ForeignSend
    PROVE  TypeOK' /\ Reads'
<1> USE DEF drivers, facing, bus
<1>1. CASE Select
    <2>1. /\ pbuffer' = Zeroes /\ rset' = Readable /\ pc' \in {"select", "pass"}
          /\ UNCHANGED <<msgs, conn, sent, out, drivers, send_msg, bus>>
        BY <1>1 DEF Select
    <2>2. accepted \in Nat /\ FdLimit \in Nat /\ accepted <= FdLimit /\ allset \subseteq 1..accepted
        BY BusAssumption DEF TypeOK
    <2>3. accepted' \in 0..FdLimit /\ allset' \subseteq 1..accepted' /\ allset \subseteq allset'
        <3>1. CASE UNCHANGED <<accepted, allset>>
            BY <2>2, <3>1
        <3>2. CASE /\ accepted < FdLimit /\ accepted' = accepted + 1
                   /\ allset' = allset \cup {accepted'}
            BY <2>2, <3>2
        <3> QED
            BY <1>1, <3>1, <3>2 DEF Select
    <2>4. rset' \subseteq allset'
        BY <2>1, <2>3 DEF Readable
    <2> QED
        BY <2>1, <2>3, <2>4 DEF TypeOK, Reads
<1>2. CASE AcceptFails
    BY <1>2 DEF AcceptFails, TypeOK, Reads
<1>3. ASSUME NEW c \in Conns, Answer(c)
      PROVE  TypeOK' /\ Reads'
    <2>1. /\ Receive(c) /\ MsgRcv(pbuffer'.type)
          /\ UNCHANGED <<msgs, drivers, accepted, allset, net, inc_msg>>
        BY <1>3 DEF Answer
    <2>2. out' \in [Conns -> Seq(0..Len(msgs))]
        <3>1. out[c] \in Seq(0..Len(msgs)) /\ send_msg' \in 0..Len(msgs)
            BY <2>1, RcvTypes, TypeFacts
        <3>2. Append(out[c], send_msg') \in Seq(0..Len(msgs))
            BY <3>1
        <3> QED
            BY <1>3, <3>2, TypeFacts DEF Answer
    <2>3. conn' \in [Conns -> {"none", "open", "fin", "rst", "gone"}]
        <3>1. PICK k \in CASE conn[c] = "fin" -> {"fin", "gone"}
                           [] conn[c] = "rst" -> {"gone"}
                           [] OTHER           -> {conn[c]} :
                 conn' = [conn EXCEPT ![c] = k]
            BY <1>3 DEF Answer
        <3>2. k \in {"none", "open", "fin", "rst", "gone"}
            BY <3>1, TypeFacts
        <3> QED
            BY <3>1, <3>2, TypeFacts
    <2>4. pc' \in {"select", "pass", "killed"}
        BY <1>3 DEF Answer, AfterVisit
    <2> QED
        BY <2>1, <2>2, <2>3, <2>4, RcvTypes, ReceiveTypes DEF TypeOK, Records, Reads
<1>4. ASSUME NEW c \in Conns, Relay(c)
      PROVE  TypeOK' /\ Reads'
    <2>1. /\ Receive(c) /\ ~Asked(pbuffer') /\ Multicast(pbuffer'.msg)
          /\ pc' \in {"select", "pass"}
          /\ UNCHANGED <<msgs, conn, out, drivers, accepted, allset, send_msg, inc_msg, queue>>
        BY <1>4 DEF Relay, AfterVisit
    <2>2. pbuffer'.msg \in 1..Len(msgs)
        BY <2>1, ReceiveTypes, RecordFacts DEF Records
    <2>3. PICK n \in 1..Len(msgs) : Multicast(n)
        BY <2>1, <2>2
    <2> QED
        BY <2>1, <2>3, CastTypes, ReceiveTypes DEF TypeOK, Records, Reads
<1>5. ASSUME NEW c \in Conns, Ended(c)
      PROVE  /\ allset' \subseteq 1..accepted /\ rset' \subseteq allset'
             /\ conn' \in [Conns -> {"none", "open", "fin", "rst", "gone"}]
    BY <1>5 DEF Ended, Visit, TypeOK
<1>6. ASSUME NEW c \in Conns, Hangup(c)
      PROVE  TypeOK' /\ Reads'
    BY <1>5, <1>6 DEF Hangup, AfterVisit, TypeOK, Reads
<1>7. ASSUME NEW c \in Conns, HangupStale(c)
      PROVE  TypeOK' /\ Reads'
    BY <1>5, <1>7, RcvTypes DEF HangupStale, TypeOK, Reads
<1>8. CASE RecvFrom
    <2>1. net \in Seq(1..Len(msgs)) /\ net # << >> /\ Len(net) <= NetCap /\ NetCap \in Nat
        BY <1>8, BusAssumption DEF RecvFrom, TypeOK
    <2>2. /\ Head(net) \in 1..Len(msgs) /\ Tail(net) \in Seq(1..Len(msgs))
          /\ Len(Tail(net)) <= NetCap
        BY <2>1
    <2>3. Head(net) \in 0..Len(msgs)
        BY <2>2, TypeFacts
    <2> QED
        BY <1>8, <2>2, <2>3 DEF RecvFrom, TypeOK, Reads
<1>9. CASE MsgSnd
    <2>1. /\ inc_msg # 0 /\ inc_msg' = 0
          /\ queue' = queue \/ (Len(queue) < QueueCap /\ queue' = Append(queue, inc_msg))
          /\ UNCHANGED <<msgs, conn, sent, out, drivers, facing, net>>
        BY <1>9 DEF MsgSnd
    <2>2. /\ inc_msg \in 1..Len(msgs) /\ 0 \in 0..Len(msgs) /\ QueueCap \in Nat
          /\ queue \in Seq(1..Len(msgs)) /\ Len(queue) <= QueueCap
        BY <2>1, BusAssumption, TypeFacts
    <2>3. queue' \in Seq(1..Len(msgs)) /\ Len(queue') <= QueueCap
        <3>1. CASE queue' = queue
            BY <2>2, <3>1
        <3>2. CASE Len(queue) < QueueCap /\ queue' = Append(queue, inc_msg)
            BY <2>2, <3>2
        <3> QED
            BY <2>1, <3>1, <3>2
    <2> QED
        BY <2>1, <2>2, <2>3 DEF TypeOK, Reads
<1>10. CASE ForeignSend
    <2>1. PICK t \in Foreign : msgs' = Append(msgs, t)
        BY <1>10 DEF ForeignSend
    <2>2. /\ Multicast(Len(msgs'))
          /\ UNCHANGED <<conn, sent, out, drivers, facing, inc_msg, queue>>
        BY <1>10 DEF ForeignSend
    <2>3. net' \in Seq(1..Len(msgs')) /\ Len(net') <= NetCap
        <3>1. /\ net \in Seq(1..Len(msgs')) /\ Len(msgs') \in 1..Len(msgs')
              /\ Len(net) <= NetCap /\ NetCap \in Nat
            BY <2>1, NewMessage, BusAssumption, TypeFacts
        <3>2. CASE Len(net) < NetCap /\ net' = Append(net, Len(msgs'))
            BY <3>1, <3>2
        <3>3. CASE UNCHANGED net
            BY <3>1, <3>3
        <3> QED
            BY <2>2, <3>2, <3>3 DEF Multicast
    <2>4. /\ pbuffer' \in Records' \cup {Zeroes} /\ sent' \in [Conns -> Seq(Records')]
          /\ send_msg' \in 0..Len(msgs') /\ inc_msg' \in 0..Len(msgs')
          /\ out' \in [Conns -> Seq(0..Len(msgs'))] /\ queue' \in Seq(1..Len(msgs'))
          /\ msgs' \in Seq(Dest \cup Foreign)
        BY <2>1, <2>2, NewMessage, TypeFacts
    <2> QED
        BY <2>2, <2>3, <2>4 DEF TypeOK, Records, Reads
<1> QED
    BY <1>1, <1>2, <1>3, <1>4, <1>6, <1>7, <1>8, <1>9, <1>10
    DEF ClientFacing, NetworkFacing

\* So does every step.
LEMMA StepTypes == TypeOK /\ Reads /\ [Next]_vars => TypeOK' /\ Reads'
<1> SUFFICES ASSUME TypeOK, Reads, [Next]_vars PROVE TypeOK' /\ Reads'
    OBVIOUS
<1>1. CASE UNCHANGED vars
    BY <1>1 DEF vars, drivers, facing, bus, TypeOK, Reads
<1> QED
    BY <1>1, DriverTypes, ServerTypes DEF Next

-----------------------------------------------------------------------------
\* Nothing is owed at the start.
LEMMA InitServe == Init => ServeInv
<1> SUFFICES ASSUME Init PROVE ServeInv
    OBVIOUS
<1>1. \A c \in Conns : conn[c] = "none" /\ asks[c] = 0 /\ out[c] = << >> /\ sent[c] = << >>
    BY DEF Init
<1>2. accepted = 0 /\ rset = {} /\ pc = "select"
    BY DEF Init
<1> QED
    BY <1>1, <1>2
    DEF ServeInv, Connected, Ready, Silent, AnswerPerRequest, KilledByDeparture, Conns

\* Steps away from connections, requests and replies.
LEMMA QuietServe ==
    ASSUME ServeInv, UNCHANGED <<conn, sent, out, asks, accepted, rset>>,
           pc' = pc \/ pc' # "killed"
    PROVE  ServeInv'
<1> USE DEF ServeInv
<1>1. Connected' /\ Ready' /\ Silent' /\ KilledByDeparture'
    BY DEF Connected, Ready, Silent, KilledByDeparture
<1>2. AnswerPerRequest'
    BY DEF AnswerPerRequest
<1> QED
    BY <1>1, <1>2

\* What a driver sends is counted if it is a request.
LEMMA SaysServe ==
    ASSUME TypeOK, Reads, ServeInv, NEW c \in Conns, conn[c] = "open",
           NEW S, sent \in [Conns -> Seq(S)], NEW x \in S,
           sent' = [sent EXCEPT ![c] = Append(@, x)],
           asks' = IF Asked(x) THEN [asks EXCEPT ![c] = @ + 1] ELSE asks,
           UNCHANGED <<conn, out, accepted, rset, pc>>
    PROVE  ServeInv'
<1> USE DEF ServeInv
<1>1. sent'[c] = Append(sent[c], x) /\ \A d \in Conns : d # c => sent'[d] = sent[d]
    OBVIOUS
<1>2. sent[c] \in Seq(S) /\ sent'[c] # << >>
    BY <1>1
<1>3. \A d \in Conns : d # c => asks'[d] = asks[d]
    BY DEF Reads
<1>4. Connected' /\ KilledByDeparture'
    BY DEF Connected, KilledByDeparture
<1>5. Ready' /\ Silent'
    BY <1>1, <1>2, <1>3 DEF Ready, Silent
<1>6. AnswerPerRequest'
    <2>1. asks'[c] = Len(out[c]) + Cardinality(Requests(sent'[c]))
        <3>1. asks[c] = Len(out[c]) + Cardinality(Requests(sent[c]))
            BY DEF AnswerPerRequest, Requests
        <3>2. Cardinality(Requests(sent'[c])) =
                  Cardinality(Requests(sent[c])) + IF Asked(x) THEN 1 ELSE 0
            BY <1>1, <1>2, RequestsAppend
        <3>3. /\ Cardinality(Requests(sent[c])) \in Nat /\ Len(out[c]) \in Nat
              /\ asks[c] \in Nat
            BY <1>2, RequestsFinite, TypeFacts DEF Reads
        <3>4. asks'[c] = asks[c] + IF Asked(x) THEN 1 ELSE 0
            <4>1. CASE Asked(x)
                BY <4>1 DEF Reads
            <4>2. CASE ~Asked(x)
                BY <3>3, <4>2
            <4> QED
                BY <4>1, <4>2
        <3> DEFINE k == Cardinality(Requests(sent[c]))
                   e == IF Asked(x) THEN 1 ELSE 0
        <3>5. e \in Nat /\ k \in Nat
            BY <3>3
        <3>6. PICK l \in Nat : l = Len(out[c])
            BY <3>3
        <3>8. asks[c] = l + k
            BY <3>1, <3>6
        <3> HIDE DEF k, e
        <3>9. (l + k) + e = l + (k + e)
            BY <3>5
        <3>7. asks[c] + e = Len(out[c]) + (k + e)
            BY <3>6, <3>8, <3>9
        <3> QED
            BY <3>2, <3>4, <3>7 DEF k, e
    <2>2. ASSUME NEW d \in Conns, d # c, conn[d] = "open"
          PROVE  asks'[d] = Len(out[d]) + Cardinality(Requests(sent'[d]))
        BY <1>1, <1>3, <2>2 DEF AnswerPerRequest, Requests
    <2> QED
        BY <2>1, <2>2 DEF AnswerPerRequest, Requests
<1> QED
    BY <1>4, <1>5, <1>6

\* The steps of a driver.
LEMMA DriverServe ==
    ASSUME TypeOK, Reads, ServeInv, NEW c \in Conns, Driver(c)
    PROVE  ServeInv'
<1> USE DEF drivers, facing, bus
<1>1. CASE Connect(c)
    <2>1. /\ pc # "killed" /\ conn[c] = "none"
          /\ c > 1 => conn[c - 1] # "none"
          /\ conn' = [conn EXCEPT ![c] = "open"]
          /\ UNCHANGED <<msgs, sent, out, drivers, facing, bus>>
        BY <1>1 DEF Connect, Serving
    <2>2. conn'[c] = "open" /\ \A d \in Conns : d # c => conn'[d] = conn[d]
        BY <2>1 DEF TypeOK
    <2>3. Connected'
        <3>1. ASSUME NEW e \in Conns, NEW d \in Conns, e < d, conn'[d] # "none"
              PROVE  conn'[e] # "none"
            <4>1. CASE e = c
                BY <2>2, <4>1
            <4>2. CASE e # c /\ d = c
                <5>1. NumConns \in Nat /\ d \in Nat /\ e \in Nat /\ e >= 1 /\ d <= NumConns
                    BY BusAssumption DEF Conns
                <5>2. c - 1 \in Conns /\ c > 1 /\ (e = c - 1 \/ e < c - 1)
                    BY <3>1, <4>2, <5>1 DEF Conns
                <5>3. conn[c - 1] # "none"
                    BY <2>1, <5>2
                <5>4. conn[e] # "none"
                    BY <5>2, <5>3 DEF ServeInv, Connected
                <5> QED
                    BY <2>2, <4>2, <5>4
            <4>3. CASE e # c /\ d # c
                BY <2>2, <3>1, <4>3 DEF ServeInv, Connected
            <4> QED
                BY <4>1, <4>2, <4>3
        <3>2. \A d \in Conns : d <= accepted => conn'[d] # "none"
            BY <2>2 DEF ServeInv, Connected
        <3> QED
            BY <2>1, <3>1, <3>2 DEF Connected
    <2>4. Ready'
        <3>1. c \notin rset
            <4>1. ~(c <= accepted)
                BY <2>1 DEF ServeInv, Connected
            <4>2. rset \subseteq 1..accepted /\ accepted \in Nat
                BY DEF TypeOK
            <4>3. \A n \in rset : n <= accepted
                BY <4>2
            <4> QED
                BY <4>1, <4>3
        <3> QED
            BY <2>1, <2>2, <3>1 DEF ServeInv, Ready
    <2>5. Silent' /\ KilledByDeparture'
        BY <2>1, <2>2 DEF ServeInv, Silent, KilledByDeparture
    <2>6. AnswerPerRequest'
        <3>1. asks[c] = 0 /\ Len(out[c]) = 0 /\ Cardinality(Requests(sent[c])) = 0
            <4>1. asks[c] = 0 /\ out[c] = << >> /\ sent[c] = << >>
                BY <2>1 DEF ServeInv, Silent
            <4>2. Requests(sent[c]) = {}
                BY <4>1 DEF Requests
            <4> QED
                BY <4>1, <4>2, FS_EmptySet
        <3>2. asks[c] = Len(out[c]) + Cardinality(Requests(sent[c]))
            BY <3>1
        <3> QED
            BY <2>1, <2>2, <3>2 DEF ServeInv, AnswerPerRequest, Requests
    <2> QED
        BY <2>3, <2>4, <2>5, <2>6 DEF ServeInv
<1>2. CASE Send(c)
    <2>1. PICK t \in Dest : msgs' = Append(msgs, t)
        BY <1>2 DEF Send
    <2>2. PICK x : x = Put(Len(msgs'))
        OBVIOUS
    <2>3. PICK S : S = Records'
        OBVIOUS
    <2>4. x \in S /\ ~Asked(x) /\ sent \in [Conns -> Seq(S)]
        BY <2>1, <2>2, <2>3, NewMessage, RecordFacts
    <2>5. /\ conn[c] = "open" /\ sent' = [sent EXCEPT ![c] = Append(@, x)]
          /\ UNCHANGED <<asks, conn, out, accepted, rset, pc>>
        BY <1>2, <2>2 DEF Send, Idle
    <2> QED
        BY <2>4, <2>5, SaysServe
<1>3. CASE Ask(c)
    <2>1. PICK x \in Records : x = Get(Identity[c]) /\ Asked(x)
        BY RecordFacts DEF Records
    <2>2. /\ conn[c] = "open" /\ sent' = [sent EXCEPT ![c] = Append(@, x)]
          /\ asks' = [asks EXCEPT ![c] = @ + 1]
          /\ UNCHANGED <<conn, out, accepted, rset, pc>>
        BY <1>3, <2>1 DEF Ask, Idle
    <2>3. sent \in [Conns -> Seq(Records)]
        BY TypeFacts
    <2> QED
        BY <2>1, <2>2, <2>3, SaysServe
<1>4. CASE ReadWord(c)
    BY <1>4, QuietServe DEF ReadWord
<1>5. CASE ReadFails(c)
    BY <1>5, QuietServe DEF ReadFails
<1>6. CASE Close(c)
    <2>1. /\ pc # "killed" /\ conn[c] = "open"
          /\ UNCHANGED <<sent, out, asks, accepted, rset, pc>>
        BY <1>6 DEF Close, Serving
    <2>2. conn'[c] \in {"fin", "rst"} /\ \A d \in Conns : d # c => conn'[d] = conn[d]
        BY <1>6 DEF Close, TypeOK
    <2>3. Connected' /\ Ready' /\ Silent' /\ KilledByDeparture'
        BY <2>1, <2>2 DEF ServeInv, Connected, Ready, Silent, KilledByDeparture
    <2>4. AnswerPerRequest'
        BY <2>1, <2>2 DEF ServeInv, AnswerPerRequest
    <2> QED
        BY <2>3, <2>4 DEF ServeInv
<1> QED
    BY <1>1, <1>2, <1>3, <1>4, <1>5, <1>6 DEF Driver

\* The driver at the lowest descriptor that waits is accepted.
LEMMA SelectServe ==
    ASSUME TypeOK, ServeInv, Select
    PROVE  ServeInv'
<1>1. /\ rset' = Readable /\ pc' \in {"select", "pass"}
      /\ UNCHANGED <<msgs, conn, sent, out, asks>>
    BY DEF Select, drivers
<1>2. Connected'
    <2>1. CASE UNCHANGED accepted
        BY <1>1, <2>1 DEF ServeInv, Connected
    <2>2. CASE Backlog # {} /\ accepted' = accepted + 1
        <3>1. PICK d \in Conns : d > accepted /\ conn[d] # "none"
            BY <2>2 DEF Backlog
        <3>2. ASSUME NEW c \in Conns, c <= accepted + 1
              PROVE  conn[c] # "none"
            <4>1. c \in Nat /\ d \in Nat /\ accepted \in Nat
                BY DEF Conns, TypeOK
            <4>2. c < d \/ c = d
                BY <3>1, <3>2, <4>1
            <4> QED
                BY <3>1, <4>2 DEF ServeInv, Connected
        <3> QED
            BY <1>1, <2>2, <3>2 DEF ServeInv, Connected
    <2> QED
        BY <2>1, <2>2 DEF Select
<1>3. Ready'
    BY <1>1 DEF Ready, Readable
<1>4. (Silent /\ AnswerPerRequest /\ KilledByDeparture)'
    BY <1>1 DEF ServeInv, Silent, AnswerPerRequest, KilledByDeparture
<1> QED
    BY <1>2, <1>3, <1>4 DEF ServeInv

\* The connection that a pass comes to was made, and is readable.
LEMMA Visited ==
    ASSUME TypeOK, ServeInv, NEW c \in Conns, Visit(c)
    PROVE  /\ conn[c] # "none"
           /\ sent[c] # << >> \/ conn[c] # "open"
           /\ rset' = rset \ {c} /\ pc = "pass"
<1>1. c \in rset /\ rset' = rset \ {c} /\ pc = "pass"
    BY DEF Visit
<1>2. c <= accepted
    <2>1. rset \subseteq 1..accepted /\ accepted \in Nat
        BY DEF TypeOK
    <2> QED
        BY <1>1, <2>1
<1>3. conn[c] # "none"
    BY <1>2 DEF ServeInv, Connected
<1> QED
    BY <1>1, <1>3 DEF ServeInv, Ready

\* A record is taken: the request that it may be is answered or was not sent by
\* a driver that is still there.
LEMMA ReceiveServe ==
    ASSUME TypeOK, Reads, ServeInv, NEW c \in Conns, Receive(c),
           NEW k, k = "open" <=> conn[c] = "open", k # "none",
           conn' = [conn EXCEPT ![c] = k],
           NEW x, x \in 0..Len(msgs),
           out' = IF Asked(pbuffer') /\ conn[c] = "open"
                  THEN [out EXCEPT ![c] = Append(@, x)] ELSE out,
           UNCHANGED <<asks, accepted>>,
           pc' = "killed" => k = "gone"
    PROVE  ServeInv'
<1>1. /\ conn[c] # "none" /\ rset' = rset \ {c} /\ pc = "pass"
      /\ conn'[c] = k /\ \A d \in Conns : d # c => conn'[d] = conn[d]
    BY Visited DEF Receive, TypeOK
<1>2. /\ sent[c] # << >> /\ sent'[c] = Tail(sent[c]) /\ pbuffer' = Head(sent[c])
      /\ \A d \in Conns : d # c => sent'[d] = sent[d]
    BY DEF Receive, TypeOK
<1>3. \A d \in Conns : d # c => out'[d] = out[d]
    BY TypeFacts
<1>4. Connected' /\ Ready' /\ Silent' /\ KilledByDeparture'
    BY <1>1, <1>2, <1>3 DEF ServeInv, Connected, Ready, Silent, KilledByDeparture
<1>5. ASSUME conn'[c] = "open"
      PROVE  asks[c] = Len(out'[c]) + Cardinality(Requests(sent'[c]))
    <2>1. conn[c] = "open" /\ asks[c] = Len(out[c]) + Cardinality(Requests(sent[c]))
        BY <1>1, <1>5 DEF ServeInv, AnswerPerRequest, Requests
    <2>2. sent[c] \in Seq(Records) /\ out[c] \in Seq(0..Len(msgs))
        BY TypeFacts
    <2>3. PICK l \in Nat : l = Len(out[c])
        BY <2>2
    <2>4. PICK n \in Nat : n = Cardinality(Requests(sent'[c]))
        <3>1. Tail(sent[c]) \in Seq(Records)
            BY <1>2, <2>2
        <3>2. Cardinality(Requests(Tail(sent[c]))) \in Nat
            BY <3>1, RequestsFinite
        <3> QED
            BY <1>2, <3>2
    <2>5. Cardinality(Requests(sent[c])) = n + IF Asked(pbuffer') THEN 1 ELSE 0
        BY <1>2, <2>2, <2>4, RequestsTail
    <2>6. CASE Asked(pbuffer')
        <3>1. out'[c] = Append(out[c], x)
            BY <2>1, <2>6, TypeFacts
        <3>2. Len(out'[c]) = l + 1
            BY <2>2, <2>3, <3>1
        <3>3. asks[c] = l + (n + 1)
            BY <2>1, <2>3, <2>5, <2>6
        <3>4. l + (n + 1) = (l + 1) + n
            OBVIOUS
        <3> QED
            BY <2>4, <3>2, <3>3, <3>4
    <2>7. CASE ~Asked(pbuffer')
        <3>1. out'[c] = out[c]
            BY <2>7
        <3>2. n + 0 = n
            OBVIOUS
        <3> QED
            BY <2>1, <2>3, <2>4, <2>5, <2>7, <3>1, <3>2
    <2> QED
        BY <2>6, <2>7
<1>6. AnswerPerRequest'
    <2>1. ASSUME NEW d \in Conns, d # c, conn'[d] = "open"
          PROVE  asks[d] = Len(out'[d]) + Cardinality(Requests(sent'[d]))
        BY <1>1, <1>2, <1>3, <2>1 DEF ServeInv, AnswerPerRequest, Requests
    <2> QED
        BY <1>5, <2>1 DEF AnswerPerRequest, Requests
<1> QED
    BY <1>4, <1>6 DEF ServeInv

\* The end of a connection: its driver has gone, so nothing is owed to it.
LEMMA EndedServe ==
    ASSUME TypeOK, ServeInv, NEW c \in Conns, Ended(c),
           UNCHANGED <<sent, out, asks, accepted>>
    PROVE  ServeInv'
<1>1. /\ conn[c] # "none" /\ conn[c] # "open" /\ rset' = rset \ {c}
    BY Visited DEF Ended
<1>2. /\ conn'[c] \in {"fin", "gone"}
      /\ \A d \in Conns : d # c => conn'[d] = conn[d]
    BY <1>1 DEF Ended, TypeOK
<1>3. Connected' /\ Ready' /\ Silent' /\ KilledByDeparture'
    BY <1>1, <1>2 DEF ServeInv, Connected, Ready, Silent, KilledByDeparture
<1>4. AnswerPerRequest'
    BY <1>1, <1>2 DEF ServeInv, AnswerPerRequest
<1> QED
    BY <1>3, <1>4 DEF ServeInv

\* The steps of the server and of other machines.
LEMMA ServerServe ==
    ASSUME TypeOK, Reads, ServeInv, ClientFacing \/ NetworkFacing \/ ForeignSend
    PROVE  ServeInv'
<1> USE DEF drivers, facing, bus
<1>1. CASE AcceptFails \/ NetworkFacing \/ ForeignSend
    <2>1. /\ UNCHANGED <<conn, sent, out, asks, accepted, rset>>
          /\ pc' = pc \/ pc' # "killed"
        BY <1>1 DEF AcceptFails, NetworkFacing, RecvFrom, MsgSnd, ForeignSend
    <2> QED
        BY <2>1, QuietServe
<1>2. ASSUME NEW c \in Conns, Answer(c)
      PROVE  ServeInv'
    <2>1. PICK k \in CASE conn[c] = "fin" -> {"fin", "gone"}
                       [] conn[c] = "rst" -> {"gone"}
                       [] OTHER           -> {conn[c]} :
             conn' = [conn EXCEPT ![c] = k]
        BY <1>2 DEF Answer
    <2>2. PICK x \in 0..Len(msgs) : x = send_msg'
        BY <1>2, RcvTypes DEF Answer
    <2>3. /\ Receive(c) /\ Asked(pbuffer')
          /\ out' = IF conn[c] = "open" THEN [out EXCEPT ![c] = Append(@, x)] ELSE out
          /\ UNCHANGED <<asks, accepted>>
          /\ pc' = "killed" => conn[c] = "gone"
        BY <1>2, <2>2 DEF Answer, AfterVisit
    <2>4. conn[c] # "none"
        BY <2>3, Visited DEF Receive
    <2>5. (k = "open" <=> conn[c] = "open") /\ k # "none" /\ (conn[c] = "gone" => k = "gone")
        BY <2>1, <2>4
    <2> QED
        BY <2>1, <2>2, <2>3, <2>5, ReceiveServe
<1>3. ASSUME NEW c \in Conns, Relay(c)
      PROVE  ServeInv'
    <2>1. /\ Receive(c) /\ ~Asked(pbuffer') /\ pc' # "killed"
          /\ UNCHANGED <<conn, out, asks, accepted>>
        BY <1>3 DEF Relay, AfterVisit
    <2>2. conn' = [conn EXCEPT ![c] = conn[c]] /\ conn[c] # "none"
        BY <2>1, Visited DEF Receive, TypeOK
    <2>3. send_msg \in 0..Len(msgs)
        BY DEF TypeOK
    <2> QED
        BY <2>1, <2>2, <2>3, ReceiveServe
<1>4. ASSUME NEW c \in Conns, Hangup(c) \/ HangupStale(c)
      PROVE  ServeInv'
    BY <1>4, EndedServe DEF Hangup, HangupStale
<1> QED
    BY <1>1, <1>2, <1>3, <1>4, SelectServe DEF ClientFacing

\* The invariant holds at the start.
LEMMA InitBus == Init => BusInv
    BY InitTypes, InitServe DEF BusInv

\* Every step keeps the invariant.
LEMMA StepBus == BusInv /\ [Next]_vars => BusInv'
<1> SUFFICES ASSUME TypeOK, Reads, ServeInv, [Next]_vars PROVE ServeInv'
    BY StepTypes DEF BusInv
<1>1. CASE UNCHANGED vars
    BY <1>1, QuietServe DEF vars, drivers, facing, bus
<1> QED
    BY <1>1, DriverServe, ServerServe DEF Next

\* So it always holds.
LEMMA BusInvariant == Spec => []BusInv
    BY InitBus, StepBus, PTL DEF Spec

\* Types: for any number of drivers the queue and the sockets stay within their
\* capacities, and a driver never reads more replies than it asked for.
THEOREM TypeCorrect == Spec => []TypeOK
<1>1. BusInv => TypeOK
    BY DEF BusInv
<1> QED
    BY <1>1, BusInvariant, PTL

\* As long as a driver stays connected each of its requests is answered exactly
\* once, by the pass that reads it.
THEOREM OneAnswerPerRequest == Spec => []AnswerPerRequest
<1>1. BusInv => AnswerPerRequest
    BY DEF BusInv, ServeInv
<1> QED
    BY <1>1, BusInvariant, PTL

\* Only a driver that has gone can have killed the server.
THEOREM DepartureKills == Spec => []KilledByDeparture
<1>1. BusInv => KilledByDeparture
    BY DEF BusInv, ServeInv
<1> QED
    BY <1>1, BusInvariant, PTL

-----------------------------------------------------------------------------
\* Where a message can be on its way from a driver to a driver.
Has(q, x) == \E n \in DOMAIN q : q[n] = x
Unsent(m) == \E c \in Conns : Has(sent[c], Put(m))
Arrived(m) == m = inc_msg
Handed(m) == m = send_msg \/ \E c \in Conns : Has(out[c], m)

\* No element occurs twice; no message does.
Once(q) == \A m, n \in DOMAIN q : q[m] = q[n] => m = n
PutsOnce(q) == \A m, n \in DOMAIN q : ~Asked(q[m]) /\ q[m] = q[n] => m = n

\* A driver asks for messages of its own type.
OwnType ==
    \A c \in Conns : \A n \in DOMAIN sent[c] :
        Asked(sent[c][n]) => sent[c][n] = Get(Identity[c])

\* Each message is sent on one connection, once.
SentOnce ==
    /\ \A c \in Conns : PutsOnce(sent[c])
    /\ \A c, d \in Conns : \A m \in DOMAIN msgs :
         Has(sent[c], Put(m)) /\ Has(sent[d], Put(m)) => c = d

\* A message is in one place at a time, and it never goes back.
InOnePlace ==
    \A m \in DOMAIN msgs :
        /\ Unsent(m) => ~Has(net, m) /\ ~Arrived(m) /\ ~Has(queue, m) /\ ~Handed(m)
        /\ Has(net, m) => ~Arrived(m) /\ ~Has(queue, m) /\ ~Handed(m)
        /\ Arrived(m) => ~Has(queue, m) /\ ~Handed(m)
        /\ Has(queue, m) => ~Handed(m)

\* The inductive invariant of the messages.
MailInv == OwnType /\ SentOnce /\ Once(net) /\ Once(queue) /\ InOnePlace

\* An element more.
LEMMA HasAppend ==
    ASSUME NEW S, NEW q \in Seq(S), NEW x \in S
    PROVE  /\ \A y : Has(Append(q, x), y) <=> Has(q, y) \/ y = x
           /\ Once(q) /\ ~Has(q, x) => Once(Append(q, x))
           /\ PutsOnce(q) /\ (Asked(x) \/ ~Has(q, x)) => PutsOnce(Append(q, x))
<1> DEFINE r == Append(q, x)
           l == Len(q) + 1
<1>1. /\ DOMAIN r = (DOMAIN q) \cup {l} /\ l \notin DOMAIN q /\ r[l] = x
      /\ \A n \in DOMAIN q : r[n] = q[n]
    BY AppendFacts
<1> HIDE DEF r, l
<1>2. \A y : Has(r, y) <=> Has(q, y) \/ y = x
    BY <1>1 DEF Has
<1>3. Once(q) /\ ~Has(q, x) => Once(r)
    BY <1>1 DEF Once, Has
<1>4. PutsOnce(q) /\ (Asked(x) \/ ~Has(q, x)) => PutsOnce(r)
    BY <1>1 DEF PutsOnce, Has
<1> QED
    BY <1>2, <1>3, <1>4 DEF r

\* Without the first element.
LEMMA HasTail ==
    ASSUME NEW S, NEW q \in Seq(S), q # << >>
    PROVE  /\ Has(q, Head(q)) /\ Head(q) \in S
           /\ \A y : Has(Tail(q), y) => Has(q, y)
           /\ Once(q) => Once(Tail(q)) /\ ~Has(Tail(q), Head(q))
           /\ PutsOnce(q) => PutsOnce(Tail(q)) /\ (Asked(Head(q)) \/ ~Has(Tail(q), Head(q)))
<1> DEFINE r == Tail(q)
           x == Head(q)
<1>1. /\ x \in S /\ x = q[1] /\ 1 \in DOMAIN q
      /\ \A n \in DOMAIN r : n \in Nat /\ n + 1 # 1 /\ n + 1 \in DOMAIN q /\ r[n] = q[n + 1]
    BY TailFacts
<1> HIDE DEF r, x
<1>2. Has(q, x)
    BY <1>1 DEF Has
<1>3. \A y : Has(r, y) => Has(q, y)
    BY <1>1 DEF Has
<1>4. \A m, n \in DOMAIN r : m + 1 = n + 1 => m = n
    BY <1>1
<1>5. Once(q) => Once(r) /\ ~Has(r, x)
    BY <1>1, <1>4 DEF Once, Has
<1>6. PutsOnce(q) => PutsOnce(r)
    BY <1>1, <1>4 DEF PutsOnce
<1>7. PutsOnce(q) => Asked(x) \/ ~Has(r, x)
    BY <1>1 DEF PutsOnce, Has
<1> QED
    BY <1>1, <1>2, <1>3, <1>5, <1>6, <1>7 DEF r, x

\* Without element n.
LEMMA HasRemove ==
    ASSUME NEW S, NEW q \in Seq(S), NEW n \in DOMAIN q, NEW r,
           r = Removed(q, n)
    PROVE  /\ \A y : Has(r, y) => Has(q, y)
           /\ Has(q, q[n]) /\ q[n] \in S
           /\ Once(q) => Once(r) /\ ~Has(r, q[n])
<1>1. PICK l \in Nat : l = Len(q)
    OBVIOUS
<1>2. /\ DOMAIN r = 1..(l - 1) /\ DOMAIN q = 1..l /\ q[n] \in S
      /\ \A m \in 1..(l - 1) : r[m] = IF m < n THEN q[m] ELSE q[m + 1]
    <2>1. /\ DOMAIN r = 1..(Len(q) - 1) /\ DOMAIN q = 1..Len(q) /\ q[n] \in S
          /\ \A m \in 1..(Len(q) - 1) : r[m] = IF m < n THEN q[m] ELSE q[m + 1]
        BY RemoveFacts
    <2> QED
        BY <1>1, <2>1
<1>3. PICK k \in 1..l : k = n
    BY <1>2
<1> DEFINE at(m) == IF m < k THEN m ELSE m + 1
<1>4. \A m \in 1..(l - 1) : at(m) \in 1..l /\ at(m) # k
    BY <1>3
<1>5. \A m, j \in 1..(l - 1) : at(m) = at(j) => m = j
    BY <1>3
<1>6. \A m \in DOMAIN r : r[m] = q[at(m)]
    BY <1>2, <1>3
<1> HIDE DEF at
<1>7. \A m \in DOMAIN r : at(m) \in DOMAIN q /\ at(m) # n
    BY <1>2, <1>3, <1>4
<1>8. \A y : Has(r, y) => Has(q, y)
    BY <1>6, <1>7 DEF Has
<1>11. \A m, j \in DOMAIN r : at(m) = at(j) => m = j
    BY <1>2, <1>5
<1>9. Once(q) => Once(r)
    <2>1. ASSUME Once(q), NEW x \in DOMAIN r, NEW y \in DOMAIN r, r[x] = r[y]
          PROVE  x = y
        <3>1. q[at(x)] = q[at(y)] /\ at(x) \in DOMAIN q /\ at(y) \in DOMAIN q
            BY <1>6, <1>7, <2>1
        <3>2. at(x) = at(y)
            BY <2>1, <3>1 DEF Once
        <3> QED
            BY <1>11, <3>2
    <2> QED
        BY <2>1 DEF Once
<1>10. Once(q) => ~Has(r, q[n])
    BY <1>6, <1>7 DEF Once, Has
<1> QED
    BY <1>2, <1>8, <1>9, <1>10 DEF Has

\* The sequences, their elements, and that a record is a request or a message.
LEMMA Kinds ==
    ASSUME TypeOK
    PROVE  /\ Len(msgs) \in Nat /\ DOMAIN msgs = 1..Len(msgs)
           /\ \A m \in DOMAIN msgs : m # 0 /\ m \in Nat
           /\ \A c \in Conns : sent[c] \in Seq(Records) /\ out[c] \in Seq(0..Len(msgs))
           /\ net \in Seq(DOMAIN msgs) /\ queue \in Seq(DOMAIN msgs)
           /\ \A m, n : Put(m) = Put(n) => m = n
           /\ \A r \in Records : Asked(r) \/ \E m \in DOMAIN msgs : r = Put(m)
<1>1. msgs \in Seq(Dest \cup Foreign)
    BY DEF TypeOK
<1>2. Len(msgs) \in Nat /\ DOMAIN msgs = 1..Len(msgs)
    BY <1>1
<1>3. \A m, n : Put(m) = Put(n) => m = n
    BY RecordFacts
<1>4. \A r \in Records : Asked(r) \/ \E m \in DOMAIN msgs : r = Put(m)
    BY <1>2, RecordFacts DEF Records
<1>5. \A m \in DOMAIN msgs : m # 0 /\ m \in Nat
    BY <1>2
<1> QED
    BY <1>2, <1>3, <1>4, <1>5, TypeFacts

\* The new message is nowhere yet, the others are where they were.
LEMMA NoPlace ==
    ASSUME TypeOK, NEW m, m = Len(msgs) + 1
    PROVE  ~Unsent(m) /\ ~Has(net, m) /\ ~Arrived(m) /\ ~Has(queue, m) /\ ~Handed(m)
<1>1. PICK l \in Nat : l = Len(msgs) /\ m = l + 1
    BY Kinds
<1>2. m \notin 0..l /\ m \notin 1..l
    BY <1>1
<1>3. \A S : \A q \in Seq(S) : Has(q, m) => m \in S
    BY DEF Has
<1>4. ~Has(net, m) /\ ~Has(queue, m)
    BY <1>1, <1>2, <1>3, TypeFacts
<1>5. ~Arrived(m) /\ ~Handed(m)
    <2>1. \A c \in Conns : ~Has(out[c], m)
        BY <1>1, <1>2, <1>3, Kinds
    <2> QED
        BY <1>1, <1>2, <2>1, TypeFacts DEF Arrived, Handed
<1>6. ~Unsent(m)
    <2>1. Put(m) \notin Records
        BY <1>1, <1>2, RecordFacts DEF Records
    <2>2. \A c \in Conns : \A n \in DOMAIN sent[c] : sent[c][n] \in Records
        BY Kinds
    <2> QED
        BY <2>1, <2>2 DEF Unsent, Has
<1> QED
    BY <1>4, <1>5, <1>6

\* There are no messages at the start.
LEMMA InitPlaces == Init => MailInv
<1> SUFFICES ASSUME Init PROVE MailInv
    OBVIOUS
<1>1. /\ DOMAIN msgs = {} /\ \A c \in Conns : DOMAIN sent[c] = {}
      /\ DOMAIN net = {} /\ DOMAIN queue = {}
    BY DEF Init
<1> QED
    BY <1>1 DEF MailInv, OwnType, SentOnce, PutsOnce, Once, InOnePlace

\* What stays where it was.
LEMMA QuietPlaces ==
    ASSUME MailInv, UNCHANGED <<msgs, sent, out, net, inc_msg, queue, send_msg>>
    PROVE  MailInv'
<1>1. OwnType' /\ SentOnce' /\ Once(net)' /\ Once(queue)'
    BY DEF MailInv, OwnType, SentOnce, PutsOnce, Once, Has
<1>2. \A m : /\ Unsent(m)' <=> Unsent(m)
             /\ Has(net, m)' <=> Has(net, m)
             /\ Has(queue, m)' <=> Has(queue, m)
             /\ Arrived(m)' <=> Arrived(m)
             /\ Handed(m)' <=> Handed(m)
    BY DEF Unsent, Arrived, Handed, Has
<1>3. InOnePlace'
    BY <1>2 DEF MailInv, InOnePlace
<1> QED
    BY <1>1, <1>3 DEF MailInv

\* A driver sends a record: a request for its type, or the message of a number
\* that no record had.
LEMMA SaysPlaces ==
    ASSUME TypeOK, MailInv, NEW c \in Conns, NEW S, sent \in [Conns -> Seq(S)],
           NEW x \in S, sent' = [sent EXCEPT ![c] = Append(@, x)],
           \/ x = Get(Identity[c]) /\ msgs' = msgs
           \/ /\ x = Put(Len(msgs) + 1)
              /\ DOMAIN msgs' = (DOMAIN msgs) \cup {Len(msgs) + 1},
           UNCHANGED <<out, net, inc_msg, queue, send_msg>>
    PROVE  MailInv'
<1>1. /\ sent'[c] = Append(sent[c], x) /\ sent[c] \in Seq(S)
      /\ \A d \in Conns : d # c => sent'[d] = sent[d]
    OBVIOUS
<1>2. /\ \A y : Has(sent'[c], y) <=> Has(sent[c], y) \/ y = x
      /\ PutsOnce(sent[c]) /\ (Asked(x) \/ ~Has(sent[c], x)) => PutsOnce(sent'[c])
    BY <1>1, HasAppend
<1>3. OwnType'
    <2>1. ASSUME NEW n \in DOMAIN sent'[c], Asked(sent'[c][n])
          PROVE  sent'[c][n] = Get(Identity[c])
        <3>1. CASE n \in DOMAIN sent[c]
            BY <1>1, <2>1, <3>1, AppendFacts DEF MailInv, OwnType
        <3>2. CASE n \notin DOMAIN sent[c]
            <4>1. sent'[c][n] = x
                BY <1>1, <2>1, <3>2, AppendFacts
            <4> QED
                BY <2>1, <4>1, RecordFacts
        <3> QED
            BY <3>1, <3>2
    <2>2. ASSUME NEW d \in Conns, d # c, NEW n \in DOMAIN sent'[d], Asked(sent'[d][n])
          PROVE  sent'[d][n] = Get(Identity[d])
        BY <1>1, <2>2 DEF MailInv, OwnType
    <2> QED
        BY <2>1, <2>2 DEF OwnType
<1>4. \A m : /\ Has(net, m)' <=> Has(net, m)
             /\ Has(queue, m)' <=> Has(queue, m)
             /\ Arrived(m)' <=> Arrived(m)
             /\ Handed(m)' <=> Handed(m)
    BY DEF Arrived, Handed, Has
<1>5. Once(net)' /\ Once(queue)'
    BY DEF MailInv, Once
<1>6. CASE x = Get(Identity[c]) /\ msgs' = msgs
    <2>1. Asked(x) /\ \A m : Put(m) # x
        BY <1>6, RecordFacts
    <2>2. \A d \in Conns : \A m : Has(sent'[d], Put(m)) <=> Has(sent[d], Put(m))
        BY <1>1, <1>2, <2>1
    <2>3. SentOnce'
        <3>1. \A d \in Conns : PutsOnce(sent'[d])
            BY <1>1, <1>2, <2>1 DEF MailInv, SentOnce
        <3> QED
            BY <1>6, <2>2, <3>1 DEF MailInv, SentOnce
    <2>4. \A m : Unsent(m)' <=> Unsent(m)
        BY <2>2 DEF Unsent
    <2>5. InOnePlace'
        BY <1>4, <1>6, <2>4 DEF MailInv, InOnePlace
    <2> QED
        BY <1>3, <1>5, <2>3, <2>5 DEF MailInv
<1>7. CASE /\ x = Put(Len(msgs) + 1)
           /\ DOMAIN msgs' = (DOMAIN msgs) \cup {Len(msgs) + 1}
    <2> DEFINE l == Len(msgs) + 1
    <2>1. /\ ~Unsent(l) /\ ~Has(net, l) /\ ~Arrived(l) /\ ~Has(queue, l) /\ ~Handed(l)
          /\ \A m : Put(m) = x => m = l
        BY <1>7, NoPlace, Kinds
    <2> HIDE DEF l
    <2>2. \A d \in Conns : \A m : Has(sent'[d], Put(m)) <=> Has(sent[d], Put(m)) \/ (d = c /\ m = l)
        BY <1>1, <1>2, <1>7, <2>1 DEF l
    <2>3. SentOnce'
        <3>1. \A d \in Conns : ~Has(sent[d], x) /\ ~Has(sent[d], Put(l))
            BY <1>7, <2>1 DEF Unsent, l
        <3>2. \A d \in Conns : PutsOnce(sent'[d])
            BY <1>1, <1>2, <3>1 DEF MailInv, SentOnce
        <3>3. ASSUME NEW d \in Conns, NEW e \in Conns, NEW m \in DOMAIN msgs',
                     Has(sent'[d], Put(m)), Has(sent'[e], Put(m))
              PROVE  d = e
            <4>1. CASE m = l
                BY <2>2, <3>1, <3>3, <4>1
            <4>2. CASE m # l
                <5>1. m \in DOMAIN msgs /\ Has(sent[d], Put(m)) /\ Has(sent[e], Put(m))
                    BY <1>7, <2>2, <3>3, <4>2 DEF l
                <5> QED
                    BY <5>1 DEF MailInv, SentOnce
            <4> QED
                BY <4>1, <4>2
        <3> QED
            BY <3>2, <3>3 DEF SentOnce
    <2>4. \A m : Unsent(m)' <=> Unsent(m) \/ m = l
        BY <2>2 DEF Unsent
    <2>5. InOnePlace'
        <3>1. \A m \in DOMAIN msgs' : m \in DOMAIN msgs \/ m = l
            BY <1>7 DEF l
        <3> QED
            BY <1>4, <2>1, <2>4, <3>1 DEF MailInv, InOnePlace
    <2> QED
        BY <1>3, <1>5, <2>3, <2>5 DEF MailInv
<1> QED
    BY <1>6, <1>7

\* The server takes a record from connection c.
LEMMA ReceivePlaces ==
    ASSUME TypeOK, MailInv, NEW c \in Conns, Receive(c), UNCHANGED msgs
    PROVE  /\ OwnType' /\ SentOnce'
           /\ \A m \in DOMAIN msgs : Unsent(m)' => Unsent(m)
           /\ Asked(pbuffer') => pbuffer' = Get(Identity[c])
           /\ ~Asked(pbuffer') =>
                 \E m \in DOMAIN msgs : pbuffer'.msg = m /\ Unsent(m) /\ ~Unsent(m)'
<1>1. /\ sent[c] # << >> /\ sent'[c] = Tail(sent[c]) /\ pbuffer' = Head(sent[c])
      /\ \A d \in Conns : d # c => sent'[d] = sent[d]
      /\ sent[c] \in Seq(Records)
    BY Kinds DEF Receive, TypeOK
<1>2. PICK x \in Records : x = Head(sent[c])
    BY <1>1
<1>3. /\ Has(sent[c], x) /\ \A y : Has(sent'[c], y) => Has(sent[c], y)
      /\ PutsOnce(sent'[c]) /\ (Asked(x) \/ ~Has(sent'[c], x))
    BY <1>1, <1>2, HasTail DEF MailInv, SentOnce
<1>4. \A d \in Conns : \A y : Has(sent'[d], y) => Has(sent[d], y)
    BY <1>1, <1>3
<1>5. OwnType'
    <2>1. ASSUME NEW d \in Conns, NEW n \in DOMAIN sent'[d], Asked(sent'[d][n])
          PROVE  sent'[d][n] = Get(Identity[d])
        <3>1. PICK m \in DOMAIN sent[d] : sent[d][m] = sent'[d][n]
            BY <1>4 DEF Has
        <3> QED
            BY <2>1, <3>1 DEF MailInv, OwnType
    <2> QED
        BY <2>1 DEF OwnType
<1>6. SentOnce'
    BY <1>1, <1>3, <1>4 DEF MailInv, SentOnce
<1>7. \A m \in DOMAIN msgs : Unsent(m)' => Unsent(m)
    BY <1>4 DEF Unsent
<1>8. Asked(pbuffer') => pbuffer' = Get(Identity[c])
    BY <1>1, <1>2, <1>3 DEF MailInv, OwnType, Has
<1>9. ASSUME ~Asked(pbuffer')
      PROVE  \E m \in DOMAIN msgs : pbuffer'.msg = m /\ Unsent(m) /\ ~Unsent(m)'
    <2>1. PICK m \in DOMAIN msgs : x = Put(m)
        BY <1>1, <1>2, <1>9, Kinds
    <2>2. pbuffer'.msg = m /\ Unsent(m)
        BY <1>1, <1>2, <1>3, <2>1, RecordFacts DEF Unsent
    <2>3. ~Has(sent'[c], Put(m))
        BY <1>1, <1>2, <1>3, <1>9, <2>1
    <2>4. \A d \in Conns : d # c => ~Has(sent'[d], Put(m))
        BY <1>3, <1>4, <2>1 DEF MailInv, SentOnce
    <2>5. ~Unsent(m)'
        BY <2>3, <2>4 DEF Unsent
    <2> QED
        BY <2>2, <2>5
<1> QED
    BY <1>5, <1>6, <1>7, <1>8, <1>9

\* msgrcv takes a message from the queue, or none.
LEMMA RcvPlaces ==
    ASSUME TypeOK, MailInv, NEW t, MsgRcv(t)
    PROVE  /\ Once(queue)' /\ \A m : Has(queue', m) => Has(queue, m)
           /\ \A m \in DOMAIN msgs : m = send_msg' =>
                 /\ Has(queue, m) \/ Handed(m)
                 /\ ~Has(queue', m)
<1>1. CASE send_msg' \in {send_msg, Garbage} /\ queue' = queue
    <2>1. \A m \in DOMAIN msgs : m # Garbage
        BY Kinds DEF Garbage
    <2> QED
        BY <1>1, <2>1 DEF MailInv, InOnePlace, Handed, Once
<1>2. ASSUME NEW n \in DOMAIN queue, send_msg' = queue[n],
             queue' = Removed(queue, n)
      PROVE  /\ Once(queue)' /\ \A m : Has(queue', m) => Has(queue, m)
             /\ Has(queue, send_msg') /\ ~Has(queue', send_msg')
    <2>1. PICK r : r = queue'
        OBVIOUS
    <2>2. queue \in Seq(DOMAIN msgs)
        BY Kinds
    <2>3. r = Removed(queue, n)
        BY <1>2, <2>1
    <2>4. /\ \A y : Has(r, y) => Has(queue, y)
          /\ Has(queue, queue[n])
          /\ Once(queue) => Once(r) /\ ~Has(r, queue[n])
        <3> DEFINE S == DOMAIN msgs
        <3>1. queue \in Seq(S) /\ n \in DOMAIN queue
            BY <1>2, <2>2
        <3> HIDE DEF S
        <3> QED
            BY <2>3, <3>1, HasRemove
    <2>5. Once(r)
        BY <2>4 DEF MailInv
    <2>6. Once(queue)'
        BY <2>1, <2>5 DEF Once
    <2> QED
        BY <1>2, <2>1, <2>4, <2>6 DEF MailInv
<1> QED
    BY <1>1, <1>2, RcvFacts, TypeFacts

\* Places that an action does not touch.
LEMMA SamePlaces ==
    /\ UNCHANGED sent => /\ \A m : Unsent(m)' <=> Unsent(m)
                         /\ OwnType => OwnType'
                         /\ SentOnce /\ UNCHANGED msgs => SentOnce'
    /\ UNCHANGED net => /\ \A m : Has(net, m)' <=> Has(net, m)
                        /\ Once(net) => Once(net)'
    /\ UNCHANGED queue => /\ \A m : Has(queue, m)' <=> Has(queue, m)
                          /\ Once(queue) => Once(queue)'
    /\ UNCHANGED inc_msg => \A m : Arrived(m)' <=> Arrived(m)
    /\ UNCHANGED out => \A m : Handed(m)' => Handed(m) \/ m = send_msg'
    /\ UNCHANGED <<out, send_msg>> => \A m : Handed(m)' <=> Handed(m)
<1>1. UNCHANGED sent => \A m : Unsent(m)' <=> Unsent(m)
    BY DEF Unsent, Has
<1>2. UNCHANGED sent => (OwnType => OwnType')
    BY DEF OwnType
<1>3. UNCHANGED sent => (SentOnce /\ UNCHANGED msgs => SentOnce')
    BY DEF SentOnce, PutsOnce, Has
<1>4. /\ UNCHANGED net => \A m : Has(net, m)' <=> Has(net, m)
      /\ UNCHANGED net => (Once(net) => Once(net)')
      /\ UNCHANGED queue => \A m : Has(queue, m)' <=> Has(queue, m)
      /\ UNCHANGED queue => (Once(queue) => Once(queue)')
    BY DEF Has, Once
<1>5. UNCHANGED inc_msg => \A m : Arrived(m)' <=> Arrived(m)
    BY DEF Arrived
<1>6. UNCHANGED out => \A m : Handed(m)' => Handed(m) \/ m = send_msg'
    BY DEF Handed, Has
<1>7. UNCHANGED <<out, send_msg>> => \A m : Handed(m)' <=> Handed(m)
    BY DEF Handed, Has
<1> QED
    BY <1>1, <1>2, <1>3, <1>4, <1>5, <1>6, <1>7

\* Every step keeps the messages in one place each.
LEMMA StepPlaces == TypeOK /\ MailInv /\ [Next]_vars => MailInv'
<1> USE DEF drivers, facing, bus
<1> SUFFICES ASSUME TypeOK, MailInv, [Next]_vars PROVE MailInv'
    OBVIOUS
<1>1. CASE \/ \E c \in Conns : \/ Connect(c) \/ ReadWord(c) \/ ReadFails(c)
                              \/ Close(c) \/ Hangup(c)
           \/ Select \/ AcceptFails \/ UNCHANGED vars
    <2>1. UNCHANGED <<msgs, sent, out, net, inc_msg, queue, send_msg>>
        BY <1>1 DEF Connect, ReadWord, ReadFails, Close, Hangup, Select, AcceptFails, vars
    <2> QED
        BY <2>1, QuietPlaces
<1>2. ASSUME NEW c \in Conns, Send(c)
      PROVE  MailInv'
    <2>1. PICK t \in Dest : msgs' = Append(msgs, t)
        BY <1>2 DEF Send
    <2>2. PICK S : S = Records'
        OBVIOUS
    <2>3. PICK x : x = Put(Len(msgs'))
        OBVIOUS
    <2>4. x \in S /\ sent \in [Conns -> Seq(S)] /\ x = Put(Len(msgs) + 1)
        BY <2>1, <2>2, <2>3, NewMessage
    <2>5. DOMAIN msgs' = (DOMAIN msgs) \cup {Len(msgs) + 1}
        BY <2>1, TypeFacts
    <2>6. /\ sent' = [sent EXCEPT ![c] = Append(@, x)]
          /\ UNCHANGED <<out, net, inc_msg, queue, send_msg>>
        BY <1>2, <2>3 DEF Send
    <2> QED
        BY <2>4, <2>5, <2>6, SaysPlaces
<1>3. ASSUME NEW c \in Conns, Ask(c)
      PROVE  MailInv'
    <2>1. PICK x \in Records : x = Get(Identity[c])
        BY DEF Records
    <2>2. /\ sent' = [sent EXCEPT ![c] = Append(@, x)] /\ msgs' = msgs
          /\ UNCHANGED <<out, net, inc_msg, queue, send_msg>>
        BY <1>3, <2>1 DEF Ask
    <2>3. sent \in [Conns -> Seq(Records)]
        BY TypeFacts
    <2> QED
        BY <2>1, <2>2, <2>3, SaysPlaces
<1>4. ASSUME NEW c \in Conns, Answer(c)
      PROVE  MailInv'
    <2>1. /\ Receive(c) /\ Asked(pbuffer') /\ MsgRcv(pbuffer'.type)
          /\ UNCHANGED <<msgs, net, inc_msg>>
        BY <1>4 DEF Answer
    <2>2. /\ OwnType' /\ SentOnce' /\ Once(queue)'
          /\ \A m \in DOMAIN msgs : Unsent(m)' => Unsent(m)
          /\ \A m : Has(queue', m) => Has(queue, m)
          /\ \A m \in DOMAIN msgs : m = send_msg' =>
                /\ Has(queue, m) \/ Handed(m)
                /\ ~Has(queue', m)
        BY <2>1, ReceivePlaces, RcvPlaces
    <2>3. ASSUME NEW m \in DOMAIN msgs, Handed(m)'
          PROVE  Handed(m) \/ m = send_msg'
        <3>1. CASE m # send_msg'
            <4>1. PICK d \in Conns : Has(out'[d], m)
                BY <2>3, <3>1 DEF Handed
            <4>2. PICK x \in 0..Len(msgs) : x = send_msg'
                BY <2>1, RcvTypes
            <4>3. out' = [out EXCEPT ![c] = Append(@, x)] \/ out' = out
                BY <1>4, <4>2 DEF Answer
            <4>4. Has(out[d], m)
                <5>1. CASE out'[d] = out[d]
                    BY <4>1, <5>1
                <5>2. CASE out'[d] = Append(out[d], x)
                    <6>1. out[d] \in Seq(0..Len(msgs))
                        BY Kinds
                    <6>2. Has(out[d], m) \/ m = x
                        BY <4>1, <5>2, <6>1, HasAppend
                    <6> QED
                        BY <3>1, <4>2, <6>2
                <5> QED
                    BY <4>3, <5>1, <5>2, TypeFacts
            <4> QED
                BY <4>4 DEF Handed
        <3> QED
            BY <3>1
    <2>4. /\ Once(net)'
          /\ \A m : (Has(net, m)' <=> Has(net, m)) /\ (Arrived(m)' <=> Arrived(m))
        BY <2>1 DEF MailInv, Once, Has, Arrived
    <2>5. InOnePlace'
        <3>1. ASSUME NEW m \in DOMAIN msgs
              PROVE  /\ Unsent(m)' => ~Has(net, m) /\ ~Arrived(m) /\ ~Has(queue', m) /\ ~Handed(m)'
                     /\ Has(net, m) => ~Arrived(m) /\ ~Has(queue', m) /\ ~Handed(m)'
                     /\ Arrived(m) => ~Has(queue', m) /\ ~Handed(m)'
                     /\ Has(queue', m) => ~Handed(m)'
            BY <2>2, <2>3 DEF MailInv, InOnePlace
        <3> QED
            BY <2>1, <2>4, <3>1 DEF InOnePlace
    <2> QED
        BY <2>2, <2>4, <2>5 DEF MailInv
<1>5. ASSUME NEW c \in Conns, Relay(c)
      PROVE  MailInv'
    <2>1. /\ Receive(c) /\ ~Asked(pbuffer') /\ Multicast(pbuffer'.msg)
          /\ UNCHANGED <<msgs, out, send_msg, inc_msg, queue>>
        BY <1>5 DEF Relay
    <2>2. /\ OwnType' /\ SentOnce'
          /\ \A m \in DOMAIN msgs : Unsent(m)' => Unsent(m)
        BY <2>1, ReceivePlaces
    <2>3. PICK i \in DOMAIN msgs : Multicast(i) /\ Unsent(i) /\ ~Unsent(i)'
        BY <2>1, ReceivePlaces
    <2>4. /\ Once(net)' /\ \A m : Has(net', m) => Has(net, m) \/ m = i
        <3>1. net \in Seq(DOMAIN msgs) /\ ~Has(net, i)
            BY <2>3, Kinds DEF MailInv, InOnePlace
        <3>2. CASE net' = Append(net, i)
            <4>1. PICK r : r = Append(net, i)
                OBVIOUS
            <4>2. Once(r) /\ \A m : Has(r, m) => Has(net, m) \/ m = i
                BY <3>1, <4>1, HasAppend DEF MailInv
            <4> QED
                BY <3>2, <4>1, <4>2 DEF Once
        <3>3. CASE net' = net
            BY <3>3 DEF MailInv, Once
        <3> QED
            BY <2>3, <3>2, <3>3 DEF Multicast
    <2>5. /\ Once(queue)'
          /\ \A m : /\ Has(queue, m)' <=> Has(queue, m)
                    /\ Arrived(m)' <=> Arrived(m)
                    /\ Handed(m)' <=> Handed(m)
        BY <2>1, SamePlaces DEF MailInv
    <2>6. InOnePlace'
        <3>1. ASSUME NEW m \in DOMAIN msgs
              PROVE  /\ Unsent(m)' => ~Has(net', m) /\ ~Arrived(m) /\ ~Has(queue, m) /\ ~Handed(m)
                     /\ Has(net', m) => ~Arrived(m) /\ ~Has(queue, m) /\ ~Handed(m)
                     /\ Arrived(m) => ~Has(queue, m) /\ ~Handed(m)
                     /\ Has(queue, m) => ~Handed(m)
            BY <2>2, <2>3, <2>4 DEF MailInv, InOnePlace
        <3> QED
            BY <2>1, <2>5, <3>1 DEF InOnePlace
    <2> QED
        BY <2>2, <2>4, <2>5, <2>6 DEF MailInv
<1>6. ASSUME NEW c \in Conns, HangupStale(c)
      PROVE  MailInv'
    <2>1. MsgRcv(pbuffer.type) /\ UNCHANGED <<msgs, sent, out, net, inc_msg>>
        BY <1>6 DEF HangupStale
    <2>2. /\ Once(queue)' /\ \A m : Has(queue', m) => Has(queue, m)
          /\ \A m \in DOMAIN msgs : m = send_msg' =>
                /\ Has(queue, m) \/ Handed(m)
                /\ ~Has(queue', m)
        BY <2>1, RcvPlaces
    <2>3. /\ OwnType' /\ SentOnce' /\ Once(net)'
          /\ \A m : /\ Unsent(m)' <=> Unsent(m)
                    /\ Has(net, m)' <=> Has(net, m)
                    /\ Arrived(m)' <=> Arrived(m)
                    /\ Handed(m)' => Handed(m) \/ m = send_msg'
        BY <2>1, SamePlaces DEF MailInv
    <2>4. InOnePlace'
        <3>1. ASSUME NEW m \in DOMAIN msgs
              PROVE  /\ Unsent(m) => ~Has(net, m) /\ ~Arrived(m) /\ ~Has(queue', m) /\ ~Handed(m)'
                     /\ Has(net, m) => ~Arrived(m) /\ ~Has(queue', m) /\ ~Handed(m)'
                     /\ Arrived(m) => ~Has(queue', m) /\ ~Handed(m)'
                     /\ Has(queue', m) => ~Handed(m)'
            BY <2>2, <2>3 DEF MailInv, InOnePlace
        <3> QED
            BY <2>1, <2>3, <3>1 DEF InOnePlace
    <2> QED
        BY <2>2, <2>3, <2>4 DEF MailInv
<1>7. CASE ForeignSend
    <2>1. PICK t \in Foreign : msgs' = Append(msgs, t)
        BY <1>7 DEF ForeignSend
    <2>2. PICK l : l = Len(msgs')
        OBVIOUS
    <2>3. /\ l = Len(msgs) + 1 /\ DOMAIN msgs' = (DOMAIN msgs) \cup {l} /\ l \in DOMAIN msgs'
          /\ net \in Seq(DOMAIN msgs')
        <3>1. msgs' \in Seq(Dest \cup Foreign) /\ DOMAIN msgs' = 1..Len(msgs')
            BY <2>1, NewMessage
        <3>2. DOMAIN msgs' = (DOMAIN msgs) \cup {Len(msgs) + 1}
            BY <2>1, TypeFacts
        <3> QED
            BY <2>1, <2>2, <3>1, <3>2, NewMessage
    <2>4. /\ ~Unsent(l) /\ ~Has(net, l) /\ ~Arrived(l) /\ ~Has(queue, l) /\ ~Handed(l)
        BY <2>3, NoPlace
    <2>5. /\ Multicast(l) /\ UNCHANGED <<sent, out, send_msg, inc_msg, queue>>
        BY <1>7, <2>2 DEF ForeignSend
    <2>6. Once(net)' /\ \A m : Has(net', m) => Has(net, m) \/ m = l
        <3>1. CASE net' = Append(net, l)
            <4>1. PICK r : r = Append(net, l)
                OBVIOUS
            <4>2. PICK S : S = DOMAIN msgs'
                OBVIOUS
            <4>3. Once(r) /\ \A m : Has(r, m) => Has(net, m) \/ m = l
                BY <2>3, <2>4, <4>1, <4>2, HasAppend DEF MailInv
            <4> QED
                BY <3>1, <4>1, <4>3 DEF Once
        <3>2. CASE net' = net
            BY <3>2 DEF MailInv, Once
        <3> QED
            BY <2>5, <3>1, <3>2 DEF Multicast
    <2>7. /\ OwnType' /\ Once(queue)'
          /\ \A m : /\ Unsent(m)' <=> Unsent(m)
                    /\ Has(queue, m)' <=> Has(queue, m)
                    /\ Arrived(m)' <=> Arrived(m)
                    /\ Handed(m)' <=> Handed(m)
        BY <2>5, SamePlaces DEF MailInv
    <2>8. SentOnce'
        <3>1. \A c \in Conns : ~Has(sent[c], Put(l))
            BY <2>4 DEF Unsent
        <3>2. \A c \in Conns : PutsOnce(sent'[c])
            BY <2>5 DEF MailInv, SentOnce
        <3> QED
            BY <2>3, <2>5, <3>1, <3>2 DEF MailInv, SentOnce
    <2>9. InOnePlace'
        <3>1. ASSUME NEW m \in DOMAIN msgs'
              PROVE  /\ Unsent(m) => ~Has(net', m) /\ ~Arrived(m) /\ ~Has(queue, m) /\ ~Handed(m)
                     /\ Has(net', m) => ~Arrived(m) /\ ~Has(queue, m) /\ ~Handed(m)
                     /\ Arrived(m) => ~Has(queue, m) /\ ~Handed(m)
                     /\ Has(queue, m) => ~Handed(m)
            BY <2>3, <2>4, <2>6 DEF MailInv, InOnePlace
        <3> QED
            BY <2>7, <3>1 DEF InOnePlace
    <2> QED
        BY <2>6, <2>7, <2>8, <2>9 DEF MailInv
<1>8. CASE RecvFrom
    <2>1. /\ inc_msg = 0 /\ net # << >> /\ inc_msg' = Head(net) /\ net' = Tail(net)
          /\ UNCHANGED <<msgs, sent, out, queue, send_msg>>
        BY <1>8 DEF RecvFrom
    <2>2. PICK r : r = Tail(net)
        OBVIOUS
    <2>3. PICK x : x = Head(net)
        OBVIOUS
    <2>4. /\ Once(r) /\ Has(net, x) /\ ~Has(r, x) /\ \A m : Has(r, m) => Has(net, m)
        BY <2>1, <2>2, <2>3, HasTail, Kinds DEF MailInv
    <2>5. /\ OwnType' /\ SentOnce' /\ Once(queue)' /\ Once(net)'
          /\ \A m : /\ Unsent(m)' <=> Unsent(m)
                    /\ Has(queue, m)' <=> Has(queue, m)
                    /\ Has(net, m)' <=> Has(r, m)
                    /\ Arrived(m)' <=> m = x
                    /\ Handed(m)' <=> Handed(m)
        <3>1. OwnType' /\ SentOnce' /\ Once(queue)'
            BY <2>1, SamePlaces DEF MailInv
        <3>2. Once(net)' /\ \A m : Has(net, m)' <=> Has(r, m)
            BY <2>1, <2>2, <2>4 DEF Once, Has
        <3>3. \A m : Arrived(m)' <=> m = x
            BY <2>1, <2>3 DEF Arrived
        <3> QED
            BY <2>1, <3>1, <3>2, <3>3, SamePlaces
    <2>6. InOnePlace'
        <3>1. ASSUME NEW m \in DOMAIN msgs
              PROVE  /\ Unsent(m) => ~Has(r, m) /\ m # x /\ ~Has(queue, m) /\ ~Handed(m)
                     /\ Has(r, m) => m # x /\ ~Has(queue, m) /\ ~Handed(m)
                     /\ m = x => ~Has(queue, m) /\ ~Handed(m)
                     /\ Has(queue, m) => ~Handed(m)
            BY <2>4 DEF MailInv, InOnePlace
        <3> QED
            BY <2>1, <2>5, <3>1 DEF InOnePlace
    <2> QED
        BY <2>5, <2>6 DEF MailInv
<1>9. CASE MsgSnd
    <2>1. /\ inc_msg # 0 /\ inc_msg' = 0
          /\ queue' = queue \/ queue' = Append(queue, inc_msg)
          /\ UNCHANGED <<msgs, sent, out, net, send_msg>>
        BY <1>9 DEF MsgSnd
    <2>2. inc_msg \in DOMAIN msgs /\ ~Has(queue, inc_msg) /\ queue \in Seq(DOMAIN msgs)
        <3>1. inc_msg \in DOMAIN msgs
            <4>1. inc_msg \in 0..Len(msgs) /\ DOMAIN msgs = 1..Len(msgs) /\ Len(msgs) \in Nat
                BY Kinds, TypeFacts
            <4> QED
                BY <2>1, <4>1
        <3> QED
            BY <3>1, Kinds DEF MailInv, InOnePlace, Arrived
    <2>3. Once(queue)' /\ \A m : Has(queue', m) => Has(queue, m) \/ Arrived(m)
        <3>1. CASE queue' = Append(queue, inc_msg)
            <4>1. PICK r : r = Append(queue, inc_msg)
                OBVIOUS
            <4>2. Once(r) /\ \A m : Has(r, m) => Has(queue, m) \/ m = inc_msg
                BY <2>2, <4>1, HasAppend DEF MailInv
            <4> QED
                BY <3>1, <4>1, <4>2 DEF Once, Arrived
        <3>2. CASE queue' = queue
            BY <3>2 DEF MailInv, Once
        <3> QED
            BY <2>1, <3>1, <3>2
    <2>4. /\ OwnType' /\ SentOnce' /\ Once(net)'
          /\ \A m : /\ Unsent(m)' <=> Unsent(m)
                    /\ Has(net, m)' <=> Has(net, m)
                    /\ Arrived(m)' <=> m = 0
                    /\ Handed(m)' <=> Handed(m)
        <3>1. OwnType' /\ SentOnce' /\ Once(net)'
            BY <2>1, SamePlaces DEF MailInv
        <3>2. \A m : Arrived(m)' <=> m = 0
            BY <2>1 DEF Arrived
        <3> QED
            BY <2>1, <3>1, <3>2, SamePlaces
    <2>5. InOnePlace'
        <3>1. ASSUME NEW m \in DOMAIN msgs
              PROVE  /\ m # 0
                     /\ Unsent(m) => ~Has(net, m) /\ ~Has(queue', m) /\ ~Handed(m)
                     /\ Has(net, m) => ~Has(queue', m) /\ ~Handed(m)
                     /\ Has(queue', m) => ~Handed(m)
            BY <2>3, Kinds DEF MailInv, InOnePlace
        <3> QED
            BY <2>1, <2>4, <3>1 DEF InOnePlace
    <2> QED
        BY <2>3, <2>4, <2>5 DEF MailInv
<1> QED
    BY <1>1, <1>2, <1>3, <1>4, <1>5, <1>6, <1>7, <1>8, <1>9
    DEF Next, Driver, ClientFacing, NetworkFacing

-----------------------------------------------------------------------------
\* The drivers that have gone.
Left == {c \in Conns : conn[c] \in {"fin", "rst", "gone"}}

\* The messages for a driver are what msgrcv chooses from when its my_mtype is
\* a type.
LEMMA ForDriver ==
    ASSUME TypeOK, NEW c \in Conns, Identity[c] > 0
    PROVE  Drop!For(c) = Candidates(Identity[c])
<1>1. PICK t \in Int : t = Identity[c] /\ t > 0
    BY BusAssumption
<1>2. Candidates(t) = {n \in DOMAIN queue : msgs[queue[n]] = t}
    BY <1>1 DEF Candidates
<1> QED
    BY <1>1, <1>2 DEF Drop!For

\* The abstract specification starts with no mail.
LEMMA InitDrop == Init => Drop!Init
<1> SUFFICES ASSUME Init PROVE Drop!Init
    OBVIOUS
<1>1. Left = {}
    BY DEF Init, Left
<1> QED
    BY <1>1 DEF Init, Drop!Init, Left

\* What does not touch the messages, the queue and the replies is a step of the
\* abstract specification only if a driver leaves.
LEMMA QuietDrop ==
    ASSUME UNCHANGED <<msgs, queue, out>>,
           Left' = Left \/ \E c \in Conns : Left' = Left \cup {c}
    PROVE  [Drop!Next]_Drop!dropVars
<1>1. CASE Left' = Left
    BY <1>1 DEF Drop!dropVars, Left
<1>2. ASSUME NEW c \in Conns, Left' = Left \cup {c}
      PROVE  Drop!Next
    <2>1. Drop!Leave(c)
        BY <1>2 DEF Drop!Leave, Left
    <2> QED
        BY <2>1 DEF Drop!Next
<1> QED
    BY <1>1, <1>2

\* A message is made.
LEMMA CreateDrop ==
    ASSUME NEW t \in Dest \cup Foreign, msgs' = Append(msgs, t),
           UNCHANGED <<queue, out, conn>>
    PROVE  Drop!Next
<1>1. Drop!Create(t)
    BY DEF Drop!Create
<1> QED
    BY <1>1 DEF Drop!Next

\* A driver that stays is answered: with the oldest message for it, or, if none
\* waits, with what is in the buffer.
LEMMA HandDrop ==
    ASSUME TypeOK, MailInv, NEW c \in Conns, Identity[c] > 0,
           MsgRcv(Identity[c]), UNCHANGED <<msgs, Left>>,
           out' = [out EXCEPT ![c] = Append(@, send_msg')]
    PROVE  Drop!Next
<1>1. Drop!For(c) = Candidates(Identity[c])
    BY ForDriver
<1>2. /\ queue \in Seq(1..Len(msgs)) /\ send_msg' \in 0..Len(msgs)
      /\ \A m \in DOMAIN msgs : m = send_msg' => ~Has(queue', m)
      /\ queue \in Seq(DOMAIN msgs) /\ DOMAIN msgs = 1..Len(msgs) /\ Len(msgs) \in Nat
    BY RcvPlaces, RcvTypes, Kinds, TypeFacts
<1>3. CASE Candidates(Identity[c]) = {} /\ queue' = queue
    <2>1. PICK m \in (DOMAIN msgs) \cup {0} : m = send_msg'
        BY <1>2
    <2>2. \A n \in DOMAIN queue : queue[n] # m
        <3>1. CASE m = 0
            BY <1>2, <3>1, Kinds
        <3>2. CASE m # 0
            BY <1>2, <1>3, <2>1, <3>2 DEF Has
        <3> QED
            BY <3>1, <3>2
    <2>3. Drop!Repeat(c, m)
        BY <1>1, <1>3, <2>1, <2>2 DEF Drop!Repeat, Left
    <2> QED
        BY <2>1, <2>3 DEF Drop!Next, Drop!Nothing
<1>4. ASSUME NEW n \in Candidates(Identity[c]),
             \A m \in Candidates(Identity[c]) : n <= m,
             n \in DOMAIN queue, send_msg' = queue[n], queue' = Removed(queue, n)
      PROVE  Drop!Next
    <2>1. Drop!Hand(c, n)
        BY <1>1, <1>4 DEF Drop!Hand, Drop!Without, Removed, Left
    <2> QED
        BY <1>4, <2>1 DEF Drop!Next
<1> QED
    BY <1>2, <1>3, <1>4, RcvFacts

\* What msgrcv takes for a driver that has gone is lost.
LEMMA LoseDrop ==
    ASSUME TypeOK, NEW t, MsgRcv(t), UNCHANGED <<msgs, out, Left>>, Left # {}
    PROVE  [Drop!Next]_Drop!dropVars
<1>1. CASE queue' = queue
    BY <1>1, QuietDrop
<1>2. ASSUME NEW n \in DOMAIN queue, queue' = Removed(queue, n)
      PROVE  Drop!Next
    <2>1. Drop!Lose(n)
        BY <1>2 DEF Drop!Lose, Drop!Without, Removed, Left
    <2> QED
        BY <2>1 DEF Drop!Next
<1>3. queue \in Seq(1..Len(msgs))
    BY TypeFacts
<1> QED
    BY <1>1, <1>2, <1>3, RcvFacts

\* A message comes into the queue for the first time, unless its type is 0.
LEMMA StoreDrop ==
    ASSUME TypeOK, MailInv, MsgSnd
    PROVE  [Drop!Next]_Drop!dropVars
<1>1. UNCHANGED <<msgs, out, conn>> /\ inc_msg # 0
    BY DEF MsgSnd, drivers, facing
<1>2. CASE queue' = queue
    BY <1>1, <1>2, QuietDrop DEF Left
<1>3. CASE queue' = Append(queue, inc_msg)
    <2>1. inc_msg \in DOMAIN msgs
        <3>1. inc_msg \in 0..Len(msgs) /\ DOMAIN msgs = 1..Len(msgs) /\ Len(msgs) \in Nat
            BY Kinds, TypeFacts
        <3> QED
            BY <1>1, <3>1
    <2>2. ~Has(queue, inc_msg) /\ \A c \in Conns : ~Has(out[c], inc_msg)
        BY <2>1 DEF MailInv, InOnePlace, Arrived, Handed
    <2>3. Drop!Store(inc_msg)
        BY <1>1, <1>3, <2>2 DEF Drop!Store, Has
    <2> QED
        BY <2>1, <2>3 DEF Drop!Next
<1> QED
    BY <1>2, <1>3 DEF MsgSnd

\* Every step of the server is a step of the abstract specification, or none.
LEMMA StepDrop ==
    ASSUME \A c \in Conns : Identity[c] > 0,
           TypeOK, ServeInv, MailInv, [Next]_vars
    PROVE  [Drop!Next]_Drop!dropVars
<1> USE DEF drivers, facing, bus
<1>1. CASE \/ \E c \in Conns : Ask(c) \/ ReadWord(c) \/ ReadFails(c) \/ Relay(c)
           \/ Select \/ AcceptFails \/ RecvFrom \/ UNCHANGED vars
    <2>1. UNCHANGED <<msgs, queue, out, conn>>
        BY <1>1 DEF Ask, ReadWord, ReadFails, Relay, Select, AcceptFails, RecvFrom, vars
    <2> QED
        BY <2>1, QuietDrop DEF Left
<1>2. ASSUME NEW c \in Conns, Connect(c)
      PROVE  [Drop!Next]_Drop!dropVars
    <2>1. UNCHANGED <<msgs, queue, out>>
        BY <1>2 DEF Connect
    <2>2. \A d \in Conns : conn'[d] = conn[d] \/ (conn[d] = "none" /\ conn'[d] = "open")
        BY <1>2 DEF Connect, TypeOK
    <2>3. Left' = Left
        BY <2>2 DEF Left
    <2> QED
        BY <2>1, <2>3, QuietDrop
<1>3. ASSUME NEW c \in Conns, Close(c)
      PROVE  [Drop!Next]_Drop!dropVars
    <2>1. UNCHANGED <<msgs, queue, out>>
        BY <1>3 DEF Close
    <2>2. /\ conn'[c] \in {"fin", "rst"}
          /\ \A d \in Conns : d # c => conn'[d] = conn[d]
        BY <1>3 DEF Close, TypeOK
    <2>3. Left' = Left \cup {c}
        BY <2>2 DEF Left
    <2> QED
        BY <2>1, <2>3, QuietDrop
<1>4. ASSUME NEW c \in Conns, Ended(c)
      PROVE  Left' = Left /\ Left # {}
    <2>1. conn[c] \in {"fin", "rst", "gone"}
        BY <1>4, Visited DEF Ended, TypeOK
    <2>2. /\ conn'[c] = IF conn[c] = "rst" THEN "gone" ELSE conn[c]
          /\ \A d \in Conns : d # c => conn'[d] = conn[d]
        BY <1>4 DEF Ended, TypeOK
    <2>3. conn'[c] \in {"fin", "rst", "gone"}
        BY <2>1, <2>2
    <2> QED
        BY <2>1, <2>2, <2>3 DEF Left
<1>5. ASSUME NEW c \in Conns, Hangup(c)
      PROVE  [Drop!Next]_Drop!dropVars
    BY <1>4, <1>5, QuietDrop DEF Hangup
<1>6. ASSUME NEW c \in Conns, HangupStale(c)
      PROVE  [Drop!Next]_Drop!dropVars
    BY <1>4, <1>6, LoseDrop DEF HangupStale
<1>7. ASSUME NEW c \in Conns, Answer(c)
      PROVE  [Drop!Next]_Drop!dropVars
    <2>1. /\ Receive(c) /\ Asked(pbuffer') /\ MsgRcv(pbuffer'.type) /\ UNCHANGED msgs
          /\ out' = IF conn[c] = "open" THEN [out EXCEPT ![c] = Append(@, send_msg')]
                                        ELSE out
        BY <1>7 DEF Answer
    <2>2. MsgRcv(Identity[c])
        BY <2>1, ReceivePlaces, RecordFacts
    <2>3. PICK k \in CASE conn[c] = "fin" -> {"fin", "gone"}
                       [] conn[c] = "rst" -> {"gone"}
                       [] OTHER           -> {conn[c]} :
             conn' = [conn EXCEPT ![c] = k]
        BY <1>7 DEF Answer
    <2>4. k = conn[c] \/ (conn[c] \in {"fin", "rst"} /\ k = "gone")
            \/ (conn[c] = "fin" /\ k = "fin")
        BY <2>3
    <2>5. Left' = Left
        BY <2>3, <2>4 DEF Left, TypeOK
    <2>6. CASE conn[c] = "open"
        BY <2>1, <2>2, <2>5, <2>6, HandDrop
    <2>7. CASE conn[c] # "open"
        <3>1. conn[c] # "none"
            BY <2>1, Visited DEF Receive
        <3>2. c \in Left
            BY <2>7, <3>1 DEF Left, TypeOK
        <3> QED
            BY <2>1, <2>2, <2>5, <2>7, <3>2, LoseDrop
    <2> QED
        BY <2>6, <2>7
<1>8. CASE ForeignSend \/ \E c \in Conns : Send(c)
    BY <1>8, CreateDrop DEF ForeignSend, Send
<1> QED
    BY <1>1, <1>2, <1>3, <1>5, <1>6, <1>7, <1>8, StoreDrop
    DEF Next, Driver, ClientFacing, NetworkFacing

\* The two invariants together.
LEMMA PlacesInvariant == BusInv /\ MailInv /\ [Next]_vars => MailInv'
    BY StepPlaces DEF BusInv

\* The server implements MailDrop for drivers whose my_mtype is a type: a request
\* takes the oldest message for its driver, a reply without one is sent only if
\* none waits, and no message is lost before a driver has gone.
THEOREM MailImplemented ==
    (\A c \in Conns : Identity[c] > 0) => (Spec => MailIsKept)
<1> SUFFICES ASSUME \A c \in Conns : Identity[c] > 0
             PROVE  Spec => MailIsKept
    OBVIOUS
<1>1. BusInv /\ MailInv /\ [Next]_vars => [Drop!Next]_Drop!dropVars
    BY StepDrop DEF BusInv
<1> QED
    BY <1>1, InitBus, StepBus, InitPlaces, PlacesInvariant, InitDrop, PTL
    DEF Spec, MailIsKept, Drop!Spec
=============================================================================
