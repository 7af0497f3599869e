-------------------------- MODULE EchoRelayProofs --------------------------
(***************************************************************************)
(* What comes back of an echo, for any number and size of messages and any *)
(* capacity of the connection.  The units that a client has begun to send  *)
(* are all somewhere: not yet taken, on their way, in the server, back, or *)
(* lost by a send.  That a client ends only when nothing is under way any  *)
(* more follows from the order of the ends: the sender's shutdown, the     *)
(* server's close, and the end of the stream.                              *)
(***************************************************************************)
EXTENDS EchoRelay, TLAPS

\* The units of the first n messages.
Begun(n) == n * Message

\* Every unit is in one place.
Balance ==
    /\ up + held + down + got + lost + rest = Begun(i)
    /\ got = file + fr

\* Who may have begun a message that is not sent in full.
Senders ==
    /\ kind = "two" => pc \in {"recv", "closed"}
    /\ kind # "two" => pc # "recv" /\ ~sender
    /\ rest > 0 => sender \/ pc = "put"

\* Nothing is sent behind a shutdown, nor left when the server has closed.
Ends ==
    /\ shut => i = NumMessages /\ rest = 0 /\ ~sender
    /\ server = "recv" => held = 0
    /\ server = "closed" => shut /\ up = 0 /\ held = 0

\* What a non-blocking send loses, select had not promised room for.
Losses ==
    /\ kind # "nonblocking" => lost = 0 /\ fr = 0
    /\ mark >= Message => lost = 0
    /\ pc \in {"in", "out"} /\ "out" \in ready /\ ~shut => UpCap - up >= mark

IInv ==
    /\ TypeOK
    /\ Balance
    /\ Senders
    /\ Ends
    /\ Losses
    /\ pc = "closed" => got = Total - lost

-----------------------------------------------------------------------------
\* The constants, for the provers.
LEMMA Sizes ==
    /\ NumMessages \in Nat /\ NumMessages >= 1 /\ Message \in Nat /\ Message >= 1
    /\ UpCap \in Nat /\ DownCap \in Nat
    /\ Block \in Nat /\ Block >= Message
    /\ \A m \in Marks : m \in Nat /\ m >= 1 /\ m <= UpCap
  BY EchoAssumption DEF Block

\* What products the balance needs, so that no other step multiplies.
LEMMA BegunFacts ==
    /\ Begun(0) = 0 /\ Begun(NumMessages) = Total
    /\ Total \in Nat
    /\ \A n \in Nat : Begun(n) \in Nat /\ Begun(n + 1) = Begun(n) + Message
    /\ \A n \in 0..NumMessages : Begun(n) <= Total
  <1>1. Message \in Nat /\ NumMessages \in Nat
    BY Sizes
  <1>2. Total \in Nat
    BY <1>1 DEF Total
  <1>3. ASSUME NEW n \in Nat
        PROVE Begun(n) \in Nat /\ Begun(n + 1) = Begun(n) + Message
    BY <1>1 DEF Begun
  <1>4. ASSUME NEW n \in 0..NumMessages
        PROVE Begun(n) <= Total
    <2>1. PICK d \in Nat : NumMessages = n + d
      <3>1. NumMessages - n \in Nat /\ NumMessages = n + (NumMessages - n)
        BY <1>1
      <3> QED BY <3>1
    <2>2. Total = n * Message + d * Message
      BY <2>1, <1>1 DEF Total
    <2>3. n * Message \in Nat /\ d * Message \in Nat
      BY <2>1, <1>1
    <2> QED BY <2>2, <2>3 DEF Begun
  <1> QED BY <1>1, <1>2, <1>3, <1>4 DEF Begun, Total

\* The smaller of two numbers.
LEMMA MinOfTwo ==
    ASSUME NEW a \in Int, NEW b \in Int
    PROVE Min({a, b}) = IF a <= b THEN a ELSE b
  BY DEF Min

\* A recv or a send that takes a part of what is there and of what there is
\* room for.
LEMMA Part ==
    ASSUME NEW a \in Int, NEW b \in Int, NEW n \in 1..Min({a, b})
    PROVE n \in Nat /\ n >= 1 /\ n <= a /\ n <= b
  BY MinOfTwo

-----------------------------------------------------------------------------
\* The invariant is inductive.
LEMMA Initially == Init => IInv
  <1> SUFFICES ASSUME Init PROVE IInv
    OBVIOUS
  <1>0. sender \in BOOLEAN /\ (kind # "two" => ~sender)
    BY Zenon DEF Init
  <1>1. TypeOK
    <2>1. kind \in Kinds /\ mark \in Marks
      BY DEF Init
    <2>2. pc \in {"recv", "select"} /\ ready \subseteq {"in", "out", "file"}
      BY DEF Init
    <2>3. /\ up = 0 /\ down = 0 /\ held = 0 /\ server = "recv" /\ i = 0 /\ rest = 0
          /\ shut = FALSE /\ got = 0 /\ file = 0 /\ lost = 0 /\ fr = 0
      BY DEF Init
    <2>4. /\ 0 \in 0..UpCap /\ 0 \in 0..DownCap /\ 0 \in 0..Block /\ 0 \in 0..NumMessages
          /\ 0 \in 0..Message /\ 0 \in 0..Total
      BY Sizes, BegunFacts
    <2> QED BY <1>0, <2>1, <2>2, <2>3, <2>4, Zenon DEF TypeOK
  <1>2. Balance
    BY BegunFacts DEF Init, Balance
  <1>3. Senders
    <2>1. kind = "two" => pc = "recv"
      BY DEF Init
    <2>2. kind # "two" => pc = "select"
      BY DEF Init
    <2>3. rest = 0
      BY DEF Init
    <2> QED BY <1>0, <2>1, <2>2, <2>3 DEF Senders
  <1>4. Ends /\ Losses /\ pc # "closed"
    BY DEF Init, Ends, Losses
  <1> QED BY <1>1, <1>2, <1>3, <1>4 DEF IInv

\* Each action keeps it.  The server holds what it has taken.
LEMMA ServerRecvKeeps == IInv /\ ServerRecv => IInv'
  <1> SUFFICES ASSUME IInv, ServerRecv PROVE IInv'
    OBVIOUS
  <1> USE DEF IInv, ServerRecv, sendVars, readVars
  <1>1. CASE up = 0 /\ shut /\ server' = "closed" /\ UNCHANGED <<up, held>>
    BY <1>1 DEF TypeOK, Balance, Senders, Ends, Losses
  <1>2. ASSUME NEW n \in 1..Min({up, Block}), up' = up - n, held' = n, server' = "send"
        PROVE  IInv'
    <2>1. n \in Nat /\ n >= 1 /\ n <= up /\ n <= Block
      BY Part, Sizes DEF TypeOK
    <2>2. TypeOK'
      BY <1>2, <2>1, Sizes DEF TypeOK
    <2>3. Balance'
      BY <1>2, <2>1, BegunFacts DEF TypeOK, Balance, Ends
    <2> QED BY <1>2, <2>1, <2>2, <2>3, Sizes DEF TypeOK, Senders, Ends, Losses
  <1> QED BY <1>1, <1>2

\* A bit of what the server holds goes back.
LEMMA ServerSendKeeps == IInv /\ ServerSend => IInv'
  <1> SUFFICES ASSUME IInv, ServerSend PROVE IInv'
    OBVIOUS
  <1> USE DEF IInv, sendVars, readVars
  <1>1. PICK n \in 1..Min({held, DownCap - down}) :
          /\ down' = down + n /\ held' = held - n
          /\ server' = IF n = held THEN "recv" ELSE "send"
    BY DEF ServerSend
  <1>2. n \in Nat /\ n >= 1 /\ n <= held /\ n <= DownCap - down
    BY Part, Sizes DEF TypeOK
  <1>3. TypeOK'
    BY <1>1, <1>2, Sizes DEF ServerSend, TypeOK
  <1>4. Balance'
    BY <1>1, <1>2, BegunFacts DEF ServerSend, TypeOK, Balance
  <1>5. (Senders /\ Ends /\ Losses)'
    BY <1>1, <1>2 DEF ServerSend, TypeOK, Senders, Ends, Losses
  <1> QED BY <1>3, <1>4, <1>5 DEF ServerSend

\* A blocking send.
LEMMA PutFacts ==
    ASSUME IInv, Put
    PROVE  \E n \in Nat : /\ n >= 1 /\ n <= rest /\ n <= UpCap - up
                          /\ up' = up + n /\ rest' = rest - n
  <1>1. PICK n \in 1..Min({rest, UpCap - up}) : up' = up + n /\ rest' = rest - n
    BY DEF Put
  <1>2. n \in Nat /\ n >= 1 /\ n <= rest /\ n <= UpCap - up
    BY Part, Sizes DEF IInv, TypeOK
  <1> QED BY <1>1, <1>2

\* The sender of "two" begins, sends on, or shuts down.
LEMMA SendKeeps == IInv /\ Send => IInv'
  <1> SUFFICES ASSUME IInv, Send PROVE IInv'
    OBVIOUS
  <1> USE DEF IInv, readVars
  <1>0. UNCHANGED <<kind, mark, down, held, server, got, fr, file, pc, ready, lost>>
    BY DEF Send
  <1>1. CASE rest = 0 /\ Begin /\ rest' = Message /\ sender /\ UNCHANGED <<up, shut, sender>>
    <2>1. i \in Nat /\ i < NumMessages /\ i' = i + 1
      BY <1>1 DEF Begin, TypeOK
    <2>2. ~shut
      BY <2>1, Sizes DEF Ends
    <2>3. TypeOK'
      BY <1>0, <1>1, <2>1, Sizes DEF TypeOK
    <2>4. Balance'
      BY <1>0, <1>1, <2>1, BegunFacts, Sizes DEF TypeOK, Balance
    <2> QED BY <1>0, <1>1, <2>2, <2>3, <2>4 DEF TypeOK, Senders, Ends, Losses
  <1>2. CASE Put /\ sender /\ UNCHANGED <<i, shut, sender>>
    <2>1. PICK n \in Nat : /\ n >= 1 /\ n <= rest /\ n <= UpCap - up
                           /\ up' = up + n /\ rest' = rest - n
      BY <1>2, PutFacts
    <2>2. ~shut /\ server # "closed"
      BY <1>2 DEF Ends
    <2>3. kind = "two" /\ pc \notin {"in", "out"}
      BY <1>2 DEF Senders
    <2>4. TypeOK'
      BY <1>0, <1>2, <2>1, Sizes DEF TypeOK
    <2>5. Balance'
      BY <1>0, <1>2, <2>1, BegunFacts, Sizes DEF TypeOK, Balance
    <2> QED BY <1>0, <1>2, <2>2, <2>3, <2>4, <2>5 DEF Senders, Ends, Losses
  <1>3. CASE /\ rest = 0 /\ i = NumMessages /\ shut' = TRUE /\ sender' = FALSE
             /\ UNCHANGED <<up, i, rest>>
    <2>1. shut' /\ ~sender' /\ shut' \in BOOLEAN /\ sender' \in BOOLEAN
      BY <1>3
    <2>2. TypeOK'
      BY <1>0, <1>3, <2>1 DEF TypeOK
    <2>3. Balance'
      BY <1>0, <1>3 DEF Balance
    <2> QED BY <1>0, <1>3, <2>1, <2>2, <2>3 DEF Senders, Ends, Losses
  <1> QED BY <1>1, <1>2, <1>3 DEF Send

\* A recv of a part of what has come.
LEMMA GetFacts ==
    ASSUME IInv, NEW size \in Nat, Get(size)
    PROVE  \E n \in Nat : /\ n >= 1 /\ n <= down /\ n <= size
                          /\ down' = down - n /\ got' = got + n
  <1>1. PICK n \in 1..Min({down, size}) : down' = down - n /\ got' = got + n
    BY DEF Get
  <1>2. n \in Nat /\ n >= 1 /\ n <= down /\ n <= size
    BY Part DEF IInv, TypeOK
  <1> QED BY <1>1, <1>2

\* All that is anywhere is part of all that is sent.
LEMMA Bounded ==
    ASSUME IInv
    PROVE  /\ got + down + lost <= Total /\ file + fr + down <= Total
           /\ lost + rest <= Begun(i) /\ Begun(i) \in Nat
  <1>1. Begun(i) <= Total /\ Total \in Nat /\ Begun(i) \in Nat
    BY BegunFacts, Sizes DEF IInv, TypeOK
  <1> QED BY <1>1, BegunFacts, Sizes DEF IInv, TypeOK, Balance

\* At the end of the stream nothing is under way.
LEMMA EndBalance ==
    ASSUME IInv, AtEnd
    PROVE  got = Total - lost
  <1>1. shut /\ up = 0 /\ held = 0 /\ down = 0
    BY DEF IInv, AtEnd, Ends
  <1>2. i = NumMessages /\ rest = 0
    BY <1>1 DEF IInv, Ends
  <1> QED BY <1>1, <1>2, BegunFacts DEF IInv, TypeOK, Balance

\* The reader of "two" takes a part, or stops at the end of the stream.
LEMMA ReadKeeps == IInv /\ Read => IInv'
  <1> SUFFICES ASSUME IInv, Read PROVE IInv'
    OBVIOUS
  <1> USE DEF IInv, sendVars
  <1>0. /\ UNCHANGED <<kind, mark, up, held, server, i, rest, shut, sender, lost, fr, ready>>
        /\ kind = "two" /\ pc = "recv"
    BY DEF Read
  <1>1. CASE Get(Block) /\ file' = file + (got' - got) /\ UNCHANGED pc
    <2>1. PICK n \in Nat : /\ n >= 1 /\ n <= down /\ n <= Block
                           /\ down' = down - n /\ got' = got + n
      BY <1>1, GetFacts, Sizes
    <2>2. file' = file + n
      BY <1>1, <2>1 DEF TypeOK
    <2>3. TypeOK'
      BY <1>0, <1>1, <2>1, <2>2, Bounded, BegunFacts, Sizes DEF TypeOK
    <2>4. Balance'
      BY <1>0, <2>1, <2>2, BegunFacts, Sizes DEF TypeOK, Balance
    <2> QED BY <1>0, <1>1, <2>3, <2>4 DEF Senders, Ends, Losses
  <1>2. CASE AtEnd /\ pc' = "closed" /\ UNCHANGED <<down, got, file>>
    <2>1. got' = Total - lost'
      BY <1>0, <1>2, EndBalance
    <2>2. TypeOK' /\ Balance'
      BY <1>0, <1>2 DEF TypeOK, Balance
    <2>3. rest = 0
      BY <1>2 DEF AtEnd, Ends
    <2> QED BY <1>0, <1>2, <2>1, <2>2, <2>3 DEF Senders, Ends, Losses
  <1> QED BY <1>1, <1>2 DEF Read

\* What select says of the socket holds when it says it.
LEMMA SelectKeeps == IInv /\ Select => IInv'
  <1> SUFFICES ASSUME IInv, Select PROVE IInv'
    OBVIOUS
  <1> USE DEF IInv, connVars, sendVars, readVars
  <1>1. /\ UNCHANGED <<kind, mark, up, down, held, server, i, rest, shut, sender, lost, got, fr, file>>
        /\ pc = "select" /\ pc' = "in"
    BY DEF Select
  <1>2. ready' \subseteq {"in", "out", "file"}
    BY DEF Select
  <1>3. "out" \in ready' => Writable
    BY DEF Select
  <1>4. TypeOK' /\ Balance'
    BY <1>1, <1>2 DEF TypeOK, Balance
  <1>5. (Senders /\ Ends)'
    BY <1>1 DEF Senders, Ends
  <1>6. Losses'
    BY <1>1, <1>3 DEF Losses, Writable
  <1> QED BY <1>1, <1>4, <1>5, <1>6

\* A client that has got all stops, and nothing was lost then.
LEMMA InKeeps == IInv /\ In => IInv'
  <1> SUFFICES ASSUME IInv, In PROVE IInv'
    OBVIOUS
  <1> USE DEF IInv, sendVars
  <1>0. /\ UNCHANGED <<kind, mark, up, held, server, i, rest, shut, sender, lost, ready>>
        /\ pc = "in" /\ kind # "two" /\ rest = 0
    BY Sizes DEF In, Senders, TypeOK
  <1>1. CASE pc' = "out" /\ UNCHANGED <<down, got, fr, file>>
    <2>1. TypeOK' /\ Balance'
      BY <1>0, <1>1 DEF TypeOK, Balance
    <2> QED BY <1>0, <1>1, <2>1 DEF Senders, Ends, Losses
  <1>2. CASE (AtEnd \/ got = Total) /\ pc' = "closed" /\ UNCHANGED <<down, got, fr, file>>
    <2>1. got = Total - lost
      <3>1. CASE AtEnd
        BY <3>1, EndBalance
      <3>2. CASE got = Total
        BY <3>2, Bounded, BegunFacts DEF TypeOK
      <3> QED BY <1>2, <3>1, <3>2
    <2>2. TypeOK' /\ Balance'
      BY <1>0, <1>2 DEF TypeOK, Balance
    <2> QED BY <1>0, <1>2, <2>1, <2>2 DEF Senders, Ends, Losses
  <1>3. CASE kind = "blocking" /\ Get(Block) /\ file' = file + (got' - got) /\ UNCHANGED fr /\ pc' = "out"
    <2>1. PICK n \in Nat : /\ n >= 1 /\ n <= down /\ n <= Block
                           /\ down' = down - n /\ got' = got + n
      BY <1>3, GetFacts, Sizes
    <2>2. file' = file + n
      BY <1>3, <2>1 DEF TypeOK
    <2>3. TypeOK'
      BY <1>0, <1>3, <2>1, <2>2, Bounded, BegunFacts, Sizes DEF TypeOK
    <2>4. Balance'
      BY <1>0, <1>3, <2>1, <2>2, BegunFacts, Sizes DEF TypeOK, Balance
    <2> QED BY <1>0, <1>3, <2>3, <2>4 DEF Senders, Ends, Losses
  <1>4. CASE kind # "blocking" /\ Get(Message - fr) /\ fr' = fr + (got' - got) /\ UNCHANGED file /\ pc' = "out"
    <2>1. Message - fr \in Nat
      BY Sizes DEF TypeOK
    <2>2. PICK n \in Nat : /\ n >= 1 /\ n <= down /\ n <= Message - fr
                           /\ down' = down - n /\ got' = got + n
      BY <1>4, <2>1, GetFacts
    <2>3. fr' = fr + n
      BY <1>4, <2>2 DEF TypeOK
    <2>4. kind = "nonblocking"
      BY <1>0, <1>4, EchoAssumption DEF TypeOK
    <2>5. TypeOK'
      BY <1>0, <1>4, <2>2, <2>3, Bounded, BegunFacts, Sizes DEF TypeOK
    <2>6. Balance'
      BY <1>0, <1>4, <2>2, <2>3, BegunFacts, Sizes DEF TypeOK, Balance
    <2> QED BY <1>0, <1>4, <2>4, <2>5, <2>6 DEF Senders, Ends, Losses
  <1> QED BY <1>1, <1>2, <1>3, <1>4 DEF In

\* The only place where units are lost.
LEMMA OutKeeps == IInv /\ Out => IInv'
  <1> SUFFICES ASSUME IInv, Out PROVE IInv'
    OBVIOUS
  <1> USE DEF IInv, readVars
  <1>0. /\ UNCHANGED <<kind, mark, down, held, server, shut, sender, got, fr, file, ready>>
        /\ pc = "out" /\ kind # "two" /\ rest = 0
    BY Sizes DEF Out, Senders, TypeOK
  <1>1. CASE pc' = "flush" /\ UNCHANGED <<up, i, rest, lost>>
    <2>1. TypeOK' /\ Balance'
      BY <1>0, <1>1 DEF TypeOK, Balance
    <2> QED BY <1>0, <1>1, <2>1 DEF Senders, Ends, Losses
  <1>2. CASE "out" \in ready /\ Begin
    <2>1. i \in Nat /\ i < NumMessages /\ i' = i + 1 /\ ~shut /\ server # "closed"
      BY <1>2, Sizes DEF Begin, TypeOK, Ends
    <2>2. Begun(i + 1) = Begun(i) + Message /\ Begun(i + 1) <= Total
      BY <2>1, BegunFacts, Sizes
    <2>3. CASE kind = "blocking" /\ rest' = Message /\ pc' = "put" /\ UNCHANGED <<up, lost>>
      <3>1. TypeOK'
        BY <1>0, <2>1, <2>3, Sizes DEF TypeOK
      <3>2. Balance'
        BY <1>0, <2>1, <2>2, <2>3, Bounded, Sizes DEF TypeOK, Balance
      <3> QED BY <1>0, <2>1, <2>3, <3>1, <3>2 DEF Senders, Ends, Losses
    <2>4. CASE /\ kind # "blocking" /\ up' = up + Min({Message, UpCap - up})
               /\ lost' = lost + Message - Min({Message, UpCap - up})
               /\ pc' = "flush" /\ UNCHANGED rest
      <3>1. PICK n \in Nat : /\ n <= Message /\ n <= UpCap - up
                             /\ n = Message \/ n = UpCap - up
                             /\ up' = up + n /\ lost' = lost + Message - n
        <4>1. Min({Message, UpCap - up}) = IF Message <= UpCap - up THEN Message ELSE UpCap - up
          BY MinOfTwo, Sizes DEF TypeOK
        <4>2. Message \in Nat /\ UpCap - up \in Nat
          BY Sizes DEF TypeOK
        <4> QED BY <2>4, <4>1, <4>2
      <3>2. TypeOK'
        BY <1>0, <2>1, <2>2, <2>4, <3>1, Bounded, BegunFacts, Sizes DEF TypeOK
      <3>3. Balance'
        BY <1>0, <2>1, <2>2, <2>4, <3>1, Bounded, Sizes DEF TypeOK, Balance
      <3>4. mark >= Message => lost' = lost
        BY <1>0, <1>2, <2>1, <3>1, Sizes DEF TypeOK, Losses
      <3>5. kind = "nonblocking"
        BY <1>0, <2>4, EchoAssumption DEF TypeOK
      <3> QED BY <1>0, <2>1, <2>4, <3>2, <3>3, <3>4, <3>5 DEF Senders, Ends, Losses
    <2>5. i # NumMessages
      BY <2>1, Sizes
    <2> QED BY <1>2, <2>3, <2>4, <2>5 DEF Out
  <1> QED BY <1>1, <1>2 DEF Out

\* The blocking client sends on.
LEMMA OutPutKeeps == IInv /\ OutPut => IInv'
  <1> SUFFICES ASSUME IInv, OutPut PROVE IInv'
    OBVIOUS
  <1> USE DEF IInv, readVars
  <1>0. /\ UNCHANGED <<kind, mark, down, held, server, i, shut, sender, lost, got, fr, file, ready>>
        /\ pc = "put" /\ pc' \in {"flush", "put"} /\ (rest' # 0 => pc' = "put")
    BY DEF OutPut
  <1>1. PICK n \in Nat : /\ n >= 1 /\ n <= rest /\ n <= UpCap - up
                         /\ up' = up + n /\ rest' = rest - n
    BY PutFacts DEF OutPut
  <1>2. ~shut /\ server # "closed"
    BY <1>1 DEF Ends, TypeOK
  <1>3. TypeOK'
    BY <1>0, <1>1, Sizes DEF TypeOK
  <1>4. Balance'
    BY <1>0, <1>1, BegunFacts, Sizes DEF TypeOK, Balance
  <1>5. Senders'
    BY <1>0, <1>1 DEF Senders, TypeOK
  <1> QED BY <1>0, <1>2, <1>3, <1>4, <1>5 DEF Ends, Losses

\* What leaves fr is in the file.
LEMMA FlushKeeps == IInv /\ Flush => IInv'
  <1> SUFFICES ASSUME IInv, Flush PROVE IInv'
    OBVIOUS
  <1> USE DEF IInv, connVars, sendVars
  <1>0. /\ UNCHANGED <<kind, mark, up, down, held, server, i, rest, shut, sender, lost, got, ready>>
        /\ pc = "flush" /\ pc' = "shut"
    BY DEF Flush
  <1>1. \/ file' = file + fr /\ fr' = 0
        \/ UNCHANGED <<file, fr>>
    BY DEF Flush
  <1>2. TypeOK'
    BY <1>0, <1>1, Bounded, BegunFacts, Sizes DEF TypeOK
  <1>3. Balance'
    BY <1>0, <1>1, Sizes, BegunFacts DEF TypeOK, Balance
  <1> QED BY <1>0, <1>1, <1>2, <1>3 DEF Senders, Ends, Losses

\* The loop shuts down only behind a message that is sent in full.
LEMMA ShutKeeps == IInv /\ Shut => IInv'
  <1> SUFFICES ASSUME IInv, Shut PROVE IInv'
    OBVIOUS
  <1> USE DEF IInv, connVars, readVars
  <1>0. /\ UNCHANGED <<kind, mark, up, down, held, server, i, rest, sender, lost, got, fr, file, ready>>
        /\ pc = "shut" /\ pc' = "select" /\ kind # "two"
    BY DEF Shut, Senders
  <1>1. rest = 0 /\ ~sender
    BY <1>0, Sizes DEF Senders, TypeOK
  <1>2. shut' \in BOOLEAN /\ (shut => shut') /\ (shut' => i = NumMessages)
    BY Zenon DEF Shut, TypeOK, Ends
  <1>3. TypeOK' /\ Balance'
    BY <1>0, <1>2 DEF TypeOK, Balance
  <1> QED BY <1>0, <1>1, <1>2, <1>3 DEF Senders, Ends, Losses

\* The inductive invariant, for any client and any connection.
THEOREM Invariant == Spec => []IInv
  <1>1. IInv /\ [Next]_vars => IInv'
    <2> SUFFICES ASSUME IInv, [Next]_vars PROVE IInv'
      OBVIOUS
    <2>1. CASE Server
      BY <2>1, ServerRecvKeeps, ServerSendKeeps DEF Server
    <2>2. CASE Send
      BY <2>2, SendKeeps
    <2>3. CASE Read
      BY <2>3, ReadKeeps
    <2>4. CASE Loop
      BY <2>4, SelectKeeps, InKeeps, OutKeeps, OutPutKeeps, FlushKeeps, ShutKeeps DEF Loop
    <2>5. CASE UNCHANGED vars
      BY <2>5 DEF vars, connVars, sendVars, readVars, IInv, TypeOK, Balance, Senders, Ends, Losses
    <2> QED BY <2>1, <2>2, <2>3, <2>4, <2>5 DEF Next
  <1> QED BY Initially, <1>1, PTL DEF Spec

\* Amounts stay within the buffers and the connection.
THEOREM TypeCorrect == Spec => []TypeOK
  <1>1. IInv => TypeOK
    BY DEF IInv
  <1> QED BY Invariant, <1>1, PTL

\* When a client ends all has come back, but for what a non-blocking send did
\* not take, and is in the file, but for the last buffer of that client.
THEOREM EchoComplete == Spec => []AllComesBack
  <1>1. IInv => AllComesBack
    <2> SUFFICES ASSUME IInv, pc = "closed" PROVE AllComesBack
      BY DEF AllComesBack
    <2>1. got = Total - lost /\ file = got - fr
      BY Sizes DEF IInv, TypeOK, Balance
    <2>2. lost > 0 => kind = "nonblocking" /\ mark < Message
      BY Sizes DEF IInv, TypeOK, Losses
    <2>3. fr > 0 => kind = "nonblocking"
      BY DEF IInv, Losses
    <2> QED BY <2>1, <2>2, <2>3 DEF AllComesBack
  <1> QED BY Invariant, <1>1, PTL

=============================================================================
