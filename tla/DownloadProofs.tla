--------------------------- MODULE DownloadProofs ---------------------------
(***************************************************************************)
(* The two clients of the striped download, for any number of connections, *)
(* chunks and places in a connection.  Both rest on StripesProofs.         *)
(***************************************************************************)
EXTENDS StripedThreads, StripedSelect, StripesProofs

-----------------------------------------------------------------------------
(***************************************************************************)
(* The threaded client, for any number of threads.  The mutex is held from *)
(* seek to count (Locked), so the file position a thread writes at is that *)
(* of its own chunk; and what it holds has not been written (Holding), so  *)
(* that no chunk is counted twice: recv_data has no more than the piece of *)
(* each chunk that was written (Counted).                                  *)
(***************************************************************************)

\* The thread that has the mutex is the one between lock and unlock.
Locked == \A q \in Conns : tpc[q] \in {"seek", "write", "count"} <=> mtx = q

\* What a thread has received and not written is its own, and the file
\* position is that chunk when it writes.
Holding ==
    \A q \in Conns : tpc[q] \in {"lock", "seek", "write"} =>
        /\ InHand(q, got[q].chunk) /\ Unwritten(got[q].chunk)
        /\ tpc[q] = "write" => fpos = got[q].chunk

\* The chunks of which a piece was written.
Begun == {k \in Chunks : ~Unwritten(k)}

\* recv_data counts at most one piece of each chunk that was begun, and the
\* thread about to count has begun one that is not counted.
Counted ==
    /\ recv_data <= 2 * Cardinality(Begun)
    /\ \A q \in Conns : tpc[q] = "count" => recv_data + 2 <= 2 * Cardinality(Begun)

\* The inductive invariant.
ThreadInv ==
    /\ TypeOK /\ ChanInv /\ Fresh /\ FileInv
    /\ Locked /\ Holding /\ Counted /\ NeverHundred

\* No more chunks are begun than there are.
LEMMA BegunFacts ==
    /\ IsFiniteSet(Begun) /\ Cardinality(Begun) \in 0..NumChunks
<1>1. IsFiniteSet(Chunks) /\ Cardinality(Chunks) = NumChunks
    <2>1. NumChunks - 1 \in Int /\ NumChunks \in Nat \ {0}
        BY StripesAssumption
    <2>2. /\ IsFiniteSet(0..(NumChunks - 1))
          /\ Cardinality(0..(NumChunks - 1)) =
                 IF 0 > NumChunks - 1 THEN 0 ELSE ((NumChunks - 1) - 0) + 1
        BY <2>1, FS_Interval
    <2> QED
        BY <2>1, <2>2 DEF Chunks
<1>2. Begun \subseteq Chunks
    BY DEF Begun
<1>3. IsFiniteSet(Begun) /\ Cardinality(Begun) <= NumChunks
    BY <1>1, <1>2, FS_Subset
<1>4. Cardinality(Begun) \in Nat
    BY <1>3, FS_CardinalityType
<1> QED
    BY <1>3, <1>4, StripesAssumption

-----------------------------------------------------------------------------
\* No chunk is sent and no thread holds one.
LEMMA InitThreads == Init => ThreadInv
<1> SUFFICES ASSUME Init PROVE ThreadInv
    OBVIOUS
<1> USE DEF Init, StripesInit
<1>1. TypeOK
    <2>1. chan \in [Conns -> Seq(Tails)] /\ \A q \in Conns : Len(chan[q]) <= Window
        BY StripesAssumption
    <2>2. download \in [0..NumChunks -> Cells]
        BY DEF Cells
    <2>3. written \in Seq(Chunks) /\ i \in 0..NumChunks /\ 0 \in Chunks
        BY Widths
    <2>4. StripesTypeOK
        BY <2>1, <2>2, <2>3 DEF StripesTypeOK
    <2>5. fpos \in Chunks /\ recv_data \in 0..(2 * NumChunks) /\ perc \in 0..recv_data
        BY <2>3, StripesAssumption
    <2> QED
        BY <2>3, <2>4, <2>5 DEF TypeOK, Nothing
<1>2. ChanInv /\ Fresh
    BY Widths DEF ChanInv, Fresh, Unwritten
<1>3. FileInv
    <2>1. InPlace
        BY DEF InPlace
    <2>2. Once
        BY Widths DEF Once, Unwritten
    <2>3. BoundedOvertaking
        BY DEF BoundedOvertaking, Overtakes
    <2>4. LostIfOvertaken
        BY Widths DEF LostIfOvertaken
    <2>5. FirstBytes
        BY Widths DEF FirstBytes
    <2> QED
        BY <2>1, <2>2, <2>3, <2>4, <2>5 DEF FileInv
<1>4. Locked /\ Holding
    BY Widths DEF Locked, Holding, NoOne
<1>5. NeverHundred
    BY StripesAssumption DEF NeverHundred, data_b
<1>6. Counted
    <2>1. Begun = {}
        BY Widths DEF Begun, Unwritten
    <2>2. Cardinality(Begun) = 0
        BY <2>1, FS_EmptySet
    <2> QED
        BY <2>2 DEF Counted
<1> QED
    BY <1>1, <1>2, <1>3, <1>4, <1>5, <1>6 DEF ThreadInv

-----------------------------------------------------------------------------
\* The server sends a record or closes the connections.
LEMMA ServerThreads ==
    ASSUME ThreadInv, Server, UNCHANGED client
    PROVE  ThreadInv'
<1> USE DEF client
<1>1. StripesTypeOK /\ ChanInv /\ Fresh
    BY DEF ThreadInv, TypeOK
<1>2. UNCHANGED file
    BY DEF Server, ServerSend, ServerExit
<1>3. /\ StripesTypeOK' /\ ChanInv' /\ Fresh'
      /\ \A q \in Conns : \A k : InHand(q, k) => InHand(q, k)'
    <2>1. CASE ServerSend
        BY <1>1, <2>1, SendChan
    <2>2. CASE ServerExit
        <3>1. UNCHANGED <<i, chan, file>> /\ eof' = TRUE
            BY <2>2 DEF ServerExit
        <3>2. StripesTypeOK'
            BY <1>1, <3>1 DEF StripesTypeOK, file
        <3> QED
            BY <1>1, <3>1, <3>2 DEF ChanInv, Fresh, InHand, Unwritten, file
    <2> QED
        BY <2>1, <2>2 DEF Server
<1>4. TypeOK'
    BY <1>3 DEF ThreadInv, TypeOK
<1>5. FileInv'
    BY <1>2 DEF ThreadInv, FileInv, InPlace, Once, Unwritten, BoundedOvertaking,
        LostIfOvertaken, Overtakes, FirstBytes, file
<1>6. Holding'
    <2>1. ASSUME NEW q \in Conns, tpc[q] \in {"lock", "seek", "write"}
          PROVE  \A k : k = got[q].chunk => InHand(q, k)' /\ Unwritten(k)
        BY <1>3, <2>1 DEF ThreadInv, Holding
    <2> QED
        BY <1>2, <2>1 DEF ThreadInv, Holding, InHand, Unwritten, file
<1>7. Locked' /\ Counted' /\ NeverHundred'
    BY <1>2 DEF ThreadInv, Locked, Counted, NeverHundred, Begun, Unwritten, file
<1> QED
    BY <1>1, <1>3, <1>4, <1>5, <1>6, <1>7 DEF ThreadInv

\* A thread that leaves the connections and the file alone.
LEMMA QuietThreads ==
    ASSUME ThreadInv, UNCHANGED <<server, file>>, TypeOK',
           Locked', Holding', Counted', NeverHundred'
    PROVE  ThreadInv'
<1>1. (ChanInv /\ Fresh)'
    BY DEF ThreadInv, ChanInv, Fresh, Unwritten, file, server
<1>2. FileInv'
    BY DEF ThreadInv, FileInv, InPlace, Once, Unwritten, BoundedOvertaking,
        LostIfOvertaken, Overtakes, FirstBytes, file
<1> QED
    BY <1>1, <1>2 DEF ThreadInv

\* Where the threads other than q are.
Elsewhere(q, next) ==
    /\ tpc'[q] = next /\ tpc' \in [Conns -> {"recv", "lock", "seek", "write", "count", "exited"}]
    /\ \A p \in Conns : p # q => tpc'[p] = tpc[p]

\* A thread that moves leaves the others where they are.
LEMMA AtElsewhere ==
    ASSUME TypeOK, NEW q \in Conns, NEW here, NEW next, At(q, here, next),
           next \in {"recv", "lock", "seek", "write", "count", "exited"}
    PROVE  Elsewhere(q, next)
    BY DEF TypeOK, At, Elsewhere

\* recv with an offset: the thread holds a chunk.
LEMMA ReceiveThreads ==
    ASSUME ThreadInv, NEW q \in Conns, Receive(q)
    PROVE  ThreadInv'
<1>1. PICK o \in Outcomes(q) :
         /\ o.read # "short" /\ chan' = o.chan
         /\ got' = [got EXCEPT ![q] = [chunk |-> Head(chan[q]).chunk, read |-> o.read]]
    BY DEF Receive
<1>2. /\ At(q, "recv", "lock") /\ chan[q] # << >> /\ tpc[q] = "recv"
      /\ UNCHANGED <<i, eof, file, mtx, fpos, recv_data, perc, mpc>>
    BY DEF Receive, At
<1>3. TypeOK /\ StripesTypeOK /\ ChanInv /\ Fresh
    BY DEF ThreadInv, TypeOK
<1>4. /\ chan' \in [Conns -> Seq(Tails)]
      /\ \A p \in Conns : Len(chan'[p]) <= Window
      /\ ChanInv'
      /\ \A p \in Conns : \A k : p # q /\ InHand(p, k) => InHand(p, k)'
      /\ \A p \in Conns : \A n \in DOMAIN chan'[p] : chan'[p][n].left = "all" =>
             \E m \in DOMAIN chan[p] : chan[p][m] = chan'[p][n]
      /\ o.read \in {"all", "head"} /\ Head(chan[q]).left = "all"
      /\ Head(chan[q]) = chan[q][1] /\ 1 \in DOMAIN chan[q]
    BY <1>1, <1>2, <1>3, TakeChan
<1>5. PICK k \in Chunks : k = Head(chan[q]).chunk /\ InHand(q, k)'
    BY <1>1, <1>2, <1>3, TakeChan
<1>6. Unwritten(k)
    BY <1>3, <1>4, <1>5 DEF Fresh
<1>7. /\ got'[q] = [chunk |-> k, read |-> o.read]
      /\ got' \in [Conns -> [chunk : Chunks, read : {"all", "head"}]]
      /\ \A p \in Conns : p # q => got'[p] = got[p]
    BY <1>1, <1>3, <1>4, <1>5 DEF TypeOK
<1>8. Elsewhere(q, "lock")
    BY <1>2, <1>3, AtElsewhere
<1>9. Fresh'
    <2>1. ASSUME NEW p \in Conns, NEW n \in DOMAIN chan'[p], chan'[p][n].left = "all"
          PROVE  Unwritten(chan'[p][n].chunk)
        BY <1>3, <1>4, <2>1 DEF Fresh
    <2> QED
        BY <1>2, <1>3, <2>1 DEF Fresh, Unwritten, file
<1>10. TypeOK'
    <2>1. StripesTypeOK'
        BY <1>2, <1>3, <1>4 DEF StripesTypeOK, file
    <2> QED
        BY <1>2, <1>3, <1>7, <1>8, <2>1 DEF TypeOK, Elsewhere
<1>11. FileInv'
    BY <1>2 DEF ThreadInv, FileInv, InPlace, Once, Unwritten, BoundedOvertaking,
        LostIfOvertaken, Overtakes, FirstBytes, file
<1>12. Locked'
    BY <1>2, <1>8 DEF ThreadInv, Locked, Elsewhere
<1>13. Holding'
    <2>1. ASSUME NEW p \in Conns, p # q, tpc[p] \in {"lock", "seek", "write"}
          PROVE  \A c : c = got[p].chunk => /\ InHand(p, c)' /\ Unwritten(c)
                                            /\ tpc[p] = "write" => fpos = c
        BY <1>4, <2>1 DEF ThreadInv, Holding
    <2>2. ASSUME NEW p \in Conns, tpc'[p] \in {"lock", "seek", "write"}
          PROVE  \A c : c = got'[p].chunk => /\ InHand(p, c)' /\ Unwritten(c)
                                             /\ tpc'[p] = "write" => fpos = c
        <3>1. CASE p = q
            BY <1>5, <1>6, <1>7, <1>8, <3>1 DEF Elsewhere
        <3>2. CASE p # q
            BY <1>7, <1>8, <2>1, <2>2, <3>2 DEF Elsewhere
        <3> QED
            BY <3>1, <3>2
    <2> QED
        BY <1>2, <2>2 DEF Holding, InHand, Unwritten, file
<1>14. Counted'
    BY <1>2, <1>7, <1>8 DEF ThreadInv, Counted, Begun, Unwritten, Elsewhere, file
<1>15. NeverHundred'
    BY <1>2 DEF ThreadInv, NeverHundred, file
<1> QED
    BY <1>4, <1>9, <1>10, <1>11, <1>12, <1>13, <1>14, <1>15 DEF ThreadInv

\* recv has no offset, which kills the client.
LEMMA ShortThreads ==
    ASSUME ThreadInv, NEW q \in Conns, ReceiveShort(q)
    PROVE  ThreadInv'
<1>1. PICK o \in Outcomes(q) : chan' = o.chan
    BY DEF ReceiveShort
<1>2. /\ chan[q] # << >> /\ tpc[q] = "recv" /\ mpc' = "killed"
      /\ UNCHANGED <<i, eof, file, tpc, got, mtx, fpos, recv_data, perc>>
    BY DEF ReceiveShort
<1>3. TypeOK /\ StripesTypeOK /\ ChanInv /\ Fresh
    BY DEF ThreadInv, TypeOK
<1>4. /\ chan' \in [Conns -> Seq(Tails)]
      /\ \A p \in Conns : Len(chan'[p]) <= Window
      /\ ChanInv'
      /\ \A p \in Conns : \A k : p # q /\ InHand(p, k) => InHand(p, k)'
      /\ \A p \in Conns : \A n \in DOMAIN chan'[p] : chan'[p][n].left = "all" =>
             \E m \in DOMAIN chan[p] : chan[p][m] = chan'[p][n]
    BY <1>1, <1>2, <1>3, TakeChan
<1>5. Fresh'
    <2>1. ASSUME NEW p \in Conns, NEW n \in DOMAIN chan'[p], chan'[p][n].left = "all"
          PROVE  Unwritten(chan'[p][n].chunk)
        BY <1>3, <1>4, <2>1 DEF Fresh
    <2> QED
        BY <1>2, <1>3, <2>1 DEF Fresh, Unwritten, file
<1>6. TypeOK'
    <2>1. StripesTypeOK'
        BY <1>2, <1>3, <1>4 DEF StripesTypeOK, file
    <2> QED
        BY <1>2, <1>3, <2>1 DEF TypeOK
<1>7. FileInv'
    BY <1>2 DEF ThreadInv, FileInv, InPlace, Once, Unwritten, BoundedOvertaking,
        LostIfOvertaken, Overtakes, FirstBytes, file
<1>8. Holding'
    <2>1. ASSUME NEW p \in Conns, tpc[p] \in {"lock", "seek", "write"}
          PROVE  \A c : c = got[p].chunk => /\ InHand(p, c)' /\ Unwritten(c)
                                            /\ tpc[p] = "write" => fpos = c
        BY <1>2, <1>4, <2>1 DEF ThreadInv, Holding
    <2> QED
        BY <1>2, <2>1 DEF Holding, InHand, Unwritten, file
<1>9. Locked' /\ Counted' /\ NeverHundred'
    BY <1>2 DEF ThreadInv, Locked, Counted, NeverHundred, Begun, Unwritten, file
<1> QED
    BY <1>4, <1>5, <1>6, <1>7, <1>8, <1>9 DEF ThreadInv

\* recv returns 0 and the thread ends.
LEMMA EndThreads ==
    ASSUME ThreadInv, NEW q \in Conns, ReceiveEnd(q)
    PROVE  ThreadInv'
<1>1. At(q, "recv", "exited") /\ tpc[q] = "recv" /\ TypeOK
      /\ UNCHANGED <<server, file, got, mtx, fpos, recv_data, perc, mpc>>
    BY DEF ReceiveEnd, ThreadInv, At
<1>2. Elsewhere(q, "exited")
    BY <1>1, AtElsewhere
<1>3. TypeOK'
    BY <1>1, <1>2 DEF TypeOK, StripesTypeOK, Elsewhere, server, file
<1>4. Locked' /\ Holding' /\ Counted' /\ NeverHundred'
    BY <1>1, <1>2 DEF ThreadInv, Locked, Holding, Counted, NeverHundred,
        InHand, Unwritten, Begun, Elsewhere, server, file
<1> QED
    BY <1>1, <1>3, <1>4, QuietThreads

\* The mutex is taken.
LEMMA LockThreads ==
    ASSUME ThreadInv, NEW q \in Conns, Lock(q)
    PROVE  ThreadInv'
<1>1. At(q, "lock", "seek") /\ tpc[q] = "lock" /\ TypeOK /\ mtx = NoOne /\ mtx' = q
      /\ UNCHANGED <<server, file, got, fpos, recv_data, perc, mpc>>
    BY DEF Lock, ThreadInv, At
<1>2. Elsewhere(q, "seek")
    BY <1>1, AtElsewhere
<1>3. TypeOK'
    BY <1>1, <1>2 DEF TypeOK, StripesTypeOK, Elsewhere, server, file
<1>4. Locked'
    BY <1>1, <1>2, Widths DEF ThreadInv, Locked, Elsewhere, NoOne
<1>5. Holding' /\ Counted' /\ NeverHundred'
    BY <1>1, <1>2 DEF ThreadInv, Holding, Counted, NeverHundred,
        InHand, Unwritten, Begun, Elsewhere, server, file
<1> QED
    BY <1>1, <1>3, <1>4, <1>5, QuietThreads

\* The file position becomes that of the chunk in hand.
LEMMA SeekThreads ==
    ASSUME ThreadInv, NEW q \in Conns, Seek(q)
    PROVE  ThreadInv'
<1>1. At(q, "seek", "write") /\ tpc[q] = "seek" /\ TypeOK /\ fpos' = got[q].chunk
      /\ UNCHANGED <<server, file, got, mtx, recv_data, perc, mpc>>
    BY DEF Seek, ThreadInv, At
<1>2. Elsewhere(q, "write") /\ mtx = q
    BY <1>1, AtElsewhere DEF ThreadInv, Locked
<1>3. got[q].chunk \in 0..NumChunks
    BY <1>1, Widths DEF TypeOK
<1>4. TypeOK'
    BY <1>1, <1>2, <1>3 DEF TypeOK, StripesTypeOK, Elsewhere, server, file
<1>5. Locked'
    BY <1>1, <1>2 DEF ThreadInv, Locked, Elsewhere
<1>6. Holding'
    <2>1. \A p \in Conns : p # q => tpc'[p] # "write"
        BY <1>2 DEF ThreadInv, Locked, Elsewhere
    <2> QED
        BY <1>1, <1>2, <2>1 DEF ThreadInv, Holding, InHand, Unwritten, Elsewhere,
            server, file
<1>7. Counted' /\ NeverHundred'
    BY <1>1, <1>2 DEF ThreadInv, Counted, NeverHundred, Begun, Unwritten,
        Elsewhere, server, file
<1> QED
    BY <1>1, <1>4, <1>5, <1>6, <1>7, QuietThreads

\* The chunk is written, before it is counted.
LEMMA WriteThreads ==
    ASSUME ThreadInv, NEW q \in Conns, Write(q)
    PROVE  ThreadInv'
<1>1. At(q, "write", "count") /\ tpc[q] = "write" /\ TypeOK /\ StripesTypeOK
      /\ WritePiece(fpos, got[q].chunk)
      /\ UNCHANGED <<server, got, mtx, fpos, recv_data, perc, mpc>>
    BY DEF Write, ThreadInv, At, TypeOK
<1>2. Elsewhere(q, "count") /\ mtx = q
    BY <1>1, AtElsewhere DEF ThreadInv, Locked
<1>3. PICK k \in Chunks : k = got[q].chunk
    BY <1>1 DEF TypeOK
<1>4. fpos = k /\ InHand(q, k) /\ Unwritten(k)
    BY <1>1, <1>3 DEF ThreadInv, Holding
<1>5. FWrite(k, k, "head")
    BY <1>1, <1>3, <1>4 DEF FWrite
<1>6. /\ FileInv' /\ ~Unwritten(k)'
      /\ \A j \in Chunks : j # k => (Unwritten(j)' <=> Unwritten(j))
    <2>1. i <= k + (NumConns * (Window + 1))
        BY <1>1, <1>4, HandBound
    <2> QED
        BY <1>1, <1>4, <1>5, <2>1, WriteFile DEF ThreadInv
<1>7. TypeOK'
    <2>1. written' \in Seq(Chunks) /\ download' \in [0..NumChunks -> Cells]
        BY <1>1, <1>5, WriteCells, WriteLog
    <2>2. StripesTypeOK'
        BY <1>1, <2>1 DEF StripesTypeOK, server
    <2> QED
        BY <1>1, <1>2, <2>2 DEF TypeOK, Elsewhere
<1>8. ChanInv'
    BY <1>1 DEF ThreadInv, ChanInv, server
<1>9. Fresh'
    <2>1. InHand(q, k)' /\ i' = i
        BY <1>1, <1>4 DEF InHand, server
    <2>2. \A p \in Conns : \A n \in DOMAIN chan'[p] : chan'[p][n].left = "all" =>
             \E m \in DOMAIN chan[p] : chan[p][m] = chan'[p][n]
        BY <1>1 DEF server
    <2>3. StripesTypeOK'
        BY <1>7 DEF TypeOK
    <2> QED
        BY <1>1, <1>6, <1>8, <2>1, <2>2, <2>3, WriteFresh DEF ThreadInv
<1>10. Locked'
    BY <1>1, <1>2 DEF ThreadInv, Locked, Elsewhere
<1>11. Holding'
    <2>1. ASSUME NEW p \in Conns, tpc'[p] \in {"lock", "seek", "write"},
                 NEW c \in Chunks, c = got[p].chunk
          PROVE  InHand(p, c) /\ Unwritten(c)' /\ tpc'[p] # "write"
        <3>1. p # q /\ tpc'[p] = tpc[p]
            BY <1>2, <2>1 DEF Elsewhere
        <3>2. InHand(p, c) /\ Unwritten(c) /\ tpc[p] # "write"
            BY <1>2, <2>1, <3>1 DEF ThreadInv, Holding, Locked
        <3>3. c # k
            BY <1>4, <3>1, <3>2 DEF InHand
        <3> QED
            BY <1>6, <3>1, <3>2, <3>3
    <2>2. \A p \in Conns : got[p].chunk \in Chunks
        BY <1>1 DEF TypeOK
    <2> QED
        BY <1>1, <2>1, <2>2 DEF Holding, InHand, Unwritten, server
<1>12. Counted'
    <2>1. \A p \in Conns : p # q => tpc[p] # "count" /\ tpc'[p] # "count"
        BY <1>2 DEF ThreadInv, Locked, Elsewhere
    <2>2. Begun' = Begun \cup {k} /\ k \notin Begun
        BY <1>4, <1>6 DEF Begun
    <2>3. IsFiniteSet(Begun) /\ Cardinality(Begun) \in Nat
        BY BegunFacts
    <2>4. Cardinality(Begun \cup {k}) = Cardinality(Begun) + 1
        BY <2>2, <2>3, FS_AddElement
    <2>5. Cardinality(Begun') = Cardinality(Begun) + 1
        BY <2>2, <2>4
    <2>6. recv_data \in Nat /\ recv_data <= 2 * Cardinality(Begun)
        BY <1>1, StripesAssumption DEF ThreadInv, Counted, TypeOK
    <2>7. recv_data' + 2 <= 2 * Cardinality(Begun') /\ recv_data' <= 2 * Cardinality(Begun')
        BY <1>1, <2>3, <2>5, <2>6
    <2> QED
        BY <2>7 DEF Counted
<1>13. NeverHundred'
    BY <1>1 DEF ThreadInv, NeverHundred
<1> QED
    BY <1>6, <1>7, <1>8, <1>9, <1>10, <1>11, <1>12, <1>13 DEF ThreadInv

\* It is counted and the mutex is free.
LEMMA CountThreads ==
    ASSUME ThreadInv, NEW q \in Conns, Count(q)
    PROVE  ThreadInv'
<1>1. At(q, "count", "recv") /\ tpc[q] = "count" /\ TypeOK /\ mtx' = NoOne
      /\ UNCHANGED <<server, file, got, fpos, perc, mpc>>
    BY DEF Count, ThreadInv, At
<1>2. Elsewhere(q, "recv") /\ mtx = q
    BY <1>1, AtElsewhere DEF ThreadInv, Locked
<1>3. PICK n \in {0, 1, 2} : recv_data' = recv_data + n
    BY DEF Count, Weights
<1>4. /\ recv_data \in Nat /\ recv_data + 2 <= 2 * Cardinality(Begun)
      /\ perc \in 0..recv_data
    BY <1>1, StripesAssumption DEF ThreadInv, Counted, TypeOK
<1>5. recv_data' \in Nat /\ recv_data' <= 2 * Cardinality(Begun) /\ perc' \in 0..recv_data'
    BY <1>1, <1>3, <1>4, BegunFacts
<1>6. TypeOK'
    <2>1. recv_data' \in 0..(2 * NumChunks)
        BY <1>5, BegunFacts, StripesAssumption
    <2> QED
        BY <1>1, <1>2, <1>5, <2>1 DEF TypeOK, StripesTypeOK, Elsewhere, server, file
<1>7. \A p \in Conns : tpc'[p] \notin {"seek", "write", "count"}
    BY <1>2 DEF ThreadInv, Locked, Elsewhere
<1>8. Locked'
    BY <1>1, <1>7, Widths DEF Locked, NoOne
<1>9. Holding'
    BY <1>1, <1>2 DEF ThreadInv, Holding, InHand, Unwritten, Elsewhere, server, file
<1>10. Counted'
    <2>1. Begun' = Begun
        BY <1>1 DEF Begun, Unwritten, file
    <2> QED
        BY <1>5, <1>7, <2>1 DEF Counted
<1>11. NeverHundred'
    BY <1>1 DEF ThreadInv, NeverHundred
<1> QED
    BY <1>1, <1>6, <1>8, <1>9, <1>10, <1>11, QuietThreads

\* Main reads the count, which is less than 100 per cent.
LEMMA MainThreads ==
    ASSUME ThreadInv, Progress
    PROVE  ThreadInv'
<1>1. /\ UNCHANGED <<server, file, tpc, got, mtx, fpos, recv_data>> /\ TypeOK
      /\ perc' = recv_data /\ mpc' = IF perc' >= data_b THEN "join" ELSE "progress"
    BY DEF Progress, ThreadInv
<1>2. recv_data \in 0..(2 * NumChunks) /\ NumChunks \in Nat \ {0}
    BY <1>1, StripesAssumption DEF TypeOK
<1>3. perc' < data_b /\ ~(perc' >= data_b) /\ perc' \in 0..recv_data
    BY <1>1, <1>2 DEF data_b
<1>4. NeverHundred'
    BY <1>1, <1>3 DEF NeverHundred
<1>5. TypeOK'
    BY <1>1, <1>3 DEF TypeOK, StripesTypeOK, server, file
<1>6. Locked' /\ Holding' /\ Counted'
    BY <1>1 DEF ThreadInv, Locked, Holding, Counted, InHand, Unwritten, Begun,
        server, file
<1> QED
    BY <1>1, <1>4, <1>5, <1>6, QuietThreads

\* Every step keeps the invariant.
LEMMA StepThreads == ThreadInv /\ [Next]_vars => ThreadInv'
<1> SUFFICES ASSUME ThreadInv, [Next]_vars PROVE ThreadInv'
    OBVIOUS
<1>1. CASE UNCHANGED vars
    <2>1. UNCHANGED <<server, file, client>>
        BY <1>1 DEF vars
    <2>2. TypeOK'
        BY <2>1 DEF ThreadInv, TypeOK, StripesTypeOK, server, file, client
    <2>3. Locked' /\ Holding' /\ Counted' /\ NeverHundred'
        BY <2>1 DEF ThreadInv, Locked, Holding, Counted, NeverHundred, InHand,
            Unwritten, Begun, server, file, client
    <2> QED
        BY <2>1, <2>2, <2>3, QuietThreads
<1> QED
    BY <1>1, ServerThreads, ReceiveThreads, ShortThreads, EndThreads, LockThreads,
       SeekThreads, WriteThreads, CountThreads, MainThreads DEF Next, Thread

\* So it always holds.
LEMMA ThreadsInvariant == Spec => []ThreadInv
    BY InitThreads, StepThreads, PTL DEF Spec

\* Types: with any number of threads and any window, the position, the
\* counter and the records stay in their ranges.
THEOREM TypeCorrect == Spec => []TypeOK
<1>1. ThreadInv => TypeOK
    BY DEF ThreadInv
<1> QED
    BY <1>1, ThreadsInvariant, PTL

\* No thread ever writes its chunk at the place of another, although all of
\* them move the position of the same FILE.
THEOREM InPlaceAlways == Spec => []ChunksInPlace
<1>1. ThreadInv => ChunksInPlace
    BY DEF ThreadInv, FileInv, ChunksInPlace
<1> QED
    BY <1>1, ThreadsInvariant, PTL

\* Main never comes to 100 per cent and never leaves its loop, however the
\* threads interleave: none of them counts a chunk twice, and of each no more
\* than the piece that the copy of multiplethreads.c:56 has left.
THEOREM HundredIsNeverSeen == Spec => []NeverHundred
<1>1. ThreadInv => NeverHundred
    BY DEF ThreadInv
<1> QED
    BY <1>1, ThreadsInvariant, PTL

\* Threads write chunks out of order, but by less than what the connections
\* hold together.
THEOREM OvertakingIsBounded == Spec => []BoundedOvertaking
<1>1. ThreadInv => BoundedOvertaking
    BY DEF ThreadInv, FileInv
<1> QED
    BY <1>1, ThreadsInvariant, PTL

-----------------------------------------------------------------------------
(***************************************************************************)
(* The client with a select loop, for any number of connections.  What was *)
(* sent is in the file whole or on a connection (Kept), a connection that  *)
(* select reported has a record or is at its end (Ready), and the server   *)
(* has sent everything before a connection is at its end (Ended): so the   *)
(* first end that the client comes to finds nothing else missing.          *)
(***************************************************************************)

\* A chunk that was sent is in the file or on a connection.
Kept ==
    pc # "killed" => \A k \in Chunks : k < i => download[k].rest = k \/ Unread(k)

\* What the pass has yet to look at is readable.
Ready == pc = "pass" => \A q \in rset : chan[q] # << >> \/ eof

\* The server closes behind the last chunk, and the client ends behind that.
Ended == (eof => i = NumChunks) /\ (pc = "closed" => eof)

\* The inductive invariant.
SelectInv ==
    /\ SelectTypeOK /\ ChanInv /\ Fresh /\ FileInv
    /\ CountIsWritten /\ Kept /\ Ready /\ Ended

\* Nothing is sent.
LEMMA InitSelect == SelectInit => SelectInv
<1> SUFFICES ASSUME SelectInit PROVE SelectInv
    OBVIOUS
<1> USE DEF SelectInit, StripesInit
<1>1. SelectTypeOK
    <2>1. chan \in [Conns -> Seq(Tails)] /\ \A q \in Conns : Len(chan[q]) <= Window
        BY StripesAssumption
    <2>2. download \in [0..NumChunks -> Cells]
        BY DEF Cells
    <2>3. written \in Seq(Chunks) /\ i \in 0..NumChunks
        BY Widths
    <2>4. StripesTypeOK
        BY <2>1, <2>2, <2>3 DEF StripesTypeOK
    <2>5. recv_data \in 0..(2 * NumChunks)
        BY StripesAssumption
    <2> QED
        BY <2>4, <2>5 DEF SelectTypeOK
<1>2. ChanInv /\ Fresh
    BY Widths DEF ChanInv, Fresh, Unwritten
<1>3. FileInv
    <2>1. InPlace
        BY DEF InPlace
    <2>2. Once
        BY Widths DEF Once, Unwritten
    <2>3. BoundedOvertaking
        BY DEF BoundedOvertaking, Overtakes
    <2>4. LostIfOvertaken
        BY Widths DEF LostIfOvertaken
    <2>5. FirstBytes
        BY Widths DEF FirstBytes
    <2> QED
        BY <2>1, <2>2, <2>3, <2>4, <2>5 DEF FileInv
<1>4. InFile = {}
    BY Widths DEF InFile, Halves
<1>5. CountIsWritten
    BY <1>4, FS_EmptySet DEF CountIsWritten
<1>6. Kept /\ Ready /\ Ended
    BY Widths DEF Kept, Ready, Ended
<1> QED
    BY <1>1, <1>2, <1>3, <1>5, <1>6 DEF SelectInv

\* The server sends a record or closes the connections.
LEMMA ServerSelect ==
    ASSUME SelectInv, Server, UNCHANGED selectClient
    PROVE  SelectInv'
<1> USE DEF selectClient
<1>1. SelectTypeOK /\ StripesTypeOK /\ ChanInv /\ Fresh /\ UNCHANGED file
    BY DEF SelectInv, SelectTypeOK, Server, ServerSend, ServerExit
<1>2. /\ StripesTypeOK' /\ ChanInv' /\ Fresh' /\ Kept' /\ Ready' /\ Ended'
    <2>1. CASE ServerSend
        <3>1. StripesTypeOK' /\ ChanInv' /\ Fresh'
            BY <1>1, <2>1, SendChan
        <3>2. PICK c \in Conns : c = i % NumConns
            BY <1>1, Widths, ChanTypes
        <3>3. PICK r \in Tails : r = Record(i) /\ r.chunk = i
            BY <2>1 DEF ServerSend, Record, Tails
        <3>4. /\ i \in Chunks /\ i' = i + 1 /\ eof' = eof
              /\ chan' = [chan EXCEPT ![c] = Append(@, r)]
            BY <2>1, <3>2, <3>3 DEF ServerSend
        <3>5. \A q \in Conns : \A n \in DOMAIN chan[q] :
                 n \in DOMAIN chan'[q] /\ chan'[q][n] = chan[q][n]
            BY <1>1, <3>4, ChanTypes DEF StripesTypeOK
        <3>6. \E n \in DOMAIN chan'[c] : chan'[c][n].chunk = i
            <4>1. chan'[c] = Append(chan[c], r) /\ chan[c] \in Seq(Tails)
                BY <1>1, <3>4, ChanTypes DEF StripesTypeOK
            <4>2. \E n \in DOMAIN Append(chan[c], r) : Append(chan[c], r)[n] = r
                <5>1. Len(chan[c]) + 1 \in DOMAIN Append(chan[c], r)
                    BY <4>1
                <5>2. Append(chan[c], r)[Len(chan[c]) + 1] = r
                    BY <4>1
                <5> QED
                    BY <5>1, <5>2
            <4> QED
                BY <3>3, <4>1, <4>2
        <3>7. ASSUME NEW k, Unread(k) \/ k = i
              PROVE  Unread(k)'
            BY <3>5, <3>6, <3>7 DEF Unread
        <3>8. Kept'
            BY <1>1, <3>4, <3>7, Widths DEF SelectInv, Kept, file
        <3>9. Ready'
            <4>1. \A q \in Conns : chan[q] # << >> => chan'[q] # << >>
                <5>1. \A q \in Conns : chan[q] \in Seq(Tails)
                    BY <1>1, ChanTypes
                <5>2. \A q \in Conns : chan'[q] = chan[q] \/ chan'[q] = Append(chan[q], r)
                    BY <1>1, <3>4 DEF StripesTypeOK
                <5>3. ASSUME NEW q \in Conns PROVE Append(chan[q], r) # << >>
                    BY <5>1
                <5> QED
                    BY <5>2, <5>3
            <4> QED
                BY <1>1, <3>4, <4>1 DEF SelectInv, Ready, SelectTypeOK
        <3>10. Ended'
            BY <3>4, Widths DEF SelectInv, Ended
        <3> QED
            BY <3>1, <3>8, <3>9, <3>10
    <2>2. CASE ServerExit
        <3>1. UNCHANGED <<i, chan, file>> /\ eof' = TRUE /\ i = NumChunks
            BY <2>2 DEF ServerExit
        <3>2. StripesTypeOK'
            BY <1>1, <3>1 DEF StripesTypeOK, file
        <3>3. ChanInv' /\ Fresh'
            BY <1>1, <3>1 DEF ChanInv, Fresh, Unwritten, file
        <3>4. Kept' /\ Ready' /\ Ended'
            BY <3>1 DEF SelectInv, Kept, Unread, Ready, Ended, file
        <3> QED
            BY <3>2, <3>3, <3>4
    <2> QED
        BY <1>1, <2>1, <2>2 DEF Server
<1>3. SelectTypeOK'
    BY <1>1, <1>2 DEF SelectTypeOK
<1>4. FileInv'
    BY <1>1 DEF SelectInv, FileInv, InPlace, Once, Unwritten, BoundedOvertaking,
        LostIfOvertaken, Overtakes, FirstBytes, file
<1>5. CountIsWritten'
    BY <1>1 DEF SelectInv, CountIsWritten, InFile, file
<1> QED
    BY <1>2, <1>3, <1>4, <1>5 DEF SelectInv

\* The client leaves the connections and the file alone.
LEMMA QuietSelect ==
    ASSUME SelectInv, UNCHANGED <<server, file, recv_data>>, SelectTypeOK', Ready', Ended',
           pc' # "killed" => pc # "killed"
    PROVE  SelectInv'
<1>1. (ChanInv /\ Fresh)'
    BY DEF SelectInv, ChanInv, Fresh, Unwritten, file, server
<1>2. FileInv'
    BY DEF SelectInv, FileInv, InPlace, Once, Unwritten, BoundedOvertaking,
        LostIfOvertaken, Overtakes, FirstBytes, file
<1>3. CountIsWritten' /\ Kept'
    BY DEF SelectInv, CountIsWritten, InFile, Kept, Unread, file, server
<1> QED
    BY <1>1, <1>2, <1>3 DEF SelectInv

\* A pass over the connections that can be read begins.
LEMMA SelectSelect ==
    ASSUME SelectInv, Select
    PROVE  SelectInv'
<1>1. /\ pc = "select" /\ pc' = "pass" /\ rset' = Readable /\ Readable \subseteq Conns
      /\ UNCHANGED <<server, file, recv_data>>
    BY DEF Select, Readable
<1>2. SelectTypeOK'
    BY <1>1 DEF SelectInv, SelectTypeOK, StripesTypeOK, server, file
<1>3. Ready' /\ Ended'
    BY <1>1 DEF SelectInv, Ready, Ended, Readable, server
<1> QED
    BY <1>1, <1>2, <1>3, QuietSelect

\* A connection at its end ends the program.
LEMMA EndSelect ==
    ASSUME SelectInv, NEW q \in Conns, SelectEnd(q)
    PROVE  SelectInv'
<1>1. /\ pc = "pass" /\ q \in rset /\ chan[q] = << >> /\ pc' = "closed" /\ rset' = rset \ {q}
      /\ UNCHANGED <<server, file, recv_data>>
    BY DEF SelectEnd, Visit
<1>2. eof
    BY <1>1 DEF SelectInv, Ready
<1>3. SelectTypeOK'
    BY <1>1 DEF SelectInv, SelectTypeOK, StripesTypeOK, server, file
<1>4. Ready' /\ Ended'
    BY <1>1, <1>2 DEF SelectInv, Ready, Ended, server
<1> QED
    BY <1>1, <1>3, <1>4, QuietSelect

\* recv without an offset kills the client.
LEMMA ShortSelect ==
    ASSUME SelectInv, NEW q \in Conns, SelectShort(q)
    PROVE  SelectInv'
<1>1. PICK o \in Outcomes(q) : chan' = o.chan
    BY DEF SelectShort
<1>2. /\ chan[q] # << >> /\ pc = "pass" /\ pc' = "killed" /\ rset' = rset \ {q}
      /\ UNCHANGED <<i, eof, file, recv_data>>
    BY DEF SelectShort, Visit
<1>3. SelectTypeOK /\ StripesTypeOK /\ ChanInv /\ Fresh
    BY DEF SelectInv, SelectTypeOK
<1>4. /\ chan' \in [Conns -> Seq(Tails)]
      /\ \A p \in Conns : Len(chan'[p]) <= Window
      /\ ChanInv'
      /\ \A p \in Conns : \A n \in DOMAIN chan'[p] : chan'[p][n].left = "all" =>
             \E m \in DOMAIN chan[p] : chan[p][m] = chan'[p][n]
    BY <1>1, <1>2, <1>3, TakeChan
<1>5. Fresh'
    <2>1. ASSUME NEW p \in Conns, NEW n \in DOMAIN chan'[p], chan'[p][n].left = "all"
          PROVE  Unwritten(chan'[p][n].chunk)
        BY <1>3, <1>4, <2>1 DEF Fresh
    <2> QED
        BY <1>2, <1>3, <2>1 DEF Fresh, Unwritten, file
<1>6. SelectTypeOK'
    <2>1. StripesTypeOK'
        BY <1>2, <1>3, <1>4 DEF StripesTypeOK, file
    <2> QED
        BY <1>2, <1>3, <2>1 DEF SelectTypeOK
<1>7. FileInv'
    BY <1>2 DEF SelectInv, FileInv, InPlace, Once, Unwritten, BoundedOvertaking,
        LostIfOvertaken, Overtakes, FirstBytes, file
<1>8. CountIsWritten' /\ Kept' /\ Ready' /\ Ended'
    BY <1>2 DEF SelectInv, CountIsWritten, InFile, Kept, Ready, Ended, file
<1> QED
    BY <1>4, <1>5, <1>6, <1>7, <1>8 DEF SelectInv

\* Behind recv every other record is where it was, and the one that was read is
\* still there unless all of it was read.
LEMMA StillUnread ==
    ASSUME StripesTypeOK, NEW q \in Conns, chan[q] # << >>, NEW o \in Outcomes(q),
           o.read # "short", chan' = o.chan, NEW j, Unread(j)
    PROVE  \/ Unread(j)'
           \/ j = Head(chan[q]).chunk /\ o.read = "all"
<1>1. PICK p \in Conns : \E n \in DOMAIN chan[p] : chan[p][n].chunk = j
    BY DEF Unread
<1>2. PICK n \in DOMAIN chan[p] : chan[p][n].chunk = j
    BY <1>1
<1>3. PICK r \in Tails : r = Head(chan[q]) /\ r = chan[q][1]
    BY ChanTypes
<1>4. PICK t \in Tails : t = [r EXCEPT !.left = "tail"]
    BY DEF Tails
<1>5. t.chunk = r.chunk
    BY <1>4 DEF Tails
<1>6. o.read \in {"all", "head", "short"}
    BY OutcomeFacts
<1>7. /\ \/ chan' = [chan EXCEPT ![q] = Tail(@)]
         \/ chan' = [chan EXCEPT ![q] = <<t>> \o Tail(@)]
      /\ \/ o.read = "all"
         \/ chan' = [chan EXCEPT ![q] = <<t>> \o Tail(@)]
    <2>1. \/ chan' = [chan EXCEPT ![q] = Tail(@)]
          \/ chan' = [chan EXCEPT ![q] = <<t>> \o Tail(@)]
        <3>1. \/ o.chan = [chan EXCEPT ![q] = Tail(@)]
              \/ o.chan = [chan EXCEPT ![q] = <<[Head(chan[q]) EXCEPT !.left = "tail"]>> \o Tail(@)]
            BY OutcomeFacts
        <3>2. [Head(chan[q]) EXCEPT !.left = "tail"] = t
            BY <1>3, <1>4
        <3> QED
            BY <3>1, <3>2
    <2>2. ASSUME o.read = "head"
          PROVE  chan' = [chan EXCEPT ![q] = <<t>> \o Tail(@)]
        <3>1. o.read # "short" /\ o.read # "all"
            BY <2>2
        <3>2. o.chan = [chan EXCEPT ![q] = <<[Head(chan[q]) EXCEPT !.left = "tail"]>> \o Tail(@)]
            BY <3>1, OutcomeFacts
        <3> QED
            BY <1>3, <1>4, <3>2
    <2> QED
        BY <1>6, <2>1, <2>2
<1>8. /\ chan[q] \in Seq(Tails) /\ DOMAIN chan[q] = 1..Len(chan[q]) /\ Len(chan[q]) \in Nat
      /\ chan \in [Conns -> Seq(Tails)]
    BY ChanTypes DEF StripesTypeOK
<1>9. CASE p # q
    BY <1>2, <1>7, <1>8, <1>9 DEF Unread
<1>10. CASE p = q /\ n # 1
    <2>1. n \in Nat /\ n >= 2 /\ n <= Len(chan[q])
        BY <1>2, <1>8, <1>10
    <2>2. /\ Tail(chan[q]) \in Seq(Tails) /\ Len(Tail(chan[q])) = Len(chan[q]) - 1
          /\ n - 1 \in DOMAIN Tail(chan[q]) /\ Tail(chan[q])[n - 1] = chan[q][n]
        BY <1>8, <2>1
    <2> DEFINE u == <<t>> \o Tail(chan[q])
    <2>3. n \in DOMAIN u /\ u[n] = chan[q][n]
        BY <1>4, <1>8, <2>1, <2>2
    <2> HIDE DEF u
    <2>4. CASE chan' = [chan EXCEPT ![q] = Tail(@)]
        <3>1. chan'[q] = Tail(chan[q])
            BY <1>8, <2>4
        <3> QED
            BY <1>2, <1>10, <2>2, <3>1 DEF Unread
    <2>5. CASE chan' = [chan EXCEPT ![q] = <<t>> \o Tail(@)]
        <3>1. chan'[q] = u
            BY <1>8, <2>5 DEF u
        <3> QED
            BY <1>2, <1>10, <2>3, <3>1 DEF Unread
    <2> QED
        BY <1>7, <2>4, <2>5
<1>11. CASE p = q /\ n = 1
    <2>1. j = r.chunk /\ j = t.chunk
        BY <1>2, <1>3, <1>11, <1>5
    <2>2. CASE o.read # "all"
        <3> DEFINE u == <<t>> \o Tail(chan[q])
        <3>1. 1 \in DOMAIN u /\ u[1] = t
            BY <1>4, <1>8
        <3> HIDE DEF u
        <3>2. chan'[q] = u
            BY <1>7, <1>8, <2>2 DEF u
        <3> QED
            BY <2>1, <3>1, <3>2 DEF Unread
    <2> QED
        BY <1>3, <2>1, <2>2
<1> QED
    BY <1>9, <1>10, <1>11

\* A record, or the head of one, is written and counted.
LEMMA ReceiveSelect ==
    ASSUME SelectInv, NEW q \in Conns, SelectReceive(q)
    PROVE  SelectInv'
<1>1. PICK o \in Outcomes(q) :
         /\ o.read # "short" /\ chan' = o.chan
         /\ FWrite(Head(chan[q]).chunk, Head(chan[q]).chunk, o.read)
         /\ recv_data' = recv_data + IF o.read = "all" THEN 2 ELSE 1
    BY DEF SelectReceive
<1>2. /\ chan[q] # << >> /\ pc = "pass" /\ rset' = rset \ {q}
      /\ pc' = IF rset = {q} THEN "select" ELSE "pass"
      /\ UNCHANGED <<i, eof>>
    BY DEF SelectReceive, Visit
<1>3. SelectTypeOK /\ StripesTypeOK /\ ChanInv /\ Fresh /\ FileInv
    BY DEF SelectInv, SelectTypeOK
<1>4. /\ chan' \in [Conns -> Seq(Tails)]
      /\ \A p \in Conns : Len(chan'[p]) <= Window
      /\ ChanInv'
      /\ \A p \in Conns : \A n \in DOMAIN chan'[p] : chan'[p][n].left = "all" =>
             \E m \in DOMAIN chan[p] : chan[p][m] = chan'[p][n]
      /\ o.read \in {"all", "head"} /\ Head(chan[q]).left = "all"
      /\ Head(chan[q]) = chan[q][1] /\ 1 \in DOMAIN chan[q]
    BY <1>1, <1>2, <1>3, TakeChan
<1>5. PICK k \in Chunks : /\ k = Head(chan[q]).chunk /\ InHand(q, k)'
                          /\ i <= k + (NumConns * (Window + 1))
    BY <1>1, <1>2, <1>3, TakeChan
<1>6. PICK read \in {"all", "head"} : read = o.read
    BY <1>4
<1>7. FWrite(k, k, read)
    BY <1>1, <1>5, <1>6
<1>8. Unwritten(k)
    BY <1>3, <1>4, <1>5 DEF Fresh
<1>9. /\ FileInv' /\ ~Unwritten(k)'
      /\ \A j \in Chunks : j # k => (Unwritten(j)' <=> Unwritten(j))
    BY <1>3, <1>5, <1>7, <1>8, WriteFile
<1>10. StripesTypeOK'
    <2>1. written' \in Seq(Chunks) /\ download' \in [0..NumChunks -> Cells]
        BY <1>3, <1>7, WriteCells, WriteLog
    <2> QED
        BY <1>2, <1>3, <1>4, <2>1 DEF StripesTypeOK
<1>11. Fresh'
    BY <1>2, <1>3, <1>4, <1>5, <1>9, <1>10, WriteFresh
<1>12. CountIsWritten'
    <2>1. Cardinality(InFile') = Cardinality(InFile) + IF read = "all" THEN 2 ELSE 1
        BY <1>3, <1>7, <1>8, WriteHalves
    <2> QED
        BY <1>1, <1>6, <2>1 DEF SelectInv, CountIsWritten
<1>13. SelectTypeOK'
    <2>1. (Cardinality(InFile) \in 0..(2 * NumChunks))'
        BY HalfFacts, PTL
    <2>2. recv_data' \in 0..(2 * NumChunks)
        BY <1>12, <2>1 DEF CountIsWritten
    <2> QED
        BY <1>2, <1>3, <1>10, <2>2 DEF SelectTypeOK
<1>14. Kept'
    <2>1. \A j \in 0..NumChunks :
             download'[j].rest = IF j = k THEN IF read = "all" THEN k ELSE Part
                                          ELSE download[j].rest
        BY <1>3, <1>7, WriteCells
    <2>2. ASSUME NEW j \in Chunks, j < i
          PROVE  download'[j].rest = j \/ Unread(j)'
        <3>1. j \in 0..NumChunks /\ (download[j].rest = j \/ Unread(j))
            BY <1>2, <2>2, Widths DEF SelectInv, Kept
        <3>2. CASE j # k
            BY <1>1, <1>2, <1>3, <1>5, <2>1, <3>1, <3>2, StillUnread
        <3>3. CASE j = k
            <4>1. Unread(j)
                BY <1>4, <1>5, <3>3 DEF Unread
            <4>2. CASE read = "all"
                BY <2>1, <3>1, <3>3, <4>2
            <4>3. CASE read # "all"
                BY <1>1, <1>2, <1>3, <1>6, <4>1, <4>3, StillUnread
            <4> QED
                BY <4>2, <4>3
        <3> QED
            BY <3>2, <3>3
    <2> QED
        BY <1>2, <2>2 DEF Kept
<1>15. Ready'
    <2>1. ASSUME NEW p \in rset, p # q
          PROVE  chan'[p] # << >> \/ eof
        <3>1. p \in Conns /\ chan \in [Conns -> Seq(Tails)]
            BY <1>3, <2>1 DEF SelectTypeOK, StripesTypeOK
        <3>2. chan'[p] = chan[p]
            <4>1. \E s : chan' = [chan EXCEPT ![q] = s]
                <5> DEFINE s1 == Tail(chan[q])
                           s2 == <<[Head(chan[q]) EXCEPT !.left = "tail"]>> \o Tail(chan[q])
                <5>1. \/ o.chan = [chan EXCEPT ![q] = s1]
                      \/ o.chan = [chan EXCEPT ![q] = s2]
                    BY <1>2, <1>3, OutcomeFacts
                <5> HIDE DEF s1, s2
                <5> QED
                    BY <1>1, <5>1
            <4> QED
                BY <2>1, <3>1, <4>1
        <3> QED
            BY <1>2, <2>1, <3>2 DEF SelectInv, Ready
    <2> QED
        BY <1>2, <2>1 DEF Ready
<1>16. Ended'
    BY <1>2 DEF SelectInv, Ended
<1> QED
    BY <1>4, <1>9, <1>11, <1>12, <1>13, <1>14, <1>15, <1>16 DEF SelectInv

\* Every step keeps the invariant.
LEMMA StepSelect == SelectInv /\ [SelectNext]_selectVars => SelectInv'
<1> SUFFICES ASSUME SelectInv, [SelectNext]_selectVars PROVE SelectInv'
    OBVIOUS
<1>1. CASE UNCHANGED selectVars
    <2>1. UNCHANGED <<server, file, selectClient>>
        BY <1>1 DEF selectVars
    <2>2. SelectTypeOK' /\ Ready' /\ Ended'
        BY <2>1 DEF SelectInv, SelectTypeOK, StripesTypeOK, Ready, Ended, server, file, selectClient
    <2> QED
        BY <2>1, <2>2, QuietSelect DEF selectClient
<1> QED
    BY <1>1, ServerSelect, SelectSelect, ReceiveSelect, ShortSelect, EndSelect
       DEF SelectNext, Client

\* So it always holds.
LEMMA SelectInvariant == SelectSpec => []SelectInv
    BY InitSelect, StepSelect, PTL DEF SelectSpec

\* Types: with any number of connections and any window the records and the
\* count stay in their ranges.
THEOREM SelectTypeCorrect == SelectSpec => []SelectTypeOK
<1>1. SelectInv => SelectTypeOK
    BY DEF SelectInv
<1> QED
    BY <1>1, SelectInvariant, PTL

\* When the client stops at the first connection that ends, a chunk waits on a
\* connection that it had not come to or is in the file; and a first byte that
\* is missing there was overwritten with the zero of the chunk before it.
THEOREM OnlyUnreadIsMissing == SelectSpec => []MissingIsUnread
<1>1. SelectInv => MissingIsUnread
    <2> SUFFICES ASSUME SelectInv, pc = "closed", NEW k \in Chunks, ~Unread(k)
                 PROVE  \/ download[k] = [first |-> k, rest |-> k]
                        \/ /\ download[k] = [first |-> Nul, rest |-> k]
                           /\ Overtakes(k, k - 1)
        BY DEF MissingIsUnread
    <2>1. i = NumChunks
        BY DEF SelectInv, Ended
    <2>2. download[k].rest = k
        BY <2>1, Widths DEF SelectInv, Kept
    <2>3. k \in 0..NumChunks /\ k \in Nat
        BY Widths
    <2>4. download[k] = [first |-> download[k].first, rest |-> download[k].rest]
        BY <2>3 DEF SelectInv, SelectTypeOK, StripesTypeOK, Cells
    <2>5. download[k].first \in {k, Nul}
        BY <2>2, <2>3 DEF SelectInv, FileInv, InPlace, FirstBytes
    <2>6. ASSUME download[k].first = Nul
          PROVE  Overtakes(k, k - 1)
        <3>1. k > 0 /\ download[k - 1].rest = k - 1
            BY <2>6 DEF SelectInv, FileInv, FirstBytes
        <3>2. k - 1 \in Chunks /\ k = (k - 1) + 1
            BY <2>3, <3>1, Widths
        <3> QED
            BY <2>2, <2>6, <3>1, <3>2 DEF SelectInv, FileInv, LostIfOvertaken
    <2> QED
        BY <2>2, <2>4, <2>5, <2>6
<1> QED
    BY <1>1, SelectInvariant, PTL

\* The first byte of a chunk is lost exactly if the chunk before it was
\* written after it: the zero behind the string overwrites it.
THEOREM OvertakenLoses == SelectSpec => []LostIfOvertaken
<1>1. SelectInv => LostIfOvertaken
    BY DEF SelectInv, FileInv
<1> QED
    BY <1>1, SelectInvariant, PTL

\* The count that drives the progress display is what was written.
THEOREM CountIsExact == SelectSpec => []CountIsWritten
<1>1. SelectInv => CountIsWritten
    BY DEF SelectInv
<1> QED
    BY <1>1, SelectInvariant, PTL
=============================================================================
