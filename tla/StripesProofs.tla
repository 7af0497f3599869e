---------------------------- MODULE StripesProofs ----------------------------
(***************************************************************************)
(* What the server of the striped download and its connections promise any *)
(* client, for every number of chunks, connections and places in between.  *)
(* The server takes turns, so the records on a connection are the chunks   *)
(* of one remainder in increasing order (ChanInv), and a chunk that was    *)
(* taken from a connection is at most a window's turns behind the next one *)
(* to be sent.  The lemmas about division come first: the step from one    *)
(* record of a connection to the next is a whole turn.                     *)
(***************************************************************************)
EXTENDS Stripes, FiniteSetTheorems, TLAPS

\* What l turns of the server over its connections send.
Turns(l) == NumConns * l

\* A greater factor makes the product greater by n at least.
LEMMA Product ==
    ASSUME NEW n \in Nat \ {0}, NEW d \in Int, NEW e \in Int, d < e
    PROVE  (n * d) + n <= n * e
<1>1. PICK c \in Nat : e = (d + 1) + c
    <2>1. (e - d) - 1 \in Nat /\ e = (d + 1) + ((e - d) - 1)
        OBVIOUS
    <2> QED
        BY <2>1
<1>2. n * e = ((n * d) + n) + (n * c) /\ n * c >= 0
    BY <1>1
<1> QED
    BY <1>2

\* Quotient and remainder.
LEMMA Division ==
    ASSUME NEW n \in Nat \ {0}, NEW a \in Nat
    PROVE  /\ a \div n \in Int /\ a % n \in 0..(n - 1)
           /\ a = (n * (a \div n)) + (a % n)
    BY SMTT(30)

\* They are unique.
LEMMA Remainder ==
    ASSUME NEW n \in Nat \ {0}, NEW d \in Int, NEW e \in Int,
           NEW r \in 0..(n - 1), NEW s \in 0..(n - 1),
           (n * d) + r = (n * e) + s
    PROVE  d = e /\ r = s
<1> DEFINE x == n * d
           y == n * e
<1>1. x \in Int /\ y \in Int
    OBVIOUS
<1>2. (d < e => x + n <= y) /\ (e < d => y + n <= x)
    BY Product
<1>3. x + r = y + s
    OBVIOUS
<1>4. d = e => x = y
    OBVIOUS
<1> HIDE DEF x, y
<1>5. ~(d < e) /\ ~(e < d)
    BY <1>1, <1>2, <1>3
<1> QED
    BY <1>1, <1>3, <1>4, <1>5

\* A turn more is NumConns chunks more, and the window bounds them.
LEMMA TurnFacts ==
    /\ NumConns \in Nat \ {0}
    /\ \A l \in Nat : Turns(l) \in Nat /\ Turns(l + 1) = Turns(l) + NumConns
    /\ \A l \in Nat : l <= Window => Turns(l + 1) <= NumConns * (Window + 1)
    /\ Turns(0) = 0
<1>1. NumConns \in Nat \ {0} /\ Window \in Nat \ {0}
    BY StripesAssumption
<1>2. ASSUME NEW l \in Nat
      PROVE  Turns(l) \in Nat /\ Turns(l + 1) = Turns(l) + NumConns
    BY <1>1 DEF Turns
<1>3. ASSUME NEW l \in Nat, l <= Window
      PROVE  Turns(l + 1) <= NumConns * (Window + 1)
    <2>1. CASE l = Window
        BY <1>1, <2>1 DEF Turns
    <2>2. CASE l # Window
        <3>1. (NumConns * (l + 1)) + NumConns <= NumConns * (Window + 1)
            BY <1>1, <1>3, <2>2, Product
        <3> QED
            BY <1>1, <3>1 DEF Turns
    <2> QED
        BY <2>1, <2>2
<1>4. Turns(0) = 0
    BY <1>1 DEF Turns
<1> QED
    BY <1>1, <1>2, <1>3, <1>4

\* Two chunks of one connection are a turn apart.
LEMMA SameTurn ==
    ASSUME NEW a \in Nat, NEW b \in Nat, a % NumConns = b % NumConns, a < b
    PROVE  a + NumConns <= b
<1> DEFINE n == NumConns
           d == a \div n
           e == b \div n
           r == a % n
           x == n * d
           y == n * e
<1>1. /\ n \in Nat \ {0} /\ d \in Int /\ e \in Int /\ r \in 0..(n - 1)
      /\ a = x + r /\ b = y + r
    BY TurnFacts, Division
<1>2. x \in Int /\ y \in Int
    BY <1>1
<1>3. (d < e => x + n <= y) /\ (e < d => y + n <= x) /\ (d = e => x = y)
    BY <1>1, Product
<1> HIDE DEF n, d, e, r, x, y
<1>4. a + n <= b
    BY <1>1, <1>2, <1>3
<1> QED
    BY <1>4 DEF n

\* Whole turns lead back to the same connection.
LEMMA LaterTurn ==
    ASSUME NEW a \in Nat, NEW l \in Nat
    PROVE  (a + Turns(l)) % NumConns = a % NumConns
<1> DEFINE n == NumConns
           b == a + Turns(l)
<1>1. n \in Nat \ {0} /\ b \in Nat
    BY TurnFacts
<1>2. /\ a \div n \in Int /\ a % n \in 0..(n - 1) /\ a = (n * (a \div n)) + (a % n)
      /\ b \div n \in Int /\ b % n \in 0..(n - 1) /\ b = (n * (b \div n)) + (b % n)
    BY <1>1, Division
<1>3. b = (n * ((a \div n) + l)) + (a % n)
    <2> DEFINE d == a \div n
               r == a % n
    <2>1. d \in Int /\ r \in Int /\ a = (n * d) + r /\ b = a + (n * l) /\ n \in Nat
        BY <1>1, <1>2 DEF Turns
    <2> HIDE DEF d, r, n, b
    <2>2. b = (n * (d + l)) + r
        BY <2>1
    <2> QED
        BY <2>2 DEF d, r
<1>4. (a \div n) + l \in Int
    BY <1>2
<1>5. b % n = a % n
    <2> DEFINE d == b \div n
               e == (a \div n) + l
               r == b % n
               s == a % n
    <2>1. /\ d \in Int /\ e \in Int /\ r \in 0..(n - 1) /\ s \in 0..(n - 1)
          /\ (n * d) + r = (n * e) + s
        BY <1>2, <1>3, <1>4
    <2> HIDE DEF d, e, r, s, n
    <2>2. r = s
        BY <1>1, <2>1, Remainder
    <2> QED
        BY <2>2 DEF r, s
<1> QED
    BY <1>5

-----------------------------------------------------------------------------
\* Records wait on the connection whose turn it was, in the order in which they
\* were sent, and no more of them than the turns since the first.
ChanInv ==
    /\ \A q \in Conns : \A n \in DOMAIN chan[q] :
         /\ chan[q][n].chunk % NumConns = q
         /\ chan[q][n].chunk < i
         /\ chan[q][n].left = "tail" => n = 1
    /\ \A q \in Conns : \A m, n \in DOMAIN chan[q] :
         m < n => chan[q][m].chunk < chan[q][n].chunk
    /\ \A q \in Conns : chan[q] # << >> =>
         i <= chan[q][1].chunk + Turns(Len(chan[q]))

\* Chunk k was taken from connection q, and nothing behind it.
InHand(q, k) ==
    /\ k \in Chunks /\ k < i /\ k % NumConns = q
    /\ \A n \in DOMAIN chan[q] : chan[q][n].left = "all" => k < chan[q][n].chunk
    /\ i <= k + Turns(Len(chan[q]) + 1)

\* No byte of chunk k behind its first is in the file.
Unwritten(k) == download[k].rest = Hole

\* What has not been sent, or waits whole, has not been written.
Fresh ==
    /\ \A k \in Chunks : k >= i => Unwritten(k)
    /\ \A q \in Conns : \A n \in DOMAIN chan[q] :
         chan[q][n].left = "all" => Unwritten(chan[q][n].chunk)

\* Each chunk is written once, and all that was written has been sent.
Once ==
    /\ \A m \in DOMAIN written : ~Unwritten(written[m])
    /\ \A m, n \in DOMAIN written : written[m] = written[n] => m = n
    /\ \A k \in Chunks : ~Unwritten(k) => \E m \in DOMAIN written : written[m] = k

\* A place that is full has a first byte, its own or the zero of the chunk
\* before it, which is then full too.
FirstBytes ==
    \A k \in Chunks :
        /\ download[k].rest = k => download[k].first # Hole
        /\ download[k].first = Nul => k > 0 /\ download[k - 1].rest = k - 1

\* What holds of the file whatever client writes it.
FileInv == InPlace /\ Once /\ BoundedOvertaking /\ LostIfOvertaken /\ FirstBytes

\* The constants, without their definitions.
LEMMA Widths ==
    /\ NumChunks \in Nat \ {0} /\ Chunks \subseteq Nat /\ Conns \subseteq Nat
    /\ \A k : k \in Chunks <=> k \in Nat /\ k < NumChunks
    /\ \A a \in Nat : a % NumConns \in Conns
    /\ Hole \notin Chunks /\ Nul \notin Chunks /\ Part \notin Chunks
    /\ Hole # Part /\ Hole # Nul
<1>1. \A a \in Nat : a % NumConns \in Conns
    BY TurnFacts, Division DEF Conns
<1> QED
    BY <1>1, StripesAssumption DEF Chunks, Conns

\* The records on a connection and how many there are.
LEMMA ChanTypes ==
    ASSUME StripesTypeOK
    PROVE  /\ i \in Nat /\ i <= NumChunks
           /\ \A q \in Conns :
                /\ chan[q] \in Seq(Tails) /\ Len(chan[q]) \in Nat /\ Len(chan[q]) <= Window
                /\ DOMAIN chan[q] = 1..Len(chan[q])
                /\ \A n \in DOMAIN chan[q] : /\ chan[q][n] \in Tails
                                             /\ chan[q][n].chunk \in Chunks
                                             /\ chan[q][n].left \in {"all", "tail"}
<1>1. i \in Nat /\ i <= NumChunks
    BY Widths DEF StripesTypeOK
<1>2. ASSUME NEW q \in Conns
      PROVE  /\ chan[q] \in Seq(Tails) /\ Len(chan[q]) \in Nat /\ Len(chan[q]) <= Window
             /\ DOMAIN chan[q] = 1..Len(chan[q])
             /\ \A n \in DOMAIN chan[q] : chan[q][n] \in Tails
    BY StripesAssumption DEF StripesTypeOK
<1> QED
    BY <1>1, <1>2 DEF Tails

\* The server sends: what is in hand stays so, although i has grown.
LEMMA SendChan ==
    ASSUME StripesTypeOK, ChanInv, Fresh, ServerSend
    PROVE  /\ StripesTypeOK' /\ ChanInv' /\ Fresh'
           /\ \A q \in Conns : \A k : InHand(q, k) => InHand(q, k)'
<1>1. PICK c \in Conns : c = i % NumConns
    BY Widths, ChanTypes
<1>2. /\ i \in Chunks /\ i \in Nat /\ i' = i + 1 /\ UNCHANGED <<eof, file>>
      /\ Len(chan[c]) < Window
      /\ chan' = [chan EXCEPT ![c] = Append(@, Record(i))]
    BY <1>1, ChanTypes DEF ServerSend
<1>3. PICK l \in Nat : l = Len(chan[c])
    BY ChanTypes
<1>4. Record(i) \in Tails
    BY <1>2 DEF Record, Tails
<1>5. \A q \in Conns : q # c => chan'[q] = chan[q]
    BY <1>2 DEF StripesTypeOK
<1>6. /\ Len(chan'[c]) = l + 1 /\ DOMAIN chan'[c] = 1..(l + 1)
      /\ chan'[c][l + 1] = Record(i)
      /\ \A n \in 1..l : chan'[c][n] = chan[c][n]
      /\ chan'[c] \in Seq(Tails)
    <2>1. chan[c] \in Seq(Tails) /\ chan'[c] = Append(chan[c], Record(i))
        BY <1>2, ChanTypes DEF StripesTypeOK
    <2> QED
        BY <1>3, <1>4, <2>1
<1>7. Record(i).chunk = i /\ Record(i).left = "all"
    BY DEF Record
<1>12. ASSUME NEW q \in Conns, NEW n \in DOMAIN chan'[q], ~(q = c /\ n = l + 1)
       PROVE  n \in DOMAIN chan[q] /\ chan'[q][n] = chan[q][n]
    <2>1. DOMAIN chan[c] = 1..l
        BY <1>3, ChanTypes
    <2>2. CASE q # c
        BY <1>5, <1>12, <2>2
    <2>3. CASE q = c
        <3>1. n \in 1..l
            BY <1>3, <1>6, <1>12, <2>3
        <3> QED
            BY <1>6, <2>1, <2>3, <3>1
    <2> QED
        BY <2>2, <2>3
<1>8. StripesTypeOK'
    <2>1. chan' \in [Conns -> Seq(Tails)]
        BY <1>2, <1>4 DEF StripesTypeOK
    <2>2. \A q \in Conns : Len(chan'[q]) <= Window
        BY <1>2, <1>3, <1>5, <1>6, StripesAssumption DEF StripesTypeOK
    <2>3. i' \in 0..NumChunks
        BY <1>2, Widths
    <2> QED
        BY <1>2, <2>1, <2>2, <2>3 DEF StripesTypeOK, file
<1>9. ChanInv'
    <2>1. ASSUME NEW q \in Conns, NEW n \in DOMAIN chan'[q]
          PROVE  /\ chan'[q][n].chunk % NumConns = q
                 /\ chan'[q][n].chunk < i + 1
                 /\ chan'[q][n].left = "tail" => n = 1
        <3>1. CASE q = c /\ n = l + 1
            BY <1>1, <1>2, <1>6, <1>7, <3>1
        <3>2. CASE ~(q = c /\ n = l + 1)
            <4>1. n \in DOMAIN chan[q] /\ chan'[q][n] = chan[q][n]
                BY <1>12, <3>2
            <4>2. chan[q][n].chunk \in Nat
                BY <4>1, ChanTypes, Widths
            <4> QED
                BY <1>2, <4>1, <4>2 DEF ChanInv
        <3> QED
            BY <3>1, <3>2
    <2>2. ASSUME NEW q \in Conns, NEW m \in DOMAIN chan'[q], NEW n \in DOMAIN chan'[q], m < n
          PROVE  chan'[q][m].chunk < chan'[q][n].chunk
        <3>1. CASE q = c
            <4>1. m \in DOMAIN chan[q] /\ chan'[q][m] = chan[q][m]
                BY <1>3, <1>6, <2>2, <3>1, ChanTypes
            <4>2. CASE n = l + 1
                BY <1>6, <1>7, <3>1, <4>1, <4>2 DEF ChanInv
            <4>3. CASE n # l + 1
                <5>1. n \in DOMAIN chan[q] /\ chan'[q][n] = chan[q][n]
                    BY <1>3, <1>6, <2>2, <3>1, <4>3, ChanTypes
                <5> QED
                    BY <2>2, <4>1, <5>1 DEF ChanInv
            <4> QED
                BY <4>2, <4>3
        <3>2. CASE q # c
            BY <1>5, <2>2, <3>2 DEF ChanInv
        <3> QED
            BY <3>1, <3>2
    <2>3. ASSUME NEW q \in Conns, chan'[q] # << >>
          PROVE  i + 1 <= chan'[q][1].chunk + Turns(Len(chan'[q]))
        <3>1. CASE q = c /\ l = 0
            <4>1. chan'[q][1].chunk = i /\ Len(chan'[q]) = l + 1
                BY <1>6, <1>7, <3>1
            <4>2. Turns(l + 1) = 0 + NumConns
                BY <3>1, TurnFacts
            <4>3. i + 1 <= i + Turns(l + 1)
                BY <1>2, <4>2, TurnFacts
            <4> QED
                BY <4>1, <4>3
        <3>2. CASE q = c /\ l # 0
            <4>1. /\ chan[q] # << >> /\ 1 \in DOMAIN chan[q] /\ chan'[q][1] = chan[q][1]
                  /\ Len(chan'[q]) = l + 1 /\ Len(chan[q]) = l
                BY <1>3, <1>6, <3>2, ChanTypes
            <4>2. i <= chan[q][1].chunk + Turns(l)
                BY <4>1 DEF ChanInv
            <4>3. chan[q][1].chunk \in Nat
                BY <4>1, ChanTypes, Widths
            <4>4. Turns(l + 1) = Turns(l) + NumConns /\ Turns(l) \in Nat /\ NumConns \in Nat \ {0}
                BY TurnFacts
            <4> QED
                BY <1>2, <4>1, <4>2, <4>3, <4>4
        <3>3. CASE q # c
            <4>1. chan'[q] = chan[q] /\ 1 \in DOMAIN chan[q]
                BY <1>5, <2>3, <3>3, ChanTypes
            <4>2. PICK a \in Nat : a = chan[q][1].chunk
                BY <4>1, ChanTypes, Widths
            <4>3. PICK b \in Nat : b = Turns(Len(chan[q]))
                BY ChanTypes, TurnFacts
            <4>4. i <= a + b /\ a % NumConns = q
                BY <2>3, <4>1, <4>2, <4>3 DEF ChanInv
            <4>5. (a + b) % NumConns = a % NumConns
                BY <4>3, LaterTurn, ChanTypes
            <4>6. i # a + b
                BY <1>1, <3>3, <4>4, <4>5
            <4>7. i + 1 <= a + b
                BY <1>2, <4>4, <4>6
            <4> QED
                BY <4>1, <4>2, <4>3, <4>7
        <3> QED
            BY <3>1, <3>2, <3>3
    <2> QED
        BY <1>2, <2>1, <2>2, <2>3 DEF ChanInv
<1>10. Fresh'
    <2>1. \A k \in Chunks : k >= i + 1 => Unwritten(k)
        BY <1>2, Widths DEF Fresh
    <2>2. ASSUME NEW q \in Conns, NEW n \in DOMAIN chan'[q], chan'[q][n].left = "all"
          PROVE  Unwritten(chan'[q][n].chunk)
        <3>1. CASE q = c /\ n = l + 1
            BY <1>2, <1>6, <1>7, <3>1, Widths DEF Fresh
        <3>2. CASE ~(q = c /\ n = l + 1)
            <4>1. n \in DOMAIN chan[q] /\ chan'[q][n] = chan[q][n]
                BY <1>12, <3>2
            <4> QED
                BY <2>2, <4>1 DEF Fresh
        <3> QED
            BY <3>1, <3>2
    <2> QED
        BY <1>2, <2>1, <2>2 DEF Fresh, Unwritten, file
<1>11. ASSUME NEW q \in Conns, NEW k, InHand(q, k)
       PROVE  InHand(q, k)'
    <2>1. k \in Nat /\ k < i /\ k \in Chunks /\ k % NumConns = q
        BY <1>11, Widths DEF InHand
    <2>2. ASSUME NEW n \in DOMAIN chan'[q], chan'[q][n].left = "all"
          PROVE  k < chan'[q][n].chunk
        <3>1. CASE q = c /\ n = l + 1
            BY <1>6, <1>7, <2>1, <3>1
        <3>2. CASE ~(q = c /\ n = l + 1)
            <4>1. n \in DOMAIN chan[q] /\ chan'[q][n] = chan[q][n]
                BY <1>12, <3>2
            <4> QED
                BY <1>11, <2>2, <4>1 DEF InHand
        <3> QED
            BY <3>1, <3>2
    <2>3. i + 1 <= k + Turns(Len(chan'[q]) + 1)
        <3>1. i <= k + Turns(Len(chan[q]) + 1)
            BY <1>11 DEF InHand
        <3>2. CASE q = c
            <4>1. Len(chan'[q]) = l + 1 /\ Len(chan[q]) = l
                BY <1>3, <1>6, <3>2
            <4>2. /\ Turns((l + 1) + 1) = Turns(l + 1) + NumConns
                  /\ Turns(l + 1) \in Nat /\ NumConns \in Nat \ {0}
                BY TurnFacts
            <4> QED
                BY <1>2, <2>1, <3>1, <4>1, <4>2
        <3>3. CASE q # c
            <4>1. PICK b \in Nat : b = Turns(Len(chan[q]) + 1)
                <5>1. PICK m \in Nat : m = Len(chan[q]) + 1
                    BY ChanTypes
                <5>2. Turns(m) \in Nat
                    BY <5>1, TurnFacts
                <5> QED
                    BY <5>1, <5>2
            <4>2. (k + b) % NumConns = k % NumConns
                BY <2>1, <4>1, LaterTurn, ChanTypes
            <4>3. i # k + b
                BY <1>1, <2>1, <3>3, <4>2
            <4>4. i + 1 <= k + b
                BY <1>2, <2>1, <3>1, <4>1, <4>3
            <4> QED
                BY <1>5, <3>3, <4>1, <4>4
        <3> QED
            BY <3>2, <3>3
    <2> QED
        BY <1>2, <2>1, <2>2, <2>3 DEF InHand
<1> QED
    BY <1>8, <1>9, <1>10, <1>11

\* recv takes the first record, or leaves its tail, which is never read.
LEMMA OutcomeFacts ==
    ASSUME StripesTypeOK, NEW q \in Conns, chan[q] # << >>, NEW o \in Outcomes(q)
    PROVE  LET r == Head(chan[q])
           IN /\ \/ o.chan = [chan EXCEPT ![q] = Tail(@)]
                 \/ /\ r.left = "all"
                    /\ o.chan = [chan EXCEPT ![q] =
                                    <<[r EXCEPT !.left = "tail"]>> \o Tail(@)]
              /\ \/ o.read = "short"
                 \/ o.read = "all" /\ r.left = "all"
                 \/ /\ o.read = "head" /\ r.left = "all"
                    /\ o.chan = [chan EXCEPT ![q] =
                                    <<[r EXCEPT !.left = "tail"]>> \o Tail(@)]
<1> DEFINE r == Head(chan[q])
           Tail0 == [chan EXCEPT ![q] = Tail(@)]
           Tail1 == [chan EXCEPT ![q] = <<[r EXCEPT !.left = "tail"]>> \o Tail(@)]
<1>1. \/ o = [read |-> "short", chan |-> Tail0]
      \/ r.left # "tail" /\ o = [read |-> "all", chan |-> Tail0]
      \/ r.left # "tail" /\ \E read \in {"all", "head", "short"} :
             o = [read |-> read, chan |-> Tail1]
    BY DEF Outcomes, StripesTypeOK
<1>2. r.left \in {"all", "tail"}
    <2>1. chan[q] \in Seq(Tails)
        BY DEF StripesTypeOK
    <2>2. r \in Tails
        BY <2>1
    <2> QED
        BY <2>2 DEF Tails
<1> HIDE DEF r, Tail0, Tail1
<1>3. /\ o.chan = Tail0 \/ (r.left = "all" /\ o.chan = Tail1)
      /\ \/ o.read = "short"
         \/ o.read = "all" /\ r.left = "all"
         \/ o.read = "head" /\ r.left = "all" /\ o.chan = Tail1
    BY <1>1, <1>2
<1> QED
    BY <1>3 DEF r, Tail0, Tail1

\* A client receives on q: the records keep their order, and the chunk it
\* takes whole or in part is in its hand.
LEMMA TakeChan ==
    ASSUME StripesTypeOK, ChanInv, NEW q \in Conns, chan[q] # << >>,
           NEW o \in Outcomes(q), chan' = o.chan, i' = i
    PROVE  /\ chan' \in [Conns -> Seq(Tails)]
           /\ \A p \in Conns : Len(chan'[p]) <= Window
           /\ ChanInv'
           /\ \A p \in Conns : \A k : p # q /\ InHand(p, k) => InHand(p, k)'
           /\ \A p \in Conns : \A n \in DOMAIN chan'[p] : chan'[p][n].left = "all" =>
                  \E m \in DOMAIN chan[p] : chan[p][m] = chan'[p][n]
           /\ o.read # "short" => /\ o.read \in {"all", "head"}
                                  /\ Head(chan[q]).left = "all"
                                  /\ Head(chan[q]) = chan[q][1] /\ 1 \in DOMAIN chan[q]
                                  /\ \E k \in Chunks : /\ k = Head(chan[q]).chunk
                                                        /\ InHand(q, k)'
                                                        /\ i <= k + (NumConns * (Window + 1))
<1>1. PICK r \in Tails : r = Head(chan[q]) /\ r = chan[q][1] /\ 1 \in DOMAIN chan[q]
    BY ChanTypes
<1>2. PICK t \in Tails : t = [r EXCEPT !.left = "tail"]
    BY DEF Tails
<1>3. t.chunk = r.chunk /\ t.left = "tail" /\ r.chunk \in Chunks /\ r.chunk \in Nat
    BY <1>2, Widths DEF Tails
<1>4. /\ \/ chan' = [chan EXCEPT ![q] = Tail(@)]
         \/ chan' = [chan EXCEPT ![q] = <<t>> \o Tail(@)] /\ r.left = "all"
      /\ o.read # "short" => r.left = "all" /\ o.read \in {"all", "head"}
    <2>1. \/ o.chan = [chan EXCEPT ![q] = Tail(@)]
          \/ /\ Head(chan[q]).left = "all"
             /\ o.chan = [chan EXCEPT ![q] =
                             <<[Head(chan[q]) EXCEPT !.left = "tail"]>> \o Tail(@)]
        BY OutcomeFacts
    <2>2. o.read # "short" => Head(chan[q]).left = "all" /\ o.read \in {"all", "head"}
        BY OutcomeFacts
    <2> QED
        BY <1>1, <1>2, <2>1, <2>2
<1>5. PICK l \in Nat : l = Len(chan[q]) /\ l >= 1 /\ l <= Window
    BY ChanTypes
<1>6. \A p \in Conns : p # q => chan'[p] = chan[p]
    BY <1>4 DEF StripesTypeOK
<1>7. chan[q] \in Seq(Tails) /\ i \in Nat /\ NumConns \in Nat \ {0}
    BY ChanTypes, TurnFacts
\* The records that are left have moved up by d.
<1>8. PICK d \in {0, 1} :
         /\ chan'[q] \in Seq(Tails) /\ Len(chan'[q]) = l - d /\ DOMAIN chan'[q] = 1..(l - d)
         /\ \A n \in 1..(l - d) :
              /\ n + d \in DOMAIN chan[q] /\ n \in Nat
              /\ chan'[q][n].chunk = chan[q][n + d].chunk
              /\ chan'[q][n].left = "all" => n + d > 1 /\ chan'[q][n] = chan[q][n + d]
              /\ chan'[q][n].left = "tail" => n = 1
    <2>1. \A n \in DOMAIN chan[q] : chan[q][n].left = "tail" => n = 1
        BY DEF ChanInv
    <2>2. CASE chan' = [chan EXCEPT ![q] = Tail(@)]
        <3>1. chan'[q] = Tail(chan[q])
            BY <2>2 DEF StripesTypeOK
        <3>2. /\ chan'[q] \in Seq(Tails) /\ Len(chan'[q]) = l - 1 /\ DOMAIN chan'[q] = 1..(l - 1)
              /\ \A n \in 1..(l - 1) : /\ n + 1 \in DOMAIN chan[q] /\ n \in Nat /\ n + 1 > 1
                                       /\ chan'[q][n] = chan[q][n + 1]
            BY <1>5, <1>7, <3>1
        <3>3. \A n \in 1..(l - 1) : chan'[q][n].left # "tail"
            BY <2>1, <3>2
        <3> QED
            BY <3>2, <3>3
    <2>3. CASE chan' = [chan EXCEPT ![q] = <<t>> \o Tail(@)] /\ r.left = "all"
        <3>1. chan'[q] = <<t>> \o Tail(chan[q])
            BY <2>3 DEF StripesTypeOK
        <3>2. /\ chan'[q] \in Seq(Tails) /\ Len(chan'[q]) = l /\ DOMAIN chan'[q] = 1..l
              /\ chan'[q][1] = t
              /\ \A n \in 1..l : /\ n \in DOMAIN chan[q] /\ n \in Nat /\ n >= 1
                                 /\ n # 1 => chan'[q][n] = chan[q][n]
            BY <1>5, <1>7, <3>1
        <3>3. ASSUME NEW n \in 1..l
              PROVE  /\ chan'[q][n].chunk = chan[q][n].chunk
                     /\ chan'[q][n].left = "all" => n > 1 /\ chan'[q][n] = chan[q][n]
                     /\ chan'[q][n].left = "tail" => n = 1
            BY <1>1, <1>3, <2>1, <3>2
        <3>4. l - 0 = l /\ \A n \in 1..l : n + 0 = n
            OBVIOUS
        <3> QED
            BY <3>2, <3>3, <3>4
    <2> QED
        BY <1>4, <2>2, <2>3
<1>9. chan' \in [Conns -> Seq(Tails)]
    BY <1>4, <1>6, <1>8 DEF StripesTypeOK
<1>10. \A p \in Conns : Len(chan'[p]) <= Window
    <2>1. l - d <= Window
        BY <1>5, <1>8, StripesAssumption
    <2> QED
        BY <1>6, <1>8, <2>1 DEF StripesTypeOK
<1>11. ASSUME NEW p \in Conns, NEW n \in DOMAIN chan'[p]
       PROVE  /\ chan'[p][n].left = "all" => \E m \in DOMAIN chan[p] : chan[p][m] = chan'[p][n]
              /\ chan'[p][n].chunk % NumConns = p
              /\ chan'[p][n].chunk < i
              /\ chan'[p][n].left = "tail" => n = 1
    <2>1. CASE p # q
        BY <1>6, <1>11, <2>1 DEF ChanInv
    <2>2. CASE p = q
        <3>1. /\ n + d \in DOMAIN chan[p]
              /\ chan'[p][n].chunk = chan[p][n + d].chunk
              /\ chan'[p][n].left = "all" => chan'[p][n] = chan[p][n + d]
              /\ chan'[p][n].left = "tail" => n = 1
            BY <1>8, <1>11, <2>2
        <3> QED
            BY <3>1 DEF ChanInv
    <2> QED
        BY <2>1, <2>2
<1>12. ASSUME NEW p \in Conns, NEW m \in DOMAIN chan'[p], NEW n \in DOMAIN chan'[p], m < n
       PROVE  chan'[p][m].chunk < chan'[p][n].chunk
    <2>1. CASE p = q
        <3>1. /\ m + d \in DOMAIN chan[q] /\ n + d \in DOMAIN chan[q]
              /\ chan'[q][m].chunk = chan[q][m + d].chunk
              /\ chan'[q][n].chunk = chan[q][n + d].chunk
              /\ m \in Nat /\ n \in Nat
            BY <1>8, <1>12, <2>1
        <3>2. m + d < n + d
            BY <1>12, <3>1
        <3> QED
            BY <2>1, <3>1, <3>2 DEF ChanInv
    <2>2. CASE p # q
        BY <1>6, <1>12, <2>2 DEF ChanInv
    <2> QED
        BY <2>1, <2>2
<1>13. i <= r.chunk + Turns(l)
    BY <1>1, <1>5 DEF ChanInv
<1>14. chan'[q] # << >> => i <= chan'[q][1].chunk + Turns(l - d)
    <2>1. CASE d = 0
        <3>1. chan'[q][1].chunk = chan[q][1 + d].chunk
            BY <1>5, <1>8, <2>1
        <3>2. 1 + d = 1 /\ l - d = l
            BY <1>5, <2>1
        <3> QED
            BY <1>1, <1>13, <3>1, <3>2
    <2>2. CASE d = 1 /\ chan'[q] # << >>
        <3>1. 1 \in 1..(l - d)
            BY <1>5, <1>8, <2>2
        <3>2. chan'[q][1].chunk = chan[q][2].chunk /\ 2 \in DOMAIN chan[q]
            BY <1>8, <2>2, <3>1
        <3>3. PICK c \in Nat : c = chan[q][2].chunk
            BY <3>2, ChanTypes, Widths
        <3>4. r.chunk < c /\ r.chunk % NumConns = c % NumConns
            BY <1>1, <3>2, <3>3 DEF ChanInv
        <3>5. r.chunk + NumConns <= c
            BY <1>3, <3>4, SameTurn
        <3>6. PICK e \in Nat : e = l - 1
            BY <1>5
        <3>7. l = e + 1
            BY <1>5, <3>6
        <3>8. Turns(l) = Turns(e) + NumConns /\ Turns(e) \in Nat
            BY <3>6, <3>7, TurnFacts
        <3>9. i <= c + Turns(e)
            BY <1>3, <1>7, <1>13, <3>5, <3>8
        <3> QED
            BY <2>2, <3>2, <3>3, <3>6, <3>9
    <2> QED
        BY <1>8, <2>1, <2>2
<1>15. ChanInv'
    <2>1. \A p \in Conns : chan'[p] # << >> => i <= chan'[p][1].chunk + Turns(Len(chan'[p]))
        BY <1>6, <1>8, <1>14 DEF ChanInv
    <2> QED
        BY <1>11, <1>12, <2>1 DEF ChanInv
<1>16. ASSUME r.left = "all"
       PROVE  InHand(q, r.chunk)'
    <2>1. r.chunk < i /\ r.chunk % NumConns = q
        BY <1>1 DEF ChanInv
    <2>2. ASSUME NEW n \in DOMAIN chan'[q], chan'[q][n].left = "all"
          PROVE  r.chunk < chan'[q][n].chunk
        <3>1. n + d \in DOMAIN chan[q] /\ 1 < n + d /\ chan'[q][n].chunk = chan[q][n + d].chunk
            BY <1>8, <2>2
        <3> QED
            BY <1>1, <3>1 DEF ChanInv
    <2>3. i <= r.chunk + Turns((l - d) + 1)
        <3>1. CASE d = 0
            <4>1. Turns(l + 1) = Turns(l) + NumConns /\ Turns(l) \in Nat
                BY TurnFacts
            <4>2. l - d = l
                BY <3>1
            <4>3. i <= r.chunk + Turns(l + 1)
                BY <1>3, <1>7, <1>13, <4>1
            <4> QED
                BY <4>2, <4>3
        <3>2. CASE d = 1
            <4>1. (l - d) + 1 = l
                BY <3>2
            <4> QED
                BY <1>13, <4>1
        <3> QED
            BY <1>8, <3>1, <3>2
    <2> QED
        BY <1>3, <1>8, <2>1, <2>2, <2>3 DEF InHand
<1>17. ASSUME NEW p \in Conns, NEW k, p # q, InHand(p, k)
       PROVE  InHand(p, k)'
    BY <1>6, <1>17 DEF InHand
<1>18. o.read # "short" =>
           /\ o.read \in {"all", "head"}
           /\ Head(chan[q]).left = "all"
           /\ Head(chan[q]) = chan[q][1] /\ 1 \in DOMAIN chan[q]
           /\ \E k \in Chunks : /\ k = Head(chan[q]).chunk /\ InHand(q, k)'
                                /\ i <= k + (NumConns * (Window + 1))
    <2>1. o.read # "short" => r.left = "all" /\ o.read \in {"all", "head"}
        BY <1>4
    <2>2. i <= r.chunk + (NumConns * (Window + 1))
        <3>1. PICK b \in Nat : b = NumConns * (Window + 1)
            BY StripesAssumption
        <3>2. /\ Turns(l) \in Nat /\ Turns(l + 1) = Turns(l) + NumConns
              /\ Turns(l + 1) <= b
            BY <1>5, <3>1, TurnFacts
        <3>3. i <= r.chunk + b
            BY <1>3, <1>7, <1>13, <3>1, <3>2
        <3> QED
            BY <3>1, <3>3
    <2>3. r.left = "all" =>
              \E k \in Chunks : /\ k = Head(chan[q]).chunk /\ InHand(q, k)'
                               /\ i <= k + (NumConns * (Window + 1))
        BY <1>1, <1>3, <1>16, <2>2
    <2> QED
        BY <1>1, <2>1, <2>3
<1> QED
    BY <1>9, <1>10, <1>11, <1>15, <1>17, <1>18

\* What is in hand is not further behind than the connections hold.
LEMMA HandBound ==
    ASSUME StripesTypeOK, NEW q \in Conns, NEW k, InHand(q, k)
    PROVE  i <= k + (NumConns * (Window + 1))
<1>1. PICK b \in Nat : b = NumConns * (Window + 1)
    BY StripesAssumption
<1>2. PICK l \in Nat : l = Len(chan[q]) /\ l <= Window
    BY ChanTypes
<1>3. PICK c \in Nat : c = Turns(l + 1) /\ c <= b
    <2>1. Turns(l + 1) <= b /\ Turns(l + 1) = Turns(l) + NumConns /\ Turns(l) \in Nat
        BY <1>1, <1>2, TurnFacts
    <2>2. Turns(l + 1) \in Nat
        BY <2>1, TurnFacts
    <2> QED
        BY <2>1, <2>2
<1>4. k \in Nat /\ i \in Nat /\ i <= k + c
    BY <1>2, <1>3, Widths, ChanTypes DEF InHand
<1>5. i <= k + b
    BY <1>1, <1>3, <1>4
<1> QED
    BY <1>1, <1>5

-----------------------------------------------------------------------------
\* What fwrite changes of the file, the zero behind it included.
LEMMA WriteCells ==
    ASSUME StripesTypeOK, NEW k \in Chunks, NEW read \in {"all", "head"},
           FWrite(k, k, read)
    PROVE  /\ download' \in [0..NumChunks -> Cells]
           /\ \A j \in 0..NumChunks :
                /\ download'[j].rest = IF j = k THEN IF read = "all" THEN k ELSE Part
                                                ELSE download[j].rest
                /\ download'[j].first = IF j = k THEN k
                                        ELSE IF j = k + 1 /\ read = "all" THEN Nul
                                        ELSE download[j].first
<1>1. k \in Nat /\ k \in 0..NumChunks /\ k + 1 \in 0..NumChunks /\ k # k + 1
    BY Widths
<1>2. PICK a \in Cells : a = [first |-> k, rest |-> k]
    BY DEF Cells
<1>3. PICK b \in Cells : b = [first |-> k, rest |-> Part]
    BY DEF Cells
<1>4. \A j \in 0..NumChunks : download[j] \in Cells
    BY DEF StripesTypeOK
<1>5. PICK c \in Cells : c = [download[k + 1] EXCEPT !.first = Nul]
    BY <1>1, <1>4 DEF Cells
<1>6. c.first = Nul /\ c.rest = download[k + 1].rest
    BY <1>1, <1>4, <1>5 DEF Cells
<1>7. CASE read = "all"
    <2>1. download' = [[download EXCEPT ![k] = a] EXCEPT ![k + 1].first = Nul]
        BY <1>2, <1>7 DEF FWrite, WriteWhole
    <2>2. [download EXCEPT ![k] = a][k + 1] = download[k + 1]
        BY <1>1 DEF StripesTypeOK
    <2>3. download' = [[download EXCEPT ![k] = a] EXCEPT ![k + 1] = c]
        BY <1>5, <2>1, <2>2
    <2>4. /\ download' \in [0..NumChunks -> Cells]
          /\ download'[k] = a /\ download'[k + 1] = c
          /\ \A j \in 0..NumChunks : j # k /\ j # k + 1 => download'[j] = download[j]
        BY <1>1, <2>3 DEF StripesTypeOK
    <2> QED
        BY <1>1, <1>2, <1>6, <1>7, <2>4
<1>8. CASE read = "head"
    <2>1. download' = [download EXCEPT ![k] = b]
        BY <1>3, <1>8 DEF FWrite, WritePiece
    <2>2. /\ download' \in [0..NumChunks -> Cells] /\ download'[k] = b
          /\ \A j \in 0..NumChunks : j # k => download'[j] = download[j]
        BY <1>1, <2>1 DEF StripesTypeOK
    <2> QED
        BY <1>3, <1>8, <2>2
<1> QED
    BY <1>7, <1>8

\* The order of writing grows by k.
LEMMA WriteLog ==
    ASSUME StripesTypeOK, NEW k \in Chunks, NEW p, NEW read, FWrite(p, k, read)
    PROVE  /\ written' \in Seq(Chunks) /\ Len(written) \in Nat
           /\ DOMAIN written = 1..Len(written)
           /\ DOMAIN written' = 1..(Len(written) + 1)
           /\ written'[Len(written) + 1] = k
           /\ \A m \in DOMAIN written : /\ m \in DOMAIN written' /\ m < Len(written) + 1
                                        /\ written'[m] = written[m] /\ written[m] \in Chunks
           /\ \A m \in DOMAIN written' : m \notin DOMAIN written => m = Len(written) + 1
<1>1. written \in Seq(Chunks)
    BY DEF StripesTypeOK
<1>2. written' = Append(written, k)
    BY DEF FWrite, WriteWhole, WritePiece
<1> QED
    BY <1>1, <1>2

\* Writing a chunk in hand at its own place keeps all that holds of the file.
LEMMA WriteFile ==
    ASSUME StripesTypeOK, Fresh, FileInv, NEW k \in Chunks, NEW read \in {"all", "head"},
           Unwritten(k), i <= k + (NumConns * (Window + 1)), FWrite(k, k, read)
    PROVE  FileInv' /\ ~Unwritten(k)' /\ \A j \in Chunks : j # k => (Unwritten(j)' <=> Unwritten(j))
<1>1. /\ k \in Nat /\ k \in 0..NumChunks
      /\ \A j \in Chunks : j \in 0..NumChunks /\ j \in Nat
    BY Widths
<1>2. \A j \in 0..NumChunks :
        /\ download'[j].rest = IF j = k THEN IF read = "all" THEN k ELSE Part
                                        ELSE download[j].rest
        /\ download'[j].first = IF j = k THEN k
                                ELSE IF j = k + 1 /\ read = "all" THEN Nul
                                ELSE download[j].first
    BY WriteCells
<1>3. ~Unwritten(k)' /\ \A j \in Chunks : j # k => (Unwritten(j)' <=> Unwritten(j))
    BY <1>1, <1>2, Widths DEF Unwritten
<1>4. InPlace'
    BY <1>2 DEF FileInv, InPlace
<1>5. PICK l \in Nat : l = Len(written)
    BY WriteLog
<1>6. /\ DOMAIN written = 1..l /\ DOMAIN written' = 1..(l + 1) /\ written'[l + 1] = k
      /\ \A m \in DOMAIN written : /\ m \in DOMAIN written' /\ m < l + 1
                                   /\ written'[m] = written[m] /\ written[m] \in Chunks
      /\ \A m \in DOMAIN written' : m \notin DOMAIN written => m = l + 1
    BY <1>5, WriteLog
<1>7. \A m \in DOMAIN written : written[m] # k
    BY DEF FileInv, Once
<1>8. Once'
    <2>1. ASSUME NEW m \in DOMAIN written'
          PROVE  download'[written'[m]].rest # Hole
        <3>1. CASE m \in DOMAIN written
            BY <1>3, <1>6, <1>7, <3>1 DEF FileInv, Once, Unwritten
        <3>2. CASE m \notin DOMAIN written
            BY <1>3, <1>6, <3>2 DEF Unwritten
        <3> QED
            BY <3>1, <3>2
    <2>2. \A m, n \in DOMAIN written' : written'[m] = written'[n] => m = n
        BY <1>6, <1>7 DEF FileInv, Once
    <2>3. ASSUME NEW j \in Chunks, ~Unwritten(j)'
          PROVE  \E m \in DOMAIN written' : written'[m] = j
        <3>1. CASE j = k
            BY <1>6, <3>1
        <3>2. CASE j # k
            BY <1>3, <1>6, <2>3, <3>2 DEF FileInv, Once
        <3> QED
            BY <3>1, <3>2
    <2> QED
        BY <2>1, <2>2, <2>3 DEF Once, Unwritten
\* What k overtakes is still to come.
<1>9. ASSUME NEW j \in Chunks, NEW c \in Chunks
      PROVE  Overtakes(c, j)' <=>
                 Overtakes(c, j) \/ (j = k /\ \E m \in DOMAIN written : written[m] = c)
    BY <1>6 DEF Overtakes
<1>10. BoundedOvertaking'
    <2>1. ASSUME NEW m \in DOMAIN written
          PROVE  written[m] < i
        <3>1. PICK c \in Chunks : c = written[m]
            BY <1>6
        <3>2. ~Unwritten(c)
            BY <3>1 DEF FileInv, Once
        <3>3. ~(c >= i)
            BY <3>2 DEF Fresh
        <3>4. i \in Nat /\ c \in Nat
            BY <1>1, ChanTypes
        <3> QED
            BY <3>1, <3>3, <3>4
    <2>2. ASSUME NEW c \in Chunks, NEW m \in DOMAIN written, written[m] = c
          PROVE  c - k < NumConns * (Window + 1)
        <3>1. PICK b \in Nat : b = NumConns * (Window + 1)
            BY StripesAssumption
        <3>2. c < i /\ i <= k + b /\ i \in Nat /\ c \in Nat
            BY <1>1, <2>1, <2>2, <3>1, ChanTypes
        <3> QED
            BY <1>1, <3>1, <3>2
    <2> QED
        BY <1>9, <2>2 DEF FileInv, BoundedOvertaking
<1>11. LostIfOvertaken'
    <2>1. ASSUME NEW j \in Chunks, NEW c \in Chunks, c = j + 1,
                 download'[j].rest = j, download'[c].rest = c
          PROVE  download'[c].first = Nul <=> Overtakes(c, j)'
        <3>1. CASE j = k
            <4>1. read = "all" /\ c # k /\ download[c].rest = c
                BY <1>1, <1>2, <2>1, <3>1, Widths
            <4>2. download'[c].first = Nul
                BY <1>1, <1>2, <2>1, <3>1, <4>1
            <4>3. \E m \in DOMAIN written : written[m] = c
                BY <4>1, Widths DEF FileInv, Once, Unwritten
            <4> QED
                BY <1>9, <3>1, <4>2, <4>3
        <3>2. CASE c = k
            <4>1. download'[c].first = k /\ j # k
                BY <1>1, <1>2, <2>1, <3>2
            <4>2. ~Overtakes(c, j)
                BY <1>7, <3>2 DEF Overtakes
            <4> QED
                BY <1>9, <4>1, <4>2, Widths
        <3>3. CASE j # k /\ c # k
            <4>1. c # k + 1
                BY <1>1, <2>1, <3>3
            <4>2. /\ download[j].rest = j /\ download[c].rest = c
                  /\ download'[c].first = download[c].first
                BY <1>1, <1>2, <2>1, <3>3, <4>1
            <4>3. download[c].first = Nul <=> Overtakes(c, j)
                BY <2>1, <4>2 DEF FileInv, LostIfOvertaken
            <4> QED
                BY <1>9, <3>3, <4>2, <4>3
        <3> QED
            BY <3>1, <3>2, <3>3
    <2> QED
        BY <2>1 DEF LostIfOvertaken
<1>12. FirstBytes'
    <2>1. ASSUME NEW j \in Chunks, download'[j].rest = j
          PROVE  download'[j].first # Hole
        BY <1>1, <1>2, <2>1, Widths DEF FileInv, FirstBytes
    <2>2. ASSUME NEW j \in Chunks, download'[j].first = Nul
          PROVE  j > 0 /\ download'[j - 1].rest = j - 1
        <3>1. j # k
            BY <1>1, <1>2, <2>2, Widths
        <3>2. CASE j = k + 1 /\ read = "all"
            <4>1. j > 0 /\ j - 1 = k
                BY <1>1, <3>2
            <4> QED
                BY <1>1, <1>2, <3>2, <4>1
        <3>3. CASE ~(j = k + 1 /\ read = "all")
            <4>1. download[j].first = Nul
                BY <1>1, <1>2, <2>2, <3>1, <3>3
            <4>2. j > 0 /\ download[j - 1].rest = j - 1
                BY <4>1 DEF FileInv, FirstBytes
            <4>3. j - 1 \in Chunks
                BY <1>1, <4>2, Widths
            <4>4. j - 1 # k
                BY <4>2, <4>3, Widths DEF Unwritten
            <4> QED
                BY <1>1, <1>2, <4>2, <4>3, <4>4
        <3> QED
            BY <3>2, <3>3
    <2> QED
        BY <2>1, <2>2 DEF FirstBytes
<1> QED
    BY <1>3, <1>4, <1>8, <1>10, <1>11, <1>12 DEF FileInv

\* A chunk taken from a connection is written: what has not been sent, or waits
\* whole, is other chunks.
LEMMA WriteFresh ==
    ASSUME StripesTypeOK, StripesTypeOK', i' = i, Fresh, ChanInv',
           NEW q \in Conns, NEW k \in Chunks, InHand(q, k)',
           \A p \in Conns : \A n \in DOMAIN chan'[p] : chan'[p][n].left = "all" =>
              \E m \in DOMAIN chan[p] : chan[p][m] = chan'[p][n],
           \A j \in Chunks : j # k => (Unwritten(j)' <=> Unwritten(j))
    PROVE  Fresh'
<1>1. \A p \in Conns : \A n \in DOMAIN chan'[p] :
         chan'[p][n].chunk \in Chunks
    <2>1. \A p \in Conns : chan'[p] \in Seq(Tails)
        BY DEF StripesTypeOK
    <2>2. \A p \in Conns : \A n \in DOMAIN chan'[p] : chan'[p][n] \in Tails
        BY <2>1
    <2> QED
        BY <2>2 DEF Tails
<1>2. ASSUME NEW j \in Chunks, j >= i'
      PROVE  Unwritten(j)'
    <2>1. j # k /\ Unwritten(j)
        BY <1>2, Widths, ChanTypes DEF Fresh, InHand
    <2> QED
        BY <2>1
<1>3. ASSUME NEW p \in Conns, NEW n \in DOMAIN chan'[p], chan'[p][n].left = "all",
             NEW c \in Chunks, c = chan'[p][n].chunk
      PROVE  Unwritten(c)'
    <2>1. Unwritten(c)
        BY <1>3 DEF Fresh
    <2>2. c % NumConns = p
        BY <1>3 DEF ChanInv
    <2>3. CASE p = q
        BY <1>3, <2>1, <2>3, Widths DEF InHand
    <2>4. CASE p # q
        BY <2>1, <2>2, <2>4 DEF InHand
    <2> QED
        BY <2>3, <2>4
<1> QED
    BY <1>1, <1>2, <1>3 DEF Fresh, Unwritten

-----------------------------------------------------------------------------
\* There are 2 * NumChunks halves, and as many in the file only if all are.
LEMMA HalfFacts ==
    /\ IsFiniteSet(Halves) /\ Cardinality(Halves) = 2 * NumChunks
    /\ InFile \subseteq Halves
    /\ IsFiniteSet(InFile) /\ Cardinality(InFile) \in 0..(2 * NumChunks)
    /\ Cardinality(InFile) = 2 * NumChunks => InFile = Halves
<1>1. IsFiniteSet(Chunks) /\ Cardinality(Chunks) = NumChunks
    <2>1. NumChunks - 1 \in Int /\ NumChunks \in Nat \ {0}
        BY StripesAssumption
    <2>2. /\ IsFiniteSet(0..(NumChunks - 1))
          /\ Cardinality(0..(NumChunks - 1)) =
                 IF 0 > NumChunks - 1 THEN 0 ELSE ((NumChunks - 1) - 0) + 1
        BY <2>1, FS_Interval
    <2> QED
        BY <2>1, <2>2 DEF Chunks
<1>2. IsFiniteSet({1, 2}) /\ Cardinality({1, 2}) = 2
    <2>1. IsFiniteSet({1}) /\ Cardinality({1}) = 1
        BY FS_Singleton
    <2>2. {1, 2} = {1} \cup {2} /\ 2 \notin {1}
        OBVIOUS
    <2>3. IsFiniteSet({1, 2}) /\ Cardinality({1, 2}) = Cardinality({1}) + 1
        BY <2>1, <2>2, FS_AddElement
    <2> QED
        BY <2>1, <2>3
<1>3. IsFiniteSet(Halves) /\ Cardinality(Halves) = 2 * NumChunks
    <2>1. IsFiniteSet(Halves) /\ Cardinality(Halves) = Cardinality(Chunks) * Cardinality({1, 2})
        BY <1>1, <1>2, FS_Product DEF Halves
    <2> QED
        BY <1>1, <1>2, <2>1, StripesAssumption
<1>4. InFile \subseteq Halves
    BY DEF InFile
<1>5. /\ IsFiniteSet(InFile) /\ Cardinality(InFile) <= 2 * NumChunks
      /\ 2 * NumChunks = Cardinality(InFile) => Halves = InFile
    BY <1>3, <1>4, FS_Subset
<1>6. Cardinality(InFile) \in Nat
    BY <1>5, FS_CardinalityType
<1> QED
    BY <1>3, <1>4, <1>5, <1>6, StripesAssumption

\* Writing a chunk for the first time adds its weight in halves.
LEMMA WriteHalves ==
    ASSUME StripesTypeOK, NEW k \in Chunks, NEW read \in {"all", "head"},
           Unwritten(k), FWrite(k, k, read)
    PROVE  Cardinality(InFile') = Cardinality(InFile) + IF read = "all" THEN 2 ELSE 1
<1>1. k \in 0..NumChunks /\ \A j \in Chunks : j \in 0..NumChunks
    BY Widths
<1>2. \A j \in Chunks :
         download'[j].rest = IF j = k THEN IF read = "all" THEN k ELSE Part
                                      ELSE download[j].rest
    BY <1>1, WriteCells
<1>3. download[k].rest = Hole
    BY DEF Unwritten
<1>4. <<k, 1>> \notin InFile /\ <<k, 2>> \notin InFile /\ <<k, 1>> # <<k, 2>>
    BY <1>3, Widths DEF InFile
<1>5. IsFiniteSet(InFile) /\ Cardinality(InFile) \in Nat
    BY HalfFacts
<1> DEFINE S == InFile \cup {<<k, 1>>}
<1>6. IsFiniteSet(S) /\ Cardinality(S) = Cardinality(InFile) + 1
    BY <1>4, <1>5, FS_AddElement
<1>7. CASE read = "all"
    <2>1. InFile' = S \cup {<<k, 2>>}
        <3>1. \A c \in Halves :
                 (\/ download'[c[1]].rest = c[1]
                  \/ c[2] = 1 /\ download'[c[1]].rest = Part)
                 <=> c \in InFile \/ c[1] = k
            BY <1>2, <1>7 DEF InFile, Halves
        <3>2. \A c \in Halves : c[1] = k <=> c = <<k, 1>> \/ c = <<k, 2>>
            BY DEF Halves
        <3>3. <<k, 1>> \in Halves /\ <<k, 2>> \in Halves
            BY DEF Halves
        <3> QED
            BY <3>1, <3>2, <3>3 DEF InFile
    <2>2. <<k, 2>> \notin S
        BY <1>4
    <2> HIDE DEF S
    <2>3. Cardinality(InFile') = Cardinality(S) + 1
        BY <1>6, <2>1, <2>2, FS_AddElement
    <2> QED
        BY <1>5, <1>6, <1>7, <2>3
<1>8. CASE read = "head"
    <2>1. InFile' = S
        <3>1. \A c \in Halves :
                 (\/ download'[c[1]].rest = c[1]
                  \/ c[2] = 1 /\ download'[c[1]].rest = Part)
                 <=> c \in InFile \/ (c[1] = k /\ c[2] = 1)
            BY <1>2, <1>3, <1>8, Widths DEF InFile, Halves
        <3>2. \A c \in Halves : c[1] = k /\ c[2] = 1 <=> c = <<k, 1>>
            BY DEF Halves
        <3>3. <<k, 1>> \in Halves
            BY DEF Halves
        <3> QED
            BY <3>1, <3>2, <3>3 DEF InFile
    <2> QED
        BY <1>5, <1>6, <1>8, <2>1
<1> QED
    BY <1>7, <1>8
=============================================================================
