------------------------------- MODULE Stripes -------------------------------
(***************************************************************************)
(* The server of the striped download (serverb.c): the file is cut into    *)
(* chunks, each of which is sent with its offset on one of the connections *)
(* in turn; and the file that a client makes of them.  The clients are     *)
(* StripedThreads and StripedSelect.                                       *)
(*                                                                         *)
(* A connection is a stream: recv returns one record if it is all there,   *)
(* and else the part of it that is.  What follows the rest of a record is  *)
(* never looked at: that rest ends in a zero, where strcpy stops.          *)
(***************************************************************************)
EXTENDS Integers, Sequences, FiniteSets

CONSTANTS NumChunks,   \* chunks of BUFSIZE bytes in the file
          NumConns,    \* no_conn
          Window,      \* records that fit between send and recv
          SplitReads,  \* whether recv may return part of a record
          Hole, Nul,   \* a byte that was not written, a byte 0
          Part         \* the bytes of a chunk of which only some were written

Chunks == 0..(NumChunks - 1)
Conns == 0..(NumConns - 1)

ASSUME StripesAssumption ==
    /\ NumChunks \in Nat \ {0} /\ NumConns \in Nat \ {0} /\ Window \in Nat \ {0}
    /\ SplitReads \in BOOLEAN
    /\ {Hole, Nul, Part} \cap Chunks = {} /\ Hole \notin {Nul, Part}

VARIABLES
    i,         \* the chunk that is sent next
    chan,      \* chan[q]: the records on connection q that are not received
    eof,       \* the server has closed its connections
    download,  \* the client's file: whose byte is the first in the place of
               \* each chunk, and what the rest of the place has
    recv_data, \* the bytes a client has counted
    written    \* history: the chunks in the order in which they were written

server == <<i, chan, eof>>
file == <<download, written>>

\* A record on its way: all of it, or what a short recv has left of it.
Record(k) == [chunk |-> k, left |-> "all"]
Tails == [chunk : Chunks, left : {"all", "tail"}]

\* Behind the last chunk a byte more may be written.
Cells == [first : Chunks \cup {Hole, Nul}, rest : Chunks \cup {Hole, Part}]

StripesTypeOK ==
    /\ i \in 0..NumChunks
    /\ chan \in [Conns -> Seq(Tails)]
    /\ \A q \in Conns : Len(chan[q]) <= Window
    /\ eof \in BOOLEAN
    /\ download \in [0..NumChunks -> Cells]
    /\ written \in Seq(Chunks)

StripesInit ==
    /\ i = 0
    /\ chan = [q \in Conns |-> << >>]
    /\ eof = FALSE
    /\ download = [k \in 0..NumChunks |-> [first |-> Hole, rest |-> Hole]]
    /\ written = << >>

\* Mutant of ServerSend: the window is not waited for.
SendAlways ==
    /\ i \in Chunks
    /\ chan' = [chan EXCEPT ![i % NumConns] = Append(@, Record(i))]
    /\ i' = i + 1
    /\ UNCHANGED <<eof, file>>

\* fread and send: the connections take turns, send blocks on a full one.
ServerSend ==
    /\ i \in Chunks
    /\ Len(chan[i % NumConns]) < Window
    /\ chan' = [chan EXCEPT ![i % NumConns] = Append(@, Record(i))]
    /\ i' = i + 1
    /\ UNCHANGED <<eof, file>>

\* Mutant of ServerExit: the connections stay open.
StayOpen == FALSE /\ UNCHANGED <<server, file>>

\* At the end of the file the server exits, which closes every connection.
ServerExit ==
    /\ i = NumChunks /\ ~eof
    /\ eof' = TRUE
    /\ UNCHANGED <<i, chan, file>>

Server == ServerSend \/ ServerExit

\* The outcomes of recv on connection q: what it reads of the first record,
\* and the channel after it.  A "head" has the offset and some of the data; a
\* "short" piece has no offset, or nothing behind it.  When only bytes behind
\* the terminating zero are missing "all" was read.
Outcomes(q) ==
    LET r == Head(chan[q])
        Took(read, rest) == [read |-> read, chan |-> [chan EXCEPT ![q] = rest]]
        Tail1 == <<[r EXCEPT !.left = "tail"]>> \o Tail(chan[q])
    IN IF r.left = "tail" THEN {Took("short", Tail(chan[q]))}
       ELSE {Took("all", Tail(chan[q]))}
            \cup {Took(read, Tail1) : read \in
                      IF SplitReads THEN {"all", "head", "short"} ELSE {}}

\* fwrite of a piece of chunk k at the place of chunk pos, where the zero
\* behind the string falls as well.
WritePiece(pos, k) ==
    /\ download' = [download EXCEPT ![pos] = [first |-> k, rest |-> Part]]
    /\ written' = Append(written, k)

\* Mutant of WriteWhole: the zero is not written.
WriteExactly(pos, k) ==
    /\ download' = [download EXCEPT ![pos] = [first |-> k, rest |-> k]]
    /\ written' = Append(written, k)

\* fwrite(pt, strlen(pt) + 1) of all of chunk k: the zero behind the string
\* falls on the first byte of the chunk after it.
WriteWhole(pos, k) ==
    /\ download' = [download EXCEPT ![pos] = [first |-> k, rest |-> k],
                                    ![pos + 1].first = Nul]
    /\ written' = Append(written, k)

FWrite(pos, k, read) ==
    \/ read = "all" /\ WriteWhole(pos, k)
    \/ read # "all" /\ WritePiece(pos, k)

-----------------------------------------------------------------------------
\* Halves of chunks, and those that were written.
Halves == Chunks \X {1, 2}
InFile == {c \in Halves : \/ download[c[1]].rest = c[1]
                          \/ c[2] = 1 /\ download[c[1]].rest = Part}

\* No chunk is ever written at the place of another.
InPlace ==
    \A k \in 0..NumChunks : /\ download[k].first \in {k, Hole, Nul}
                           /\ download[k].rest \in {k, Hole, Part}

Overtakes(k, j) ==
    \E m, n \in DOMAIN written : m < n /\ written[m] = k /\ written[n] = j

\* Chunks are written out of order, but not by more than what the connections
\* hold: a slow one stops the server.
BoundedOvertaking ==
    \A j, k \in Chunks : Overtakes(k, j) => k - j < NumConns * (Window + 1)

\* The first byte of a chunk is lost exactly if the chunk before it was
\* written later.
LostIfOvertaken ==
    \A j, k \in Chunks :
        k = j + 1 /\ download[j].rest = j /\ download[k].rest = k
            => (download[k].first = Nul <=> Overtakes(k, j))
=============================================================================
