--------------------------- MODULE StripedThreads ---------------------------
(***************************************************************************)
(* The client with a thread for each connection (multiplethreads.c): the   *)
(* threads share one FILE and a count of the bytes received, under a       *)
(* mutex; main reads the count without it and would leave its loop when    *)
(* the file is complete.                                                   *)
(*                                                                         *)
(* strcpy(temp, pt) copies the data of a record over its offset, in the    *)
(* buffer that pt still points into: what pt has afterwards is the data    *)
(* without its first bytes, as many as the offset and the ";" are long.    *)
(* That piece is written and counted.  (The copy overlaps; it is taken to  *)
(* go forward.)                                                            *)
(***************************************************************************)
EXTENDS Stripes

VARIABLES
    tpc,        \* where thread q is, which serves connection q
    got,        \* the record that it holds: chunk, and how much of it
    mtx,        \* the thread that holds the mutex, NoOne if none
    fpos,       \* the chunk in whose place the position of the FILE is
    perc,       \* the count that main read last
    mpc         \* main: reading the count, or joining; or the process was
                \* killed

client == <<tpc, got, mtx, fpos, recv_data, perc, mpc>>
vars == <<server, file, client>>

NoOne == -1
Nothing == [chunk |-> 0, read |-> "all"]

\* In the count a chunk has the weight 3: 2 for what is counted of it when all
\* of it was read, and 1 for the bytes that the copy has cut off.
data_b == 3 * NumChunks

TypeOK ==
    /\ StripesTypeOK
    /\ tpc \in [Conns -> {"recv", "lock", "seek", "write", "count", "exited"}]
    /\ got \in [Conns -> [chunk : Chunks, read : {"all", "head"}]]
    /\ mtx \in Conns \cup {NoOne}
    /\ fpos \in Chunks
    /\ recv_data \in 0..(2 * NumChunks)
    /\ perc \in 0..recv_data
    /\ mpc \in {"progress", "join", "killed"}

Init ==
    /\ StripesInit
    /\ tpc = [q \in Conns |-> "recv"]
    /\ got = [q \in Conns |-> Nothing]
    /\ mtx = NoOne
    /\ fpos = 0
    /\ recv_data = 0 /\ perc = 0
    /\ mpc = "progress"

Alive == mpc # "killed"

At(q, here, next) ==
    /\ Alive
    /\ tpc[q] = here
    /\ tpc' = [tpc EXCEPT ![q] = next]

\* A record, or the head of one, is taken apart with strtok.
Receive(q) ==
    /\ At(q, "recv", "lock")
    /\ chan[q] # << >>
    /\ \E o \in Outcomes(q) :
         /\ o.read # "short"
         /\ chan' = o.chan
         /\ got' = [got EXCEPT ![q] = [chunk |-> Head(chan[q]).chunk,
                                       read  |-> o.read]]
    /\ UNCHANGED <<i, eof, file, mtx, fpos, recv_data, perc, mpc>>

\* strtok finds no second field and strcpy follows NULL.
ReceiveShort(q) ==
    /\ Alive
    /\ tpc[q] = "recv"
    /\ chan[q] # << >>
    /\ \E o \in Outcomes(q) : o.read = "short" /\ chan' = o.chan
    /\ mpc' = "killed"
    /\ UNCHANGED <<i, eof, file, tpc, got, mtx, fpos, recv_data, perc>>

ReceiveEnd(q) ==
    /\ At(q, "recv", "exited")
    /\ chan[q] = << >> /\ eof
    /\ UNCHANGED <<server, file, got, mtx, fpos, recv_data, perc, mpc>>

\* Mutant of Lock: nothing is locked.
LockNothing(q) ==
    /\ At(q, "lock", "seek")
    /\ UNCHANGED <<server, file, got, mtx, fpos, recv_data, perc, mpc>>

Lock(q) ==
    /\ At(q, "lock", "seek")
    /\ mtx = NoOne
    /\ mtx' = q
    /\ UNCHANGED <<server, file, got, fpos, recv_data, perc, mpc>>

Seek(q) ==
    /\ At(q, "seek", "write")
    /\ fpos' = got[q].chunk
    /\ UNCHANGED <<server, file, got, mtx, recv_data, perc, mpc>>

\* Even of a chunk that was read whole only a piece is left to write: neither
\* the zero behind it nor the position leaves the chunk's place.
Write(q) ==
    /\ At(q, "write", "count")
    /\ WritePiece(fpos, got[q].chunk)
    /\ UNCHANGED <<server, got, mtx, fpos, recv_data, perc, mpc>>

\* Mutant of Weights: pt has all that was read.
WeightsRead(q) == IF got[q].read = "all" THEN {3} ELSE {0, 1}

\* strlen(pt): of the head of a record nothing or something.
Weights(q) == IF got[q].read = "all" THEN {2} ELSE {0, 1}

\* The bytes are counted and the mutex is unlocked.
Count(q) ==
    /\ At(q, "count", "recv")
    /\ \E n \in Weights(q) : recv_data' = recv_data + n
    /\ mtx' = NoOne
    /\ UNCHANGED <<server, file, got, fpos, perc, mpc>>

Thread(q) ==
    \/ Receive(q) \/ ReceiveShort(q) \/ ReceiveEnd(q)
    \/ Lock(q) \/ Seek(q) \/ Write(q) \/ Count(q)

\* The progress loop reads recv_data without the mutex and leaves at 100 %.
\* What main does behind it, join the threads and close the file, it never
\* does (NeverHundred).
Progress ==
    /\ mpc = "progress"
    /\ perc' = recv_data
    /\ mpc' = IF perc' >= data_b THEN "join" ELSE "progress"
    /\ UNCHANGED <<server, file, tpc, got, mtx, fpos, recv_data>>

Next ==
    \/ Server /\ UNCHANGED client
    \/ \E q \in Conns : Thread(q)
    \/ Progress

Spec == Init /\ [][Next]_vars

\* The server, the threads and main are scheduled again and again.
FairSpec ==
    /\ Spec
    /\ WF_vars(Server /\ UNCHANGED client)
    /\ \A q \in Conns : WF_vars(Thread(q))
    /\ WF_vars(Progress)

-----------------------------------------------------------------------------
\* No chunk is ever written at the place of another, in whatever order the
\* threads use the file: between fseek and fwrite of one no other moves it.
ChunksInPlace == InPlace

\* Main never sees 100 %, though every chunk is received: no interleaving of
\* the threads counts more of a chunk than the piece that is written of it, so
\* main does not leave its loop.
NeverHundred == perc < data_b /\ mpc # "join"

\* The threads do end, unless a short read kills the client: the window never
\* jams, and main shows in the end what they have counted, all of the chunks
\* but for what was cut off.
ThreadsEnd ==
    <>[](\/ mpc = "killed"
         \/ /\ \A q \in Conns : tpc[q] = "exited"
            /\ Len(written) = NumChunks /\ perc = 2 * NumChunks)
=============================================================================
