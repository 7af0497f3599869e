---------------------------- MODULE StripedSelect ----------------------------
(***************************************************************************)
(* The client with a select loop over its connections                      *)
(* (nonblockingconnect.c).                                                 *)
(***************************************************************************)
EXTENDS Stripes

VARIABLES
    pc,         \* at select, within a pass over the ready ones, at the end;
                \* or the process was killed
    rset        \* the ready connections that the pass has yet to look at

selectClient == <<pc, rset, recv_data>>
selectVars == <<server, file, selectClient>>

SelectTypeOK ==
    /\ StripesTypeOK
    /\ pc \in {"select", "pass", "closed", "killed"}
    /\ rset \subseteq Conns
    /\ recv_data \in 0..(2 * NumChunks)

SelectInit ==
    /\ StripesInit
    /\ pc = "select"
    /\ rset = {}
    /\ recv_data = 0

\* Mutant of Readable: every connection is read, without FD_ISSET.
ReadableAlways == Conns

Readable == {q \in Conns : chan[q] # << >> \/ eof}

Select ==
    /\ pc = "select"
    /\ Readable # {}
    /\ pc' = "pass"
    /\ rset' = Readable
    /\ UNCHANGED <<server, file, recv_data>>

\* The loop over the connections comes to q and goes on behind it.
Visit(q) ==
    /\ pc = "pass"
    /\ q \in rset /\ \A p \in rset : q <= p
    /\ rset' = rset \ {q}

\* Mutant of SelectReceive: every recv counts as a whole record.
SelectCounted(q) ==
    /\ Visit(q)
    /\ chan[q] # << >>
    /\ \E o \in Outcomes(q) :
         LET k == Head(chan[q]).chunk
         IN /\ o.read # "short"
            /\ chan' = o.chan
            /\ FWrite(k, k, o.read)
            /\ recv_data' = recv_data + 2
    /\ pc' = IF rset = {q} THEN "select" ELSE "pass"
    /\ UNCHANGED <<i, eof>>

\* A record, or the head of one, is written at its offset.
SelectReceive(q) ==
    /\ Visit(q)
    /\ chan[q] # << >>
    /\ \E o \in Outcomes(q) :
         LET k == Head(chan[q]).chunk
         IN /\ o.read # "short"
            /\ chan' = o.chan
            /\ FWrite(k, k, o.read)
            /\ recv_data' = recv_data + IF o.read = "all" THEN 2 ELSE 1
    /\ pc' = IF rset = {q} THEN "select" ELSE "pass"
    /\ UNCHANGED <<i, eof>>

\* strtok finds no second field and strlen follows NULL.
SelectShort(q) ==
    /\ Visit(q)
    /\ chan[q] # << >>
    /\ \E o \in Outcomes(q) : o.read = "short" /\ chan' = o.chan
    /\ pc' = "killed"
    /\ UNCHANGED <<i, eof, file, recv_data>>

\* The first connection at its end ends the pass and the program.
SelectEnd(q) ==
    /\ Visit(q)
    /\ chan[q] = << >>
    /\ pc' = "closed"
    /\ UNCHANGED <<server, file, recv_data>>

Client == Select \/ \E q \in Conns : SelectReceive(q) \/ SelectShort(q) \/ SelectEnd(q)

SelectNext == Client \/ (Server /\ UNCHANGED selectClient)

SelectSpec == SelectInit /\ [][SelectNext]_selectVars

FairSelectSpec ==
    /\ SelectSpec
    /\ WF_selectVars(Client)
    /\ WF_selectVars(Server /\ UNCHANGED selectClient)

-----------------------------------------------------------------------------
Unread(k) == \E q \in Conns : \E n \in DOMAIN chan[q] : chan[q][n].chunk = k

\* When the client stops, a chunk waits on a connection that it had not come
\* to, or it is in the file; and if it lacks its first byte there, the client
\* has overwritten that itself, with the zero of the chunk before it, written
\* later.
MissingIsUnread ==
    pc = "closed" => \A k \in Chunks :
        \/ Unread(k)
        \/ download[k] = [first |-> k, rest |-> k]
        \/ download[k] = [first |-> Nul, rest |-> k] /\ Overtakes(k, k - 1)

\* The count that the progress display shows is what was written, piece by
\* piece; a first byte that was overwritten later is counted too.
CountIsWritten == recv_data = Cardinality(InFile)

\* The download ends, or a short read kills the client.
SelectEnds == <>(pc \in {"closed", "killed"})
=============================================================================
