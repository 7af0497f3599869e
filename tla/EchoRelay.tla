----------------------------- MODULE EchoRelay -----------------------------
(***************************************************************************)
(* The echo server (server.c) and a client that sends it a file's worth of *)
(* messages and stores what comes back: with a process or thread for each  *)
(* direction (twoprocesses.c, twothreads.c), with select and blocking      *)
(* calls (blockingio.c), or with select and non-blocking calls             *)
(* (nonblockingio.c).                                                      *)
(*                                                                         *)
(* All bytes are alike, so a buffer is the number of units in it.          *)
(***************************************************************************)
EXTENDS Naturals, FiniteSetsExt

CONSTANTS NumMessages,       \* messages that are sent
          Message,           \* units in a message, and in the client's fr
          UpCap, DownCap,    \* units that the connection holds, each way
          Kinds,             \* the clients: "two", "blocking", "nonblocking"
          Marks              \* units of room from which select takes a socket
                             \* for writable

Total == NumMessages * Message
Block == 4 * Message         \* the buffers of 1024 bytes

ASSUME EchoAssumption ==
    /\ NumMessages \in Nat \ {0} /\ Message \in Nat \ {0}
    /\ UpCap \in Nat \ {0} /\ DownCap \in Nat \ {0}
    /\ Kinds \subseteq {"two", "blocking", "nonblocking"}
    /\ Marks \subseteq 1..UpCap

VARIABLES
    kind, mark,    \* the client and the mark of this run
    up, down,      \* units on their way to the server and back
    held,          \* units that the server has yet to send back
    server,        \* where the server is: recv, send, closed
    i, rest,       \* messages begun, units of the last one not yet taken
    shut,          \* whether the client has shut its sending side
    sender,        \* client "two": whether its sender is still there
    pc,            \* the other clients: the place in their loop; and the
                   \* reader of "two": recv, closed
    ready,         \* what select has returned
    got,           \* recv_data
    fr,            \* units between froptr and friptr
    file,          \* units written to the file
    lost           \* units that a send did not take and nobody sends again

connVars == <<up, down, held, server>>
sendVars == <<i, rest, shut, sender, lost>>
readVars == <<got, fr, file>>
vars == <<kind, mark, connVars, sendVars, readVars, pc, ready>>

Init ==
    /\ kind \in Kinds /\ mark \in Marks
    /\ up = 0 /\ down = 0 /\ held = 0 /\ server = "recv"
    /\ i = 0 /\ rest = 0 /\ shut = FALSE /\ lost = 0
    /\ sender = (kind = "two") /\ pc = IF kind = "two" THEN "recv" ELSE "select"
    /\ ready = {} /\ got = 0 /\ fr = 0 /\ file = 0

-----------------------------------------------------------------------------
(* The server's child: server.c. *)

ServerRecv ==
    /\ server = "recv"
    /\ \/ \E n \in 1..Min({up, Block}) :
            /\ up' = up - n /\ held' = n
            /\ server' = "send"
       \/ /\ up = 0 /\ shut
          /\ server' = "closed"
          /\ UNCHANGED <<up, held>>
    /\ UNCHANGED <<kind, mark, down, sendVars, readVars, pc, ready>>

\* A blocking send, bit by bit.
ServerSend ==
    /\ server = "send"
    /\ \E n \in 1..Min({held, DownCap - down}) :
         /\ down' = down + n /\ held' = held - n
         /\ server' = IF n = held THEN "recv" ELSE "send"
    /\ UNCHANGED <<kind, mark, up, sendVars, readVars, pc, ready>>

Server == ServerRecv \/ ServerSend

-----------------------------------------------------------------------------
(* What the clients have in common. *)

Begin == i < NumMessages /\ i' = i + 1

\* A blocking send, bit by bit.
Put ==
    /\ rest > 0
    /\ \E n \in 1..Min({rest, UpCap - up}) : up' = up + n /\ rest' = rest - n

\* A recv of at most size units, which are counted.
Get(size) ==
    \E n \in 1..Min({down, size}) :
      /\ down' = down - n
      /\ got' = got + n

AtEnd == down = 0 /\ server = "closed"

-----------------------------------------------------------------------------
(* A sender and a reader: twoprocesses.c, twothreads.c. *)

Send ==
    /\ sender
    /\ \/ /\ rest = 0 /\ Begin
          /\ rest' = Message
          /\ UNCHANGED <<up, shut, sender>>
       \/ /\ Put
          /\ UNCHANGED <<i, shut, sender>>
       \/ /\ rest = 0 /\ i = NumMessages
          /\ shut' = TRUE /\ sender' = FALSE
          /\ UNCHANGED <<up, i, rest>>
    /\ UNCHANGED <<kind, mark, down, held, server, readVars, pc, ready, lost>>

Read ==
    /\ kind = "two" /\ pc = "recv"
    /\ \/ Get(Block) /\ file' = file + (got' - got) /\ UNCHANGED pc
       \/ AtEnd /\ pc' = "closed" /\ UNCHANGED <<down, got, file>>
    /\ UNCHANGED <<kind, mark, up, held, server, sendVars, fr, ready>>

-----------------------------------------------------------------------------
(* strcli of blockingio.c and nonblockingio.c: one pass of the loop is     *)
(* select, in, out, flush, shut.                                           *)

\* Mutant of Writable: the socket is written to without asking.
WritableAlways == TRUE

\* After shutdown a send would fail at once, which is ready too.
Writable == UpCap - up >= mark \/ shut

Select ==
    /\ pc = "select"
    /\ ready' = {x \in {"in", "out", "file"} :
          CASE x = "in"   -> (down > 0 \/ AtEnd) /\ (kind = "blocking" \/ fr < Message)
            [] x = "out"  -> Writable
            [] x = "file" -> fr > 0}
    /\ ready' # {}
    /\ pc' = "in"
    /\ UNCHANGED <<kind, mark, connVars, sendVars, readVars>>

\* A client ends when all has come back or at the end of the stream, whatever
\* is in fr.  What the non-blocking one also prints from a buffer that nobody
\* has written is not counted.
In ==
    /\ pc = "in"
    /\ \/ /\ "in" \notin ready
          /\ pc' = "out" /\ UNCHANGED <<down, got, fr, file>>
       \/ /\ "in" \in ready /\ (AtEnd \/ got = Total)
          /\ pc' = "closed" /\ UNCHANGED <<down, got, fr, file>>
       \/ /\ "in" \in ready /\ got # Total
          /\ IF kind = "blocking"
             THEN Get(Block) /\ file' = file + (got' - got) /\ UNCHANGED fr
             ELSE Get(Message - fr) /\ fr' = fr + (got' - got) /\ UNCHANGED file
          /\ pc' = "out"
    /\ UNCHANGED <<kind, mark, up, held, server, sendVars, ready>>

\* Non-blocking, the message counts as sent whatever part of it was taken.
Out ==
    /\ pc = "out"
    /\ \/ /\ "out" \in ready /\ Begin
          /\ IF kind = "blocking"
             THEN rest' = Message /\ pc' = "put" /\ UNCHANGED <<up, lost>>
             ELSE LET n == Min({Message, UpCap - up})
                  IN /\ up' = up + n /\ lost' = lost + Message - n
                     /\ pc' = "flush" /\ UNCHANGED rest
       \/ /\ "out" \notin ready \/ i = NumMessages
          /\ pc' = "flush" /\ UNCHANGED <<up, i, rest, lost>>
    /\ UNCHANGED <<kind, mark, down, held, server, shut, sender, readVars, ready>>

OutPut ==
    /\ pc = "put"
    /\ Put
    /\ pc' = IF rest' = 0 THEN "flush" ELSE "put"
    /\ UNCHANGED <<kind, mark, down, held, server, i, shut, sender, lost, readVars, ready>>

\* Mutant of Flush: the pointers are set back without a write.
FlushNothing ==
    /\ pc = "flush"
    /\ fr' = 0 /\ UNCHANGED file
    /\ pc' = "shut"
    /\ UNCHANGED <<kind, mark, connVars, sendVars, got, ready>>

\* A write to a file takes all.
Flush ==
    /\ pc = "flush"
    /\ IF "file" \in ready THEN file' = file + fr /\ fr' = 0
                           ELSE UNCHANGED <<file, fr>>
    /\ pc' = "shut"
    /\ UNCHANGED <<kind, mark, connVars, sendVars, got, ready>>

Shut ==
    /\ pc = "shut"
    /\ shut' = (shut \/ i = NumMessages)
    /\ pc' = "select"
    /\ UNCHANGED <<kind, mark, connVars, i, rest, sender, lost, readVars, ready>>

Loop == Select \/ In \/ Out \/ OutPut \/ Flush \/ Shut

-----------------------------------------------------------------------------
Next == Server \/ Send \/ Read \/ Loop

Spec == Init /\ [][Next]_vars

\* The server, the client and its sender are scheduled.
FairSpec == Spec /\ WF_vars(Server) /\ WF_vars(Send) /\ WF_vars(Read) /\ WF_vars(Loop)
-----------------------------------------------------------------------------
TypeOK ==
    /\ kind \in Kinds /\ mark \in Marks
    /\ up \in 0..UpCap /\ down \in 0..DownCap /\ held \in 0..Block
    /\ server \in {"recv", "send", "closed"}
    /\ i \in 0..NumMessages /\ rest \in 0..Message /\ shut \in BOOLEAN /\ sender \in BOOLEAN
    /\ pc \in {"recv", "select", "in", "out", "put", "flush", "shut", "closed"}
    /\ ready \subseteq {"in", "out", "file"}
    /\ got \in 0..Total /\ file \in 0..Total /\ lost \in 0..Total /\ fr \in 0..Message

\* When a client ends, all that it sent has come back, but for what a
\* non-blocking send did not take; and all that came is in the file, but for
\* the last buffer of the non-blocking client.
AllComesBack ==
    pc = "closed" =>
        /\ got = Total - lost /\ file = got - fr
        /\ lost > 0 => kind = "nonblocking" /\ mark < Message
        /\ fr > 0 => kind = "nonblocking"

\* The program ends, however little the connection holds.  With blocking calls
\* in one process this takes a select that promises room for a whole message:
\* else client and server can block each other.
EchoEnds == (kind = "blocking" => mark >= Message) ~> pc = "closed" /\ server = "closed"
=============================================================================
