# Network programming assignments: TLA+ models

TLA+ modules, TLC models and TLAPS proofs for the concurrent programs of this
repository: the chat server, its client and the shell (`Assignment-1`), the
echo programs and the striped download (`Assignment-2`) and the network message
bus (`Assignment-3`).

    tlc -config MCChatMail.cfg MCChatSession     # the runs are listed below
    tlapm ChatSessionProofs.tla                   # and every other *Proofs.tla

## 1. The system

| component | files | state it keeps | operations |
|---|---|---|---|
| accounts | `Assignment-1/tcpserver.c` | a counter and an array of `MAX_USERS` records in shared memory | `create_new_user`, `find_user`, `verify_user` |
| sessions | `Assignment-1/tcpserver.c` | per connection a handler and a listener process; `online_status`, `blocked_id` in the records; one System V queue; one broadcaster | login, private message, broadcast, status, block, unblock, logout |
| chat client | `Assignment-1/tcpclient.c` | a menu process and a listener process on one socket | login, the menu; `handle_output` |
| shell | `Assignment-1/shell.c` | its descriptors, the pipes and the child of one command line | split and parse, pipelines of `\|`, `\|\|`, `\|\|\|`, redirection, `cd`, completion, Ctrl+C, Ctrl+D |
| download server | `Assignment-2/serverb.c` | the read position, n connections | sends chunk i with its offset on connection i mod n |
| threaded client | `Assignment-2/multiplethreads.c` | one `FILE`, a count and a mutex shared by n threads | `getdata` in the threads, the progress loop in `main` (which it never leaves) |
| select client | `Assignment-2/nonblockingconnect.c` | one `FILE`, a count | the select loop |
| echo server, clients | `server.c`, `twoprocesses.c`, `twothreads.c`, `blockingio.c`, `nonblockingio.c` | a count of what came back, a buffer between socket and file | send a file's worth, store the echo |
| DNS client | `dns_client.c` | one packet | query, print the answer |
| bus, local server | `Assignment-3/local_server.c` | drivers' connections, one System V queue | `client_facing`, `network_facing` |
| bus, driver | `Assignment-3/driver.c`, `nmb.c` | one connection | `msgget_nmb`, `msgsnd_nmb`, `msgrcv_nmb` |

How they interact:

* **Chat.** `main` forks a handler per connection; the handler forks a listener
  that shares its socket. Handlers, listeners and the broadcaster share the
  records and the queue, without any lock. A private message has the
  addressee's `user_id` as its type in the queue, a broadcast has type 1, which
  the broadcaster takes and copies, message by message, for each user.
* **Chat, on the wire.** Client and handler exchange strings without a length or
  an end. A request is a code and, in a send of its own, its argument; a `recv`
  returns whatever has come. The handler and its listener write to one socket,
  and the client's listener reads from it what both have sent.
* **Shell.** The shell runs one child at a time and carries the data between
  them: it waits for a stage to exit, copies what is in the stage's pipe into
  pipes of the stages behind it, and starts the next.
* **Echo.** The server's child reads, changes and sends back, each call
  blocking; a client sends and receives in two processes, two threads, or one
  loop around `select`.
* **Bus.** A driver sends records over TCP to the local server. A message is
  multicast; every machine's `network_facing` process queues what it hears; a
  request (`"mreq;"`) is answered by `client_facing` from that queue.
* **Download.** The server is sequential and blocks on a connection that is
  full; a client reads its connections in some order and writes each chunk at
  the offset that came with it.

What is hard about them, and what makes them correct:

* *accounts*: registrations race on a counter and an array. A finished
  registration must stay what it is, and ids must tell users apart.
* *sessions*: a message passes through a handler, the queue, perhaps the
  broadcaster, and a listener, any of which may be killed between two steps; a
  block is set by one process and read by another; the online flag is written
  by all. Mail must be handed over at most once, to its addressee, in order,
  and lost only for a cause; the status report must be right for those served.
* *bus*: one select loop with buffers that outlive the step that filled them,
  datagrams that may be lost, a queue shared by all types. Each request is
  answered once, and each message goes to one driver of its type.
* *wire*: what a `recv` returns depends on time, and the parsers take the first
  tokens, some of which may be empty. Requests of a user who waits must take
  effect in step with what she asked, and what the client prints must have been
  sent, but for what runs into a text from behind.
* *shell*: numbers of descriptors are kept behind their close, and are those of
  other pipes by then; pipes are bounded and read only once their writer is
  gone. A line must show what it means, and the prompt must keep its terminal.
* *echo*: both directions of the connection are bounded, so sender and receiver
  can block each other; non-blocking sends may be short. All must come back and
  the client must end.
* *download*: writes out of order into one file through one position; the end
  is decided by a count, which the threaded client never completes, or by the
  first connection that closes. What is written must be in its place, what is
  missing must have a known cause, and the threads and the select loop must end.

`PROJECT.json` lists the hazards at their lines.

## 2. Modules

    UserRegistry   <- UserRegistryProofs, MCUserRegistry          accounts
    MailService    <-(refines)- ChatSession <- ChatSessionProofs, MCChatSession
    RequestChannel <-(refines)- ChatWire    <- ChatWireProofs, MCChatWire
    Shell          <- ShellProofs, MCShell
    EchoRelay      <- EchoRelayProofs                             echo
    MailDrop       <-(refines)- MessageBus  <- MessageBusProofs, MCMessageBus
    Stripes        <- StripesProofs
                   <- StripedThreads <- DownloadProofs -> StripesProofs
                   <- StripedSelect  <- DownloadProofs

**UserRegistry** has one action for each access of `create_new_user` to shared
memory: the look-up, the walk to the free slot, read and write of
`(*registered_users)++`, the second read for the id, and the copy of the record
in two parts (the name and the password, then the id). Slot `MaxUsers` is the
padding of the segment's last page, in which part of a 21st record fits; behind
it a handler crashes or writes memory that is not shared. `Init` is every idle
server whose registered names differ.

**ChatSession** has, per session, the handler (`hpc`: greeting, request loop,
`msgsnd`, reply, status report), the listener (`lpc`: poll, `msgrcv`, check,
send) and the state of the socket, and once the broadcaster and main. An action
is a system call, or an access to the table, with the local code behind it.
`sock` tells whether the client is there, has closed, or has reset the
connection, since that decides whether a send succeeds, is lost, or kills the
process with SIGPIPE. `destroyed` and `late` are history variables. Accounts
exist from the start.

**MailService** is the promise: copies of accepted messages are pending,
delivered once, or destroyed if the sender is blocked or a client of the
addressee has gone. `ChatSession!MailIsKept` is its `Spec` under a mapping:
pending is what is in the queue or in a listener's hands.

**ChatWire** is one session of client and handler down to the strings they
send. `up` and `down` are the strings not yet read; a `recv` takes any number of
them (`Together`), the last token of one and the first of the next becoming one,
and `Atoi`, `Find` and `Output` do with such a token what the code does: a text
is printed with what has run into it, a number is read without. A token is empty
where the user pressed only Enter for a text (`Typed`, an order that is `blank`);
the handler does not survive it. The
client is `Start`, `Identify`, `Verdict`, `Greeting`, then `Order` (the code of
a request) and `Fill` (its argument) in turn, and `Show`, its listener; the
handler is `ReadMode`, `Verify`, `Welcome`, then `ReadOper` and `ReadArgument`,
and `ReportLine`, one for each line of a status report; `Forward` is the
listener in the server. `patient` tells whether the user types only once the
server has read all and waits; nobody waits with "getstatus", which the program
sends by itself. A message may come in from any user, the one of the session
included. `sent`, `shown` and `done` are history. ChatSession, in which a
request is one record, is the session of such a user.

**RequestChannel** is the promise to a user who waits: her requests take effect
in order, each at most once and as asked, and only one made right behind a
status report may be passed over. `ChatWire!RequestsInStep` is its `Spec`.

**Shell** has the table of descriptors (`sh.fd`), the pipes, and the commands
with their two pairs of numbers, which are kept as in the code also when what
they name was closed. `MakePipes` is `pipe()` for the stages behind an operator,
which gets the lowest free descriptors (`Free`, `Rank`, `Nth`). `before` is the
table that the line began with. `Split` and `Parse` are `shell_split_line` and
`shell_parse`; `Feed`, `Fork`, `Reap`, `CopyBlock`, `CopyEnd`, `Semicolon`,
`Skip` and `Finish` are the loop of `shell_execute_pipeline`; `Redirect`,
`Single`, `Nest` and `ReapSingle` are `shell_execute_redirected`. The child reads
and writes blocks, each marked with the stage that wrote it, and is the
environment, as are the user's lines, completions, Ctrl+C and Ctrl+D.

**EchoRelay** has the server's child and the client that `kind` names: a sender
and a reader ("two": `twoprocesses.c` and `twothreads.c` do the same), or the
pass `Select`, `In`, `Out`, `Flush`, `Shut` of the two loops around `select`.
Bytes are alike, so buffers are numbers. `mark` is the room with which the
system calls a socket writable.

**MessageBus** has the drivers, `client_facing` (`Select` starts a pass over
the ready descriptors; `Answer`, `Relay`, `Hangup` and `HangupStale` look at
one) and `network_facing`. Connections are numbered by descriptor, which only
grow since nothing is closed. `pbuffer` and `send_msg` are the two buffers that
keep old contents. The other machines are `ForeignSend`. **MailDrop** is its
promise: a request takes the oldest message of its type, a reply without a new
message goes only to a driver that has none waiting, and mail is lost only after
a driver has gone.

**Stripes** is the download server, the connections and the file;
**StripedThreads** and **StripedSelect** are the clients. A chunk of the file
is its first byte and the rest. The select client writes what it has read and the
terminating zero (`FWrite`), which behind a whole chunk falls on the first byte of
the next (`WriteWhole`). The threaded client copies the data over the offset in
front of it before it writes (`strcpy(temp, pt)`, `multiplethreads.c:56`), and `pt`
still points to where the data began: what it writes and counts is as many bytes
shorter than the chunk as the offset and its `;` are long. So it writes pieces only
(`WritePiece`), the zero stays in the chunk's own place, and the count (`Weights`)
stays behind the file. `perc` is what `main` read last; behind its loop, which
nothing reaches (`NeverHundred`), `main` is not modelled. A short `recv` leaves the
rest of a record; the piece that was read may be without an offset or without data.
The names of StripedSelect's actions begin with `Select`, so that one module of
proofs can extend both clients.

Every definition that models code has its lines in `PROJECT.json`. A definition
named a mutant is a plausible bug for which some property is known to fail; no
specification uses one.

## 3. Runs

Bounds are small and chosen so that the case in question happens.

| run | bounds | shows |
|---|---|---|
| RegistryRace | 3 handlers, 2 slots, 3 names, 1 password, tables of 0 to 2 accounts | `IsolatedRegistrationResolves`, `IsolatedIdsDistinct`: a registration that none overlapped survives all others, also those that race; `NoBroadcastId`. Three handlers are two that race and one that does not; with two slots the array runs full and over. Passwords are only copied and compared, so one is enough for the races |
| ChatMail | 3 users, 3 sessions (one user twice), 2 messages, queue of 2 | `MailIsKept` (the refinement), `InboxOrder`, `BlockTakesEffect` while a reader with two sessions blocks, and logs out or dies in one of them. No handler crashes in it and no request is torn: that these lose mail only as `MailService` allows is `MailServiceImplemented` (section 4), for every request |
| ChatFaults | 2 users and sessions, every request, 2 messages, queue of 1, main may exit | `ServedShowsOnline`, `OnlineHasSession`; a queue of 1 makes `msgsnd` block at once. Each user has one session; several of one user are in the theorem `OnlineNeedsSession` |
| ChatProgress | 2 sessions, 2 messages, queue of 4 (all copies fit) | `AttendedMailSettles`, `BroadcastIsSpread`, `RequestIsServed` with a writer that may die. A broadcast has one copy, for the one other user, and nothing blocks for room; that a full queue stops the broadcaster for good is a hazard that no progress property excludes |
| BusMail | 2 drivers of different types, one may leave, 4 requests, 3 messages, queue of 2, socket of 1 | `MailIsKept` (the refinement), `AnswerPerRequest`, `KilledByDeparture`. Drivers of one type are in the theorem `MailImplemented`. The order promised is that of the queue, not that of sending, which multicast does not keep |
| BusReturns | 3 drivers, 2 descriptors, 4 requests, 2 messages, queue of 1 | `RequestReturns` |
| Wire | 2 users, 3 requests of a user who waits or 2 of one who does not, 1 message that comes in, from either user; a name that nobody has, a message of only Enter | `RequestsInStep` (the refinement), `RequestTakesEffect`, `HandlerSurvives`, `PrintsWhatWasSent`. Three requests are what it takes for one to be passed over behind a report and another to follow it; a message may come between any two replies, and any of them may run into its text |
| Shell | lines of the guide with up to three stages in front of `\|`, `\|\|` or `\|\|\|`, and malformed ones; 12 descriptors of which any number is taken, pipes of 2 blocks, 2 lines or completions, 1 nested shell; programs that write nothing, a pipe's worth and more | `ShowsResult`, `OverfullNeedsInterrupt`, `CopyGoesOn`, `KeepsTerminal`, `LeaksPerLine`, `LineEnds`. With 12 descriptors a line may find enough, or run out at each of its calls. What a line of the guide leaves behind is what the next one finds |
| Echo | 6 messages of 2 units; the connection holds 3 units up and 2 down, less than what is under way; marks of 1 and 2; each client | `AllComesBack`, `EchoEnds` |
| Threads | 8 chunks, 2 connections that hold 2 records, short reads | `ChunksInPlace`, `NeverHundred`, `BoundedOvertaking`, `ThreadsEnd`; 8 chunks are more than both windows and both threads hold, so that the server blocks, and enough for a chunk to be overtaken by the bound if it did not |
| Select | 10 chunks, 3 connections that hold 2 records, short reads | `MissingIsUnread`, `LostIfOvertaken`, `CountIsWritten`, `SelectEnds`. The count is of halves of chunks that were written (`InFile`); a first byte that a zero has overwritten since still counts, as in the code |

The type invariants of ChatWire and StripedSelect hold under the same
configurations but are in neither; StripedSelect's (`SelectTypeOK`) and EchoRelay's
are proved.

One run exhibits a difference between the code and what a document of the
repository says of it: TLC shows a behaviour of the code that violates the
statement.

| run | statement | what the code does |
|---|---|---|
| RegistryDuplicate | "duplicate username verification" (Chat Application.pdf) | look-up and insertion are not atomic (`tcpserver.c:148-172`); two overlapping registrations of one name both succeed |

Differences seen while modelling and not given a run of their own:

* chat: "if the user is offline, the message is delivered as soon as he/she comes
  online" (Chat Application.pdf), but logout kills the listener with the message
  it holds (`tcpserver.c:412`; `MailService!Destroy`). What a user types during a
  status report is read with the code of her request (`tcpserver.c:290`), and
  the digits in front of it decide what is done: the private text of a user who
  does not wait (`~patient`) can go to all. Only Enter for a text leaves
  `strtok` without a third token, and the handler dies (`tcpclient.c:284`,
  `tcpserver.c:50`; `Fatal`). The text of a message is printed with the first words
  of the strings that ran into it: "hi" and "statcnt;2" give "histatcnt"
  (`tcpclient.c:36`; `Fits`). A handler that crashes, or whose
  client dies, leaves its user online (`tcpserver.c:290`); of two sessions of a
  user the first that logs out shows her offline (`tcpserver.c:411`); the
  broadcaster stops on a full queue (`tcpserver.c:561`); `MAX_USERS` is not
  enforced (`tcpserver.c:168`).
* shell: a word with two spaces behind it is the last that is read
  (`shell.c:107-156`); a stage that writes more than a pipe holds hangs until
  Ctrl+C (298); copies of descriptors, opened files and directories stay open
  (199, 37); a `|||` that is followed by further pipes blocks the shell in its
  own copy loop; `cd` alone starts a shell within the shell (354).
* echo: the non-blocking client counts a short send as a message and ends
  without the last buffer in its file (`nonblockingio.c:93-118`).
* bus: nothing compares the address of a datagram (`local_server.c:198`, against
  "it checks if its destination IP address matches ...", Network Message Bus.pdf):
  mail for other machines fills the queue of this one. A request without mail is
  answered with an old message (`local_server.c:135`), and
  `recv(..., sizeof(msgp))` takes 8 bytes of a reply (`nmb.c:41`).
* download: the threaded client loses the first bytes of every chunk
  (`multiplethreads.c:56`), so its count (67) stays below 100 % and `main` turns in
  its progress loop (162) after all threads have ended. In the select client each
  write puts a zero on the first byte of the next chunk (`nonblockingconnect.c:185`;
  what is lost by it is `LostIfOvertaken`); it stops at the first connection that
  ends (`nonblockingconnect.c:167-204`).

Deadlock is not checked: all these programs stop when their clients do, some
are killed, and the servers otherwise wait for ever in `accept`, `select`,
`msgrcv` or `recv`. A shell, or its child, may wait for a keyboard for ever.

**Fairness.** Every server process and thread is a process of the operating
system that is scheduled again and again, so each has weak fairness; one
process, one condition, so that a process blocked in `msgsnd` or `recv` is
promised nothing. Clients of the chat, senders of the bus and `main`'s failure
have none: whether they go on is up to them. A driver inside `msgrcv_nmb` is
fair, as it does nothing but return. In the download the server and each thread
or the select loop are fair and end; `main` of the threaded client is fair and turns
for ever. In ChatWire the handler is fair, and neither the user nor the
two listeners are: a request takes effect whether or not anybody reads the
replies. In Shell the shell and its child are fair, lines, completions and the
user's keys are not. In EchoRelay the server, the client's loop, its sender and
its reader are each fair, and which part of what has come a call takes is left
open.

## 4. Proofs

| module | theorems | property of the runs |
|---|---|---|
| UserRegistryProofs | `TypeCorrect`, `IdsNeverBroadcast`, `IsolatedResolves`, `IsolatedDistinct` | `TypeOK`, `NoBroadcastId`, `IsolatedRegistrationResolves`, `IsolatedIdsDistinct` |
| ChatSessionProofs | `TypeCorrect`, `OnlineNeedsSession`, `ServedIsOnline`, `BlocksTakeEffect`, `InboxesInOrder`, `MailServiceImplemented` | `TypeOK`, `OnlineHasSession`, `ServedShowsOnline`, `BlockTakesEffect`, `InboxOrder`, `MailIsKept` (refinement) |
| ChatWireProofs | `SurvivesHerSession`, `ChannelImplemented`, `PrintedWasSent` | `HandlerSurvives`, `RequestsInStep` (refinement), `PrintsWhatWasSent` |
| MessageBusProofs | `TypeCorrect`, `OneAnswerPerRequest`, `DepartureKills`, `MailImplemented` | `TypeOK`, `AnswerPerRequest`, `KilledByDeparture`, `MailIsKept` (refinement) |
| DownloadProofs, threads | `TypeCorrect`, `InPlaceAlways`, `HundredIsNeverSeen`, `OvertakingIsBounded` | `TypeOK`, `ChunksInPlace`, `NeverHundred`, `BoundedOvertaking` |
| DownloadProofs, select | `SelectTypeCorrect`, `OnlyUnreadIsMissing`, `OvertakenLoses`, `CountIsExact` | `MissingIsUnread`, `LostIfOvertaken`, `CountIsWritten` |
| ShellProofs | `TypeCorrect`, `TerminalKept`, `CopyNeverStuck` | `TypeOK`, `KeepsTerminal`, `CopyGoesOn` |
| EchoRelayProofs | `TypeCorrect`, `EchoComplete` | `AllComesBack` |

Every theorem holds for every value of the constants that the named assumption of
its module admits, and of the behaviours of `Spec`, without fairness. Each proof
has one lemma per action (or group of actions that touch the same state) and one
step per conjunct that the action can disturb; the temporal step is PTL's.

### Accounts

`UserRegistryProofs` proves, for any set of handlers, names and passwords and
any `MaxUsers > 0`: `TypeCorrect`, `IdsNeverBroadcast`, `IsolatedResolves` and
`IsolatedDistinct`. They rest on `RegistryAssumption` only (`MaxUsers` is a
positive number, the empty string is no name or password).

`IsolatedRegistrationResolves` is not inductive: that a slot resolves says
nothing of what other handlers are about to do to it. The invariant is

    IInv == TypeOK /\ IdsAboveBroadcast
            /\ (\A h : Lone(h) => LoneProgress(h))
            /\ (\A h : Isolated(h) => Settled(h))

* `IdsAboveBroadcast`: the counter is at least 1 whenever an id is computed from
  it, as an increment came before and a lost one never takes it back to 0; so an
  id is at least 2 from then on.
* `LoneProgress(h)`: a handler that is in `create_new_user` with nobody else in
  it sees the counter and the table as it left them, and its name is new.
* `Settled(h)`: behind an isolated registration the counter never falls to its
  slot again, and every handler that still has to write a record or the counter
  writes a later slot and a larger number, as it read what it goes by afterwards.
  This is what keeps the races of others away from it.

Each of them is proved to hold initially and to survive every action; the
properties are then conjuncts or consequences, and the temporal step is PTL's.

### Sessions

`TypeOK` alone is not inductive: a listener that takes a message lowers `qnum`,
and nothing in the types says that this stays a natural number. What is carried
along is `QueueCounted` (`qnum` is the number of messages in the queue, whoever
was killed while it put or took one) and `Control` (which steps of handler,
listener and client of a session go together: a listener holds a message exactly
between `msgrcv` and its send, a handler in `msgsnd` has a request with a known
name, a client that asked to log out is leaving).

`OnlineHasSession` and `ServedShowsOnline` are inductive together on these.
`BlocksTakeEffect` needs `LateInv`: a listener that is about to send a message
of a sender who is blocked by now has let none pass since the block. Only then
can the one it sends be the first.

For the order of an inbox the invariant has to speak of every place in which a
message can be, as two listeners of a user take from one queue and the
broadcaster puts copies into it while others put theirs:

    MailInv == QueueOrder /\ HeldFirst /\ HeldOnce /\ InboxFirst /\ InboxSorted
               /\ BroadcastsWait /\ SpreadInOrder

Each queue is in order; a listener holds a message ahead of what is queued for
it, and no other listener of the user holds the same; what reached a client is
ahead of both; and the copies that exist of broadcasts are of earlier ones, or of
the present one to the users that the broadcaster has passed. "Ahead" compares
messages of one kind only: a private message may overtake a broadcast. TLC
checked `MailInv` with the instances of ChatMail and ChatFaults before it was
proved.

`MailServiceImplemented` maps every step to a step of `MailService` or a
stutter. It needs the same invariant: a copy is in one place at a time, so that
what a listener sends, drops or loses was pending and is not any more.

### Wire

`ChatWireProofs` proves its theorems for any table, menu and number of requests,
from `WireAssumption` (the table is a list of users, she is in it, and the unknown
name is not). The first two are about a user who waits and say nothing of one who
does not; the third is about both.

    WaitsInv == patient => ... /\ Honest /\ HandlerSurvives /\ Position

`HandlerSurvives` excepts the requests that kill the handler by themselves (`Fatal`:
an empty text, and a block of nobody).

* `Honest`: every effect so far is what its request asked for.
* `Position`: how far client and handler are apart. The last request has its code
  on the way (`Unread`), with its argument behind it if that was not typed, or its
  argument alone (`Halfway`), or all has been read (`ReadAll`); the handler
  expects a code, that argument, or, one request late, the argument of the
  report before (`ExpectsReport`). Each case carries which requests may be passed
  over (`Passed`).

So at most two strings are on the way, and what a `recv` returns of them, alone or
run together, is a matter of three lemmas (`ReadsNone`, `ReadsOne`, `ReadsTwo`)
for which no induction is needed. The code of a request that runs together with
`getstatus` is still read as that code (`CodeIs`); a code that is taken for the
argument of a report is lost, and its own argument is then no code
(`ArgumentIs`), which is why the handler is back in step afterwards. TLC checked
`WaitsInv` with the instance of Wire before it was proved.

`ChannelImplemented` maps `Order` to `Ask`, the steps of the handler that take
effect to `Serve`, and every other step to a stutter.

`PrintedWasSent` is about the way back, on which any number of strings may wait,
as the listener of the server sends on the socket of the handler whenever mail
comes in.

    LinesInv == hline \in Nat \ {0} /\ Aligned(down, sent, shown)

* `Aligned`: each line that was printed has its place in the history of what was
  sent, in order (`Embeds`), and there it is found up to `Fits`: the same line, but
  for a text that may have more words at its end. Each line that is still on the
  way has a place as well, behind them (`Follows`). A `recv` of several strings
  prints the line of the first and drops the places of the others.
* That it is the line of the first, and no mixture, is where the parser comes in:
  whatever runs into a string from behind touches its last token only, at its end
  (`Begins`, `Continues`, `JoinBegins`), and begins with one of the keys of a reply
  (`Keyed`). Of a number the client reads the digits in front; of a text it prints
  all (`TextFits`, `OutputFits`). A text that comes in is never empty, as the handler
  of who sent an empty one has died; its number is a natural one (`MailCounted`).

`Together` and `FitsInto` are recursive functions. What is said of them
(`TogetherBegins`, `FoundIs`, `EmbedsFits`) is an induction, for which the
library's theorems cannot be used; it is done with a least counterexample
(`Least`), which exists by the theorem that `<` on Nat is well founded.

### Message bus

    BusInv  == TypeOK /\ Reads /\ Connected /\ Ready /\ Silent
               /\ AnswerPerRequest /\ KilledByDeparture
    MailInv == OwnType /\ SentOnce /\ Once(net) /\ Once(queue) /\ InOnePlace

`AnswerPerRequest` is a balance over one connection, kept by the pass only
because the pass comes to connections that were accepted (`Connected`, `Silent`)
and still have what select reported (`Ready`): then the buffer that it answers is
the record just read, and never the stale one of an open connection.

`MailImplemented` is the refinement of MailDrop: every message is in one place,
its driver's buffer, the network, the queue or a reply, and never goes back to an
earlier one (`MailInv`). Its hypothesis, `Identity[c] > 0`, says that drivers ask
for a type. `BusAssumption` allows any number, as the code computes `my_mtype`
from memory it did not set (`driver.c:21`); with 0 or a negative number `msgrcv`
chooses among all types and the promise of MailDrop does not describe it. The
other theorems need no such hypothesis.

### Download

`StripesProofs` has what both clients rest on. The server takes turns, so that
the records on a connection are chunks of one remainder in increasing order, at
most as many as the turns since the first (`ChanInv`); a chunk taken from a
connection and not written is within a window's turns of the next one to be sent
(`InHand`), and what has not been sent or waits whole is not in the file
(`Fresh`). From this `FileInv` follows with every write: the chunk is written for
the first time and behind nothing that is a window ahead. With it goes `FirstBytes`: the first byte
of a whole chunk is its own or a zero, and a zero is there only behind a whole
chunk. `StripesAssumption` says that the three marks are no chunks and that a hole
is neither a part nor a zero, as half a chunk, or an overwritten byte, would look
like nothing.

The threads add `Locked` (the mutex is held by the thread between lock and
unlock, so that the position it writes at is the one it sought), `Holding` and
`Counted`: `recv_data` is at most 2 for each chunk that was begun (`Begun`), without
the one whose thread is about to count. Each chunk is begun once, so the count is at
most `2 * NumChunks`, and `NeverHundred` is then arithmetic: 100 % is
`3 * NumChunks`, as 1 of 3 is what line 56 cuts off.

The select client adds `Kept` (what was sent is in the file or on a connection),
`Ready` (what select reported has a record, or is at its end) and `Ended` (no
connection ends before all was sent). `OnlyUnreadIsMissing` combines them with
the file's invariants: what is not whole was not read (`Kept`); if a chunk is whole
its first byte is its own, or a zero, and then the chunk before it is whole
(`FirstBytes`) and was written later (`LostIfOvertaken`). The count is a cardinality, `InFile`,
rather than a sum over the file, so that no induction is needed.

### Echo

`EchoRelayProofs` proves, for any number and size of messages, any capacity of
the connection in either direction, any set of the clients and any marks of
select, `TypeCorrect` and `EchoComplete` (`AllComesBack`), from `EchoAssumption`.
`AllComesBack` speaks of the end only; what is carried along is

    IInv == TypeOK /\ Balance /\ Senders /\ Ends /\ Losses
            /\ (pc = "closed" => got = Total - lost)

* `Balance`: what was begun is up, held, down, back, lost or not yet taken, and
  what is back is in the file or in `fr`. At the end of the stream the first
  three are 0 by `Ends` (the server closes behind a shutdown, with nothing held;
  the shutdown comes behind the last message), and the last is 0 by `Senders`.
  A client that stops on its count has got everything, so nothing was lost.
* `Losses`: between `select` and the send only the server touches the
  connection, so the room that was promised is still there; with a mark of a
  whole message nothing is lost.

One lemma for each action shows that it keeps `IInv`; products occur in
`BegunFacts` only.

### Shell

`ShellProofs` proves `TypeCorrect`, `TerminalKept` and `CopyNeverStuck` for any
lines, programs, number of descriptors, size of pipes and depth of nested shells,
from `ShellAssumption`: there are more than four descriptors, a pipe holds
something, a program writes a number of blocks, a space is no operator, and `end`
is not typed.

`TypeOK` is not inductive: that `cmds[i + 1]` exists when the executor looks at
it is a matter of how a line is split and parsed. `Typing` adds `Shape`: the commands
end with the one end (`Worded`), between two words is an operator, the executor is
within them, a pipeline has no redirection in it, and the stages that an operator feeds are
there (`Fed`). That `Split` and `Parse` give such commands is an induction over the line,
done with a least counterexample (`Least`, `UpTo`); that `pipe()` finds two
descriptors for each of several stages, different and free, and an unused pipe for them, is
what the lemmas on `Rank`, `Nth` and `MakePipes` are for (`Enough`: there are always
as many unused pipes as free descriptors need).

`KeepsTerminal` is about what is restored at the end from the numbers `in` and
`out`. It is not enough that nobody closes them: the copy loop of the last stage
closes `out` itself (`shell.c:312`), and its number may then be given to a pipe.

    Guarded == Typing /\ Outs /\ Held /\ Kept /\ Straightened

* `Outs`: descriptor 1 is open, in this shell and in those that wait, and no
  command ever names it.
* `Held` (`Aside`): the copies were made below everything that the line opens:
  all numbers below `out` are open, no command names one of them but 0, the
  input's copy is the keyboard, and descriptor 1 is as it was before the line.
* `Kept`: on a line without pipes the input and the copy of the output stay as
  they were.
* `Straightened`: until the last operator that makes pipes, nobody touches `out`
  (`Strict`); behind it the number is closed, or holds what was copied, or is an
  end of the pipe of the present stage, which is closed again before the line ends
  (`OutIs`). The order of `||` and of further pipes (`LastFork`) is what this
  needs: behind a `||` that is not the last a stage may take the number of the
  output and keep it.

While this was proved, two statements turned out too strong, and TLC shows why:
that every prompt has the keyboard and the screen fails in the shell that
`cd < file` starts, and for a pipe behind a `||`; that the copy loop goes on fails
for lines such as `cd | cd | |`, in which an operator has no stage in front of
it, and in a shell whose output an earlier bad line left to be a pipe. The
properties now say for which lines they hold (`LastFork`, `Joined`, and an output
that is the screen or a file).

`CopyGoesOn` says that the shell does not wait for itself. It follows from

    Flowing == Piping /\ Good => AtLoop /\ AtStage /\ AtCopy /\ ToCome

each at its place in the loop, where `Good` is the condition on the line and the
output, with no descriptor refused. `AtStage`: the shell has both ends of the pipe that the
stage writes into, and the only copy of its write end, so that behind `wait` and
`close` the pipe is at its end once it is empty. `AtCopy`: what is read has no writer
any more, what is written has a reader, and the two pipes together hold no more
than one (`PipeCap`): the new one was made empty, and a block that is copied leaves the other.
The reader of the new pipe is not among the descriptors that are closed with the
loop, so `AtLoop` finds it open. `ToCome` says that the stages ahead have no
descriptors yet, but those of a `||` the output. TLC checked the invariants with broad
sets of lines before they were proved.

### What stays with TLC

* Liveness (`AttendedMailSettles`, `BroadcastIsSpread`, `RequestIsServed`,
  `RequestReturns`, `RequestTakesEffect`, `LineEnds`, `EchoEnds`,
  `ThreadsEnd`, `SelectEnds`): the prover has neither fairness arguments nor ENABLED.
* Shell: `ShowsResult`, `OverfullNeedsInterrupt` and `LeaksPerLine` speak of what a
  line of any length means (`Typed`, `Flow`, `Shown`), which is defined by folds
  and `SelectSeq` over the line. To prove them one would relate the blocks in the pipes to
  such a fold at every stage, an induction over the data of the line on top of
  those for `Split` and `Parse`; it has not been tried.
* The duplicate registration, a counterexample.

## 5. Abstractions

* Names, passwords and texts are model values; a struct copy is torn only
  between password and `user_id`, as only these are compared or sent.
* Chat (ChatSession): a request is one record of a code and a payload and one is in flight per
  connection (the client waits a second between two); a torn request is a code
  whose client dies before the payload. The password is right (`Login`) or not
  (`Refuse`). "Delivered" means that the text reached the client's kernel. All
  messages have `sizeof(struct mymsg_buf)` bytes, so the byte limit of the queue
  (51 such messages on Linux) is a number of messages, scaled to `QueueCap`.
  The listener is taken to run `getppid` before its parent can die. The server
  is not run as root, so that `kill` of process 1 fails. `kill(pid, 0)` finds
  a zombie, and main never waits.
* Chat (ChatWire): the second user exists but has no session in the module, the
  online flags stay, and a queue that is full is ChatSession's matter. A send
  arrives whole and sums of strings stay below the 256 bytes of a `recv`, as the
  bounds are small; sleeps are arbitrary delays. Names begin with a letter and
  hold neither `;` nor spaces, and a text is unlike any name or code. A text is
  empty or one word; one with a `;`, of which the code keeps what is before it, and
  a line longer than the 99 bytes that `fgets` takes are not modelled. The listener's view of a server
  that has stopped (a `recv` of 0 for ever) is left out.
* Shell: data are blocks of which a pipe holds `PipeCap`; a block is read and
  written whole. Programs are filters that read to the end before they write, or
  write without reading. Files are empty and the keyboard offers a program only
  its end. Fresh memory is zero. The editing of a line (echo, backspace,
  Ctrl+L) is left out; a completion is the descriptor that it takes.
* Echo: the count, file and buffers are amounts; a `recv` or a blocking send
  takes any part of what is there. What the non-blocking client prints from a
  buffer that it never writes (`nonblockingio.c:109`), and the zero behind a full
  buffer of 1024 (`twoprocesses.c:87`), are left out.
* The stores through `buffer[-1]` after a failed `recv`, and reads and writes
  beyond a struct by a `sizeof` of another, are left out: their effects depend
  on the stack layout and no property speaks of them.
* Bus: records of 212 bytes come whole over the loopback; replies never block;
  a multicast datagram reaches the machine's own socket or is lost; other
  machines only send. The listening socket, which the pass also "receives" from
  (`local_server.c:119-126`), gets an error and a shutdown without effect. The
  stale `send_msg` is whatever it was or garbage.
* Download: sizes are chunks and parts of chunks. The select client's count is 2 for
  a chunk and 1 for each of two parts; the threads' is of 3 for a chunk, of which 1
  is what the copy cuts off, whatever the number of digits: only that it is
  something matters. The `strcpy` of line 56 overlaps its source, which C leaves
  undefined; it is taken to copy forward. File contents have no
  zero and no `;`, as the generated file has none. `data_gb` is 1.0, with which the
  progress count is exact.
* Bounds, each a constant: `MaxMail`, `MaxMsgs`, `MaxAsks`, `MaxLines`,
  `MaxNest`, `NumFds`, `PipeCap`, `UpCap`, `DownCap`, `NumMessages`, `Marks`,
  `NumConns`, `NumChunks`, `Senders`, `Leavers`, `Mortal`, `MainFails`.

## 6. Not modelled

* The DNS client: one process that sends one query and reads one answer; what can
  go wrong in it is the layout of a packet, which has no states.
* The skeletons of assignment 3 (`sender.c`, `recvr.c`, `udp_*.c`, `tcpserver.c`,
  `tcpclient.c`) from which the bus grew and which no program of it contains.
* Set-up of sockets and of IPC, generation of the file for the download, all
  formatting, timing and throughput, and the archives.

## 7. Plan

Done, in this order, the most shared state first: UserRegistry and its proofs;
ChatSession with MailService; MessageBus with MailDrop; Stripes with its clients;
Shell; ChatWire with RequestChannel; EchoRelay and its proofs.

Then the proofs of ChatSession and of its refinement, of Stripes and both clients,
of MessageBus and its refinement, of ChatWire, its refinement and its way back, and
of Shell: its types, its terminal and its copy loop.

Open: `ShowsResult`, `OverfullNeedsInterrupt` and `LeaksPerLine` for lines of any length.
