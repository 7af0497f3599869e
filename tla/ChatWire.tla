------------------------------ MODULE ChatWire ------------------------------
(***************************************************************************)
(* The bytes between the chat client (tcpclient.c) and its handler in the  *)
(* server (tcpserver.c).  Neither side marks where a message ends: a recv  *)
(* returns what several sends have put into the stream, and what comes     *)
(* then depends on the parser.                                             *)
(*                                                                         *)
(* A string is a sequence of the tokens between the ";", a token a         *)
(* sequence of words, one unless two sends have run together or none was   *)
(* typed: then the string ends in a ";", and an empty token behind it.     *)
(***************************************************************************)
EXTENDS Naturals, SequencesExt

CONSTANTS Table,      \* the users, in the order of the table
          Me,         \* the user whose session it is
          Online,     \* those whose online_status is set
          Unknown,    \* a name that nobody has
          Orders,     \* the requests of the menu: [oper, name, blank], where a
                      \* message is blank if only Enter was pressed for its text
          MaxAsks,    \* bound: requests of the session, of a user who waits
                      \* until the server has read all, and of one who does not
          MaxMail     \* bound: messages that come in

Users == Range(Table)

ASSUME WireAssumption ==
    /\ Table \in Seq(Users)
    /\ Me \in Users /\ Online \subseteq Users /\ Unknown \notin Users
    /\ Orders \subseteq [oper : 1..6, name : Users \cup {Unknown}, blank : BOOLEAN]
    /\ MaxAsks \in [BOOLEAN -> Nat] /\ MaxMail \in Nat

\* Words.  The number n of the request stands with a code and with a text, and
\* that of the message with a text that comes in, by which each is unlike every
\* other; for the rest it is 0.
Digit(d, n) == <<"digit", d, n>>
Name(u) == <<"name", u, 0>>
Key(k) == <<"key", k, 0>>
Text(n) == <<"text", "", n>>

\* A string of which no two words have run together.
Str(words) == [k \in DOMAIN words |-> <<words[k]>>]

VARIABLES
    patient,   \* whether the user of this session waits
    up, down,  \* the strings sent and not yet read, to the server and back
    cpc,       \* where the client is
    shows,     \* whether its listener is there
    asked,     \* the requests made
    hpc,       \* where the handler is
    oper,      \* the code it read, with its request
    hline,     \* the line of the status report it sends next
    forwards,  \* whether the listener in the server is there
    mail,      \* the messages that came in
    sent,      \* history: what the client would print of each string sent,
    shown,     \* what it printed, and
    done       \* what took effect

clientVars == <<patient, cpc, shows, asked, shown>>
handlerVars == <<hpc, oper, hline, forwards, mail, done>>
vars == <<up, down, sent, clientVars, handlerVars>>

-----------------------------------------------------------------------------
(* The stream. *)

\* The last token of x and the first of y are one.
Join(x, y) == IF x = << >> THEN y
              ELSE Front(x) \o <<Last(x) \o Head(y)>> \o Tail(y)

\* The first k sends, in one recv.
Together(stream, k) ==
    LET read[n \in 0..k] == IF n = 0 THEN << >> ELSE Join(read[n - 1], stream[n])
    IN read[k]
Behind(stream, k) == SubSeq(stream, k + 1, Len(stream))

\* atoi: the digits in front; what follows them begins with a letter.
Atoi(token) == IF Head(token)[1] = "digit" THEN Head(token)[2] ELSE 0

Is(token, k) == token = <<Key(k)>>

\* Mutant of Value: a number must be all of its token.
ValueExact(token) == IF Len(token) = 1 THEN Atoi(token) ELSE 0

Value(token) == Atoi(token)

\* handle_output: what is printed of a string.  A text is printed with what has
\* run into it, a number is read without.
Output(x) ==
    CASE Is(x[1], "inc_msg")  -> <<"message", x[2], x[3]>>
      [] Is(x[1], "msgack")   -> <<"ack", Value(x[2])>>
      [] Is(x[1], "userstat") -> <<"user", x[2], Value(x[4])>>
      [] Is(x[1], "statcnt")  -> <<"users", Value(x[2])>>
      [] OTHER                -> << >>

Printed(log, x) == IF Output(x) = << >> THEN log ELSE Append(log, Output(x))

-----------------------------------------------------------------------------
(* The client: tcpclient.c. *)

Init ==
    /\ patient \in BOOLEAN
    /\ up = << >> /\ down = << >>
    /\ cpc = "start" /\ shows = FALSE /\ asked = << >>
    /\ hpc = "mode" /\ oper = <<0, 0>> /\ hline = 1
    /\ forwards = FALSE /\ mail = 0
    /\ sent = << >> /\ shown = << >> /\ done = << >>

\* The handler has read all that was sent and is in a recv again, or is gone.
AtRest == \/ up = << >> /\ hpc \in {"mode", "details", "oper", "argument"}
          \/ hpc \in {"exited", "dead"}

Waits == patient => AtRest

\* New user, login, exit.
Start ==
    /\ cpc = "start"
    /\ \E mode \in 1..3 :
         IF mode = 3 THEN cpc' = "gone" /\ UNCHANGED up
         ELSE cpc' = "details" /\ up' = Append(up, Str(<<Digit(mode, 0)>>))
    /\ UNCHANGED <<patient, down, sent, shows, asked, shown, handlerVars>>

\* Name and password, or the details of a new user.
Identify ==
    /\ cpc = "details" /\ Waits
    /\ up' = Append(up, Str(<<Name(Me), Key("password")>>))
    /\ cpc' = "reply"
    /\ UNCHANGED <<patient, down, sent, shows, asked, shown, handlerVars>>

\* The verdict.  The client knows for itself whether it has asked for a login.
Verdict ==
    /\ cpc = "reply" /\ down # << >>
    /\ \E k \in DOMAIN down :
         LET x == Together(down, k)
         IN /\ down' = Behind(down, k)
            /\ cpc' = IF Is(x[1], "verusr") /\ Atoi(x[2]) = 1 THEN "greeting" ELSE "gone"
    /\ UNCHANGED <<patient, up, sent, shows, asked, shown, handlerVars>>

Greeting ==
    /\ cpc = "greeting" /\ down # << >>
    /\ \E k \in DOMAIN down : down' = Behind(down, k)
    /\ cpc' = "menu" /\ shows' = TRUE
    /\ UNCHANGED <<patient, up, sent, asked, shown, handlerVars>>

\* The code of a request; the last one closes the connection.
Order ==
    /\ cpc = "menu" /\ Len(asked) < MaxAsks[patient] /\ Waits
    /\ \E r \in Orders :
         /\ asked' = Append(asked, r)
         /\ up' = Append(up, Str(<<Digit(r.oper, Len(asked) + 1)>>))
         /\ IF r.oper = 6 THEN cpc' = "gone" /\ shows' = FALSE /\ down' = << >>
                          ELSE cpc' = "argument" /\ UNCHANGED <<shows, down>>
    /\ UNCHANGED <<patient, sent, shown, handlerVars>>

\* The line typed for a text, without its end.
Typed(n) == IF asked[n].blank THEN << >> ELSE <<Text(n)>>

Argument(n) ==
    LET r == asked[n]
    IN CASE r.oper = 1 -> <<<<Name(Me)>>, <<Name(r.name)>>, Typed(n)>>
         [] r.oper = 2 -> <<<<Name(Me)>>, <<Key("broadcast")>>, Typed(n)>>
         [] r.oper = 3 -> Str(<<Key("getstatus")>>)
         [] r.oper = 4 -> Str(<<Key("block"), Name(r.name)>>)
         [] r.oper = 5 -> Str(<<Key("unblock"), Name(r.name)>>)

\* What the user types next; but "getstatus" is not typed.
Fill ==
    /\ cpc = "argument" /\ (Last(asked).oper # 3 => Waits)
    /\ up' = Append(up, Argument(Len(asked)))
    /\ cpc' = "menu"
    /\ UNCHANGED <<patient, down, sent, shows, asked, shown, handlerVars>>

\* The listener of the client.
Show ==
    /\ shows /\ down # << >>
    /\ \E k \in DOMAIN down :
         /\ shown' = Printed(shown, Together(down, k))
         /\ down' = Behind(down, k)
    /\ UNCHANGED <<patient, up, sent, cpc, shows, asked, handlerVars>>

Client == Start \/ Identify \/ Verdict \/ Greeting \/ Order \/ Fill \/ Show

-----------------------------------------------------------------------------
(* The handler: handle_client of tcpserver.c. *)

\* What a recv may return, and what it leaves: nothing behind the client's end.
Reads ==
    {<<Together(up, k), Behind(up, k)>> : k \in DOMAIN up}
    \cup IF up = << >> /\ cpc = "gone" THEN {<<up, up>>} ELSE {}

\* A send to a client that is gone may be fatal.
Reply(words, next) ==
    IF cpc # "gone"
    THEN /\ down' = Append(down, Str(words)) /\ sent' = Printed(sent, Str(words))
         /\ hpc' = next
    ELSE hpc' \in {next, "dead"} /\ UNCHANGED <<down, sent>>

\* Mutant of Code: what is no number leaves the old code.
CodeKept(x) == IF x = << >> \/ Atoi(x[1]) = 0 THEN oper ELSE <<Atoi(x[1]), Head(x[1])[3]>>

\* The code in front of a string and its request; no number is 0.
Code(x) == IF x = << >> \/ Atoi(x[1]) = 0 THEN <<0, 0>> ELSE <<Atoi(x[1]), Head(x[1])[3]>>

ReadMode ==
    /\ hpc = "mode"
    /\ \E read \in Reads :
         /\ up' = read[2]
         /\ oper' = Code(read[1])
         /\ hpc' = IF Code(read[1])[1] \in {1, 2} THEN "details" ELSE "exited"
    /\ UNCHANGED <<down, sent, clientVars, hline, forwards, mail, done>>

\* create_new_user or verify_user, and the answer.
Verify ==
    /\ hpc = "details"
    /\ \E read \in Reads, verdict \in {1, 2} :
         /\ up' = read[2]
         /\ IF oper[1] = 1 THEN Reply(<<Key("createuser"), Digit(verdict, 0)>>, "exited")
            ELSE Reply(<<Key("verusr"), Digit(verdict, 0)>>,
                       IF verdict = 1 THEN "welcome" ELSE "exited")
    /\ UNCHANGED <<clientVars, oper, hline, forwards, mail, done>>

Welcome ==
    /\ hpc = "welcome"
    /\ Reply(<<Key("welcome")>>, "oper")
    /\ forwards' = TRUE
    /\ UNCHANGED <<up, clientVars, oper, hline, mail, done>>

Effect(code, words) == done' = Append(done, [code |-> code[1], of |-> code[2], words |-> words])

\* Mutant of HasArgument: there is no branch for blocking.
HasArgumentFew(code) == code \in 1..3

HasArgument(code) == code \in 1..5

\* The next code; 6 ends the session, and what is no code is passed over.
ReadOper ==
    /\ hpc = "oper"
    /\ \E read \in Reads :
         /\ up' = read[2]
         /\ oper' = Code(read[1])
         /\ IF Code(read[1])[1] = 6
            THEN hpc' = "exited" /\ forwards' = FALSE /\ Effect(Code(read[1]), << >>)
            ELSE /\ hpc' = IF HasArgument(Code(read[1])[1]) THEN "argument" ELSE hpc
                 /\ UNCHANGED <<forwards, done>>
    /\ UNCHANGED <<down, sent, clientVars, hline, mail>>

Find(token) == IF Len(token) = 1 /\ Head(token)[1] = "name" /\ Head(token)[2] \in Users
               THEN Head(token)[2] ELSE Unknown

\* A string without the tokens that strtok is asked for, among them one that is
\* empty, or from or about nobody.
Crash == hpc' = "dead" /\ UNCHANGED <<down, sent, done>>

\* Operations 1 and 2.
TakeMessage(x) ==
    /\ UNCHANGED hline
    /\ LET to == IF oper[1] = 2 THEN <<Key("broadcast")>> ELSE x[2]
           found == oper[1] = 2 \/ Find(x[2]) # Unknown
       IN IF Len(x) >= 3 /\ x[3] # << >> /\ (found => Find(x[1]) # Unknown)
          THEN /\ Reply(<<Key("msgack"), Digit(IF found THEN 1 ELSE 2, 0)>>, "oper")
               /\ Effect(oper, <<x[1], to, x[3]>>)
          ELSE Crash

\* Operation 3: nobody looks at what came with it.
TakeStatus ==
    /\ hline' = 1
    /\ Reply(<<Key("statcnt"), Digit(Len(Table), 0)>>, "report")
    /\ Effect(oper, << >>)

\* Mutant of TakeBlock: the name is taken from the first token.
TakeBlockFirst(x) ==
    /\ UNCHANGED hline
    /\ IF x # << >> /\ Find(x[1]) # Unknown
       THEN hpc' = "oper" /\ Effect(oper, <<x[1]>>) /\ UNCHANGED <<down, sent>>
       ELSE Crash

\* Operations 4 and 5.
TakeBlock(x) ==
    /\ UNCHANGED hline
    /\ IF Len(x) >= 2 /\ Find(x[2]) # Unknown
       THEN hpc' = "oper" /\ Effect(oper, <<x[2]>>) /\ UNCHANGED <<down, sent>>
       ELSE Crash

ReadArgument ==
    /\ hpc = "argument"
    /\ \E read \in Reads :
         /\ up' = read[2]
         /\ \/ oper[1] \in {1, 2} /\ TakeMessage(read[1])
            \/ oper[1] = 3 /\ TakeStatus
            \/ oper[1] \in {4, 5} /\ TakeBlock(read[1])
    /\ UNCHANGED <<clientVars, oper, forwards, mail>>

\* A line for each user, and the end.
ReportLine ==
    /\ hpc = "report"
    /\ IF hline <= Len(Table)
       THEN Reply(<<Key("userstat"), Name(Table[hline]), Key("full name"),
                    Digit(IF Table[hline] \in Online THEN 1 ELSE 0, 0)>>, "report")
       ELSE Reply(<<Key("gibber")>>, "oper")
    /\ hline' = hline + 1
    /\ UNCHANGED <<up, clientVars, oper, forwards, mail, done>>

Handler == ReadMode \/ Verify \/ Welcome \/ ReadOper \/ ReadArgument \/ ReportLine

\* The listener of the server, which sends on the same socket.
Forward ==
    /\ forwards /\ mail < MaxMail
    /\ mail' = mail + 1
    /\ IF cpc # "gone"
       THEN /\ \E u \in Users :
                 LET words == <<Key("inc_msg"), Name(u), Text(mail + 1)>>
                 IN down' = Append(down, Str(words)) /\ sent' = Printed(sent, Str(words))
            /\ UNCHANGED forwards
       ELSE forwards' \in BOOLEAN /\ UNCHANGED <<down, sent>>
    /\ UNCHANGED <<up, clientVars, hpc, oper, hline, done>>

Next == Client \/ Handler \/ Forward

Spec == Init /\ [][Next]_vars

\* The handler is a process that is scheduled; the user promises nothing.
FairSpec == Spec /\ WF_vars(Handler)
-----------------------------------------------------------------------------
TypeOK ==
    /\ patient \in BOOLEAN
    /\ cpc \in {"start", "details", "reply", "greeting", "menu", "argument", "gone"}
    /\ hpc \in {"mode", "details", "welcome", "oper", "argument", "report", "exited", "dead"}
    /\ asked \in Seq(Orders) /\ Len(asked) <= MaxAsks[patient]
    /\ oper \in (0..6) \X (0..MaxAsks[patient])
    /\ hline \in 1..(Len(Table) + 2)
    /\ shows \in BOOLEAN /\ forwards \in BOOLEAN /\ mail \in 0..MaxMail

\* What took effect is what request n asks for.
Means(effect) ==
    LET n == effect.of
    IN /\ n \in DOMAIN asked /\ effect.code = asked[n].oper
       /\ CASE effect.code \in {1, 2} -> effect.words = Argument(n)
            [] effect.code \in {4, 5} -> effect.words = <<Argument(n)[2]>>
            [] OTHER -> TRUE

\* Of a user who waits, requests take effect in order, once and unchanged, and
\* only one right behind a status report is passed over (RequestChannel).
Channel == INSTANCE RequestChannel WITH
    IsStatus <- LAMBDA r : r.oper = 3,
    asked <- IF patient THEN asked ELSE << >>,
    served <- IF ~patient THEN << >>
              ELSE [k \in DOMAIN done |-> IF Means(done[k]) THEN done[k].of ELSE 0]

RequestsInStep == Channel!Spec

\* A request that decode_msg or the branches for blocking do not survive.
Fatal(r) == \/ r.oper \in {1, 2} /\ r.blank
            \/ r.oper \in {4, 5} /\ r.name = Unknown

\* The handler of a user who waits survives her session, unless she has sent an
\* empty text, or blocked or unblocked somebody who does not exist.
HandlerSurvives ==
    patient /\ hpc = "dead" => cpc = "gone" \/ \E n \in DOMAIN asked : Fatal(asked[n])

\* The line is printed of a string that alone would print the other: only to
\* the text of a message something may be added, and no more than the words
\* that the next strings begin with.
Fits(line, whole) ==
    \/ line = whole
    \/ /\ line[1] = "message" /\ whole[1] = "message" /\ line[2] = whole[2]
       /\ IsPrefix(whole[3], line[3])
       /\ \A k \in DOMAIN line[3] \ DOMAIN whole[3] : line[3][k][1] = "key"

\* s is what is left of t when some of it is lost, and each of the rest fits.
FitsInto(s, t) ==
    LET found[n \in 0..Len(t)] ==
            IF n = 0 THEN 0
            ELSE LET k == found[n - 1]
                 IN IF k < Len(s) /\ Fits(s[k + 1], t[n]) THEN k + 1 ELSE k
    IN found[Len(t)] = Len(s)

\* However replies and mail run together on their way, and whether or not the
\* user waits, the client prints nothing that was not sent, and nothing in
\* another order or with another name, number or verdict.  Some lines are lost,
\* and the text of a message may have the first words of the strings behind it
\* at its end: "hi" with "statcnt;2" is printed as "histatcnt".
PrintsWhatWasSent == FitsInto(shown, sent)

\* The request of a user who waits takes effect, unless it is a status report
\* or right behind one, or one that the handler does not survive was made.
RequestTakesEffect ==
    \A n \in 1..MaxAsks[TRUE] :
        patient /\ Len(asked) = n /\ cpc = "menu"
            ~> \/ \E k \in DOMAIN done : done[k].of = n
               \/ \E m \in {n - 1, n} \cap DOMAIN asked : asked[m].oper = 3
               \/ \E m \in 1..n \cap DOMAIN asked : Fatal(asked[m])
=============================================================================
