---------------------------- MODULE ChatWireProofs ----------------------------
(***************************************************************************)
(* First, the session of a user who waits, for any menu, table of users,   *)
(* number of requests and of incoming messages.  She types only when the   *)
(* handler has read everything, so at most the code and the argument of    *)
(* her last request are on their way; and she can be a step ahead of the   *)
(* handler only behind a status report, whose argument she does not type:  *)
(* the handler then takes the code of her next request for it.             *)
(*                                                                         *)
(* Then, the way back to any user, on which any number of strings may run  *)
(* together.                                                               *)
(***************************************************************************)
EXTENDS ChatWire, SequenceTheorems, WellFoundedInduction, TLAPS

\* The last request, and the code of request n as it is sent.
Latest == Len(asked)
CodeOf(n) == Str(<<Digit(asked[n].oper, n)>>)

\* Request n was made right behind a status report.
BehindReport(n) == n > 1 /\ asked[n - 1].oper = 3

\* The last request that took effect; those behind it up to n may be passed over.
LastDone == IF done = << >> THEN 0 ELSE done[Len(done)].of
Passed(n) ==
    /\ LastDone <= n
    /\ \A m \in 1..Latest : LastDone < m /\ m <= n => BehindReport(m)

\* The handler has the code of request n and is about to read the argument.
Expects(n) ==
    /\ n \in 1..Latest
    /\ hpc = "argument" /\ oper = <<asked[n].oper, n>>
    /\ Passed(n - 1)

\* It is about to take what comes for the argument of the report before
\* request n.
ExpectsReport(n) == BehindReport(n) /\ Expects(n - 1)

\* It goes on to the next code, and request n is done or passed over.
Resumes(n) == hpc \in {"oper", "report"} /\ Passed(n)
Skips(n) == BehindReport(n) /\ Resumes(n)

\* Before the first request.
Entering ==
    \/ hpc = "mode" /\ cpc \in {"start", "gone"} /\ up = << >>
    \/ hpc = "mode" /\ cpc = "details" /\ \E m \in 1..2 : up = <<Str(<<Digit(m, 0)>>)>>
    \/ hpc = "details" /\ cpc = "details" /\ up = << >>
    \/ /\ hpc = "details" /\ cpc \notin {"start", "details"}
       /\ up = <<Str(<<Name(Me), Key("password")>>)>>
    \/ hpc \in {"welcome", "oper"} /\ cpc \notin {"start", "details"} /\ up = << >>

\* Request n is the last one, and its code is on its way.
Unread(n) ==
    /\ \/ up = <<CodeOf(n)>> /\ cpc \in {"argument", "gone"}
       \/ /\ cpc = "menu" /\ asked[n].oper = 3
          /\ up = <<CodeOf(n), Argument(n)>>
    /\ \/ hpc = "oper" /\ Passed(n - 1)
       \/ ExpectsReport(n)

\* Its argument is, alone.
Halfway(n) ==
    /\ cpc = "menu" /\ up = <<Argument(n)>>
    /\ Expects(n) \/ Skips(n)

\* The handler has read everything.
ReadAll(n) ==
    /\ up = << >>
    /\ \/ cpc = "argument" /\ (Expects(n) \/ Skips(n))
       \/ cpc = "menu" /\ asked[n].oper = 3 /\ Expects(n)
       \/ cpc = "menu" /\ Resumes(n)
       \/ cpc = "gone" /\ Skips(n)

\* What took effect is what was asked for.
Honest == done \in Seq(Range(done)) /\ \A k \in DOMAIN done : Means(done[k])

\* How far the two are apart.
Position ==
    hpc \notin {"exited", "dead"} =>
        IF asked = << >> THEN Entering
        ELSE \E n \in {Latest} : Unread(n) \/ Halfway(n) \/ ReadAll(n)

\* The inductive invariant.
WaitsInv == patient =>
    /\ asked \in Seq(Orders)
    /\ cpc \in {"menu", "argument", "gone"} \/ asked = << >>
    /\ cpc = "argument" => asked # << >>
    /\ asked # << >> => (cpc = "gone" <=> asked[Latest].oper = 6)
    /\ Honest /\ LastDone <= Latest
    /\ HandlerSurvives
    /\ Position

-----------------------------------------------------------------------------
(* Strings. *)

\* Sequences of one and of two elements.
LEMMA ShortSeqs ==
    ASSUME NEW S, NEW q \in Seq(S)
    PROVE  /\ Len(q) = 1 => q = <<q[1]>>
           /\ Len(q) = 2 => q = <<q[1], q[2]>>
    OBVIOUS

\* Strings of one to three words.
LEMMA StrIs ==
    /\ \A a : Str(<<a>>) = <<<<a>>>>
    /\ \A a, b : Str(<<a, b>>) = <<<<a>>, <<b>>>>
    /\ \A a, b, c : Str(<<a, b, c>>) = <<<<a>>, <<b>>, <<c>>>>
    BY DEF Str

\* Nothing in front of a string.
LEMMA JoinNone == ASSUME NEW x PROVE Join(<< >>, x) = x
    BY DEF Join

\* One send in a recv.
LEMMA TogetherOne ==
    ASSUME NEW s, NEW x, s[1] = x
    PROVE  Together(s, 1) = x
<1> DEFINE f == [n \in 0..1 |-> IF n = 0 THEN << >> ELSE x]
           R(g) == g = [n \in 0..1 |-> IF n = 0 THEN << >> ELSE Join(g[n - 1], s[n])]
<1>1. R(f)
    BY JoinNone
<1>2. ASSUME NEW g, R(g)
      PROVE  g[1] = x
    <2>1. g[0] = << >> /\ g[1] = Join(g[0], s[1])
        BY <1>2
    <2> QED
        BY <2>1, JoinNone
<1>3. Together(s, 1) = (CHOOSE g : R(g))[1]
    BY DEF Together
<1> HIDE DEF R
<1>4. R(CHOOSE g : R(g))
    BY <1>1
<1> QED
    BY <1>2, <1>3, <1>4

\* Two sends in a recv.
LEMMA TogetherTwo ==
    ASSUME NEW s, NEW x, NEW y, s[1] = x, s[2] = y
    PROVE  Together(s, 2) = Join(x, y)
<1> DEFINE f == [n \in 0..2 |-> IF n = 0 THEN << >> ELSE IF n = 1 THEN x ELSE Join(x, y)]
           R(g) == g = [n \in 0..2 |-> IF n = 0 THEN << >> ELSE Join(g[n - 1], s[n])]
<1>1. R(f)
    <2>1. \A n \in 0..2 : f[n] = IF n = 0 THEN << >> ELSE Join(f[n - 1], s[n])
        BY JoinNone
    <2> QED
        BY <2>1
<1>2. ASSUME NEW g, R(g)
      PROVE  g[2] = Join(x, y)
    <2>1. g[0] = << >> /\ g[1] = Join(g[0], s[1]) /\ g[2] = Join(g[1], s[2])
        BY <1>2
    <2> QED
        BY <2>1, JoinNone
<1>3. Together(s, 2) = (CHOOSE g : R(g))[2]
    BY DEF Together
<1> HIDE DEF R
<1>4. R(CHOOSE g : R(g))
    BY <1>1
<1> QED
    BY <1>2, <1>3, <1>4

\* What the handler can read when nothing, one string or two are on their way.
LEMMA ReadsNone ==
    ASSUME up = << >>, NEW read \in Reads
    PROVE  cpc = "gone" /\ read[1] = << >> /\ read[2] = << >>
<1>1. DOMAIN up = {}
    OBVIOUS
<1> QED
    BY <1>1 DEF Reads

LEMMA ReadsOne ==
    ASSUME NEW x, up = <<x>>, NEW read \in Reads
    PROVE  read[1] = x /\ read[2] = << >>
<1>1. DOMAIN up = {1} /\ up # << >> /\ up[1] = x
    OBVIOUS
<1>2. read = <<Together(up, 1), Behind(up, 1)>>
    BY <1>1 DEF Reads
<1>3. Behind(up, 1) = << >>
    BY DEF Behind
<1>4. Together(up, 1) = x
    BY <1>1, TogetherOne
<1> QED
    BY <1>2, <1>3, <1>4

LEMMA ReadsTwo ==
    ASSUME NEW x, NEW y, up = <<x, y>>, NEW read \in Reads
    PROVE  \/ read[1] = x /\ read[2] = <<y>>
           \/ read[1] = Join(x, y) /\ read[2] = << >>
<1>1. DOMAIN up = {1, 2} /\ up # << >> /\ up[1] = x /\ up[2] = y
    OBVIOUS
<1>2. \/ read = <<Together(up, 1), Behind(up, 1)>>
      \/ read = <<Together(up, 2), Behind(up, 2)>>
    BY <1>1 DEF Reads
<1>3. Behind(up, 1) = <<y>> /\ Behind(up, 2) = << >>
    <2> DEFINE q == SubSeq(<<x, y>>, 2, 2)
    <2>0. /\ <<x, y>> \in Seq({x, y}) /\ Len(<<x, y>>) = 2
          /\ q \in Seq({x, y}) /\ Len(q) = 1 /\ q[1] = y
        OBVIOUS
    <2> HIDE DEF q
    <2>1. Len(<<x, y>>) = 2 /\ SubSeq(<<x, y>>, 1 + 1, 2) = <<y>>
        <3>1. q = <<y>>
            BY <2>0, ShortSeqs
        <3> QED
            BY <2>0, <3>1 DEF q
    <2>2. SubSeq(<<x, y>>, 2 + 1, 2) = << >>
        OBVIOUS
    <2> QED
        BY <2>1, <2>2 DEF Behind
<1>4. Together(up, 1) = x /\ Together(up, 2) = Join(x, y)
    BY <1>1, TogetherOne, TogetherTwo
<1> QED
    BY <1>2, <1>3, <1>4

\* Codes, alone and with the argument of a report that has run into them.
LEMMA CodeIs ==
    /\ Code(<< >>) = <<0, 0>>
    /\ \A d \in 1..6 : \A n : Code(<<<<Digit(d, n)>>>>) = <<d, n>>
    /\ \A d \in 1..6 : \A n : \A w :
          Code(Join(<<<<Digit(d, n)>>>>, <<<<w>>>>)) = <<d, n>>
<1>1. ASSUME NEW d \in 1..6, NEW n
      PROVE  Code(<<<<Digit(d, n)>>>>) = <<d, n>>
    BY DEF Code, Atoi, Digit
<1>2. ASSUME NEW d \in 1..6, NEW n, NEW w
      PROVE  Code(Join(<<<<Digit(d, n)>>>>, <<<<w>>>>)) = <<d, n>>
    <2>1. Join(<<<<Digit(d, n)>>>>, <<<<w>>>>) = <<<<Digit(d, n), w>>>>
        <3> DEFINE a == <<Digit(d, n)>>
                   b == <<w>>
        <3>1. a \o b = <<Digit(d, n), w>>
            <4> DEFINE v == Digit(d, n)
                       q == <<v>> \o <<w>>
            <4>1. q \in Seq({v, w}) /\ Len(q) = 2 /\ q[1] = v /\ q[2] = w
                OBVIOUS
            <4> HIDE DEF q, v
            <4>2. q = <<v, w>>
                BY <4>1, ShortSeqs
            <4> QED
                BY <4>2 DEF q, v
        <3> HIDE DEF a, b
        <3>2. Front(<<a>>) = << >> /\ Last(<<a>>) = a /\ <<a>> # << >>
            BY DEF Front, Last
        <3>3. Head(<<b>>) = b /\ Tail(<<b>>) = << >>
            OBVIOUS
        <3>4. Join(<<a>>, <<b>>) = << >> \o <<a \o b>> \o << >>
            BY <3>2, <3>3 DEF Join
        <3> DEFINE c == a \o b
        <3> HIDE DEF c
        <3>5. << >> \o <<c>> \o << >> = <<c>>
            OBVIOUS
        <3> QED
            BY <3>1, <3>4, <3>5 DEF a, b, c
    <2> QED
        BY <2>1 DEF Code, Atoi, Digit
<1> QED
    BY <1>1, <1>2 DEF Code

\* The argument of each request, which is no code.
LEMMA ArgumentIs ==
    ASSUME NEW n, asked[n].oper \in 1..5
    PROVE  /\ asked[n].oper = 1 =>
                Argument(n) = <<<<Name(Me)>>, <<Name(asked[n].name)>>, Typed(n)>>
           /\ asked[n].oper = 2 =>
                Argument(n) = <<<<Name(Me)>>, <<Key("broadcast")>>, Typed(n)>>
           /\ asked[n].oper = 3 => Argument(n) = <<<<Key("getstatus")>>>>
           /\ asked[n].oper = 4 =>
                Argument(n) = <<<<Key("block")>>, <<Name(asked[n].name)>>>>
           /\ asked[n].oper = 5 =>
                Argument(n) = <<<<Key("unblock")>>, <<Name(asked[n].name)>>>>
           /\ Code(Argument(n)) = <<0, 0>>
<1>1. /\ asked[n].oper = 1 =>
            Argument(n) = <<<<Name(Me)>>, <<Name(asked[n].name)>>, Typed(n)>>
      /\ asked[n].oper = 2 =>
            Argument(n) = <<<<Name(Me)>>, <<Key("broadcast")>>, Typed(n)>>
      /\ asked[n].oper = 3 => Argument(n) = <<<<Key("getstatus")>>>>
      /\ asked[n].oper = 4 =>
            Argument(n) = <<<<Key("block")>>, <<Name(asked[n].name)>>>>
      /\ asked[n].oper = 5 =>
            Argument(n) = <<<<Key("unblock")>>, <<Name(asked[n].name)>>>>
    <2> DEFINE s1 == <<<<Name(Me)>>, <<Name(asked[n].name)>>, Typed(n)>>
               s2 == <<<<Name(Me)>>, <<Key("broadcast")>>, Typed(n)>>
               s3 == Str(<<Key("getstatus")>>)
               s4 == Str(<<Key("block"), Name(asked[n].name)>>)
               s5 == Str(<<Key("unblock"), Name(asked[n].name)>>)
    <2>1. /\ s1 = <<<<Name(Me)>>, <<Name(asked[n].name)>>, Typed(n)>>
          /\ s2 = <<<<Name(Me)>>, <<Key("broadcast")>>, Typed(n)>>
          /\ s3 = <<<<Key("getstatus")>>>>
          /\ s4 = <<<<Key("block")>>, <<Name(asked[n].name)>>>>
          /\ s5 = <<<<Key("unblock")>>, <<Name(asked[n].name)>>>>
        BY StrIs
    <2>2. /\ asked[n].oper = 1 => Argument(n) = s1
          /\ asked[n].oper = 2 => Argument(n) = s2
          /\ asked[n].oper = 3 => Argument(n) = s3
          /\ asked[n].oper = 4 => Argument(n) = s4
          /\ asked[n].oper = 5 => Argument(n) = s5
        <3>1. CASE asked[n].oper = 1
            <4>1. Argument(n) = s1
                BY <3>1 DEF Argument
            <4> QED
                BY <3>1, <4>1
        <3>2. CASE asked[n].oper = 2
            <4>1. Argument(n) = s2
                BY <3>2 DEF Argument
            <4> QED
                BY <3>2, <4>1
        <3>3. CASE asked[n].oper = 3
            <4>1. Argument(n) = s3
                BY <3>3 DEF Argument
            <4> QED
                BY <3>3, <4>1
        <3>4. CASE asked[n].oper = 4
            <4>1. Argument(n) = s4
                BY <3>4 DEF Argument
            <4> QED
                BY <3>4, <4>1
        <3>5. CASE asked[n].oper = 5
            <4>1. Argument(n) = s5
                BY <3>5 DEF Argument
            <4> QED
                BY <3>5, <4>1
        <3> QED
            BY <3>1, <3>2, <3>3, <3>4, <3>5
    <2> HIDE DEF s1, s2, s3, s4, s5
    <2> QED
        BY <2>1, <2>2
<1>2. ASSUME NEW w, NEW t, w[1] # "digit", t # << >>, t[1] = <<w>>
      PROVE  Code(t) = <<0, 0>>
    BY <1>2 DEF Code, Atoi
<1>3. Name(Me)[1] # "digit" /\ \A k : Key(k)[1] # "digit"
    BY DEF Name, Key
<1>4. PICK w, t : w[1] # "digit" /\ t = Argument(n) /\ t # << >> /\ t[1] = <<w>>
    <2>1. CASE asked[n].oper \in {1, 2}
        BY <1>1, <1>3, <2>1
    <2>2. CASE asked[n].oper = 3
        BY <1>1, <1>3, <2>2
    <2>3. CASE asked[n].oper = 4
        BY <1>1, <1>3, <2>3
    <2>4. CASE asked[n].oper = 5
        BY <1>1, <1>3, <2>4
    <2> QED
        BY <2>1, <2>2, <2>3, <2>4
<1>5. Code(Argument(n)) = <<0, 0>>
    BY <1>2, <1>4
<1> QED
    BY <1>1, <1>5

\* Names are found.
LEMMA FindIs ==
    \A u : Find(<<Name(u)>>) = IF u \in Users THEN u ELSE Unknown
    BY DEF Find, Name

-----------------------------------------------------------------------------
(* Requests. *)

\* A request takes effect, those before it being done or passed over.
Serving(e) == done' = Append(done, e) /\ Means(e) /\ Passed(e.of - 1)

\* What the types say of the requests of a user who waits.
LEMMA Asking ==
    ASSUME WaitsInv, patient
    PROVE  /\ asked \in Seq(Orders) /\ Latest \in Nat /\ DOMAIN asked = 1..Latest
           /\ \A n \in 1..Latest : /\ asked[n] \in Orders /\ asked[n].oper \in 1..6
                                    /\ asked[n].name \in Users \cup {Unknown}
                                    /\ asked[n].blank \in BOOLEAN
           /\ asked = << >> <=> Latest = 0
           /\ done \in Seq(Range(done)) /\ Len(done) \in Nat /\ DOMAIN done = 1..Len(done)
           /\ \A k \in DOMAIN done : Means(done[k]) /\ done[k].of \in 1..Latest
           /\ LastDone \in Nat
<1>1. /\ asked \in Seq(Orders) /\ Latest \in Nat /\ DOMAIN asked = 1..Latest
      /\ asked = << >> <=> Latest = 0
      /\ \A n \in 1..Latest : asked[n] \in Orders
    BY DEF WaitsInv, Latest
<1>2. \A n \in 1..Latest : /\ asked[n].oper \in 1..6 /\ asked[n].name \in Users \cup {Unknown}
                           /\ asked[n].blank \in BOOLEAN
    BY <1>1, WireAssumption
<1>3. /\ done \in Seq(Range(done)) /\ \A k \in DOMAIN done : Means(done[k])
      /\ Len(done) \in Nat /\ DOMAIN done = 1..Len(done)
    BY DEF WaitsInv, Honest
<1>4. \A k \in DOMAIN done : done[k].of \in 1..Latest
    BY <1>1, <1>3 DEF Means
<1>5. LastDone \in Nat
    <2>1. done # << >> => Len(done) \in DOMAIN done
        BY <1>3
    <2> QED
        BY <1>1, <1>4, <2>1 DEF LastDone
<1> QED
    BY <1>1, <1>2, <1>3, <1>4, <1>5

\* What is appended is the last element, and nothing else changes.
LEMMA AppendIs ==
    ASSUME NEW q, q \in Seq(Range(q)), NEW e
    PROVE  /\ Append(q, e) \in Seq(Range(Append(q, e))) /\ Append(q, e) # << >>
           /\ Len(q) \in Nat /\ DOMAIN q = 1..Len(q) /\ Len(Append(q, e)) = Len(q) + 1
           /\ DOMAIN Append(q, e) = 1..(Len(q) + 1)
           /\ Append(q, e)[Len(q) + 1] = e
           /\ \A k \in 1..Len(q) : Append(q, e)[k] = q[k]
<1> DEFINE S == Range(q) \cup {e}
           r == Append(q, e)
<1>1. q \in Seq(S)
    OBVIOUS
<1>2. e \in S
    OBVIOUS
<1> HIDE DEF S
<1>3. /\ r \in Seq(S) /\ r # << >> /\ Len(q) \in Nat /\ Len(r) = Len(q) + 1
      /\ DOMAIN r = 1..(Len(q) + 1) /\ DOMAIN q = 1..Len(q) /\ r[Len(q) + 1] = e
      /\ \A k \in 1..Len(q) : r[k] = q[k]
    BY <1>1, <1>2
<1> HIDE DEF r
<1>4. r \in Seq(Range(r))
    BY <1>3 DEF Range
<1> QED
    BY <1>3, <1>4 DEF r

\* An effect more.
LEMMA Served ==
    ASSUME WaitsInv, patient, NEW e, Serving(e), asked' = asked
    PROVE  Honest' /\ LastDone' = e.of /\ e.of \in 1..Latest /\ LastDone < e.of
<1>1. Honest /\ LastDone \in Nat
    BY Asking DEF WaitsInv
<1>2. e.of \in 1..Latest /\ Means(e) /\ done' = Append(done, e) /\ Passed(e.of - 1)
    BY Asking DEF Serving, Means
<1>3. Means(e)' /\ \A k \in DOMAIN done : Means(done[k])
    BY <1>1, <1>2 DEF Means, Argument, Typed, Honest
<1>4. /\ done' \in Seq(Range(done')) /\ done' # << >>
      /\ Len(done) \in Nat /\ DOMAIN done = 1..Len(done) /\ Len(done') = Len(done) + 1
      /\ DOMAIN done' = 1..(Len(done) + 1) /\ done'[Len(done) + 1] = e
      /\ \A k \in 1..Len(done) : done'[k] = done[k]
    BY <1>1, <1>2, AppendIs DEF Honest
<1>5. ASSUME NEW k \in DOMAIN done', NEW d, d = done'[k]
      PROVE  Means(d)'
    <2>1. CASE k = Len(done) + 1
        BY <1>3, <1>4, <1>5, <2>1
    <2>2. CASE k # Len(done) + 1
        <3>1. Means(d)
            BY <1>3, <1>4, <1>5, <2>2
        <3> QED
            BY <3>1 DEF Means, Argument, Typed
    <2> QED
        BY <2>1, <2>2
<1>6. LastDone' = e.of
    BY <1>4 DEF LastDone
<1>7. LastDone < e.of
    <2>1. PICK m \in Nat : m = e.of
        BY <1>2, Asking
    <2>2. LastDone <= m - 1
        BY <1>2, <2>1 DEF Passed
    <2> QED
        BY <1>1, <2>1, <2>2
<1> QED
    BY <1>2, <1>4, <1>5, <1>6, <1>7 DEF Honest

\* No effect.
LEMMA NotServed ==
    ASSUME WaitsInv, patient, done' = done, asked' = asked
    PROVE  Honest' /\ LastDone' = LastDone
    BY DEF WaitsInv, Honest, Means, Argument, Typed, LastDone

\* What depends on the requests and on what took effect alone.
LEMMA Frame ==
    ASSUME asked' = asked, done' = done
    PROVE  /\ Latest' = Latest /\ LastDone' = LastDone
           /\ \A n : /\ Passed(n)' <=> Passed(n)
                     /\ BehindReport(n)' <=> BehindReport(n)
                     /\ CodeOf(n)' = CodeOf(n)
                     /\ Argument(n)' = Argument(n)
    BY DEF Latest, LastDone, Passed, BehindReport, CodeOf, Argument, Typed

\* A step without an effect keeps the invariant if it keeps the position.
LEMMA Kept ==
    ASSUME WaitsInv, patient, UNCHANGED <<patient, asked, done>>,
           cpc' \in {"menu", "argument", "gone"} \/ asked = << >>,
           cpc' = "argument" => asked # << >>,
           asked # << >> => (cpc' = "gone" <=> asked[Latest].oper = 6),
           HandlerSurvives', Position'
    PROVE  WaitsInv'
    BY NotServed, Frame DEF WaitsInv

\* A step of the handler with an effect does, too.
LEMMA KeptServing ==
    ASSUME WaitsInv, patient, NEW e, Serving(e), UNCHANGED <<patient, asked, cpc>>,
           HandlerSurvives', Position'
    PROVE  WaitsInv'
<1>1. /\ Honest' /\ LastDone' = e.of /\ e.of \in 1..Latest /\ Latest' = Latest
      /\ e.of <= Latest
    BY Served, Asking DEF Latest
<1> QED
    BY <1>1 DEF WaitsInv

\* The effect of the last request, or of the report before it, leaves nothing.
LEMMA PassedNow ==
    ASSUME WaitsInv, patient, NEW e, Serving(e), asked' = asked,
           e.of = Latest \/ (e.of = Latest - 1 /\ BehindReport(Latest))
    PROVE  Passed(Latest)' /\ (BehindReport(Latest)' <=> BehindReport(Latest))
<1>1. /\ LastDone' = e.of /\ e.of \in 1..Latest /\ Latest' = Latest
      /\ \A m : BehindReport(m)' <=> BehindReport(m)
    BY Served, Asking DEF Latest, BehindReport
<1>2. PICK l \in Nat : l = Latest
    BY Asking
<1>3. e.of <= l /\ \A m \in 1..l : e.of < m => BehindReport(m)
    BY <1>1, <1>2
<1> QED
    BY <1>1, <1>2, <1>3 DEF Passed

-----------------------------------------------------------------------------
(* The steps of the client, and those that neither has to do with. *)

\* The strings from the server, and what the client does with them.
LEMMA KeptQuiet ==
    ASSUME WaitsInv, patient, UNCHANGED <<patient, up, asked, done, hpc, oper>>,
           \/ cpc' = cpc
           \/ cpc \in {"reply", "greeting"} /\ cpc' \in {"greeting", "gone", "menu"}
    PROVE  WaitsInv'
<1>1. asked' = asked /\ done' = done /\ up' = up /\ hpc' = hpc /\ oper' = oper
    OBVIOUS
<1>4. /\ Latest' = Latest
      /\ \A n : /\ Passed(n)' <=> Passed(n)
                /\ BehindReport(n)' <=> BehindReport(n)
                /\ CodeOf(n)' = CodeOf(n)
                /\ Argument(n)' = Argument(n)
    BY <1>1, Frame
<1>2. CASE cpc' = cpc
    <2>1. Position'
        <3>1. CASE asked = << >>
            BY <1>1, <1>2, <3>1 DEF WaitsInv, Position, Entering
        <3>2. CASE asked # << >>
            <4>1. PICK n : n = Latest
                OBVIOUS
            <4>2. /\ Expects(n)' <=> Expects(n)
                  /\ ExpectsReport(n)' <=> ExpectsReport(n)
                  /\ Resumes(n)' <=> Resumes(n)
                  /\ Skips(n)' <=> Skips(n)
                BY <1>1, <1>4 DEF Expects, ExpectsReport, Resumes, Skips
            <4>3. /\ Unread(n)' <=> Unread(n)
                  /\ Halfway(n)' <=> Halfway(n)
                  /\ ReadAll(n)' <=> ReadAll(n)
                BY <1>1, <1>2, <1>4, <4>2 DEF Unread, Halfway, ReadAll
            <4> QED
                BY <1>1, <1>4, <3>2, <4>1, <4>3 DEF WaitsInv, Position
        <3> QED
            BY <3>1, <3>2
    <2> QED
        BY <1>2, <2>1, Kept DEF WaitsInv, HandlerSurvives
<1>3. CASE cpc \in {"reply", "greeting"} /\ cpc' \in {"greeting", "gone", "menu"}
    <2>1. asked = << >>
        BY <1>3 DEF WaitsInv
    <2>2. Position'
        BY <1>3, <2>1 DEF WaitsInv, Position, Entering
    <2>3. hpc # "dead"
        <3>1. DOMAIN asked = {}
            BY <2>1
        <3> QED
            BY <1>3, <3>1 DEF WaitsInv, HandlerSurvives
    <2> QED
        BY <1>3, <2>1, <2>2, <2>3, Kept DEF HandlerSurvives
<1> QED
    BY <1>2, <1>3

LEMMA KeptStart ==
    ASSUME WaitsInv, patient, Start
    PROVE  WaitsInv' /\ done' = done
<1>1. /\ UNCHANGED <<patient, asked, done, hpc>> /\ cpc = "start"
      /\ \/ cpc' = "gone" /\ up' = up
         \/ /\ cpc' = "details"
            /\ \E m \in 1..2 : up' = Append(up, Str(<<Digit(m, 0)>>))
    <2>1. /\ cpc = "start"
          /\ UNCHANGED <<patient, asked, done, hpc>>
        BY DEF Start, handlerVars
    <2>2. PICK mode \in 1..3 :
             IF mode = 3 THEN cpc' = "gone" /\ UNCHANGED up
             ELSE cpc' = "details" /\ up' = Append(up, Str(<<Digit(mode, 0)>>))
        BY DEF Start
    <2>3. mode # 3 => mode \in 1..2
        OBVIOUS
    <2> QED
        BY <2>1, <2>2, <2>3
<1>2. asked = << >> /\ DOMAIN asked = {}
    BY <1>1 DEF WaitsInv
<1>3. hpc # "dead"
    BY <1>1, <1>2 DEF WaitsInv, HandlerSurvives
<1>4. Position'
    <2>1. hpc # "exited" => hpc = "mode" /\ up = << >>
        BY <1>1, <1>2, <1>3 DEF WaitsInv, Position, Entering
    <2>2. \A x : Append(<< >>, x) = <<x>>
        OBVIOUS
    <2> QED
        BY <1>1, <1>2, <2>1, <2>2 DEF Position, Entering
<1> QED
    BY <1>1, <1>2, <1>3, <1>4, Kept DEF HandlerSurvives

LEMMA KeptIdentify ==
    ASSUME WaitsInv, patient, Identify
    PROVE  WaitsInv' /\ done' = done
<1>1. /\ UNCHANGED <<patient, asked, done, hpc>> /\ cpc = "details" /\ cpc' = "reply"
      /\ up' = Append(up, Str(<<Name(Me), Key("password")>>)) /\ AtRest
    BY DEF Identify, handlerVars, Waits
<1>2. asked = << >> /\ DOMAIN asked = {}
    BY <1>1 DEF WaitsInv
<1>3. hpc # "dead"
    BY <1>1, <1>2 DEF WaitsInv, HandlerSurvives
<1>4. Position'
    <2>1. hpc # "exited" => hpc = "details" /\ up = << >>
        BY <1>1, <1>2, <1>3 DEF WaitsInv, Position, Entering, AtRest
    <2>2. \A x : Append(<< >>, x) = <<x>>
        OBVIOUS
    <2> QED
        BY <1>1, <1>2, <2>1, <2>2 DEF Position, Entering
<1> QED
    BY <1>1, <1>2, <1>3, <1>4, Kept DEF HandlerSurvives

\* A request more changes nothing of those before it.
LEMMA Longer ==
    ASSUME WaitsInv, patient, NEW r \in Orders, asked' = Append(asked, r), done' = done
    PROVE  /\ asked' \in Seq(Orders) /\ asked' # << >>
           /\ Latest' = Latest + 1 /\ asked'[Latest + 1] = r
           /\ Honest' /\ LastDone' = LastDone
           /\ \A m \in 1..Latest : /\ asked'[m] = asked[m]
                                   /\ BehindReport(m)' <=> BehindReport(m)
           /\ \A n \in 0..Latest : Passed(n)' <=> Passed(n)
<1>1. PICK l \in Nat : l = Latest
    BY Asking
<1>2. /\ asked' \in Seq(Orders) /\ asked' # << >> /\ Latest' = l + 1 /\ asked'[l + 1] = r
      /\ \A m \in 1..l : asked'[m] = asked[m]
    BY <1>1, Asking DEF Latest
<1>3. \A m \in 1..l : BehindReport(m)' <=> BehindReport(m)
    <2>1. ASSUME NEW m \in 1..l
          PROVE  BehindReport(m)' <=> BehindReport(m)
        <3>1. m > 1 => m - 1 \in 1..l
            BY <1>1
        <3> QED
            BY <1>2, <3>1 DEF BehindReport
    <2> QED
        BY <2>1
<1>4. LastDone' = LastDone
    BY DEF LastDone
<1>5. \A n \in 0..l : Passed(n)' <=> Passed(n)
    <2>1. ASSUME NEW n \in 0..l, NEW m, m <= n
          PROVE  m \in 1..(l + 1) <=> m \in 1..l
        BY <1>1, <2>1
    <2> QED
        BY <1>1, <1>2, <1>3, <1>4, <2>1 DEF Passed
<1>6. ASSUME NEW e, e.of \in 1..l, Means(e)
      PROVE  Means(e)'
    <2>1. PICK n \in 1..l : n = e.of
        BY <1>6
    <2>2. n \in DOMAIN asked' /\ asked'[n] = asked[n]
        BY <1>1, <1>2, <2>1 DEF Latest
    <2>3. Argument(n)' = Argument(n)
        BY <2>2 DEF Argument, Typed
    <2> QED
        BY <1>6, <2>1, <2>2, <2>3 DEF Means
<1>7. Honest'
    <2>1. ASSUME NEW k \in DOMAIN done, NEW e, e = done[k]
          PROVE  Means(e)'
        BY <1>1, <1>6, <2>1, Asking
    <2>2. done \in Seq(Range(done))
        BY Asking
    <2>3. ASSUME NEW k \in DOMAIN done'
          PROVE  Means(done[k])'
        <3>1. PICK e : e = done[k]
            OBVIOUS
        <3>2. Means(e)'
            BY <2>1, <3>1
        <3> QED
            BY <3>1, <3>2 DEF Means, Argument, Typed
    <2> QED
        BY <2>2, <2>3 DEF Honest
<1> QED
    BY <1>1, <1>2, <1>3, <1>4, <1>5, <1>7

\* She makes a request when the handler is in a recv: it is about to read a
\* code, or to take what comes for the argument of a report.
LEMMA KeptOrder ==
    ASSUME WaitsInv, patient, Order
    PROVE  WaitsInv' /\ done' = done
<1>1. /\ cpc = "menu" /\ AtRest /\ UNCHANGED <<patient, done, hpc, oper>>
      /\ \E r \in Orders :
           /\ asked' = Append(asked, r)
           /\ up' = Append(up, Str(<<Digit(r.oper, Len(asked) + 1)>>))
           /\ IF r.oper = 6 THEN cpc' = "gone" ELSE cpc' = "argument"
    BY DEF Order, Waits, handlerVars
<1>2. PICK r \in Orders :
        /\ asked' = Append(asked, r)
        /\ up' = Append(up, Str(<<Digit(r.oper, Len(asked) + 1)>>))
        /\ IF r.oper = 6 THEN cpc' = "gone" ELSE cpc' = "argument"
    BY <1>1
<1>3. done' = done /\ hpc' = hpc /\ oper' = oper /\ patient'
    BY <1>1
<1>4. PICK l \in Nat : l = Latest
    BY Asking
<1>5. PICK n \in Nat : n = l + 1 /\ n > 0 /\ n - 1 = l
    OBVIOUS
<1>6. /\ asked' \in Seq(Orders) /\ asked' # << >> /\ Latest' = n /\ asked'[n] = r
      /\ Honest' /\ LastDone' = LastDone
      /\ \A m \in 1..l : asked'[m] = asked[m]
      /\ \A m \in 1..l : BehindReport(m)' <=> BehindReport(m)
      /\ \A m \in 0..l : Passed(m)' <=> Passed(m)
    BY <1>2, <1>3, <1>4, <1>5, Longer
<1>7. LastDone' <= Latest'
    BY <1>4, <1>5, <1>6, Asking DEF WaitsInv
<1>8. HandlerSurvives'
    <2>1. CASE hpc = "dead"
        <3>1. PICK m \in 1..l : Fatal(asked[m])
            BY <1>1, <1>4, <2>1, Asking DEF WaitsInv, HandlerSurvives
        <3>2. m \in DOMAIN asked' /\ Fatal(asked'[m])
            BY <1>5, <1>6, <3>1 DEF Latest
        <3> QED
            BY <3>2 DEF HandlerSurvives
    <2> QED
        BY <1>3, <2>1 DEF HandlerSurvives
<1>9. ASSUME hpc \notin {"exited", "dead"}
      PROVE  Unread(n)'
    <2>1. up = << >> /\ hpc \in {"mode", "details", "oper", "argument"}
        BY <1>1, <1>9 DEF AtRest
    <2>2. up' = <<CodeOf(n)'>>
        <3>1. Len(asked) + 1 = n
            BY <1>4, <1>5 DEF Latest
        <3>2. \A x : Append(<< >>, x) = <<x>>
            OBVIOUS
        <3> QED
            BY <1>2, <1>6, <2>1, <3>1, <3>2 DEF CodeOf
    <2>3. \/ hpc = "oper" /\ Passed(l)
          \/ l >= 1 /\ asked[l].oper = 3 /\ Expects(l)
        <3>1. CASE asked = << >>
            <4>1. hpc = "oper"
                BY <1>1, <1>9, <2>1, <3>1 DEF WaitsInv, Position, Entering
            <4>2. l = 0 /\ LastDone <= 0
                BY <1>4, <3>1, Asking DEF WaitsInv
            <4>3. Passed(l)
                BY <1>4, <4>2 DEF Passed
            <4> QED
                BY <4>1, <4>3
        <3>2. CASE asked # << >>
            <4>1. Unread(l) \/ Halfway(l) \/ ReadAll(l)
                BY <1>4, <1>9, <3>2 DEF WaitsInv, Position
            <4>2. ReadAll(l)
                BY <2>1, <4>1 DEF Unread, Halfway
            <4>3. l >= 1
                BY <1>4, <3>2, Asking
            <4> QED
                BY <1>1, <2>1, <4>2, <4>3 DEF ReadAll, Resumes
        <3> QED
            BY <3>1, <3>2
    <2>4. (hpc = "oper" /\ Passed(n - 1))' \/ ExpectsReport(n)'
        <3>1. CASE hpc = "oper" /\ Passed(l)
            <4>1. Passed(l)'
                BY <1>6, <3>1
            <4> QED
                BY <1>3, <1>5, <3>1, <4>1
        <3>2. CASE l >= 1 /\ asked[l].oper = 3 /\ Expects(l)
            <4>1. l \in 1..l /\ l \in 1..n /\ l - 1 \in 0..l /\ n > 1
                BY <1>5, <3>2
            <4>2. asked'[l] = asked[l] /\ (Passed(l - 1)' <=> Passed(l - 1))
                BY <1>6, <4>1
            <4>3. Expects(l)'
                BY <1>3, <1>6, <3>2, <4>1, <4>2 DEF Expects
            <4>4. BehindReport(n)'
                BY <1>5, <3>2, <4>1, <4>2 DEF BehindReport
            <4> QED
                BY <1>5, <4>3, <4>4 DEF ExpectsReport
        <3> QED
            BY <2>3, <3>1, <3>2
    <2>5. cpc' \in {"argument", "gone"}
        BY <1>2
    <2> QED
        BY <2>2, <2>4, <2>5 DEF Unread
<1>10. Position'
    BY <1>3, <1>6, <1>9 DEF Position
<1>11. cpc' \in {"argument", "gone"} /\ (cpc' = "gone" <=> asked'[n].oper = 6)
    BY <1>2, <1>6
<1> QED
    BY <1>3, <1>6, <1>7, <1>8, <1>10, <1>11 DEF WaitsInv

\* The argument follows the code: at once, if there is nothing to type.
LEMMA KeptFill ==
    ASSUME WaitsInv, patient, Fill
    PROVE  WaitsInv' /\ done' = done
<1>1. /\ UNCHANGED <<patient, asked, done, hpc, oper>> /\ cpc = "argument" /\ cpc' = "menu"
      /\ up' = Append(up, Argument(Len(asked))) /\ (Last(asked).oper # 3 => AtRest)
    BY DEF Fill, Waits, handlerVars
<1>2. asked' = asked /\ done' = done /\ hpc' = hpc /\ oper' = oper
    BY <1>1
<1>3. PICK n : n = Latest
    OBVIOUS
<1>4. /\ asked # << >> /\ n \in 1..n /\ n \in Nat /\ DOMAIN asked = 1..n
      /\ asked[n].oper \in 1..6 /\ asked[n].oper # 6
      /\ Last(asked) = asked[n] /\ up' = Append(up, Argument(n))
    <2>1. asked # << >> /\ n \in Nat /\ n # 0 /\ DOMAIN asked = 1..n /\ n = Len(asked)
        BY <1>1, <1>3, Asking DEF WaitsInv, Latest
    <2>2. n \in 1..n
        BY <2>1
    <2>3. asked[n].oper \in 1..6 /\ asked[n].oper # 6
        BY <1>1, <1>3, <2>1, <2>2, Asking DEF WaitsInv
    <2> QED
        BY <1>1, <2>1, <2>2, <2>3 DEF Last
<1>5. /\ Latest' = Latest
      /\ \A m : /\ Passed(m)' <=> Passed(m)
                /\ BehindReport(m)' <=> BehindReport(m)
                /\ CodeOf(m)' = CodeOf(m)
                /\ Argument(m)' = Argument(m)
    BY <1>2, Frame
<1>6. /\ Expects(n)' <=> Expects(n)
      /\ ExpectsReport(n)' <=> ExpectsReport(n)
      /\ Skips(n)' <=> Skips(n)
    BY <1>2, <1>5 DEF Expects, ExpectsReport, Resumes, Skips
<1>7. ASSUME NEW x, NEW y
      PROVE  Append(<< >>, x) = <<x>> /\ Append(<<y>>, x) = <<y, x>>
    <2> DEFINE q == Append(<<y>>, x)
    <2>1. q \in Seq({x, y}) /\ Len(q) = 2 /\ q[1] = y /\ q[2] = x
        OBVIOUS
    <2> HIDE DEF q
    <2>2. q = <<y, x>>
        BY <2>1, ShortSeqs
    <2>3. Append(<< >>, x) = <<x>>
        OBVIOUS
    <2> QED
        BY <2>2, <2>3 DEF q
<1>8. ASSUME hpc \notin {"exited", "dead"}
      PROVE  Unread(n)' \/ Halfway(n)'
    <2>1. Unread(n) \/ ReadAll(n)
        BY <1>1, <1>3, <1>4, <1>8 DEF WaitsInv, Position, Halfway
    <2>2. CASE up = << >>
        <3>1. Expects(n) \/ Skips(n)
            BY <1>1, <2>1, <2>2 DEF ReadAll, Unread
        <3>2. up' = <<Argument(n)'>>
            BY <1>4, <1>5, <1>7, <2>2
        <3> QED
            BY <1>1, <1>6, <3>1, <3>2 DEF Halfway
    <2>3. CASE up # << >>
        <3>1. Unread(n) /\ up = <<CodeOf(n)>>
            BY <1>1, <2>1, <2>3 DEF ReadAll, Unread
        <3>2. asked[n].oper = 3
            BY <1>1, <1>4, <1>8, <2>3 DEF AtRest
        <3>3. up' = <<CodeOf(n)', Argument(n)'>>
            BY <1>4, <1>5, <1>7, <3>1
        <3>4. (hpc = "oper" /\ Passed(n - 1)) \/ ExpectsReport(n)
            BY <3>1 DEF Unread
        <3>5. (hpc = "oper" /\ Passed(n - 1))' \/ ExpectsReport(n)'
            BY <1>2, <1>5, <1>6, <3>4
        <3> QED
            BY <1>1, <1>2, <3>2, <3>3, <3>5 DEF Unread
    <2> QED
        BY <2>2, <2>3
<1>9. Position'
    BY <1>2, <1>3, <1>4, <1>5, <1>8 DEF Position
<1>10. HandlerSurvives'
    BY <1>1 DEF WaitsInv, HandlerSurvives
<1> QED
    BY <1>1, <1>3, <1>4, <1>9, <1>10, Kept

-----------------------------------------------------------------------------
(* The steps of the handler. *)

\* An answer, or the end of a handler whose client is gone.
LEMMA ReplyIs ==
    ASSUME NEW words, NEW next, Reply(words, next)
    PROVE  hpc' = next \/ (cpc = "gone" /\ hpc' = "dead")
    BY DEF Reply

\* Up to the first code.
LEMMA KeptReadMode ==
    ASSUME WaitsInv, patient, ReadMode
    PROVE  WaitsInv' /\ done' = done
<1>1. PICK read \in Reads :
        /\ up' = read[2]
        /\ hpc' = IF Code(read[1])[1] \in {1, 2} THEN "details" ELSE "exited"
    BY DEF ReadMode
<1>2. hpc = "mode" /\ UNCHANGED <<patient, cpc, asked, done>>
    BY DEF ReadMode, clientVars
<1>3. asked = << >> /\ Entering
    BY <1>2 DEF WaitsInv, Position, Unread, Halfway, ReadAll, Expects, ExpectsReport,
                Resumes, Skips
<1>4. Position'
    <2>1. CASE up = << >>
        <3>1. Code(read[1])[1] = 0
            BY <2>1, ReadsNone, CodeIs
        <3> QED
            BY <1>1, <3>1 DEF Position
    <2>2. CASE cpc = "details" /\ \E m \in 1..2 : up = <<Str(<<Digit(m, 0)>>)>>
        <3>1. read[2] = << >>
            BY <2>2, ReadsOne
        <3> QED
            BY <1>1, <1>2, <1>3, <2>2, <3>1 DEF Position, Entering
    <2> QED
        BY <1>2, <1>3, <2>1, <2>2 DEF Entering
<1>5. hpc' # "dead"
    BY <1>1
<1> QED
    BY <1>2, <1>3, <1>4, <1>5, Kept DEF WaitsInv, HandlerSurvives

LEMMA KeptVerify ==
    ASSUME WaitsInv, patient, Verify
    PROVE  WaitsInv' /\ done' = done
<1>1. PICK read \in Reads :
        /\ up' = read[2]
        /\ \/ hpc' \in {"welcome", "exited"}
           \/ hpc' = "dead" /\ cpc = "gone"
    <2>1. ASSUME NEW verdict \in {1, 2},
                 IF oper[1] = 1 THEN Reply(<<Key("createuser"), Digit(verdict, 0)>>, "exited")
                 ELSE Reply(<<Key("verusr"), Digit(verdict, 0)>>,
                            IF verdict = 1 THEN "welcome" ELSE "exited")
          PROVE  hpc' \in {"welcome", "exited"} \/ (hpc' = "dead" /\ cpc = "gone")
        <3>1. \A words, next : Reply(words, next) =>
                                  hpc' = next \/ (cpc = "gone" /\ hpc' = "dead")
            BY ReplyIs
        <3>2. CASE oper[1] = 1
            BY <2>1, <3>1, <3>2
        <3>3. CASE oper[1] # 1
            BY <2>1, <3>1, <3>3
        <3> QED
            BY <3>2, <3>3
    <2> QED
        BY <2>1 DEF Verify
<1>2. hpc = "details" /\ UNCHANGED <<patient, cpc, asked, done>>
    BY DEF Verify, clientVars
<1>3. asked = << >> /\ Entering
    BY <1>2 DEF WaitsInv, Position, Unread, Halfway, ReadAll, Expects, ExpectsReport,
                Resumes, Skips
<1>4. cpc \notin {"start", "details"} /\ up' = << >>
    <2>1. ~(cpc = "details" /\ up = << >>)
        BY ReadsNone
    <2>2. cpc \notin {"start", "details"} /\ up = <<Str(<<Name(Me), Key("password")>>)>>
        BY <1>2, <1>3, <2>1 DEF Entering
    <2> QED
        BY <1>1, <2>2, ReadsOne
<1>5. Position'
    BY <1>1, <1>2, <1>3, <1>4 DEF Position, Entering
<1>6. HandlerSurvives'
    BY <1>1, <1>2 DEF HandlerSurvives
<1> QED
    BY <1>2, <1>3, <1>5, <1>6, Kept DEF WaitsInv

LEMMA KeptWelcome ==
    ASSUME WaitsInv, patient, Welcome
    PROVE  WaitsInv' /\ done' = done
<1>1. hpc' = "oper" \/ (cpc = "gone" /\ hpc' = "dead")
    BY ReplyIs DEF Welcome
<1>2. hpc = "welcome" /\ UNCHANGED <<patient, cpc, asked, done, up>>
    BY DEF Welcome, clientVars
<1>3. asked = << >> /\ Entering
    BY <1>2 DEF WaitsInv, Position, Unread, Halfway, ReadAll, Expects, ExpectsReport,
                Resumes, Skips
<1>4. Position'
    BY <1>1, <1>2, <1>3 DEF Position, Entering
<1>5. HandlerSurvives'
    BY <1>1, <1>2 DEF HandlerSurvives
<1> QED
    BY <1>2, <1>3, <1>4, <1>5, Kept DEF WaitsInv

\* The lines of a report.
LEMMA KeptReportLine ==
    ASSUME WaitsInv, patient, ReportLine
    PROVE  WaitsInv' /\ done' = done
<1>1. hpc' \in {"report", "oper"} \/ (cpc = "gone" /\ hpc' = "dead")
    BY ReplyIs DEF ReportLine
<1>2. hpc = "report" /\ UNCHANGED <<patient, cpc, asked, done, up, oper>>
    BY DEF ReportLine, clientVars
<1>3. PICK n : n = Latest
    OBVIOUS
<1>4. asked # << >> /\ (Halfway(n) \/ ReadAll(n))
    BY <1>2, <1>3 DEF WaitsInv, Position, Entering, Unread, Expects, ExpectsReport
<1>5. asked' = asked /\ done' = done /\ up' = up /\ cpc' = cpc
    BY <1>2
<1>6. /\ Latest' = Latest
      /\ \A m : /\ Passed(m)' <=> Passed(m)
                /\ BehindReport(m)' <=> BehindReport(m)
                /\ Argument(m)' = Argument(m)
    BY <1>5, Frame
<1>7. ASSUME hpc' # "dead"
      PROVE  Halfway(n)' \/ ReadAll(n)'
    <2>1. (Skips(n) => Skips(n)') /\ (Resumes(n) => Resumes(n)') /\ ~Expects(n)
        BY <1>1, <1>2, <1>6, <1>7 DEF Skips, Resumes, Expects
    <2> QED
        BY <1>4, <1>5, <1>6, <2>1 DEF Halfway, ReadAll
<1>8. Position'
    BY <1>3, <1>4, <1>5, <1>6, <1>7 DEF Position
<1>9. HandlerSurvives'
    BY <1>1, <1>2 DEF HandlerSurvives
<1> QED
    BY <1>2, <1>4, <1>8, <1>9, Kept DEF WaitsInv

\* The next code: of the last request, which follows what is done or passed
\* over.  An argument that has not been waited for is no code.
LEMMA KeptReadOper ==
    ASSUME WaitsInv, patient, ReadOper
    PROVE  WaitsInv' /\ (done' = done \/ \E e : Serving(e))
<1>1. PICK read \in Reads :
        /\ up' = read[2]
        /\ oper' = Code(read[1])
        /\ IF Code(read[1])[1] = 6
           THEN hpc' = "exited" /\ Effect(Code(read[1]), << >>)
           ELSE /\ hpc' = IF HasArgument(Code(read[1])[1]) THEN "argument" ELSE hpc
                /\ done' = done
    BY DEF ReadOper
<1>2. hpc = "oper" /\ UNCHANGED <<patient, cpc, asked>>
    BY DEF ReadOper, clientVars
<1>3. PICK n : n = Latest
    OBVIOUS
<1>4. patient' = patient /\ asked' = asked /\ cpc' = cpc /\ Latest' = n
    BY <1>2, <1>3 DEF Latest
<1>5. Code(read[1]) = <<0, 0>> => hpc' = "oper" /\ done' = done
    BY <1>1, <1>2 DEF HasArgument
<1>6. CASE asked = << >>
    <2>1. Entering /\ up = << >>
        BY <1>2, <1>6 DEF WaitsInv, Position, Entering
    <2>2. read[1] = << >> /\ read[2] = << >>
        BY <2>1, ReadsNone
    <2>3. hpc' = "oper" /\ done' = done /\ up' = << >>
        BY <1>1, <1>5, <2>2, CodeIs
    <2>4. Position' /\ HandlerSurvives'
        BY <1>2, <1>4, <1>6, <2>1, <2>3 DEF Position, Entering, HandlerSurvives
    <2> QED
        BY <1>2, <1>6, <2>3, <2>4, Kept DEF WaitsInv
<1>7. CASE asked # << >> /\ Unread(n)
    <2>1. n \in 1..n /\ n \in Nat /\ asked[n].oper \in 1..6 /\ n \in DOMAIN asked
        <3>1. n \in Nat /\ n # 0
            BY <1>3, <1>7, Asking
        <3>2. n \in 1..n
            BY <3>1
        <3> QED
            BY <1>3, <3>1, <3>2, Asking
    <2>2. Passed(n - 1)
        BY <1>2, <1>7 DEF Unread, ExpectsReport, Expects
    <2>3. CodeOf(n) = <<<<Digit(asked[n].oper, n)>>>>
        BY StrIs DEF CodeOf
    <2>4. /\ Code(read[1]) = <<asked[n].oper, n>>
          /\ \/ up' = << >> /\ cpc \in {"argument", "gone"}
             \/ up' = << >> /\ cpc = "menu" /\ asked[n].oper = 3
             \/ up' = <<Argument(n)>> /\ cpc = "menu" /\ asked[n].oper = 3
        <3>1. CASE up = <<CodeOf(n)>> /\ cpc \in {"argument", "gone"}
            <4>1. read[1] = <<<<Digit(asked[n].oper, n)>>>> /\ read[2] = << >>
                BY <2>3, <3>1, ReadsOne
            <4> QED
                BY <1>1, <2>1, <3>1, <4>1, CodeIs
        <3>2. CASE cpc = "menu" /\ asked[n].oper = 3 /\ up = <<CodeOf(n), Argument(n)>>
            <4>1. Argument(n) = <<<<Key("getstatus")>>>>
                BY <3>2, ArgumentIs
            <4>2. \/ read[1] = CodeOf(n) /\ read[2] = <<Argument(n)>>
                  \/ read[1] = Join(CodeOf(n), Argument(n)) /\ read[2] = << >>
                BY <3>2, ReadsTwo
            <4>3. Code(read[1]) = <<asked[n].oper, n>>
                BY <2>1, <2>3, <4>1, <4>2, CodeIs
            <4> QED
                BY <1>1, <3>2, <4>2, <4>3
        <3> QED
            BY <1>7, <3>1, <3>2 DEF Unread
    <2>5. CASE asked[n].oper = 6
        <3>1. PICK e : e = [code |-> 6, of |-> n, words |-> << >>]
            OBVIOUS
        <3>2. hpc' = "exited" /\ done' = Append(done, e)
            BY <1>1, <2>4, <2>5, <3>1 DEF Effect
        <3>3. Means(e)
            BY <2>1, <2>5, <3>1 DEF Means
        <3>4. Serving(e)
            BY <2>2, <3>1, <3>2, <3>3 DEF Serving
        <3>5. Position' /\ HandlerSurvives'
            BY <3>2 DEF Position, HandlerSurvives
        <3> QED
            BY <1>2, <3>4, <3>5, KeptServing
    <2>6. CASE asked[n].oper # 6
        <3>1. hpc' = "argument" /\ done' = done /\ oper' = <<asked[n].oper, n>>
            BY <1>1, <2>1, <2>4, <2>6 DEF HasArgument
        <3>2. Passed(n - 1)' /\ Argument(n)' = Argument(n)
            BY <1>4, <2>2, <3>1, Frame
        <3>3. Expects(n)'
            BY <1>4, <2>1, <3>1, <3>2 DEF Expects
        <3>4. Halfway(n)' \/ ReadAll(n)'
            <4>1. cpc # "gone"
                BY <1>3, <1>7, <2>6 DEF WaitsInv
            <4> QED
                BY <1>4, <2>4, <3>2, <3>3, <4>1 DEF Halfway, ReadAll
        <3>5. Position' /\ HandlerSurvives'
            BY <1>4, <1>7, <3>1, <3>4 DEF Position, HandlerSurvives
        <3> QED
            BY <1>2, <3>1, <3>5, Kept DEF WaitsInv
    <2> QED
        BY <2>5, <2>6
\* Nothing but the end of the client, or an argument, comes.
<1>8. CASE asked # << >> /\ ~Unread(n)
    <2>1. Halfway(n) \/ ReadAll(n)
        BY <1>2, <1>3, <1>8 DEF WaitsInv, Position
    <2>2. /\ Skips(n) /\ Code(read[1]) = <<0, 0>> /\ up' = << >>
          /\ cpc \in {"menu", "gone"}
        <3>1. CASE Halfway(n)
            <4>1. Skips(n) /\ cpc = "menu" /\ up = <<Argument(n)>>
                BY <1>2, <3>1 DEF Halfway, Expects
            <4>2. asked[n].oper \in 1..5
                <5>1. n \in 1..n
                    BY <1>3, <1>8, Asking
                <5>2. asked[n].oper \in 1..6 /\ asked[n].oper # 6
                    BY <1>3, <1>8, <4>1, <5>1, Asking DEF WaitsInv
                <5> QED
                    BY <5>2
            <4> QED
                BY <1>1, <4>1, <4>2, ReadsOne, ArgumentIs
        <3>2. CASE ReadAll(n)
            <4>1. up = << >>
                BY <3>2 DEF ReadAll
            <4>2. cpc = "gone" /\ read[1] = << >> /\ read[2] = << >>
                BY <4>1, ReadsNone
            <4> QED
                BY <1>1, <3>2, <4>2, CodeIs DEF ReadAll
        <3> QED
            BY <2>1, <3>1, <3>2
    <2>3. hpc' = "oper" /\ done' = done
        BY <1>5, <2>2
    <2>4. Skips(n)' /\ Resumes(n)'
        BY <1>4, <2>2, <2>3, Frame DEF Skips, Resumes
    <2>5. Position' /\ HandlerSurvives'
        <3>1. ReadAll(n)'
            BY <1>4, <2>2, <2>4 DEF ReadAll
        <3> QED
            BY <1>4, <1>8, <2>3, <3>1 DEF Position, HandlerSurvives
    <2> QED
        BY <1>2, <2>3, <2>5, Kept DEF WaitsInv
<1> QED
    BY <1>6, <1>7, <1>8

\* What comes for the argument of a report is not looked at, be it the code of
\* the next request: that one is passed over.
LEMMA KeptReport ==
    ASSUME WaitsInv, patient, ReadArgument, NEW n, n = Latest, asked # << >>,
           Unread(n), ExpectsReport(n)
    PROVE  WaitsInv' /\ (done' = done \/ \E e : Serving(e))
<1>1. PICK m \in Nat : m = n - 1 /\ n = m + 1 /\ m >= 1
    <2>1. n \in Nat /\ n > 1
        BY Asking DEF ExpectsReport, BehindReport
    <2> QED
        BY <2>1
<1>2. /\ asked[m].oper = 3 /\ oper = <<3, m>> /\ hpc = "argument"
      /\ BehindReport(n) /\ Passed(m - 1) /\ m \in 1..Latest
    BY <1>1 DEF ExpectsReport, BehindReport, Expects
<1>3. PICK read \in Reads : up' = read[2] /\ TakeStatus
    BY <1>2 DEF ReadArgument
<1>4. UNCHANGED <<patient, cpc, asked>>
    BY DEF ReadArgument, clientVars
<1>5. PICK e : e = [code |-> 3, of |-> m, words |-> << >>]
    OBVIOUS
<1>6. done' = Append(done, e) /\ (hpc' = "report" \/ (cpc = "gone" /\ hpc' = "dead"))
    BY <1>2, <1>3, <1>5, ReplyIs DEF TakeStatus, Effect
<1>7. Means(e)
    BY <1>2, <1>5, Asking DEF Means
<1>8. Serving(e)
    BY <1>2, <1>5, <1>6, <1>7 DEF Serving
<1>9. Latest' = n /\ Argument(n)' = Argument(n) /\ asked' = asked /\ cpc' = cpc
    BY <1>4 DEF Latest, Argument, Typed
<1>10. Passed(n)' /\ BehindReport(n)'
    <2>1. Passed(Latest)' /\ BehindReport(Latest)'
        BY <1>1, <1>2, <1>5, <1>8, <1>9, PassedNow
    <2> QED
        BY <1>9, <2>1 DEF Passed, BehindReport
<1>11. ASSUME hpc' = "report"
       PROVE  Halfway(n)' \/ ReadAll(n)'
    <2>1. Resumes(n)' /\ Skips(n)'
        BY <1>10, <1>11 DEF Resumes, Skips
    <2>2. CASE up = <<CodeOf(n)>> /\ cpc \in {"argument", "gone"}
        BY <1>3, <1>9, <2>1, <2>2, ReadsOne DEF ReadAll
    <2>3. CASE cpc = "menu" /\ up = <<CodeOf(n), Argument(n)>>
        <3>1. up' = << >> \/ up' = <<Argument(n)>>
            BY <1>3, <2>3, ReadsTwo
        <3> QED
            BY <1>9, <2>1, <2>3, <3>1 DEF Halfway, ReadAll
    <2> QED
        BY <2>2, <2>3 DEF Unread
<1>12. Position' /\ HandlerSurvives'
    BY <1>6, <1>9, <1>11 DEF Position, HandlerSurvives
<1> QED
    BY <1>4, <1>8, <1>12, KeptServing

\* The argument that was waited for.
LEMMA TakenWhole ==
    ASSUME WaitsInv, patient, NEW n \in 1..Latest, asked[n].oper \in 1..5,
           oper = <<asked[n].oper, n>>, cpc = "menu",
           \/ oper[1] \in {1, 2} /\ TakeMessage(Argument(n))
           \/ oper[1] = 3 /\ TakeStatus
           \/ oper[1] \in {4, 5} /\ TakeBlock(Argument(n))
    PROVE  \/ /\ hpc' \in {"oper", "report"}
              /\ \E e : done' = Append(done, e) /\ Means(e) /\ e.of = n
           \/ hpc' = "dead" /\ done' = done /\ Fatal(asked[n])
<1>1. /\ n \in DOMAIN asked /\ asked[n].name \in Users \cup {Unknown}
      /\ oper[1] = asked[n].oper /\ oper[2] = n
    BY Asking
<1>2. Find(<<Name(Me)>>) # Unknown
    BY FindIs, WireAssumption
<1>3. asked[n].name # Unknown => Find(<<Name(asked[n].name)>>) # Unknown
    BY <1>1, FindIs, WireAssumption
<1>4. \A words, next : Reply(words, next) => hpc' = next
    BY ReplyIs
<1>5. CASE asked[n].oper \in {1, 2}
    <2>1. PICK to :
            /\ Argument(n) = <<<<Name(Me)>>, to, Typed(n)>>
            /\ asked[n].oper = 2 => to = <<Key("broadcast")>>
        BY <1>5, ArgumentIs
    <2>2. PICK x : x = Argument(n)
        OBVIOUS
    <2>3. /\ Len(x) = 3 /\ x[1] = <<Name(Me)>> /\ x[2] = to /\ x[3] = Typed(n)
          /\ TakeMessage(x)
        BY <1>1, <1>5, <2>1, <2>2
    <2>4. CASE asked[n].blank
        <3>1. x[3] = << >>
            BY <2>3, <2>4 DEF Typed
        <3>2. Crash
            BY <2>3, <3>1 DEF TakeMessage
        <3> QED
            BY <1>5, <2>4, <3>2 DEF Crash, Fatal
    <2>5. CASE ~asked[n].blank
        <3>1. PICK e : e = [code |-> asked[n].oper, of |-> n, words |-> Argument(n)]
            OBVIOUS
        <3>2. x[3] # << >>
            BY <2>3, <2>5 DEF Typed
        <3>3. hpc' = "oper" /\ Effect(oper, <<x[1], to, x[3]>>)
            BY <1>1, <1>2, <1>4, <2>1, <2>3, <3>2 DEF TakeMessage
        <3>4. done' = Append(done, e)
            BY <1>1, <2>1, <2>3, <3>1, <3>3 DEF Effect
        <3>5. Means(e)
            BY <1>1, <1>5, <3>1 DEF Means
        <3> QED
            BY <3>1, <3>3, <3>4, <3>5
    <2> QED
        BY <2>4, <2>5
<1>6. CASE asked[n].oper = 3
    <2>1. PICK e : e = [code |-> 3, of |-> n, words |-> << >>]
        OBVIOUS
    <2>2. done' = Append(done, e) /\ hpc' = "report"
        BY <1>1, <1>4, <1>6, <2>1 DEF TakeStatus, Effect
    <2>3. Means(e)
        BY <1>1, <1>6, <2>1 DEF Means
    <2> QED
        BY <2>1, <2>2, <2>3
<1>7. CASE asked[n].oper \in {4, 5}
    <2>1. PICK x : x = Argument(n)
        OBVIOUS
    <2>2. Len(x) = 2 /\ x[2] = <<Name(asked[n].name)>> /\ TakeBlock(x)
        BY <1>1, <1>7, <2>1, ArgumentIs
    <2>3. CASE Find(x[2]) = Unknown
        BY <1>3, <1>7, <2>2, <2>3 DEF TakeBlock, Crash, Fatal
    <2>4. CASE Find(x[2]) # Unknown
        <3>1. PICK e : e = [code |-> asked[n].oper, of |-> n, words |-> <<x[2]>>]
            OBVIOUS
        <3>2. done' = Append(done, e) /\ hpc' = "oper"
            BY <1>1, <2>2, <2>4, <3>1 DEF TakeBlock, Effect
        <3>3. Means(e)
            BY <1>1, <1>7, <2>1, <3>1 DEF Means
        <3> QED
            BY <3>1, <3>2, <3>3
    <2> QED
        BY <2>3, <2>4
<1> QED
    BY <1>5, <1>6, <1>7

LEMMA KeptReadArgument ==
    ASSUME WaitsInv, patient, ReadArgument
    PROVE  WaitsInv' /\ (done' = done \/ \E e : Serving(e))
<1>1. PICK read \in Reads :
        /\ up' = read[2]
        /\ \/ oper[1] \in {1, 2} /\ TakeMessage(read[1])
           \/ oper[1] = 3 /\ TakeStatus
           \/ oper[1] \in {4, 5} /\ TakeBlock(read[1])
    BY DEF ReadArgument
<1>2. hpc = "argument" /\ UNCHANGED <<patient, cpc, asked>>
    BY DEF ReadArgument, clientVars
<1>3. PICK n : n = Latest
    OBVIOUS
<1>4. /\ asked # << >>
      /\ \/ Unread(n) /\ ExpectsReport(n)
         \/ Halfway(n) /\ Expects(n)
         \/ ReadAll(n) /\ Expects(n)
    BY <1>2, <1>3 DEF WaitsInv, Position, Entering, Unread, Halfway, ReadAll, Skips, Resumes
<1>5. CASE Unread(n) /\ ExpectsReport(n)
    BY <1>3, <1>4, <1>5, KeptReport
<1>6. CASE ReadAll(n) /\ Expects(n)
    BY <1>2, <1>6, ReadsNone DEF ReadAll, Skips, Resumes
<1>7. CASE Halfway(n) /\ Expects(n)
    <2>1. /\ read[1] = Argument(n) /\ up' = << >> /\ cpc = "menu"
          /\ n \in 1..Latest /\ oper = <<asked[n].oper, n>> /\ Passed(n - 1)
        BY <1>1, <1>7, ReadsOne DEF Halfway, Expects
    <2>2. asked[n].oper \in 1..5
        <3>1. asked[n].oper \in 1..6 /\ asked[n].oper # 6
            BY <1>3, <1>4, <2>1, Asking DEF WaitsInv
        <3> QED
            BY <3>1
    <2>3. /\ \/ oper[1] \in {1, 2} /\ TakeMessage(Argument(n))
             \/ oper[1] = 3 /\ TakeStatus
             \/ oper[1] \in {4, 5} /\ TakeBlock(Argument(n))
        BY <1>1, <2>1
    <2>4. Latest' = n /\ asked' = asked /\ cpc' = cpc
        BY <1>2, <1>3 DEF Latest
    <2>5. CASE hpc' = "dead" /\ done' = done /\ Fatal(asked[n])
        <3>1. n \in DOMAIN asked
            BY <2>1, Asking
        <3>2. Position' /\ HandlerSurvives'
            BY <2>4, <2>5, <3>1 DEF Position, HandlerSurvives
        <3> QED
            BY <1>2, <2>5, <3>2, Kept DEF WaitsInv
    <2>6. CASE /\ hpc' \in {"oper", "report"}
               /\ \E e : done' = Append(done, e) /\ Means(e) /\ e.of = n
        <3>1. PICK e : done' = Append(done, e) /\ Means(e) /\ e.of = n
            BY <2>6
        <3>2. Serving(e)
            BY <2>1, <3>1 DEF Serving
        <3>3. Passed(n)'
            <4>1. Passed(Latest)'
                BY <1>3, <2>4, <3>1, <3>2, PassedNow
            <4> QED
                BY <2>4, <4>1 DEF Passed
        <3>4. ReadAll(n)'
            BY <2>1, <2>4, <2>6, <3>3 DEF ReadAll, Resumes
        <3>5. Position' /\ HandlerSurvives'
            BY <1>4, <2>4, <2>6, <3>4 DEF Position, HandlerSurvives
        <3> QED
            BY <1>2, <3>2, <3>5, KeptServing
    <2> QED
        BY <2>1, <2>2, <2>3, <2>5, <2>6, TakenWhole
<1> QED
    BY <1>4, <1>5, <1>6, <1>7

-----------------------------------------------------------------------------
(* The session. *)

\* Every step of hers and of the handler.
LEMMA StepWaits ==
    ASSUME WaitsInv, patient, Next
    PROVE  /\ WaitsInv' /\ patient' = patient
           /\ \/ done' = done
              \/ asked' = asked /\ \E e : Serving(e)
<1>1. ASSUME Verdict \/ Greeting \/ Show \/ Forward
      PROVE  WaitsInv' /\ done' = done /\ patient' = patient
    <2>1. /\ UNCHANGED <<patient, up, asked, done, hpc, oper>>
          /\ \/ cpc' = cpc
             \/ cpc \in {"reply", "greeting"} /\ cpc' \in {"greeting", "gone", "menu"}
        <3>1. CASE Verdict
            BY <3>1 DEF Verdict, handlerVars
        <3>2. CASE Greeting
            BY <3>2 DEF Greeting, handlerVars
        <3>3. CASE Show
            BY <3>3 DEF Show, handlerVars
        <3>4. CASE Forward
            BY <3>4 DEF Forward, clientVars
        <3> QED
            BY <1>1, <3>1, <3>2, <3>3, <3>4
    <2> QED
        BY <2>1, KeptQuiet
<1>2. CASE Start
    BY <1>2, KeptStart DEF Start
<1>3. CASE Identify
    BY <1>3, KeptIdentify DEF Identify
<1>4. CASE Order
    BY <1>4, KeptOrder DEF Order
<1>5. CASE Fill
    BY <1>5, KeptFill DEF Fill
<1>6. CASE ReadMode
    BY <1>6, KeptReadMode DEF ReadMode, clientVars
<1>7. CASE Verify
    BY <1>7, KeptVerify DEF Verify, clientVars
<1>8. CASE Welcome
    BY <1>8, KeptWelcome DEF Welcome, clientVars
<1>9. CASE ReadOper
    BY <1>9, KeptReadOper DEF ReadOper, clientVars
<1>10. CASE ReadArgument
    BY <1>10, KeptReadArgument DEF ReadArgument, clientVars
<1>11. CASE ReportLine
    BY <1>11, KeptReportLine DEF ReportLine, clientVars
<1> QED
    BY <1>1, <1>2, <1>3, <1>4, <1>5, <1>6, <1>7, <1>8, <1>9, <1>10, <1>11
    DEF Next, Client, Handler

\* Whether she waits is settled at the start.
LEMMA SamePatience ==
    ASSUME [Next]_vars
    PROVE  patient' = patient
<1>1. CASE Client
    BY <1>1 DEF Client, Start, Identify, Verdict, Greeting, Order, Fill, Show
<1>2. CASE Handler
    BY <1>2 DEF Handler, ReadMode, Verify, Welcome, ReadOper, ReadArgument, ReportLine,
                clientVars
<1>3. CASE Forward
    BY <1>3 DEF Forward, clientVars
<1>4. CASE UNCHANGED vars
    BY <1>4 DEF vars, clientVars
<1> QED
    BY <1>1, <1>2, <1>3, <1>4 DEF Next

LEMMA InitWaits == ASSUME Init PROVE WaitsInv
<1>1. asked = << >> /\ done = << >> /\ up = << >> /\ cpc = "start" /\ hpc = "mode"
    BY DEF Init
<1>2. Honest
    <2>1. << >> \in Seq(Range(<< >>)) /\ DOMAIN << >> = {}
        OBVIOUS
    <2> QED
        BY <1>1, <2>1 DEF Honest
<1>3. LastDone = 0 /\ Latest = 0 /\ asked \in Seq(Orders)
    BY <1>1 DEF LastDone, Latest
<1>4. Position
    BY <1>1 DEF Position, Entering
<1>5. HandlerSurvives
    BY <1>1 DEF HandlerSurvives
<1> QED
    BY <1>1, <1>2, <1>3, <1>4, <1>5 DEF WaitsInv

\* The invariant holds of every session, of one who does not wait trivially.
LEMMA WaitsAlways == Spec => []WaitsInv
<1>1. ASSUME WaitsInv, [Next]_vars
      PROVE  WaitsInv'
    <2>1. CASE ~patient
        BY <1>1, <2>1, SamePatience DEF WaitsInv
    <2>2. CASE patient /\ Next
        BY <1>1, <2>2, StepWaits
    <2>3. CASE patient /\ UNCHANGED vars
        BY <1>1, <2>3, KeptQuiet DEF vars, clientVars, handlerVars
    <2> QED
        BY <1>1, <2>1, <2>2, <2>3
<1> QED
    BY <1>1, InitWaits, PTL DEF Spec

\* The handler of a user who waits (handle_client in tcpserver.c), whatever the
\* table, the menu and the number of her requests: it does not end before she
\* logs out, unless she has sent a message with no text, or blocked or unblocked
\* somebody who does not exist.
THEOREM SurvivesHerSession == Spec => []HandlerSurvives
<1>1. WaitsInv => HandlerSurvives
    BY DEF WaitsInv, HandlerSurvives
<1> QED
    BY <1>1, WaitsAlways, PTL

-----------------------------------------------------------------------------
(* The channel of requests. *)

\* The requests that took effect, by their numbers.
Numbers == [k \in DOMAIN done |-> done[k].of]
Waited == IF patient THEN asked ELSE << >>
Effects == IF ~patient THEN << >>
           ELSE [k \in DOMAIN done |-> IF Means(done[k]) THEN done[k].of ELSE 0]

\* Of a user who waits, all that took effect was asked for.
LEMMA NumbersAre ==
    ASSUME WaitsInv, patient
    PROVE  /\ Effects = Numbers /\ Numbers \in Seq(Nat) /\ Len(Numbers) = Len(done)
           /\ (IF Numbers = << >> THEN 0 ELSE Last(Numbers)) = LastDone
<1>1. \A k \in DOMAIN done : Means(done[k]) /\ done[k].of \in Nat
    <2>1. \A k \in DOMAIN done : Means(done[k]) /\ done[k].of \in 1..Latest
        BY Asking
    <2> QED
        BY <2>1, Asking
<1>2. Effects = Numbers
    BY <1>1 DEF Effects, Numbers
<1>3. PICK l \in Nat : l = Len(done) /\ DOMAIN done = 1..l
    BY Asking
<1>4. Numbers \in [1..l -> Nat]
    BY <1>1, <1>3 DEF Numbers
<1>5. Numbers \in Seq(Nat) /\ Len(Numbers) = l
    BY <1>3, <1>4
<1>6. (IF Numbers = << >> THEN 0 ELSE Last(Numbers)) = LastDone
    <2>1. (Numbers = << >> <=> l = 0) /\ (done = << >> <=> l = 0)
        BY <1>3, <1>5, Asking
    <2>2. l # 0 => l \in 1..l
        BY <1>3
    <2>3. l # 0 => Last(Numbers) = done[l].of
        BY <1>3, <1>5, <2>2 DEF Last, Numbers
    <2> QED
        BY <1>3, <2>1, <2>3 DEF LastDone
<1> QED
    BY <1>2, <1>3, <1>5, <1>6

\* One more.
LEMMA NumbersGrow ==
    ASSUME WaitsInv, patient, WaitsInv', patient', NEW e, done' = Append(done, e), e.of \in Nat
    PROVE  Numbers' = Append(Numbers, e.of)
<1>1. PICK l \in Nat : l = Len(done) /\ DOMAIN done = 1..l
    BY Asking
<1>2. /\ DOMAIN done' = 1..(l + 1) /\ done'[l + 1] = e
      /\ \A k \in 1..l : done'[k] = done[k]
    BY <1>1, Asking, AppendIs
<1>3. Numbers \in Seq(Nat) /\ Len(Numbers) = l /\ DOMAIN Numbers = 1..l
    BY <1>1, NumbersAre DEF Numbers
<1> DEFINE q == Append(Numbers, e.of)
<1>4. /\ q \in Seq(Nat) /\ Len(q) = l + 1 /\ q[l + 1] = e.of
      /\ \A k \in 1..l : q[k] = Numbers[k]
    BY <1>3
<1>5. /\ Numbers' \in Seq(Nat) /\ Len(Numbers') = l + 1
    <2>1. (WaitsInv /\ patient => Numbers \in Seq(Nat) /\ Len(Numbers) = Len(done))'
        BY NumbersAre, PTL
    <2>2. Len(done') = l + 1
        BY <1>1, Asking, AppendIs
    <2> QED
        BY <2>1, <2>2
<1> HIDE DEF q
<1>6. \A k \in 1..(l + 1) : Numbers'[k] = q[k]
    <2>1. ASSUME NEW k \in 1..(l + 1)
          PROVE  Numbers'[k] = q[k]
        <3>1. CASE k = l + 1
            BY <1>2, <1>4, <3>1 DEF Numbers
        <3>2. CASE k \in 1..l
            BY <1>1, <1>2, <1>4, <3>2 DEF Numbers
        <3>3. k = l + 1 \/ k \in 1..l
            OBVIOUS
        <3> QED
            BY <3>1, <3>2, <3>3
    <2> QED
        BY <2>1
<1>7. Numbers' = q
    BY <1>4, <1>5, <1>6
<1> QED
    BY <1>7 DEF q

\* Requests are appended.
LEMMA AskedGrows ==
    ASSUME Next
    PROVE  asked' = asked \/ \E r \in Orders : asked' = Append(asked, r)
<1>1. CASE Client
    BY <1>1 DEF Client, Start, Identify, Verdict, Greeting, Order, Fill, Show
<1>2. CASE Handler
    BY <1>2 DEF Handler, ReadMode, Verify, Welcome, ReadOper, ReadArgument, ReportLine,
                clientVars
<1>3. CASE Forward
    BY <1>3 DEF Forward, clientVars
<1> QED
    BY <1>1, <1>2, <1>3 DEF Next

\* The session implements the channel of requests: those of a user who waits
\* take effect in the order in which she made them, each at most once and as
\* she made it, and only one right behind a status report is passed over.
THEOREM ChannelImplemented == Spec => RequestsInStep
<1>1. ASSUME Init
      PROVE  Channel!Init
    <2>1. asked = << >> /\ done = << >> /\ DOMAIN done = {}
        BY <1>1 DEF Init
    <2>2. Waited = << >> /\ Effects = << >>
        BY <2>1 DEF Waited, Effects
    <2> QED
        BY <2>2 DEF Channel!Init, Waited, Effects
<1>2. ASSUME WaitsInv, WaitsInv', [Next]_vars
      PROVE  [Channel!Next]_Channel!vars
    <2>1. patient' = patient
        BY <1>2, SamePatience
    <2>2. CASE ~patient
        BY <2>1, <2>2 DEF Channel!vars
    <2>4. ASSUME patient
          PROVE  /\ Effects = Numbers /\ Effects' = Numbers'
        <3>1. (WaitsInv /\ patient => Effects = Numbers)'
            BY NumbersAre, PTL
        <3> QED
            BY <1>2, <2>1, <2>4, <3>1, NumbersAre
    <2>3. CASE patient /\ UNCHANGED vars
        <3>1. asked' = asked /\ done' = done /\ patient'
            BY <2>3 DEF vars, clientVars, handlerVars
        <3>2. Numbers' = Numbers
            BY <3>1 DEF Numbers
        <3>3. Waited' = Waited /\ Effects' = Effects
            BY <2>3, <2>4, <3>1, <3>2 DEF Waited
        <3> QED
            BY <3>3 DEF Channel!vars, Waited, Effects
    <2>5. CASE patient /\ Next /\ done' = done
        <3>1. Effects' = Effects /\ Waited = asked /\ Waited' = asked'
            BY <2>1, <2>4, <2>5 DEF Waited, Numbers
        <3>2. asked' = asked \/ \E r \in Orders : asked' = Append(asked, r)
            BY <2>5, AskedGrows
        <3>3. CASE asked' = asked
            BY <3>1, <3>3 DEF Channel!vars, Waited, Effects
        <3>4. CASE \E r \in Orders : asked' = Append(asked, r)
            <4>1. Channel!Ask
                BY <3>1, <3>4 DEF Channel!Ask, Waited, Effects
            <4> QED
                BY <4>1 DEF Channel!Next
        <3> QED
            BY <3>2, <3>3, <3>4
    <2>6. CASE patient /\ asked' = asked /\ \E e : Serving(e)
        <3>1. PICK e : Serving(e)
            BY <2>6
        <3>2. PICK n \in Nat : n = e.of /\ n \in 1..Latest /\ n > LastDone
            BY <1>2, <2>6, <3>1, Served, Asking
        <3>3. Waited = asked /\ Waited' = asked
            BY <2>1, <2>6 DEF Waited
        <3>4. Effects' = Append(Effects, n)
            BY <1>2, <2>1, <2>4, <2>6, <3>1, <3>2, NumbersGrow DEF Serving
        <3>5. Channel!LastServed = LastDone
            <4>1. (IF Effects = << >> THEN 0 ELSE Last(Effects)) = LastDone
                BY <1>2, <2>4, <2>6, NumbersAre
            <4> QED
                BY <4>1 DEF Channel!LastServed, Channel!Last, Last, Effects
        <3>6. LastDone \in Nat /\ Latest \in Nat /\ n \in (LastDone + 1)..Latest
            BY <1>2, <2>6, <3>2, Asking
        <3>7. ASSUME NEW m \in (LastDone + 1)..(n - 1)
              PROVE  Channel!BehindStatus(m)
            <4>1. m \in 1..Latest /\ LastDone < m /\ m <= n - 1
                BY <3>2, <3>6
            <4>2. BehindReport(m)
                BY <3>1, <3>2, <4>1 DEF Serving, Passed
            <4>3. m > 1 /\ Waited[m - 1].oper = 3
                BY <3>3, <4>2 DEF BehindReport
            <4> QED
                BY <4>3 DEF Channel!BehindStatus, Waited
        <3>8. Channel!Serve
            <4>1. n \in (Channel!LastServed + 1)..Len(Waited)
                BY <3>3, <3>5, <3>6 DEF Latest
            <4>2. \A m \in (Channel!LastServed + 1)..(n - 1) : Channel!BehindStatus(m)
                BY <3>5, <3>7
            <4>3. Waited' = Waited
                BY <3>3
            <4> QED
                BY <3>4, <4>1, <4>2, <4>3 DEF Channel!Serve, Waited, Effects
        <3> QED
            BY <3>8 DEF Channel!Next
    <2> QED
        BY <1>2, <2>2, <2>3, <2>5, <2>6, StepWaits
<1> QED
    BY <1>1, <1>2, WaitsAlways, PTL DEF Spec, RequestsInStep, Channel!Spec

-----------------------------------------------------------------------------
(* What the client prints.  From here on the user may wait or not, and any *)
(* number of strings may be on the way to her.                             *)

\* Induction, as far as the provers have it: what does not hold of every number
\* fails for a least one.
LEMMA Least ==
    ASSUME NEW T, T \subseteq Nat, T # {}
    PROVE  \E x \in T : \A y \in T : x <= y
<1>1. PICK x \in T : \A y \in T : ~(<<y, x>> \in OpToRel(<, Nat))
    BY NatLessThanWellFounded, WFMin, Zenon
<1>2. ASSUME NEW y \in T
      PROVE  x <= y
    <2>1. ~(<<y, x>> \in OpToRel(<, Nat))
        BY <1>1, Zenon
    <2>2. <<y, x>> \in Nat \X Nat
        OBVIOUS
    <2>3. ~(y < x)
        BY <2>1, <2>2, Zenon DEF OpToRel
    <2> QED
        BY <2>3
<1> QED
    BY <1>2

\* The strings of a recv are joined one by one.
LEMMA TogetherIs ==
    ASSUME NEW s, NEW k \in Nat
    PROVE  \E g : /\ g[0] = << >> /\ \A n \in 1..k : g[n] = Join(g[n - 1], s[n])
                  /\ Together(s, k) = g[k]
<1> DEFINE R(g, m) == g = [n \in 0..m |-> IF n = 0 THEN << >> ELSE Join(g[n - 1], s[n])]
           T == {m \in Nat : ~\E g : R(g, m)}
<1>1. ASSUME T # {}
      PROVE  FALSE
    <2> HIDE DEF T
    <2>0. T \subseteq Nat
        BY DEF T
    <2>1. PICK m \in T : \A y \in T : m <= y
        BY <1>1, <2>0, Least
    <2>4. m \in Nat /\ ~\E g : R(g, m)
        BY DEF T
    <2>2. CASE m = 0
        <3> DEFINE h == [n \in 0..0 |-> << >>]
        <3>1. R(h, 0)
            OBVIOUS
        <3> QED
            BY <2>2, <2>4, <3>1
    <2>3. CASE m # 0
        <3>1. m - 1 \in Nat /\ m - 1 \notin T
            BY <2>1, <2>3, <2>4
        <3>2. PICK g : R(g, m - 1)
            BY <3>1 DEF T
        <3> DEFINE h == [n \in 0..m |-> IF n = m THEN Join(g[m - 1], s[m]) ELSE g[n]]
        <3>3. ASSUME NEW n \in 0..m
              PROVE  h[n] = IF n = 0 THEN << >> ELSE Join(h[n - 1], s[n])
            <4>1. CASE n = m
                BY <2>3, <2>4, <3>1, <4>1
            <4>2. CASE n # m
                <5>1. n \in 0..(m - 1) /\ (n # 0 => n - 1 \in 0..m /\ n - 1 # m)
                    BY <2>4, <4>2
                <5>2. g[n] = IF n = 0 THEN << >> ELSE Join(g[n - 1], s[n])
                    BY <3>2, <5>1
                <5> QED
                    BY <4>2, <5>1, <5>2
            <4> QED
                BY <4>1, <4>2
        <3>4. R(h, m)
            BY <3>3
        <3> QED
            BY <2>4, <3>4
    <2> QED
        BY <2>2, <2>3
<1>2. \E g : R(g, k)
    BY <1>1
<1> DEFINE g == CHOOSE g : R(g, k)
<1>3. Together(s, k) = g[k]
    BY DEF Together
<1>4. R(g, k)
    BY <1>2
<1> HIDE DEF g
<1>5. /\ g[0] = << >>
      /\ \A n \in 1..k : g[n] = Join(g[n - 1], s[n])
    BY <1>4
<1> QED
    BY <1>3, <1>5

\* The tokens of two strings that are joined.
LEMMA JoinIs ==
    ASSUME NEW S, NEW y \in Seq(Seq(S)), NEW z \in Seq(Seq(S)), y # << >>, z # << >>
    PROVE  /\ Join(y, z) \in Seq(Seq(S)) /\ Len(Join(y, z)) = Len(y) + Len(z) - 1
           /\ \A n \in 1..(Len(y) - 1) : Join(y, z)[n] = y[n]
           /\ Join(y, z)[Len(y)] = y[Len(y)] \o z[1]
           /\ \A n \in (Len(y) + 1)..(Len(y) + Len(z) - 1) : Join(y, z)[n] = z[n - Len(y) + 1]
<1> DEFINE Q == Seq(S)
<1>1. PICK a \in Nat, b \in Nat : a = Len(y) /\ b = Len(z) /\ a > 0 /\ b > 0
    OBVIOUS
<1>2. /\ Front(y) \in Seq(Q) /\ Len(Front(y)) = a - 1
      /\ \A n \in 1..(a - 1) : Front(y)[n] = y[n]
    BY <1>1 DEF Front
<1>3. y[a] \in Seq(S) /\ z[1] \in Seq(S) /\ Head(z) = z[1] /\ Last(y) = y[a]
    BY <1>1 DEF Last
<1>4. PICK t \in Q : t = y[a] \o z[1] /\ t = Last(y) \o Head(z)
    <2>1. y[a] \o z[1] \in Seq(S)
        BY <1>3, ConcatProperties
    <2> QED
        BY <1>3, <2>1
<1>5. /\ Tail(z) \in Seq(Q) /\ Len(Tail(z)) = b - 1
      /\ \A n \in 1..(b - 1) : Tail(z)[n] = z[n + 1]
    BY <1>1
<1> HIDE DEF Q
<1>6. PICK p \in Seq(Q), r \in Seq(Q) : p = Front(y) /\ r = Tail(z)
    BY <1>2, <1>5
<1>7. Join(y, z) = p \o <<t>> \o r
    BY <1>4, <1>6 DEF Join
<1>8. <<t>> \in Seq(Q)
    OBVIOUS
<1>9. PICK v \in Seq(Q) : v = <<t>> /\ Len(v) = 1 /\ v[1] = t
    BY <1>8
<1>10. PICK q \in Seq(Q) : q = p \o v
    BY ConcatProperties
<1>11. Len(q) = a /\ q[a] = t /\ \A n \in 1..(a - 1) : q[n] = y[n]
    <2>1. /\ Len(q) = Len(p) + Len(v)
          /\ \A n \in 1..(Len(p) + Len(v)) :
                q[n] = IF n <= Len(p) THEN p[n] ELSE v[n - Len(p)]
        BY <1>10, ConcatProperties
    <2>2. Len(p) = a - 1 /\ Len(v) = 1 /\ (a - 1) + 1 = a /\ a - (a - 1) = 1 /\ a \in 1..a
        BY <1>1, <1>2, <1>6, <1>9
    <2>3. q[a] = t
        BY <1>1, <1>9, <2>1, <2>2
    <2>4. ASSUME NEW n \in 1..(a - 1)
          PROVE  q[n] = y[n]
        <3>1. n \in 1..(Len(p) + Len(v)) /\ n <= Len(p)
            BY <1>1, <2>2
        <3>2. q[n] = p[n]
            BY <2>1, <3>1
        <3> QED
            BY <1>2, <1>6, <3>2
    <2> QED
        BY <2>1, <2>2, <2>3, <2>4
<1>12. /\ Join(y, z) = q \o r
    BY <1>7, <1>9, <1>10
<1>13. /\ q \o r \in Seq(Q) /\ Len(q \o r) = a + b - 1
       /\ \A n \in 1..a : (q \o r)[n] = q[n]
       /\ \A n \in (a + 1)..(a + b - 1) : (q \o r)[n] = r[n - a]
    <2>1. /\ q \o r \in Seq(Q) /\ Len(q \o r) = Len(q) + Len(r)
          /\ \A n \in 1..(Len(q) + Len(r)) :
                (q \o r)[n] = IF n <= Len(q) THEN q[n] ELSE r[n - Len(q)]
        BY ConcatProperties
    <2> DEFINE x == q \o r
    <2> HIDE DEF x
    <2>2. Len(q) = a /\ Len(r) = b - 1
        BY <1>5, <1>6, <1>11
    <2>3. /\ x \in Seq(Q) /\ Len(x) = a + (b - 1)
          /\ \A n \in 1..(a + (b - 1)) : x[n] = IF n <= a THEN q[n] ELSE r[n - a]
        BY <2>1, <2>2 DEF x
    <2>4. /\ Len(x) = a + b - 1
          /\ \A n \in 1..a : x[n] = q[n]
          /\ \A n \in (a + 1)..(a + b - 1) : x[n] = r[n - a]
        <3>1. a + (b - 1) = a + b - 1
            BY <1>1
        <3>2. ASSUME NEW n \in 1..a
              PROVE  x[n] = q[n]
            <4>1. n \in 1..(a + (b - 1)) /\ n <= a
                BY <1>1
            <4> QED
                BY <2>3, <4>1
        <3>3. ASSUME NEW n \in (a + 1)..(a + b - 1)
              PROVE  x[n] = r[n - a]
            <4>1. n \in 1..(a + (b - 1)) /\ ~(n <= a)
                BY <1>1
            <4> QED
                BY <2>3, <4>1
        <3> QED
            BY <2>3, <3>1, <3>2, <3>3
    <2> QED
        BY <2>3, <2>4 DEF x
<1>14. ASSUME NEW n \in (a + 1)..(a + b - 1)
       PROVE  r[n - a] = z[n - a + 1]
    <2>1. n - a \in 1..(b - 1)
        BY <1>1
    <2> QED
        BY <1>5, <1>6, <2>1
<1> DEFINE x == q \o r
<1>15. /\ x \in Seq(Q) /\ Len(x) = a + b - 1
       /\ \A n \in 1..a : x[n] = q[n]
       /\ \A n \in (a + 1)..(a + b - 1) : x[n] = r[n - a]
    BY <1>13
<1> HIDE DEF x
<1>16. \A n \in 1..(a - 1) : x[n] = y[n]
    <2>1. ASSUME NEW n \in 1..(a - 1)
          PROVE  n \in 1..a
        BY <1>1
    <2> QED
        BY <1>11, <1>15, <2>1
<1>17. x[a] = y[a] \o z[1]
    <2>1. a \in 1..a
        BY <1>1
    <2>2. x[a] = t
        BY <1>11, <1>15, <2>1
    <2> QED
        BY <1>4, <2>2
<1>18. \A n \in (a + 1)..(a + b - 1) : x[n] = z[n - a + 1]
    BY <1>14, <1>15
<1>19. Join(y, z) = x
    BY <1>12 DEF x
<1> QED
    BY <1>1, <1>15, <1>16, <1>17, <1>18, <1>19 DEF Q

\* What the server sends: its numbers, its words and strings.
Figures == 0..2 \cup {Len(Table)}
Short == {"welcome", "gibber"}
Counts == {"createuser", "verusr", "msgack", "statcnt"}
Plain == {<<<<Key(k)>>>> : k \in Short}
Counted == UNION {{<<<<Key(k)>>, <<Digit(d, 0)>>>> : d \in Figures} : k \in Counts}
Listed ==
    UNION {{<<<<Key("userstat")>>, <<Name(u)>>, <<Key("full name")>>, <<Digit(d, 0)>>>> :
                d \in Figures} : u \in Users}
Forwarded ==
    UNION {{<<<<Key("inc_msg")>>, <<Name(u)>>, <<Text(m)>>>> : m \in Nat} : u \in Users}
Replies == Plain \cup Counted \cup Listed \cup Forwarded
Words ==
    {Key(k) : k \in Short \cup Counts \cup {"userstat", "full name", "inc_msg"}}
    \cup {Digit(d, 0) : d \in Figures} \cup {Name(u) : u \in Users}
    \cup {Text(m) : m \in Nat}

\* Token v is u, or u and keys of strings behind it.
Continues(v, u) ==
    /\ u # << >> /\ Len(u) <= Len(v)
    /\ \A k \in 1..Len(u) : v[k] = u[k]
    /\ \A k \in (Len(u) + 1)..Len(v) : v[k][1] = "key"

\* The first token of z is nothing but keys.
Keyed(z) == \A k \in 1..Len(z[1]) : z[1][k][1] = "key"

\* y begins with the tokens of x, but for what has run into the last of them.
Begins(y, x) ==
    /\ x # << >> /\ Len(x) <= Len(y)
    /\ \A n \in 1..Len(y) : y[n] # << >>
    /\ \A n \in 1..(Len(x) - 1) : y[n] = x[n]
    /\ Continues(y[Len(x)], x[Len(x)])

\* The shapes of a string of the server.
LEMMA ReplyShapes ==
    ASSUME NEW x \in Replies
    PROVE  \/ \E k \in Short : x = <<<<Key(k)>>>>
           \/ \E k \in Counts : \E d \in Figures : x = <<<<Key(k)>>, <<Digit(d, 0)>>>>
           \/ \E u \in Users : \E d \in Figures :
                 x = <<<<Key("userstat")>>, <<Name(u)>>, <<Key("full name")>>, <<Digit(d, 0)>>>>
           \/ \E u \in Users, m \in Nat : x = <<<<Key("inc_msg")>>, <<Name(u)>>, <<Text(m)>>>>
<1>1. CASE x \in Plain
    BY <1>1 DEF Plain
<1>2. CASE x \in Counted
    BY <1>2 DEF Counted
<1>3. CASE x \in Listed
    BY <1>3 DEF Listed
<1>4. CASE x \in Forwarded
    BY <1>4 DEF Forwarded
<1> QED
    BY <1>1, <1>2, <1>3, <1>4 DEF Replies

\* They are sequences of tokens of one word, the first of them a key.
LEMMA ReplyType ==
    ASSUME NEW x \in Replies
    PROVE  x \in Seq(Seq(Words)) /\ Begins(x, x) /\ Keyed(x)
<1>1. \A w \in Words : <<w>> \in Seq(Words) /\ <<w>> # << >>
    OBVIOUS
<1>2. /\ \A k \in Short \cup Counts \cup {"userstat", "full name", "inc_msg"} : Key(k) \in Words
      /\ \A d \in Figures : Digit(d, 0) \in Words
      /\ \A u \in Users : Name(u) \in Words
      /\ \A m \in Nat : Text(m) \in Words
    BY DEF Words
<1> DEFINE T == {t \in Seq(Words) : t # << >>}
<1>3. \A w \in Words : <<w>> \in T
    BY <1>1
<1>4. T \subseteq Seq(Words) /\ << >> \notin T
    OBVIOUS
<1> HIDE DEF T
<1>5. x \in Seq(T) /\ x # << >>
    <2>1. CASE \E k \in Short : x = <<<<Key(k)>>>>
        <3>1. PICK t \in T : x = <<t>>
            BY <1>2, <1>3, <2>1
        <3> QED
            BY <3>1
    <2>2. CASE \E k \in Counts : \E d \in Figures : x = <<<<Key(k)>>, <<Digit(d, 0)>>>>
        <3>1. \E t, v \in T : x = <<t, v>>
            BY <1>2, <1>3, <2>2
        <3> QED
            BY <3>1
    <2>3. CASE \E u \in Users : \E d \in Figures :
                 x = <<<<Key("userstat")>>, <<Name(u)>>, <<Key("full name")>>, <<Digit(d, 0)>>>>
        <3>1. \E t, v, w, z \in T : x = <<t, v, w, z>>
            BY <1>2, <1>3, <2>3
        <3> QED
            BY <3>1
    <2>4. CASE \E u \in Users, m \in Nat : x = <<<<Key("inc_msg")>>, <<Name(u)>>, <<Text(m)>>>>
        <3>1. \E t, v, w \in T : x = <<t, v, w>>
            BY <1>2, <1>3, <2>4
        <3> QED
            BY <3>1
    <2> QED
        BY <2>1, <2>2, <2>3, <2>4, ReplyShapes
<1>6. x \in Seq(Seq(Words)) /\ \A n \in 1..Len(x) : x[n] # << >>
    <2>1. Seq(T) \subseteq Seq(Seq(Words))
        BY <1>4, SeqMonotonic
    <2>2. \A n \in 1..Len(x) : x[n] \in T
        BY <1>5
    <2> QED
        BY <1>4, <1>5, <2>1, <2>2
<1>7. Begins(x, x)
    <2>1. PICK u \in Seq(Words) : u = x[Len(x)] /\ u # << >>
        BY <1>5, <1>6
    <2>2. Continues(u, u)
        BY <2>1 DEF Continues
    <2> QED
        BY <1>5, <1>6, <2>1, <2>2 DEF Begins
<1>8. \E k : x[1] = <<Key(k)>>
    <2>1. CASE \E k \in Short : x = <<<<Key(k)>>>>
        BY <2>1
    <2>2. CASE \E k \in Counts : \E d \in Figures : x = <<<<Key(k)>>, <<Digit(d, 0)>>>>
        BY <2>2
    <2>3. CASE \E u \in Users : \E d \in Figures :
                 x = <<<<Key("userstat")>>, <<Name(u)>>, <<Key("full name")>>, <<Digit(d, 0)>>>>
        <3>1. PICK u, d : x = <<<<Key("userstat")>>, <<Name(u)>>, <<Key("full name")>>,
                               <<Digit(d, 0)>>>>
            BY <2>3
        <3>2. x[1] = <<Key("userstat")>>
            BY <3>1
        <3> QED
            BY <3>2
    <2>4. CASE \E u \in Users, m \in Nat : x = <<<<Key("inc_msg")>>, <<Name(u)>>, <<Text(m)>>>>
        BY <2>4
    <2> QED
        BY <2>1, <2>2, <2>3, <2>4, ReplyShapes
<1>9. Keyed(x)
    BY <1>8 DEF Keyed, Key
<1> QED
    BY <1>6, <1>7, <1>9

\* What runs into a string from behind touches its last token only, at its end.
LEMMA JoinBegins ==
    ASSUME NEW S, NEW x \in Seq(Seq(S)), NEW y \in Seq(Seq(S)), NEW z \in Seq(Seq(S)),
           Begins(y, x), Begins(z, z), Keyed(z)
    PROVE  Join(y, z) \in Seq(Seq(S)) /\ Begins(Join(y, z), x)
<1> DEFINE j == Join(y, z)
<1>1. PICK a \in Nat, b \in Nat, c \in Nat :
          a = Len(x) /\ b = Len(y) /\ c = Len(z) /\ 0 < a /\ a <= b /\ 0 < c
    BY DEF Begins
<1>2. y # << >> /\ z # << >>
    BY <1>1
<1>3. /\ j \in Seq(Seq(S)) /\ Len(j) = b + c - 1
      /\ \A n \in 1..(b - 1) : j[n] = y[n]
      /\ j[b] = y[b] \o z[1]
      /\ \A n \in (b + 1)..(b + c - 1) : j[n] = z[n - b + 1]
    <2>1. /\ j \in Seq(Seq(S)) /\ Len(j) = Len(y) + Len(z) - 1
          /\ \A n \in 1..(Len(y) - 1) : j[n] = y[n]
          /\ j[Len(y)] = y[Len(y)] \o z[1]
          /\ \A n \in (Len(y) + 1)..(Len(y) + Len(z) - 1) : j[n] = z[n - Len(y) + 1]
        BY <1>2, JoinIs
    <2> HIDE DEF j
    <2> QED
        BY <1>1, <2>1, Zenon
<1> HIDE DEF j
<1>4. /\ \A n \in 1..b : y[n] \in Seq(S) /\ y[n] # << >>
      /\ \A n \in 1..c : z[n] \in Seq(S) /\ z[n] # << >>
    BY <1>1 DEF Begins
<1>5. j[b] # << >> /\ (a = b => Continues(j[b], x[a]))
    <2>1. PICK u \in Seq(S), v \in Seq(S) : u = y[b] /\ v = z[1] /\ u # << >>
        BY <1>1, <1>4
    <2>2. PICK e \in Nat, f \in Nat : e = Len(u) /\ f = Len(v) /\ e > 0
        BY <2>1
    <2> DEFINE w == u \o v
    <2>3. /\ Len(w) = e + f
          /\ \A n \in 1..e : w[n] = u[n]
          /\ \A n \in (e + 1)..(e + f) : w[n] = v[n - e]
        BY <2>2, ConcatProperties
    <2>4. j[b] = w
        BY <1>3, <2>1
    <2> HIDE DEF w
    <2>5. w # << >>
        BY <2>2, <2>3
    <2>6. ASSUME a = b
          PROVE  Continues(w, x[a])
        <3>1. PICK q : q = x[a]
            OBVIOUS
        <3>2. Continues(u, q)
            BY <1>1, <2>1, <2>6, <3>1 DEF Begins
        <3>3. PICK l \in Nat : l = Len(q) /\ q # << >> /\ l <= e /\ \A n \in 1..l : u[n] = q[n]
            <4>1. q \in Seq(S)
                BY <1>1, <3>1
            <4> QED
                BY <2>2, <3>2, <4>1 DEF Continues
        <3>4. \A n \in 1..l : n \in 1..e
            BY <2>2, <3>3
        <3>5. ASSUME NEW n \in (l + 1)..(e + f)
              PROVE  w[n][1] = "key"
            <4>1. CASE n <= e
                <5>1. n \in (l + 1)..e /\ n \in 1..e
                    BY <2>2, <3>3, <4>1
                <5> QED
                    BY <2>2, <2>3, <3>2, <3>3, <5>1 DEF Continues
            <4>2. CASE ~(n <= e)
                <5>1. n \in (e + 1)..(e + f) /\ n - e \in 1..f
                    BY <2>2, <3>3, <4>2
                <5> QED
                    BY <2>1, <2>2, <2>3, <5>1 DEF Keyed
            <4> QED
                BY <4>1, <4>2
        <3>6. l <= Len(w)
            BY <2>2, <2>3, <3>3
        <3> QED
            BY <2>3, <3>1, <3>3, <3>4, <3>5, <3>6 DEF Continues
    <2> QED
        BY <2>4, <2>5, <2>6
<1>6. \A n \in 1..(b + c - 1) : j[n] # << >>
    <2>1. ASSUME NEW n \in 1..(b + c - 1)
          PROVE  j[n] # << >>
        <3>1. CASE n < b
            <4>1. n \in 1..b /\ n \in 1..(b - 1)
                BY <1>1, <3>1
            <4> QED
                BY <1>3, <1>4, <4>1
        <3>2. CASE n = b
            BY <1>5, <3>2
        <3>3. CASE n > b
            <4>1. n \in (b + 1)..(b + c - 1) /\ n - b + 1 \in 1..c
                BY <1>1, <3>3
            <4> QED
                BY <1>3, <1>4, <4>1
        <3> QED
            BY <1>1, <3>1, <3>2, <3>3
    <2> QED
        BY <2>1
<1>7. \A n \in 1..(a - 1) : j[n] = x[n]
    <2>1. ASSUME NEW n \in 1..(a - 1)
          PROVE  n \in 1..(b - 1)
        BY <1>1
    <2>2. \A n \in 1..(a - 1) : y[n] = x[n]
        BY <1>1 DEF Begins
    <2> QED
        BY <1>3, <2>1, <2>2
<1>8. Continues(j[a], x[a])
    <2>1. Continues(y[a], x[a])
        BY <1>1 DEF Begins
    <2>2. CASE a = b
        BY <1>5, <2>2
    <2>3. CASE a # b
        <3>1. a \in 1..(b - 1)
            BY <1>1, <2>3
        <3> QED
            BY <1>3, <2>1, <3>1
    <2> QED
        BY <2>2, <2>3
<1>9. x # << >> /\ a <= b + c - 1
    BY <1>1
<1> QED
    BY <1>1, <1>3, <1>6, <1>7, <1>8, <1>9 DEF Begins, j

\* So what a recv of the client returns begins with the string sent first.
LEMMA TogetherBegins ==
    ASSUME NEW s \in Seq(Replies), NEW k \in 1..Len(s)
    PROVE  Together(s, k) \in Seq(Seq(Words)) /\ Begins(Together(s, k), s[1])
<1>1. k \in Nat /\ k >= 1 /\ \A n \in 1..k : s[n] \in Replies
    OBVIOUS
<1>2. PICK g : /\ g[0] = << >> /\ \A n \in 1..k : g[n] = Join(g[n - 1], s[n])
               /\ Together(s, k) = g[k]
    BY <1>1, TogetherIs
<1> DEFINE Good(n) == g[n] \in Seq(Seq(Words)) /\ Begins(g[n], s[1])
           T == {n \in 1..k : ~Good(n)}
<1>3. \A n \in 1..k : s[n] \in Seq(Seq(Words)) /\ Begins(s[n], s[n]) /\ Keyed(s[n])
    BY <1>1, ReplyType
<1>4. Good(1)
    BY <1>1, <1>2, <1>3, JoinNone
<1>5. ASSUME NEW n \in 1..k, n # 1, Good(n - 1)
      PROVE  Good(n)
    <2>1. g[n] = Join(g[n - 1], s[n])
        BY <1>2
    <2>2. s[1] \in Seq(Seq(Words))
        BY <1>1, <1>3
    <2>3. Join(g[n - 1], s[n]) \in Seq(Seq(Words)) /\ Begins(Join(g[n - 1], s[n]), s[1])
        BY <1>3, <1>5, <2>2, JoinBegins
    <2> QED
        BY <2>1, <2>3
<1> HIDE DEF Good
<1>6. T = {}
    <2>1. ASSUME T # {}
          PROVE  FALSE
        <3>1. T \subseteq Nat
            OBVIOUS
        <3> HIDE DEF T
        <3>2. PICK m \in T : \A n \in T : m <= n
            BY <2>1, <3>1, Least
        <3>3. m \in 1..k /\ ~Good(m) /\ m # 1
            BY <1>4 DEF T
        <3>4. m - 1 \in 1..k /\ ~(m <= m - 1)
            BY <1>1, <3>3
        <3>5. Good(m - 1)
            BY <3>2, <3>4 DEF T
        <3> QED
            BY <1>5, <3>3, <3>5
    <2> QED
        BY <2>1
<1>7. Good(k)
    BY <1>1, <1>6
<1> QED
    BY <1>2, <1>7 DEF Good

\* A text and what has run into it.
LEMMA TextFits ==
    ASSUME NEW S, NEW v \in Seq(S), NEW u \in Seq(S), Continues(v, u), NEW from
    PROVE  Fits(<<"message", from, v>>, <<"message", from, u>>)
<1>1. PICK l \in Nat, e \in Nat : l = Len(u) /\ e = Len(v) /\ l <= e
    BY DEF Continues
<1>2. /\ \A n \in 1..l : v[n] = u[n]
      /\ \A n \in (l + 1)..e : v[n][1] = "key"
    BY <1>1 DEF Continues
<1>3. IsPrefix(u, v)
    <2> DEFINE a == SubSeq(u, 1, l)
               b == SubSeq(v, 1, l)
    <2>1. /\ a \in Seq(S) /\ b \in Seq(S) /\ Len(a) = l /\ Len(b) = l
          /\ \A n \in 1..l : a[n] = u[n] /\ b[n] = v[n]
        <3>1. \A n \in 1..l : n \in 1..e
            BY <1>1
        <3> QED
            BY <1>1, <3>1, SubSeqProperties
    <2> HIDE DEF a, b
    <2>2. a = b
        BY <1>2, <2>1, SeqEqual
    <2> QED
        BY <1>1, <2>2 DEF IsPrefix, a, b
<1>4. ASSUME NEW k \in DOMAIN v \ DOMAIN u
      PROVE  v[k][1] = "key"
    <2>1. k \in (l + 1)..e
        BY <1>1
    <2> QED
        BY <1>2, <2>1
<1> QED
    BY <1>3, <1>4 DEF Fits

\* What is printed of it fits what would be printed of that string.
LEMMA OutputFits ==
    ASSUME NEW x \in Replies, NEW y \in Seq(Seq(Words)), Begins(y, x)
    PROVE  /\ Output(y) = << >> <=> Output(x) = << >>
           /\ Fits(Output(y), Output(x))
<1>0. y[Len(x)][1] = x[Len(x)][1]
    <2>1. x \in Seq(Seq(Words)) /\ Continues(y[Len(x)], x[Len(x)]) /\ x # << >>
        BY ReplyType DEF Begins
    <2>2. x[Len(x)] \in Seq(Words)
        BY <2>1
    <2> QED
        BY <2>1, <2>2 DEF Continues
<1>1. \A n \in 1..Len(y) : Head(y[n]) = y[n][1]
    BY DEF Begins
<1>10. \A a, b : a = b => Fits(a, b)
    BY DEF Fits
<1>2. CASE \E k \in Short : x = <<<<Key(k)>>>>
    <2>1. PICK k \in Short : x = <<<<Key(k)>>>>
        BY <1>2
    <2>2. Len(x) = 1 /\ x[1][1] = Key(k)
        BY <2>1
    <2>3. y[1][1] = Key(k)
        BY <1>0, <2>2
    <2>4. \A t : t[1] = Key(k) => /\ ~Is(t, "inc_msg") /\ ~Is(t, "msgack")
                                  /\ ~Is(t, "userstat") /\ ~Is(t, "statcnt")
        BY DEF Is, Key, Short
    <2>5. \A t : t[1][1] = Key(k) => Output(t) = << >>
        BY <2>4 DEF Output
    <2> QED
        BY <1>10, <2>2, <2>3, <2>5
<1>3. CASE \E k \in Counts : \E d \in Figures : x = <<<<Key(k)>>, <<Digit(d, 0)>>>>
    <2>1. PICK k \in Counts : \E d \in Figures : x = <<<<Key(k)>>, <<Digit(d, 0)>>>>
        BY <1>3
    <2>2. PICK d \in Figures : x = <<<<Key(k)>>, <<Digit(d, 0)>>>>
        BY <2>1
    <2>3. Len(x) = 2 /\ x[1] = <<Key(k)>> /\ x[2] = <<Digit(d, 0)>> /\ x[2][1] = Digit(d, 0)
        BY <2>2
    <2>4. y[1] = x[1] /\ y[2][1] = Digit(d, 0) /\ Head(y[2]) = Digit(d, 0)
        BY <1>0, <1>1, <2>3 DEF Begins
    <2>5. Value(y[2]) = Value(x[2])
        BY <2>3, <2>4 DEF Value, Atoi
    <2>6. ~Is(x[1], "inc_msg") /\ ~Is(x[1], "userstat")
        BY <2>3 DEF Is, Key, Counts
    <2>7. Output(y) = Output(x)
        BY <2>4, <2>5, <2>6 DEF Output
    <2> QED
        BY <1>10, <2>7
<1>4. CASE \E u \in Users : \E d \in Figures :
               x = <<<<Key("userstat")>>, <<Name(u)>>, <<Key("full name")>>, <<Digit(d, 0)>>>>
    <2>1. PICK u \in Users : \E d \in Figures :
               x = <<<<Key("userstat")>>, <<Name(u)>>, <<Key("full name")>>, <<Digit(d, 0)>>>>
        BY <1>4
    <2>2. PICK d \in Figures :
               x = <<<<Key("userstat")>>, <<Name(u)>>, <<Key("full name")>>, <<Digit(d, 0)>>>>
        BY <2>1
    <2>3. /\ Len(x) = 4 /\ x[1] = <<Key("userstat")>> /\ x[4] = <<Digit(d, 0)>>
          /\ x[4][1] = Digit(d, 0)
        BY <2>2
    <2>4. y[1] = x[1] /\ y[2] = x[2] /\ y[4][1] = Digit(d, 0) /\ Head(y[4]) = Digit(d, 0)
        BY <1>0, <1>1, <2>3 DEF Begins
    <2>5. Value(y[4]) = Value(x[4])
        BY <2>3, <2>4 DEF Value, Atoi
    <2>6. ~Is(x[1], "inc_msg") /\ ~Is(x[1], "msgack") /\ ~Is(x[1], "statcnt")
        BY <2>3 DEF Is, Key
    <2>7. Output(y) = Output(x)
        BY <2>4, <2>5, <2>6 DEF Output
    <2> QED
        BY <1>10, <2>7
<1>5. CASE \E u \in Users, m \in Nat : x = <<<<Key("inc_msg")>>, <<Name(u)>>, <<Text(m)>>>>
    <2>1. PICK u \in Users, m \in Nat : x = <<<<Key("inc_msg")>>, <<Name(u)>>, <<Text(m)>>>>
        BY <1>5
    <2>2. Len(x) = 3 /\ Is(x[1], "inc_msg")
        BY <2>1 DEF Is
    <2>3. y[1] = x[1] /\ y[2] = x[2] /\ Continues(y[3], x[3])
        BY <2>2 DEF Begins
    <2>7. ~Is(x[1], "userstat") /\ ~Is(x[1], "msgack") /\ ~Is(x[1], "statcnt")
        BY <2>2 DEF Is, Key
    <2>4. Output(x) = <<"message", x[2], x[3]>> /\ Output(y) = <<"message", x[2], y[3]>>
        BY <2>2, <2>3, <2>7 DEF Output
    <2>5. x[3] \in Seq(Words) /\ y[3] \in Seq(Words)
        <3>1. x \in Seq(Seq(Words)) /\ 3 <= Len(y)
            BY <2>2, ReplyType DEF Begins
        <3> DEFINE Q == Seq(Words)
        <3>2. x \in Seq(Q) /\ y \in Seq(Q) /\ 3 \in 1..Len(x) /\ 3 \in 1..Len(y)
            BY <2>2, <3>1
        <3> HIDE DEF Q
        <3>3. x[3] \in Q /\ y[3] \in Q
            BY <3>2, ElementOfSeq
        <3> QED
            BY <3>3 DEF Q
    <2>6. Fits(Output(y), Output(x))
        BY <2>3, <2>4, <2>5, TextFits
    <2> QED
        BY <2>4, <2>6
<1> QED
    BY <1>2, <1>3, <1>4, <1>5, ReplyShapes

-----------------------------------------------------------------------------
(* What was sent and what is printed. *)

Lines == {Output(x) : x \in Replies} \ {<< >>}
Prints == {Output(x) : x \in Seq(Seq(Words))}

\* f finds in t, in order, what each line of s fits.
Embeds(f, s, t) ==
    /\ \A n \in 1..Len(s) : Fits(s[n], t[f[n]])
    /\ \A n \in 1..Len(s) : \A m \in 1..(n - 1) : f[m] < f[n]

\* g finds in s what will be printed of d, in order and behind what f has
\* found of t.
Follows(g, f, d, s, t) ==
    \A j \in 1..Len(d) : Output(d[j]) # << >> =>
        /\ g[j] \in 1..Len(s) /\ s[g[j]] = Output(d[j])
        /\ \A n \in 1..Len(t) : f[n] < g[j]
        /\ \A i \in 1..(j - 1) : Output(d[i]) # << >> => g[i] < g[j]

Aligned(d, s, t) ==
    /\ d \in Seq(Replies) /\ s \in Seq(Lines) /\ t \in Seq(Prints)
    /\ \E f \in [1..Len(t) -> 1..Len(s)] : \E g \in [1..Len(d) -> 0..Len(s)] :
          Embeds(f, t, s) /\ Follows(g, f, d, s, t)

\* The inductive invariant.
LinesInv == hline \in Nat \ {0} /\ Aligned(down, sent, shown)

\* Nothing is sent yet.
LEMMA AlignedInit == Aligned(<< >>, << >>, << >>)
<1>1. PICK z : z = << >>
    OBVIOUS
<1>2. z \in [1..Len(z) -> 1..Len(z)] /\ z \in [1..Len(z) -> 0..Len(z)]
    BY <1>1
<1>3. Embeds(z, z, z) /\ Follows(z, z, z, z, z)
    BY <1>1 DEF Embeds, Follows
<1>4. z \in Seq(Replies) /\ z \in Seq(Lines) /\ z \in Seq(Prints)
    BY <1>1
<1>5. Aligned(z, z, z)
    BY <1>2, <1>3, <1>4 DEF Aligned
<1> QED
    BY <1>1, <1>5

\* Strings that nobody prints are lost without harm.
LEMMA AlignedBehind ==
    ASSUME NEW d, NEW s, NEW t, Aligned(d, s, t), NEW k \in 1..Len(d)
    PROVE  Aligned(Behind(d, k), s, t)
<1> DEFINE e == Behind(d, k)
<1>1. PICK f \in [1..Len(t) -> 1..Len(s)] : \E g \in [1..Len(d) -> 0..Len(s)] :
          Embeds(f, t, s) /\ Follows(g, f, d, s, t)
    BY DEF Aligned
<1>2. PICK g \in [1..Len(d) -> 0..Len(s)] : Embeds(f, t, s) /\ Follows(g, f, d, s, t)
    BY <1>1
<1>3. d \in Seq(Replies) /\ s \in Seq(Lines) /\ t \in Seq(Prints)
    BY DEF Aligned
<1>4. PICK a \in Nat, b \in Nat, c \in Nat : a = Len(d) /\ b = Len(s) /\ c = Len(t) /\ k <= a /\ k \in Nat
    BY <1>3
<1>5. e \in Seq(Replies) /\ Len(e) = a - k /\ \A j \in 1..(a - k) : e[j] = d[j + k]
    BY <1>3, <1>4 DEF Behind
<1> HIDE DEF e
<1> DEFINE h == [j \in 1..(a - k) |-> g[j + k]]
<1>6. h \in [1..(a - k) -> 0..b]
    <2>1. ASSUME NEW j \in 1..(a - k)
          PROVE  g[j + k] \in 0..b
        <3>1. j + k \in 1..a
            BY <1>4
        <3> QED
            BY <1>4, <3>1
    <2> QED
        BY <2>1
<1>7. ASSUME NEW j \in 1..(a - k), Output(e[j]) # << >>
      PROVE  /\ h[j] \in 1..b /\ s[h[j]] = Output(e[j])
             /\ \A n \in 1..c : f[n] < h[j]
             /\ \A i \in 1..(j - 1) : Output(e[i]) # << >> => h[i] < h[j]
    <2>1. j + k \in 1..a /\ e[j] = d[j + k] /\ h[j] = g[j + k]
        BY <1>4, <1>5
    <2>2. /\ g[j + k] \in 1..b /\ s[g[j + k]] = Output(d[j + k])
          /\ \A n \in 1..c : f[n] < g[j + k]
          /\ \A i \in 1..(j + k - 1) : Output(d[i]) # << >> => g[i] < g[j + k]
        BY <1>2, <1>4, <1>7, <2>1 DEF Follows
    <2>3. ASSUME NEW i \in 1..(j - 1), Output(e[i]) # << >>
          PROVE  h[i] < h[j]
        <3>1. i \in 1..(a - k) /\ i + k \in 1..(j + k - 1)
            BY <1>4
        <3>2. e[i] = d[i + k] /\ h[i] = g[i + k]
            BY <1>5, <3>1
        <3> QED
            BY <2>1, <2>2, <2>3, <3>1, <3>2
    <2> QED
        BY <2>1, <2>2, <2>3
<1> HIDE DEF h
<1>8. Follows(h, f, e, s, t)
    BY <1>4, <1>5, <1>7 DEF Follows
<1>9. h \in [1..Len(e) -> 0..Len(s)]
    BY <1>4, <1>5, <1>6
<1>10. Aligned(e, s, t)
    BY <1>2, <1>3, <1>5, <1>8, <1>9 DEF Aligned
<1> QED
    BY <1>10 DEF e

LEMMA AlignedNone ==
    ASSUME NEW d, NEW s, NEW t, Aligned(d, s, t)
    PROVE  Aligned(<< >>, s, t)
<1>1. PICK f \in [1..Len(t) -> 1..Len(s)] : Embeds(f, t, s)
    BY DEF Aligned
<1>2. Follows(<< >>, f, << >>, s, t) /\ << >> \in [1..Len(<< >>) -> 0..Len(s)]
    BY DEF Follows
<1>3. << >> \in Seq(Replies) /\ s \in Seq(Lines) /\ t \in Seq(Prints)
    BY DEF Aligned
<1> QED
    BY <1>1, <1>2, <1>3 DEF Aligned

\* A string that is printed is the first one that is left: its line is behind
\* what is printed and in front of what will be.
LEMMA AlignedShow ==
    ASSUME NEW d, NEW s, NEW t, Aligned(d, s, t), NEW k \in 1..Len(d)
    PROVE  Aligned(Behind(d, k), s, Printed(t, Together(d, k)))
<1> DEFINE x == Together(d, k)
<1>0. d \in Seq(Replies) /\ s \in Seq(Lines) /\ t \in Seq(Prints)
    BY DEF Aligned
<1>1. d[1] \in Replies
    BY <1>0
<1>2. /\ Output(x) = << >> <=> Output(d[1]) = << >>
      /\ Fits(Output(x), Output(d[1])) /\ Output(x) \in Prints
    <2>1. x \in Seq(Seq(Words)) /\ Begins(x, d[1])
        BY <1>0, TogetherBegins
    <2>2. Output(x) \in Prints
        BY <2>1 DEF Prints
    <2> QED
        BY <1>1, <2>1, <2>2, OutputFits
<1> HIDE DEF x
<1>3. CASE Output(d[1]) = << >>
    <2>1. Printed(t, x) = t
        BY <1>2, <1>3 DEF Printed
    <2> QED
        BY <2>1, AlignedBehind DEF x
<1>4. CASE Output(d[1]) # << >>
    <2> DEFINE e == Behind(d, k)
    <2>1. PICK f \in [1..Len(t) -> 1..Len(s)] : \E g \in [1..Len(d) -> 0..Len(s)] :
              Embeds(f, t, s) /\ Follows(g, f, d, s, t)
        BY DEF Aligned
    <2>2. PICK g \in [1..Len(d) -> 0..Len(s)] : Embeds(f, t, s) /\ Follows(g, f, d, s, t)
        BY <2>1
    <2>3. PICK o \in Lines : o = Output(d[1])
        BY <1>1, <1>4 DEF Lines
    <2>0. PICK w \in Prints : w = Output(x) /\ Fits(w, o)
        BY <1>2, <2>3
    <2>4. PICK u \in Seq(Prints) : u = Append(t, w)
        BY <1>0, AppendProperties
    <2>5. Printed(t, x) = u
        BY <1>2, <1>4, <2>0, <2>4 DEF Printed
    <2>6. PICK a \in Nat, b \in Nat, c \in Nat :
              a = Len(d) /\ b = Len(s) /\ c = Len(t) /\ 1 <= k /\ k <= a /\ k \in Nat
        BY <1>0
    <2>7. Len(u) = c + 1 /\ u[c + 1] = w /\ \A n \in 1..c : u[n] = t[n]
        BY <1>0, <2>4, <2>6
    <2>8. e \in Seq(Replies) /\ Len(e) = a - k /\ \A j \in 1..(a - k) : e[j] = d[j + k]
        BY <1>0, <2>6 DEF Behind
    <2> HIDE DEF e
    <2>9. /\ g[1] \in 1..b /\ s[g[1]] = o
          /\ \A n \in 1..c : f[n] < g[1]
        BY <1>4, <2>2, <2>3, <2>6 DEF Follows
    <2> DEFINE q == [n \in 1..(c + 1) |-> IF n = c + 1 THEN g[1] ELSE f[n]]
               h == [j \in 1..(a - k) |-> g[j + k]]
    <2>10. /\ q \in [1..(c + 1) -> 1..b] /\ q[c + 1] = g[1] /\ \A n \in 1..c : q[n] = f[n]
        <3>1. \A n \in 1..(c + 1) : n # c + 1 => n \in 1..c
            BY <2>6
        <3>2. \A n \in 1..c : n \in 1..(c + 1) /\ n # c + 1 /\ f[n] \in 1..b
            BY <2>1, <2>6
        <3> QED
            BY <2>6, <2>9, <3>1, <3>2
    <2>11. h \in [1..(a - k) -> 0..b] /\ \A j \in 1..(a - k) : h[j] = g[j + k]
        <3>1. ASSUME NEW j \in 1..(a - k)
              PROVE  g[j + k] \in 0..b
            <4>1. j + k \in 1..a
                BY <2>6
            <4> QED
                BY <2>6, <4>1
        <3> QED
            BY <3>1
    <2> HIDE DEF q, h
    <2>12. Embeds(q, u, s)
        <3>1. ASSUME NEW n \in 1..(c + 1)
              PROVE  Fits(u[n], s[q[n]]) /\ \A m \in 1..(n - 1) : q[m] < q[n]
            <4>1. CASE n = c + 1
                BY <2>0, <2>6, <2>7, <2>9, <2>10, <4>1
            <4>2. CASE n # c + 1
                <5>1. n \in 1..c /\ \A m \in 1..(n - 1) : m \in 1..c
                    <6>1. n \in 1..c
                        BY <2>6, <4>2
                    <6>2. ASSUME NEW m \in 1..(n - 1)
                          PROVE  m \in 1..c
                        BY <2>6, <6>1
                    <6> QED
                        BY <6>1, <6>2
                <5>2. Fits(t[n], s[f[n]]) /\ \A m \in 1..(n - 1) : f[m] < f[n]
                    BY <2>2, <2>6, <5>1 DEF Embeds
                <5> QED
                    BY <2>7, <2>10, <5>1, <5>2
            <4> QED
                BY <4>1, <4>2
        <3> QED
            BY <2>7, <3>1 DEF Embeds
    <2>13. Follows(h, q, e, s, u)
        <3>1. ASSUME NEW j \in 1..(a - k), Output(e[j]) # << >>
              PROVE  /\ h[j] \in 1..b /\ s[h[j]] = Output(e[j])
                     /\ \A n \in 1..(c + 1) : q[n] < h[j]
                     /\ \A i \in 1..(j - 1) : Output(e[i]) # << >> => h[i] < h[j]
            <4>0. j + k \in 1..a
                BY <2>6
            <4>1. j + k \in 1..a /\ e[j] = d[j + k] /\ h[j] = g[j + k]
                BY <2>8, <2>11, <4>0
            <4>2. /\ g[j + k] \in 1..b /\ s[g[j + k]] = Output(d[j + k])
                  /\ \A n \in 1..c : f[n] < g[j + k]
                  /\ \A i \in 1..(j + k - 1) : Output(d[i]) # << >> => g[i] < g[j + k]
                BY <2>2, <2>6, <3>1, <4>1 DEF Follows
            <4>3. ASSUME NEW i \in 1..(j - 1), Output(e[i]) # << >>
                  PROVE  h[i] < h[j]
                <5>1. i \in 1..(a - k) /\ i + k \in 1..(j + k - 1)
                    BY <2>6
                <5>2. e[i] = d[i + k] /\ h[i] = g[i + k]
                    BY <2>8, <2>11, <5>1
                <5> QED
                    BY <4>1, <4>2, <4>3, <5>1, <5>2
            <4>4. g[1] < g[j + k]
                <5>1. 1 \in 1..(j + k - 1)
                    BY <2>6
                <5> QED
                    BY <1>4, <4>2, <5>1
            <4>5. ASSUME NEW n \in 1..(c + 1)
                  PROVE  q[n] < h[j]
                <5>1. CASE n = c + 1
                    BY <2>10, <4>1, <4>4, <5>1
                <5>2. CASE n # c + 1
                    <6>1. n \in 1..c
                        BY <2>6, <5>2
                    <6> QED
                        BY <2>10, <4>1, <4>2, <6>1
                <5> QED
                    BY <5>1, <5>2
            <4> QED
                BY <4>1, <4>2, <4>3, <4>5
        <3> QED
            BY <2>6, <2>7, <2>8, <3>1 DEF Follows
    <2>14. q \in [1..Len(u) -> 1..Len(s)] /\ h \in [1..Len(e) -> 0..Len(s)]
        BY <2>6, <2>7, <2>8, <2>10, <2>11
    <2>15. Aligned(e, s, u)
        BY <1>0, <2>4, <2>8, <2>12, <2>13, <2>14 DEF Aligned
    <2> QED
        BY <2>5, <2>15 DEF e, x
<1> QED
    BY <1>3, <1>4

\* A string is sent behind all that is on the way, and its line noted behind
\* all that was.
LEMMA AlignedSend ==
    ASSUME NEW d, NEW s, NEW t, Aligned(d, s, t), NEW x \in Replies
    PROVE  Aligned(Append(d, x), Printed(s, x), t)
<1> DEFINE e == Append(d, x)
           v == Printed(s, x)
<1>0. d \in Seq(Replies) /\ s \in Seq(Lines) /\ t \in Seq(Prints)
    BY DEF Aligned
<1>1. PICK f \in [1..Len(t) -> 1..Len(s)] : \E g \in [1..Len(d) -> 0..Len(s)] :
          Embeds(f, t, s) /\ Follows(g, f, d, s, t)
    BY DEF Aligned
<1>2. PICK g \in [1..Len(d) -> 0..Len(s)] : Embeds(f, t, s) /\ Follows(g, f, d, s, t)
    BY <1>1
<1>3. PICK a \in Nat, b \in Nat, c \in Nat : a = Len(d) /\ b = Len(s) /\ c = Len(t)
    BY <1>0
<1>4. e \in Seq(Replies) /\ Len(e) = a + 1 /\ e[a + 1] = x /\ \A j \in 1..a : e[j] = d[j]
    BY <1>0, <1>3
<1>5. PICK p \in Nat :
          /\ v \in Seq(Lines) /\ Len(v) = p /\ b <= p
          /\ \A n \in 1..b : v[n] = s[n]
          /\ Output(x) # << >> => p = b + 1 /\ v[b + 1] = Output(x)
    <2>1. CASE Output(x) = << >>
        BY <1>0, <1>3, <2>1 DEF Printed
    <2>2. CASE Output(x) # << >>
        <3>1. PICK o \in Lines : o = Output(x)
            BY <2>2 DEF Lines
        <3>2. v = Append(s, o)
            BY <2>2, <3>1 DEF Printed
        <3> HIDE DEF v
        <3>3. v \in Seq(Lines) /\ Len(v) = b + 1 /\ v[b + 1] = o /\ \A n \in 1..b : v[n] = s[n]
            BY <1>0, <1>3, <3>2
        <3>4. b + 1 \in Nat /\ b <= b + 1
            BY <1>3
        <3> QED
            BY <3>1, <3>3, <3>4
    <2> QED
        BY <2>1, <2>2
<1> HIDE DEF e, v
<1> DEFINE h == [j \in 1..(a + 1) |-> IF j = a + 1 THEN p ELSE g[j]]
<1>6. /\ h \in [1..(a + 1) -> 0..p] /\ h[a + 1] = p /\ \A j \in 1..a : h[j] = g[j]
    <2>1. \A j \in 1..(a + 1) : j # a + 1 => j \in 1..a
        BY <1>3
    <2>2. \A j \in 1..a : j \in 1..(a + 1) /\ j # a + 1 /\ g[j] \in 0..p
        BY <1>2, <1>3, <1>5
    <2> QED
        BY <1>3, <1>5, <2>1, <2>2
<1> HIDE DEF h
<1>7. f \in [1..c -> 1..p] /\ \A n \in 1..c : f[n] \in 1..b
    <2>1. f \in [1..c -> 1..b]
        BY <1>3
    <2>2. \A n \in 1..b : n \in 1..p
        BY <1>3, <1>5
    <2> QED
        BY <2>1, <2>2
<1>8. Embeds(f, t, v)
    BY <1>2, <1>3, <1>5, <1>7 DEF Embeds
<1>9. Follows(h, f, e, v, t)
    <2>1. ASSUME NEW j \in 1..(a + 1), Output(e[j]) # << >>
          PROVE  /\ h[j] \in 1..p /\ v[h[j]] = Output(e[j])
                 /\ \A n \in 1..c : f[n] < h[j]
                 /\ \A i \in 1..(j - 1) : Output(e[i]) # << >> => h[i] < h[j]
        <3>1. CASE j # a + 1
            <4>1. j \in 1..a /\ \A i \in 1..(j - 1) : i \in 1..a
                BY <1>3, <3>1
            <4>2. /\ g[j] \in 1..b /\ s[g[j]] = Output(d[j])
                  /\ \A n \in 1..c : f[n] < g[j]
                  /\ \A i \in 1..(j - 1) : Output(d[i]) # << >> => g[i] < g[j]
                BY <1>2, <1>3, <1>4, <2>1, <4>1 DEF Follows
            <4>3. e[j] = d[j] /\ h[j] = g[j] /\ \A i \in 1..(j - 1) : e[i] = d[i] /\ h[i] = g[i]
                BY <1>4, <1>6, <4>1
            <4>4. g[j] \in 1..p
                BY <1>3, <1>5, <4>2
            <4> QED
                BY <1>5, <4>2, <4>3, <4>4
        <3>2. CASE j = a + 1
            <4>1. e[j] = x /\ h[j] = b + 1 /\ p = b + 1 /\ v[b + 1] = Output(x)
                BY <1>4, <1>5, <1>6, <2>1, <3>2
            <4>2. \A n \in 1..c : f[n] < b + 1
                BY <1>3, <1>7
            <4>3. ASSUME NEW i \in 1..(j - 1), Output(e[i]) # << >>
                  PROVE  h[i] < h[j]
                <5>1. i \in 1..a
                    BY <1>3, <3>2
                <5>2. e[i] = d[i] /\ h[i] = g[i]
                    BY <1>4, <1>6, <5>1
                <5>3. g[i] \in 1..b
                    BY <1>2, <1>3, <4>3, <5>1, <5>2 DEF Follows
                <5> QED
                    BY <1>3, <4>1, <5>2, <5>3
            <4>4. b + 1 \in 1..p
                BY <1>3, <4>1
            <4> QED
                BY <4>1, <4>2, <4>3, <4>4
        <3> QED
            BY <3>1, <3>2
    <2> QED
        BY <1>3, <1>4, <1>5, <2>1 DEF Follows
<1>10. f \in [1..Len(t) -> 1..Len(v)] /\ h \in [1..Len(e) -> 0..Len(v)]
    BY <1>3, <1>4, <1>5, <1>6, <1>7
<1>11. Aligned(e, v, t)
    BY <1>0, <1>4, <1>5, <1>8, <1>9, <1>10 DEF Aligned
<1> QED
    BY <1>11 DEF e, v

\* FitsInto looks for the lines one by one.
LEMMA FoundIs ==
    ASSUME NEW s, NEW t, Len(t) \in Nat
    PROVE  \E g : /\ g[0] = 0
                  /\ \A n \in 1..Len(t) :
                        g[n] = IF g[n - 1] < Len(s) /\ Fits(s[g[n - 1] + 1], t[n])
                               THEN g[n - 1] + 1 ELSE g[n - 1]
                  /\ FitsInto(s, t) <=> g[Len(t)] = Len(s)
<1> DEFINE Step(k, n) == IF k < Len(s) /\ Fits(s[k + 1], t[n]) THEN k + 1 ELSE k
           R(g, m) == g = [n \in 0..m |-> IF n = 0 THEN 0 ELSE Step(g[n - 1], n)]
           T == {m \in Nat : ~\E g : R(g, m)}
<1>1. FitsInto(s, t) <=> (CHOOSE g : R(g, Len(t)))[Len(t)] = Len(s)
    BY DEF FitsInto
<1> HIDE DEF Step
<1>2. ASSUME T # {}
      PROVE  FALSE
    <2> HIDE DEF T
    <2>0. T \subseteq Nat
        BY DEF T
    <2>1. PICK m \in T : \A y \in T : m <= y
        BY <1>2, <2>0, Least
    <2>2. m \in Nat /\ ~\E g : R(g, m)
        BY DEF T
    <2>3. CASE m = 0
        <3> DEFINE h == [n \in 0..0 |-> 0]
        <3>1. R(h, 0)
            OBVIOUS
        <3> QED
            BY <2>2, <2>3, <3>1
    <2>4. CASE m # 0
        <3>1. m - 1 \in Nat /\ m - 1 \notin T
            BY <2>1, <2>2, <2>4
        <3>2. PICK g : R(g, m - 1)
            BY <3>1 DEF T
        <3> DEFINE h == [n \in 0..m |-> IF n = m THEN Step(g[m - 1], m) ELSE g[n]]
        <3>3. ASSUME NEW n \in 0..m
              PROVE  h[n] = IF n = 0 THEN 0 ELSE Step(h[n - 1], n)
            <4>1. CASE n = m
                BY <2>2, <2>4, <3>1, <4>1
            <4>2. CASE n # m
                <5>1. n \in 0..(m - 1) /\ (n # 0 => n - 1 \in 0..m /\ n - 1 # m)
                    BY <2>2, <4>2
                <5>2. g[n] = IF n = 0 THEN 0 ELSE Step(g[n - 1], n)
                    BY <3>2, <5>1
                <5> QED
                    BY <4>2, <5>1, <5>2
            <4> QED
                BY <4>1, <4>2
        <3>4. R(h, m)
            BY <3>3
        <3> QED
            BY <2>2, <3>4
    <2> QED
        BY <2>3, <2>4
<1>3. \E g : R(g, Len(t))
    BY <1>2
<1> DEFINE g == CHOOSE g : R(g, Len(t))
<1>4. R(g, Len(t))
    BY <1>3
<1>5. FitsInto(s, t) <=> g[Len(t)] = Len(s)
    BY <1>1
<1> HIDE DEF g
<1>6. g[0] = 0 /\ \A n \in 1..Len(t) : g[n] = Step(g[n - 1], n)
    BY <1>4
<1> QED
    BY <1>5, <1>6 DEF Step

\* To take each line for the first that it fits is as good as any way.
LEMMA EmbedsFits ==
    ASSUME NEW S, NEW T, NEW s \in Seq(S), NEW t \in Seq(T),
           NEW f \in [1..Len(s) -> 1..Len(t)], Embeds(f, s, t)
    PROVE  FitsInto(s, t)
<1>1. PICK a \in Nat, b \in Nat : a = Len(s) /\ b = Len(t)
    OBVIOUS
<1>2. PICK g : /\ g[0] = 0
               /\ \A n \in 1..b : g[n] = IF g[n - 1] < a /\ Fits(s[g[n - 1] + 1], t[n])
                                         THEN g[n - 1] + 1 ELSE g[n - 1]
               /\ FitsInto(s, t) <=> g[b] = a
    BY <1>1, FoundIs
<1>3. /\ \A k \in 1..a : f[k] \in 1..b /\ Fits(s[k], t[f[k]])
      /\ \A k \in 1..a : \A m \in 1..(k - 1) : f[m] < f[k]
    BY <1>1 DEF Embeds
<1> DEFINE Good(n) == g[n] \in 0..a /\ \A k \in 1..a : f[k] <= n => k <= g[n]
           Bad == {n \in 0..b : ~Good(n)}
<1>4. Good(0)
    BY <1>1, <1>2, <1>3
<1>5. ASSUME NEW n \in 1..b, Good(n - 1)
      PROVE  Good(n)
    <2>1. PICK k \in 0..a : k = g[n - 1]
        BY <1>5
    <2>2. g[n] = IF k < a /\ Fits(s[k + 1], t[n]) THEN k + 1 ELSE k
        BY <1>2, <2>1
    <2>3. g[n] \in 0..a /\ k <= g[n]
        BY <1>1, <2>1, <2>2
    <2>4. ASSUME NEW m \in 1..a, f[m] <= n
          PROVE  m <= g[n]
        <3>1. f[m] \in 1..b
            BY <1>3
        <3>2. CASE f[m] # n
            <4>1. f[m] <= n - 1
                BY <1>1, <2>4, <3>1, <3>2
            <4>2. m <= k
                BY <1>5, <2>1, <4>1
            <4> QED
                BY <1>1, <2>1, <2>3, <4>2
        <3>3. CASE f[m] = n
            <4>1. m - 1 <= k
                <5>1. CASE m = 1
                    BY <1>1, <2>1, <5>1
                <5>2. CASE m # 1
                    <6>1. m - 1 \in 1..a /\ m - 1 \in 1..(m - 1)
                        BY <1>1, <5>2
                    <6>2. f[m - 1] \in 1..b /\ f[m - 1] < f[m]
                        BY <1>3, <6>1
                    <6>3. f[m - 1] <= n - 1
                        BY <1>1, <3>3, <6>2
                    <6> QED
                        BY <1>5, <2>1, <6>1, <6>3
                <5> QED
                    BY <5>1, <5>2
            <4>2. CASE m <= k
                BY <1>1, <2>1, <2>3, <4>2
            <4>3. CASE ~(m <= k)
                <5>1. k + 1 = m /\ k < a
                    BY <1>1, <2>1, <4>1, <4>3
                <5>2. Fits(s[k + 1], t[n])
                    BY <1>3, <3>3, <5>1
                <5>3. g[n] = m
                    BY <2>2, <5>1, <5>2
                <5> QED
                    BY <1>1, <5>3
            <4> QED
                BY <4>2, <4>3
        <3> QED
            BY <3>2, <3>3
    <2> QED
        BY <2>3, <2>4
<1> HIDE DEF Good
<1>6. Bad = {}
    <2>1. ASSUME Bad # {}
          PROVE  FALSE
        <3>1. Bad \subseteq Nat
            BY <1>1
        <3> HIDE DEF Bad
        <3>2. PICK m \in Bad : \A n \in Bad : m <= n
            BY <2>1, <3>1, Least
        <3>3. m \in 0..b /\ ~Good(m) /\ m # 0
            BY <1>4 DEF Bad
        <3>4. m \in 1..b /\ m - 1 \in 0..b /\ ~(m <= m - 1)
            BY <1>1, <3>3
        <3>5. Good(m - 1)
            BY <3>2, <3>4 DEF Bad
        <3> QED
            BY <1>5, <3>3, <3>4, <3>5
    <2> QED
        BY <2>1
<1>7. Good(b)
    BY <1>1, <1>6
<1>8. g[b] = a
    <2>1. g[b] \in 0..a
        BY <1>7 DEF Good
    <2>2. CASE a = 0
        BY <2>1, <2>2
    <2>3. CASE a # 0
        <3>1. a \in 1..a
            BY <1>1, <2>3
        <3>2. f[a] <= b
            BY <1>1, <1>3, <3>1
        <3>3. a <= g[b]
            BY <1>7, <3>1, <3>2 DEF Good
        <3> QED
            BY <1>1, <2>1, <3>3
    <2> QED
        BY <2>2, <2>3
<1> QED
    BY <1>2, <1>8

\* The strings the server sends are Replies.
LEMMA RepliesAre ==
    /\ \A k \in Short : Str(<<Key(k)>>) \in Replies
    /\ \A k \in Counts : \A d \in Figures : Str(<<Key(k), Digit(d, 0)>>) \in Replies
    /\ \A u \in Users : \A d \in Figures :
          Str(<<Key("userstat"), Name(u), Key("full name"), Digit(d, 0)>>) \in Replies
    /\ \A u \in Users, m \in Nat : Str(<<Key("inc_msg"), Name(u), Text(m)>>) \in Replies
<1>1. ASSUME NEW k \in Short
      PROVE  Str(<<Key(k)>>) \in Replies
    <2>1. <<<<Key(k)>>>> \in Plain
        BY DEF Plain
    <2> QED
        BY <2>1, StrIs DEF Replies
<1>2. ASSUME NEW k \in Counts, NEW d \in Figures
      PROVE  Str(<<Key(k), Digit(d, 0)>>) \in Replies
    <2>1. <<<<Key(k)>>, <<Digit(d, 0)>>>> \in Counted
        BY DEF Counted
    <2> QED
        BY <2>1, StrIs DEF Replies
<1>3. ASSUME NEW u \in Users, NEW d \in Figures
      PROVE  Str(<<Key("userstat"), Name(u), Key("full name"), Digit(d, 0)>>) \in Replies
    <2>1. <<<<Key("userstat")>>, <<Name(u)>>, <<Key("full name")>>, <<Digit(d, 0)>>>> \in Listed
        BY DEF Listed
    <2>2. \A a, b, c, e : Str(<<a, b, c, e>>) = <<<<a>>, <<b>>, <<c>>, <<e>>>>
        BY DEF Str
    <2>3. Str(<<Key("userstat"), Name(u), Key("full name"), Digit(d, 0)>>)
              = <<<<Key("userstat")>>, <<Name(u)>>, <<Key("full name")>>, <<Digit(d, 0)>>>>
        BY <2>2
    <2> QED
        BY <2>1, <2>3 DEF Replies
<1>4. ASSUME NEW u \in Users, NEW m \in Nat
      PROVE  Str(<<Key("inc_msg"), Name(u), Text(m)>>) \in Replies
    <2>1. <<<<Key("inc_msg")>>, <<Name(u)>>, <<Text(m)>>>> \in Forwarded
        BY DEF Forwarded
    <2>2. Str(<<Key("inc_msg"), Name(u), Text(m)>>) = <<<<Key("inc_msg")>>, <<Name(u)>>, <<Text(m)>>>>
        BY StrIs
    <2> QED
        BY <2>1, <2>2 DEF Replies
<1> QED
    BY <1>1, <1>2, <1>3, <1>4

\* A reply of the handler.
LEMMA ReplyAligned ==
    ASSUME NEW words, NEW next, Str(words) \in Replies,
           Aligned(down, sent, shown), Reply(words, next), UNCHANGED shown
    PROVE  Aligned(down, sent, shown)'
<1>1. CASE cpc # "gone"
    <2>1. PICK x \in Replies : x = Str(words)
        OBVIOUS
    <2>2. down' = Append(down, x) /\ sent' = Printed(sent, x) /\ shown' = shown
        BY <1>1, <2>1 DEF Reply
    <2>3. Aligned(Append(down, x), Printed(sent, x), shown)
        BY AlignedSend
    <2>4. Aligned(down', sent', shown')
        BY <2>2, <2>3
    <2> QED
        BY <2>4
<1>2. CASE ~(cpc # "gone")
    <2>1. Aligned(down', sent', shown')
        BY <1>2 DEF Reply
    <2> QED
        BY <2>1
<1> QED
    BY <1>1, <1>2

\* It holds at the start.
LEMMA LinesInit == Init => LinesInv
    BY AlignedInit DEF Init, LinesInv

Counting == mail \in Nat

\* The messages that came in are counted.
LEMMA MailCounted == Spec => []Counting
<1>1. Init => Counting
    BY DEF Init, Counting
<1>2. ASSUME Counting, [Next]_vars
      PROVE  Counting'
    <2>1. mail' = mail \/ mail' = mail + 1
        BY <1>2 DEF Next, Client, Start, Identify, Verdict, Greeting, Order, Fill, Show,
                    Handler, ReadMode, Verify, Welcome, ReadOper, ReadArgument, ReportLine,
                    Forward, vars, clientVars, handlerVars
    <2> QED
        BY <1>2, <2>1 DEF Counting
<1> QED
    BY <1>1, <1>2, PTL DEF Spec

\* Every step keeps it.
LEMMA LinesNext == LinesInv /\ Counting /\ [Next]_vars => LinesInv'
<1> SUFFICES ASSUME LinesInv, Counting, [Next]_vars
             PROVE  LinesInv'
    OBVIOUS
<1>0. hline \in Nat \ {0} /\ Aligned(down, sent, shown)
    BY DEF LinesInv
<1>1. ASSUME UNCHANGED <<down, sent, shown, hline>>
      PROVE  LinesInv'
    <2>1. Aligned(down', sent', shown')
        BY <1>0, <1>1
    <2> QED
        BY <1>0, <1>1, <2>1 DEF LinesInv
<1>2. ASSUME NEW k \in DOMAIN down, down' = Behind(down, k), UNCHANGED <<sent, shown, hline>>
      PROVE  LinesInv'
    <2>1. k \in 1..Len(down)
        BY <1>0 DEF Aligned
    <2>2. Aligned(down', sent', shown')
        BY <1>0, <1>2, <2>1, AlignedBehind
    <2> QED
        BY <1>0, <1>2, <2>2 DEF LinesInv
<1>3. CASE Start \/ Identify \/ Fill
    BY <1>1, <1>3 DEF Start, Identify, Fill, handlerVars
<1>4. CASE Verdict \/ Greeting
    <2>1. PICK k \in DOMAIN down : down' = Behind(down, k)
        BY <1>4 DEF Verdict, Greeting
    <2>2. UNCHANGED <<sent, shown, hline>>
        BY <1>4 DEF Verdict, Greeting, handlerVars
    <2> QED
        BY <1>2, <2>1, <2>2
<1>5. CASE Order
    <2>1. UNCHANGED <<sent, shown, hline>> /\ (down' = << >> \/ down' = down)
        BY <1>5 DEF Order, handlerVars
    <2>2. CASE down' = << >>
        <3>1. Aligned(down', sent', shown')
            BY <1>0, <2>1, <2>2, AlignedNone
        <3> QED
            BY <1>0, <2>1, <3>1 DEF LinesInv
    <2> QED
        BY <1>1, <2>1, <2>2
<1>6. CASE Show
    <2>1. PICK k \in DOMAIN down :
              shown' = Printed(shown, Together(down, k)) /\ down' = Behind(down, k)
        BY <1>6 DEF Show
    <2>2. UNCHANGED <<sent, hline>>
        BY <1>6 DEF Show, handlerVars
    <2>3. k \in 1..Len(down)
        BY <1>0 DEF Aligned
    <2>4. Aligned(down', sent', shown')
        BY <1>0, <2>1, <2>2, <2>3, AlignedShow
    <2> QED
        BY <1>0, <2>2, <2>4 DEF LinesInv
<1>7. CASE ReadMode \/ ReadOper
    BY <1>1, <1>7 DEF ReadMode, ReadOper, clientVars
<1>8. CASE Verify
    <2>1. PICK verdict \in {1, 2} :
              \/ Reply(<<Key("createuser"), Digit(verdict, 0)>>, "exited")
              \/ \E next : Reply(<<Key("verusr"), Digit(verdict, 0)>>, next)
        BY <1>8 DEF Verify
    <2>2. UNCHANGED <<shown, hline>>
        BY <1>8 DEF Verify, clientVars
    <2>3. verdict \in Figures /\ "createuser" \in Counts /\ "verusr" \in Counts
        BY DEF Figures, Counts
    <2>4. Aligned(down, sent, shown)'
        BY <1>0, <2>1, <2>2, <2>3, RepliesAre, ReplyAligned
    <2> QED
        BY <1>0, <2>2, <2>4 DEF LinesInv
<1>9. CASE Welcome
    <2>1. Reply(<<Key("welcome")>>, "oper") /\ UNCHANGED <<shown, hline>>
        BY <1>9 DEF Welcome, clientVars
    <2>2. "welcome" \in Short
        BY DEF Short
    <2>3. Aligned(down, sent, shown)'
        BY <1>0, <2>1, <2>2, RepliesAre, ReplyAligned
    <2> QED
        BY <1>0, <2>1, <2>3 DEF LinesInv
<1>10. CASE ReadArgument
    <2>1. UNCHANGED shown
        BY <1>10 DEF ReadArgument, clientVars
    <2>2. PICK read \in Reads : \/ TakeMessage(read[1])
                                \/ TakeStatus
                                \/ TakeBlock(read[1])
        BY <1>10 DEF ReadArgument
    <2>3. CASE TakeMessage(read[1])
        <3>1. UNCHANGED hline
            BY <2>3 DEF TakeMessage
        <3>2. \/ UNCHANGED <<down, sent>>
              \/ \E d \in {1, 2} : Reply(<<Key("msgack"), Digit(d, 0)>>, "oper")
            BY <2>3 DEF TakeMessage, Crash
        <3>3. CASE \E d \in {1, 2} : Reply(<<Key("msgack"), Digit(d, 0)>>, "oper")
            <4>1. \A d \in {1, 2} : d \in Figures
                BY DEF Figures
            <4>2. "msgack" \in Counts
                BY DEF Counts
            <4>3. Aligned(down, sent, shown)'
                BY <1>0, <2>1, <3>3, <4>1, <4>2, RepliesAre, ReplyAligned
            <4> QED
                BY <1>0, <3>1, <4>3 DEF LinesInv
        <3> QED
            BY <1>1, <2>1, <3>1, <3>2, <3>3
    <2>4. CASE TakeStatus
        <3>1. hline' = 1 /\ Reply(<<Key("statcnt"), Digit(Len(Table), 0)>>, "report")
            BY <2>4 DEF TakeStatus
        <3>2. Len(Table) \in Figures /\ "statcnt" \in Counts
            BY DEF Figures, Counts
        <3>3. Aligned(down, sent, shown)'
            BY <1>0, <2>1, <3>1, <3>2, RepliesAre, ReplyAligned
        <3> QED
            BY <3>1, <3>3 DEF LinesInv
    <2>5. CASE TakeBlock(read[1])
        BY <1>1, <2>1, <2>5 DEF TakeBlock, Crash
    <2> QED
        BY <2>2, <2>3, <2>4, <2>5
<1>11. CASE ReportLine
    <2>1. UNCHANGED shown /\ hline' = hline + 1
        BY <1>11 DEF ReportLine, clientVars
    <2>2. Aligned(down, sent, shown)'
        <3>1. CASE hline <= Len(Table)
            <4>1. PICK d \in {0, 1} :
                      Reply(<<Key("userstat"), Name(Table[hline]), Key("full name"), Digit(d, 0)>>,
                            "report")
                BY <1>11, <3>1 DEF ReportLine
            <4>2. Table[hline] \in Users
                <5>1. Table \in Seq(Users) /\ hline \in 1..Len(Table)
                    BY <1>0, <3>1, WireAssumption
                <5> QED
                    BY <5>1
            <4>3. d \in Figures
                BY DEF Figures
            <4> QED
                BY <1>0, <2>1, <4>1, <4>2, <4>3, RepliesAre, ReplyAligned
        <3>2. CASE ~(hline <= Len(Table))
            <4>1. Reply(<<Key("gibber")>>, "oper")
                BY <1>11, <3>2 DEF ReportLine
            <4>2. "gibber" \in Short
                BY DEF Short
            <4> QED
                BY <1>0, <2>1, <4>1, <4>2, RepliesAre, ReplyAligned
        <3> QED
            BY <3>1, <3>2
    <2>3. hline' \in Nat \ {0}
        BY <1>0, <2>1
    <2> QED
        BY <2>2, <2>3 DEF LinesInv
<1>12. CASE Forward
    <2>1. UNCHANGED <<shown, hline>>
        BY <1>12 DEF Forward, clientVars
    <2>2. CASE cpc # "gone"
        <3>1. PICK u \in Users :
                  /\ down' = Append(down, Str(<<Key("inc_msg"), Name(u), Text(mail + 1)>>))
                  /\ sent' = Printed(sent, Str(<<Key("inc_msg"), Name(u), Text(mail + 1)>>))
            BY <1>12, <2>2 DEF Forward
        <3>2. Str(<<Key("inc_msg"), Name(u), Text(mail + 1)>>) \in Replies
            <4>1. mail + 1 \in Nat
                BY DEF Counting
            <4> QED
                BY <4>1, RepliesAre
        <3>3. Aligned(down', sent', shown')
            BY <1>0, <2>1, <3>1, <3>2, AlignedSend
        <3> QED
            BY <1>0, <2>1, <3>3 DEF LinesInv
    <2>3. CASE ~(cpc # "gone")
        BY <1>1, <1>12, <2>1, <2>3 DEF Forward
    <2> QED
        BY <2>2, <2>3
<1>13. CASE UNCHANGED vars
    BY <1>1, <1>13 DEF vars, clientVars, handlerVars
<1> QED
    BY <1>3, <1>4, <1>5, <1>6, <1>7, <1>8, <1>9, <1>10, <1>11, <1>12, <1>13
       DEF Next, Client, Handler

\* What the listener of the client prints, it prints of strings that were sent,
\* in their order, for any number of users, replies and messages: what runs
\* together with one on its way (recv and handle_output) costs whole lines, and
\* leaves no more of itself than its first words, at the end of a text.
THEOREM PrintedWasSent == Spec => []PrintsWhatWasSent
<1>1. LinesInv => PrintsWhatWasSent
    BY EmbedsFits DEF LinesInv, Aligned, PrintsWhatWasSent
<1> QED
    BY <1>1, LinesInit, LinesNext, MailCounted, PTL DEF Spec
=============================================================================
