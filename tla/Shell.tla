------------------------------- MODULE Shell -------------------------------
(***************************************************************************)
(* The shell (shell.c): what one typed line does to its descriptors, pipes *)
(* and children.  The shell runs one child at a time and carries the data  *)
(* itself: it waits for a stage to exit, copies what the stage left in its *)
(* pipe into the pipe of the next stage, and only then starts that one.    *)
(*                                                                         *)
(* Data are blocks, marked with the stage that wrote them.  A pair of C    *)
(* int x[2] is <<x[0], x[1]>>, so read[1] below is read[0] there.          *)
(***************************************************************************)
EXTENDS Integers, SequencesExt

CONSTANTS Lines,      \* what may be typed: sequences of words, operators, Space
          Programs,   \* the program called by a word: whether it is a filter,
                      \* and the blocks it writes of its own
          Space,
          NumFds,     \* descriptors of a process
          PipeCap,    \* blocks that fit into a pipe
          MaxLines,   \* lines typed and words completed, behind those of Init
          MaxNest     \* shells within shells

Fds == 0..(NumFds - 1)
Pipes == 1..(NumFds * (MaxNest + 1))
Fan == [op \in {"|", "||", "|||"} |-> CASE op = "|" -> 1 [] op = "||" -> 2 [] OTHER -> 3]
Redirections == {"<", ">", ">>"}
Ops == DOMAIN Fan \cup Redirections \cup {",", ";"}
End == "end"   \* cmd = NULL

ASSUME ShellAssumption ==
    /\ NumFds \in Nat /\ NumFds > 4 /\ PipeCap \in Nat \ {0}
    /\ MaxLines \in Nat /\ MaxNest \in Nat
    /\ \A word \in DOMAIN Programs :
          Programs[word] \in [filter : BOOLEAN, writes : Nat]
    /\ Space \notin Ops
    /\ \A typed \in Lines : typed \in Seq(Range(typed)) /\ End \notin Range(typed)

\* What a descriptor refers to.
Closed == <<"closed", 0>>
Keyboard == <<"keyboard", 0>>
Screen == <<"screen", 0>>
Disk == <<"disk", 0>>
ReadEnd(p) == <<"read", p>>
WriteEnd(p) == <<"write", p>>

VARIABLES
    pc,       \* prompt, loop (top of the for), stage and single (wait), copy;
              \* spin: getchar only returns EOF; gone
    lines,    \* how many more lines are typed
    line,     \* the line typed
    sh,       \* fd: the descriptors; pipe: what the pipes hold; cmds;
              \* refused: a descriptor was asked for and there was none
    i,        \* the command looked at
    in, out,  \* the copies of the shell's input and output
    redir,    \* input_fd and output_fd of shell_execute_redirected
    child,    \* the process that is waited for
    nest,     \* the descriptors of the shells that wait for a shell
    screen,   \* history, of this line: the blocks on the terminal,
    cut,      \* whether a child was interrupted, and
    before    \* the descriptors before it

locals == <<i, in, out, redir>>
history == <<cut, before>>
vars == <<pc, lines, line, sh, locals, child, nest, screen, history>>

Nobody == [in |-> Closed, out |-> Closed, reads |-> FALSE, left |-> 0]

-----------------------------------------------------------------------------
(* Descriptors. *)

Free(s) == {n \in Fds : s.fd[n] = Closed}
Slot(s) == IF Free(s) = {} THEN -1 ELSE Min(Free(s))

\* open and dup: the lowest free descriptor.
Open(s, file) == IF Slot(s) = -1 THEN [s EXCEPT !.refused = TRUE]
                 ELSE [s EXCEPT !.fd[Slot(s)] = file]

Close(s, ns) == [s EXCEPT !.fd = [n \in Fds |-> IF n \in ns THEN Closed ELSE @[n]]]

\* dup2(n, std), which leaves std alone if n is not open.
FileAt(s, n, std) ==
    IF n \in Fds /\ s.fd[n] # Closed THEN s.fd[n] ELSE s.fd[std]

HasEnd(s, file) == \E t \in {s.fd} \cup Range(nest) : file \in Range(t)

Unused(s) == {q \in Pipes : ~HasEnd(s, ReadEnd(q)) /\ ~HasEnd(s, WriteEnd(q))}

\* The place of a number in a set, and the number at a place.
Rank(S, x) == Cardinality({y \in S : y <= x})
Nth(S, k) == CHOOSE x \in S : Rank(S, x) = k

\* pipe() for the field that of the commands js, in this order: each takes the
\* two lowest free descriptors; nothing is stored when there are none.
MakePipes(s, js, that) ==
    LET made == 1..Min({Len(js), Cardinality(Free(s)) \div 2})
        For(j) == CHOOSE k \in made : js[k] = j
    IN [s EXCEPT
          !.fd = [x \in Fds |->
              LET k == (Rank(Free(s), x) + 1) \div 2
              IN IF x \notin Free(s) \/ k \notin made THEN @[x]
                 ELSE IF Rank(Free(s), x) % 2 = 1 THEN ReadEnd(Nth(Unused(s), k))
                 ELSE WriteEnd(Nth(Unused(s), k))],
          !.pipe = [q \in Pipes |-> IF q \in Unused(s) THEN << >> ELSE @[q]],
          !.cmds = [j \in DOMAIN @ |->
              IF \A k \in made : js[k] # j THEN @[j]
              ELSE [@[j] EXCEPT ![that] = <<Nth(Free(s), 2 * For(j) - 1),
                                            Nth(Free(s), 2 * For(j))>>]],
          !.refused = @ \/ Cardinality(Free(s)) < 2 * Len(js)]

\* A read of this descriptor finds the end of its file, or fails.
AtEnd(s, file, others) ==
    \A p \in Pipes : file = ReadEnd(p) =>
        s.pipe[p] = << >> /\ ~HasEnd(s, WriteEnd(p)) /\ WriteEnd(p) \notin others

\* Mutant of Room: a pipe holds any amount.
RoomAlways(s, p) == TRUE

Room(s, p) == Len(s.pipe[p]) < PipeCap

\* A block is written to each of the files that takes it.
Deliver(s, files, block) ==
    /\ sh' = [s EXCEPT !.pipe = [p \in Pipes |->
                 IF WriteEnd(p) \in files THEN Append(@[p], block) ELSE @[p]]]
    /\ screen' = IF Screen \in files THEN Append(screen, block) ELSE screen

-----------------------------------------------------------------------------
(* From the line to the commands. *)

\* shell_split_line: a space ends a word; but it looks at the length of the
\* last word, so a second space leaves an empty place, where the list ends.
Lex(acc, x) ==
    LET place(at) == IF at = Len(acc.toks) THEN Append(acc.toks, x) ELSE acc.toks
        at == acc.no + IF acc.open THEN 1 ELSE 0
    IN CASE x = Space -> [acc EXCEPT !.no = @ + acc.pos, !.open = FALSE]
         [] x \in Ops -> [toks |-> place(at), no |-> at + 1, pos |-> 0, open |-> FALSE]
         [] OTHER     -> [toks |-> place(acc.no), no |-> acc.no, pos |-> 1, open |-> TRUE]

Split(typed) ==
    LET read[n \in 0..Len(typed)] ==
            IF n = 0 THEN [toks |-> << >>, no |-> 0, pos |-> 0, open |-> FALSE]
            ELSE Lex(read[n - 1], typed[n])
    IN read[Len(typed)].toks

Command(word, n) == [cmd |-> word, read |-> <<n, n>>, write |-> <<n, n>>]

\* shell_parse: words up to the next operator are one command; an operator at
\* the place of a command is taken for one and entered again as an operator,
\* whose descriptors are not set (the memory is fresh from the system, 0).
Group(acc, t) ==
    IF t \notin Ops
    THEN [cmds |-> IF acc.word THEN acc.cmds ELSE Append(acc.cmds, Command(t, -1)),
          word |-> TRUE]
    ELSE [cmds |-> acc.cmds \o (IF acc.word THEN << >> ELSE <<Command(t, -1)>>)
                            \o <<Command(t, 0)>>,
          word |-> FALSE]

Parse(toks) ==
    LET read[n \in 0..Len(toks)] ==
            IF n = 0 THEN [cmds |-> << >>, word |-> FALSE]
            ELSE Group(read[n - 1], toks[n])
    IN Append(read[Len(toks)].cmds, Command(End, 0))

IsPipeline(toks) == Range(toks) \cap DOMAIN Fan # {}
IsRedirected(toks) == Range(toks) \cap Redirections # {}

-----------------------------------------------------------------------------
(* The prompt. *)

Opened(t) == {n \in Fds : t[n] # Closed}

Idle(s) == [s EXCEPT !.cmds = << >>,
                     !.pipe = [p \in Pipes |->
                         IF HasEnd(s, ReadEnd(p)) THEN @[p] ELSE << >>]]

\* Some words were completed, each of which left the directory open.
Init ==
    /\ pc = "prompt"
    /\ lines = MaxLines
    /\ \E used \in 2..(NumFds - 1) :
          sh = [fd |-> [n \in Fds |-> CASE n = 0 -> Keyboard [] n \in {1, 2} -> Screen
                                      [] OTHER -> IF n <= used THEN Disk ELSE Closed],
                pipe |-> [p \in Pipes |-> << >>], cmds |-> << >>, refused |-> FALSE]
    /\ line = << >> /\ screen = << >> /\ nest = << >>
    /\ i = 1 /\ in = -1 /\ out = -1 /\ redir = <<0, 1>>
    /\ child = Nobody /\ cut = FALSE /\ before = sh.fd

Type ==
    /\ pc = "prompt" /\ sh.fd[0] = Keyboard
    /\ lines > 0 /\ lines' = lines - 1

\* Tab behind a word: the directory is closed again only if nothing matched.
Complete ==
    /\ Type
    /\ \E found \in BOOLEAN :
         sh' = IF found THEN [Open(sh, Disk) EXCEPT !.refused = FALSE] ELSE sh
    /\ UNCHANGED <<pc, line, locals, child, nest, screen, history>>

\* A line that is empty, or has both pipes and redirections, is dropped.
\* Else the executor first copies the shell's input and output.
Enter(typed) ==
    /\ Type
    /\ LET toks == Split(typed)
           dup0 == Open([sh EXCEPT !.cmds = Parse(toks), !.refused = FALSE], sh.fd[0])
           dup1 == Open(dup0, sh.fd[1])
       IN /\ toks # << >> /\ ~(IsPipeline(toks) /\ IsRedirected(toks))
          /\ sh' = IF IsPipeline(toks) THEN [dup1 EXCEPT !.cmds[1].read[1] = 0] ELSE dup1
          /\ in' = Slot(sh) /\ out' = Slot(dup0)
          /\ pc' = IF IsPipeline(toks) THEN "loop" ELSE "redirect"
    /\ line' = typed
    /\ i' = 1 /\ screen' = << >> /\ cut' = FALSE /\ before' = sh.fd
    /\ UNCHANGED <<redir, child, nest>>

\* getchar has no end: shell_read_line reads EOF for ever.
InputLost ==
    /\ pc = "prompt" /\ sh.fd[0] # Keyboard
    /\ pc' = "spin"
    /\ UNCHANGED <<line, sh, locals, child, nest, screen, history>>

\* Mutant of Restore: the copies are not put back.
RestoreNothing(s) == s

\* dup2(in, 0), dup2(out, 1).
Restore(s) == [s EXCEPT !.fd = [@ EXCEPT ![0] = FileAt(s, in, 0), ![1] = FileAt(s, out, 1)]]

Return(s) ==
    /\ pc' = "prompt"
    /\ sh' = Idle(s)
    /\ line' = << >> /\ i' = 1 /\ in' = -1 /\ out' = -1 /\ redir' = <<0, 1>>
    /\ child' = Nobody

\* The process ends; the shell that waited for it, if any, has a prompt again
\* (its own dup2 change nothing, as it had redirected nothing).
Quit ==
    IF nest = << >>
    THEN pc' = "gone" /\ UNCHANGED <<line, sh, locals, child, nest>>
    ELSE nest' = Front(nest) /\ Return([sh EXCEPT !.fd = Last(nest)])

\* Ctrl+D.
Exit ==
    /\ pc = "prompt" /\ sh.fd[0] = Keyboard
    /\ Quit
    /\ UNCHANGED <<screen, history>>

-----------------------------------------------------------------------------
(* shell_execute_pipeline. *)

cmd == sh.cmds[i].cmd
Next1 == sh.cmds[i + 1].cmd

\* The places of the stages that operator i feeds.
Heads == {i + 2 * k - 1 : k \in 1..Fan[cmd]}

\* A "||" or "|||" is followed by its stages and the commas between them.
Fed ==
    /\ i > 1
    /\ \A j \in Heads : j < Len(sh.cmds)
    /\ \A j \in Heads : j > i + 1 => sh.cmds[j - 1].cmd = ","

\* What the copy loop reads, what it writes, and what is closed behind it.
Source(s) == IF s.cmds[i].cmd \in Ops THEN s.cmds[i].read[1] ELSE s.cmds[i].write[1]
Sinks(s) ==
    CASE cmd = ";"             -> {out}
      [] cmd \in DOMAIN Fan    -> {s.cmds[j].read[2] : j \in Heads}
      [] OTHER                 -> {s.cmds[i + 1].read[2]}
\* Mutant of Leave: the write ends stay open.
LeaveOpen(s) == IF cmd = ";" THEN s ELSE Close(s, {Source(s)})
\* Mutant of Leave: the pipe that was read stays open.
LeaveSource(s) == IF cmd = ";" THEN s ELSE Close(s, Sinks(s))

Leave(s) == IF cmd = ";" THEN s ELSE Close(s, {Source(s)} \cup Sinks(s))

Goto(j) == pc' = "loop" /\ i' = j

\* | || |||
Feed ==
    /\ pc = "loop" /\ cmd \in DOMAIN Fan
    /\ IF Fed THEN /\ sh' = MakePipes(sh, [k \in 1..Fan[cmd] |-> i + 2 * k - 1], "read")
                   /\ pc' = "copy" /\ UNCHANGED i
              ELSE UNCHANGED sh /\ Goto(Len(sh.cmds))
    /\ UNCHANGED <<line, in, out, redir, child, nest, screen, history>>

\* ; ends the line with the output of the stage before it.
Semicolon ==
    /\ pc = "loop" /\ cmd = ";"
    /\ pc' = "copy"
    /\ UNCHANGED <<line, sh, locals, child, nest, screen, history>>

\* A comma, and cd within a pipeline, which changes the shell's directory.
Skip ==
    /\ pc = "loop" /\ cmd \in {",", "cd"}
    /\ Goto(i + 1)
    /\ UNCHANGED <<line, sh, in, out, redir, child, nest, screen, history>>

\* The child execs; what cannot be executed exits.
Start(word, s, n0, n1) ==
    child' = [in |-> FileAt(s, n0, 0), out |-> FileAt(s, n1, 1),
              reads |-> word \in DOMAIN Programs /\ Programs[word].filter,
              left |-> IF word \in DOMAIN Programs THEN Programs[word].writes ELSE 0]

Fork ==
    /\ pc = "loop" /\ cmd \notin DOMAIN Fan \cup {",", ";", "cd", End}
    /\ LET s == IF sh.cmds[i].write[2] = -1 THEN MakePipes(sh, <<i>>, "write") ELSE sh
       IN sh' = s /\ Start(cmd, s, s.cmds[i].read[1], s.cmds[i].write[2])
    /\ pc' = "stage"
    /\ UNCHANGED <<line, locals, nest, screen, history>>

\* Mutant of Own: the write end of the stage's pipe stays open.
OwnRead(s) == {s.cmds[i].read[1]}

\* What the shell held for the child.
Own(s) == {s.cmds[i].read[1], s.cmds[i].write[2]}

\* Behind wait: a pipe to the next command, or the output itself.
Drain ==
    /\ LET s == IF Next1 = End THEN [sh EXCEPT !.cmds[i + 1].read[2] = out]
                ELSE MakePipes(sh, <<i + 1>>, "read")
       IN sh' = Close(s, Own(s))
    /\ child' = Nobody
    /\ pc' = "copy"
    /\ UNCHANGED <<line, locals, nest, screen, history>>

\* Mutant of Reap: the shell does not wait for the child.
ReapEarly == pc = "stage" /\ Drain

Reap == pc = "stage" /\ ~child.reads /\ child.left = 0 /\ Drain

\* One turn of the copy loop.  Writing into a pipe that nobody can read is
\* fatal; into a full one, or reading an empty one, blocks.
SinkFiles == {sh.fd[n] : n \in Sinks(sh) \cap Fds}
SourceFile == IF Source(sh) \in Fds THEN sh.fd[Source(sh)] ELSE Closed

CopyBlock ==
    /\ pc = "copy"
    /\ \E p \in Pipes :
         /\ SourceFile = ReadEnd(p) /\ sh.pipe[p] # << >>
         /\ LET s == [sh EXCEPT !.pipe[p] = Tail(@)]
            IN /\ \A q \in Pipes : WriteEnd(q) \in SinkFiles => Room(s, q)
               /\ Deliver(s, SinkFiles, Head(sh.pipe[p]))
    /\ UNCHANGED <<pc, line, locals, child, nest, history>>

\* Mutant of Hand: nothing is handed on.
HandNothing(s) == s

\* The stages behind || and ||| write to the shell's output themselves.
Hand(s) ==
    IF cmd \notin {"||", "|||"} THEN s
    ELSE [s EXCEPT !.cmds = [j \in DOMAIN @ |->
             IF j \in Heads THEN [@[j] EXCEPT !.write[2] = out] ELSE @[j]]]

CopyEnd ==
    /\ pc = "copy" /\ AtEnd(sh, SourceFile, {})
    /\ sh' = Hand(Leave(sh))
    /\ Goto(IF cmd = ";" THEN Len(sh.cmds) ELSE i + 1)
    /\ UNCHANGED <<line, in, out, redir, child, nest, screen, history>>

Finish ==
    /\ pc = "loop" /\ cmd = End
    /\ Return(Restore(sh))
    /\ UNCHANGED <<nest, screen, history>>

-----------------------------------------------------------------------------
(* shell_execute_redirected. *)

\* A turn of the loop over the commands.  Each file stays open.  Without a
\* descriptor or a file "<" gives up, and ">" follows the NULL of fopen.
Redirect ==
    /\ pc = "redirect" /\ cmd # End
    /\ UNCHANGED <<screen, history>>
    /\ \/ /\ cmd \notin Redirections
          /\ i' = i + 1
          /\ UNCHANGED <<pc, line, sh, in, out, redir, child, nest>>
       \/ /\ cmd \in Redirections /\ Next1 = End
          /\ Return(sh)
          /\ UNCHANGED nest
       \/ /\ cmd \in Redirections /\ Next1 # End
          /\ IF cmd = "<" THEN Return(sh) /\ UNCHANGED nest ELSE Quit
       \/ /\ cmd \in Redirections /\ Next1 # End /\ Slot(sh) # -1
          /\ sh' = Open(sh, Disk)
          /\ redir' = [redir EXCEPT ![IF cmd = "<" THEN 1 ELSE 2] = Slot(sh)]
          /\ i' = i + 2
          /\ UNCHANGED <<pc, line, in, out, child, nest>>

Single ==
    /\ pc = "redirect" /\ cmd = End
    /\ sh.cmds[1].cmd # "cd"
    /\ Start(sh.cmds[1].cmd, sh, redir[1], redir[2])
    /\ i' = 1
    /\ pc' = "single"
    /\ UNCHANGED <<line, sh, in, out, redir, nest, screen, history>>

\* The child does the cd and returns to shell_loop: a shell of its own.
Nest ==
    /\ pc = "redirect" /\ cmd = End
    /\ sh.cmds[1].cmd = "cd"
    /\ Len(nest) < MaxNest
    /\ nest' = Append(nest, sh.fd)
    /\ Return([sh EXCEPT !.fd = [@ EXCEPT ![0] = FileAt(sh, redir[1], 0),
                                          ![1] = FileAt(sh, redir[2], 1)]])
    /\ UNCHANGED <<screen, history>>

ReapSingle ==
    /\ pc = "single" /\ ~child.reads /\ child.left = 0
    /\ Return(Restore(sh))
    /\ UNCHANGED <<nest, screen, history>>

-----------------------------------------------------------------------------
(* The child. *)

Running == pc \in {"stage", "single"} /\ (child.reads \/ child.left > 0)
Ends == {child.in, child.out}

ChildRead ==
    /\ Running /\ child.reads
    /\ \E p \in Pipes :
         /\ child.in = ReadEnd(p) /\ sh.pipe[p] # << >>
         /\ sh' = [sh EXCEPT !.pipe[p] = Tail(@)]
         /\ child' = [child EXCEPT !.left = @ + 1]
    /\ UNCHANGED <<pc, line, locals, nest, screen, history>>

\* The user has typed nothing but the end, and files are empty.
ChildEof ==
    /\ Running /\ child.reads /\ AtEnd(sh, child.in, Ends)
    /\ child' = [child EXCEPT !.reads = FALSE]
    /\ UNCHANGED <<pc, line, sh, locals, nest, screen, history>>

ChildWrite ==
    /\ Running /\ ~child.reads
    /\ \A p \in Pipes : child.out = WriteEnd(p) => Room(sh, p)
    /\ Deliver(sh, {child.out}, i)
    /\ child' = [child EXCEPT !.left = @ - 1]
    /\ UNCHANGED <<pc, line, locals, nest, history>>

Child == ChildRead \/ ChildEof \/ ChildWrite

\* Ctrl+C ends the child; the shell has a handler and its wait is restarted.
Interrupt ==
    /\ Running
    /\ child' = [child EXCEPT !.reads = FALSE, !.left = 0]
    /\ cut' = TRUE
    /\ UNCHANGED <<pc, line, sh, locals, nest, screen, before>>

-----------------------------------------------------------------------------
Work ==
    \/ Feed \/ Semicolon \/ Skip \/ Fork \/ Reap
    \/ CopyBlock \/ CopyEnd \/ Finish
    \/ Redirect \/ Single \/ Nest \/ ReapSingle

Next ==
    \/ (\E typed \in Lines : Enter(typed)) \/ Complete
    \/ (Work \/ Child \/ InputLost \/ Exit \/ Interrupt) /\ UNCHANGED lines

Spec == Init /\ [][Next]_vars

\* The shell and its children are processes that are scheduled; the user
\* promises nothing.
FairSpec == Spec /\ WF_vars(Work /\ UNCHANGED lines) /\ WF_vars(Child /\ UNCHANGED lines)
-----------------------------------------------------------------------------
File == {Closed, Keyboard, Screen, Disk} \cup {ReadEnd(p) : p \in Pipes}
                                         \cup {WriteEnd(p) : p \in Pipes}

Numbers == Fds \cup {-1}
Commands == [cmd : (UNION {Range(typed) : typed \in Lines}) \cup {End},
             read : Numbers \X Numbers, write : Numbers \X Numbers]

TypeOK ==
    /\ pc \in {"prompt", "loop", "redirect", "stage", "single", "copy", "spin", "gone"}
    /\ lines \in 0..MaxLines
    /\ line \in Lines \cup {<< >>}
    /\ sh \in [fd : [Fds -> File], pipe : [Pipes -> Seq(Nat)],
              cmds : Seq(Commands), refused : BOOLEAN]
    /\ \A p \in Pipes : Len(sh.pipe[p]) <= PipeCap
    /\ i \in 1..Len(sh.cmds) \/ sh.cmds = << >>
    /\ {in, out} \subseteq Numbers /\ redir \in Fds \X Fds
    /\ child \in [in : File, out : File, reads : BOOLEAN, left : Nat]
    /\ before \in [Fds -> File]
    /\ nest \in Seq([Fds -> File]) /\ Len(nest) <= MaxNest
    /\ screen \in Seq(Nat) /\ cut \in BOOLEAN

(* What a line means, by the guide: stages with "|" between them, the last *)
(* of which may be a "||" or "|||" with two or three stages behind it.     *)

\* The words of a line up to a word with two spaces behind it.
Typed(typed) ==
    LET ends == {n \in 1..(Len(typed) - 2) : /\ typed[n] \notin Ops \cup {Space}
                                             /\ typed[n + 1] = Space /\ typed[n + 2] = Space}
        read == IF ends = {} THEN typed ELSE SubSeq(typed, 1, Min(ends))
    IN SelectSeq(read, LAMBDA x : x # Space)

Alternates(ts, op) ==
    /\ Len(ts) % 2 = 1
    /\ \A n \in DOMAIN ts : IF n % 2 = 1 THEN ts[n] \in DOMAIN Programs ELSE ts[n] = op

\* The place of the operator that feeds several stages, if there is one.
ForkAt(ts) == {n \in DOMAIN ts : ts[n] \in {"||", "|||"}}
Trunk(ts) == IF ForkAt(ts) = {} THEN ts ELSE SubSeq(ts, 1, Min(ForkAt(ts)) - 1)
Branches(ts) == IF ForkAt(ts) = {} THEN << >> ELSE SubSeq(ts, Min(ForkAt(ts)) + 1, Len(ts))

Guide(ts) ==
    /\ Alternates(Trunk(ts), "|")
    /\ ForkAt(ts) # {} => /\ Alternates(Branches(ts), ",")
                          /\ Len(Branches(ts)) = 2 * Fan[ts[Min(ForkAt(ts))]] - 1

Stages(ts) == SelectSeq(ts, LAMBDA x : x \notin Ops)
Amount(n, word) == Programs[word].writes + IF Programs[word].filter THEN n ELSE 0
Flow(ts) == FoldLeft(Amount, 0, Stages(ts))

\* What the terminal gets: the blocks of each last stage, one after the other.
Shown(ts) ==
    LET of(n, at) == [m \in 1..n |-> at]
        start == Len(Trunk(ts)) + 1
        bs == Stages(Branches(ts))
    IN IF ForkAt(ts) = {} THEN of(Flow(ts), Len(ts))
       ELSE FlattenSeq([k \in DOMAIN bs |-> of(Amount(Flow(Trunk(ts)), bs[k]), start + 2 * k - 1)])

\* The stages of a pipeline write into pipes, all but those behind "||".
Fits(ts) ==
    Len(ts) > 1 => \A n \in 1..Len(Trunk(ts)) : Flow(SubSeq(ts, 1, n)) <= PipeCap

AtEndOfLine == (pc = "loop" /\ cmd = End) \/ (pc = "single" /\ ~Running)

\* A line of the guide that comes to its end has shown what it means.
ShowsResult ==
    AtEndOfLine /\ Guide(Typed(line)) /\ ~cut /\ ~sh.refused
        => screen = Shown(Typed(line))

\* A stage that writes more than a pipe holds never ends by itself.
OverfullNeedsInterrupt ==
    AtEndOfLine /\ Guide(Typed(line)) /\ ~sh.refused => Fits(Typed(line)) \/ cut

\* The guide has it that || and ||| are the last pipe of a line.
LastFork ==
    \A m, n \in DOMAIN sh.cmds :
        sh.cmds[m].cmd \in {"||", "|||"} /\ sh.cmds[n].cmd \in DOMAIN Fan => n <= m

\* ... and that an operator stands behind a stage.
Joined ==
    \A n \in DOMAIN sh.cmds : sh.cmds[n].cmd \in DOMAIN Fan \cup {";"} =>
        n > 1 /\ sh.cmds[n - 1].cmd \notin Ops \cup {"cd"}

\* On such a line, as long as there are descriptors, and unless an earlier line
\* has left the shell a pipe for its output, the shell's own copying goes on: it
\* never blocks, where Ctrl+C would not help, and never writes to a pipe without
\* a reader, which would kill it.
CopyGoesOn ==
    pc = "copy" /\ LastFork /\ Joined /\ ~sh.refused /\ before[1] \in {Screen, Disk} =>
        \/ AtEnd(sh, SourceFile, {})
        \/ \E p \in Pipes : /\ SourceFile = ReadEnd(p) /\ sh.pipe[p] # << >>
                           /\ \A q \in Pipes : WriteEnd(q) \in SinkFiles =>
                                 Room(sh, q) /\ HasEnd(sh, ReadEnd(q))

\* Behind such a line the prompt has the input and the output that it had
\* before, although the copies of them are closed, or their numbers used for
\* pipes, on the way: unless the line ran out of descriptors.
KeepsTerminal ==
    [][pc # "prompt" /\ pc' = "prompt" /\ nest' = nest /\ LastFork /\ ~sh.refused
          => sh'.fd[0] = before[0] /\ sh'.fd[1] = before[1]]_vars

\* What a line leaves open.
LeaksPerLine ==
    AtEndOfLine /\ Guide(Typed(line)) /\ ~sh.refused =>
        LET left == Opened(Restore(sh).fd) \ Opened(before)
        IN Cardinality(left) = IF Len(Typed(line)) = 1 THEN 2
                               ELSE IF ForkAt(Typed(line)) = {} THEN 1 ELSE 2

\* A line whose stages fit ends, whatever the shell has gone through before.
LineEnds == Guide(Typed(line)) /\ Fits(Typed(line)) ~> pc = "prompt" \/ sh.refused
=============================================================================
