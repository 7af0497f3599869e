----------------------------- MODULE ShellProofs -----------------------------
(***************************************************************************)
(* Proofs about the shell, for any lines that may be typed, any programs,  *)
(* descriptors, pipes and depth of nested shells:                          *)
(*                                                                         *)
(*   TypeCorrect     the type invariant; with it that a line of words is   *)
(*                   split, parsed and walked through within its bounds;   *)
(*   TerminalKept    the action property KeepsTerminal, from an invariant  *)
(*                   on the copies of the shell's input and output;        *)
(*   CopyNeverStuck  the invariant CopyGoesOn, from one on the pipes       *)
(*                   around the command that the shell looks at.           *)
(*                                                                         *)
(* First come what pipe() does with the lowest free descriptors, and what  *)
(* the split and the parse of a line look like, then what each helper of   *)
(* the actions returns, then the three theorems, each with a lemma for     *)
(* every action that its invariant notices.                                *)
(***************************************************************************)
EXTENDS Shell, FiniteSetTheorems, WellFoundedInduction, SequenceTheorems, TLAPS

\* The state of a shell.
Shells == [fd : [Fds -> File], pipe : [Pipes -> Seq(Nat)],
           cmds : Seq(Commands), refused : BOOLEAN]

-----------------------------------------------------------------------------
(* The least members of a set of descriptors. *)

\* A set of numbers that is not empty has a least one.
LEMMA Least ==
    ASSUME NEW S, S \subseteq Nat, S # {}
    PROVE \E n \in S : \A m \in S : n <= m
<1>1. \E x \in S : \A y \in S : ~(<<y, x>> \in OpToRel(<, Nat))
    BY NatLessThanWellFounded, WFMin, Zenon
<1>2. PICK x \in S : \A y \in S : ~(<<y, x>> \in OpToRel(<, Nat))
    BY <1>1, Zenon
<1>3. \A y \in S : ~(y < x)
    <2> TAKE y \in S
    <2>1. ~(<<y, x>> \in OpToRel(<, Nat))
        BY <1>2, Zenon
    <2>2. y \in Nat /\ x \in Nat
        BY <1>2
    <2> QED
        BY <2>1, <2>2, Zenon DEF OpToRel
<1>4. \A y \in S : x <= y
    BY <1>3
<1> QED
    BY <1>4

\* Min is that one.
LEMMA MinIs ==
    ASSUME NEW S, S \subseteq Nat, S # {}
    PROVE Min(S) \in S /\ \A n \in S : Min(S) <= n
BY Least DEF Min

\* As do the numbers up to some bound have a greatest.
LEMMA Greatest ==
    ASSUME NEW b \in Nat, NEW S, S \subseteq 0..b, S # {}
    PROVE \E n \in S : \A m \in S : m <= n
<1> DEFINE T == {t \in 0..b : b - t \in S}
<1>1. T \subseteq Nat /\ T # {}
    <2>1. PICK n \in S : TRUE
        OBVIOUS
    <2>2. b - n \in T
        BY <2>1
    <2> QED
        BY <2>2
<1>2. PICK t \in T : \A u \in T : t <= u
    BY <1>1, Least
<1>3. \A m \in S : m <= b - t
    <2> TAKE m \in S
    <2>1. m \in 0..b
        OBVIOUS
    <2>2. b - m \in 0..b /\ b - (b - m) = m
        BY <2>1
    <2>3. b - m \in T
        BY <2>2
    <2>4. t <= b - m /\ t \in 0..b
        BY <1>2, <2>3
    <2> QED
        BY <2>1, <2>4
<1> QED
    BY <1>2, <1>3

\* What is behind another has a greater place.
LEMMA RankGrows ==
    ASSUME NEW b \in Nat, NEW S, S \subseteq 0..b, NEW x \in S, NEW y \in S, x < y
    PROVE Rank(S, x) < Rank(S, y)
<1> DEFINE X == {z \in S : z <= x}
           Y == {z \in S : z <= y}
<1> HIDE DEF X, Y
<1>8. \A z \in S : z \in Int
    OBVIOUS
<1>9. \A z \in Y : z \in 0..b
    BY DEF Y
<1>0. Y \in SUBSET (0..b)
    BY <1>9
<1>1. IsFiniteSet(0..b)
    BY FS_Interval
<1>2. IsFiniteSet(Y)
    BY <1>0, <1>1, FS_Subset
<1>3. X \in SUBSET Y /\ y \in Y /\ y \notin X
    <2>1. \A z \in S : z <= x => z <= y
        BY <1>8
    <2>2. y <= y /\ ~(y <= x)
        BY <1>8
    <2>3. \A z \in X : z \in Y
        BY <2>1 DEF X, Y
    <2> QED
        BY <2>2, <2>3 DEF X, Y
<1>4. Cardinality(X) < Cardinality(Y)
    <2>1. Cardinality(X) <= Cardinality(Y) /\ Cardinality(X) # Cardinality(Y)
        BY <1>2, <1>3, FS_Subset
    <2>2. Cardinality(X) \in Nat /\ Cardinality(Y) \in Nat
        BY <1>2, <1>3, FS_Subset, FS_CardinalityType
    <2> QED
        BY <2>1, <2>2
<1> QED
    BY <1>4 DEF Rank, X, Y

\* Places are numbers from 1 on.
LEMMA RankType ==
    ASSUME NEW b \in Nat, NEW S, S \subseteq 0..b, NEW x \in S
    PROVE Rank(S, x) \in 1..Cardinality(S) /\ Cardinality(S) \in Nat
<1> DEFINE X == {z \in S : z <= x}
<1>1. IsFiniteSet(0..b)
    BY FS_Interval
<1>2. IsFiniteSet(S)
    BY <1>1, FS_Subset
<1>3. X \subseteq S /\ x \in X
    OBVIOUS
<1>4. Cardinality(X) <= Cardinality(S) /\ IsFiniteSet(X)
    BY <1>2, <1>3, FS_Subset
<1>5. Cardinality(X) \in Nat /\ Cardinality(S) \in Nat /\ Cardinality(X) # 0
    BY <1>2, <1>3, <1>4, FS_CardinalityType, FS_EmptySet
<1> QED
    BY <1>4, <1>5 DEF Rank

\* Every place up to the last is taken.
LEMMA NthIs ==
    ASSUME NEW b \in Nat, NEW S, S \subseteq 0..b,
           NEW k \in 1..Cardinality(S)
    PROVE Nth(S, k) \in S /\ Rank(S, Nth(S, k)) = k
<1> DEFINE T == {x \in S : k <= Rank(S, x)}
<1>0. IsFiniteSet(S) /\ Cardinality(S) \in Nat
    <2>1. IsFiniteSet(0..b) /\ S \in SUBSET (0..b)
        BY FS_Interval
    <2>2. IsFiniteSet(S)
        BY <2>1, FS_Subset
    <2> QED
        BY <2>2, FS_CardinalityType
<1>1. \A x \in S : Rank(S, x) \in 1..Cardinality(S) /\ Rank(S, x) \in Nat /\ x \in Nat
    <2> TAKE x \in S
    <2>1. Rank(S, x) \in 1..Cardinality(S)
        BY RankType
    <2> QED
        BY <2>1, <1>0
<1>2. T # {}
    <2>1. S # {}
        BY <1>0, FS_EmptySet
    <2>2. PICK x \in S : \A y \in S : y <= x
        BY <2>1, Greatest
    <2>3. {y \in S : y <= x} = S
        BY <2>2
    <2>4. Rank(S, x) = Cardinality(S)
        BY <2>3 DEF Rank
    <2> QED
        BY <2>4, <1>0
<1>3. T \subseteq Nat
    BY <1>1
<1>4. PICK x \in T : \A y \in T : x <= y
    BY <1>2, <1>3, Least
<1>5. Rank(S, x) = k
    <2> SUFFICES ASSUME Rank(S, x) > k
                 PROVE FALSE
        BY <1>1
    <2> DEFINE X == {y \in S : y <= x}
               B == {y \in S : y < x}
    <2>0. S \subseteq Int /\ x \in S
        BY <1>1, <1>4
    <2>1. B = X \ {x} /\ x \in X
        <3>1. x \in X
            BY <2>0
        <3>2. \A y \in S : y < x <=> y <= x /\ y # x
            BY <2>0
        <3>3. \A y : y \in B <=> y \in X \ {x}
            BY <3>2
        <3> HIDE DEF B, X
        <3> QED
            BY <3>1, <3>3
    <2>2. IsFiniteSet(X) /\ X \subseteq S
        BY <1>0, FS_Subset
    <2>3. Cardinality(B) = Cardinality(X) - 1 /\ IsFiniteSet(B) /\ Cardinality(X) \in Nat
        <3> HIDE DEF X, B
        <3> QED
            BY <2>1, <2>2, FS_RemoveElement, FS_CardinalityType
    <2>4. Cardinality(B) >= k
        BY <2>3, <1>1 DEF Rank
    <2>5. B # {}
        BY <2>4, <2>3, FS_EmptySet
    <2>6. PICK y \in B : \A z \in B : z <= y
        <3>1. B \subseteq 0..b
            OBVIOUS
        <3> HIDE DEF B
        <3> QED
            BY <3>1, <2>5, Greatest
    <2>7. {z \in S : z <= y} = B
        <3>1. y \in S /\ y < x
            BY <2>6
        <3>2. \A z \in S : z <= y => z < x
            BY <3>1, <1>1
        <3> QED
            BY <3>2, <2>6
    <2>8. Rank(S, y) >= k
        BY <2>7, <2>4 DEF Rank
    <2>9. y \in T /\ y < x
        BY <2>8, <2>6
    <2> QED
        BY <2>9, <1>4, <1>3
<1>6. \E z \in S : Rank(S, z) = k
    BY <1>5
<1> QED
    BY <1>6 DEF Nth

\* No two have the same place.
LEMMA NthOnly ==
    ASSUME NEW b \in Nat, NEW S, S \subseteq 0..b, NEW x \in S, NEW y \in S,
           Rank(S, x) = Rank(S, y)
    PROVE x = y
<1>1. Rank(S, x) \in 1..Cardinality(S) /\ Cardinality(S) \in Nat
    BY RankType
<1>2. ASSUME x < y PROVE FALSE
    <2>1. Rank(S, x) < Rank(S, y)
        BY <1>2, RankGrows
    <2> QED
        BY <1>1, <2>1
<1>3. ASSUME y < x PROVE FALSE
    <2>1. Rank(S, y) < Rank(S, x)
        BY <1>3, RankGrows
    <2> QED
        BY <1>1, <2>1
<1>4. x \in Int /\ y \in Int
    OBVIOUS
<1> QED
    BY <1>2, <1>3, <1>4

-----------------------------------------------------------------------------
(* Files, and pipes that nobody has. *)

\* The shells that wait.
Waiting == nest \in Seq([Fds -> File]) /\ Len(nest) <= MaxNest

\* Whether a file is open here or in a shell that waits.
LEMMA HasEndIs ==
    ASSUME Waiting, NEW s \in Shells, NEW f
    PROVE HasEnd(s, f) <=> \/ \E n \in Fds : s.fd[n] = f
                           \/ \E k \in DOMAIN nest : \E n \in Fds : nest[k][n] = f
<1>1. s.fd \in [Fds -> File]
    BY DEF Shells
<1>2. \A k \in DOMAIN nest : nest[k] \in [Fds -> File]
    BY DEF Waiting
<1>3. \A t \in [Fds -> File] : f \in Range(t) <=> \E n \in Fds : t[n] = f
    BY DEF Range
<1>4. \A t : t \in Range(nest) <=> \E k \in DOMAIN nest : t = nest[k]
    BY DEF Range
<1> QED
    BY <1>1, <1>2, <1>3, <1>4 DEF HasEnd

\* The ends of pipes are told apart.
LEMMA EndsDiffer ==
    ASSUME NEW p, NEW q
    PROVE /\ ReadEnd(p) = ReadEnd(q) <=> p = q
          /\ WriteEnd(p) = WriteEnd(q) <=> p = q
          /\ ReadEnd(p) # WriteEnd(q)
          /\ ReadEnd(p) \notin {Closed, Keyboard, Screen, Disk}
          /\ WriteEnd(p) \notin {Closed, Keyboard, Screen, Disk}
BY DEF ReadEnd, WriteEnd, Closed, Keyboard, Screen, Disk

\* A table has as many places as there are descriptors.
LEMMA FdsFinite == IsFiniteSet(Fds) /\ Cardinality(Fds) = NumFds
BY ShellAssumption, FS_Interval DEF Fds

\* As many pipes are unused as descriptors are free.
LEMMA Enough ==
    ASSUME Waiting, NEW s \in Shells
    PROVE /\ Cardinality(Free(s)) <= Cardinality(Unused(s))
          /\ Cardinality(Free(s)) \in Nat /\ Cardinality(Unused(s)) \in Nat
<1> DEFINE L == Len(nest)
           Slots == (0..L) \X Fds
           At(t) == IF t[1] = 0 THEN s.fd[t[2]] ELSE nest[t[1]][t[2]]
           Here == {0} \X Free(s)
           Used == Pipes \ Unused(s)
           g == [q \in Used |-> CHOOSE t \in Slots \ Here : At(t) \in {ReadEnd(q), WriteEnd(q)}]
<1>1. L \in Nat /\ L <= MaxNest /\ MaxNest \in Nat /\ NumFds \in Nat /\ DOMAIN nest = 1..L
    BY ShellAssumption, LenProperties DEF Waiting
<1>2. ASSUME NEW q \in Used
      PROVE \E t \in Slots \ Here : At(t) \in {ReadEnd(q), WriteEnd(q)}
    <2>1. PICK f \in {ReadEnd(q), WriteEnd(q)} : HasEnd(s, f)
        BY DEF Unused
    <2>2. f # Closed
        BY EndsDiffer
    <2>3. CASE \E n \in Fds : s.fd[n] = f
        <3>1. PICK n \in Fds : s.fd[n] = f
            BY <2>3
        <3>2. <<0, n>> \in Slots /\ <<0, n>> \notin Here
            BY <3>1, <2>2, <1>1 DEF Free
        <3>3. At(<<0, n>>) = f
            BY <3>1
        <3> QED
            BY <3>2, <3>3
    <2>4. CASE \E k \in DOMAIN nest : \E n \in Fds : nest[k][n] = f
        <3>1. PICK k \in DOMAIN nest : \E n \in Fds : nest[k][n] = f
            BY <2>4
        <3>2. PICK n \in Fds : nest[k][n] = f
            BY <3>1
        <3>3. k \in 1..L /\ k # 0
            BY <1>1
        <3>4. <<k, n>> \in Slots /\ <<k, n>> \notin Here
            BY <3>3, <1>1
        <3>5. At(<<k, n>>) = f
            BY <3>2, <3>3
        <3> QED
            BY <3>4, <3>5
    <2> QED
        BY <2>1, <2>3, <2>4, HasEndIs
<1>3. \A q \in Used : g[q] \in Slots \ Here /\ At(g[q]) \in {ReadEnd(q), WriteEnd(q)}
    BY <1>2
<1>4. g \in Injection(Used, Slots \ Here)
    <2> HIDE DEF At, Slots, Here, Used
    <2>1. g \in [Used -> Slots \ Here]
        BY <1>3
    <2>2. ASSUME NEW p \in Used, NEW q \in Used, g[p] = g[q]
          PROVE p = q
        BY <1>3, <2>2, EndsDiffer
    <2> HIDE DEF g
    <2> QED
        BY <2>1, <2>2 DEF Injection, IsInjective
<1>5. IsFiniteSet(Free(s)) /\ Cardinality(Free(s)) \in Nat
    <2>1. Free(s) \in SUBSET Fds
        BY DEF Free
    <2> QED
        BY <2>1, FdsFinite, FS_Subset, FS_CardinalityType
<1>6. IsFiniteSet(Slots) /\ Cardinality(Slots) = (L + 1) * NumFds
    <2>1. IsFiniteSet(0..L) /\ Cardinality(0..L) = L + 1
        BY <1>1, FS_Interval
    <2> QED
        BY <2>1, FdsFinite, FS_Product
<1>7. IsFiniteSet(Here) /\ Cardinality(Here) = Cardinality(Free(s))
    <2> DEFINE Z == {0}
    <2>1. IsFiniteSet(Z) /\ Cardinality(Z) = 1
        BY FS_Singleton
    <2> HIDE DEF Z
    <2>2. IsFiniteSet(Z \X Free(s))
          /\ Cardinality(Z \X Free(s)) = Cardinality(Z) * Cardinality(Free(s))
        BY <2>1, <1>5, FS_Product
    <2>3. Cardinality(Z \X Free(s)) = Cardinality(Free(s))
        BY <2>1, <2>2, <1>5
    <2> QED
        BY <2>2, <2>3 DEF Z
<1>8. Slots \cap Here = Here
    BY <1>1 DEF Free
<1>9. IsFiniteSet(Slots \ Here)
      /\ Cardinality(Slots \ Here) = (L + 1) * NumFds - Cardinality(Free(s))
    <2> HIDE DEF Slots, Here
    <2>1. IsFiniteSet(Slots \ Here)
          /\ Cardinality(Slots \ Here) = Cardinality(Slots) - Cardinality(Slots \cap Here)
        BY <1>6, FS_Difference
    <2> QED
        BY <1>6, <1>7, <1>8, <2>1
<1>10. IsFiniteSet(Used) /\ Cardinality(Used) <= Cardinality(Slots \ Here)
    <2> HIDE DEF Slots, Here, Used, g
    <2> QED
        BY <1>4, <1>9, FS_Injection
<1>11. IsFiniteSet(Pipes) /\ Cardinality(Pipes) = NumFds * (MaxNest + 1)
    <2>1. NumFds * (MaxNest + 1) \in Nat
        BY <1>1
    <2>2. IsFiniteSet(1..(NumFds * (MaxNest + 1)))
          /\ Cardinality(1..(NumFds * (MaxNest + 1))) = NumFds * (MaxNest + 1)
        BY <2>1, FS_Interval
    <2> QED
        BY <2>2 DEF Pipes
<1>12. IsFiniteSet(Unused(s)) /\ Cardinality(Unused(s)) = Cardinality(Pipes) - Cardinality(Used)
    <2>1. Unused(s) \in SUBSET Pipes /\ Unused(s) = Pipes \ Used /\ Pipes \cap Used = Used
        BY DEF Unused
    <2> HIDE DEF Used
    <2> QED
        BY <2>1, <1>11, FS_Difference
<1>13. (L + 1) * NumFds <= NumFds * (MaxNest + 1)
    <2>1. \A a, c, d \in Nat : c <= d => c * a <= a * d
        OBVIOUS
    <2> QED
        BY <2>1, <1>1
<1>14. Cardinality(Unused(s)) \in Nat /\ Cardinality(Used) \in Nat
    BY <1>10, <1>12, FS_CardinalityType
<1> QED
    <2> HIDE DEF Used, Slots, Here
    <2>1. (L + 1) * NumFds \in Nat /\ NumFds * (MaxNest + 1) \in Nat
        BY <1>1
    <2> QED
        BY <1>5, <1>9, <1>10, <1>11, <1>12, <1>13, <1>14, <2>1

-----------------------------------------------------------------------------
(* pipe() for several commands. *)

\* The field of a command that pipe() fills, and the other one.
Pair(c, that) == IF that = "read" THEN c.read ELSE c.write
Rest(c, that) == IF that = "read" THEN c.write ELSE c.read

\* Descriptors r and w of t are the ends of a pipe that was unused in s, and w
\* is its only write end.
Fresh(s, t, r, w) ==
    /\ r \in Free(s) /\ w \in Free(s) /\ r # w
    /\ \E q \in Unused(s) : /\ t.fd[r] = ReadEnd(q) /\ t.fd[w] = WriteEnd(q)
                            /\ t.pipe[q] = << >>
                            /\ \A n \in Fds : t.fd[n] = WriteEnd(q) => n = w

\* The arguments of MakePipes.
Targets(s, js, that) ==
    /\ that \in {"read", "write"}
    /\ js \in Seq(DOMAIN s.cmds) /\ Len(js) > 0
    /\ \A k, l \in DOMAIN js : js[k] = js[l] => k = l

\* Which pipes are made, and where their ends are.
LEMMA Made ==
    ASSUME Waiting, NEW s \in Shells, NEW js, NEW that, Targets(s, js, that)
    PROVE LET m == Min({Len(js), Cardinality(Free(s)) \div 2})
              R(k) == Nth(Free(s), 2 * k - 1)
              W(k) == Nth(Free(s), 2 * k)
              P(k) == Nth(Unused(s), k)
          IN /\ m \in 0..Len(js)
             /\ Cardinality(Free(s)) >= 2 * Len(js) => m = Len(js)
             /\ \A k \in 1..m :
                  /\ R(k) \in Free(s) /\ Rank(Free(s), R(k)) = 2 * k - 1
                  /\ W(k) \in Free(s) /\ Rank(Free(s), W(k)) = 2 * k
                  /\ P(k) \in Unused(s) /\ Rank(Unused(s), P(k)) = k
<1> DEFINE m == Min({Len(js), Cardinality(Free(s)) \div 2})
<1>1. Len(js) \in Nat
    BY LenProperties DEF Targets
<1>2. /\ Cardinality(Free(s)) <= Cardinality(Unused(s))
      /\ Cardinality(Free(s)) \in Nat /\ Cardinality(Unused(s)) \in Nat
    BY Enough
<1>3. Cardinality(Free(s)) \div 2 \in Nat
      /\ 2 * (Cardinality(Free(s)) \div 2) <= Cardinality(Free(s))
      /\ \A l \in Nat : Cardinality(Free(s)) >= 2 * l => Cardinality(Free(s)) \div 2 >= l
    BY <1>2
<1>4. m \in {Len(js), Cardinality(Free(s)) \div 2}
      /\ m <= Len(js) /\ m <= Cardinality(Free(s)) \div 2
    <2> DEFINE S == {Len(js), Cardinality(Free(s)) \div 2}
    <2>1. S \subseteq Nat /\ S # {}
        BY <1>1, <1>3
    <2> HIDE DEF S
    <2>2. Min(S) \in S /\ \A n \in S : Min(S) <= n
        BY <2>1, MinIs
    <2> QED
        BY <2>2 DEF S
<1> HIDE DEF m
<1>5. m \in 0..Len(js)
    BY <1>1, <1>3, <1>4
<1>6. Cardinality(Free(s)) >= 2 * Len(js) => m = Len(js)
    BY <1>1, <1>3, <1>4
<1>7. ASSUME NEW k \in 1..m
      PROVE /\ 2 * k - 1 \in 1..Cardinality(Free(s)) /\ 2 * k \in 1..Cardinality(Free(s))
            /\ k \in 1..Cardinality(Unused(s))
    BY <1>1, <1>2, <1>3, <1>4
<1>8. Free(s) \subseteq 0..(NumFds - 1) /\ NumFds - 1 \in Nat
    BY ShellAssumption DEF Free, Fds
<1>9. NumFds * (MaxNest + 1) \in Nat /\ Unused(s) \subseteq 0..(NumFds * (MaxNest + 1))
    BY ShellAssumption DEF Unused, Pipes
<1>10. ASSUME NEW k \in 1..Cardinality(Free(s))
       PROVE Nth(Free(s), k) \in Free(s) /\ Rank(Free(s), Nth(Free(s), k)) = k
    BY <1>8, NthIs
<1>11. ASSUME NEW k \in 1..Cardinality(Unused(s))
       PROVE Nth(Unused(s), k) \in Unused(s) /\ Rank(Unused(s), Nth(Unused(s), k)) = k
    BY <1>9, NthIs
<1> QED
    BY <1>5, <1>6, <1>7, <1>10, <1>11 DEF m

\* What pipe() does to the descriptors and pipes.
LEMMA MakePipesFds ==
    ASSUME Waiting, NEW s \in Shells, NEW js, NEW that, Targets(s, js, that),
           NEW t, t = MakePipes(s, js, that),
           NEW m, m = Min({Len(js), Cardinality(Free(s)) \div 2})
    PROVE LET R(k) == Nth(Free(s), 2 * k - 1)
              W(k) == Nth(Free(s), 2 * k)
          IN /\ t.fd \in [Fds -> File] /\ t.pipe \in [Pipes -> Seq(Nat)]
             /\ \A n \in Fds : s.fd[n] # Closed => t.fd[n] = s.fd[n]
             /\ \A k \in 1..m : Fresh(s, t, R(k), W(k))
<1> DEFINE R(k) == Nth(Free(s), 2 * k - 1)
           W(k) == Nth(Free(s), 2 * k)
           P(k) == Nth(Unused(s), k)
           K(x) == (Rank(Free(s), x) + 1) \div 2
           G == [x \in Fds |->
                    IF x \notin Free(s) \/ K(x) \notin 1..m THEN s.fd[x]
                    ELSE IF Rank(Free(s), x) % 2 = 1 THEN ReadEnd(P(K(x)))
                    ELSE WriteEnd(P(K(x)))]
<1>1. t.fd = G
    BY DEF MakePipes, Shells
<1>2. t.pipe = [q \in Pipes |-> IF q \in Unused(s) THEN << >> ELSE s.pipe[q]]
    BY DEF MakePipes, Shells
<1>3. /\ m \in 0..Len(js)
      /\ \A k \in 1..m :
            /\ R(k) \in Free(s) /\ Rank(Free(s), R(k)) = 2 * k - 1
            /\ W(k) \in Free(s) /\ Rank(Free(s), W(k)) = 2 * k
            /\ P(k) \in Unused(s) /\ Rank(Unused(s), P(k)) = k
    BY Made
<1>4. Len(js) \in Nat /\ 1..m \subseteq Nat
    BY <1>3, LenProperties DEF Targets
<1>5. s.fd \in [Fds -> File] /\ s.pipe \in [Pipes -> Seq(Nat)]
    BY DEF Shells
<1> HIDE DEF R, W, P
<1>6. \A k \in Nat : /\ (2 * k - 1 + 1) \div 2 = k /\ (2 * k + 1) \div 2 = k
                     /\ (2 * k - 1) % 2 = 1 /\ (2 * k) % 2 # 1
    OBVIOUS
<1>7. \A k \in 1..m : P(k) \in Pipes
    BY <1>3 DEF Unused
<1>8. t.fd \in [Fds -> File]
    <2>1. ASSUME NEW x \in Fds PROVE G[x] \in File
        <3>1. CASE x \notin Free(s) \/ K(x) \notin 1..m
            BY <3>1, <1>5
        <3>2. CASE x \in Free(s) /\ K(x) \in 1..m
            <4>1. P(K(x)) \in Pipes
                BY <3>2, <1>7
            <4>2. G[x] \in {ReadEnd(P(K(x))), WriteEnd(P(K(x)))}
                BY <3>2
            <4> QED
                BY <4>1, <4>2 DEF File
        <3> QED
            BY <3>1, <3>2
    <2> HIDE DEF K
    <2> QED
        BY <2>1, <1>1
<1>9. t.pipe \in [Pipes -> Seq(Nat)]
    <2> DEFINE Q == Seq(Nat)
    <2>1. << >> \in Q
        OBVIOUS
    <2> HIDE DEF Q
    <2>2. s.pipe \in [Pipes -> Q]
        BY <1>5 DEF Q
    <2>3. t.pipe \in [Pipes -> Q]
        BY <2>1, <2>2, <1>2
    <2> QED
        BY <2>3 DEF Q
<1>10. \A n \in Fds : s.fd[n] # Closed => t.fd[n] = s.fd[n]
    BY <1>1 DEF Free
<1>11. ASSUME NEW k \in 1..m PROVE Fresh(s, t, R(k), W(k))
    <2>1. k \in Nat /\ R(k) \in Fds /\ W(k) \in Fds /\ R(k) \in Free(s) /\ W(k) \in Free(s)
        BY <1>3, <1>4 DEF Free
    <2>2. K(R(k)) = k /\ Rank(Free(s), R(k)) % 2 = 1
        BY <1>3, <1>6, <2>1
    <2>3. K(W(k)) = k /\ Rank(Free(s), W(k)) % 2 # 1
        BY <1>3, <1>6, <2>1
    <2>4. t.fd[R(k)] = ReadEnd(P(k))
        BY <1>1, <2>1, <2>2
    <2>5. t.fd[W(k)] = WriteEnd(P(k))
        BY <1>1, <2>1, <2>3
    <2>6. P(k) \in Unused(s) /\ P(k) \in Pipes
        BY <1>3, <1>7
    <2>7. t.pipe[P(k)] = << >>
        BY <1>2, <2>6
    <2>8. ASSUME NEW n \in Fds, t.fd[n] = WriteEnd(P(k))
          PROVE n = W(k)
        <3>1. s.fd[n] # WriteEnd(P(k))
            <4>1. ~HasEnd(s, WriteEnd(P(k)))
                BY <2>6 DEF Unused
            <4> QED
                BY <4>1, HasEndIs
        <3>2. n \in Free(s) /\ K(n) \in 1..m
            BY <1>1, <2>8, <3>1
        <3>3. Rank(Free(s), n) % 2 # 1 /\ P(K(n)) = P(k)
            BY <1>1, <2>8, <3>2, EndsDiffer
        <3>4. K(n) = k
            BY <3>2, <3>3, <1>3
        <3>5. Rank(Free(s), n) = 2 * k
            <4>1. Free(s) \subseteq 0..(NumFds - 1) /\ NumFds - 1 \in Nat
                BY ShellAssumption DEF Free, Fds
            <4>2. Rank(Free(s), n) \in 1..Cardinality(Free(s)) /\ Cardinality(Free(s)) \in Nat
                BY <4>1, <3>2, RankType
            <4>3. \A r \in Nat : r % 2 # 1 /\ (r + 1) \div 2 = k => r = 2 * k
                BY <2>1
            <4> QED
                BY <4>2, <4>3, <3>3, <3>4
        <3>6. Rank(Free(s), n) = Rank(Free(s), W(k))
            BY <3>5, <1>3
        <3> QED
            <4>1. Free(s) \subseteq 0..(NumFds - 1) /\ NumFds - 1 \in Nat
                BY ShellAssumption DEF Free, Fds
            <4> QED
                BY <4>1, <3>2, <3>6, <2>1, NthOnly
    <2>9. R(k) # W(k)
        BY <2>4, <2>5, EndsDiffer
    <2> HIDE DEF K, G
    <2> QED
        BY <2>1, <2>4, <2>5, <2>6, <2>7, <2>8, <2>9 DEF Fresh
<1> QED
    BY <1>8, <1>9, <1>10, <1>11 DEF R, W

\* Nothing but the ends of unused pipes is put anywhere, and what is held
\* elsewhere keeps its contents.
LEMMA MakePipesOld ==
    ASSUME Waiting, NEW s \in Shells, NEW js, NEW that, Targets(s, js, that),
           NEW t, t = MakePipes(s, js, that)
    PROVE    /\ \A n \in Fds : \/ t.fd[n] = s.fd[n]
                               \/ \E q \in Unused(s) : t.fd[n] \in {ReadEnd(q), WriteEnd(q)}
             /\ \A q \in Pipes : t.pipe[q] = IF q \in Unused(s) THEN << >> ELSE s.pipe[q]
<1> DEFINE m == Min({Len(js), Cardinality(Free(s)) \div 2})
           P(k) == Nth(Unused(s), k)
           K(x) == (Rank(Free(s), x) + 1) \div 2
           G == [x \in Fds |->
                    IF x \notin Free(s) \/ K(x) \notin 1..m THEN s.fd[x]
                    ELSE IF Rank(Free(s), x) % 2 = 1 THEN ReadEnd(P(K(x)))
                    ELSE WriteEnd(P(K(x)))]
<1>1. t.fd = G
    BY DEF MakePipes, Shells
<1>2. t.pipe = [q \in Pipes |-> IF q \in Unused(s) THEN << >> ELSE s.pipe[q]]
    BY DEF MakePipes, Shells
<1>3. \A k \in 1..m : P(k) \in Unused(s)
    BY Made
<1> HIDE DEF m, P, K
<1>4. ASSUME NEW n \in Fds
      PROVE \/ t.fd[n] = s.fd[n]
            \/ \E q \in Unused(s) : t.fd[n] \in {ReadEnd(q), WriteEnd(q)}
    BY <1>1, <1>3
<1> QED
    BY <1>2, <1>4

\* What pipe() does to the commands.
LEMMA MakePipesCmds ==
    ASSUME Waiting, NEW s \in Shells, NEW js, NEW that, Targets(s, js, that),
           NEW t, t = MakePipes(s, js, that),
           NEW m, m = Min({Len(js), Cardinality(Free(s)) \div 2})
    PROVE    /\ t.cmds \in Seq(Commands) /\ Len(t.cmds) = Len(s.cmds)
             /\ \A j \in 1..Len(s.cmds) : t.cmds[j].cmd = s.cmds[j].cmd
             /\ \A j \in 1..Len(s.cmds) : Rest(t.cmds[j], that) = Rest(s.cmds[j], that)
             /\ \A j \in 1..Len(s.cmds) :
                  (\A k \in 1..m : js[k] # j) => t.cmds[j] = s.cmds[j]
             /\ \A k \in 1..m : Pair(t.cmds[js[k]], that) =
                  <<Nth(Free(s), 2 * k - 1), Nth(Free(s), 2 * k)>>
<1> DEFINE R(k) == Nth(Free(s), 2 * k - 1)
           W(k) == Nth(Free(s), 2 * k)
           For(j) == CHOOSE k \in 1..m : js[k] = j
           D == [j \in DOMAIN s.cmds |->
                    IF \A k \in 1..m : js[k] # j THEN s.cmds[j]
                    ELSE [s.cmds[j] EXCEPT ![that] = <<R(For(j)), W(For(j))>>]]
<1>1. t.cmds = D
    BY DEF MakePipes, Shells
<1>2. /\ m \in 0..Len(js)
      /\ \A k \in 1..m : R(k) \in Numbers /\ W(k) \in Numbers
    <2>1. /\ m \in 0..Len(js)
          /\ \A k \in 1..m : R(k) \in Free(s) /\ W(k) \in Free(s)
        BY Made
    <2> HIDE DEF R, W
    <2> QED
        BY <2>1 DEF Free, Numbers
<1>3. s.cmds \in Seq(Commands) /\ Len(s.cmds) \in Nat /\ DOMAIN s.cmds = 1..Len(s.cmds)
      /\ \A j \in 1..Len(s.cmds) : s.cmds[j] \in Commands
    <2>1. s.cmds \in Seq(Commands)
        BY DEF Shells
    <2> QED
        BY <2>1, LenProperties, ElementOfSeq
<1>4. /\ Len(js) \in Nat /\ \A k \in 1..Len(js) : js[k] \in 1..Len(s.cmds)
      /\ that \in {"read", "write"}
      /\ \A k, l \in 1..Len(js) : js[k] = js[l] => k = l
    <2>1. js \in Seq(1..Len(s.cmds)) /\ that \in {"read", "write"}
          /\ \A k, l \in DOMAIN js : js[k] = js[l] => k = l
        BY <1>3 DEF Targets
    <2>2. Len(js) \in Nat /\ DOMAIN js = 1..Len(js)
          /\ \A k \in 1..Len(js) : js[k] \in 1..Len(s.cmds)
        BY <2>1, LenProperties, ElementOfSeq
    <2> QED
        BY <2>1, <2>2
<1> HIDE DEF R, W
<1>5. ASSUME NEW c \in Commands, NEW a \in Numbers, NEW b \in Numbers
      PROVE LET d == [c EXCEPT ![that] = <<a, b>>]
            IN d \in Commands /\ d.cmd = c.cmd /\ Rest(d, that) = Rest(c, that)
               /\ Pair(d, that) = <<a, b>>
    <2>1. CASE that = "read"
        BY <2>1 DEF Commands, Pair, Rest
    <2>2. CASE that = "write"
        BY <2>2 DEF Commands, Pair, Rest
    <2> QED
        BY <2>1, <2>2, <1>4
<1>6. ASSUME NEW j \in 1..Len(s.cmds)
      PROVE /\ D[j] \in Commands
            /\ D[j].cmd = s.cmds[j].cmd
            /\ Rest(D[j], that) = Rest(s.cmds[j], that)
            /\ (\A k \in 1..m : js[k] # j) => D[j] = s.cmds[j]
    <2>1. CASE \A k \in 1..m : js[k] # j
        BY <2>1, <1>3
    <2>2. CASE \E k \in 1..m : js[k] = j
        <3>1. For(j) \in 1..m
            BY <2>2
        <3> HIDE DEF For
        <3>2. R(For(j)) \in Numbers /\ W(For(j)) \in Numbers
            BY <3>1, <1>2
        <3>3. D[j] = [s.cmds[j] EXCEPT ![that] = <<R(For(j)), W(For(j))>>]
            BY <2>2, <1>3
        <3> DEFINE c == s.cmds[j]
        <3>4. c \in Commands /\ D[j] = [c EXCEPT ![that] = <<R(For(j)), W(For(j))>>]
            BY <3>3, <1>3
        <3> HIDE DEF D, c
        <3>5. D[j] \in Commands /\ D[j].cmd = c.cmd /\ Rest(D[j], that) = Rest(c, that)
            BY <3>2, <3>4, <1>5
        <3> QED
            BY <2>2, <3>5 DEF c
    <2> QED
        BY <2>1, <2>2
<1>7. D \in Seq(Commands) /\ Len(D) = Len(s.cmds)
    <2>1. D \in [1..Len(s.cmds) -> Commands]
        BY <1>3, <1>6
    <2> HIDE DEF D
    <2> QED
        BY <2>1, <1>3
<1>8. ASSUME NEW k \in 1..m
      PROVE Pair(D[js[k]], that) = <<R(k), W(k)>>
    <2>1. k \in 1..Len(js) /\ 1..m \subseteq 1..Len(js)
        BY <1>2, <1>4
    <2>2. js[k] \in 1..Len(s.cmds)
        BY <2>1, <1>4
    <2>3. For(js[k]) = k
        BY <2>1, <1>4
    <2>4. R(k) \in Numbers /\ W(k) \in Numbers
        BY <1>2
    <2>5. D[js[k]] = [s.cmds[js[k]] EXCEPT ![that] = <<R(k), W(k)>>]
        BY <2>2, <2>3, <1>3
    <2> DEFINE c == s.cmds[js[k]]
    <2>6. c \in Commands
        BY <2>2, <1>3
    <2>7. D[js[k]] = [c EXCEPT ![that] = <<R(k), W(k)>>]
        BY <2>5
    <2> HIDE DEF c, D
    <2>8. Pair([c EXCEPT ![that] = <<R(k), W(k)>>], that) = <<R(k), W(k)>>
        BY <2>4, <2>6, <1>5
    <2> QED
        BY <2>7, <2>8
<1> HIDE DEF D
<1> QED
    BY <1>1, <1>6, <1>7, <1>8 DEF R, W

\* The descriptors that pipe() takes are the lowest.
LEMMA Lowest ==
    ASSUME NEW s \in Shells, NEW x \in Free(s), \A y \in Free(s) : y < x => y = 0
    PROVE Rank(Free(s), x) \in 1..2
<1>1. Free(s) \subseteq 0..(NumFds - 1) /\ NumFds - 1 \in Nat
    BY ShellAssumption DEF Free, Fds
<1>2. Rank(Free(s), x) \in 1..Cardinality(Free(s)) /\ Cardinality(Free(s)) \in Nat
    BY <1>1, RankType
<1> DEFINE X == {y \in Free(s) : y <= x}
           Z == {0}
<1>3. \A y \in X : y \in Z \cup {x}
    BY <1>1
<1>4. IsFiniteSet(Z) /\ Cardinality(Z) = 1
    BY FS_Singleton
<1> HIDE DEF X, Z
<1>5. IsFiniteSet(Z \cup {x}) /\ Cardinality(Z \cup {x}) <= 2
    <2>1. IsFiniteSet(Z \cup {x})
          /\ Cardinality(Z \cup {x}) = IF x \in Z THEN Cardinality(Z) ELSE Cardinality(Z) + 1
        BY <1>4, FS_AddElement
    <2> QED
        BY <2>1, <1>4
<1>6. X \in SUBSET (Z \cup {x})
    BY <1>3
<1>7. Cardinality(X) <= Cardinality(Z \cup {x}) /\ IsFiniteSet(X)
    BY <1>5, <1>6, FS_Subset
<1>8. Cardinality(X) \in Nat /\ Cardinality(Z \cup {x}) \in Nat
    BY <1>5, <1>7, FS_CardinalityType
<1>9. Cardinality(X) = Rank(Free(s), x)
    BY DEF X, Rank
<1> QED
    BY <1>2, <1>5, <1>7, <1>8, <1>9

\* All of it: what the actions use of pipe().
LEMMA MakePipesIs ==
    ASSUME Waiting, NEW s \in Shells, NEW js, NEW that, Targets(s, js, that),
           NEW t, t = MakePipes(s, js, that)
    PROVE    /\ t \in Shells /\ Len(t.cmds) = Len(s.cmds)
             /\ \A n \in Fds : s.fd[n] # Closed => t.fd[n] = s.fd[n]
             /\ \A j \in 1..Len(s.cmds) :
                  /\ t.cmds[j].cmd = s.cmds[j].cmd
                  /\ Rest(t.cmds[j], that) = Rest(s.cmds[j], that)
                  /\ (\A k \in DOMAIN js : js[k] # j) => t.cmds[j] = s.cmds[j]
                  /\ \/ Pair(t.cmds[j], that) = Pair(s.cmds[j], that)
                     \/ \E r, w \in Free(s) : Pair(t.cmds[j], that) = <<r, w>>
             /\ s.refused => t.refused
             /\ ~t.refused =>
                  \A k \in DOMAIN js :
                      \E r, w \in Free(s) :
                          /\ Pair(t.cmds[js[k]], that) = <<r, w>>
                          /\ Fresh(s, t, r, w)
                          /\ k = 1 => \A x \in Free(s) :
                                (\A y \in Free(s) : y < x => y = 0) => x \in {r, w}
<1> DEFINE m == Min({Len(js), Cardinality(Free(s)) \div 2})
           R(k) == Nth(Free(s), 2 * k - 1)
           W(k) == Nth(Free(s), 2 * k)
<1>1. /\ m \in 0..Len(js)
      /\ Cardinality(Free(s)) >= 2 * Len(js) => m = Len(js)
      /\ \A k \in 1..m :
            /\ R(k) \in Free(s) /\ Rank(Free(s), R(k)) = 2 * k - 1
            /\ W(k) \in Free(s) /\ Rank(Free(s), W(k)) = 2 * k
    BY Made
<1>0. m \in 0..Len(js)
    BY Made
<1>11. Cardinality(Free(s)) >= 2 * Len(js) => m = Len(js)
    BY Made
<1>2. /\ t.fd \in [Fds -> File] /\ t.pipe \in [Pipes -> Seq(Nat)]
      /\ \A n \in Fds : s.fd[n] # Closed => t.fd[n] = s.fd[n]
      /\ \A k \in 1..m : Fresh(s, t, R(k), W(k))
    BY MakePipesFds
<1>3. /\ t.cmds \in Seq(Commands) /\ Len(t.cmds) = Len(s.cmds)
      /\ \A j \in 1..Len(s.cmds) :
            /\ t.cmds[j].cmd = s.cmds[j].cmd
            /\ Rest(t.cmds[j], that) = Rest(s.cmds[j], that)
            /\ (\A k \in 1..m : js[k] # j) => t.cmds[j] = s.cmds[j]
      /\ \A k \in 1..m : Pair(t.cmds[js[k]], that) = <<R(k), W(k)>>
    <2> HIDE DEF m
    <2>1. m = Min({Len(js), Cardinality(Free(s)) \div 2})
        BY DEF m
    <2> QED
        BY <2>1, MakePipesCmds
<1>4. /\ t.refused <=> s.refused \/ Cardinality(Free(s)) < 2 * Len(js)
      /\ t.refused \in BOOLEAN
    BY DEF MakePipes, Shells
<1>5. t \in [fd : {t.fd}, pipe : {t.pipe}, cmds : {t.cmds}, refused : {t.refused}]
    <2>1. \A a, b, c, d : LET u == [s EXCEPT !.fd = a, !.pipe = b, !.cmds = c, !.refused = d]
                         IN u \in [fd : {a}, pipe : {b}, cmds : {c}, refused : {d}]
        BY DEF Shells
    <2>2. \E a, b, c, d : t = [s EXCEPT !.fd = a, !.pipe = b, !.cmds = c, !.refused = d]
        BY Zenon DEF MakePipes
    <2>3. PICK a, b, c, d : t = [s EXCEPT !.fd = a, !.pipe = b, !.cmds = c, !.refused = d]
        BY <2>2
    <2> QED
        BY <2>1, <2>3
<1>6. Len(js) \in Nat /\ DOMAIN js = 1..Len(js)
    BY LenProperties DEF Targets
<1>7. Cardinality(Free(s)) \in Nat
    BY Enough
<1> HIDE DEF m, R, W
<1>8. t \in Shells
    BY <1>2, <1>3, <1>4, <1>5 DEF Shells
<1>9. ASSUME NEW j \in 1..Len(s.cmds)
      PROVE /\ (\A k \in DOMAIN js : js[k] # j) => t.cmds[j] = s.cmds[j]
            /\ \/ Pair(t.cmds[j], that) = Pair(s.cmds[j], that)
               \/ \E r, w \in Free(s) : Pair(t.cmds[j], that) = <<r, w>>
    <2>1. \A k \in 1..m : k \in DOMAIN js
        <3>1. m \in Nat /\ m <= Len(js)
            BY <1>0, <1>6
        <3> QED
            BY <3>1, <1>6
    <2>2. CASE \A k \in 1..m : js[k] # j
        BY <2>2, <1>3
    <2>3. CASE \E k \in 1..m : js[k] = j
        <3>1. PICK k \in 1..m : js[k] = j
            BY <2>3
        <3>2. Pair(t.cmds[j], that) = <<R(k), W(k)>>
            BY <1>3, <3>1
        <3>3. R(k) \in Free(s) /\ W(k) \in Free(s)
            BY <1>1
        <3> QED
            BY <2>1, <3>1, <3>2, <3>3
    <2> QED
        BY <2>2, <2>3
<1>10. ASSUME ~t.refused, NEW k \in DOMAIN js
       PROVE \E r, w \in Free(s) :
                /\ Pair(t.cmds[js[k]], that) = <<r, w>>
                /\ Fresh(s, t, r, w)
                /\ k = 1 => \A x \in Free(s) :
                     (\A y \in Free(s) : y < x => y = 0) => x \in {r, w}
    <2>1. m = Len(js)
        <3>1. ~(Cardinality(Free(s)) < 2 * Len(js))
            BY <1>4, <1>10
        <3> QED
            BY <3>1, <1>11, <1>6, <1>7
    <2>2. k \in 1..m
        BY <2>1, <1>6, <1>10
    <2>3. R(k) \in Free(s) /\ W(k) \in Free(s)
        BY <2>2, <1>1
    <2>4. ASSUME k = 1, NEW x \in Free(s), \A y \in Free(s) : y < x => y = 0
          PROVE x \in {R(k), W(k)}
        <3>1. Rank(Free(s), x) \in 1..2
            BY <2>4, Lowest
        <3>2. Rank(Free(s), R(k)) = 1 /\ Rank(Free(s), W(k)) = 2
            BY <2>2, <2>4, <1>1
        <3>3. Free(s) \subseteq 0..(NumFds - 1) /\ NumFds - 1 \in Nat
            BY ShellAssumption DEF Free, Fds
        <3>4. Rank(Free(s), x) = Rank(Free(s), R(k)) \/ Rank(Free(s), x) = Rank(Free(s), W(k))
            BY <3>1, <3>2
        <3> QED
            BY <3>3, <3>4, <2>3, NthOnly
    <2> QED
        BY <2>2, <2>3, <2>4, <1>2, <1>3
<1> QED
    BY <1>2, <1>3, <1>4, <1>8, <1>9, <1>10

-----------------------------------------------------------------------------
(* The split and the parse of a line. *)

\* The line is read word by word,
LEMMA SplitIs ==
    ASSUME NEW s, NEW k \in Nat, k = Len(s)
    PROVE  \E g : /\ g[0] = [toks |-> << >>, no |-> 0, pos |-> 0, open |-> FALSE]
                  /\ \A n \in 1..k : g[n] = Lex(g[n - 1], s[n])
                  /\ Split(s) = g[k].toks
<1> DEFINE b == [toks |-> << >>, no |-> 0, pos |-> 0, open |-> FALSE]
           R(g, m) == g = [n \in 0..m |-> IF n = 0 THEN b ELSE Lex(g[n - 1], s[n])]
           T == {m \in Nat : ~\E g : R(g, m)}
<1> HIDE DEF b
<1>1. ASSUME T # {}
      PROVE  FALSE
    <2> HIDE DEF T
    <2>1. T \subseteq Nat
        BY DEF T
    <2>2. PICK m \in T : \A y \in T : m <= y
        BY <1>1, <2>1, Least
    <2>3. m \in Nat /\ ~\E g : R(g, m)
        BY DEF T
    <2>4. CASE m = 0
        <3> DEFINE h == [n \in 0..0 |-> b]
        <3>1. R(h, 0)
            OBVIOUS
        <3> QED
            BY <2>3, <2>4, <3>1
    <2>5. CASE m # 0
        <3>1. m - 1 \in Nat /\ m - 1 \notin T
            BY <2>2, <2>3, <2>5
        <3>2. PICK g : R(g, m - 1)
            BY <3>1 DEF T
        <3> DEFINE h == [n \in 0..m |-> IF n = m THEN Lex(g[m - 1], s[m]) ELSE g[n]]
        <3>3. ASSUME NEW n \in 0..m
              PROVE  h[n] = IF n = 0 THEN b ELSE Lex(h[n - 1], s[n])
            <4>1. CASE n = m
                BY <2>3, <2>5, <3>1, <4>1
            <4>2. CASE n # m
                <5>1. n \in 0..(m - 1) /\ (n # 0 => n - 1 \in 0..m /\ n - 1 # m)
                    BY <2>3, <4>2
                <5>2. g[n] = IF n = 0 THEN b ELSE Lex(g[n - 1], s[n])
                    BY <3>2, <5>1
                <5> QED
                    BY <4>2, <5>1, <5>2
            <4> QED
                BY <4>1, <4>2
        <3>4. R(h, m)
            BY <3>3
        <3> QED
            BY <2>3, <3>4
    <2> QED
        BY <2>4, <2>5
<1>2. \E g : R(g, k)
    BY <1>1
<1> DEFINE g == CHOOSE g : R(g, k)
<1>3. Split(s) = g[k].toks
    BY DEF Split, b
<1>4. R(g, k)
    BY <1>2
<1> HIDE DEF g
<1>5. g[0] = b /\ \A n \in 1..k : g[n] = Lex(g[n - 1], s[n])
    BY <1>4
<1> QED
    BY <1>3, <1>5 DEF b

\* and its tokens one by one.
LEMMA ParseIs ==
    ASSUME NEW s, NEW k \in Nat, k = Len(s)
    PROVE  \E g : /\ g[0] = [cmds |-> << >>, word |-> FALSE]
                  /\ \A n \in 1..k : g[n] = Group(g[n - 1], s[n])
                  /\ Parse(s) = Append(g[k].cmds, Command(End, 0))
<1> DEFINE b == [cmds |-> << >>, word |-> FALSE]
           R(g, m) == g = [n \in 0..m |-> IF n = 0 THEN b ELSE Group(g[n - 1], s[n])]
           T == {m \in Nat : ~\E g : R(g, m)}
<1> HIDE DEF b
<1>1. ASSUME T # {}
      PROVE  FALSE
    <2> HIDE DEF T
    <2>1. T \subseteq Nat
        BY DEF T
    <2>2. PICK m \in T : \A y \in T : m <= y
        BY <1>1, <2>1, Least
    <2>3. m \in Nat /\ ~\E g : R(g, m)
        BY DEF T
    <2>4. CASE m = 0
        <3> DEFINE h == [n \in 0..0 |-> b]
        <3>1. R(h, 0)
            OBVIOUS
        <3> QED
            BY <2>3, <2>4, <3>1
    <2>5. CASE m # 0
        <3>1. m - 1 \in Nat /\ m - 1 \notin T
            BY <2>2, <2>3, <2>5
        <3>2. PICK g : R(g, m - 1)
            BY <3>1 DEF T
        <3> DEFINE h == [n \in 0..m |-> IF n = m THEN Group(g[m - 1], s[m]) ELSE g[n]]
        <3>3. ASSUME NEW n \in 0..m
              PROVE  h[n] = IF n = 0 THEN b ELSE Group(h[n - 1], s[n])
            <4>1. CASE n = m
                BY <2>3, <2>5, <3>1, <4>1
            <4>2. CASE n # m
                <5>1. n \in 0..(m - 1) /\ (n # 0 => n - 1 \in 0..m /\ n - 1 # m)
                    BY <2>3, <4>2
                <5>2. g[n] = IF n = 0 THEN b ELSE Group(g[n - 1], s[n])
                    BY <3>2, <5>1
                <5> QED
                    BY <4>2, <5>1, <5>2
            <4> QED
                BY <4>1, <4>2
        <3>4. R(h, m)
            BY <3>3
        <3> QED
            BY <2>3, <3>4
    <2> QED
        BY <2>4, <2>5
<1>2. \E g : R(g, k)
    BY <1>1
<1> DEFINE g == CHOOSE g : R(g, k)
<1>3. Parse(s) = Append(g[k].cmds, Command(End, 0))
    BY DEF Parse, b
<1>4. R(g, k)
    BY <1>2
<1> HIDE DEF g
<1>5. g[0] = b /\ \A n \in 1..k : g[n] = Group(g[n - 1], s[n])
    BY <1>4
<1> QED
    BY <1>3, <1>5 DEF b

\* A property of the natural numbers up to k that 0 has, and that each has from
\* the one before it.
LEMMA UpTo ==
    ASSUME NEW k \in Nat, NEW T, T \subseteq 0..k, 0 \in T,
           \A n \in 1..k : n - 1 \in T => n \in T
    PROVE  k \in T
<1> DEFINE B == {n \in 0..k : n \notin T}
<1>1. ASSUME B # {} PROVE FALSE
    <2>1. B \subseteq Nat
        OBVIOUS
    <2> HIDE DEF B
    <2>2. PICK m \in B : \A n \in B : m <= n
        BY <1>1, <2>1, Least
    <2>3. m \in 0..k /\ m \notin T /\ m # 0
        BY DEF B
    <2>4. m - 1 \in 0..k /\ ~(m <= m - 1)
        BY <2>3
    <2>5. m - 1 \in T
        BY <2>2, <2>4 DEF B
    <2> QED
        BY <2>3, <2>5
<1> QED
    BY <1>1

\* What a line is split into are words of it.
LEMMA SplitType ==
    ASSUME NEW typed \in Lines
    PROVE  Split(typed) \in Seq(Range(typed)) /\ End \notin Range(typed)
<1> DEFINE W == Range(typed)
           k == Len(typed)
           Lexers == [toks : Seq(W), no : Nat, pos : {0, 1}, open : BOOLEAN]
<1>1. typed \in Seq(W) /\ End \notin W
    BY ShellAssumption
<1> HIDE DEF W
<1>2. k \in Nat /\ \A n \in 1..k : typed[n] \in W
    BY <1>1, ElementOfSeq, LenProperties
<1>3. PICK g : /\ g[0] = [toks |-> << >>, no |-> 0, pos |-> 0, open |-> FALSE]
               /\ \A n \in 1..k : g[n] = Lex(g[n - 1], typed[n])
               /\ Split(typed) = g[k].toks
    BY <1>2, SplitIs
<1>4. ASSUME NEW acc \in Lexers, NEW x \in W
      PROVE  Lex(acc, x) \in Lexers
    <2> DEFINE place(at) == IF at = Len(acc.toks) THEN Append(acc.toks, x) ELSE acc.toks
               at == acc.no + IF acc.open THEN 1 ELSE 0
    <2>1. at \in Nat /\ \A n : place(n) \in Seq(W)
        BY AppendProperties
    <2> HIDE DEF place, at
    <2>2. CASE x = Space
        <3>1. Lex(acc, x) = [acc EXCEPT !.no = @ + acc.pos, !.open = FALSE]
            BY <2>2, ShellAssumption DEF Lex
        <3>2. acc.no + acc.pos \in Nat
            OBVIOUS
        <3> QED
            BY <3>1, <3>2
    <2>3. CASE x # Space /\ x \in Ops
        <3>1. Lex(acc, x) = [toks |-> place(at), no |-> at + 1, pos |-> 0, open |-> FALSE]
            BY <2>3 DEF Lex, place, at
        <3> QED
            BY <2>1, <3>1
    <2>4. CASE x # Space /\ x \notin Ops
        <3>1. Lex(acc, x) = [toks |-> place(acc.no), no |-> acc.no, pos |-> 1, open |-> TRUE]
            BY <2>4 DEF Lex, place
        <3> QED
            BY <2>1, <3>1
    <2> QED
        BY <2>2, <2>3, <2>4
<1> DEFINE T == {n \in 0..k : g[n] \in Lexers}
<1>5. 0 \in T
    <2>1. << >> \in Seq(W)
        OBVIOUS
    <2>2. g[0] \in Lexers
        BY <1>3, <2>1
    <2> QED
        BY <1>2, <2>2
<1>6. ASSUME NEW n \in 1..k, n - 1 \in T
      PROVE  n \in T
    <2>1. g[n - 1] \in Lexers /\ typed[n] \in W
        BY <1>2, <1>6
    <2>2. g[n] \in Lexers
        <3> HIDE DEF Lexers
        <3> QED
            BY <1>3, <1>4, <2>1
    <2> QED
        BY <1>2, <2>2
<1>7. k \in T
    <2> HIDE DEF T, k
    <2>1. T \subseteq 0..k
        BY DEF T
    <2> QED
        BY <1>2, <1>5, <1>6, <2>1, UpTo
<1>8. g[k] \in Lexers
    BY <1>7
<1>9. g[k].toks \in Seq(W)
    BY <1>8
<1> QED
    BY <1>1, <1>3, <1>9 DEF W

\* A command as it is parsed.
Parsed(W) == [cmd : W, read : {<<-1, -1>>, <<0, 0>>}, write : {<<-1, -1>>, <<0, 0>>}]

\* Words are not yet connected to anything, and an operator, or the end, stands
\* between any two.
Spread(c) ==
    /\ \A n \in 1..Len(c) : c[n].cmd \notin Ops \cup {End} =>
          c[n].read = <<-1, -1>> /\ c[n].write = <<-1, -1>>
    /\ \A n \in 1..(Len(c) - 1) : c[n].cmd \in Ops \/ c[n + 1].cmd \in Ops \cup {End}

\* One more token.
LEMMA GroupKeeps ==
    ASSUME NEW W, End \notin W, NEW t \in W,
           NEW acc \in [cmds : Seq(Parsed(W)), word : BOOLEAN], Spread(acc.cmds),
           acc.word \/ acc.cmds = << >> \/ acc.cmds[Len(acc.cmds)].cmd \in Ops
    PROVE  LET b == Group(acc, t)
           IN /\ b \in [cmds : Seq(Parsed(W)), word : BOOLEAN] /\ Spread(b.cmds)
              /\ b.word \/ b.cmds = << >> \/ b.cmds[Len(b.cmds)].cmd \in Ops
<1> DEFINE C == Parsed(W)
           c == acc.cmds
           l == Len(c)
<1>1. c \in Seq(C) /\ acc.word \in BOOLEAN /\ l \in Nat
    BY LenProperties
<1>2. \A n \in {-1, 0} : Command(t, n) \in C /\ Command(t, n).cmd = t
    BY DEF Command, Parsed
<1>3. Command(t, -1).read = <<-1, -1>> /\ Command(t, -1).write = <<-1, -1>>
    BY DEF Command
<1> DEFINE d == Command(t, -1)
           e == Command(t, 0)
<1>4. d \in C /\ e \in C /\ d.cmd = t /\ e.cmd = t /\ d.read = <<-1, -1>> /\ d.write = <<-1, -1>>
    BY <1>2, <1>3
<1> HIDE DEF C, d, e
<1>5. \A n \in 1..l : c[n] \in C
    BY <1>1, ElementOfSeq
<1>6. CASE t \notin Ops
    <2>1. CASE acc.word
        <3>1. Group(acc, t) = [cmds |-> c, word |-> TRUE]
            BY <1>6, <2>1 DEF Group
        <3> QED
            BY <3>1, <1>1 DEF C
    <2>2. CASE ~acc.word
        <3>1. Group(acc, t) = [cmds |-> Append(c, d), word |-> TRUE]
            BY <1>6, <2>2 DEF Group, d
        <3> DEFINE f == Append(c, d)
        <3>2. /\ f \in Seq(C) /\ Len(f) = l + 1 /\ f[l + 1] = d
              /\ \A n \in 1..l : f[n] = c[n]
            BY <1>1, <1>4, AppendProperties
        <3> HIDE DEF f
        <3>3. Spread(f)
            <4>1. \A n \in 1..Len(f) : f[n].cmd \notin Ops \cup {End} =>
                    f[n].read = <<-1, -1>> /\ f[n].write = <<-1, -1>>
                BY <3>2, <1>1, <1>4 DEF Spread
            <4>2. ASSUME NEW n \in 1..(Len(f) - 1)
                  PROVE  f[n].cmd \in Ops \/ f[n + 1].cmd \in Ops \cup {End}
                <5>1. n \in 1..l
                    BY <3>2, <1>1
                <5>2. CASE n = l
                    BY <5>1, <5>2, <2>2, <3>2, <1>1
                <5>3. CASE n # l
                    BY <5>1, <5>3, <3>2, <1>1 DEF Spread
                <5> QED
                    BY <5>2, <5>3
            <4> QED
                BY <4>1, <4>2 DEF Spread
        <3> QED
            BY <3>1, <3>2, <3>3 DEF f, C
    <2> QED
        BY <2>1, <2>2
<1>7. CASE t \in Ops
    <2> DEFINE u == IF acc.word THEN << >> ELSE <<d>>
               v == c \o u
               f == v \o <<e>>
    <2>1. Group(acc, t) = [cmds |-> f, word |-> FALSE]
        BY <1>7 DEF Group, d, e
    <2>2. u \in Seq(C) /\ Len(u) \in 0..1 /\ (Len(u) = 1 => u[1] = d)
        BY <1>4
    <2> HIDE DEF u
    <2>3. /\ v \in Seq(C) /\ Len(v) = l + Len(u)
          /\ \A n \in 1..l : v[n] = c[n]
          /\ Len(u) = 1 => v[l + 1] = d
        BY <1>1, <2>2, ConcatProperties
    <2> HIDE DEF v
    <2>4. /\ f \in Seq(C) /\ Len(f) = Len(v) + 1 /\ f[Len(v) + 1] = e
          /\ \A n \in 1..Len(v) : f[n] = v[n]
        BY <2>3, <1>4, ConcatProperties
    <2> HIDE DEF f
    <2>5. /\ Len(f) \in Nat /\ Len(f) >= l + 1
          /\ \A n \in 1..l : f[n] = c[n]
          /\ \A n \in (l + 1)..Len(f) : f[n].cmd \in Ops
        <3>1. Len(v) \in l..(l + 1) /\ Len(f) = Len(v) + 1
            <4>1. Len(u) \in 0..1 /\ l \in Nat /\ Len(v) = l + Len(u)
                BY <1>1, <2>2, <2>3
            <4>2. Len(f) = Len(v) + 1
                BY <2>4
            <4>3. \A a \in Nat : \A b \in 0..1 : a + b \in a..(a + 1)
                OBVIOUS
            <4>4. l + Len(u) \in l..(l + 1)
                BY <4>1, <4>3, Zenon
            <4> QED
                BY <4>1, <4>2, <4>4, Zenon
        <3>2. ASSUME NEW n \in 1..l PROVE f[n] = c[n]
            <4>1. n \in 1..Len(v)
                BY <3>1, <1>1
            <4> QED
                BY <4>1, <2>3, <2>4
        <3>3. ASSUME NEW n \in (l + 1)..Len(f) PROVE f[n].cmd \in Ops
            <4>1. CASE n = Len(v) + 1
                BY <4>1, <2>4, <1>4, <1>7
            <4>2. CASE n # Len(v) + 1
                <5>1. n \in 1..Len(v) /\ n = l + 1 /\ Len(u) = 1
                    BY <4>2, <3>1, <1>1, <2>2, <2>3
                <5>2. f[n] = d
                    BY <5>1, <2>3, <2>4
                <5> QED
                    BY <5>2, <1>4, <1>7
            <4> QED
                BY <4>1, <4>2
        <3>4. Len(f) \in Nat /\ Len(f) >= l + 1
            BY <3>1, <1>1
        <3> QED
            BY <3>2, <3>3, <3>4
    <2>6. Spread(f)
        <3>1. ASSUME NEW n \in 1..Len(f), f[n].cmd \notin Ops \cup {End}
              PROVE  f[n].read = <<-1, -1>> /\ f[n].write = <<-1, -1>>
            <4>1. n \in 1..l
                BY <3>1, <2>5, <1>1
            <4> QED
                BY <3>1, <4>1, <2>5 DEF Spread
        <3>2. ASSUME NEW n \in 1..(Len(f) - 1)
              PROVE  f[n].cmd \in Ops \/ f[n + 1].cmd \in Ops \cup {End}
            <4>1. CASE n < l
                <5>1. n \in 1..(l - 1) /\ n \in 1..l /\ n + 1 \in 1..l
                    BY <4>1, <1>1
                <5> QED
                    BY <5>1, <2>5 DEF Spread
            <4>2. CASE ~(n < l)
                BY <4>2, <2>5, <1>1
            <4> QED
                BY <4>1, <4>2
        <3> QED
            BY <3>1, <3>2 DEF Spread
    <2>7. f[Len(f)].cmd \in Ops
        BY <2>5, <1>1
    <2> QED
        BY <2>1, <2>4, <2>6, <2>7 DEF C
<1> QED
    BY <1>6, <1>7

\* What the parser makes of a line: its words and operators and the end.
LEMMA ParseShape ==
    ASSUME NEW W, End \notin W, NEW toks \in Seq(W)
    PROVE  LET c == Parse(toks)
           IN /\ c \in Seq(Parsed(W \cup {End})) /\ Len(c) \in Nat /\ Len(c) > 0
              /\ c[Len(c)].cmd = End
              /\ \A n \in 1..(Len(c) - 1) : c[n].cmd \in W
              /\ Spread(c)
<1> DEFINE k == Len(toks)
           A == [cmds : Seq(Parsed(W)), word : BOOLEAN]
           Good(a) == /\ a \in A /\ Spread(a.cmds)
                      /\ a.word \/ a.cmds = << >> \/ a.cmds[Len(a.cmds)].cmd \in Ops
<1>1. k \in Nat /\ \A n \in 1..k : toks[n] \in W
    BY ElementOfSeq, LenProperties
<1>2. PICK g : /\ g[0] = [cmds |-> << >>, word |-> FALSE]
               /\ \A n \in 1..k : g[n] = Group(g[n - 1], toks[n])
               /\ Parse(toks) = Append(g[k].cmds, Command(End, 0))
    BY <1>1, ParseIs
<1> DEFINE T == {n \in 0..k : Good(g[n])}
<1>3. Good([cmds |-> << >>, word |-> FALSE])
    BY DEF Spread
<1>4. 0 \in T
    <2> HIDE DEF Good
    <2> QED
        BY <1>1, <1>2, <1>3
<1>5. ASSUME NEW n \in 1..k, n - 1 \in T
      PROVE  n \in T
    <2>1. Good(g[n - 1]) /\ toks[n] \in W
        BY <1>1, <1>5
    <2>2. Good(Group(g[n - 1], toks[n]))
        BY <2>1, GroupKeeps
    <2> HIDE DEF Good
    <2> QED
        BY <1>1, <1>2, <2>2
<1>6. Good(g[k])
    <2> HIDE DEF Good
    <2>1. T \subseteq 0..k
        OBVIOUS
    <2>2. k \in T
        <3> HIDE DEF T, k
        <3> QED
            BY <1>1, <1>4, <1>5, <2>1, UpTo
    <2> QED
        BY <2>2
<1> DEFINE c == g[k].cmds
           e == Command(End, 0)
           f == Append(c, e)
           C == Parsed(W)
           D == Parsed(W \cup {End})
<1>7. c \in Seq(C) /\ Spread(c)
    BY <1>6
<1>8. e \in D /\ e.cmd = End
    BY DEF Command, Parsed
<1>9. \A x \in C : x \in D /\ x.cmd \in W
    BY DEF Parsed
<1> HIDE DEF c, e, C, D
<1>10. Len(c) \in Nat /\ \A n \in 1..Len(c) : c[n] \in C
    BY <1>7, ElementOfSeq, LenProperties
<1>11. c \in Seq(D)
    BY <1>7, <1>9, <1>10
<1>12. /\ f \in Seq(D) /\ Len(f) = Len(c) + 1 /\ f[Len(c) + 1] = e
       /\ \A n \in 1..Len(c) : f[n] = c[n]
    BY <1>8, <1>11, AppendProperties
<1> HIDE DEF f
<1>13. \A n \in 1..(Len(f) - 1) : f[n].cmd \in W
    BY <1>9, <1>10, <1>12
<1>14. Spread(f)
    <2>1. ASSUME NEW n \in 1..Len(f), f[n].cmd \notin Ops \cup {End}
          PROVE  f[n].read = <<-1, -1>> /\ f[n].write = <<-1, -1>>
        <3>1. n \in 1..Len(c)
            BY <2>1, <1>8, <1>10, <1>12
        <3> QED
            BY <2>1, <3>1, <1>7, <1>12 DEF Spread
    <2>2. ASSUME NEW n \in 1..(Len(f) - 1)
          PROVE  f[n].cmd \in Ops \/ f[n + 1].cmd \in Ops \cup {End}
        <3>1. CASE n < Len(c)
            <4>1. n \in 1..(Len(c) - 1) /\ n \in 1..Len(c) /\ n + 1 \in 1..Len(c)
                BY <3>1, <1>10
            <4> QED
                BY <4>1, <1>7, <1>12 DEF Spread
        <3>2. CASE ~(n < Len(c))
            <4>1. n + 1 = Len(c) + 1
                BY <3>2, <1>10, <1>12
            <4> QED
                BY <4>1, <1>12, <1>8
        <3> QED
            BY <3>1, <3>2
    <2> QED
        BY <2>1, <2>2 DEF Spread
<1>15. Parse(toks) = f
    BY <1>2 DEF f, c, e
<1> QED
    BY <1>8, <1>10, <1>12, <1>13, <1>14, <1>15 DEF D

-----------------------------------------------------------------------------
(* What the helpers of the actions return. *)

\* There are descriptors 0, 1 and 2.
LEMMA Std == {0, 1, 2} \subseteq Fds /\ Fds \subseteq Nat /\ \A n \in Fds : n < NumFds
    BY ShellAssumption DEF Fds

\* Slot is the lowest free descriptor.
LEMMA SlotIs ==
    ASSUME NEW s \in Shells
    PROVE  /\ Slot(s) \in Numbers /\ Free(s) \subseteq Fds
           /\ Slot(s) = -1 <=> Free(s) = {}
           /\ Slot(s) # -1 => Slot(s) \in Free(s) /\ \A n \in Free(s) : Slot(s) <= n
<1>1. Free(s) \subseteq Fds /\ Fds \subseteq Nat
    BY ShellAssumption DEF Free, Fds
<1>2. CASE Free(s) = {}
    BY <1>1, <1>2 DEF Slot, Numbers
<1>3. CASE Free(s) # {}
    <2>1. Min(Free(s)) \in Free(s) /\ \A n \in Free(s) : Min(Free(s)) <= n
        BY <1>1, <1>3, MinIs
    <2>2. Slot(s) = Min(Free(s))
        BY <1>3 DEF Slot
    <2> QED
        BY <1>1, <1>3, <2>1, <2>2 DEF Numbers
<1> QED
    BY <1>2, <1>3

\* A shell is its descriptors, pipes and commands, and whether it was refused.
LEMMA ShellIs ==
    ASSUME NEW s \in Shells
    PROVE  /\ \A e \in [Fds -> File] : [s EXCEPT !.fd = e] \in Shells
           /\ \A e \in [Pipes -> Seq(Nat)] : [s EXCEPT !.pipe = e] \in Shells
           /\ \A e \in Seq(Commands) : [s EXCEPT !.cmds = e] \in Shells
           /\ [s EXCEPT !.refused = TRUE] \in Shells
           /\ [s EXCEPT !.refused = FALSE] \in Shells
           /\ s.fd \in [Fds -> File] /\ s.pipe \in [Pipes -> Seq(Nat)]
           /\ s.cmds \in Seq(Commands) /\ s.refused \in BOOLEAN
<1> DEFINE F == [Fds -> File]
           P == [Pipes -> Seq(Nat)]
           C == Seq(Commands)
<1>1. Shells = [fd : F, pipe : P, cmds : C, refused : BOOLEAN]
    BY DEF Shells
<1> HIDE DEF F, P, C
<1>2. /\ \A e \in F : [s EXCEPT !.fd = e] \in Shells
      /\ \A e \in P : [s EXCEPT !.pipe = e] \in Shells
      /\ \A e \in C : [s EXCEPT !.cmds = e] \in Shells
      /\ [s EXCEPT !.refused = TRUE] \in Shells
      /\ [s EXCEPT !.refused = FALSE] \in Shells
      /\ s.fd \in F /\ s.pipe \in P /\ s.cmds \in C /\ s.refused \in BOOLEAN
    BY <1>1
<1> QED
    BY <1>2 DEF F, P, C

\* Open puts a file there.
LEMMA OpenIs ==
    ASSUME NEW s \in Shells, NEW f \in File, NEW t, t = Open(s, f)
    PROVE  /\ t \in Shells /\ t.pipe = s.pipe /\ t.cmds = s.cmds
           /\ Slot(s) = -1 => t.fd = s.fd /\ t.refused
           /\ Slot(s) # -1 => /\ t.fd = [s.fd EXCEPT ![Slot(s)] = f]
                              /\ t.refused <=> s.refused
<1>1. CASE Slot(s) = -1
    <2>1. t = [s EXCEPT !.refused = TRUE]
        BY <1>1 DEF Open
    <2>2. t \in Shells
        BY <2>1, ShellIs
    <2>3. t.fd = s.fd /\ t.pipe = s.pipe /\ t.cmds = s.cmds /\ t.refused
        BY <2>1 DEF Shells
    <2> QED
        BY <1>1, <2>2, <2>3
<1>2. CASE Slot(s) # -1
    <2> DEFINE e == [s.fd EXCEPT ![Slot(s)] = f]
    <2>1. e \in [Fds -> File]
        BY <1>2, SlotIs, ShellIs
    <2>2. t = [s EXCEPT !.fd = e]
        BY <1>2 DEF Open
    <2> HIDE DEF e
    <2>3. t \in Shells
        <3>1. PICK x \in [Fds -> File] : x = e
            BY <2>1
        <3>2. t = [s EXCEPT !.fd = x]
            BY <2>2, <3>1
        <3>3. [s EXCEPT !.fd = x] \in Shells
            BY ShellIs
        <3> QED
            BY <3>2, <3>3, Zenon
    <2>4. t.fd = e /\ t.pipe = s.pipe /\ t.cmds = s.cmds /\ (t.refused <=> s.refused)
        BY <2>2 DEF Shells
    <2> QED
        BY <1>2, <2>3, <2>4 DEF e
<1> QED
    BY <1>1, <1>2

\* Close closes, and does nothing else.
LEMMA CloseIs ==
    ASSUME NEW s \in Shells, NEW ns, NEW t, t = Close(s, ns)
    PROVE  /\ t \in Shells /\ t.pipe = s.pipe /\ t.cmds = s.cmds
           /\ t.refused <=> s.refused
           /\ \A n \in Fds : t.fd[n] = IF n \in ns THEN Closed ELSE s.fd[n]
<1> DEFINE e == [n \in Fds |-> IF n \in ns THEN Closed ELSE s.fd[n]]
<1>1. Closed \in File
    BY DEF File
<1>2. e \in [Fds -> File]
    BY <1>1, ShellIs
<1>3. t = [s EXCEPT !.fd = e]
    BY DEF Close
<1>4. \A n \in Fds : e[n] = IF n \in ns THEN Closed ELSE s.fd[n]
    OBVIOUS
<1> HIDE DEF e
<1>5. t \in Shells
    <2>1. PICK x \in [Fds -> File] : x = e
        BY <1>2
    <2>2. t = [s EXCEPT !.fd = x]
        BY <1>3, <2>1
    <2>3. [s EXCEPT !.fd = x] \in Shells
        BY ShellIs
    <2> QED
        BY <2>2, <2>3, Zenon
<1>6. t.fd = e /\ t.pipe = s.pipe /\ t.cmds = s.cmds /\ (t.refused <=> s.refused)
    BY <1>3 DEF Shells
<1> QED
    BY <1>4, <1>5, <1>6

\* dup2 gives a file.
LEMMA FileAtType ==
    ASSUME NEW s \in Shells, NEW n, NEW std \in {0, 1}
    PROVE  FileAt(s, n, std) \in File
<1>1. s.fd \in [Fds -> File] /\ std \in Fds
    BY Std DEF Shells
<1> QED
    BY <1>1 DEF FileAt

\* A table of descriptors is put in the place of another.
LEMMA WithFds ==
    ASSUME NEW s \in Shells, NEW e \in [Fds -> File], NEW t, t = [s EXCEPT !.fd = e]
    PROVE  /\ t \in Shells /\ t.fd = e /\ t.pipe = s.pipe /\ t.cmds = s.cmds
           /\ t.refused <=> s.refused
<1>1. t \in Shells
    BY ShellIs
<1> QED
    BY <1>1 DEF Shells

\* Restore changes descriptors 0 and 1.
LEMMA RestoreIs ==
    ASSUME NEW s \in Shells, NEW t, t = Restore(s)
    PROVE  /\ t \in Shells /\ t.pipe = s.pipe
           /\ t.fd[0] = FileAt(s, in, 0) /\ t.fd[1] = FileAt(s, out, 1)
<1> DEFINE e == [s.fd EXCEPT ![0] = FileAt(s, in, 0), ![1] = FileAt(s, out, 1)]
<1>1. e \in [Fds -> File]
    BY FileAtType DEF Shells
<1>2. t = [s EXCEPT !.fd = e]
    BY DEF Restore
<1>3. s.fd \in [Fds -> File] /\ 0 \in Fds /\ 1 \in Fds
    BY Std DEF Shells
<1>4. e[0] = FileAt(s, in, 0) /\ e[1] = FileAt(s, out, 1)
    BY <1>3
<1> HIDE DEF e
<1> QED
    BY <1>1, <1>2, <1>4, WithFds

\* At the prompt there are no commands, and pipes that nobody reads are empty.
LEMMA IdleIs ==
    ASSUME NEW s \in Shells, NEW t, t = Idle(s)
    PROVE  /\ t \in Shells /\ t.fd = s.fd /\ t.cmds = << >>
           /\ \A p \in Pipes : t.pipe[p] \in {<< >>, s.pipe[p]}
<1> DEFINE Q == Seq(Nat)
           e == [p \in Pipes |-> IF HasEnd(s, ReadEnd(p)) THEN s.pipe[p] ELSE << >>]
           u == [s EXCEPT !.pipe = e]
<1>1. << >> \in Q /\ << >> \in Seq(Commands)
    OBVIOUS
<1>2. t = [u EXCEPT !.cmds = << >>]
    BY DEF Idle, Shells
<1>3. s.pipe \in [Pipes -> Q]
    BY ShellIs
<1> HIDE DEF Q
<1>4. e \in [Pipes -> Q] /\ \A p \in Pipes : e[p] \in {<< >>, s.pipe[p]}
    BY <1>1, <1>3
<1> HIDE DEF e
<1>5. u \in Shells
    BY <1>4, ShellIs DEF Q
<1>6. u.fd = s.fd /\ u.pipe = e
    BY DEF Shells
<1> HIDE DEF u
<1>7. t \in Shells
    <2>1. PICK x \in Seq(Commands) : x = << >>
        BY <1>1
    <2>2. t = [u EXCEPT !.cmds = x]
        BY <1>2, <2>1
    <2>3. [u EXCEPT !.cmds = x] \in Shells
        BY <1>5, ShellIs
    <2> QED
        BY <2>2, <2>3, Zenon
<1>8. t.fd = u.fd /\ t.pipe = u.pipe /\ t.cmds = << >>
    BY <1>2, <1>5 DEF Shells
<1> QED
    BY <1>4, <1>6, <1>7, <1>8

\* The commands of a shell.
LEMMA CmdsIs ==
    ASSUME NEW s \in Shells
    PROVE  /\ s.cmds \in Seq(Commands) /\ Len(s.cmds) \in Nat
           /\ DOMAIN s.cmds = 1..Len(s.cmds)
           /\ \A n \in 1..Len(s.cmds) :
                 /\ s.cmds[n] \in Commands
                 /\ s.cmds[n].read \in Numbers \X Numbers
                 /\ s.cmds[n].write \in Numbers \X Numbers
<1>1. s.cmds \in Seq(Commands)
    BY ShellIs
<1>2. /\ Len(s.cmds) \in Nat /\ DOMAIN s.cmds = 1..Len(s.cmds)
      /\ \A n \in 1..Len(s.cmds) : s.cmds[n] \in Commands
    BY <1>1, LenProperties, ElementOfSeq
<1>3. \A c \in Commands : c.read \in Numbers \X Numbers /\ c.write \in Numbers \X Numbers
    BY DEF Commands
<1> QED
    BY <1>1, <1>2, <1>3

\* Commands are put in the place of others.
LEMMA WithCmds ==
    ASSUME NEW s \in Shells, NEW c \in Seq(Commands), NEW t, t = [s EXCEPT !.cmds = c]
    PROVE  /\ t \in Shells /\ t.fd = s.fd /\ t.pipe = s.pipe /\ t.cmds = c
           /\ t.refused <=> s.refused
<1>1. t \in Shells
    BY ShellIs
<1> QED
    BY <1>1 DEF Shells

\* A field of a command is set.
LEMMA SetField ==
    ASSUME NEW c \in Commands, NEW n \in Numbers
    PROVE  /\ [c EXCEPT !.write[2] = n] \in Commands
           /\ [c EXCEPT !.write[2] = n].cmd = c.cmd
           /\ [c EXCEPT !.write[2] = n].read = c.read
           /\ [c EXCEPT !.write[2] = n].write = <<c.write[1], n>>
           /\ \A k \in {1, 2} :
                 /\ [c EXCEPT !.read[k] = n] \in Commands
                 /\ [c EXCEPT !.read[k] = n].cmd = c.cmd
                 /\ [c EXCEPT !.read[k] = n].write = c.write
                 /\ [c EXCEPT !.read[k] = n].read = [c.read EXCEPT ![k] = n]
<1> DEFINE X == (UNION {Range(typed) : typed \in Lines}) \cup {End}
<1>1. Commands = [cmd : X, read : Numbers \X Numbers, write : Numbers \X Numbers]
    BY DEF Commands
<1> HIDE DEF X
<1>2. \A p \in Numbers \X Numbers : [p EXCEPT ![2] = n] = <<p[1], n>>
    OBVIOUS
<1>3. \A p \in Numbers \X Numbers : \A k \in {1, 2} : [p EXCEPT ![k] = n] \in Numbers \X Numbers
    OBVIOUS
<1>4. c.read \in Numbers \X Numbers /\ c.write \in Numbers \X Numbers
    BY <1>1
<1> DEFINE w == [c.write EXCEPT ![2] = n]
           d == [c EXCEPT !.write = w]
<1>5. w = <<c.write[1], n>> /\ w \in Numbers \X Numbers
    BY <1>2, <1>3, <1>4
<1>6. [c EXCEPT !.write[2] = n] = d
    OBVIOUS
<1> HIDE DEF w
<1>7. d \in Commands /\ d.cmd = c.cmd /\ d.read = c.read /\ d.write = w
    BY <1>1, <1>5
<1>8. ASSUME NEW k \in {1, 2}
      PROVE  /\ [c EXCEPT !.read[k] = n] \in Commands
             /\ [c EXCEPT !.read[k] = n].cmd = c.cmd
             /\ [c EXCEPT !.read[k] = n].write = c.write
             /\ [c EXCEPT !.read[k] = n].read = [c.read EXCEPT ![k] = n]
    <2> DEFINE r == [c.read EXCEPT ![k] = n]
               e == [c EXCEPT !.read = r]
    <2>1. r \in Numbers \X Numbers
        BY <1>3, <1>4
    <2>2. [c EXCEPT !.read[k] = n] = e
        OBVIOUS
    <2> HIDE DEF r
    <2>3. e \in Commands /\ e.cmd = c.cmd /\ e.write = c.write /\ e.read = r
        BY <1>1, <2>1
    <2> QED
        BY <2>2, <2>3 DEF r
<1> QED
    BY <1>5, <1>6, <1>7, <1>8

\* The words of a line stay.
SameWords(c, d) ==
    /\ Len(d) = Len(c)
    /\ \A n \in 1..Len(c) : d[n].cmd = c[n].cmd

\* What changes of the commands when one of them does.
Changed(s, n, d) == [s EXCEPT !.cmds[n] = d]

\* A command may be changed, if its word is not.
LEMMA OneField ==
    ASSUME NEW s \in Shells, NEW n \in 1..Len(s.cmds), NEW d \in Commands,
           d.cmd = s.cmds[n].cmd, NEW t, t = Changed(s, n, d)
    PROVE  /\ t \in Shells /\ t.fd = s.fd /\ t.pipe = s.pipe /\ (t.refused <=> s.refused)
           /\ SameWords(s.cmds, t.cmds) /\ t.cmds[n] = d
           /\ \A m \in 1..Len(s.cmds) : m # n => t.cmds[m] = s.cmds[m]
<1> DEFINE c == s.cmds
           e == [c EXCEPT ![n] = d]
<1>1. c \in Seq(Commands) /\ Len(c) \in Nat /\ DOMAIN c = 1..Len(c)
    BY CmdsIs
<1>2. t = [s EXCEPT !.cmds = e]
    BY DEF Shells, Changed
<1> HIDE DEF c
<1>3. n \in 1..Len(c)
    BY DEF c
<1>4. e \in Seq(Commands) /\ Len(e) = Len(c) /\ e[n] = d
      /\ \A m \in 1..Len(c) : m # n => e[m] = c[m]
    BY <1>1, <1>3, ExceptSeq
<1> HIDE DEF e
<1>5. t \in Shells /\ t.fd = s.fd /\ t.pipe = s.pipe /\ t.cmds = e /\ (t.refused <=> s.refused)
    BY <1>2, <1>4, WithCmds
<1>6. \A m \in 1..Len(c) : e[m].cmd = c[m].cmd
    BY <1>4 DEF c
<1> QED
    BY <1>4, <1>5, <1>6 DEF SameWords, c

\* The stages behind || and ||| are given the output.
LEMMA HandIs ==
    ASSUME NEW s \in Shells, out \in Numbers, NEW t, t = Hand(s)
    PROVE  /\ t \in Shells /\ t.fd = s.fd /\ t.pipe = s.pipe /\ (t.refused <=> s.refused)
           /\ SameWords(s.cmds, t.cmds)
           /\ \A n \in 1..Len(s.cmds) :
                /\ t.cmds[n].read = s.cmds[n].read
                /\ t.cmds[n].write = IF cmd \in {"||", "|||"} /\ n \in Heads
                                     THEN <<s.cmds[n].write[1], out>> ELSE s.cmds[n].write
<1>1. CASE cmd \notin {"||", "|||"}
    BY <1>1 DEF Hand, SameWords
<1>2. CASE cmd \in {"||", "|||"}
    <2> DEFINE c == s.cmds
               e == [n \in DOMAIN c |-> IF n \in Heads THEN [c[n] EXCEPT !.write[2] = out] ELSE c[n]]
    <2>1. t = [s EXCEPT !.cmds = e]
        BY <1>2 DEF Hand, Shells
    <2>2. /\ Len(c) \in Nat /\ DOMAIN c = 1..Len(c)
          /\ \A n \in 1..Len(c) : c[n] \in Commands
        BY CmdsIs
    <2>3. \A n \in 1..Len(c) :
            /\ e[n] \in Commands /\ e[n].cmd = c[n].cmd
            /\ e[n].read = c[n].read
            /\ e[n].write = IF n \in Heads THEN <<c[n].write[1], out>> ELSE c[n].write
        <3> HIDE DEF c
        <3>1. ASSUME NEW n \in 1..Len(c)
              PROVE  /\ e[n] \in Commands /\ e[n].cmd = c[n].cmd
                     /\ e[n].read = c[n].read
                     /\ e[n].write = IF n \in Heads THEN <<c[n].write[1], out>> ELSE c[n].write
            <4>1. CASE n \in Heads
                <5>1. e[n] = [c[n] EXCEPT !.write[2] = out]
                    BY <2>2, <4>1
                <5> DEFINE b == c[n]
                <5>2. b \in Commands
                    BY <2>2
                <5> HIDE DEF e, b
                <5>3. e[n] = [b EXCEPT !.write[2] = out]
                    BY <5>1 DEF b
                <5>5. /\ [b EXCEPT !.write[2] = out] \in Commands
                      /\ [b EXCEPT !.write[2] = out].cmd = b.cmd
                      /\ [b EXCEPT !.write[2] = out].read = b.read
                      /\ [b EXCEPT !.write[2] = out].write = <<b.write[1], out>>
                    BY <5>2, SetField, Zenon
                <5>4. /\ e[n] \in Commands /\ e[n].cmd = b.cmd
                      /\ e[n].read = b.read /\ e[n].write = <<b.write[1], out>>
                    BY <5>3, <5>5, Zenon
                <5> QED
                    BY <4>1, <5>4 DEF b
            <4>2. CASE n \notin Heads
                BY <2>2, <4>2
            <4> QED
                BY <4>1, <4>2
        <3> QED
            BY <3>1
    <2>4. e \in Seq(Commands) /\ Len(e) = Len(c)
        <3>1. e \in [1..Len(c) -> Commands]
            BY <2>2, <2>3
        <3> HIDE DEF e, c
        <3> QED
            BY <2>2, <3>1
    <2> HIDE DEF e
    <2>5. t \in Shells /\ t.fd = s.fd /\ t.pipe = s.pipe /\ t.cmds = e /\ (t.refused <=> s.refused)
        BY <2>1, <2>4, WithCmds
    <2> QED
        BY <1>2, <2>3, <2>4, <2>5 DEF SameWords
<1> QED
    BY <1>1, <1>2

\* A block is written.
LEMMA DeliverIs ==
    ASSUME NEW s \in Shells, NEW files, NEW block \in Nat, screen \in Seq(Nat),
           Deliver(s, files, block)
    PROVE  /\ sh' \in Shells /\ sh'.fd = s.fd /\ sh'.cmds = s.cmds
           /\ sh'.refused <=> s.refused
           /\ \A p \in Pipes : sh'.pipe[p] =
                IF WriteEnd(p) \in files THEN Append(s.pipe[p], block) ELSE s.pipe[p]
           /\ screen' \in Seq(Nat)
<1> DEFINE Q == Seq(Nat)
           e == [p \in Pipes |-> IF WriteEnd(p) \in files THEN Append(s.pipe[p], block)
                                 ELSE s.pipe[p]]
<1>1. sh' = [s EXCEPT !.pipe = e]
    BY DEF Deliver, Shells
<1>2. screen' \in Seq(Nat)
    <2>1. Append(screen, block) \in Seq(Nat)
        BY AppendProperties
    <2> QED
        BY <2>1 DEF Deliver
<1>3. \A q \in Q : Append(q, block) \in Q
    BY AppendProperties
<1>4. s.pipe \in [Pipes -> Q]
    BY ShellIs
<1> HIDE DEF Q
<1>5. e \in [Pipes -> Q]
    BY <1>3, <1>4
<1>6. \A p \in Pipes : e[p] =
        IF WriteEnd(p) \in files THEN Append(s.pipe[p], block) ELSE s.pipe[p]
    OBVIOUS
<1> HIDE DEF e
<1>7. sh' \in Shells
    <2>1. PICK x \in [Pipes -> Seq(Nat)] : x = e
        BY <1>5 DEF Q
    <2>2. [s EXCEPT !.pipe = x] \in Shells
        BY ShellIs
    <2> QED
        BY <1>1, <2>1, <2>2, Zenon
<1>8. sh'.fd = s.fd /\ sh'.cmds = s.cmds /\ (sh'.refused <=> s.refused) /\ sh'.pipe = e
    BY <1>1 DEF Shells
<1> QED
    BY <1>2, <1>6, <1>7, <1>8

\* A block is read.
Taken(s, p) == [s EXCEPT !.pipe[p] = Tail(@)]

\* What is left behind the first block of a pipe.
LEMMA TailIs ==
    ASSUME NEW s \in Shells, NEW p \in Pipes, s.pipe[p] # << >>,
           NEW t, t = Taken(s, p)
    PROVE  /\ t \in Shells /\ t.fd = s.fd /\ t.cmds = s.cmds /\ (t.refused <=> s.refused)
           /\ Head(s.pipe[p]) \in Nat /\ s.pipe[p] \in Seq(Nat)
           /\ Len(t.pipe[p]) = Len(s.pipe[p]) - 1 /\ Len(s.pipe[p]) \in Nat
           /\ \A q \in Pipes : q # p => t.pipe[q] = s.pipe[q]
<1> DEFINE Q == Seq(Nat)
           e == [s.pipe EXCEPT ![p] = Tail(@)]
<1>1. t = [s EXCEPT !.pipe = e]
    BY DEF Shells, Taken
<1>2. s.pipe \in [Pipes -> Q]
    BY ShellIs
<1>3. s.pipe[p] \in Seq(Nat)
    BY <1>2
<1> DEFINE c == s.pipe[p]
<1>4. c \in Seq(Nat) /\ c # << >>
    BY <1>3
<1> HIDE DEF c
<1>5. Tail(c) \in Seq(Nat) /\ Head(c) \in Nat /\ Len(Tail(c)) = Len(c) - 1 /\ Len(c) \in Nat
    BY <1>4, HeadTailProperties, LenProperties
<1> HIDE DEF Q
<1>6. e \in [Pipes -> Q] /\ e[p] = Tail(c) /\ \A q \in Pipes : q # p => e[q] = s.pipe[q]
    BY <1>2, <1>5 DEF Q, c
<1> HIDE DEF e
<1>7. t \in Shells
    <2>1. PICK x \in [Pipes -> Seq(Nat)] : x = e
        BY <1>6 DEF Q
    <2>2. [s EXCEPT !.pipe = x] \in Shells
        BY ShellIs
    <2> QED
        BY <1>1, <2>1, <2>2, Zenon
<1>8. t.fd = s.fd /\ t.cmds = s.cmds /\ (t.refused <=> s.refused) /\ t.pipe = e
    BY <1>1 DEF Shells
<1> QED
    BY <1>3, <1>5, <1>6, <1>7, <1>8 DEF c

\* No pipe holds more than it can.
Filled(s) == \A p \in Pipes : Len(s.pipe[p]) <= PipeCap

\* pipe() for one command.
LEMMA OneTarget ==
    ASSUME NEW s \in Shells, NEW n \in 1..Len(s.cmds), NEW that \in {"read", "write"}
    PROVE  Targets(s, <<n>>, that)
<1>1. DOMAIN s.cmds = 1..Len(s.cmds)
    BY CmdsIs
<1> QED
    BY <1>1 DEF Targets

\* The commands of a line: an end behind them, and between any two words an
\* operator.
Worded(c) ==
    /\ Len(c) \in Nat \ {0}
    /\ \A n \in 1..Len(c) : c[n].cmd = End <=> n = Len(c)
    /\ \A n \in 1..(Len(c) - 1) : c[n].cmd \in Ops \/ c[n + 1].cmd \in Ops \cup {End}

\* Where the shell is in them.
Shape ==
    /\ pc \in {"loop", "stage", "copy", "redirect", "single"} =>
          Worded(sh.cmds) /\ i \in 1..Len(sh.cmds)
    /\ pc \in {"loop", "stage", "copy"} =>
          \A n \in 1..Len(sh.cmds) : sh.cmds[n].cmd \notin Redirections
    /\ pc = "stage" => cmd \notin Ops \cup {"cd", End}
    /\ pc = "copy" => cmd \notin {",", "cd", End} /\ (cmd \in DOMAIN Fan => Fed)

\* The same words, the same line.
LEMMA SameShape ==
    ASSUME NEW c, NEW d, SameWords(c, d), Worded(c)
    PROVE  /\ Worded(d)
           /\ (\A n \in 1..Len(c) : c[n].cmd \notin Redirections) =>
                \A n \in 1..Len(d) : d[n].cmd \notin Redirections
    BY DEF SameWords, Worded

\* The operators.
LEMMA OpsAre ==
    /\ DOMAIN Fan = {"|", "||", "|||"}
    /\ Fan["|"] = 1 /\ Fan["||"] = 2 /\ Fan["|||"] = 3
    /\ Ops = {"|", "||", "|||", "<", ">", ">>", ",", ";"}
    /\ End \notin Ops \cup {"cd"} /\ "cd" \notin Ops
    BY DEF Fan, Ops, Redirections, End

\* The stages that an operator feeds are behind it and before the end.
LEMMA HeadsAre ==
    ASSUME cmd \in DOMAIN Fan, Fed, sh \in Shells, i \in 1..Len(sh.cmds)
    PROVE  /\ Heads \subseteq (i + 1)..(Len(sh.cmds) - 1)
           /\ Heads \subseteq 1..Len(sh.cmds)
           /\ i + 1 \in Heads
           /\ cmd = "|" => Heads = {i + 1}
           /\ Targets(sh, [k \in 1..Fan[cmd] |-> i + 2 * k - 1], "read")
           /\ \A m : m \in Heads <=> \E k \in 1..Fan[cmd] : m = i + 2 * k - 1
<1>1. Len(sh.cmds) \in Nat /\ DOMAIN sh.cmds = 1..Len(sh.cmds)
    BY CmdsIs
<1>2. Fan[cmd] \in 1..3 /\ (cmd = "|" => Fan[cmd] = 1)
    <2>1. \A x \in {"|", "||", "|||"} : Fan[x] \in {1, 2, 3}
        BY OpsAre
    <2>2. Fan[cmd] \in {1, 2, 3}
        BY <2>1, OpsAre
    <2>3. cmd = "|" => Fan[cmd] = 1
        BY OpsAre, Zenon
    <2>4. Fan[cmd] \in 1..3
        <3> DEFINE f == Fan[cmd]
        <3> HIDE DEF f
        <3>1. f \in {1, 2, 3}
            BY <2>2 DEF f
        <3>2. f \in 1..3
            BY <3>1
        <3> QED
            BY <3>2 DEF f
    <2> QED
        BY <2>3, <2>4
<1> DEFINE f == Fan[cmd]
           l == Len(sh.cmds)
<1>3. \A j \in {i + 2 * k - 1 : k \in 1..f} : j < l
    BY DEF Fed, Heads
<1>4. Heads = {i + 2 * k - 1 : k \in 1..f}
    BY DEF Heads
<1> HIDE DEF f, l
<1>5. f \in 1..3 /\ l \in Nat /\ i \in 1..l
    BY <1>1, <1>2 DEF f, l
<1>6. ASSUME NEW k \in 1..f
      PROVE  i + 2 * k - 1 \in (i + 1)..(l - 1)
    <2>1. i + 2 * k - 1 < l
        BY <1>3
    <2> QED
        BY <1>5, <2>1
<1>7. Heads \subseteq (i + 1)..(l - 1)
    BY <1>4, <1>6
<1>11. Heads \subseteq 1..l
    BY <1>5, <1>7
<1>8. i + 1 \in Heads
    <2>1. 1 \in 1..f /\ i + 2 * 1 - 1 = i + 1
        BY <1>5
    <2> QED
        BY <1>4, <2>1
<1>9. cmd = "|" => Heads = {i + 1}
    BY <1>2, <1>4, <1>5 DEF f
<1>10. Targets(sh, [k \in 1..f |-> i + 2 * k - 1], "read")
    <2> DEFINE js == [k \in 1..f |-> i + 2 * k - 1]
    <2>1. js \in [1..f -> 1..l]
        BY <1>5, <1>6
    <2>2. \A k, m \in 1..f : js[k] = js[m] => k = m
        BY <1>5
    <2> HIDE DEF js
    <2>3. js \in Seq(1..l) /\ Len(js) = f /\ DOMAIN js = 1..f
        BY <1>5, <2>1
    <2> QED
        BY <1>1, <1>5, <2>2, <2>3 DEF Targets, js, l
<1> QED
    BY <1>4, <1>7, <1>8, <1>9, <1>10, <1>11 DEF f, l

-----------------------------------------------------------------------------
(* Types. *)

Children == [in : File, out : File, reads : BOOLEAN, left : Nat]

\* TypeOK, in the terms of the lemmas.
LEMMA TypeIs ==
    TypeOK <=>
        /\ pc \in {"prompt", "loop", "redirect", "stage", "single", "copy", "spin", "gone"}
        /\ lines \in 0..MaxLines
        /\ line \in Lines \cup {<< >>}
        /\ sh \in Shells /\ Filled(sh)
        /\ i \in 1..Len(sh.cmds) \/ sh.cmds = << >>
        /\ in \in Numbers /\ out \in Numbers /\ redir \in Fds \X Fds
        /\ child \in Children
        /\ before \in [Fds -> File]
        /\ Waiting
        /\ screen \in Seq(Nat) /\ cut \in BOOLEAN
<1>1. (\A p \in Pipes : Len(sh.pipe[p]) <= PipeCap) <=> Filled(sh)
    BY DEF Filled
<1>2. {in, out} \subseteq Numbers <=> in \in Numbers /\ out \in Numbers
    OBVIOUS
<1> QED
    BY <1>1, <1>2 DEF TypeOK, Shells, Waiting, Children

\* Files.
LEMMA FilesAre == {Closed, Keyboard, Screen, Disk} \subseteq File
    BY DEF File

\* Nobody is a child, and so is who is started.
LEMMA NobodyType == Nobody \in Children
    BY FilesAre DEF Nobody, Children

\* The child that is started.
LEMMA StartType ==
    ASSUME NEW s \in Shells, NEW word, NEW n0, NEW n1, Start(word, s, n0, n1)
    PROVE  /\ child' \in Children
           /\ child'.in = FileAt(s, n0, 0) /\ child'.out = FileAt(s, n1, 1)
<1> DEFINE a == FileAt(s, n0, 0)
           b == FileAt(s, n1, 1)
           r == word \in DOMAIN Programs /\ Programs[word].filter
           l == IF word \in DOMAIN Programs THEN Programs[word].writes ELSE 0
<1>1. a \in File /\ b \in File
    BY FileAtType
<1>2. r \in BOOLEAN /\ l \in Nat
    BY ShellAssumption
<1>3. child' = [in |-> a, out |-> b, reads |-> r, left |-> l]
    BY DEF Start
<1> HIDE DEF a, b, r, l
<1>4. child' \in Children /\ child'.in = a /\ child'.out = b
    BY <1>1, <1>2, <1>3 DEF Children
<1> QED
    BY <1>4 DEF a, b

\* Back at the prompt.
LEMMA ReturnIs ==
    ASSUME NEW s \in Shells, Filled(s), Return(s)
    PROVE  /\ sh' \in Shells /\ Filled(sh') /\ sh'.fd = s.fd /\ sh'.cmds = << >>
           /\ pc' = "prompt" /\ line' = << >> /\ i' = 1
           /\ in' \in Numbers /\ out' \in Numbers /\ out' = -1 /\ redir' \in Fds \X Fds
           /\ child' \in Children
<1>1. sh' = Idle(s)
    BY DEF Return
<1>2. /\ sh' \in Shells /\ sh'.fd = s.fd /\ sh'.cmds = << >>
      /\ \A p \in Pipes : sh'.pipe[p] \in {<< >>, s.pipe[p]}
    BY <1>1, IdleIs
<1>3. Len(<< >>) <= PipeCap
    BY ShellAssumption
<1>4. Filled(sh')
    BY <1>2, <1>3 DEF Filled
<1>5. -1 \in Numbers /\ <<0, 1>> \in Fds \X Fds
    BY Std DEF Numbers
<1> QED
    BY <1>2, <1>4, <1>5, NobodyType DEF Return

\* The other shells.
LEMMA FrontLast ==
    ASSUME Waiting, nest # << >>
    PROVE  /\ Last(nest) \in [Fds -> File] /\ Front(nest) \in Seq([Fds -> File])
           /\ Len(nest) \in Nat /\ Len(nest) > 0 /\ Last(nest) = nest[Len(nest)]
           /\ Len(Front(nest)) = Len(nest) - 1
           /\ \A k \in 1..Len(Front(nest)) : Front(nest)[k] = nest[k] /\ k \in 1..Len(nest)
<1> DEFINE T == [Fds -> File]
           l == Len(nest)
<1>1. nest \in Seq(T)
    BY DEF Waiting
<1> HIDE DEF T
<1>2. l \in Nat /\ l > 0 /\ \A k \in 1..l : nest[k] \in T
    BY <1>1, EmptySeq, LenProperties, ElementOfSeq
<1>3. Last(nest) = nest[l] /\ Front(nest) = SubSeq(nest, 1, l - 1)
    BY DEF Last, Front
<1> HIDE DEF l
<1>4. nest[l] \in T
    BY <1>2
<1>5. \A k \in 1..(l - 1) : nest[k] \in T
    BY <1>2
<1>6. /\ SubSeq(nest, 1, l - 1) \in Seq(T) /\ Len(SubSeq(nest, 1, l - 1)) = l - 1
      /\ \A k \in 1..(l - 1) : SubSeq(nest, 1, l - 1)[k] = nest[k]
    <2>1. 1 \in 1..(l + 1) /\ l - 1 \in 0..l
        BY <1>2
    <2>2. IF 1 <= l - 1 THEN Len(SubSeq(nest, 1, l - 1)) = l - 1 - 1 + 1
                         ELSE Len(SubSeq(nest, 1, l - 1)) = 0
        BY <1>1, <2>1, SubSeqProperties DEF l
    <2>3. Len(SubSeq(nest, 1, l - 1)) = l - 1
        BY <1>2, <2>2
    <2>4. SubSeq(nest, 1, l - 1) \in Seq(T)
          /\ \A k \in 1..(l - 1 - 1 + 1) : SubSeq(nest, 1, l - 1)[k] = nest[1 + k - 1]
        BY <1>1, <2>1, SubSeqProperties DEF l
    <2> QED
        BY <1>2, <2>3, <2>4
<1> QED
    BY <1>2, <1>3, <1>4, <1>6 DEF T, l

\* The inductive invariant of the types.
Typing == TypeOK /\ Shape

\* A line that stays where it is.
LEMMA TypeQuiet ==
    ASSUME Typing, lines' \in 0..MaxLines,
           CopyBlock \/ ChildRead \/ ChildEof \/ ChildWrite \/ Interrupt
    PROVE  Typing' /\ sh'.fd = sh.fd /\ sh'.cmds = sh.cmds /\ (sh'.refused <=> sh.refused)
<1>1. /\ sh \in Shells /\ Filled(sh) /\ screen \in Seq(Nat) /\ child \in Children
      /\ i \in 1..Len(sh.cmds) \/ sh.cmds = << >>
      /\ line \in Lines \cup {<< >>} /\ before \in [Fds -> File] /\ Waiting
    BY TypeIs DEF Typing
<1>2. /\ pc \in {"prompt", "loop", "redirect", "stage", "single", "copy", "spin", "gone"}
      /\ in \in Numbers /\ out \in Numbers /\ redir \in Fds \X Fds /\ cut \in BOOLEAN
    BY TypeIs DEF Typing
<1>3. UNCHANGED <<pc, line, i, in, out, redir, nest, before>>
    BY DEF CopyBlock, ChildRead, ChildEof, ChildWrite, Interrupt, locals, history
<1>4. /\ sh' \in Shells /\ Filled(sh') /\ screen' \in Seq(Nat) /\ child' \in Children
      /\ sh'.fd = sh.fd /\ sh'.cmds = sh.cmds /\ (sh'.refused <=> sh.refused)
      /\ cut' \in BOOLEAN
    <2>1. CASE CopyBlock
        <3>1. PICK p \in Pipes :
                /\ SourceFile = ReadEnd(p) /\ sh.pipe[p] # << >>
                /\ LET s == [sh EXCEPT !.pipe[p] = Tail(@)]
                   IN /\ \A q \in Pipes : WriteEnd(q) \in SinkFiles => Room(s, q)
                      /\ Deliver(s, SinkFiles, Head(sh.pipe[p]))
            BY <2>1 DEF CopyBlock
        <3> DEFINE s == [sh EXCEPT !.pipe[p] = Tail(@)]
                   b == Head(sh.pipe[p])
        <3>2. /\ s \in Shells /\ s.fd = sh.fd /\ s.cmds = sh.cmds
              /\ s.refused <=> sh.refused
              /\ b \in Nat /\ sh.pipe[p] \in Seq(Nat)
              /\ Len(s.pipe[p]) = Len(sh.pipe[p]) - 1 /\ Len(sh.pipe[p]) \in Nat
              /\ \A q \in Pipes : q # p => s.pipe[q] = sh.pipe[q]
            <4>1. s = Taken(sh, p)
                BY DEF Taken
            <4> HIDE DEF s
            <4> QED
                BY <1>1, <3>1, <4>1, TailIs
        <3>3. \A q \in Pipes : WriteEnd(q) \in SinkFiles => Len(s.pipe[q]) < PipeCap
            BY <3>1 DEF Room
        <3>4. Deliver(s, SinkFiles, b)
            BY <3>1
        <3> HIDE DEF s, b
        <3>5. \A q \in Pipes : s.pipe[q] \in Seq(Nat)
            BY <3>2, ShellIs
        <3>6. Filled(s)
            <4>1. \A q \in Pipes : Len(sh.pipe[q]) <= PipeCap
                BY <1>1 DEF Filled
            <4>2. Len(s.pipe[p]) <= PipeCap
                BY <3>1, <3>2, <4>1, ShellAssumption
            <4> QED
                BY <3>2, <4>1, <4>2 DEF Filled
        <3>7. /\ sh' \in Shells /\ sh'.fd = s.fd /\ sh'.cmds = s.cmds
              /\ sh'.refused <=> s.refused
              /\ \A q \in Pipes : sh'.pipe[q] =
                   IF WriteEnd(q) \in SinkFiles THEN Append(s.pipe[q], b) ELSE s.pipe[q]
              /\ screen' \in Seq(Nat)
            BY <1>1, <3>2, <3>4, DeliverIs
        <3>8. Filled(sh')
            <4>1. ASSUME NEW q \in Pipes
                  PROVE  Len(sh'.pipe[q]) <= PipeCap
                <5>1. CASE WriteEnd(q) \in SinkFiles
                    <6> DEFINE x == s.pipe[q]
                    <6>1. x \in Seq(Nat) /\ Len(x) < PipeCap
                        BY <3>3, <3>5, <5>1
                    <6>2. sh'.pipe[q] = Append(x, b)
                        BY <3>7, <5>1
                    <6> HIDE DEF x
                    <6>3. Len(Append(x, b)) = Len(x) + 1 /\ Len(x) \in Nat
                        BY <3>2, <6>1, AppendProperties, LenProperties
                    <6> QED
                        BY <6>1, <6>2, <6>3, ShellAssumption
                <5>2. CASE WriteEnd(q) \notin SinkFiles
                    BY <3>6, <3>7, <5>2 DEF Filled
                <5> QED
                    BY <5>1, <5>2
            <4> QED
                BY <4>1 DEF Filled
        <3> QED
            BY <1>1, <1>2, <2>1, <3>2, <3>7, <3>8 DEF CopyBlock, history
    <2>2. CASE ChildRead
        <3>1. PICK p \in Pipes :
                /\ child.in = ReadEnd(p) /\ sh.pipe[p] # << >>
                /\ sh' = [sh EXCEPT !.pipe[p] = Tail(@)]
                /\ child' = [child EXCEPT !.left = @ + 1]
            BY <2>2 DEF ChildRead
        <3>2. /\ sh' \in Shells /\ sh'.fd = sh.fd /\ sh'.cmds = sh.cmds
              /\ sh'.refused <=> sh.refused
              /\ Len(sh'.pipe[p]) = Len(sh.pipe[p]) - 1 /\ Len(sh.pipe[p]) \in Nat
              /\ \A q \in Pipes : q # p => sh'.pipe[q] = sh.pipe[q]
            <4>1. PICK t : t = sh'
                OBVIOUS
            <4>2. t = Taken(sh, p)
                BY <3>1, <4>1 DEF Taken
            <4>3. sh.pipe[p] # << >>
                BY <3>1
            <4>4. /\ t \in Shells /\ t.fd = sh.fd /\ t.cmds = sh.cmds
                  /\ t.refused <=> sh.refused
                  /\ Len(t.pipe[p]) = Len(sh.pipe[p]) - 1 /\ Len(sh.pipe[p]) \in Nat
                  /\ \A q \in Pipes : q # p => t.pipe[q] = sh.pipe[q]
                BY <1>1, <4>2, <4>3, TailIs
            <4> QED
                BY <4>1, <4>4
        <3>3. Filled(sh')
            <4>1. \A q \in Pipes : Len(sh.pipe[q]) <= PipeCap
                BY <1>1 DEF Filled
            <4>2. Len(sh'.pipe[p]) <= PipeCap
                BY <3>1, <3>2, <4>1, ShellAssumption
            <4> QED
                BY <3>2, <4>1, <4>2 DEF Filled
        <3>4. child' \in Children
            BY <1>1, <3>1 DEF Children
        <3> QED
            BY <1>1, <1>2, <2>2, <3>2, <3>3, <3>4 DEF ChildRead, history
    <2>3. CASE ChildEof \/ Interrupt
        <3>1. UNCHANGED <<sh, screen>>
            BY <2>3 DEF ChildEof, Interrupt
        <3>2. child' \in Children
            <4>1. \/ child' = [child EXCEPT !.reads = FALSE]
                  \/ child' = [child EXCEPT !.reads = FALSE, !.left = 0]
                BY <2>3 DEF ChildEof, Interrupt
            <4>2. [child EXCEPT !.reads = FALSE] \in Children
                BY <1>1 DEF Children
            <4>3. [child EXCEPT !.reads = FALSE, !.left = 0] \in Children
                BY <1>1 DEF Children
            <4> QED
                BY <4>1, <4>2, <4>3, Zenon
        <3>3. cut' \in BOOLEAN
            BY <1>2, <2>3 DEF ChildEof, Interrupt, history
        <3> QED
            BY <1>1, <3>1, <3>2, <3>3
    <2>4. CASE ChildWrite
        <3>1. /\ Deliver(sh, {child.out}, i) /\ child' = [child EXCEPT !.left = @ - 1]
              /\ \A p \in Pipes : child.out = WriteEnd(p) => Room(sh, p)
              /\ pc \in {"stage", "single"} /\ (child.reads \/ child.left > 0) /\ ~child.reads
              /\ cut' = cut
            BY <2>4 DEF ChildWrite, Running, history
        <3>2. i \in Nat
            <4>1. Worded(sh.cmds) /\ i \in 1..Len(sh.cmds)
                BY <3>1 DEF Typing, Shape
            <4>2. Len(sh.cmds) \in Nat
                BY <4>1 DEF Worded
            <4> QED
                BY <4>1, <4>2
        <3>3. /\ sh' \in Shells /\ sh'.fd = sh.fd /\ sh'.cmds = sh.cmds
              /\ sh'.refused <=> sh.refused
              /\ \A q \in Pipes : sh'.pipe[q] =
                   IF WriteEnd(q) \in {child.out} THEN Append(sh.pipe[q], i) ELSE sh.pipe[q]
              /\ screen' \in Seq(Nat)
            BY <1>1, <3>1, <3>2, DeliverIs
        <3>4. Filled(sh')
            <4>1. ASSUME NEW q \in Pipes
                  PROVE  Len(sh'.pipe[q]) <= PipeCap
                <5>1. CASE WriteEnd(q) = child.out
                    <6> DEFINE x == sh.pipe[q]
                    <6>1. x \in Seq(Nat) /\ Len(x) < PipeCap
                        BY <1>1, <3>1, <5>1, ShellIs DEF Room
                    <6>2. sh'.pipe[q] = Append(x, i)
                        BY <3>3, <5>1
                    <6> HIDE DEF x
                    <6>3. Len(Append(x, i)) = Len(x) + 1 /\ Len(x) \in Nat
                        BY <3>2, <6>1, AppendProperties, LenProperties
                    <6> QED
                        BY <6>1, <6>2, <6>3, ShellAssumption
                <5>2. CASE WriteEnd(q) # child.out
                    BY <1>1, <3>3, <5>2 DEF Filled
                <5> QED
                    BY <5>1, <5>2
            <4> QED
                BY <4>1 DEF Filled
        <3>5. child' \in Children
            <4>1. child.left \in Nat /\ child.left > 0
                <5>1. child.left > 0
                    BY <3>1, Zenon
                <5> QED
                    BY <1>1, <5>1 DEF Children
            <4>2. child.left - 1 \in Nat
                BY <4>1
            <4> QED
                BY <1>1, <3>1, <4>2 DEF Children
        <3>6. cut' \in BOOLEAN
            BY <1>2, <3>1
        <3> QED
            BY <3>3, <3>4, <3>5, <3>6
    <2> QED
        BY <2>1, <2>2, <2>3, <2>4
<1>5. TypeOK'
    <2>1. Waiting'
        BY <1>1, <1>3 DEF Waiting
    <2>2. i' \in 1..Len(sh'.cmds) \/ sh'.cmds = << >>
        BY <1>1, <1>3, <1>4
    <2>3. (TypeOK <=>
        /\ pc \in {"prompt", "loop", "redirect", "stage", "single", "copy", "spin", "gone"}
        /\ lines \in 0..MaxLines
        /\ line \in Lines \cup {<< >>}
        /\ sh \in Shells /\ Filled(sh)
        /\ i \in 1..Len(sh.cmds) \/ sh.cmds = << >>
        /\ in \in Numbers /\ out \in Numbers /\ redir \in Fds \X Fds
        /\ child \in Children
        /\ before \in [Fds -> File]
        /\ Waiting
        /\ screen \in Seq(Nat) /\ cut \in BOOLEAN)'
        BY TypeIs, PTL
    <2> QED
        BY <1>1, <1>2, <1>3, <1>4, <2>1, <2>2, <2>3
<1>6. Shape'
    <2>1. cmd' = cmd
        BY <1>3, <1>4 DEF cmd
    <2>2. Fed' <=> Fed
        BY <1>3, <1>4 DEF Fed, Heads, cmd
    <2> QED
        BY <1>3, <1>4, <2>1, <2>2 DEF Typing, Shape
<1> QED
    BY <1>4, <1>5, <1>6 DEF Typing

\* What may be used of the types, and what is to be shown of them behind a step.
LEMMA TypeNext ==
    (TypeOK <=>
        /\ pc \in {"prompt", "loop", "redirect", "stage", "single", "copy", "spin", "gone"}
        /\ lines \in 0..MaxLines
        /\ line \in Lines \cup {<< >>}
        /\ sh \in Shells /\ Filled(sh)
        /\ i \in 1..Len(sh.cmds) \/ sh.cmds = << >>
        /\ in \in Numbers /\ out \in Numbers /\ redir \in Fds \X Fds
        /\ child \in Children
        /\ before \in [Fds -> File]
        /\ Waiting
        /\ screen \in Seq(Nat) /\ cut \in BOOLEAN)'
    BY TypeIs, PTL

\* What the types say where a line is executed.
LEMMA TypeUse ==
    ASSUME Typing
    PROVE  /\ sh \in Shells /\ Filled(sh) /\ Waiting /\ nest \in Seq([Fds -> File])
           /\ line \in Lines \cup {<< >>}
           /\ in \in Numbers /\ out \in Numbers /\ redir \in Fds \X Fds
           /\ child \in Children /\ before \in [Fds -> File]
           /\ screen \in Seq(Nat) /\ cut \in BOOLEAN
           /\ i \in 1..Len(sh.cmds) \/ sh.cmds = << >>
           /\ pc \in {"loop", "stage", "copy", "redirect", "single"} =>
                /\ i \in 1..Len(sh.cmds) /\ Worded(sh.cmds) /\ Len(sh.cmds) \in Nat
                /\ DOMAIN sh.cmds = 1..Len(sh.cmds)
                /\ cmd = End <=> i = Len(sh.cmds)
                /\ i < Len(sh.cmds) => i + 1 \in 1..Len(sh.cmds)
<1>1. /\ sh \in Shells /\ Filled(sh) /\ Waiting /\ nest \in Seq([Fds -> File])
      /\ line \in Lines \cup {<< >>}
      /\ in \in Numbers /\ out \in Numbers /\ redir \in Fds \X Fds
      /\ child \in Children /\ before \in [Fds -> File]
      /\ screen \in Seq(Nat) /\ cut \in BOOLEAN
      /\ i \in 1..Len(sh.cmds) \/ sh.cmds = << >>
    BY TypeIs DEF Typing, Waiting
<1>2. ASSUME pc \in {"loop", "stage", "copy", "redirect", "single"}
      PROVE  /\ i \in 1..Len(sh.cmds) /\ Worded(sh.cmds) /\ Len(sh.cmds) \in Nat
             /\ DOMAIN sh.cmds = 1..Len(sh.cmds)
             /\ cmd = End <=> i = Len(sh.cmds)
             /\ i < Len(sh.cmds) => i + 1 \in 1..Len(sh.cmds)
    <2>1. i \in 1..Len(sh.cmds) /\ Worded(sh.cmds)
        BY <1>2 DEF Typing, Shape
    <2>2. Len(sh.cmds) \in Nat /\ DOMAIN sh.cmds = 1..Len(sh.cmds)
        BY <1>1, CmdsIs
    <2>3. cmd = End <=> i = Len(sh.cmds)
        BY <2>1 DEF Worded, cmd
    <2>4. i < Len(sh.cmds) => i + 1 \in 1..Len(sh.cmds)
        BY <2>1, <2>2
    <2> QED
        BY <2>1, <2>2, <2>3, <2>4
<1> QED
    BY <1>1, <1>2

\* Before the end there is another command.
LEMMA NotLast ==
    ASSUME Typing, pc \in {"loop", "stage", "copy", "redirect", "single"}, cmd # End
    PROVE  i < Len(sh.cmds) /\ i + 1 \in 1..Len(sh.cmds)
<1>1. i \in 1..Len(sh.cmds) /\ Len(sh.cmds) \in Nat /\ (cmd = End <=> i = Len(sh.cmds))
    BY TypeUse
<1>2. i # Len(sh.cmds)
    BY <1>1
<1> QED
    BY <1>1, <1>2

\* Back at the prompt all is well.
LEMMA ReturnTypes ==
    ASSUME Typing, NEW s \in Shells, Filled(s), Return(s), lines' \in 0..MaxLines,
           UNCHANGED <<screen, history>>,
           nest' \in Seq([Fds -> File]), Len(nest') <= MaxNest
    PROVE  Typing'
<1>1. /\ before \in [Fds -> File] /\ screen \in Seq(Nat) /\ cut \in BOOLEAN
    BY TypeUse
<1>2. /\ sh' \in Shells /\ Filled(sh') /\ sh'.fd = s.fd /\ sh'.cmds = << >>
      /\ pc' = "prompt" /\ line' = << >> /\ i' = 1
      /\ in' \in Numbers /\ out' \in Numbers /\ redir' \in Fds \X Fds
      /\ child' \in Children
    BY ReturnIs
<1>3. Waiting'
    BY DEF Waiting
<1>4. TypeOK'
    BY <1>1, <1>2, <1>3, TypeNext DEF history
<1>5. Shape'
    BY <1>2 DEF Shape
<1> QED
    BY <1>4, <1>5 DEF Typing

\* The shell that waited goes on, or there is none.
LEMMA QuitTypes ==
    ASSUME Typing, Quit, lines' \in 0..MaxLines, UNCHANGED <<screen, history>>
    PROVE  Typing'
<1>1. /\ sh \in Shells /\ Filled(sh) /\ Waiting
    BY TypeUse
<1>2. CASE nest = << >>
    <2>1. pc' = "gone" /\ UNCHANGED <<line, sh, i, in, out, redir, child, nest>>
        BY <1>2 DEF Quit, locals
    <2>2. Waiting' /\ Filled(sh')
        BY <1>1, <2>1 DEF Waiting
    <2>3. TypeOK'
        BY <2>1, <2>2, TypeUse, TypeNext DEF history
    <2> QED
        BY <2>1, <2>3 DEF Typing, Shape
<1>3. CASE nest # << >>
    <2> DEFINE e == Last(nest)
               s == [sh EXCEPT !.fd = e]
    <2>1. nest' = Front(nest) /\ Return(s)
        BY <1>3 DEF Quit
    <2>2. /\ e \in [Fds -> File] /\ nest' \in Seq([Fds -> File])
          /\ Len(nest') = Len(nest) - 1 /\ Len(nest) \in Nat
        BY <1>1, <1>3, <2>1, FrontLast
    <2>3. Len(nest') <= MaxNest
        BY <1>1, <2>2, ShellAssumption DEF Waiting
    <2> HIDE DEF e
    <2>4. s \in Shells /\ s.pipe = sh.pipe
        BY <1>1, <2>2, WithFds
    <2> HIDE DEF s
    <2>5. Filled(s)
        BY <1>1, <2>4 DEF Filled
    <2> QED
        BY <2>1, <2>2, <2>3, <2>4, <2>5, ReturnTypes
<1> QED
    BY <1>2, <1>3

\* Steps that end a line, and the end of the input.
LEMMA TypeEnds ==
    ASSUME Typing, lines' \in 0..MaxLines,
           InputLost \/ Exit \/ Finish \/ ReapSingle
    PROVE  Typing'
<1>1. /\ sh \in Shells /\ Filled(sh) /\ Waiting /\ nest \in Seq([Fds -> File])
    BY TypeUse
<1>2. CASE InputLost
    <2>1. pc' = "spin"
          /\ UNCHANGED <<line, sh, i, in, out, redir, child, nest, screen, cut, before>>
        BY <1>2 DEF InputLost, locals, history
    <2>2. Waiting' /\ Filled(sh')
        BY <1>1, <2>1 DEF Waiting
    <2>3. TypeOK'
        BY <2>1, <2>2, TypeUse, TypeNext
    <2> QED
        BY <2>1, <2>3 DEF Typing, Shape
<1>3. CASE Exit
    BY <1>3, QuitTypes DEF Exit
<1>4. CASE Finish \/ ReapSingle
    <2> DEFINE s == Restore(sh)
    <2>1. Return(s) /\ UNCHANGED <<nest, screen, history>>
        BY <1>4 DEF Finish, ReapSingle
    <2>2. s \in Shells /\ s.pipe = sh.pipe
        BY <1>1, RestoreIs
    <2> HIDE DEF s
    <2>3. Filled(s)
        BY <1>1, <2>2 DEF Filled
    <2>4. nest' \in Seq([Fds -> File]) /\ Len(nest') <= MaxNest
        BY <1>1, <2>1 DEF Waiting
    <2> QED
        BY <2>1, <2>2, <2>3, <2>4, ReturnTypes
<1> QED
    BY <1>2, <1>3, <1>4

\* What Enter makes of a line: the copies of input and output are at the two
\* lowest free descriptors, and the commands are those of the parser.
LEMMA EnterIs ==
    ASSUME Typing, NEW typed \in Lines, Enter(typed)
    PROVE  /\ pc = "prompt" /\ sh.fd[0] = Keyboard
           /\ sh' \in Shells /\ sh'.pipe = sh.pipe
           /\ pc' \in {"loop", "redirect"} /\ i' = 1 /\ before' = sh.fd
           /\ Worded(sh'.cmds)
           /\ pc' = "loop" => \A n \in 1..Len(sh'.cmds) : sh'.cmds[n].cmd \notin Redirections
           /\ \A n \in 1..Len(sh'.cmds) :
                /\ sh'.cmds[n].write \in {<<-1, -1>>, <<0, 0>>}
                /\ sh'.cmds[n].read \in {<<-1, -1>>, <<0, 0>>, <<0, -1>>}
                /\ sh'.cmds[n].cmd \notin Ops \cup {End} =>
                     /\ sh'.cmds[n].write = <<-1, -1>>
                     /\ n > 1 => sh'.cmds[n].read = <<-1, -1>>
           /\ in' \in Numbers /\ out' \in Numbers
           /\ in' # -1 => in' \in Free(sh)
           /\ out' # -1 => out' \in Free(sh)
           /\ \A n \in Fds : sh'.fd[n] = IF n = in' THEN Keyboard
                                         ELSE IF n = out' THEN sh.fd[1] ELSE sh.fd[n]
           /\ ~sh'.refused => /\ in' \in Fds /\ out' \in Fds /\ in' < out'
                              /\ \A n \in Free(sh) : n \in {in', out'} \/ n > out'
<1>1. /\ sh \in Shells /\ pc = "prompt" /\ sh.fd[0] = Keyboard
    BY TypeUse DEF Enter, Type
<1> DEFINE toks == Split(typed)
           p == Parse(toks)
           s == [sh EXCEPT !.cmds = p, !.refused = FALSE]
           d == Open(s, sh.fd[0])
           e == Open(d, sh.fd[1])
<1>2. /\ toks # << >> /\ ~(IsPipeline(toks) /\ IsRedirected(toks))
      /\ sh' = IF IsPipeline(toks) THEN [e EXCEPT !.cmds[1].read[1] = 0] ELSE e
      /\ in' = Slot(sh) /\ out' = Slot(d)
      /\ pc' = IF IsPipeline(toks) THEN "loop" ELSE "redirect"
      /\ i' = 1 /\ before' = sh.fd
    BY DEF Enter
<1> DEFINE W == Range(toks)
<1>3. toks \in Seq(W) /\ End \notin W /\ W \subseteq Range(typed)
    <2>1. toks \in Seq(Range(typed)) /\ End \notin Range(typed)
        BY SplitType
    <2> DEFINE k == toks
    <2> HIDE DEF toks
    <2>2. /\ Len(toks) \in Nat /\ DOMAIN toks = 1..Len(toks)
          /\ \A n \in 1..Len(toks) : toks[n] \in Range(typed)
        BY <2>1, LenProperties, ElementOfSeq
    <2>3. Range(toks) = {toks[n] : n \in 1..Len(toks)}
        BY <2>2 DEF Range
    <2>4. Range(toks) \subseteq Range(typed)
        BY <2>2, <2>3
    <2>5. toks \in Seq(Range(toks))
        <3>1. toks \in [1..Len(toks) -> Range(toks)]
            BY <2>1, <2>2, <2>3
        <3> QED
            BY <2>2, <3>1
    <2> QED
        BY <2>1, <2>4, <2>5
<1> HIDE DEF toks
<1>4. /\ p \in Seq(Parsed(W \cup {End})) /\ Len(p) \in Nat /\ Len(p) > 0
      /\ p[Len(p)].cmd = End
      /\ \A n \in 1..(Len(p) - 1) : p[n].cmd \in W
      /\ Spread(p)
    BY <1>3, ParseShape
<1> DEFINE X == (UNION {Range(y) : y \in Lines}) \cup {End}
<1>5. Parsed(W \cup {End}) \subseteq Commands
    <2>1. Commands = [cmd : X, read : Numbers \X Numbers, write : Numbers \X Numbers]
        BY DEF Commands
    <2>2. W \cup {End} \subseteq X
        <3>1. \A x \in Range(typed) : x \in UNION {Range(y) : y \in Lines}
            OBVIOUS
        <3>2. Range(typed) \subseteq X
            BY <3>1
        <3> HIDE DEF X, W
        <3>3. W \subseteq X
            BY <1>3, <3>2
        <3>4. End \in X
            BY DEF X
        <3> QED
            BY <3>3, <3>4
    <2> DEFINE V == W \cup {End}
    <2> HIDE DEF X, W, V
    <2>3. {<<-1, -1>>, <<0, 0>>} \subseteq Numbers \X Numbers
        BY Std DEF Numbers
    <2>4. Parsed(V) = [cmd : V, read : {<<-1, -1>>, <<0, 0>>}, write : {<<-1, -1>>, <<0, 0>>}]
        BY DEF Parsed
    <2>5. V \subseteq X
        BY <2>2 DEF V
    <2>6. Parsed(V) \subseteq Commands
        BY <2>1, <2>3, <2>4, <2>5
    <2> QED
        BY <2>6 DEF V
<1>6. \A n \in 1..Len(p) : /\ p[n] \in Parsed(W \cup {End})
                           /\ p[n].write \in {<<-1, -1>>, <<0, 0>>}
                           /\ p[n].read \in {<<-1, -1>>, <<0, 0>>}
    <2>1. \A n \in 1..Len(p) : p[n] \in Parsed(W \cup {End})
        BY <1>4, ElementOfSeq
    <2>2. \A c \in Parsed(W \cup {End}) : /\ c.write \in {<<-1, -1>>, <<0, 0>>}
                                          /\ c.read \in {<<-1, -1>>, <<0, 0>>}
        BY DEF Parsed
    <2> HIDE DEF p
    <2> QED
        BY <2>1, <2>2
<1>7. p \in Seq(Commands)
    <2> HIDE DEF p, W
    <2>2. \A n \in 1..Len(p) : p[n] \in Commands
        BY <1>5, <1>6
    <2>3. p \in [1..Len(p) -> Parsed(W \cup {End})]
        BY <1>4, LenProperties
    <2>1. p \in [1..Len(p) -> Commands]
        BY <2>2, <2>3
    <2> QED
        BY <1>4, <2>1
<1>8. Worded(p)
    <2>1. ASSUME NEW n \in 1..Len(p)
          PROVE  p[n].cmd = End <=> n = Len(p)
        <3> HIDE DEF p, W
        <3>1. CASE n = Len(p)
            BY <1>4, <3>1
        <3>2. CASE n # Len(p)
            <4>1. n \in 1..(Len(p) - 1)
                BY <1>4, <3>2
            <4> QED
                BY <1>3, <1>4, <3>2, <4>1
        <3> QED
            BY <3>1, <3>2
    <2> HIDE DEF p
    <2> QED
        BY <1>4, <2>1 DEF Worded, Spread
<1> HIDE DEF p, W, X
<1>9. s \in Shells /\ s.fd = sh.fd /\ s.pipe = sh.pipe /\ s.cmds = p /\ ~s.refused
    <2> DEFINE u == [sh EXCEPT !.cmds = p]
    <2>1. u \in Shells /\ u.fd = sh.fd /\ u.pipe = sh.pipe /\ u.cmds = p
        BY <1>1, <1>7, WithCmds
    <2>2. s = [u EXCEPT !.refused = FALSE]
        BY <1>1 DEF Shells
    <2> HIDE DEF u
    <2>3. s \in Shells
        BY <2>1, <2>2, ShellIs
    <2> QED
        BY <2>1, <2>2, <2>3 DEF Shells
<1>10. Free(s) = Free(sh) /\ Slot(s) = Slot(sh)
    BY <1>9 DEF Free, Slot
<1> HIDE DEF s
<1>11. sh.fd \in [Fds -> File] /\ sh.fd[0] \in File /\ sh.fd[1] \in File
    BY <1>1, Std, ShellIs
<1>12. /\ d \in Shells /\ d.pipe = s.pipe /\ d.cmds = s.cmds
       /\ Slot(s) = -1 => d.fd = s.fd /\ d.refused
       /\ Slot(s) # -1 => /\ d.fd = [s.fd EXCEPT ![Slot(s)] = sh.fd[0]]
                          /\ d.refused <=> s.refused
    BY <1>9, <1>11, OpenIs
<1> HIDE DEF d
<1>13. /\ e \in Shells /\ e.pipe = d.pipe /\ e.cmds = d.cmds
       /\ Slot(d) = -1 => e.fd = d.fd /\ e.refused
       /\ Slot(d) # -1 => /\ e.fd = [d.fd EXCEPT ![Slot(d)] = sh.fd[1]]
                          /\ e.refused <=> d.refused
    BY <1>11, <1>12, OpenIs
<1> HIDE DEF e
<1> DEFINE a == in'
           b == out'
<1>14. /\ a \in Numbers /\ Free(sh) \subseteq Fds
       /\ a = -1 <=> Free(sh) = {}
       /\ a # -1 => a \in Free(sh) /\ \A n \in Free(sh) : a <= n
    BY <1>1, <1>2, SlotIs
<1>15. /\ b \in Numbers /\ Free(d) \subseteq Fds
       /\ b = -1 <=> Free(d) = {}
       /\ b # -1 => b \in Free(d) /\ \A n \in Free(d) : b <= n
    BY <1>2, <1>12, SlotIs
<1>16. a = Slot(s) /\ b = Slot(d)
    BY <1>2, <1>10
<1> HIDE DEF a, b
<1>17. \A n \in Fds : d.fd[n] = IF n = a THEN Keyboard ELSE sh.fd[n]
    <2>1. -1 \notin Fds
        BY Std
    <2> QED
        BY <1>1, <1>9, <1>11, <1>12, <1>16, <2>1
<1>18. \A n \in Fds : e.fd[n] = IF n = b THEN sh.fd[1] ELSE d.fd[n]
    <2>1. -1 \notin Fds
        BY Std
    <2>2. d.fd \in [Fds -> File]
        BY <1>12, ShellIs
    <2> QED
        BY <1>13, <1>16, <2>1, <2>2
<1>19. Free(d) = Free(sh) \ {a}
    <2>1. Keyboard # Closed
        BY DEF Keyboard, Closed
    <2> QED
        BY <1>17, <2>1 DEF Free
<1>20. \A n \in Fds : e.fd[n] = IF n = a THEN Keyboard ELSE IF n = b THEN sh.fd[1] ELSE sh.fd[n]
    <2>1. a # b \/ a = -1
        BY <1>15, <1>19
    <2>2. -1 \notin Fds
        BY Std
    <2> QED
        BY <1>17, <1>18, <2>1, <2>2
<1>21. ~e.refused => /\ a \in Fds /\ b \in Fds /\ a < b
                     /\ \A n \in Free(sh) : n \in {a, b} \/ n > b
    <2>1. ASSUME ~e.refused
          PROVE  /\ a \in Fds /\ b \in Fds /\ a < b
                 /\ \A n \in Free(sh) : n \in {a, b} \/ n > b
        <3>1. a # -1 /\ b # -1
            BY <2>1, <1>12, <1>13, <1>16
        <3>2. a \in Free(sh) /\ b \in Free(sh) /\ a # b /\ a \in Fds /\ b \in Fds
            BY <3>1, <1>14, <1>15, <1>19
        <3>3. a <= b
            BY <3>1, <3>2, <1>14
        <3>4. \A n \in Free(sh) : n \in Fds /\ (n # a => b <= n)
            BY <3>1, <1>14, <1>15, <1>19
        <3> QED
            BY <3>2, <3>3, <3>4, Std
    <2> QED
        BY <2>1
<1>22. b # -1 => b \in Free(sh)
    BY <1>15, <1>19
<1>23. /\ sh' \in Shells /\ sh'.pipe = sh.pipe /\ sh'.fd = e.fd /\ (sh'.refused <=> e.refused)
       /\ SameWords(p, sh'.cmds)
       /\ \A n \in 1..Len(p) : /\ sh'.cmds[n].write = p[n].write
                               /\ n > 1 => sh'.cmds[n].read = p[n].read
                               /\ sh'.cmds[n].read \in {p[n].read, [p[n].read EXCEPT ![1] = 0]}
    <2>1. e.cmds = p /\ e.pipe = sh.pipe
        BY <1>9, <1>12, <1>13
    <2>2. CASE ~IsPipeline(toks)
        <3>1. sh' = e
            BY <1>2, <2>2
        <3> QED
            BY <3>1, <2>1, <1>13 DEF SameWords
    <2>3. CASE IsPipeline(toks)
        <3>6. 1 \in 1..Len(p)
            BY <1>4
        <3>7. 0 \in Numbers
            BY Std DEF Numbers
        <3>1. 1 \in 1..Len(p) /\ p[1] \in Commands /\ 0 \in Numbers
            BY <1>5, <1>6, <3>6, <3>7
        <3> DEFINE c == p[1]
                   g == [c EXCEPT !.read[1] = 0]
        <3>2. /\ g \in Commands /\ g.cmd = c.cmd /\ g.write = c.write
              /\ g.read = [c.read EXCEPT ![1] = 0]
            BY <3>1, SetField, Zenon
        <3> DEFINE t == Changed(e, 1, g)
        <3>3. sh' = t
            <4>1. sh' = [e EXCEPT !.cmds[1].read[1] = 0]
                BY <1>2, <2>3
            <4>2. [e EXCEPT !.cmds[1].read[1] = 0] = [e EXCEPT !.cmds[1] = [e.cmds[1] EXCEPT !.read[1] = 0]]
                BY <1>13 DEF Shells
            <4> QED
                BY <4>1, <4>2, <2>1 DEF Changed
        <3> HIDE DEF g
        <3>4. /\ t \in Shells /\ t.fd = e.fd /\ t.pipe = e.pipe /\ (t.refused <=> e.refused)
              /\ SameWords(e.cmds, t.cmds) /\ t.cmds[1] = g
              /\ \A m \in 1..Len(e.cmds) : m # 1 => t.cmds[m] = e.cmds[m]
            <4>1. g.cmd = e.cmds[1].cmd /\ 1 \in 1..Len(e.cmds)
                BY <2>1, <3>1, <3>2
            <4> QED
                BY <1>13, <3>2, <4>1, OneField
        <3> HIDE DEF t
        <3>5. ASSUME NEW n \in 1..Len(p)
              PROVE  /\ t.cmds[n].write = p[n].write
                     /\ n > 1 => t.cmds[n].read = p[n].read
                     /\ t.cmds[n].read \in {p[n].read, [p[n].read EXCEPT ![1] = 0]}
            <4>1. CASE n = 1
                BY <4>1, <3>2, <3>4
            <4>2. CASE n # 1
                BY <4>2, <3>4, <2>1
            <4> QED
                BY <4>1, <4>2
        <3> QED
            BY <2>1, <3>3, <3>4, <3>5
    <2> QED
        BY <2>2, <2>3
<1>24. Len(sh'.cmds) = Len(p) /\ \A n \in 1..Len(p) : sh'.cmds[n].cmd = p[n].cmd
    BY <1>23 DEF SameWords
<1>25. Worded(sh'.cmds)
    BY <1>8, <1>23, SameShape
<1>26. pc' = "loop" => \A n \in 1..Len(sh'.cmds) : sh'.cmds[n].cmd \notin Redirections
    <2>1. ASSUME pc' = "loop", NEW n \in 1..Len(p)
          PROVE  p[n].cmd \notin Redirections
        <3>1. W \cap Redirections = {}
            BY <2>1, <1>2 DEF IsRedirected, W
        <3>2. End \notin Redirections
            BY DEF End, Redirections
        <3>3. CASE n = Len(p)
            BY <1>4, <3>2, <3>3
        <3>4. CASE n # Len(p)
            <4>1. n \in 1..(Len(p) - 1)
                BY <1>4, <3>4
            <4> QED
                BY <1>4, <3>1, <4>1
        <3> QED
            BY <3>3, <3>4
    <2> QED
        BY <2>1, <1>24
<1>27. ASSUME NEW n \in 1..Len(sh'.cmds)
       PROVE  /\ sh'.cmds[n].write \in {<<-1, -1>>, <<0, 0>>}
              /\ sh'.cmds[n].read \in {<<-1, -1>>, <<0, 0>>, <<0, -1>>}
              /\ sh'.cmds[n].cmd \notin Ops \cup {End} =>
                   /\ sh'.cmds[n].write = <<-1, -1>>
                   /\ n > 1 => sh'.cmds[n].read = <<-1, -1>>
    <2>1. n \in 1..Len(p)
        BY <1>24
    <2>2. /\ p[n].write \in {<<-1, -1>>, <<0, 0>>}
          /\ p[n].read \in {<<-1, -1>>, <<0, 0>>}
        BY <2>1, <1>6
    <2>3. [p[n].read EXCEPT ![1] = 0] \in {<<0, -1>>, <<0, 0>>}
        BY <2>2
    <2>4. p[n].cmd \notin Ops \cup {End} =>
             p[n].read = <<-1, -1>> /\ p[n].write = <<-1, -1>>
        BY <2>1, <1>4 DEF Spread
    <2> QED
        BY <2>1, <2>2, <2>3, <2>4, <1>23, <1>24
<1>28. /\ in' \in Numbers /\ out' \in Numbers
       /\ in' # -1 => in' \in Free(sh)
       /\ out' # -1 => out' \in Free(sh)
    BY <1>14, <1>15, <1>22 DEF a, b
<1>29. \A n \in Fds : sh'.fd[n] = IF n = in' THEN Keyboard
                                   ELSE IF n = out' THEN sh.fd[1] ELSE sh.fd[n]
    BY <1>20, <1>23 DEF a, b
<1>30. ~sh'.refused => /\ in' \in Fds /\ out' \in Fds /\ in' < out'
                       /\ \A n \in Free(sh) : n \in {in', out'} \/ n > out'
    BY <1>21, <1>23 DEF a, b
<1>31. pc' \in {"loop", "redirect"} /\ sh' \in Shells /\ sh'.pipe = sh.pipe
    BY <1>2, <1>23
<1> QED
    BY <1>1, <1>2, <1>25, <1>26, <1>27, <1>28, <1>29, <1>30, <1>31

\* pipe() keeps the words and fills no pipe.
LEMMA MakePipesTypes ==
    ASSUME Waiting, NEW s \in Shells, Filled(s), NEW js, NEW that, Targets(s, js, that),
           NEW t, t = MakePipes(s, js, that)
    PROVE  t \in Shells /\ Filled(t) /\ SameWords(s.cmds, t.cmds)
<1>1. /\ t \in Shells /\ Len(t.cmds) = Len(s.cmds)
      /\ \A n \in 1..Len(s.cmds) : t.cmds[n].cmd = s.cmds[n].cmd
    BY MakePipesIs
<1>2. \A q \in Pipes : t.pipe[q] = IF q \in Unused(s) THEN << >> ELSE s.pipe[q]
    BY MakePipesOld
<1>3. Len(<< >>) <= PipeCap
    BY ShellAssumption
<1>4. Filled(t)
    BY <1>2, <1>3 DEF Filled
<1> QED
    BY <1>1, <1>4 DEF SameWords

\* A step within a line.
LEMMA StepTypes ==
    ASSUME Typing, lines' \in 0..MaxLines,
           pc \in {"loop", "stage", "copy", "redirect", "single"},
           pc' \in {"loop", "stage", "copy", "redirect", "single"},
           UNCHANGED <<line, in, out, nest, screen, history>>,
           sh' \in Shells, Filled(sh'), SameWords(sh.cmds, sh'.cmds),
           i' \in 1..Len(sh.cmds), redir' \in Fds \X Fds, child' \in Children
    PROVE  TypeOK' /\ Worded(sh'.cmds) /\ i' \in 1..Len(sh'.cmds)
<1>1. /\ before \in [Fds -> File] /\ screen \in Seq(Nat) /\ cut \in BOOLEAN
      /\ line \in Lines \cup {<< >>} /\ in \in Numbers /\ out \in Numbers /\ Waiting
      /\ Worded(sh.cmds)
    BY TypeUse
<1>2. Worded(sh'.cmds)
    BY <1>1, SameShape
<1>3. Waiting'
    BY <1>1 DEF Waiting
<1>4. i' \in 1..Len(sh'.cmds)
    BY DEF SameWords
<1>5. TypeOK'
    BY <1>1, <1>3, <1>4, TypeNext DEF history
<1> QED
    BY <1>2, <1>4, <1>5

\* The feeding of stages keeps to the same words.
LEMMA SameFed ==
    ASSUME SameWords(sh.cmds, sh'.cmds), i' = i, i \in 1..Len(sh.cmds), Len(sh.cmds) \in Nat
    PROVE  cmd' = cmd /\ (cmd \in DOMAIN Fan => (Fed' <=> Fed)) /\ Heads' = Heads
<1>1. cmd' = cmd
    BY DEF cmd, SameWords
<1>2. Heads' = Heads
    BY <1>1 DEF Heads
<1>3. ASSUME cmd \in DOMAIN Fan
      PROVE  Fed' <=> Fed
    <2>1. Len(sh'.cmds) = Len(sh.cmds)
        BY DEF SameWords
    <2>2. ASSUME NEW j \in Heads, i > 1, j > i + 1, j < Len(sh.cmds)
          PROVE  (sh.cmds[j - 1].cmd = ",")' <=> sh.cmds[j - 1].cmd = ","
        <3>1. j \in Int
            <4>1. \A k \in 1..Fan[cmd] : i + 2 * k - 1 \in Int
                BY <2>2
            <4> QED
                BY <4>1 DEF Heads
        <3>2. j - 1 \in 1..Len(sh.cmds)
            BY <2>2, <3>1
        <3> QED
            BY <3>2 DEF SameWords
    <2> QED
        BY <1>2, <2>1, <2>2 DEF Fed
<1> QED
    BY <1>1, <1>2, <1>3

\* |, || and |||.
LEMMA TypeFeed ==
    ASSUME Typing, lines' \in 0..MaxLines, Feed
    PROVE  /\ Typing' /\ SameWords(sh.cmds, sh'.cmds)
           /\ \/ ~Fed /\ sh' = sh /\ pc' = "loop" /\ i' = Len(sh.cmds)
              \/ /\ Fed /\ pc' = "copy" /\ i' = i
                 /\ sh' = MakePipes(sh, [k \in 1..Fan[cmd] |-> i + 2 * k - 1], "read")
                 /\ Targets(sh, [k \in 1..Fan[cmd] |-> i + 2 * k - 1], "read")
<1>1. /\ pc = "loop" /\ cmd \in DOMAIN Fan
      /\ UNCHANGED <<line, in, out, redir, child, nest, screen, history>>
    BY DEF Feed
<1>2. /\ sh \in Shells /\ Filled(sh) /\ Waiting /\ i \in 1..Len(sh.cmds) /\ Len(sh.cmds) \in Nat
      /\ redir \in Fds \X Fds /\ child \in Children
    BY <1>1, TypeUse
<1>3. CASE ~Fed
    <2>1. sh' = sh /\ pc' = "loop" /\ i' = Len(sh.cmds)
        BY <1>3 DEF Feed, Goto
    <2>2. SameWords(sh.cmds, sh'.cmds) /\ Filled(sh')
        BY <1>2, <2>1 DEF SameWords
    <2>3. i' \in 1..Len(sh.cmds)
        BY <1>2, <2>1
    <2>4. TypeOK' /\ Worded(sh'.cmds) /\ i' \in 1..Len(sh'.cmds)
        BY <1>1, <1>2, <2>1, <2>2, <2>3, StepTypes
    <2>5. Shape'
        BY <1>1, <2>1, <2>4 DEF Typing, Shape
    <2> QED
        BY <1>3, <2>1, <2>2, <2>4, <2>5 DEF Typing
<1>4. CASE Fed
    <2> DEFINE js == [k \in 1..Fan[cmd] |-> i + 2 * k - 1]
    <2>1. pc' = "copy" /\ i' = i /\ sh' = MakePipes(sh, js, "read")
        BY <1>4 DEF Feed
    <2>2. Targets(sh, js, "read")
        BY <1>1, <1>2, <1>4, HeadsAre
    <2>3. sh' \in Shells /\ Filled(sh') /\ SameWords(sh.cmds, sh'.cmds)
        <3> HIDE DEF js
        <3>1. PICK t : t = sh'
            OBVIOUS
        <3>2. t = MakePipes(sh, js, "read")
            BY <2>1, <3>1
        <3>3. t \in Shells /\ Filled(t) /\ SameWords(sh.cmds, t.cmds)
            BY <1>2, <2>2, <3>2, MakePipesTypes
        <3> QED
            BY <3>1, <3>3
    <2>4. TypeOK' /\ Worded(sh'.cmds) /\ i' \in 1..Len(sh'.cmds)
        BY <1>1, <1>2, <2>1, <2>3, StepTypes
    <2>5. Shape'
        <3>1. cmd' = cmd /\ Fed'
            BY <1>1, <1>2, <1>4, <2>1, <2>3, SameFed
        <3>2. \A n \in 1..Len(sh'.cmds) : sh'.cmds[n].cmd \notin Redirections
            BY <1>1, <1>2, <2>3, SameShape, TypeUse DEF Typing, Shape
        <3>3. cmd \notin {",", "cd", End}
            BY <1>1, OpsAre DEF End
        <3> QED
            BY <2>1, <2>4, <3>1, <3>2, <3>3 DEF Shape
    <2> QED
        BY <1>4, <2>1, <2>2, <2>3, <2>4, <2>5 DEF Typing
<1> QED
    BY <1>3, <1>4

\* ; and what is passed over.
LEMMA TypeSkip ==
    ASSUME Typing, lines' \in 0..MaxLines, Semicolon \/ Skip
    PROVE  Typing'
<1>1. /\ pc = "loop" /\ sh' = sh
      /\ UNCHANGED <<line, in, out, redir, child, nest, screen, history>>
    BY DEF Semicolon, Skip, locals
<1>2. /\ sh \in Shells /\ Filled(sh) /\ i \in 1..Len(sh.cmds) /\ Len(sh.cmds) \in Nat
      /\ redir \in Fds \X Fds /\ child \in Children
      /\ cmd = End <=> i = Len(sh.cmds)
      /\ i < Len(sh.cmds) => i + 1 \in 1..Len(sh.cmds)
    BY <1>1, TypeUse
<1>3. \/ pc' = "copy" /\ i' = i /\ cmd = ";"
      \/ pc' = "loop" /\ i' = i + 1 /\ cmd \in {",", "cd"}
    BY DEF Semicolon, Skip, Goto, locals
<1>4. SameWords(sh.cmds, sh'.cmds) /\ Filled(sh')
    BY <1>1, <1>2 DEF SameWords
<1>5. i' \in 1..Len(sh.cmds)
    <2>1. cmd \in {",", "cd"} => cmd # End
        BY DEF End
    <2>2. ASSUME cmd \in {",", "cd"}
          PROVE  i < Len(sh.cmds)
        <3>1. i # Len(sh.cmds)
            BY <1>2, <2>1, <2>2, Zenon
        <3> QED
            BY <1>2, <3>1
    <2> QED
        BY <1>2, <1>3, <2>2
<1>6. TypeOK' /\ Worded(sh'.cmds) /\ i' \in 1..Len(sh'.cmds)
    BY <1>1, <1>2, <1>3, <1>4, <1>5, StepTypes
<1>7. pc' = "copy" => cmd' = ";"
    BY <1>1, <1>3 DEF cmd
<1>8. Shape'
    BY <1>1, <1>3, <1>6, <1>7, OpsAre DEF Typing, Shape, End
<1> QED
    BY <1>6, <1>8 DEF Typing

\* What Fork does.
LEMMA TypeFork ==
    ASSUME Typing, lines' \in 0..MaxLines, Fork
    PROVE  /\ Typing' /\ pc = "loop" /\ pc' = "stage" /\ i' = i
           /\ cmd \notin Ops \cup {"cd", End}
           /\ SameWords(sh.cmds, sh'.cmds)
           /\ IF sh.cmds[i].write[2] = -1
              THEN sh' = MakePipes(sh, <<i>>, "write") /\ Targets(sh, <<i>>, "write")
              ELSE sh' = sh
           /\ child'.in = FileAt(sh', sh'.cmds[i].read[1], 0)
           /\ child'.out = FileAt(sh', sh'.cmds[i].write[2], 1)
<1>1. /\ pc = "loop" /\ pc' = "stage"
      /\ UNCHANGED <<line, i, in, out, redir, nest, screen, history>>
      /\ cmd \notin DOMAIN Fan \cup {",", ";", "cd", End}
      /\ sh' = IF sh.cmds[i].write[2] = -1 THEN MakePipes(sh, <<i>>, "write") ELSE sh
      /\ Start(cmd, sh', sh'.cmds[i].read[1], sh'.cmds[i].write[2])
    BY DEF Fork, locals
<1>2. /\ sh \in Shells /\ Filled(sh) /\ Waiting /\ i \in 1..Len(sh.cmds) /\ Len(sh.cmds) \in Nat
      /\ redir \in Fds \X Fds
    BY <1>1, TypeUse
<1>3. cmd \notin Ops \cup {"cd", End}
    <2>1. cmd \notin Redirections
        BY <1>1, <1>2 DEF Typing, Shape, cmd
    <2> QED
        BY <1>1, <2>1 DEF Ops
<1>4. Targets(sh, <<i>>, "write")
    BY <1>2, OneTarget
<1>5. sh' \in Shells /\ Filled(sh') /\ SameWords(sh.cmds, sh'.cmds)
    <2>1. CASE sh.cmds[i].write[2] = -1
        <3>1. PICK t : t = sh'
            OBVIOUS
        <3>2. t = MakePipes(sh, <<i>>, "write")
            BY <1>1, <2>1, <3>1
        <3>3. t \in Shells /\ Filled(t) /\ SameWords(sh.cmds, t.cmds)
            BY <1>2, <1>4, <3>2, MakePipesTypes
        <3> QED
            BY <3>1, <3>3
    <2>2. CASE sh.cmds[i].write[2] # -1
        BY <1>1, <1>2, <2>2 DEF SameWords
    <2> QED
        BY <2>1, <2>2
<1>6. /\ child' \in Children
      /\ child'.in = FileAt(sh', sh'.cmds[i].read[1], 0)
      /\ child'.out = FileAt(sh', sh'.cmds[i].write[2], 1)
    <2>1. PICK t : t = sh'
        OBVIOUS
    <2>2. t \in Shells /\ Start(cmd, t, t.cmds[i].read[1], t.cmds[i].write[2])
        BY <1>1, <1>5, <2>1
    <2>3. /\ child' \in Children
          /\ child'.in = FileAt(t, t.cmds[i].read[1], 0)
          /\ child'.out = FileAt(t, t.cmds[i].write[2], 1)
        BY <2>2, StartType
    <2> QED
        BY <2>1, <2>3
<1>7. TypeOK' /\ Worded(sh'.cmds) /\ i' \in 1..Len(sh'.cmds)
    BY <1>1, <1>2, <1>5, <1>6, StepTypes
<1>8. Shape'
    <2>1. cmd' = cmd
        BY <1>1, <1>2, <1>5 DEF cmd, SameWords
    <2>2. \A n \in 1..Len(sh'.cmds) : sh'.cmds[n].cmd \notin Redirections
        BY <1>1, <1>5, SameShape, TypeUse DEF Typing, Shape
    <2> QED
        BY <1>1, <1>3, <1>7, <2>1, <2>2 DEF Shape
<1> QED
    BY <1>1, <1>3, <1>4, <1>5, <1>6, <1>7, <1>8 DEF Typing

\* What Reap does: a pipe, or the output, for the next command; and what the
\* child had is closed.
LEMMA TypeReap ==
    ASSUME Typing, lines' \in 0..MaxLines, Reap
    PROVE  /\ Typing' /\ pc = "stage" /\ pc' = "copy" /\ i' = i
           /\ cmd \notin Ops \cup {"cd", End}
           /\ i + 1 \in 1..Len(sh.cmds) /\ Next1 \in Ops \cup {End}
           /\ \E s \in Shells :
                /\ SameWords(sh.cmds, s.cmds)
                /\ IF Next1 = End
                   THEN /\ s.fd = sh.fd /\ s.pipe = sh.pipe /\ (s.refused <=> sh.refused)
                        /\ s.cmds[i + 1].read = <<sh.cmds[i + 1].read[1], out>>
                        /\ s.cmds[i + 1].write = sh.cmds[i + 1].write
                        /\ \A m \in 1..Len(sh.cmds) : m # i + 1 => s.cmds[m] = sh.cmds[m]
                   ELSE s = MakePipes(sh, <<i + 1>>, "read") /\ Targets(sh, <<i + 1>>, "read")
                /\ sh' = Close(s, Own(s))
                /\ sh'.cmds = s.cmds /\ sh'.pipe = s.pipe /\ (sh'.refused <=> s.refused)
                /\ \A n \in Fds : sh'.fd[n] = IF n \in Own(s) THEN Closed ELSE s.fd[n]
<1>1. /\ pc = "stage" /\ pc' = "copy" /\ child' = Nobody
      /\ UNCHANGED <<line, i, in, out, redir, nest, screen, history>>
      /\ sh' = LET s == IF Next1 = End THEN [sh EXCEPT !.cmds[i + 1].read[2] = out]
                        ELSE MakePipes(sh, <<i + 1>>, "read")
               IN Close(s, Own(s))
    BY DEF Reap, Drain, locals
<1>2. /\ sh \in Shells /\ Filled(sh) /\ Waiting /\ i \in 1..Len(sh.cmds) /\ Len(sh.cmds) \in Nat
      /\ redir \in Fds \X Fds /\ Worded(sh.cmds) /\ out \in Numbers
      /\ cmd = End <=> i = Len(sh.cmds)
      /\ i < Len(sh.cmds) => i + 1 \in 1..Len(sh.cmds)
    BY <1>1, TypeUse
<1>3. /\ cmd \notin Ops \cup {"cd", End}
      /\ \A n \in 1..Len(sh.cmds) : sh.cmds[n].cmd \notin Redirections
    BY <1>1 DEF Typing, Shape
<1>4. i + 1 \in 1..Len(sh.cmds) /\ i \in 1..(Len(sh.cmds) - 1)
    BY <1>2, <1>3
<1>5. Next1 \in Ops \cup {End}
    BY <1>2, <1>3, <1>4 DEF Worded, Next1, cmd
<1> DEFINE s == IF Next1 = End THEN [sh EXCEPT !.cmds[i + 1].read[2] = out]
                ELSE MakePipes(sh, <<i + 1>>, "read")
<1>6. sh' = Close(s, Own(s))
    BY <1>1
<1>7. /\ s \in Shells /\ Filled(s) /\ SameWords(sh.cmds, s.cmds)
      /\ IF Next1 = End
         THEN /\ s.fd = sh.fd /\ s.pipe = sh.pipe /\ (s.refused <=> sh.refused)
              /\ s.cmds[i + 1].read = <<sh.cmds[i + 1].read[1], out>>
              /\ s.cmds[i + 1].write = sh.cmds[i + 1].write
              /\ \A m \in 1..Len(sh.cmds) : m # i + 1 => s.cmds[m] = sh.cmds[m]
         ELSE s = MakePipes(sh, <<i + 1>>, "read") /\ Targets(sh, <<i + 1>>, "read")
    <2>1. CASE Next1 = End
        <3> DEFINE c == sh.cmds[i + 1]
                   g == [c EXCEPT !.read[2] = out]
                   t == Changed(sh, i + 1, g)
        <3>1. c \in Commands /\ c.read \in Numbers \X Numbers
            BY <1>2, <1>4, CmdsIs
        <3>2. g \in Commands /\ g.cmd = c.cmd /\ g.write = c.write /\ g.read = [c.read EXCEPT ![2] = out]
            BY <1>2, <3>1, SetField, Zenon
        <3>3. g.read = <<c.read[1], out>>
            BY <3>1, <3>2
        <3>4. s = t
            <4>1. s = [sh EXCEPT !.cmds[i + 1].read[2] = out]
                BY <2>1
            <4>2. [sh EXCEPT !.cmds[i + 1].read[2] = out] =
                  [sh EXCEPT !.cmds[i + 1] = [sh.cmds[i + 1] EXCEPT !.read[2] = out]]
                BY <1>2 DEF Shells
            <4> QED
                BY <4>1, <4>2 DEF Changed
        <3> HIDE DEF s, g
        <3>5. /\ t \in Shells /\ t.fd = sh.fd /\ t.pipe = sh.pipe /\ (t.refused <=> sh.refused)
              /\ SameWords(sh.cmds, t.cmds) /\ t.cmds[i + 1] = g
              /\ \A m \in 1..Len(sh.cmds) : m # i + 1 => t.cmds[m] = sh.cmds[m]
            <4>1. g.cmd = sh.cmds[i + 1].cmd
                BY <3>2
            <4> QED
                BY <1>2, <1>4, <3>2, <4>1, OneField
        <3> HIDE DEF t
        <3>6. Filled(t)
            BY <1>2, <3>5 DEF Filled
        <3> QED
            BY <2>1, <3>2, <3>3, <3>4, <3>5, <3>6
    <2>2. CASE Next1 # End
        <3>1. Targets(sh, <<i + 1>>, "read")
            BY <1>2, <1>4, OneTarget
        <3> HIDE DEF s
        <3>2. s = MakePipes(sh, <<i + 1>>, "read")
            BY <2>2 DEF s
        <3>3. s \in Shells /\ Filled(s) /\ SameWords(sh.cmds, s.cmds)
            BY <1>2, <3>1, <3>2, MakePipesTypes
        <3> QED
            BY <2>2, <3>1, <3>2, <3>3
    <2> QED
        BY <2>1, <2>2
<1> HIDE DEF s
<1>9. s \in Shells /\ Filled(s) /\ SameWords(sh.cmds, s.cmds)
    BY <1>7
<1>10. /\ sh' \in Shells /\ sh'.pipe = s.pipe /\ sh'.cmds = s.cmds
       /\ sh'.refused <=> s.refused
       /\ \A n \in Fds : sh'.fd[n] = IF n \in Own(s) THEN Closed ELSE s.fd[n]
    <2>1. PICK t : t = sh'
        OBVIOUS
    <2>2. t = Close(s, Own(s))
        BY <1>6, <2>1
    <2>3. /\ t \in Shells /\ t.pipe = s.pipe /\ t.cmds = s.cmds
          /\ t.refused <=> s.refused
          /\ \A n \in Fds : t.fd[n] = IF n \in Own(s) THEN Closed ELSE s.fd[n]
        BY <1>9, <2>2, CloseIs
    <2> QED
        BY <2>1, <2>3
<1>11. Filled(sh') /\ SameWords(sh.cmds, sh'.cmds)
    BY <1>9, <1>10 DEF Filled
<1>12. TypeOK' /\ Worded(sh'.cmds) /\ i' \in 1..Len(sh'.cmds)
    BY <1>1, <1>2, <1>10, <1>11, NobodyType, StepTypes
<1>13. Shape'
    <2>1. cmd' = cmd
        BY <1>1, <1>2, <1>11 DEF cmd, SameWords
    <2>2. \A n \in 1..Len(sh'.cmds) : sh'.cmds[n].cmd \notin Redirections
        BY <1>3, <1>2, <1>11, SameShape
    <2>3. cmd \notin {",", "cd", End} /\ cmd \notin DOMAIN Fan
        BY <1>3, OpsAre
    <2> QED
        BY <1>1, <1>12, <2>1, <2>2, <2>3 DEF Shape
<1> QED
    BY <1>1, <1>3, <1>4, <1>5, <1>6, <1>7, <1>10, <1>12, <1>13 DEF Typing

\* What CopyEnd does.
LEMMA TypeCopyEnd ==
    ASSUME Typing, lines' \in 0..MaxLines, CopyEnd
    PROVE  /\ Typing' /\ pc = "copy" /\ pc' = "loop"
           /\ cmd \notin {",", "cd", End} /\ i < Len(sh.cmds)
           /\ i' = IF cmd = ";" THEN Len(sh.cmds) ELSE i + 1
           /\ SameWords(sh.cmds, sh'.cmds)
           /\ sh'.pipe = sh.pipe /\ (sh'.refused <=> sh.refused)
           /\ \A n \in Fds : sh'.fd[n] =
                IF cmd # ";" /\ n \in {Source(sh)} \cup Sinks(sh) THEN Closed ELSE sh.fd[n]
           /\ \A n \in 1..Len(sh.cmds) :
                /\ sh'.cmds[n].read = sh.cmds[n].read
                /\ sh'.cmds[n].write = IF cmd \in {"||", "|||"} /\ n \in Heads
                                       THEN <<sh.cmds[n].write[1], out>> ELSE sh.cmds[n].write
<1>1. /\ pc = "copy" /\ sh' = Hand(Leave(sh)) /\ pc' = "loop"
      /\ i' = IF cmd = ";" THEN Len(sh.cmds) ELSE i + 1
      /\ UNCHANGED <<line, in, out, redir, child, nest, screen, history>>
    BY DEF CopyEnd, Goto
<1>2. /\ sh \in Shells /\ Filled(sh) /\ i \in 1..Len(sh.cmds) /\ Len(sh.cmds) \in Nat
      /\ redir \in Fds \X Fds /\ child \in Children /\ out \in Numbers
      /\ cmd = End <=> i = Len(sh.cmds)
      /\ i < Len(sh.cmds) => i + 1 \in 1..Len(sh.cmds)
    BY <1>1, TypeUse
<1>3. cmd \notin {",", "cd", End}
    BY <1>1 DEF Typing, Shape
<1>4. i < Len(sh.cmds) /\ i' \in 1..Len(sh.cmds)
    <2>1. i # Len(sh.cmds)
        BY <1>2, <1>3, Zenon
    <2>2. i < Len(sh.cmds)
        BY <1>2, <2>1
    <2>3. i + 1 \in 1..Len(sh.cmds) /\ Len(sh.cmds) \in 1..Len(sh.cmds)
        BY <1>2, <2>2
    <2> QED
        BY <1>1, <2>2, <2>3
<1> DEFINE s == Leave(sh)
<1>5. /\ s \in Shells /\ s.pipe = sh.pipe /\ s.cmds = sh.cmds
      /\ s.refused <=> sh.refused
      /\ \A n \in Fds : s.fd[n] =
           IF cmd # ";" /\ n \in {Source(sh)} \cup Sinks(sh) THEN Closed ELSE sh.fd[n]
    <2>1. CASE cmd = ";"
        BY <1>2, <2>1 DEF Leave
    <2>2. CASE cmd # ";"
        <3> DEFINE ns == {Source(sh)} \cup Sinks(sh)
        <3>1. s = Close(sh, ns)
            BY <2>2 DEF Leave
        <3> HIDE DEF s, ns
        <3>2. /\ s \in Shells /\ s.pipe = sh.pipe /\ s.cmds = sh.cmds
              /\ s.refused <=> sh.refused
              /\ \A n \in Fds : s.fd[n] = IF n \in ns THEN Closed ELSE sh.fd[n]
            BY <1>2, <3>1, CloseIs
        <3> QED
            BY <2>2, <3>2 DEF ns
    <2> QED
        BY <2>1, <2>2
<1> HIDE DEF s
<1>11. PICK t : t = Hand(s)
    OBVIOUS
<1>12. s \in Shells /\ out \in Numbers
    BY <1>2, <1>5
<1>6. /\ t \in Shells /\ t.fd = s.fd /\ t.pipe = s.pipe /\ (t.refused <=> s.refused)
      /\ SameWords(s.cmds, t.cmds)
      /\ \A n \in 1..Len(s.cmds) :
           /\ t.cmds[n].read = s.cmds[n].read
           /\ t.cmds[n].write = IF cmd \in {"||", "|||"} /\ n \in Heads
                                THEN <<s.cmds[n].write[1], out>> ELSE s.cmds[n].write
    BY <1>11, <1>12, HandIs
<1>7. sh' = t
    BY <1>1, <1>11 DEF s
<1>8. /\ sh' \in Shells /\ SameWords(sh.cmds, sh'.cmds) /\ Filled(sh')
    BY <1>2, <1>5, <1>6, <1>7 DEF Filled
<1>9. TypeOK' /\ Worded(sh'.cmds) /\ i' \in 1..Len(sh'.cmds)
    BY <1>1, <1>2, <1>4, <1>8, StepTypes
<1>10. Shape'
    <2>1. \A n \in 1..Len(sh'.cmds) : sh'.cmds[n].cmd \notin Redirections
        BY <1>1, <1>2, <1>8, SameShape, TypeUse DEF Typing, Shape
    <2> QED
        BY <1>1, <1>9, <2>1 DEF Shape
<1>13. /\ sh'.pipe = sh.pipe /\ (sh'.refused <=> sh.refused)
       /\ \A n \in Fds : sh'.fd[n] =
            IF cmd # ";" /\ n \in {Source(sh)} \cup Sinks(sh) THEN Closed ELSE sh.fd[n]
    <2>1. t.fd = s.fd /\ t.pipe = s.pipe /\ (t.refused <=> s.refused)
        BY <1>6
    <2> QED
        BY <1>5, <1>7, <2>1
<1>14. \A n \in 1..Len(sh.cmds) :
         /\ sh'.cmds[n].read = sh.cmds[n].read
         /\ sh'.cmds[n].write = IF cmd \in {"||", "|||"} /\ n \in Heads
                                THEN <<sh.cmds[n].write[1], out>> ELSE sh.cmds[n].write
    <2>1. s.cmds = sh.cmds
        BY <1>5
    <2> QED
        BY <1>6, <1>7, <2>1
<1>15. Typing'
    BY <1>9, <1>10 DEF Typing
<1> QED
    BY <1>1, <1>3, <1>4, <1>8, <1>13, <1>14, <1>15

\* What Complete does.
LEMMA TypeComplete ==
    ASSUME Typing, Complete
    PROVE  /\ Typing' /\ pc = "prompt" /\ pc' = "prompt"
           /\ UNCHANGED <<i, in, out, redir, child, nest, before>>
           /\ sh'.cmds = sh.cmds /\ sh'.pipe = sh.pipe
           /\ \A n \in Fds : sh'.fd[n] = sh.fd[n] \/ (sh.fd[n] = Closed /\ sh'.fd[n] = Disk)
<1>1. /\ pc = "prompt" /\ lines > 0 /\ lines' = lines - 1
      /\ \/ sh' = [Open(sh, Disk) EXCEPT !.refused = FALSE]
         \/ sh' = sh
      /\ UNCHANGED <<pc, line, i, in, out, redir, child, nest, screen, cut, before>>
    BY DEF Complete, Type, locals, history
<1>2. /\ sh \in Shells /\ Filled(sh) /\ Waiting
      /\ i \in 1..Len(sh.cmds) \/ sh.cmds = << >>
    BY TypeUse
<1>3. lines' \in 0..MaxLines
    <2>1. lines \in 0..MaxLines
        BY TypeIs DEF Typing
    <2> QED
        BY <1>1, <2>1, ShellAssumption
<1>4. /\ sh' \in Shells /\ sh'.cmds = sh.cmds /\ sh'.pipe = sh.pipe
      /\ \A n \in Fds : sh'.fd[n] = sh.fd[n] \/ (sh.fd[n] = Closed /\ sh'.fd[n] = Disk)
    <2>1. CASE sh' = sh
        BY <1>2, <2>1
    <2>2. CASE sh' = [Open(sh, Disk) EXCEPT !.refused = FALSE]
        <3> DEFINE t == Open(sh, Disk)
                   u == [t EXCEPT !.refused = FALSE]
        <3>1. /\ t \in Shells /\ t.pipe = sh.pipe /\ t.cmds = sh.cmds
              /\ Slot(sh) = -1 => t.fd = sh.fd /\ t.refused
              /\ Slot(sh) # -1 => t.fd = [sh.fd EXCEPT ![Slot(sh)] = Disk]
            BY <1>2, FilesAre, OpenIs
        <3>2. /\ Slot(sh) # -1 => Slot(sh) \in Free(sh)
            BY <1>2, SlotIs
        <3>3. sh.fd \in [Fds -> File]
            BY <1>2, ShellIs
        <3>4. \A n \in Fds : t.fd[n] = sh.fd[n] \/ (sh.fd[n] = Closed /\ t.fd[n] = Disk)
            BY <3>1, <3>2, <3>3 DEF Free
        <3> HIDE DEF t
        <3>5. u \in Shells
            BY <3>1, ShellIs
        <3>6. u.fd = t.fd /\ u.pipe = t.pipe /\ u.cmds = t.cmds
            BY <3>1 DEF Shells
        <3>7. sh' = u
            BY <2>2 DEF t
        <3> HIDE DEF u
        <3> QED
            BY <3>1, <3>4, <3>5, <3>6, <3>7
    <2> QED
        BY <1>1, <2>1, <2>2
<1>5. Filled(sh') /\ Waiting'
    BY <1>1, <1>2, <1>4 DEF Filled, Waiting
<1>6. i' \in 1..Len(sh'.cmds) \/ sh'.cmds = << >>
    BY <1>1, <1>2, <1>4
<1>7. TypeOK'
    BY <1>1, <1>3, <1>4, <1>5, <1>6, TypeUse, TypeNext
<1>8. Shape'
    BY <1>1 DEF Shape
<1> QED
    BY <1>1, <1>4, <1>7, <1>8 DEF Typing

\* What Enter does is typed.
LEMMA TypeEnter ==
    ASSUME Typing, NEW typed \in Lines, Enter(typed)
    PROVE  Typing'
<1>1. /\ lines > 0 /\ lines' = lines - 1
      /\ line' = typed /\ screen' = << >> /\ cut' = FALSE
      /\ UNCHANGED <<redir, child, nest>>
    BY DEF Enter, Type
<1>2. lines' \in 0..MaxLines
    <2>1. lines \in 0..MaxLines
        BY TypeIs DEF Typing
    <2> QED
        BY <1>1, <2>1, ShellAssumption
<1>3. /\ sh \in Shells /\ Filled(sh) /\ Waiting /\ redir \in Fds \X Fds /\ child \in Children
    BY TypeUse
<1>4. /\ sh' \in Shells /\ sh'.pipe = sh.pipe
      /\ pc' \in {"loop", "redirect"} /\ i' = 1 /\ before' = sh.fd
      /\ Worded(sh'.cmds)
      /\ pc' = "loop" => \A n \in 1..Len(sh'.cmds) : sh'.cmds[n].cmd \notin Redirections
      /\ in' \in Numbers /\ out' \in Numbers
    BY EnterIs
<1>5. Filled(sh') /\ Waiting'
    BY <1>1, <1>3, <1>4 DEF Filled, Waiting
<1>6. i' \in 1..Len(sh'.cmds)
    <2>1. Len(sh'.cmds) \in Nat \ {0}
        BY <1>4 DEF Worded
    <2> QED
        BY <1>4, <2>1
<1>7. before' \in [Fds -> File]
    BY <1>3, <1>4, ShellIs
<1>8. screen' \in Seq(Nat) /\ cut' \in BOOLEAN
    <2>1. << >> \in Seq(Nat) /\ FALSE \in BOOLEAN
        OBVIOUS
    <2> QED
        BY <1>1, <2>1, Zenon
<1>9. TypeOK'
    BY <1>1, <1>2, <1>3, <1>4, <1>5, <1>6, <1>7, <1>8, TypeNext
<1>10. Shape'
    BY <1>4, <1>6 DEF Shape
<1> QED
    BY <1>9, <1>10 DEF Typing

\* What Redirect does when it goes on.
LEMMA RedirectIs ==
    ASSUME Typing, Redirect
    PROVE  /\ pc = "redirect" /\ UNCHANGED <<screen, history>>
           /\ \/ Return(sh) /\ UNCHANGED nest
              \/ Quit
              \/ /\ UNCHANGED <<pc, line, in, out, child, nest>>
                 /\ sh' \in Shells /\ sh'.pipe = sh.pipe /\ sh'.cmds = sh.cmds
                 /\ sh'.refused <=> sh.refused
                 /\ i' \in 1..Len(sh.cmds) /\ redir' \in Fds \X Fds
                 /\ \A n \in Fds : sh'.fd[n] = sh.fd[n] \/ (sh.fd[n] = Closed /\ sh'.fd[n] = Disk)
                 /\ \A k \in {1, 2} : redir'[k] = redir[k] \/ sh'.fd[redir'[k]] = Disk
<1>1. /\ pc = "redirect" /\ UNCHANGED <<screen, history>> /\ cmd # End
    BY DEF Redirect
<1>2. /\ sh \in Shells /\ i \in 1..Len(sh.cmds) /\ Len(sh.cmds) \in Nat
      /\ redir \in Fds \X Fds /\ Worded(sh.cmds)
      /\ cmd = End <=> i = Len(sh.cmds)
      /\ i < Len(sh.cmds) => i + 1 \in 1..Len(sh.cmds)
    BY <1>1, TypeUse
<1>3. i + 1 \in 1..Len(sh.cmds)
    <2>1. i # Len(sh.cmds)
        BY <1>1, <1>2, Zenon
    <2> QED
        BY <1>2, <2>1
<1>4. CASE /\ cmd \notin Redirections /\ i' = i + 1
           /\ UNCHANGED <<pc, line, sh, in, out, redir, child, nest>>
    BY <1>1, <1>2, <1>3, <1>4
<1>5. CASE Return(sh) /\ UNCHANGED nest
    BY <1>1, <1>5
<1>6. CASE Quit
    BY <1>1, <1>6
<1>7. CASE /\ Next1 # End /\ Slot(sh) # -1 /\ sh' = Open(sh, Disk)
           /\ redir' = [redir EXCEPT ![IF cmd = "<" THEN 1 ELSE 2] = Slot(sh)]
           /\ i' = i + 2
           /\ UNCHANGED <<pc, line, in, out, child, nest>>
    <2> DEFINE n0 == Slot(sh)
    <2>1. PICK t : t = sh'
        OBVIOUS
    <2>2. n0 \in Free(sh) /\ Free(sh) \subseteq Fds
        BY <1>2, <1>7, SlotIs
    <2>3. /\ t \in Shells /\ t.pipe = sh.pipe /\ t.cmds = sh.cmds
          /\ t.fd = [sh.fd EXCEPT ![n0] = Disk] /\ (t.refused <=> sh.refused)
        <3>1. t = Open(sh, Disk) /\ Disk \in File
            BY <1>7, <2>1, FilesAre
        <3> QED
            BY <1>2, <1>7, <3>1, OpenIs
    <2>4. sh.fd \in [Fds -> File] /\ sh.fd[n0] = Closed
        BY <1>2, <2>2, ShellIs DEF Free
    <2>5. i + 2 \in 1..Len(sh.cmds)
        <3>1. i + 1 # Len(sh.cmds)
            BY <1>2, <1>3, <1>7 DEF Worded, Next1
        <3> QED
            BY <1>2, <1>3, <3>1
    <2> HIDE DEF n0
    <2>6. /\ redir' \in Fds \X Fds
          /\ \A k \in {1, 2} : redir'[k] \in {redir[k], n0}
        <3>1. redir' \in {[redir EXCEPT ![1] = n0], [redir EXCEPT ![2] = n0]}
            BY <1>7 DEF n0
        <3>2. n0 \in Fds
            BY <2>2
        <3> QED
            BY <1>2, <3>1, <3>2
    <2>7. /\ t.fd[n0] = Disk
          /\ \A n \in Fds : t.fd[n] = sh.fd[n] \/ (sh.fd[n] = Closed /\ t.fd[n] = Disk)
        BY <2>2, <2>3, <2>4
    <2> QED
        BY <1>1, <1>7, <2>1, <2>3, <2>5, <2>6, <2>7
<1> QED
    BY <1>1, <1>4, <1>5, <1>6, <1>7 DEF Redirect

\* A line that is not a pipeline.
LEMMA TypeRedirect ==
    ASSUME Typing, lines' \in 0..MaxLines, Redirect
    PROVE  Typing'
<1>1. /\ sh \in Shells /\ Filled(sh) /\ Waiting /\ nest \in Seq([Fds -> File])
      /\ child \in Children /\ redir \in Fds \X Fds
    BY TypeUse
<1>2. pc = "redirect" /\ UNCHANGED <<screen, history>>
    BY RedirectIs
<1>3. CASE Return(sh) /\ UNCHANGED nest
    BY <1>1, <1>2, <1>3, ReturnTypes DEF Waiting
<1>4. CASE Quit
    BY <1>2, <1>4, QuitTypes
<1>5. CASE /\ UNCHANGED <<pc, line, in, out, child, nest>>
           /\ sh' \in Shells /\ sh'.pipe = sh.pipe /\ sh'.cmds = sh.cmds
           /\ i' \in 1..Len(sh.cmds) /\ redir' \in Fds \X Fds
    <2>1. Filled(sh') /\ SameWords(sh.cmds, sh'.cmds)
        BY <1>1, <1>5 DEF Filled, SameWords
    <2>2. TypeOK' /\ Worded(sh'.cmds) /\ i' \in 1..Len(sh'.cmds)
        BY <1>1, <1>2, <1>5, <2>1, StepTypes
    <2>3. Shape'
        BY <1>2, <1>5, <2>2 DEF Shape
    <2> QED
        BY <2>2, <2>3 DEF Typing
<1> QED
    BY <1>3, <1>4, <1>5, RedirectIs

\* A command of its own leaves the commands as they are.
LEMMA TypeSingle ==
    ASSUME Typing, lines' \in 0..MaxLines, Single
    PROVE  Typing'
<1>1. /\ pc = "redirect" /\ pc' = "single" /\ i' = 1
      /\ Start(sh.cmds[1].cmd, sh, redir[1], redir[2])
      /\ UNCHANGED <<line, sh, in, out, redir, nest, screen, history>>
    BY DEF Single
<1>2. /\ sh \in Shells /\ Filled(sh) /\ i \in 1..Len(sh.cmds) /\ Len(sh.cmds) \in Nat
      /\ redir \in Fds \X Fds
    BY <1>1, TypeUse
<1>3. child' \in Children
    BY <1>1, <1>2, StartType
<1>4. Filled(sh') /\ SameWords(sh.cmds, sh'.cmds) /\ i' \in 1..Len(sh.cmds)
    BY <1>1, <1>2 DEF SameWords
<1>5. TypeOK' /\ Worded(sh'.cmds) /\ i' \in 1..Len(sh'.cmds)
    BY <1>1, <1>2, <1>3, <1>4, StepTypes
<1>6. Shape'
    BY <1>1, <1>5 DEF Shape
<1> QED
    BY <1>5, <1>6 DEF Typing

\* What Nest does: the shell waits, and the new one has a prompt.
LEMMA NestIs ==
    ASSUME Typing, Nest
    PROVE  /\ pc = "redirect" /\ nest' = Append(nest, sh.fd) /\ Len(nest) < MaxNest
           /\ UNCHANGED <<screen, history>>
           /\ \E s \in Shells : /\ Return(s) /\ s.pipe = sh.pipe
                                /\ s.fd[0] = FileAt(sh, redir[1], 0)
                                /\ s.fd[1] = FileAt(sh, redir[2], 1)
<1> DEFINE e == [sh.fd EXCEPT ![0] = FileAt(sh, redir[1], 0), ![1] = FileAt(sh, redir[2], 1)]
           s == [sh EXCEPT !.fd = e]
<1>1. sh \in Shells
    BY TypeUse
<1>2. sh.fd \in [Fds -> File] /\ {0, 1} \subseteq Fds
    BY <1>1, Std, ShellIs
<1>3. FileAt(sh, redir[1], 0) \in File /\ FileAt(sh, redir[2], 1) \in File
    BY <1>1, FileAtType
<1>4. e \in [Fds -> File] /\ e[0] = FileAt(sh, redir[1], 0) /\ e[1] = FileAt(sh, redir[2], 1)
    BY <1>2, <1>3
<1>5. Return(s)
    BY DEF Nest
<1> HIDE DEF e
<1>6. s \in Shells /\ s.fd = e /\ s.pipe = sh.pipe
    BY <1>1, <1>4, WithFds
<1> HIDE DEF s
<1> QED
    BY <1>4, <1>5, <1>6 DEF Nest

\* A shell within the shell starts at a prompt.
LEMMA TypeNest ==
    ASSUME Typing, lines' \in 0..MaxLines, Nest
    PROVE  Typing'
<1>1. /\ sh \in Shells /\ Filled(sh) /\ nest \in Seq([Fds -> File])
    BY TypeUse
<1>2. PICK s \in Shells : Return(s) /\ s.pipe = sh.pipe
    BY NestIs
<1>3. nest' = Append(nest, sh.fd) /\ Len(nest) < MaxNest /\ UNCHANGED <<screen, history>>
    BY NestIs
<1>4. Filled(s)
    BY <1>1, <1>2 DEF Filled
<1>5. nest' \in Seq([Fds -> File]) /\ Len(nest') <= MaxNest
    <2> DEFINE T == [Fds -> File]
    <2>1. nest \in Seq(T) /\ sh.fd \in T
        BY <1>1, ShellIs
    <2> HIDE DEF T
    <2>2. nest' \in Seq(T) /\ Len(nest') = Len(nest) + 1 /\ Len(nest) \in Nat
        BY <1>3, <2>1, AppendProperties, LenProperties
    <2> QED
        BY <1>3, <2>2, ShellAssumption DEF T
<1> QED
    BY <1>2, <1>3, <1>4, <1>5, ReturnTypes

\* Every step keeps the types, and where the shell is in its commands.
LEMMA TypeStep ==
    ASSUME Typing, [Next]_vars
    PROVE  Typing'
<1>1. lines \in 0..MaxLines
    BY TypeIs DEF Typing
<1>2. ASSUME NEW typed \in Lines, Enter(typed)
      PROVE  Typing'
    BY <1>2, TypeEnter
<1>3. CASE Complete
    BY <1>3, TypeComplete
<1>4. ASSUME (Work \/ Child \/ InputLost \/ Exit \/ Interrupt) /\ UNCHANGED lines
      PROVE  Typing'
    <2>1. lines' \in 0..MaxLines
        BY <1>1, <1>4
    <2>2. CASE Feed
        BY <2>1, <2>2, TypeFeed
    <2>3. CASE Semicolon \/ Skip
        BY <2>1, <2>3, TypeSkip
    <2>4. CASE Fork
        BY <2>1, <2>4, TypeFork
    <2>5. CASE Reap
        BY <2>1, <2>5, TypeReap
    <2>6. CASE CopyEnd
        BY <2>1, <2>6, TypeCopyEnd
    <2>7. CASE Redirect
        BY <2>1, <2>7, TypeRedirect
    <2>8. CASE Single
        BY <2>1, <2>8, TypeSingle
    <2>9. CASE Nest
        BY <2>1, <2>9, TypeNest
    <2>10. CASE InputLost \/ Exit \/ Finish \/ ReapSingle
        BY <2>1, <2>10, TypeEnds
    <2>11. CASE CopyBlock \/ Child \/ Interrupt
        BY <2>1, <2>11, TypeQuiet DEF Child
    <2> QED
        BY <1>4, <2>2, <2>3, <2>4, <2>5, <2>6, <2>7, <2>8, <2>9, <2>10, <2>11 DEF Work
<1>5. CASE UNCHANGED vars
    <2>1. UNCHANGED <<pc, lines, line, sh, i, in, out, redir, child, nest, screen, cut, before>>
        BY <1>5 DEF vars, locals, history
    <2>2. TypeOK' <=> TypeOK
        BY <2>1 DEF TypeOK
    <2>3. Shape' <=> Shape
        BY <2>1 DEF Shape, Fed, Heads, cmd
    <2> QED
        BY <2>2, <2>3 DEF Typing
<1> QED
    BY <1>2, <1>3, <1>4, <1>5 DEF Next

\* At the start.
LEMMA InitIs ==
    ASSUME Init
    PROVE  /\ sh \in Shells /\ sh.cmds = << >> /\ Filled(sh) /\ sh.fd[0] = Keyboard
           /\ sh.fd[1] = Screen /\ ~sh.refused
           /\ pc = "prompt" /\ nest = << >> /\ before = sh.fd
<1>1. PICK used \in 2..(NumFds - 1) :
        sh = [fd |-> [n \in Fds |-> CASE n = 0 -> Keyboard [] n \in {1, 2} -> Screen
                                    [] OTHER -> IF n <= used THEN Disk ELSE Closed],
              pipe |-> [p \in Pipes |-> << >>], cmds |-> << >>, refused |-> FALSE]
    BY DEF Init
<1> DEFINE a == [n \in Fds |-> CASE n = 0 -> Keyboard [] n \in {1, 2} -> Screen
                               [] OTHER -> IF n <= used THEN Disk ELSE Closed]
           Q == Seq(Nat)
           C == Seq(Commands)
           b == [p \in Pipes |-> << >>]
<1>2. a \in [Fds -> File] /\ a[0] = Keyboard /\ a[1] = Screen
    BY FilesAre, Std
<1>3. << >> \in Q /\ << >> \in C
    OBVIOUS
<1>4. Shells = [fd : [Fds -> File], pipe : [Pipes -> Q], cmds : C, refused : BOOLEAN]
    BY DEF Shells
<1>5. Len(<< >>) <= PipeCap
    BY ShellAssumption
<1>6. sh = [fd |-> a, pipe |-> b, cmds |-> << >>, refused |-> FALSE]
    BY <1>1
<1> HIDE DEF a, Q, C
<1>7. b \in [Pipes -> Q] /\ \A p \in Pipes : b[p] = << >>
    BY <1>3
<1> HIDE DEF b
<1>8. sh \in Shells
    BY <1>2, <1>3, <1>4, <1>6, <1>7
<1>9. sh.pipe = b /\ sh.fd = a /\ sh.cmds = << >> /\ ~sh.refused
    BY <1>6
<1>10. Filled(sh)
    BY <1>5, <1>7, <1>9 DEF Filled
<1> QED
    BY <1>2, <1>8, <1>9, <1>10 DEF Init

\* The shell starts with them.
LEMMA TypeInit ==
    ASSUME Init
    PROVE  Typing
<1>1. /\ sh \in Shells /\ sh.cmds = << >> /\ Filled(sh)
      /\ pc = "prompt" /\ nest = << >> /\ before = sh.fd
    BY InitIs
<1>2. /\ lines \in 0..MaxLines /\ line \in Lines \cup {<< >>}
      /\ in \in Numbers /\ out \in Numbers /\ redir \in Fds \X Fds
      /\ screen \in Seq(Nat) /\ cut \in BOOLEAN /\ child \in Children
    <2>1. /\ lines = MaxLines /\ line = << >> /\ in = -1 /\ out = -1 /\ redir = <<0, 1>>
          /\ screen = << >> /\ cut = FALSE /\ child = Nobody
        BY DEF Init
    <2>2. -1 \in Numbers /\ <<0, 1>> \in Fds \X Fds /\ MaxLines \in 0..MaxLines
        BY Std, ShellAssumption DEF Numbers
    <2>3. << >> \in Seq(Nat) /\ FALSE \in BOOLEAN /\ << >> \in Lines \cup {<< >>}
        OBVIOUS
    <2> QED
        BY <2>1, <2>2, <2>3, NobodyType, Zenon
<1>3. before \in [Fds -> File]
    BY <1>1, ShellIs
<1>4. Waiting
    BY <1>1, ShellAssumption DEF Waiting
<1>5. TypeOK
    BY <1>1, <1>2, <1>3, <1>4, TypeIs
<1> QED
    BY <1>1, <1>5 DEF Typing, Shape

\* Variables have their types: whatever is typed, the shell's descriptors, pipes
\* and commands stay what they are, and no pipe is filled beyond what it holds.
THEOREM TypeCorrect == Spec => []TypeOK
<1>1. Init => Typing
    BY TypeInit
<1>2. Typing /\ [Next]_vars => Typing'
    BY TypeStep
<1>3. Typing => TypeOK
    BY DEF Typing
<1> QED
    BY <1>1, <1>2, <1>3, PTL DEF Spec

-----------------------------------------------------------------------------
(* The output of the shell, and the copies of its input and output. *)

\* The descriptors that a command names.
Fields(c) == {c.read[1], c.read[2], c.write[1], c.write[2]}

\* pipe() fills fields with what was free.
LEMMA FieldsMade ==
    ASSUME Waiting, NEW s \in Shells, NEW js, NEW that, Targets(s, js, that),
           NEW t, t = MakePipes(s, js, that), NEW n \in 1..Len(s.cmds)
    PROVE  \A x \in Fields(t.cmds[n]) : x \in Free(s) \/ x \in Fields(s.cmds[n])
<1> DEFINE c == s.cmds[n]
           d == t.cmds[n]
<1>1. /\ Rest(d, that) = Rest(c, that)
      /\ \/ Pair(d, that) = Pair(c, that)
         \/ \E r, w \in Free(s) : Pair(d, that) = <<r, w>>
    BY MakePipesIs
<1>2. that \in {"read", "write"}
    BY DEF Targets
<1> HIDE DEF c, d
<1>3. CASE Pair(d, that) = Pair(c, that)
    BY <1>1, <1>2, <1>3 DEF Pair, Rest, Fields, c, d
<1>4. CASE \E r, w \in Free(s) : Pair(d, that) = <<r, w>>
    <2>1. PICK r \in Free(s), w \in Free(s) : Pair(d, that) = <<r, w>>
        BY <1>4
    <2>2. CASE that = "read"
        BY <1>1, <2>1, <2>2 DEF Pair, Rest, Fields, c, d
    <2>3. CASE that = "write"
        BY <1>1, <2>1, <2>3 DEF Pair, Rest, Fields, c, d
    <2> QED
        BY <1>2, <2>2, <2>3
<1> QED
    BY <1>1, <1>3, <1>4

\* The steps within a pipeline.
Piping == pc \in {"loop", "stage", "copy"}
Piped == \/ Feed \/ Semicolon \/ Skip \/ Fork \/ Reap \/ CopyEnd
         \/ CopyBlock \/ Child \/ Interrupt

\* What a step of a pipeline may do to the descriptors and to the fields of the
\* commands: pipes are made of free descriptors, what is closed was a field,
\* and a field that is set is new or the copy of the output.
Moves ==
    /\ UNCHANGED <<in, out, nest, before>>
    /\ SameWords(sh.cmds, sh'.cmds) /\ (sh.refused => sh'.refused)
    /\ \A n \in 1..Len(sh.cmds) : \A x \in Fields(sh'.cmds[n]) :
          x \in Free(sh) \/ x = out \/ x \in Fields(sh.cmds[n])
    /\ \A n \in Fds :
          \/ sh'.fd[n] = sh.fd[n]
          \/ sh.fd[n] = Closed
          \/ /\ sh'.fd[n] = Closed
             /\ \E m \in 1..Len(sh.cmds) : n \in Fields(sh.cmds[m])

\* Making pipes.
LEMMA MovesMade ==
    ASSUME Typing, NEW js, NEW that, Targets(sh, js, that), sh' = MakePipes(sh, js, that),
           UNCHANGED <<in, out, nest, before>>
    PROVE  Moves
<1>1. sh \in Shells /\ Waiting
    BY TypeUse
<1>2. PICK t : t = sh'
    OBVIOUS
<1>3. t = MakePipes(sh, js, that)
    BY <1>2
<1>4. /\ Len(t.cmds) = Len(sh.cmds)
      /\ \A n \in Fds : sh.fd[n] # Closed => t.fd[n] = sh.fd[n]
      /\ \A n \in 1..Len(sh.cmds) : t.cmds[n].cmd = sh.cmds[n].cmd
      /\ sh.refused => t.refused
    BY <1>1, <1>3, MakePipesIs
<1>5. \A n \in 1..Len(sh.cmds) : \A x \in Fields(t.cmds[n]) :
        x \in Free(sh) \/ x \in Fields(sh.cmds[n])
    BY <1>1, <1>3, FieldsMade
<1> QED
    BY <1>2, <1>4, <1>5 DEF Moves, SameWords

\* Nothing but the contents of pipes.
LEMMA MovesNothing ==
    ASSUME UNCHANGED <<in, out, nest, before>>,
           sh'.fd = sh.fd, sh'.cmds = sh.cmds, sh'.refused <=> sh.refused
    PROVE  Moves
    BY DEF Moves, SameWords

\* What Reap and CopyEnd close are fields.
LEMMA MovesReap ==
    ASSUME Typing, lines' \in 0..MaxLines, Reap
    PROVE  Moves
<1>1. /\ pc = "stage" /\ i + 1 \in 1..Len(sh.cmds)
      /\ cmd \notin Ops \cup {"cd", End}
    BY TypeReap
<1>2. PICK s \in Shells :
        /\ SameWords(sh.cmds, s.cmds)
        /\ IF Next1 = End
           THEN /\ s.fd = sh.fd /\ s.pipe = sh.pipe /\ (s.refused <=> sh.refused)
                /\ s.cmds[i + 1].read = <<sh.cmds[i + 1].read[1], out>>
                /\ s.cmds[i + 1].write = sh.cmds[i + 1].write
                /\ \A m \in 1..Len(sh.cmds) : m # i + 1 => s.cmds[m] = sh.cmds[m]
           ELSE s = MakePipes(sh, <<i + 1>>, "read") /\ Targets(sh, <<i + 1>>, "read")
        /\ sh' = Close(s, Own(s))
        /\ sh'.cmds = s.cmds /\ sh'.pipe = s.pipe /\ (sh'.refused <=> s.refused)
        /\ \A n \in Fds : sh'.fd[n] = IF n \in Own(s) THEN Closed ELSE s.fd[n]
    BY TypeReap
<1>3. sh \in Shells /\ Waiting /\ i \in 1..Len(sh.cmds) /\ Len(sh.cmds) \in Nat
    BY <1>1, TypeUse
<1>4. i # i + 1
    BY <1>3
<1>5. /\ \A n \in 1..Len(sh.cmds) : \A x \in Fields(s.cmds[n]) :
           x \in Free(sh) \/ x = out \/ x \in Fields(sh.cmds[n])
      /\ \A n \in Fds : sh.fd[n] # Closed => s.fd[n] = sh.fd[n]
      /\ s.cmds[i] = sh.cmds[i]
      /\ sh.refused => s.refused
    <2>1. CASE Next1 = End
        <3>1. /\ s.fd = sh.fd /\ (s.refused <=> sh.refused)
              /\ s.cmds[i + 1].read = <<sh.cmds[i + 1].read[1], out>>
              /\ s.cmds[i + 1].write = sh.cmds[i + 1].write
              /\ \A m \in 1..Len(sh.cmds) : m # i + 1 => s.cmds[m] = sh.cmds[m]
            BY <1>2, <2>1
        <3>2. Fields(s.cmds[i + 1]) \subseteq Fields(sh.cmds[i + 1]) \cup {out}
            BY <3>1 DEF Fields
        <3>3. \A n \in 1..Len(sh.cmds) : Fields(s.cmds[n]) \subseteq Fields(sh.cmds[n]) \cup {out}
            BY <3>1, <3>2
        <3>4. s.cmds[i] = sh.cmds[i]
            BY <1>3, <1>4, <3>1
        <3> QED
            BY <3>1, <3>3, <3>4
    <2>2. CASE Next1 # End
        <3>1. s = MakePipes(sh, <<i + 1>>, "read") /\ Targets(sh, <<i + 1>>, "read")
            BY <1>2, <2>2
        <3>2. /\ \A n \in Fds : sh.fd[n] # Closed => s.fd[n] = sh.fd[n]
              /\ \A n \in 1..Len(sh.cmds) :
                    (\A k \in DOMAIN <<i + 1>> : <<i + 1>>[k] # n) => s.cmds[n] = sh.cmds[n]
              /\ sh.refused => s.refused
            BY <1>3, <3>1, MakePipesIs
        <3>3. \A n \in 1..Len(sh.cmds) : \A x \in Fields(s.cmds[n]) :
                x \in Free(sh) \/ x \in Fields(sh.cmds[n])
            BY <1>3, <3>1, FieldsMade
        <3>4. s.cmds[i] = sh.cmds[i]
            BY <1>3, <1>4, <3>2
        <3> QED
            BY <3>2, <3>3, <3>4
    <2> QED
        BY <2>1, <2>2
<1>6. Own(s) \subseteq Fields(sh.cmds[i])
    BY <1>5 DEF Own, Fields
<1>7. UNCHANGED <<in, out, nest, before>>
    BY DEF Reap, Drain, locals, history
<1>8. SameWords(sh.cmds, sh'.cmds) /\ (sh.refused => sh'.refused)
    BY <1>2, <1>5
<1>9. \A n \in 1..Len(sh.cmds) : \A x \in Fields(sh'.cmds[n]) :
        x \in Free(sh) \/ x = out \/ x \in Fields(sh.cmds[n])
    BY <1>2, <1>5
<1>10. ASSUME NEW n \in Fds
       PROVE  \/ sh'.fd[n] = sh.fd[n]
              \/ sh.fd[n] = Closed
              \/ /\ sh'.fd[n] = Closed
                 /\ \E m \in 1..Len(sh.cmds) : n \in Fields(sh.cmds[m])
    <2>1. CASE n \in Own(s)
        BY <1>2, <1>3, <1>6, <2>1
    <2>2. CASE n \notin Own(s)
        BY <1>2, <1>5, <2>2
    <2> QED
        BY <2>1, <2>2
<1> QED
    BY <1>7, <1>8, <1>9, <1>10 DEF Moves

\* What is read and written in the copy loop are fields.
LEMMA SinksAre ==
    ASSUME Typing, pc = "copy", cmd # ";"
    PROVE  \A n \in {Source(sh)} \cup Sinks(sh) :
             \E m \in 1..Len(sh.cmds) : n \in Fields(sh.cmds[m])
<1>1. /\ sh \in Shells /\ i \in 1..Len(sh.cmds) /\ Len(sh.cmds) \in Nat
    BY TypeUse
<1>2. cmd \notin {",", "cd", End} /\ (cmd \in DOMAIN Fan => Fed)
    BY DEF Typing, Shape
<1>3. i + 1 \in 1..Len(sh.cmds)
    BY <1>2, NotLast
<1>4. Source(sh) \in Fields(sh.cmds[i])
    BY DEF Source, Fields
<1>5. ASSUME NEW n \in Sinks(sh)
      PROVE  \E m \in 1..Len(sh.cmds) : n \in Fields(sh.cmds[m])
    <2>1. CASE cmd \in DOMAIN Fan
        <3>1. Heads \subseteq 1..Len(sh.cmds)
            BY <1>1, <1>2, <2>1, HeadsAre
        <3>2. n \in {sh.cmds[j].read[2] : j \in Heads}
            BY <2>1, OpsAre DEF Sinks
        <3>3. PICK j \in Heads : n = sh.cmds[j].read[2]
            BY <3>2
        <3>4. j \in 1..Len(sh.cmds)
            BY <3>1
        <3> QED
            BY <3>3, <3>4 DEF Fields
    <2>2. CASE cmd \notin DOMAIN Fan
        <3>1. n = sh.cmds[i + 1].read[2]
            BY <2>2 DEF Sinks
        <3> QED
            BY <1>3, <3>1 DEF Fields
    <2> QED
        BY <2>1, <2>2
<1> QED
    BY <1>1, <1>4, <1>5

\* Behind the copy loop, fields are closed, and the output is handed on.
LEMMA MovesCopyEnd ==
    ASSUME Typing, lines' \in 0..MaxLines, CopyEnd
    PROVE  Moves
<1>1. /\ pc = "copy" /\ SameWords(sh.cmds, sh'.cmds) /\ (sh'.refused <=> sh.refused)
      /\ \A n \in Fds : sh'.fd[n] =
           IF cmd # ";" /\ n \in {Source(sh)} \cup Sinks(sh) THEN Closed ELSE sh.fd[n]
      /\ \A n \in 1..Len(sh.cmds) :
           /\ sh'.cmds[n].read = sh.cmds[n].read
           /\ sh'.cmds[n].write = IF cmd \in {"||", "|||"} /\ n \in Heads
                                  THEN <<sh.cmds[n].write[1], out>> ELSE sh.cmds[n].write
    BY TypeCopyEnd
<1>2. UNCHANGED <<in, out, nest, before>>
    BY DEF CopyEnd, history
<1>3. ASSUME NEW n \in 1..Len(sh.cmds), NEW x \in Fields(sh'.cmds[n])
      PROVE  x = out \/ x \in Fields(sh.cmds[n])
    <2>1. sh'.cmds[n].read = sh.cmds[n].read
        BY <1>1
    <2>2. sh'.cmds[n].write \in {<<sh.cmds[n].write[1], out>>, sh.cmds[n].write}
        BY <1>1
    <2> QED
        BY <1>3, <2>1, <2>2 DEF Fields
<1>4. ASSUME NEW n \in Fds
      PROVE  \/ sh'.fd[n] = sh.fd[n]
             \/ /\ sh'.fd[n] = Closed
                /\ \E m \in 1..Len(sh.cmds) : n \in Fields(sh.cmds[m])
    <2>1. CASE cmd # ";" /\ n \in {Source(sh)} \cup Sinks(sh)
        BY <1>1, <2>1, SinksAre
    <2>2. CASE ~(cmd # ";" /\ n \in {Source(sh)} \cup Sinks(sh))
        BY <1>1, <2>2
    <2> QED
        BY <2>1, <2>2
<1> QED
    BY <1>1, <1>2, <1>3, <1>4 DEF Moves

\* All steps of a pipeline do this.
LEMMA PipedMoves ==
    ASSUME Typing, lines' \in 0..MaxLines, Piped
    PROVE  Moves
<1>1. CASE Feed
    <2>1. UNCHANGED <<in, out, nest, before>>
        BY <1>1 DEF Feed, history
    <2>2. CASE ~Fed
        <3>1. sh' = sh
            BY <1>1, <2>2, TypeFeed
        <3> QED
            BY <2>1, <3>1, MovesNothing
    <2>3. CASE Fed
        <3> DEFINE js == [k \in 1..Fan[cmd] |-> i + 2 * k - 1]
        <3>1. sh' = MakePipes(sh, js, "read") /\ Targets(sh, js, "read")
            BY <1>1, <2>3, TypeFeed
        <3> HIDE DEF js
        <3> QED
            BY <2>1, <3>1, MovesMade
    <2> QED
        BY <2>2, <2>3
<1>2. CASE Semicolon \/ Skip
    <2>1. UNCHANGED <<in, out, nest, before>> /\ sh' = sh
        BY <1>2 DEF Semicolon, Skip, locals, history
    <2> QED
        BY <2>1, MovesNothing
<1>3. CASE Fork
    <2>1. UNCHANGED <<in, out, nest, before>>
        BY <1>3 DEF Fork, locals, history
    <2>2. \/ sh' = MakePipes(sh, <<i>>, "write") /\ Targets(sh, <<i>>, "write")
          \/ sh' = sh
        BY <1>3, TypeFork
    <2> QED
        BY <2>1, <2>2, MovesMade, MovesNothing
<1>4. CASE Reap
    BY <1>4, MovesReap
<1>5. CASE CopyEnd
    BY <1>5, MovesCopyEnd
<1>6. CASE CopyBlock \/ Child \/ Interrupt
    <2>1. UNCHANGED <<in, out, nest, before>>
        BY <1>6 DEF CopyBlock, Child, ChildRead, ChildEof, ChildWrite, Interrupt, locals, history
    <2>2. sh'.fd = sh.fd /\ sh'.cmds = sh.cmds /\ (sh'.refused <=> sh.refused)
        BY <1>6, TypeQuiet DEF Child
    <2> QED
        BY <2>1, <2>2, MovesNothing
<1> QED
    BY <1>1, <1>2, <1>3, <1>4, <1>5, <1>6 DEF Piped

\* Descriptor 1 stays open, here and in the shells that wait: no field ever has
\* this number, neither has the copy of the output.
Outs ==
    /\ \A n \in 1..Len(sh.cmds) : 1 \notin Fields(sh.cmds[n])
    /\ sh.fd[1] # Closed /\ out # 1
    /\ \A k \in 1..Len(nest) : nest[k][1] # Closed

\* Back at the prompt.
LEMMA ReturnOuts ==
    ASSUME NEW s \in Shells, Filled(s), Return(s), s.fd[1] # Closed,
           \A k \in 1..Len(nest') : nest'[k][1] # Closed
    PROVE  Outs'
<1>1. sh'.fd = s.fd /\ sh'.cmds = << >> /\ out' = -1
    BY ReturnIs
<1> QED
    BY <1>1 DEF Outs

\* Neither does the end of a shell close descriptor 1.
LEMMA QuitOuts ==
    ASSUME Typing, Outs, Quit
    PROVE  Outs'
<1>1. /\ sh \in Shells /\ Filled(sh) /\ Waiting
    BY TypeUse
<1>2. CASE nest = << >>
    BY <1>2 DEF Quit, Outs, locals
<1>3. CASE nest # << >>
    <2> DEFINE e == Last(nest)
               s == [sh EXCEPT !.fd = e]
    <2>1. nest' = Front(nest) /\ Return(s)
        BY <1>3 DEF Quit
    <2>2. /\ e \in [Fds -> File] /\ e[1] # Closed
          /\ \A k \in 1..Len(nest') : nest'[k][1] # Closed
        <3>1. /\ e \in [Fds -> File] /\ e = nest[Len(nest)] /\ Len(nest) \in 1..Len(nest)
              /\ \A k \in 1..Len(Front(nest)) : Front(nest)[k] = nest[k] /\ k \in 1..Len(nest)
            BY <1>1, <1>3, FrontLast
        <3> QED
            BY <2>1, <3>1 DEF Outs
    <2> HIDE DEF e
    <2>3. s \in Shells /\ s.pipe = sh.pipe /\ s.fd = e
        BY <1>1, <2>2, WithFds
    <2> HIDE DEF s
    <2>4. Filled(s)
        BY <1>1, <2>3 DEF Filled
    <2> QED
        BY <2>1, <2>2, <2>3, <2>4, ReturnOuts
<1> QED
    BY <1>2, <1>3

\* dup2 leaves an open descriptor open.
LEMMA FileAtOpen ==
    ASSUME NEW s \in Shells, NEW n, NEW std \in {0, 1}, s.fd[std] # Closed
    PROVE  FileAt(s, n, std) # Closed
    BY DEF FileAt

\* No step closes descriptor 1.
LEMMA OutsStep ==
    ASSUME Typing, Outs, [Next]_vars
    PROVE  Outs'
<1>1. /\ sh \in Shells /\ Filled(sh) /\ Waiting /\ out \in Numbers
      /\ sh.fd[1] # Closed /\ 1 \in Fds /\ 0 \in Fds
    BY TypeUse, Std DEF Outs
<1>2. ASSUME NEW typed \in Lines, Enter(typed)
      PROVE  Outs'
    <2>1. nest' = nest
        BY <1>2 DEF Enter
    <2>2. /\ \A n \in 1..Len(sh'.cmds) :
               /\ sh'.cmds[n].write \in {<<-1, -1>>, <<0, 0>>}
               /\ sh'.cmds[n].read \in {<<-1, -1>>, <<0, 0>>, <<0, -1>>}
          /\ in' # -1 => in' \in Free(sh)
          /\ out' # -1 => out' \in Free(sh)
          /\ \A n \in Fds : sh'.fd[n] = IF n = in' THEN Keyboard
                                        ELSE IF n = out' THEN sh.fd[1] ELSE sh.fd[n]
        BY <1>2, EnterIs
    <2>3. 1 \notin Free(sh)
        BY <1>1 DEF Free
    <2>4. sh'.fd[1] # Closed /\ out' # 1
        BY <1>1, <2>2, <2>3
    <2>5. \A n \in 1..Len(sh'.cmds) : 1 \notin Fields(sh'.cmds[n])
        BY <2>2 DEF Fields
    <2> QED
        BY <2>1, <2>4, <2>5 DEF Outs
<1>3. CASE Complete
    <2>1. UNCHANGED <<out, nest>> /\ sh'.cmds = sh.cmds /\ sh'.fd[1] = sh.fd[1]
        BY <1>1, <1>3, TypeComplete
    <2> QED
        BY <2>1 DEF Outs
<1>4. ASSUME lines' \in 0..MaxLines, Piped
      PROVE  Outs'
    <2>1. Moves
        BY <1>4, PipedMoves
    <2>2. ASSUME NEW n \in 1..Len(sh.cmds)
          PROVE  1 \notin Fields(sh'.cmds[n])
        <3>1. 1 \notin Free(sh) /\ 1 # out /\ 1 \notin Fields(sh.cmds[n])
            BY <1>1 DEF Free, Outs
        <3> QED
            BY <2>1, <3>1 DEF Moves
    <2>3. sh'.fd[1] # Closed
        BY <1>1, <2>1 DEF Moves, Outs
    <2> QED
        BY <2>1, <2>2, <2>3 DEF Moves, SameWords, Outs
<1>5. CASE Finish \/ ReapSingle
    <2> DEFINE s == Restore(sh)
    <2>1. Return(s) /\ nest' = nest
        BY <1>5 DEF Finish, ReapSingle
    <2>2. s \in Shells /\ s.pipe = sh.pipe /\ s.fd[1] = FileAt(sh, out, 1)
        BY <1>1, RestoreIs
    <2> HIDE DEF s
    <2>3. Filled(s) /\ s.fd[1] # Closed
        BY <1>1, <2>2, FileAtOpen DEF Filled
    <2> QED
        BY <2>1, <2>2, <2>3, ReturnOuts DEF Outs
<1>6. CASE Redirect
    <2>1. CASE Return(sh) /\ UNCHANGED nest
        BY <1>1, <2>1, ReturnOuts DEF Outs
    <2>2. CASE Quit
        BY <2>2, QuitOuts
    <2>3. CASE /\ UNCHANGED <<out, nest>> /\ sh'.cmds = sh.cmds
               /\ \A n \in Fds : sh'.fd[n] = sh.fd[n] \/ (sh.fd[n] = Closed /\ sh'.fd[n] = Disk)
        BY <1>1, <2>3 DEF Outs
    <2> QED
        BY <1>6, <2>1, <2>2, <2>3, RedirectIs
<1>7. CASE Nest
    <2>1. /\ nest' = Append(nest, sh.fd)
          /\ \E s \in Shells : /\ Return(s) /\ s.pipe = sh.pipe
                               /\ s.fd[1] = FileAt(sh, redir[2], 1)
        BY <1>7, NestIs
    <2>2. PICK s \in Shells : Return(s) /\ s.pipe = sh.pipe /\ s.fd[1] = FileAt(sh, redir[2], 1)
        BY <2>1
    <2>3. Filled(s) /\ s.fd[1] # Closed
        BY <1>1, <2>2, FileAtOpen DEF Filled
    <2>4. \A k \in 1..Len(nest') : nest'[k][1] # Closed
        <3> DEFINE T == [Fds -> File]
        <3>1. nest \in Seq(T) /\ sh.fd \in T
            BY <1>1, ShellIs DEF Waiting
        <3> HIDE DEF T
        <3>2. /\ Len(nest') = Len(nest) + 1 /\ Len(nest) \in Nat /\ nest'[Len(nest) + 1] = sh.fd
              /\ \A k \in 1..Len(nest) : nest'[k] = nest[k]
            BY <2>1, <3>1, AppendProperties, LenProperties
        <3>3. ASSUME NEW k \in 1..Len(nest')
              PROVE  nest'[k][1] # Closed
            <4>1. CASE k = Len(nest) + 1
                BY <1>1, <3>2, <4>1
            <4>2. CASE k # Len(nest) + 1
                <5>1. k \in 1..Len(nest)
                    BY <3>2, <4>2
                <5> QED
                    BY <3>2, <5>1 DEF Outs
            <4> QED
                BY <4>1, <4>2
        <3> QED
            BY <3>3
    <2> QED
        BY <2>2, <2>3, <2>4, ReturnOuts
<1>8. CASE Exit
    BY <1>8, QuitOuts DEF Exit
<1>9. CASE InputLost \/ Single \/ UNCHANGED vars
    <2>1. UNCHANGED <<sh, out, nest>>
        BY <1>9 DEF InputLost, Single, vars, locals
    <2> QED
        BY <2>1 DEF Outs
<1>10. ASSUME (Work \/ Child \/ InputLost \/ Exit \/ Interrupt) /\ UNCHANGED lines
       PROVE  Outs'
    <2>1. lines' \in 0..MaxLines
        BY <1>10, TypeIs DEF Typing
    <2> QED
        BY <1>10, <2>1, <1>4, <1>5, <1>6, <1>7, <1>8, <1>9 DEF Work, Piped
<1> QED
    BY <1>2, <1>3, <1>9, <1>10 DEF Next

\* Descriptor 1 is the terminal at the start.
LEMMA OutsInit ==
    ASSUME Init
    PROVE  Outs
<1>1. sh.cmds = << >> /\ sh.fd[1] = Screen /\ nest = << >>
    BY InitIs
<1>2. out = -1 /\ Screen # Closed
    BY DEF Init, Screen, Closed
<1> QED
    BY <1>1, <1>2 DEF Outs

\* The executor has put its input and output aside, below all that it opens: the
\* copies are where they were put, the output below them too, and no field of a
\* command has a number below the copy of the output, but for 0.
Aside ==
    /\ before[0] = Keyboard /\ before[1] # Closed /\ sh.fd[1] = before[1]
    /\ in \in 2..(NumFds - 1) /\ out \in (in + 1)..(NumFds - 1)
    /\ \A n \in 1..(out - 1) : sh.fd[n] # Closed
    /\ sh.fd[in] = Keyboard
    /\ \A n \in 1..Len(sh.cmds) : Fields(sh.cmds[n]) \cap 1..(out - 1) = {}

Busy == pc \in {"loop", "stage", "copy", "redirect", "single"}
Held == Busy /\ ~sh.refused => Aside

\* Pipes and what is closed leave the copies alone.
LEMMA AsideMoves ==
    ASSUME Typing, Aside, Moves
    PROVE  Aside'
<1>1. /\ sh \in Shells /\ NumFds \in Nat
      /\ in \in 2..(NumFds - 1) /\ out \in (in + 1)..(NumFds - 1)
      /\ UNCHANGED <<in, out, before>> /\ SameWords(sh.cmds, sh'.cmds)
    BY TypeUse, ShellAssumption DEF Aside, Moves
<1>2. 1..(out - 1) \subseteq Fds /\ 1 \in 1..(out - 1) /\ in \in 1..(out - 1) /\ out \notin 1..(out - 1)
    BY <1>1 DEF Fds
<1>3. ASSUME NEW n \in 1..(out - 1)
      PROVE  sh'.fd[n] = sh.fd[n]
    <2>1. n \in Fds /\ sh.fd[n] # Closed
        BY <1>2 DEF Aside
    <2>2. \A m \in 1..Len(sh.cmds) : n \notin Fields(sh.cmds[m])
        BY DEF Aside
    <2> QED
        BY <2>1, <2>2 DEF Moves
<1>4. ASSUME NEW m \in 1..Len(sh.cmds), NEW n \in 1..(out - 1), n \in Fields(sh'.cmds[m])
      PROVE  FALSE
    <2>1. n \in Free(sh) \/ n = out \/ n \in Fields(sh.cmds[m])
        BY <1>4 DEF Moves
    <2>2. n \notin Fields(sh.cmds[m])
        BY DEF Aside
    <2>3. n \notin Free(sh)
        BY DEF Aside, Free
    <2> QED
        BY <1>2, <2>1, <2>2, <2>3
<1>5. /\ before'[0] = Keyboard /\ before'[1] # Closed /\ sh'.fd[1] = before'[1]
      /\ sh'.fd[in'] = Keyboard
      /\ \A n \in 1..(out' - 1) : sh'.fd[n] # Closed
    BY <1>1, <1>2, <1>3 DEF Aside
<1>6. \A n \in 1..Len(sh'.cmds) : Fields(sh'.cmds[n]) \cap 1..(out' - 1) = {}
    BY <1>1, <1>4 DEF SameWords
<1>7. in' \in 2..(NumFds - 1) /\ out' \in (in' + 1)..(NumFds - 1)
    BY <1>1
<1> QED
    BY <1>5, <1>6, <1>7 DEF Aside

\* What Enter puts aside.
LEMMA AsideEnter ==
    ASSUME Typing, Outs, NEW typed \in Lines, Enter(typed), ~sh'.refused
    PROVE  Aside'
<1>1. /\ sh \in Shells /\ sh.fd[0] = Keyboard /\ before' = sh.fd
      /\ \A n \in 1..Len(sh'.cmds) :
           /\ sh'.cmds[n].write \in {<<-1, -1>>, <<0, 0>>}
           /\ sh'.cmds[n].read \in {<<-1, -1>>, <<0, 0>>, <<0, -1>>}
      /\ in' \in Numbers /\ out' \in Numbers
      /\ in' # -1 => in' \in Free(sh)
      /\ out' # -1 => out' \in Free(sh)
      /\ \A n \in Fds : sh'.fd[n] = IF n = in' THEN Keyboard
                                    ELSE IF n = out' THEN sh.fd[1] ELSE sh.fd[n]
      /\ in' \in Fds /\ out' \in Fds /\ in' < out'
      /\ \A n \in Free(sh) : n \in {in', out'} \/ n > out'
    BY EnterIs, TypeUse
<1> DEFINE a == in'
           b == out'
           e == sh'.fd
<1> HIDE DEF a, b, e
<1>2. /\ a \in Free(sh) /\ b \in Free(sh) /\ a \in Fds /\ b \in Fds /\ a < b
      /\ \A n \in Free(sh) : n = a \/ n = b \/ n > b
      /\ \A n \in Fds : e[n] = IF n = a THEN Keyboard ELSE IF n = b THEN sh.fd[1] ELSE sh.fd[n]
    <2>1. -1 \notin Fds
        BY DEF Fds
    <2>2. a # -1 /\ b # -1
        BY <1>1, <2>1 DEF a, b
    <2> QED
        BY <1>1, <2>2 DEF a, b, e
<1>3. 0 \notin Free(sh) /\ 1 \notin Free(sh)
    BY <1>1 DEF Outs, Free, Keyboard, Closed
<1>4. NumFds \in Nat /\ Fds = 0..(NumFds - 1)
    BY ShellAssumption DEF Fds
<1>5. a # 0 /\ a # 1
    BY <1>2, <1>3
<1>6. a \in 2..(NumFds - 1) /\ b \in (a + 1)..(NumFds - 1)
    BY <1>2, <1>4, <1>5
<1>7. ASSUME NEW n \in 1..(b - 1)
      PROVE  e[n] # Closed
    <2>1. n \in Fds /\ n # b /\ ~(n > b)
        BY <1>4, <1>6
    <2>2. CASE n = a
        BY <1>2, <2>1, <2>2 DEF Keyboard, Closed
    <2>3. CASE n # a
        <3>1. n \notin Free(sh)
            BY <1>2, <2>1, <2>3
        <3> QED
            BY <1>2, <2>1, <2>3, <3>1 DEF Free
    <2> QED
        BY <2>2, <2>3
<1>8. e[a] = Keyboard /\ e[1] = sh.fd[1]
    <2>1. 1 \in Fds /\ 1 # a /\ 1 # b
        BY <1>4, <1>6
    <2> QED
        BY <1>2, <2>1
<1>9. \A n \in 1..Len(sh'.cmds) : Fields(sh'.cmds[n]) \cap 1..(b - 1) = {}
    <2>1. \A n \in 1..Len(sh'.cmds) : Fields(sh'.cmds[n]) \subseteq {-1, 0}
        BY <1>1 DEF Fields
    <2>2. {-1, 0} \cap 1..(b - 1) = {}
        BY <1>6
    <2> QED
        BY <2>1, <2>2
<1> QED
    BY <1>1, <1>6, <1>7, <1>8, <1>9 DEF Aside, Outs, a, b, e, Keyboard, Closed

\* The copies stay while a line is executed.
LEMMA HeldStep ==
    ASSUME Typing, Outs, Held, [Next]_vars
    PROVE  Held'
<1> SUFFICES ASSUME Busy', ~sh'.refused
             PROVE  Aside'
    BY DEF Held
<1>1. ASSUME NEW typed \in Lines, Enter(typed)
      PROVE  Aside'
    BY <1>1, AsideEnter
<1>2. CASE Complete \/ Finish \/ ReapSingle \/ Nest \/ Exit \/ InputLost
    <2>1. pc' \in {"prompt", "gone", "spin"}
        BY <1>2, TypeComplete DEF Finish, ReapSingle, Nest, Exit, InputLost, Quit, Return
    <2> QED
        BY <2>1 DEF Busy
<1>3. ASSUME lines' \in 0..MaxLines, Piped
      PROVE  Aside'
    <2>1. Moves
        BY <1>3, PipedMoves
    <2>2. Busy
        BY <1>3, OpsAre DEF Busy, Piped, Feed, Semicolon, Skip, Fork, Reap, CopyEnd, CopyBlock,
           Child, ChildRead, ChildEof, ChildWrite, Interrupt, Running
    <2>3. Aside
        BY <2>1, <2>2 DEF Held, Moves
    <2> QED
        BY <2>1, <2>3, AsideMoves
<1>4. CASE Redirect
    <2>1. pc = "redirect" /\ UNCHANGED <<screen, history>>
        BY <1>4, RedirectIs
    <2>2. CASE Return(sh) \/ Quit
        BY <2>2 DEF Busy, Return, Quit
    <2>3. CASE /\ UNCHANGED <<in, out, nest>>
               /\ sh' \in Shells /\ sh'.cmds = sh.cmds /\ (sh'.refused <=> sh.refused)
               /\ \A n \in Fds : sh'.fd[n] = sh.fd[n] \/ (sh.fd[n] = Closed /\ sh'.fd[n] = Disk)
        <3>1. Moves
            BY <2>1, <2>3 DEF Moves, SameWords, history
        <3>2. Aside
            BY <2>1, <2>3 DEF Held, Busy
        <3> QED
            BY <3>1, <3>2, AsideMoves
    <2> QED
        BY <1>4, <2>2, <2>3, RedirectIs
<1>5. CASE Single
    <2>1. pc = "redirect" /\ sh' = sh /\ UNCHANGED <<in, out, nest, before>>
        BY <1>5 DEF Single, history
    <2>2. Moves /\ Aside
        BY <2>1, MovesNothing DEF Held, Busy
    <2> QED
        BY <2>2, AsideMoves
<1>6. CASE UNCHANGED vars
    <2>1. UNCHANGED <<pc, sh, in, out, nest, before>>
        BY <1>6 DEF vars, locals, history
    <2> QED
        BY <2>1 DEF Held, Busy, Aside
<1>7. ASSUME (Work \/ Child \/ InputLost \/ Exit \/ Interrupt) /\ UNCHANGED lines
      PROVE  Aside'
    <2>1. lines' \in 0..MaxLines
        BY <1>7, TypeIs DEF Typing
    <2> QED
        BY <1>7, <2>1, <1>2, <1>3, <1>4, <1>5 DEF Work, Piped
<1> QED
    BY <1>1, <1>2, <1>6, <1>7 DEF Next

\* A line without pipes opens files above the copies, and closes nothing.
Kept == pc \in {"redirect", "single"} /\ ~sh.refused =>
            sh.fd[0] = before[0] /\ sh.fd[out] = before[1]

\* Outside the pipelines the copies are never touched.
LEMMA KeptStep ==
    ASSUME Typing, Held, Held', Kept, [Next]_vars
    PROVE  Kept'
<1> SUFFICES ASSUME pc' \in {"redirect", "single"}, ~sh'.refused
             PROVE  sh'.fd[0] = before'[0] /\ sh'.fd[out'] = before'[1]
    BY DEF Kept
<1>1. /\ out' \in 3..(NumFds - 1) /\ in' \in 2..(NumFds - 1) /\ in' < out'
      /\ before'[0] = Keyboard /\ before'[1] # Closed
    <2>1. Aside'
        BY DEF Held, Busy
    <2>2. /\ in' \in 2..(NumFds - 1) /\ out' \in (in' + 1)..(NumFds - 1)
          /\ before'[0] = Keyboard /\ before'[1] # Closed
        BY <2>1 DEF Aside
    <2> DEFINE a == in'
               b == out'
    <2> HIDE DEF a, b
    <2>3. a \in 2..(NumFds - 1) /\ b \in (a + 1)..(NumFds - 1) /\ NumFds \in Nat
        BY <2>2, ShellAssumption DEF a, b
    <2>4. b \in 3..(NumFds - 1) /\ a < b
        BY <2>3
    <2> QED
        BY <2>2, <2>4 DEF a, b
<1>2. {0, 1} \subseteq Fds /\ out' \in Fds
    BY <1>1, Std, ShellAssumption DEF Fds
<1>3. ASSUME NEW typed \in Lines, Enter(typed)
      PROVE  sh'.fd[0] = before'[0] /\ sh'.fd[out'] = before'[1]
    <2>1. /\ before' = sh.fd
          /\ \A n \in Fds : sh'.fd[n] = IF n = in' THEN Keyboard
                                        ELSE IF n = out' THEN sh.fd[1] ELSE sh.fd[n]
        BY <1>3, EnterIs
    <2>2. 0 # in' /\ 0 # out' /\ out' # in'
        BY <1>1, ShellAssumption
    <2> QED
        BY <1>2, <2>1, <2>2
<1>4. CASE Complete \/ Finish \/ ReapSingle \/ Nest \/ Exit \/ InputLost
    <2>1. pc' \in {"prompt", "gone", "spin"}
        BY <1>4, TypeComplete DEF Finish, ReapSingle, Nest, Exit, InputLost, Quit, Return
    <2> QED
        BY <2>1
<1>5. ASSUME UNCHANGED <<out, before>>, pc \in {"redirect", "single"}, ~sh.refused,
             \A n \in Fds : sh'.fd[n] = sh.fd[n] \/ sh.fd[n] = Closed
      PROVE  sh'.fd[0] = before'[0] /\ sh'.fd[out'] = before'[1]
    <2>1. sh.fd[0] = before[0] /\ sh.fd[out] = before[1]
        BY <1>5 DEF Kept
    <2>2. before[0] # Closed /\ before[1] # Closed /\ out \in Fds
        BY <1>1, <1>2, <1>5 DEF Keyboard, Closed
    <2> QED
        BY <1>2, <1>5, <2>1, <2>2
<1>6. CASE Redirect
    <2>1. pc = "redirect" /\ UNCHANGED history
        BY <1>6, RedirectIs
    <2>2. CASE Return(sh) \/ Quit
        BY <2>2 DEF Return, Quit
    <2>3. CASE /\ UNCHANGED <<in, out, nest>>
               /\ sh'.refused <=> sh.refused
               /\ \A n \in Fds : sh'.fd[n] = sh.fd[n] \/ (sh.fd[n] = Closed /\ sh'.fd[n] = Disk)
        BY <1>5, <2>1, <2>3 DEF history
    <2> QED
        BY <1>6, <2>2, <2>3, RedirectIs
<1>7. CASE Single
    BY <1>5, <1>7 DEF Single, history
<1>8. CASE Feed \/ Semicolon \/ Skip \/ Fork \/ Reap \/ CopyEnd
    <2>1. pc' \in {"loop", "stage", "copy"}
        BY <1>8 DEF Feed, Semicolon, Skip, Fork, Reap, Drain, CopyEnd, Goto
    <2> QED
        BY <2>1
<1>9. ASSUME lines' \in 0..MaxLines, CopyBlock \/ Child \/ Interrupt
      PROVE  sh'.fd[0] = before'[0] /\ sh'.fd[out'] = before'[1]
    <2>1. sh'.fd = sh.fd /\ (sh'.refused <=> sh.refused)
        BY <1>9, TypeQuiet DEF Child
    <2>2. UNCHANGED <<pc, out, before>>
        BY <1>9 DEF CopyBlock, Child, ChildRead, ChildEof, ChildWrite, Interrupt, locals, history
    <2> QED
        BY <1>5, <2>1, <2>2
<1>10. CASE UNCHANGED vars
    BY <1>5, <1>10 DEF vars, locals, history
<1>11. ASSUME (Work \/ Child \/ InputLost \/ Exit \/ Interrupt) /\ UNCHANGED lines
       PROVE  sh'.fd[0] = before'[0] /\ sh'.fd[out'] = before'[1]
    <2>1. lines' \in 0..MaxLines
        BY <1>11, TypeIs DEF Typing
    <2> QED
        BY <1>4, <1>6, <1>7, <1>8, <1>9, <1>11, <2>1 DEF Work
<1> QED
    BY <1>3, <1>4, <1>10, <1>11 DEF Next

\* A pipe of the line that is still to come.
FanAhead == \E m \in i..Len(sh.cmds) : sh.cmds[m].cmd \in DOMAIN Fan

\* Up to the last of them, nobody touches the copy of the output.
Untouched ==
    /\ sh.fd[out] = before[1]
    /\ \A n \in 1..Len(sh.cmds) : out \notin Fields(sh.cmds[n])
Strict == FanAhead => Untouched

\* Behind it, the copy may have been closed and its number used for the pipe of
\* a stage, but when the stage is done it is closed again.
OutIs ==
    /\ pc = "loop" => sh.fd[out] \in {before[1], Closed}
    /\ pc = "stage" => sh.fd[out] = before[1]
                       \/ out \in {sh.cmds[i].write[1], sh.cmds[i].write[2]}
    /\ pc = "copy" => sh.fd[out] \in {before[1], Closed}
                      \/ (cmd # ";" /\ out \in {Source(sh)} \cup Sinks(sh))

\* A stage that is still to come writes into a new pipe or to the output.
Writes ==
    \A m \in i..Len(sh.cmds) :
        sh.cmds[m].cmd \notin Ops \cup {End} /\ (m = i => pc = "loop") =>
            sh.cmds[m].write = <<-1, -1>> \/ sh.cmds[m].write[2] = out

Straight == Strict /\ OutIs /\ Writes

\* The words of the line do not change.
LEMMA SameAhead ==
    ASSUME Typing, Piping, sh' \in Shells, SameWords(sh.cmds, sh'.cmds), i' \in Int, i <= i'
    PROVE  /\ FanAhead' => FanAhead
           /\ LastFork' <=> LastFork
           /\ \A m \in i'..Len(sh'.cmds) :
                m \in i..Len(sh.cmds) /\ m \in 1..Len(sh.cmds) /\ sh'.cmds[m].cmd = sh.cmds[m].cmd
<1>1. /\ sh \in Shells /\ i \in 1..Len(sh.cmds) /\ Len(sh.cmds) \in Nat
    BY TypeUse DEF Piping
<1>2. Len(sh'.cmds) = Len(sh.cmds)
      /\ \A n \in 1..Len(sh.cmds) : sh'.cmds[n].cmd = sh.cmds[n].cmd
    BY DEF SameWords
<1>3. \A m \in i'..Len(sh'.cmds) : m \in i..Len(sh.cmds) /\ m \in 1..Len(sh.cmds)
    BY <1>1, <1>2
<1>4. FanAhead' => FanAhead
    BY <1>2, <1>3 DEF FanAhead
<1>5. DOMAIN sh.cmds = 1..Len(sh.cmds)
    BY <1>1, CmdsIs
<1>6. DOMAIN sh'.cmds = 1..Len(sh.cmds)
    <2>1. PICK t \in Shells : t = sh'
        OBVIOUS
    <2>2. DOMAIN t.cmds = 1..Len(t.cmds)
        BY CmdsIs
    <2> QED
        BY <1>2, <2>1, <2>2
<1> QED
    BY <1>2, <1>3, <1>4, <1>5, <1>6 DEF LastFork

\* What is made of free descriptors leaves the copy of the output untouched.
LEMMA UntouchedMade ==
    ASSUME Typing, Aside, Untouched, NEW js, NEW that, Targets(sh, js, that),
           NEW t, t = MakePipes(sh, js, that)
    PROVE  /\ t.fd[out] = before[1]
           /\ \A n \in 1..Len(sh.cmds) : out \notin Fields(t.cmds[n])
<1>1. sh \in Shells /\ Waiting
    BY TypeUse
<1>2. out \in Fds
    BY ShellAssumption DEF Aside, Fds
<1>3. sh.fd[out] # Closed /\ out \notin Free(sh)
    BY DEF Untouched, Aside, Free
<1>4. \A n \in Fds : sh.fd[n] # Closed => t.fd[n] = sh.fd[n]
    BY <1>1, MakePipesIs
<1>5. \A n \in 1..Len(sh.cmds) : \A x \in Fields(t.cmds[n]) :
        x \in Free(sh) \/ x \in Fields(sh.cmds[n])
    BY <1>1, FieldsMade
<1> QED
    BY <1>2, <1>3, <1>4, <1>5 DEF Untouched

\* The pipes of an operator are made of other descriptors.
LEMMA StraightFeed ==
    ASSUME Typing, Typing', Aside, Straight, lines' \in 0..MaxLines, Feed
    PROVE  Straight'
<1>1. /\ pc = "loop" /\ cmd \in DOMAIN Fan /\ UNCHANGED <<in, out, before>>
    BY DEF Feed, history
<1>2. /\ sh \in Shells /\ i \in 1..Len(sh.cmds) /\ Len(sh.cmds) \in Nat
      /\ Worded(sh.cmds)
    BY <1>1, TypeUse
<1>3. Untouched
    <2>1. FanAhead
        BY <1>1, <1>2 DEF FanAhead, cmd
    <2> QED
        BY <2>1 DEF Straight, Strict
<1>4. SameWords(sh.cmds, sh'.cmds) /\ sh' \in Shells
    BY TypeFeed, TypeNext DEF Typing
<1>5. CASE ~Fed
    <2>1. sh' = sh /\ pc' = "loop" /\ i' = Len(sh.cmds)
        BY <1>5, TypeFeed
    <2>2. i' \in Int /\ i <= i' /\ Piping
        BY <1>1, <1>2, <2>1 DEF Piping
    <2>3. Strict'
        BY <1>1, <1>3, <2>1 DEF Strict, Untouched
    <2>4. OutIs'
        BY <1>1, <1>3, <2>1 DEF OutIs, Untouched
    <2>5. Writes'
        <3>1. \A m \in i'..Len(sh'.cmds) : m = Len(sh.cmds)
            BY <1>2, <2>1
        <3>2. sh.cmds[Len(sh.cmds)].cmd = End
            BY <1>2 DEF Worded
        <3> QED
            BY <2>1, <3>1, <3>2 DEF Writes
    <2> QED
        BY <2>3, <2>4, <2>5 DEF Straight
<1>6. CASE Fed
    <2> DEFINE js == [k \in 1..Fan[cmd] |-> i + 2 * k - 1]
    <2>1. /\ pc' = "copy" /\ i' = i
          /\ sh' = MakePipes(sh, js, "read") /\ Targets(sh, js, "read")
        BY <1>6, TypeFeed
    <2> HIDE DEF js
    <2>2. PICK t : t = sh'
        OBVIOUS
    <2>3. t = MakePipes(sh, js, "read") /\ Waiting
        BY <2>1, <2>2, TypeUse
    <2>4. /\ t.fd[out] = before[1]
          /\ \A n \in 1..Len(sh.cmds) : out \notin Fields(t.cmds[n])
        BY <1>3, <2>1, <2>3, UntouchedMade
    <2>5. \A n \in 1..Len(sh.cmds) : t.cmds[n].write = sh.cmds[n].write
        <3>1. \A n \in 1..Len(sh.cmds) : Rest(t.cmds[n], "read") = Rest(sh.cmds[n], "read")
            BY <1>2, <2>1, <2>3, MakePipesIs
        <3> QED
            BY <3>1 DEF Rest
    <2>6. Len(sh'.cmds) = Len(sh.cmds)
        BY <1>4 DEF SameWords
    <2>7. Untouched'
        BY <1>1, <2>2, <2>4, <2>6 DEF Untouched
    <2>8. OutIs'
        BY <2>1, <2>7 DEF OutIs, Untouched
    <2>9. Writes'
        <3>1. i <= i' /\ i' \in Int /\ Piping
            BY <1>1, <1>2, <2>1 DEF Piping
        <3>2. \A m \in i'..Len(sh'.cmds) :
                m \in i..Len(sh.cmds) /\ m \in 1..Len(sh.cmds) /\ sh'.cmds[m].cmd = sh.cmds[m].cmd
            BY <1>4, <3>1, SameAhead
        <3> QED
            BY <1>1, <2>1, <2>2, <2>5, <3>2 DEF Straight, Writes
    <2> QED
        BY <2>7, <2>8, <2>9 DEF Straight, Strict
<1> QED
    BY <1>5, <1>6

\* A comma, cd, ";", and what leaves the commands and descriptors alone.
LEMMA StraightQuiet ==
    ASSUME Typing, Typing', Straight, lines' \in 0..MaxLines, Piping,
           Semicolon \/ Skip \/ CopyBlock \/ Child \/ Interrupt
    PROVE  Straight'
<1>1. sh'.fd = sh.fd /\ sh'.cmds = sh.cmds /\ UNCHANGED <<in, out, before>>
    <2>1. CASE Semicolon \/ Skip
        BY <2>1 DEF Semicolon, Skip, locals, history
    <2>2. CASE CopyBlock \/ Child \/ Interrupt
        <3>1. sh'.fd = sh.fd /\ sh'.cmds = sh.cmds
            BY <2>2, TypeQuiet DEF Child
        <3> QED
            BY <2>2, <3>1 DEF CopyBlock, Child, ChildRead, ChildEof, ChildWrite, Interrupt,
               locals, history
    <2> QED
        BY <2>1, <2>2
<1>2. /\ sh \in Shells /\ sh' \in Shells /\ i \in 1..Len(sh.cmds) /\ Len(sh.cmds) \in Nat
    BY TypeUse, TypeNext DEF Typing, Piping
<1>3. \/ pc' = pc /\ i' = i
      \/ pc = "loop" /\ pc' = "copy" /\ i' = i /\ cmd = ";"
      \/ pc = "loop" /\ pc' = "loop" /\ i' = i + 1
    BY DEF Semicolon, Skip, CopyBlock, Child, ChildRead, ChildEof, ChildWrite, Interrupt,
           locals, Goto
<1>4. i' \in Int /\ i <= i' /\ SameWords(sh.cmds, sh'.cmds)
    <2>1. SameWords(sh.cmds, sh'.cmds)
        BY <1>1 DEF SameWords
    <2>2. i' = i \/ i' = i + 1
        BY <1>3
    <2> QED
        BY <1>2, <2>1, <2>2
<1>5. /\ FanAhead' => FanAhead
      /\ \A m \in i'..Len(sh'.cmds) :
           m \in i..Len(sh.cmds) /\ m \in 1..Len(sh.cmds) /\ sh'.cmds[m].cmd = sh.cmds[m].cmd
    BY <1>2, <1>4, SameAhead
<1>6. Strict'
    BY <1>1, <1>5 DEF Straight, Strict, Untouched
<1>7. OutIs'
    <2>1. CASE pc' = pc /\ i' = i
        <3>1. cmd' = cmd /\ Source(sh)' = Source(sh)
            BY <1>1, <2>1 DEF cmd, Source
        <3>2. Heads' = Heads
            BY <2>1, <3>1 DEF Heads
        <3>3. Sinks(sh)' = Sinks(sh)
            BY <1>1, <2>1, <3>1, <3>2 DEF Sinks
        <3> QED
            BY <1>1, <2>1, <3>1, <3>3 DEF Straight, OutIs
    <2>2. CASE pc = "loop" /\ (pc' = "copy" \/ pc' = "loop")
        BY <1>1, <2>2 DEF Straight, OutIs
    <2> QED
        BY <1>3, <2>1, <2>2
<1>8. Writes'
    <2>1. ASSUME NEW m \in i'..Len(sh'.cmds), sh'.cmds[m].cmd \notin Ops \cup {End},
                 m = i' => pc' = "loop"
          PROVE  sh'.cmds[m].write = <<-1, -1>> \/ sh'.cmds[m].write[2] = out'
        <3>1. m = i => pc = "loop"
            BY <1>3, <2>1
        <3>2. m \in i..Len(sh.cmds) /\ sh.cmds[m].cmd \notin Ops \cup {End}
            BY <1>5, <2>1
        <3> QED
            BY <1>1, <3>1, <3>2 DEF Straight, Writes
    <2> QED
        BY <2>1 DEF Writes
<1> QED
    BY <1>6, <1>7, <1>8 DEF Straight

\* The pipe of a stage may be made of the copy's number, behind the last operator.
LEMMA StraightFork ==
    ASSUME Typing, Typing', Aside, Straight, ~sh'.refused, lines' \in 0..MaxLines, Fork
    PROVE  Straight'
<1>1. /\ pc = "loop" /\ pc' = "stage" /\ i' = i /\ cmd \notin Ops \cup {"cd", End}
      /\ SameWords(sh.cmds, sh'.cmds)
      /\ IF sh.cmds[i].write[2] = -1
         THEN sh' = MakePipes(sh, <<i>>, "write") /\ Targets(sh, <<i>>, "write")
         ELSE sh' = sh
    BY TypeFork
<1>2. UNCHANGED <<in, out, before>>
    BY DEF Fork, locals, history
<1>3. /\ sh \in Shells /\ sh' \in Shells /\ Waiting /\ i \in 1..Len(sh.cmds) /\ Len(sh.cmds) \in Nat
    BY <1>1, TypeUse, TypeNext DEF Typing
<1>4. out \in Fds /\ out # -1
    BY ShellAssumption DEF Aside, Fds
<1>5. sh.cmds[i].write = <<-1, -1>> \/ sh.cmds[i].write[2] = out
    BY <1>1, <1>3 DEF Straight, Writes, cmd
<1>6. /\ FanAhead' => FanAhead
      /\ \A m \in i'..Len(sh'.cmds) :
           m \in i..Len(sh.cmds) /\ m \in 1..Len(sh.cmds) /\ sh'.cmds[m].cmd = sh.cmds[m].cmd
    <2>1. i' \in Int /\ i <= i' /\ Piping
        BY <1>1, <1>3 DEF Piping
    <2> QED
        BY <1>1, <1>3, <2>1, SameAhead
<1>7. CASE sh.cmds[i].write = <<-1, -1>>
    <2>1. PICK t : t = sh'
        OBVIOUS
    <2>2. t = MakePipes(sh, <<i>>, "write") /\ Targets(sh, <<i>>, "write")
        BY <1>1, <1>7, <2>1
    <2>3. Strict'
        <3>1. ASSUME FanAhead'
              PROVE  Untouched'
            <4>1. Untouched
                BY <1>6, <3>1 DEF Straight, Strict
            <4>2. /\ t.fd[out] = before[1]
                  /\ \A n \in 1..Len(sh.cmds) : out \notin Fields(t.cmds[n])
                BY <2>2, <4>1, UntouchedMade
            <4> QED
                BY <1>1, <1>2, <2>1, <4>2 DEF Untouched, SameWords
        <3> QED
            BY <3>1 DEF Strict
    <2>4. OutIs'
        <3>1. sh.fd[out] \in {before[1], Closed}
            BY <1>1 DEF Straight, OutIs
        <3>2. CASE sh.fd[out] = before[1]
            <4>1. sh.fd[out] # Closed
                BY <3>2 DEF Aside
            <4>2. t.fd[out] = sh.fd[out]
                BY <1>3, <1>4, <2>2, <4>1, MakePipesIs
            <4> QED
                BY <1>1, <1>2, <2>1, <3>2, <4>2 DEF OutIs
        <3>3. CASE sh.fd[out] = Closed
            <4>1. out \in Free(sh)
                BY <1>4, <3>3 DEF Free
            <4>2. \A y \in Free(sh) : y < out => y = 0
                <5>1. ASSUME NEW y \in Free(sh), y < out, y # 0
                      PROVE  FALSE
                    <6>1. y \in Fds /\ sh.fd[y] = Closed
                        BY DEF Free
                    <6>2. y \in 1..(out - 1)
                        BY <1>4, <5>1, <6>1, ShellAssumption DEF Fds
                    <6> QED
                        BY <6>1, <6>2 DEF Aside
                <5> QED
                    BY <5>1
            <4>3. \A k \in DOMAIN <<i>> : \E r, w \in Free(sh) :
                      /\ Pair(t.cmds[<<i>>[k]], "write") = <<r, w>>
                      /\ k = 1 => \A x \in Free(sh) :
                            (\A y \in Free(sh) : y < x => y = 0) => x \in {r, w}
                BY <1>3, <2>1, <2>2, MakePipesIs
            <4>4. 1 \in DOMAIN <<i>> /\ <<i>>[1] = i
                OBVIOUS
            <4>5. \E r, w \in Free(sh) :
                      /\ Pair(t.cmds[i], "write") = <<r, w>>
                      /\ \A x \in Free(sh) :
                            (\A y \in Free(sh) : y < x => y = 0) => x \in {r, w}
                BY <4>3, <4>4
            <4>6. PICK r \in Free(sh), w \in Free(sh) :
                      /\ Pair(t.cmds[i], "write") = <<r, w>>
                      /\ \A x \in Free(sh) :
                            (\A y \in Free(sh) : y < x => y = 0) => x \in {r, w}
                BY <4>5
            <4>7. out \in {r, w}
                BY <4>1, <4>2, <4>6
            <4>8. t.cmds[i].write = <<r, w>>
                BY <4>6 DEF Pair
            <4> QED
                BY <1>1, <1>2, <2>1, <4>7, <4>8 DEF OutIs
        <3> QED
            BY <3>1, <3>2, <3>3
    <2>5. Writes'
        <3>1. ASSUME NEW m \in i'..Len(sh'.cmds), sh'.cmds[m].cmd \notin Ops \cup {End},
                     m = i' => pc' = "loop"
              PROVE  sh'.cmds[m].write = <<-1, -1>> \/ sh'.cmds[m].write[2] = out'
            <4>1. m # i
                BY <1>1, <3>1
            <4>2. m \in i..Len(sh.cmds) /\ sh.cmds[m].cmd \notin Ops \cup {End} /\ m \in 1..Len(sh.cmds)
                BY <1>6, <3>1
            <4>3. \A k \in DOMAIN <<i>> : <<i>>[k] # m
                BY <4>1
            <4>4. t.cmds[m] = sh.cmds[m]
                BY <1>3, <2>2, <4>2, <4>3, MakePipesIs
            <4> QED
                BY <1>2, <2>1, <4>1, <4>2, <4>4 DEF Straight, Writes
        <3> QED
            BY <3>1 DEF Writes
    <2> QED
        BY <2>3, <2>4, <2>5 DEF Straight
<1>8. CASE sh.cmds[i].write[2] = out
    <2>1. sh' = sh
        BY <1>1, <1>4, <1>8
    <2>2. Strict'
        BY <1>2, <1>6, <2>1 DEF Straight, Strict, Untouched
    <2>3. OutIs'
        BY <1>1, <1>2, <1>8, <2>1 DEF OutIs
    <2>4. Writes'
        BY <1>1, <1>2, <1>6, <2>1 DEF Straight, Writes
    <2> QED
        BY <2>2, <2>3, <2>4 DEF Straight
<1> QED
    BY <1>5, <1>7, <1>8

\* What is closed behind a stage is a field of it; its output goes to the next pipe or
\* to the copy.
LEMMA StraightReap ==
    ASSUME Typing, Typing', Aside, Straight, lines' \in 0..MaxLines, Reap
    PROVE  Straight'
<1>1. /\ pc = "stage" /\ pc' = "copy" /\ i' = i /\ cmd \notin Ops \cup {"cd", End}
      /\ i + 1 \in 1..Len(sh.cmds) /\ Next1 \in Ops \cup {End}
    BY TypeReap
<1>2. PICK s \in Shells :
        /\ SameWords(sh.cmds, s.cmds)
        /\ IF Next1 = End
           THEN /\ s.fd = sh.fd /\ s.pipe = sh.pipe /\ (s.refused <=> sh.refused)
                /\ s.cmds[i + 1].read = <<sh.cmds[i + 1].read[1], out>>
                /\ s.cmds[i + 1].write = sh.cmds[i + 1].write
                /\ \A m \in 1..Len(sh.cmds) : m # i + 1 => s.cmds[m] = sh.cmds[m]
           ELSE s = MakePipes(sh, <<i + 1>>, "read") /\ Targets(sh, <<i + 1>>, "read")
        /\ sh' = Close(s, Own(s))
        /\ sh'.cmds = s.cmds /\ sh'.pipe = s.pipe /\ (sh'.refused <=> s.refused)
        /\ \A n \in Fds : sh'.fd[n] = IF n \in Own(s) THEN Closed ELSE s.fd[n]
    BY TypeReap
<1>3. UNCHANGED <<in, out, before>>
    BY DEF Reap, Drain, locals, history
<1>4. /\ sh \in Shells /\ sh' \in Shells /\ Waiting /\ i \in 1..Len(sh.cmds) /\ Len(sh.cmds) \in Nat
    BY <1>1, TypeUse, TypeNext DEF Typing
<1>5. out \in Fds
    BY ShellAssumption DEF Aside, Fds
<1>6. SameWords(sh.cmds, sh'.cmds)
    BY <1>2
<1>7. /\ FanAhead' => FanAhead
      /\ \A m \in i'..Len(sh'.cmds) :
           m \in i..Len(sh.cmds) /\ m \in 1..Len(sh.cmds) /\ sh'.cmds[m].cmd = sh.cmds[m].cmd
    <2>1. i' \in Int /\ i <= i' /\ Piping
        BY <1>1, <1>4 DEF Piping
    <2> QED
        BY <1>4, <1>6, <2>1, SameAhead
<1>8. i # i + 1
    BY <1>4
<1>9. /\ s.cmds[i] = sh.cmds[i]
      /\ \A m \in 1..Len(sh.cmds) : s.cmds[m].write = sh.cmds[m].write
      /\ sh.fd[out] # Closed => s.fd[out] = sh.fd[out]
    <2>1. CASE Next1 = End
        BY <1>2, <1>4, <1>8, <2>1
    <2>2. CASE Next1 # End
        <3>1. s = MakePipes(sh, <<i + 1>>, "read") /\ Targets(sh, <<i + 1>>, "read")
            BY <1>2, <2>2
        <3>2. /\ \A n \in Fds : sh.fd[n] # Closed => s.fd[n] = sh.fd[n]
              /\ \A n \in 1..Len(sh.cmds) :
                    /\ Rest(s.cmds[n], "read") = Rest(sh.cmds[n], "read")
                    /\ (\A k \in DOMAIN <<i + 1>> : <<i + 1>>[k] # n) => s.cmds[n] = sh.cmds[n]
            BY <1>4, <3>1, MakePipesIs
        <3>3. s.cmds[i] = sh.cmds[i]
            BY <1>4, <1>8, <3>2
        <3> QED
            BY <1>5, <3>2, <3>3 DEF Rest
    <2> QED
        BY <2>1, <2>2
<1>10. Strict'
    <2>1. ASSUME FanAhead'
          PROVE  Untouched'
        <3>1. Untouched
            BY <1>7, <2>1 DEF Straight, Strict
        <3>2. Next1 # End
            <4>1. PICK m \in i..Len(sh.cmds) : sh.cmds[m].cmd \in DOMAIN Fan
                BY <1>7, <2>1 DEF FanAhead
            <4>2. m # i
                BY <1>1, <4>1, OpsAre DEF cmd
            <4>3. Worded(sh.cmds)
                BY <1>1, TypeUse
            <4>4. m # Len(sh.cmds)
                <5>1. Len(sh.cmds) \in 1..Len(sh.cmds)
                    BY <1>4
                <5>2. sh.cmds[Len(sh.cmds)].cmd = End
                    BY <4>3, <5>1 DEF Worded
                <5>3. End \notin DOMAIN Fan
                    BY OpsAre
                <5> QED
                    BY <4>1, <5>2, <5>3
            <4>5. i + 1 # Len(sh.cmds)
                BY <1>4, <4>1, <4>2, <4>4
            <4> QED
                BY <1>1, <4>3, <4>5 DEF Worded, Next1
        <3>3. s = MakePipes(sh, <<i + 1>>, "read") /\ Targets(sh, <<i + 1>>, "read")
            BY <1>2, <3>2
        <3>4. /\ s.fd[out] = before[1]
              /\ \A n \in 1..Len(sh.cmds) : out \notin Fields(s.cmds[n])
            BY <3>1, <3>3, UntouchedMade
        <3>5. out \notin Own(s)
            BY <1>4, <3>4 DEF Own, Fields
        <3>6. sh'.fd[out] = before[1]
            BY <1>2, <1>5, <3>4, <3>5
        <3>7. \A n \in 1..Len(sh'.cmds) : out \notin Fields(sh'.cmds[n])
            BY <1>2, <1>6, <3>4 DEF SameWords
        <3> QED
            BY <1>3, <3>6, <3>7 DEF Untouched
    <2> QED
        BY <2>1 DEF Strict
<1>11. sh'.fd[out] \in {before[1], Closed} \/ out = sh.cmds[i].write[1]
    <2>1. sh'.fd[out] = IF out \in Own(s) THEN Closed ELSE s.fd[out]
        BY <1>2, <1>5
    <2>2. CASE sh.fd[out] = before[1]
        <3>1. s.fd[out] = before[1]
            BY <1>9, <2>2 DEF Aside
        <3> QED
            BY <2>1, <3>1
    <2>3. CASE out = sh.cmds[i].write[2]
        <3>1. out \in Own(s)
            BY <1>9, <2>3 DEF Own
        <3> QED
            BY <2>1, <3>1
    <2> QED
        BY <1>1, <2>2, <2>3 DEF Straight, OutIs
<1>12. OutIs'
    <2>1. sh'.cmds[i] = sh.cmds[i]
        BY <1>2, <1>9
    <2>2. cmd' = cmd /\ cmd # ";"
        BY <1>1, <2>1, OpsAre DEF cmd
    <2>3. Source(sh)' = sh.cmds[i].write[1]
        BY <1>1, <2>1 DEF Source, cmd
    <2> QED
        BY <1>1, <1>3, <1>11, <2>2, <2>3 DEF OutIs
<1>13. Writes'
    <2>1. ASSUME NEW m \in i'..Len(sh'.cmds), sh'.cmds[m].cmd \notin Ops \cup {End},
                 m = i' => pc' = "loop"
          PROVE  sh'.cmds[m].write = <<-1, -1>> \/ sh'.cmds[m].write[2] = out'
        <3>1. m # i
            BY <1>1, <2>1
        <3>2. m \in i..Len(sh.cmds) /\ sh.cmds[m].cmd \notin Ops \cup {End} /\ m \in 1..Len(sh.cmds)
            BY <1>7, <2>1
        <3>3. sh'.cmds[m].write = sh.cmds[m].write
            BY <1>2, <1>9, <3>2
        <3> QED
            BY <1>3, <3>1, <3>2, <3>3 DEF Straight, Writes
    <2> QED
        BY <2>1 DEF Writes
<1> QED
    BY <1>10, <1>12, <1>13 DEF Straight

\* The copy is closed at most behind the last operator.
LEMMA StraightCopyEnd ==
    ASSUME Typing, Typing', Aside, Straight, LastFork, lines' \in 0..MaxLines, CopyEnd
    PROVE  Straight'
<1>1. /\ pc = "copy" /\ pc' = "loop" /\ cmd \notin {",", "cd", End} /\ i < Len(sh.cmds)
      /\ i' = IF cmd = ";" THEN Len(sh.cmds) ELSE i + 1
      /\ SameWords(sh.cmds, sh'.cmds)
      /\ \A n \in Fds : sh'.fd[n] =
           IF cmd # ";" /\ n \in {Source(sh)} \cup Sinks(sh) THEN Closed ELSE sh.fd[n]
      /\ \A n \in 1..Len(sh.cmds) :
           /\ sh'.cmds[n].read = sh.cmds[n].read
           /\ sh'.cmds[n].write = IF cmd \in {"||", "|||"} /\ n \in Heads
                                  THEN <<sh.cmds[n].write[1], out>> ELSE sh.cmds[n].write
    BY TypeCopyEnd
<1>2. UNCHANGED <<in, out, before>>
    BY DEF CopyEnd, history
<1>3. /\ sh \in Shells /\ sh' \in Shells /\ i \in 1..Len(sh.cmds) /\ Len(sh.cmds) \in Nat
    BY <1>1, TypeUse, TypeNext DEF Typing
<1>4. out \in Fds
    BY ShellAssumption DEF Aside, Fds
<1>5. i' \in Int /\ i < i' /\ i <= i' /\ Piping
    <2>1. i' = Len(sh.cmds) \/ i' = i + 1
        BY <1>1
    <2>2. i < Len(sh.cmds)
        BY <1>1
    <2>3. i' \in Int /\ i < i' /\ i <= i'
        BY <1>3, <2>1, <2>2
    <2> QED
        BY <1>1, <2>3 DEF Piping
<1>6. /\ FanAhead' => FanAhead
      /\ \A m \in i'..Len(sh'.cmds) :
           m \in i..Len(sh.cmds) /\ m \in 1..Len(sh.cmds) /\ sh'.cmds[m].cmd = sh.cmds[m].cmd
    BY <1>1, <1>3, <1>5, SameAhead
<1>7. Strict'
    <2>1. ASSUME FanAhead'
          PROVE  Untouched'
        <3>1. Untouched
            BY <1>6, <2>1 DEF Straight, Strict
        <3>2. cmd \notin {"||", "|||"}
            <4>1. PICK m \in i'..Len(sh'.cmds) : sh'.cmds[m].cmd \in DOMAIN Fan
                BY <2>1 DEF FanAhead
            <4>2. m \in 1..Len(sh.cmds) /\ sh.cmds[m].cmd \in DOMAIN Fan /\ m \in i'..Len(sh'.cmds)
                BY <1>6, <4>1
            <4>3. ~(m <= i)
                BY <1>3, <1>5, <4>2
            <4>4. DOMAIN sh.cmds = 1..Len(sh.cmds)
                BY <1>3, CmdsIs
            <4> QED
                BY <1>3, <4>2, <4>3, <4>4 DEF LastFork, cmd
        <3>3. \A n \in 1..Len(sh.cmds) : out \notin Fields(sh'.cmds[n])
            BY <1>1, <3>1, <3>2 DEF Untouched, Fields
        <3>4. cmd # ";" => out \notin {Source(sh)} \cup Sinks(sh)
            BY <1>1, <3>1, SinksAre DEF Untouched
        <3>5. sh'.fd[out] = before[1]
            BY <1>1, <1>4, <3>1, <3>4 DEF Untouched
        <3> QED
            BY <1>1, <1>2, <3>3, <3>5 DEF Untouched, SameWords
    <2> QED
        BY <2>1 DEF Strict
<1>8. OutIs'
    <2>1. sh'.fd[out] = IF cmd # ";" /\ out \in {Source(sh)} \cup Sinks(sh) THEN Closed
                        ELSE sh.fd[out]
        BY <1>1, <1>4
    <2>2. \/ sh.fd[out] \in {before[1], Closed}
          \/ cmd # ";" /\ out \in {Source(sh)} \cup Sinks(sh)
        BY <1>1 DEF Straight, OutIs
    <2>3. sh'.fd[out] \in {before[1], Closed}
        BY <2>1, <2>2
    <2> QED
        BY <1>1, <1>2, <2>3 DEF OutIs
<1>9. Writes'
    <2>1. ASSUME NEW m \in i'..Len(sh'.cmds), sh'.cmds[m].cmd \notin Ops \cup {End}
          PROVE  sh'.cmds[m].write = <<-1, -1>> \/ sh'.cmds[m].write[2] = out'
        <3>1. m # i
            BY <1>3, <1>5, <2>1
        <3>2. m \in i..Len(sh.cmds) /\ sh.cmds[m].cmd \notin Ops \cup {End} /\ m \in 1..Len(sh.cmds)
            BY <1>6, <2>1
        <3>3. sh.cmds[m].write = <<-1, -1>> \/ sh.cmds[m].write[2] = out
            BY <3>1, <3>2 DEF Straight, Writes
        <3>4. sh'.cmds[m].write \in {<<sh.cmds[m].write[1], out>>, sh.cmds[m].write}
            BY <1>1, <3>2
        <3> QED
            BY <1>2, <3>3, <3>4
    <2> QED
        BY <2>1 DEF Writes
<1> QED
    BY <1>7, <1>8, <1>9 DEF Straight

\* The copy is made when the line is entered.
LEMMA StraightEnter ==
    ASSUME Typing, Aside', NEW typed \in Lines, Enter(typed), pc' = "loop"
    PROVE  Straight'
<1>1. /\ before' = sh.fd
      /\ \A n \in 1..Len(sh'.cmds) :
           /\ sh'.cmds[n].write \in {<<-1, -1>>, <<0, 0>>}
           /\ sh'.cmds[n].read \in {<<-1, -1>>, <<0, 0>>, <<0, -1>>}
           /\ sh'.cmds[n].cmd \notin Ops \cup {End} => sh'.cmds[n].write = <<-1, -1>>
      /\ \A n \in Fds : sh'.fd[n] = IF n = in' THEN Keyboard
                                    ELSE IF n = out' THEN sh.fd[1] ELSE sh.fd[n]
      /\ i' = 1
    BY EnterIs
<1>2. out' \in Fds /\ out' # -1 /\ out' # 0 /\ out' # in'
    <2>1. in' \in 2..(NumFds - 1) /\ out' \in (in' + 1)..(NumFds - 1)
        BY DEF Aside
    <2> DEFINE a == in'
               b == out'
    <2> HIDE DEF a, b
    <2>2. a \in 2..(NumFds - 1) /\ b \in (a + 1)..(NumFds - 1) /\ NumFds \in Nat
        BY <2>1, ShellAssumption DEF a, b
    <2>3. b \in Fds /\ b # -1 /\ b # 0 /\ b # a
        BY <2>2 DEF Fds
    <2> QED
        BY <2>3 DEF a, b
<1>3. sh'.fd[out'] = before'[1]
    BY <1>1, <1>2
<1>4. \A n \in 1..Len(sh'.cmds) : out' \notin Fields(sh'.cmds[n])
    BY <1>1, <1>2 DEF Fields
<1>5. Strict'
    BY <1>3, <1>4 DEF Strict, Untouched
<1>6. OutIs'
    BY <1>3 DEF OutIs
<1>7. Writes'
    BY <1>1 DEF Writes
<1> QED
    BY <1>5, <1>6, <1>7 DEF Straight

\* On a line of the guide, the copy of the output is where it was put until the
\* last operator that makes pipes, and behind it is never lost for a pipe.
Straightened == Piping /\ ~sh.refused /\ LastFork => Straight

\* All steps of a pipeline keep it so.
LEMMA StraightStep ==
    ASSUME Typing, Typing', Outs, Held, Held', Straightened, [Next]_vars
    PROVE  Straightened'
<1> SUFFICES ASSUME Piping', ~sh'.refused, LastFork'
             PROVE  Straight'
    BY DEF Straightened
<1>1. Aside' /\ pc' # "redirect" /\ pc' # "single"
    BY DEF Held, Busy, Piping
<1>2. ASSUME NEW typed \in Lines, Enter(typed)
      PROVE  Straight'
    <2>1. pc' = "loop"
        BY <1>1, <1>2, EnterIs
    <2> QED
        BY <1>1, <1>2, <2>1, StraightEnter
<1>3. CASE Complete \/ Finish \/ ReapSingle \/ Nest \/ Exit \/ InputLost \/ Single
    <2>1. pc' \in {"prompt", "gone", "spin", "single"}
        BY <1>3, TypeComplete DEF Finish, ReapSingle, Nest, Exit, InputLost, Quit, Return, Single
    <2> QED
        BY <2>1 DEF Piping
<1>4. CASE Redirect
    <2>1. pc = "redirect" /\ pc' \in {pc, "prompt", "gone"}
        BY <1>4, RedirectIs DEF Return, Quit
    <2> QED
        BY <2>1 DEF Piping
<1>5. ASSUME lines' \in 0..MaxLines, Piped
      PROVE  Straight'
    <2>1. Moves
        BY <1>5, PipedMoves
    <2>2. Piping
        <3>1. CASE CopyBlock \/ Child \/ Interrupt
            <4>1. pc' = pc
                BY <3>1 DEF CopyBlock, Child, ChildRead, ChildEof, ChildWrite, Interrupt
            <4> QED
                BY <4>1 DEF Piping
        <3>2. CASE ~(CopyBlock \/ Child \/ Interrupt)
            BY <1>5, <3>2 DEF Piping, Piped, Feed, Semicolon, Skip, Fork, Reap, CopyEnd
        <3> QED
            BY <3>1, <3>2
    <2>3. LastFork /\ ~sh.refused
        <3>1. sh \in Shells /\ sh' \in Shells /\ i \in 1..Len(sh.cmds)
            BY <2>2, TypeUse, TypeNext DEF Typing, Piping
        <3>2. DOMAIN sh.cmds = 1..Len(sh.cmds)
            BY <3>1, CmdsIs
        <3>3. DOMAIN sh'.cmds = 1..Len(sh'.cmds)
            <4>1. PICK t \in Shells : t = sh'
                BY <3>1
            <4>2. DOMAIN t.cmds = 1..Len(t.cmds)
                BY CmdsIs
            <4> QED
                BY <4>1, <4>2
        <3>4. Len(sh'.cmds) = Len(sh.cmds)
              /\ \A n \in 1..Len(sh.cmds) : sh'.cmds[n].cmd = sh.cmds[n].cmd
            BY <2>1 DEF Moves, SameWords
        <3> QED
            BY <2>1, <3>2, <3>3, <3>4 DEF LastFork, Moves
    <2>4. Straight /\ Aside
        BY <2>2, <2>3 DEF Straightened, Held, Busy, Piping
    <2>5. CASE Feed
        BY <1>5, <2>4, <2>5, StraightFeed
    <2>6. CASE Semicolon \/ Skip \/ CopyBlock \/ Child \/ Interrupt
        BY <1>5, <2>2, <2>4, <2>6, StraightQuiet
    <2>7. CASE Fork
        BY <1>5, <2>4, <2>7, StraightFork
    <2>8. CASE Reap
        BY <1>5, <2>4, <2>8, StraightReap
    <2>9. CASE CopyEnd
        BY <1>5, <2>3, <2>4, <2>9, StraightCopyEnd
    <2> QED
        BY <1>5, <2>5, <2>6, <2>7, <2>8, <2>9 DEF Piped
<1>6. CASE UNCHANGED vars
    <2>1. UNCHANGED <<pc, sh, i, out, before>>
        BY <1>6 DEF vars, locals, history
    <2>2. LastFork' <=> LastFork
        BY <2>1 DEF LastFork
    <2>3. Piping /\ ~sh.refused
        BY <2>1 DEF Piping
    <2>4. Straight
        BY <2>2, <2>3 DEF Straightened
    <2>5. cmd' = cmd /\ Source(sh)' = Source(sh)
        BY <2>1 DEF cmd, Source
    <2>6. Sinks(sh)' = Sinks(sh)
        BY <2>1, <2>5 DEF Sinks, Heads
    <2>7. Strict' /\ Writes'
        BY <2>1, <2>4 DEF Straight, Strict, Untouched, FanAhead, Writes
    <2>8. OutIs'
        BY <2>1, <2>4, <2>5, <2>6 DEF Straight, OutIs
    <2> QED
        BY <2>7, <2>8 DEF Straight
<1>7. ASSUME (Work \/ Child \/ InputLost \/ Exit \/ Interrupt) /\ UNCHANGED lines
      PROVE  Straight'
    <2>1. lines' \in 0..MaxLines
        BY <1>7, TypeIs DEF Typing
    <2> QED
        BY <1>7, <2>1, <1>3, <1>4, <1>5 DEF Work, Piped
<1> QED
    BY <1>2, <1>3, <1>6, <1>7 DEF Next

\* What the input and output of the shell depend on.
Guarded == Typing /\ Outs /\ Held /\ Kept /\ Straightened

\* All of this holds always.
LEMMA GuardedAlways == Spec => []Guarded
<1>1. Init => Guarded
    <2> SUFFICES ASSUME Init
                 PROVE  Guarded
        OBVIOUS
    <2>1. pc = "prompt"
        BY DEF Init
    <2> QED
        BY <2>1, TypeInit, OutsInit DEF Guarded, Held, Busy, Kept, Straightened, Piping
<1>2. Guarded /\ [Next]_vars => Guarded'
    <2> SUFFICES ASSUME Guarded, [Next]_vars
                 PROVE  Guarded'
        OBVIOUS
    <2>1. Typing' /\ Outs'
        BY TypeStep, OutsStep DEF Guarded
    <2>2. Held'
        BY HeldStep DEF Guarded
    <2>3. Kept' /\ Straightened'
        BY <2>1, <2>2, KeptStep, StraightStep DEF Guarded
    <2> QED
        BY <2>1, <2>2, <2>3 DEF Guarded
<1> QED
    BY <1>1, <1>2, PTL DEF Spec

\* dup2 of the copies gives what was copied.
LEMMA Restored ==
    ASSUME Typing, Aside, sh.fd[out] \in {before[1], Closed},
           NEW t, t = Restore(sh)
    PROVE  t.fd[0] = before[0] /\ t.fd[1] = before[1]
<1>1. sh \in Shells
    BY TypeUse
<1>2. in \in Fds /\ out \in Fds /\ sh.fd[in] = Keyboard /\ before[0] = Keyboard
      /\ sh.fd[1] = before[1]
    BY ShellAssumption DEF Aside, Fds
<1>3. t.fd[0] = FileAt(sh, in, 0) /\ t.fd[1] = FileAt(sh, out, 1)
    BY <1>1, RestoreIs
<1>4. FileAt(sh, in, 0) = Keyboard
    BY <1>2 DEF FileAt, Keyboard, Closed
<1>5. FileAt(sh, out, 1) = before[1]
    BY <1>2 DEF FileAt
<1> QED
    BY <1>2, <1>3, <1>4, <1>5

\* A step that ends a line which has not left its shell.
LEMMA TerminalStep ==
    ASSUME Guarded, [Next]_vars, pc # "prompt", pc' = "prompt", nest' = nest,
           LastFork, ~sh.refused
    PROVE  sh'.fd[0] = before[0] /\ sh'.fd[1] = before[1]
<1>1. sh \in Shells /\ Filled(sh) /\ Waiting
    BY TypeUse DEF Guarded
<1>2. CASE Finish \/ ReapSingle
    <2>1. /\ Return(Restore(sh)) /\ pc \in {"loop", "single"}
        BY <1>2 DEF Finish, ReapSingle
    <2>2. Aside
        BY <2>1 DEF Guarded, Held, Busy
    <2>3. sh.fd[out] \in {before[1], Closed}
        <3>1. CASE pc = "single"
            BY <3>1 DEF Guarded, Kept
        <3>2. CASE pc = "loop"
            BY <3>2 DEF Guarded, Straightened, Piping, Straight, OutIs
        <3> QED
            BY <2>1, <3>1, <3>2
    <2>4. PICK s : s = Restore(sh)
        OBVIOUS
    <2>5. s.fd[0] = before[0] /\ s.fd[1] = before[1]
        BY <2>2, <2>3, <2>4, Restored DEF Guarded
    <2>6. s \in Shells /\ s.pipe = sh.pipe
        BY <1>1, <2>4, RestoreIs
    <2>7. Return(s) /\ Filled(s)
        BY <1>1, <2>1, <2>4, <2>6 DEF Filled
    <2>8. sh'.fd = s.fd
        BY <2>6, <2>7, ReturnIs
    <2> QED
        BY <2>5, <2>8
<1>3. ASSUME Quit
      PROVE  FALSE
    <2>1. nest # << >> /\ nest' = Front(nest)
        BY <1>3 DEF Quit
    <2>2. Len(Front(nest)) = Len(nest) - 1 /\ Len(nest) \in Nat
        BY <1>1, <2>1, FrontLast
    <2>3. Len(Front(nest)) # Len(nest)
        BY <2>2
    <2> QED
        BY <2>1, <2>3
<1>4. CASE Redirect
    <2>1. pc = "redirect"
        BY <1>4, RedirectIs DEF Guarded
    <2>2. sh.fd[0] = before[0] /\ sh.fd[1] = before[1]
        BY <2>1 DEF Guarded, Kept, Held, Busy, Aside
    <2>3. CASE Return(sh)
        BY <1>1, <2>2, <2>3, ReturnIs
    <2>4. CASE UNCHANGED <<pc, line, in, out, child, nest>>
        BY <2>4
    <2> QED
        BY <1>3, <1>4, <2>3, <2>4, RedirectIs DEF Guarded
<1>5. CASE Nest
    <2>1. nest' = Append(nest, sh.fd)
        BY <1>5, NestIs DEF Guarded
    <2> DEFINE T == [Fds -> File]
    <2>2. nest \in Seq(T) /\ sh.fd \in T
        BY <1>1, ShellIs DEF Waiting
    <2> HIDE DEF T
    <2>3. Len(nest') = Len(nest) + 1 /\ Len(nest) \in Nat
        BY <2>1, <2>2, AppendProperties, LenProperties
    <2>4. Len(nest') # Len(nest)
        BY <2>3
    <2> QED
        BY <2>4
<1>6. CASE Exit
    BY <1>6 DEF Exit
<1>7. CASE Feed \/ Semicolon \/ Skip \/ Fork \/ Reap \/ CopyEnd \/ Single \/ InputLost
    <2>1. pc' # "prompt"
        BY <1>7 DEF Feed, Semicolon, Skip, Fork, Reap, Drain, CopyEnd, Goto, Single, InputLost
    <2> QED
        BY <2>1
<1>8. CASE CopyBlock \/ Child \/ Interrupt \/ UNCHANGED vars
    <2>1. pc' = pc
        BY <1>8 DEF CopyBlock, Child, ChildRead, ChildEof, ChildWrite, Interrupt, vars
    <2> QED
        BY <2>1
<1>9. CASE Complete \/ \E typed \in Lines : Enter(typed)
    BY <1>9 DEF Complete, Enter, Type
<1> QED
    BY <1>2, <1>4, <1>5, <1>6, <1>7, <1>8, <1>9 DEF Next, Work

\* Behind a line in which || and ||| come last, the prompt has the input and the
\* output that it had before the line, although the copies of them may have been
\* closed, and their numbers used for pipes, on the way.
THEOREM TerminalKept == Spec => KeepsTerminal
<1>1. Guarded /\ [Next]_vars =>
        [pc # "prompt" /\ pc' = "prompt" /\ nest' = nest /\ LastFork /\ ~sh.refused
            => sh'.fd[0] = before[0] /\ sh'.fd[1] = before[1]]_vars
    BY TerminalStep
<1> QED
    BY <1>1, GuardedAlways, PTL DEF Spec, KeepsTerminal

-----------------------------------------------------------------------------
(* The copy loop, on lines of the guide. *)

\* Whether a pipe has no write end, or no other than w.
Outside(p) == \A k \in DOMAIN nest : \A n \in Fds : nest[k][n] # WriteEnd(p)
Dry(s, p) == Outside(p) /\ \A n \in Fds : s.fd[n] # WriteEnd(p)
Sole(s, p, w) == Outside(p) /\ \A n \in Fds : s.fd[n] = WriteEnd(p) => n = w

Open1(s, r) == r \in Fds /\ s.fd[r] # Closed
Severed(s, r) == \A p \in Pipes : r \in Fds /\ s.fd[r] = ReadEnd(p) => Dry(s, p)

Word(c) == c.cmd \notin Ops \cup {"cd", End}
Good == LastFork /\ Joined /\ ~sh.refused /\ before[1] \in {Screen, Disk}

\* An operator is reached with the pipe in front of it: it is open, and what the
\* stage wrote has been copied into it and its write end closed.  A stage is
\* reached with the pipe that it reads, or with the output to write to.
AtLoop ==
    LET c == sh.cmds[i]
    IN /\ cmd \in DOMAIN Fan /\ i > 1 => Open1(sh, c.read[1])
       /\ cmd \in DOMAIN Fan \cup {";"} /\ i > 1 => Severed(sh, c.read[1])
       /\ Word(c) => \/ c.write = <<-1, out>>
                     \/ c.write = <<-1, -1>> /\ (c.read[1] = -1 \/ Open1(sh, c.read[1]))

\* The stages that are still to come have no pipes, but may have been given the
\* output.
ToCome ==
    \A m \in 1..Len(sh.cmds) : m > i /\ Word(sh.cmds[m]) =>
        /\ sh.cmds[m].write \in {<<-1, -1>>, <<-1, out>>}
        /\ \/ pc = "copy" /\ cmd \in DOMAIN Fan /\ m \in Heads
           \/ sh.cmds[m].read[1] = -1
           \/ sh.cmds[m].write[2] = out

\* The shell holds both ends of the pipe that a stage writes into, and of the
\* write end there is no copy.
AtStage ==
    LET c == sh.cmds[i]
    IN \/ c.write = <<-1, out>>
       \/ /\ \E p \in Pipes : /\ c.write[1] \in Fds /\ sh.fd[c.write[1]] = ReadEnd(p)
                              /\ c.write[2] \in Fds /\ sh.fd[c.write[2]] = WriteEnd(p)
                              /\ Sole(sh, p, c.write[2])
          /\ c.read[1] = -1 \/ Open1(sh, c.read[1])

\* What is read in the copy loop has no writer any more; what is written has a
\* reader, and room for what is left to copy.  The pipe of the next operator, or
\* of the one stage behind "|", is not closed with them.
AtCopy ==
    LET r == sh.cmds[i + 1].read[1]
        w == sh.cmds[i + 1].read[2]
    IN /\ \A p \in Pipes : SourceFile = ReadEnd(p) => Dry(sh, p)
       /\ \A p, q \in Pipes : SourceFile = ReadEnd(p) /\ WriteEnd(q) \in SinkFiles =>
             /\ \E n \in Fds : sh.fd[n] = ReadEnd(q)
             /\ Len(sh.pipe[p]) + Len(sh.pipe[q]) <= PipeCap
       /\ Word(sh.cmds[i]) /\ Next1 \in DOMAIN Fan \cup {";"} =>
             \A q \in Pipes : r \in Fds /\ sh.fd[r] = ReadEnd(q) => Sole(sh, q, w)
       /\ (Word(sh.cmds[i]) /\ Next1 \in DOMAIN Fan) \/ cmd = "|" =>
             Open1(sh, r) /\ r \notin {Source(sh)} \cup Sinks(sh)

Flows ==
    /\ pc = "loop" => AtLoop
    /\ pc = "stage" => AtStage
    /\ pc = "copy" => AtCopy
    /\ ToCome

Flowing == Piping /\ Good => Flows

\* What HasEnd says of the write end of a pipe.
LEMMA DryIs ==
    ASSUME Waiting, NEW s \in Shells, NEW p
    PROVE  Dry(s, p) <=> ~HasEnd(s, WriteEnd(p))
    BY HasEndIs DEF Dry, Outside

\* Nobody has an end of an unused pipe.
LEMMA UnusedIs ==
    ASSUME Waiting, NEW s \in Shells, NEW q \in Unused(s)
    PROVE  Dry(s, q) /\ \A n \in Fds : s.fd[n] # ReadEnd(q)
<1>1. ~HasEnd(s, ReadEnd(q)) /\ ~HasEnd(s, WriteEnd(q))
    BY DEF Unused
<1> QED
    BY <1>1, DryIs, HasEndIs

\* Making pipes gives no write end to a pipe that is read.
LEMMA DryMade ==
    ASSUME Waiting, NEW s \in Shells, NEW js, NEW that, Targets(s, js, that),
           NEW t, t = MakePipes(s, js, that),
           NEW p, NEW n0 \in Fds, s.fd[n0] = ReadEnd(p)
    PROVE  /\ Dry(s, p) => Dry(t, p)
           /\ \A w : Sole(s, p, w) => Sole(t, p, w)
<1>1. ASSUME NEW n \in Fds, t.fd[n] = WriteEnd(p)
      PROVE  s.fd[n] = WriteEnd(p)
    <2>1. \/ t.fd[n] = s.fd[n]
          \/ \E q \in Unused(s) : t.fd[n] \in {ReadEnd(q), WriteEnd(q)}
        BY MakePipesOld
    <2>2. \A q \in Unused(s) : q # p
        BY UnusedIs
    <2>3. \A q \in Unused(s) : WriteEnd(p) \notin {ReadEnd(q), WriteEnd(q)}
        BY <2>2, EndsDiffer
    <2> QED
        BY <1>1, <2>1, <2>3
<1> QED
    BY <1>1 DEF Dry, Sole

\* The ends of a new pipe.
LEMMA FreshIs ==
    ASSUME Waiting, NEW s \in Shells, NEW t, NEW r, NEW w, Fresh(s, t, r, w)
    PROVE  /\ r \in Fds /\ w \in Fds /\ r # w /\ s.fd[r] = Closed /\ s.fd[w] = Closed
           /\ \E q \in Pipes : /\ t.fd[r] = ReadEnd(q) /\ t.fd[w] = WriteEnd(q)
                               /\ t.pipe[q] = << >> /\ Sole(t, q, w)
<1>1. r \in Free(s) /\ w \in Free(s) /\ r # w
    BY DEF Fresh
<1>2. PICK q \in Unused(s) : /\ t.fd[r] = ReadEnd(q) /\ t.fd[w] = WriteEnd(q)
                             /\ t.pipe[q] = << >>
                             /\ \A n \in Fds : t.fd[n] = WriteEnd(q) => n = w
    BY DEF Fresh
<1>3. q \in Pipes /\ Outside(q)
    BY UnusedIs DEF Unused, Dry
<1> QED
    BY <1>1, <1>2, <1>3 DEF Free, Sole

\* Neither does closing.
LEMMA DryClosed ==
    ASSUME NEW s, NEW t, \A n \in Fds : t.fd[n] \in {Closed, s.fd[n]}, NEW p
    PROVE  /\ Dry(s, p) => Dry(t, p)
           /\ \A w : Sole(s, p, w) => Sole(t, p, w)
           /\ \A w \in Fds : Sole(s, p, w) /\ t.fd[w] = Closed => Dry(t, p)
<1>1. \A n \in Fds : t.fd[n] = WriteEnd(p) => s.fd[n] = WriteEnd(p)
    BY EndsDiffer
<1>2. Closed # WriteEnd(p)
    BY EndsDiffer
<1> QED
    BY <1>1, <1>2 DEF Dry, Sole

\* A line of the guide is one from its start to its end.
LEMMA GoodMoves ==
    ASSUME Typing, sh' \in Shells, Moves, Good'
    PROVE  Good
<1>1. sh \in Shells
    BY TypeUse
<1>2. PICK t \in Shells : t = sh'
    OBVIOUS
<1>3. DOMAIN sh.cmds = 1..Len(sh.cmds) /\ DOMAIN t.cmds = 1..Len(t.cmds) /\ Len(sh.cmds) \in Nat
    BY <1>1, CmdsIs
<1>4. Len(t.cmds) = Len(sh.cmds)
      /\ \A n \in 1..Len(sh.cmds) : t.cmds[n].cmd = sh.cmds[n].cmd
    BY <1>2 DEF Moves, SameWords
<1>5. LastFork
    BY <1>2, <1>3, <1>4 DEF Good, LastFork
<1>6. Joined
    <2>1. ASSUME NEW n \in 1..Len(sh.cmds), sh.cmds[n].cmd \in DOMAIN Fan \cup {";"}
          PROVE  n > 1 /\ sh.cmds[n - 1].cmd \notin Ops \cup {"cd"}
        <3>1. n > 1 /\ t.cmds[n - 1].cmd \notin Ops \cup {"cd"}
            BY <1>2, <1>3, <1>4, <2>1 DEF Good, Joined
        <3>2. n - 1 \in 1..Len(sh.cmds)
            BY <1>3, <3>1
        <3> QED
            BY <1>4, <3>1, <3>2
    <2> QED
        BY <1>3, <2>1 DEF Joined
<1> QED
    BY <1>5, <1>6 DEF Good, Moves

\* The copy loop looks at the descriptors and the commands.
LEMMA SameCopy ==
    ASSUME sh'.fd = sh.fd, sh'.cmds = sh.cmds, i' = i, out' = out
    PROVE  /\ cmd' = cmd /\ Next1' = Next1 /\ Heads' = Heads
           /\ Source(sh)' = Source(sh) /\ Sinks(sh)' = Sinks(sh)
           /\ SourceFile' = SourceFile /\ SinkFiles' = SinkFiles
<1>1. cmd' = cmd /\ Next1' = Next1
    BY DEF cmd, Next1
<1>2. Heads' = Heads
    BY <1>1 DEF Heads
<1>3. Source(sh)' = Source(sh)
    BY DEF Source
<1>4. Sinks(sh)' = Sinks(sh)
    BY <1>1, <1>2 DEF Sinks
<1>5. SourceFile' = SourceFile /\ SinkFiles' = SinkFiles
    BY <1>3, <1>4 DEF SourceFile, SinkFiles
<1> QED
    BY <1>1, <1>2, <1>3, <1>4, <1>5

\* The first command has no pipe in front of it.
LEMMA FlowsEnter ==
    ASSUME Typing, Aside', NEW typed \in Lines, Enter(typed), pc' = "loop"
    PROVE  Flows'
<1>1. /\ sh.fd[0] = Keyboard
      /\ Worded(sh'.cmds) /\ i' = 1
      /\ \A n \in 1..Len(sh'.cmds) :
           /\ sh'.cmds[n].read \in {<<-1, -1>>, <<0, 0>>, <<0, -1>>}
           /\ sh'.cmds[n].cmd \notin Ops \cup {End} =>
                /\ sh'.cmds[n].write = <<-1, -1>>
                /\ n > 1 => sh'.cmds[n].read = <<-1, -1>>
      /\ \A n \in Fds : sh'.fd[n] = IF n = in' THEN Keyboard
                                    ELSE IF n = out' THEN sh.fd[1] ELSE sh.fd[n]
    BY EnterIs
<1>2. 1 \in 1..Len(sh'.cmds)
    BY <1>1 DEF Worded
<1>3. Open1(sh', 0)
    <2>1. 0 \in Fds
        BY Std
    <2>2. 0 # in' /\ 0 # out'
        <3>1. in' \in 2..(NumFds - 1) /\ out' \in (in' + 1)..(NumFds - 1)
            BY DEF Aside
        <3> DEFINE a == in'
                   b == out'
        <3> HIDE DEF a, b
        <3>2. a \in 2..(NumFds - 1) /\ b \in (a + 1)..(NumFds - 1) /\ NumFds \in Nat
            BY <3>1, ShellAssumption DEF a, b
        <3>3. 0 # a /\ 0 # b
            BY <3>2
        <3> QED
            BY <3>3 DEF a, b
    <2>3. sh'.fd[0] = Keyboard
        BY <1>1, <2>1, <2>2
    <2> QED
        BY <2>1, <2>3 DEF Open1, Keyboard, Closed
<1>4. AtLoop'
    <2>1. sh'.cmds[1].read[1] \in {-1, 0}
        BY <1>1, <1>2
    <2>2. Word(sh'.cmds[1]) => sh'.cmds[1].write = <<-1, -1>>
        BY <1>1, <1>2 DEF Word
    <2> QED
        BY <1>1, <1>3, <2>1, <2>2 DEF AtLoop
<1>5. ToCome'
    BY <1>1 DEF ToCome, Word
<1> QED
    BY <1>4, <1>5 DEF Flows

\* What an operator that feeds stages does.
LEMMA FeedIs ==
    ASSUME Typing, lines' \in 0..MaxLines, Feed, Fed, ~sh'.refused, NEW t, t = sh'
    PROVE  /\ t \in Shells /\ Filled(t) /\ Len(t.cmds) = Len(sh.cmds)
           /\ \A n \in Fds : sh.fd[n] # Closed => t.fd[n] = sh.fd[n]
           /\ \A p \in Pipes : \A n \in Fds : sh.fd[n] = ReadEnd(p) /\ Dry(sh, p) => Dry(t, p)
           /\ \A m \in 1..Len(sh.cmds) :
                /\ t.cmds[m].cmd = sh.cmds[m].cmd /\ t.cmds[m].write = sh.cmds[m].write
                /\ m \notin Heads => t.cmds[m] = sh.cmds[m]
                /\ m \in Heads => \E r, w \in Free(sh) :
                     t.cmds[m].read = <<r, w>> /\ Fresh(sh, t, r, w)
<1> DEFINE js == [k \in 1..Fan[cmd] |-> i + 2 * k - 1]
<1>1. pc = "loop" /\ cmd \in DOMAIN Fan
    BY DEF Feed
<1>2. sh \in Shells /\ Waiting /\ i \in 1..Len(sh.cmds) /\ Filled(sh)
    BY <1>1, TypeUse
<1>3. t = MakePipes(sh, js, "read") /\ Targets(sh, js, "read")
    BY TypeFeed
<1>4. \A m : m \in Heads <=> \E k \in DOMAIN js : js[k] = m
    <2>1. \A m : m \in Heads <=> \E k \in 1..Fan[cmd] : m = i + 2 * k - 1
        BY <1>1, <1>2, HeadsAre
    <2>2. DOMAIN js = 1..Fan[cmd] /\ \A k \in 1..Fan[cmd] : js[k] = i + 2 * k - 1
        OBVIOUS
    <2> QED
        BY <2>1, <2>2
<1> HIDE DEF js
<1>5. /\ t \in Shells /\ Len(t.cmds) = Len(sh.cmds)
      /\ \A n \in Fds : sh.fd[n] # Closed => t.fd[n] = sh.fd[n]
      /\ \A m \in 1..Len(sh.cmds) :
           /\ t.cmds[m].cmd = sh.cmds[m].cmd
           /\ Rest(t.cmds[m], "read") = Rest(sh.cmds[m], "read")
           /\ (\A k \in DOMAIN js : js[k] # m) => t.cmds[m] = sh.cmds[m]
    BY <1>2, <1>3, MakePipesIs
<1>6. \A k \in DOMAIN js : \E r, w \in Free(sh) :
          Pair(t.cmds[js[k]], "read") = <<r, w>> /\ Fresh(sh, t, r, w)
    BY <1>2, <1>3, MakePipesIs
<1>7. Filled(t)
    BY <1>2, <1>3, MakePipesTypes
<1>8. \A p \in Pipes : \A n \in Fds : sh.fd[n] = ReadEnd(p) /\ Dry(sh, p) => Dry(t, p)
    BY <1>2, <1>3, DryMade
<1>9. ASSUME NEW m \in Heads
      PROVE  \E r, w \in Free(sh) : t.cmds[m].read = <<r, w>> /\ Fresh(sh, t, r, w)
    <2>1. PICK k \in DOMAIN js : js[k] = m
        BY <1>4
    <2>2. \E r, w \in Free(sh) : Pair(t.cmds[m], "read") = <<r, w>> /\ Fresh(sh, t, r, w)
        BY <1>6, <2>1
    <2> QED
        BY <2>2 DEF Pair
<1>10. \A m \in 1..Len(sh.cmds) : t.cmds[m].write = sh.cmds[m].write
    BY <1>5 DEF Rest
<1>11. \A m \in 1..Len(sh.cmds) : m \notin Heads => t.cmds[m] = sh.cmds[m]
    BY <1>4, <1>5
<1> QED
    BY <1>5, <1>7, <1>8, <1>9, <1>10, <1>11

\* An operator reads the pipe in front of it and writes into new ones.
LEMMA FlowsFeed ==
    ASSUME Typing, Typing', Flows, lines' \in 0..MaxLines, Feed, ~sh'.refused
    PROVE  Flows'
<1>1. /\ pc = "loop" /\ cmd \in DOMAIN Fan /\ UNCHANGED <<in, out, nest, before>>
    BY DEF Feed, history
<1>2. /\ sh \in Shells /\ Waiting /\ i \in 1..Len(sh.cmds) /\ Len(sh.cmds) \in Nat
      /\ Worded(sh.cmds)
    BY <1>1, TypeUse
<1>3. AtLoop /\ ToCome
    BY <1>1 DEF Flows
<1>4. CASE ~Fed
    <2>1. sh' = sh /\ pc' = "loop" /\ i' = Len(sh.cmds)
        BY <1>4, TypeFeed
    <2>2. sh.cmds[Len(sh.cmds)].cmd = End
        BY <1>2 DEF Worded
    <2>3. AtLoop'
        <3>1. End \notin DOMAIN Fan \cup {";"}
            BY OpsAre
        <3> QED
            BY <2>1, <2>2, <3>1 DEF AtLoop, cmd, Word
    <2>4. ToCome'
        <3>1. \A m \in 1..Len(sh.cmds) : ~(m > Len(sh.cmds))
            BY <1>2
        <3> QED
            BY <2>1, <3>1 DEF ToCome
    <2> QED
        BY <2>1, <2>3, <2>4 DEF Flows
<1>5. CASE Fed
    <2>1. pc' = "copy" /\ i' = i /\ i > 1
        BY <1>5, TypeFeed DEF Fed
    <2>2. PICK t : t = sh'
        OBVIOUS
    <2>3. /\ t \in Shells /\ Filled(t) /\ Len(t.cmds) = Len(sh.cmds)
          /\ \A n \in Fds : sh.fd[n] # Closed => t.fd[n] = sh.fd[n]
          /\ \A p \in Pipes : \A n \in Fds : sh.fd[n] = ReadEnd(p) /\ Dry(sh, p) => Dry(t, p)
          /\ \A m \in 1..Len(sh.cmds) :
               /\ t.cmds[m].cmd = sh.cmds[m].cmd /\ t.cmds[m].write = sh.cmds[m].write
               /\ m \notin Heads => t.cmds[m] = sh.cmds[m]
               /\ m \in Heads => \E r, w \in Free(sh) :
                    t.cmds[m].read = <<r, w>> /\ Fresh(sh, t, r, w)
        BY <1>5, <2>2, FeedIs
    <2>4. /\ Heads \subseteq (i + 1)..(Len(sh.cmds) - 1) /\ Heads \subseteq 1..Len(sh.cmds)
          /\ i + 1 \in Heads /\ (cmd = "|" => Heads = {i + 1})
        BY <1>1, <1>2, <1>5, HeadsAre
    <2>5. cmd' = cmd /\ Heads' = Heads
        <3>1. SameWords(sh.cmds, sh'.cmds)
            BY TypeFeed
        <3> QED
            BY <1>2, <2>1, <3>1, SameFed
    <2>6. t.cmds[i] = sh.cmds[i]
        <3>1. i \notin Heads
            BY <1>2, <2>4
        <3> QED
            BY <1>2, <2>3, <3>1
    <2> DEFINE a == sh.cmds[i].read[1]
    <2>7. Open1(sh, a) /\ Severed(sh, a)
        BY <1>1, <1>3, <2>1 DEF AtLoop
    <2>8. Source(sh)' = a
        BY <1>1, <2>1, <2>2, <2>6, OpsAre DEF Source, cmd
    <2> HIDE DEF a
    <2>9. SourceFile' = sh.fd[a] /\ t.fd[a] = sh.fd[a] /\ a \in Fds
        <3>1. a \in Fds /\ t.fd[a] = sh.fd[a]
            BY <2>3, <2>7 DEF Open1
        <3> QED
            BY <2>2, <2>8, <3>1 DEF SourceFile
    <2>10. Sinks(sh)' = {t.cmds[j].read[2] : j \in Heads}
        BY <1>1, <2>2, <2>5, OpsAre DEF Sinks
    <2>11. ASSUME NEW p \in Pipes, (SourceFile = ReadEnd(p))'
           PROVE  Dry(sh, p)'
        <3>1. sh.fd[a] = ReadEnd(p)
            BY <2>9, <2>11
        <3>2. Dry(sh, p)
            BY <2>9, <2>7, <3>1 DEF Severed
        <3>3. Dry(t, p)
            BY <2>3, <2>9, <3>1, <3>2
        <3> QED
            BY <1>1, <2>2, <3>3 DEF Dry, Outside
    <2>12. ASSUME NEW p \in Pipes, NEW q \in Pipes, (WriteEnd(q) \in SinkFiles)'
           PROVE  (/\ \E n \in Fds : sh.fd[n] = ReadEnd(q)
                   /\ Len(sh.pipe[p]) + Len(sh.pipe[q]) <= PipeCap)'
        <3>1. PICK j \in Heads : t.cmds[j].read[2] \in Fds
                                 /\ t.fd[t.cmds[j].read[2]] = WriteEnd(q)
            BY <2>2, <2>10, <2>12 DEF SinkFiles
        <3>2. PICK r \in Free(sh), w \in Free(sh) :
                t.cmds[j].read = <<r, w>> /\ Fresh(sh, t, r, w)
            BY <2>3, <2>4, <3>1
        <3>3. /\ r \in Fds
              /\ \E u \in Pipes : /\ t.fd[r] = ReadEnd(u) /\ t.fd[w] = WriteEnd(u)
                                  /\ t.pipe[u] = << >>
            BY <1>2, <3>2, FreshIs
        <3>4. PICK u \in Pipes : t.fd[r] = ReadEnd(u) /\ t.fd[w] = WriteEnd(u) /\ t.pipe[u] = << >>
            BY <3>3
        <3>5. u = q
            BY <3>1, <3>2, <3>4, EndsDiffer
        <3>6. Len(t.pipe[p]) <= PipeCap /\ Len(t.pipe[p]) \in Nat /\ Len(t.pipe[q]) = 0
            <4>1. t.pipe[p] \in Seq(Nat)
                BY <2>3, ShellIs
            <4>2. Len(t.pipe[p]) \in Nat
                BY <4>1, LenProperties
            <4> QED
                BY <2>3, <3>4, <3>5, <4>2 DEF Filled
        <3>7. Len(t.pipe[p]) + Len(t.pipe[q]) <= PipeCap
            BY <3>6
        <3> QED
            BY <2>2, <3>3, <3>4, <3>5, <3>7
    <2>13. ~Word(sh.cmds[i])'
        BY <1>1, <2>1, <2>2, <2>6, OpsAre DEF Word, cmd
    <2>14. ASSUME cmd = "|"
           PROVE  (/\ Open1(sh, sh.cmds[i + 1].read[1])
                   /\ sh.cmds[i + 1].read[1] \notin {Source(sh)} \cup Sinks(sh))'
        <3>1. i + 1 \in 1..Len(sh.cmds) /\ Heads = {i + 1}
            BY <2>4, <2>14
        <3>2. PICK r \in Free(sh), w \in Free(sh) :
                t.cmds[i + 1].read = <<r, w>> /\ Fresh(sh, t, r, w)
            BY <2>3, <3>1
        <3>3. r \in Fds /\ r # w /\ sh.fd[r] = Closed /\ \E q \in Pipes : t.fd[r] = ReadEnd(q)
            BY <1>2, <3>2, FreshIs
        <3>4. Open1(t, r)
            BY <3>3, EndsDiffer DEF Open1
        <3>5. r # a
            BY <2>7, <3>3 DEF Open1
        <3>6. Sinks(sh)' = {w}
            BY <2>10, <3>1, <3>2
        <3> QED
            BY <2>1, <2>2, <2>8, <3>2, <3>3, <3>4, <3>5, <3>6
    <2>15. AtCopy'
        BY <2>5, <2>11, <2>12, <2>13, <2>14 DEF AtCopy
    <2>16. ToCome'
        <3>1. ASSUME NEW m \in 1..Len(t.cmds), m > i', Word(t.cmds[m])
              PROVE  /\ t.cmds[m].write \in {<<-1, -1>>, <<-1, out'>>}
                     /\ m \in Heads \/ t.cmds[m].read[1] = -1 \/ t.cmds[m].write[2] = out'
            <4>1. m \in 1..Len(sh.cmds) /\ m > i /\ Word(sh.cmds[m])
                BY <2>1, <2>3, <3>1 DEF Word
            <4>2. /\ sh.cmds[m].write \in {<<-1, -1>>, <<-1, out>>}
                  /\ sh.cmds[m].read[1] = -1 \/ sh.cmds[m].write[2] = out
                BY <1>1, <1>3, <4>1 DEF ToCome
            <4>3. t.cmds[m].write = sh.cmds[m].write /\ (m \notin Heads => t.cmds[m] = sh.cmds[m])
                BY <2>3, <4>1
            <4> QED
                BY <1>1, <4>2, <4>3
        <3> QED
            BY <1>1, <2>1, <2>2, <2>5, <3>1 DEF ToCome
    <2> QED
        BY <2>1, <2>15, <2>16 DEF Flows
<1> QED
    BY <1>4, <1>5

\* A semicolon reads the pipe in front of it and writes to the output.
LEMMA FlowsSemicolon ==
    ASSUME Typing, Straight, Good, Flows, Semicolon
    PROVE  Flows'
<1>1. /\ pc = "loop" /\ pc' = "copy" /\ cmd = ";"
      /\ UNCHANGED <<sh, i, in, out, nest, before>>
    BY DEF Semicolon, locals, history
<1>2. /\ sh \in Shells /\ i \in 1..Len(sh.cmds) /\ DOMAIN sh.cmds = 1..Len(sh.cmds)
    BY <1>1, TypeUse
<1>3. AtLoop /\ ToCome
    BY <1>1 DEF Flows
<1>4. i > 1
    BY <1>1, <1>2 DEF Good, Joined, cmd
<1>5. /\ cmd' = cmd /\ Next1' = Next1 /\ Heads' = Heads
      /\ Source(sh)' = Source(sh) /\ Sinks(sh)' = Sinks(sh)
      /\ SourceFile' = SourceFile /\ SinkFiles' = SinkFiles
    BY <1>1, SameCopy
<1>6. Source(sh) = sh.cmds[i].read[1] /\ Sinks(sh) = {out}
    BY <1>1, OpsAre DEF Source, Sinks, cmd
<1>7. Severed(sh, Source(sh))
    BY <1>1, <1>3, <1>4, <1>6 DEF AtLoop
<1>8. ASSUME NEW p \in Pipes, SourceFile = ReadEnd(p)
      PROVE  Dry(sh, p)
    <2>1. Source(sh) \in Fds /\ sh.fd[Source(sh)] = ReadEnd(p)
        BY <1>8, EndsDiffer DEF SourceFile
    <2> QED
        BY <1>7, <2>1 DEF Severed
<1>9. ASSUME NEW q \in Pipes, WriteEnd(q) \in SinkFiles
      PROVE  FALSE
    <2>1. sh.fd[out] = WriteEnd(q)
        BY <1>6, <1>9 DEF SinkFiles
    <2>2. sh.fd[out] \in {Screen, Disk, Closed}
        BY <1>1 DEF Straight, OutIs, Good
    <2> QED
        BY <2>1, <2>2, EndsDiffer
<1>10. ~Word(sh.cmds[i]) /\ cmd # "|" /\ cmd \notin DOMAIN Fan
    BY <1>1, OpsAre DEF Word, cmd
<1>11. AtCopy'
    BY <1>1, <1>5, <1>8, <1>9, <1>10 DEF AtCopy, Dry, Outside
<1>12. ToCome'
    BY <1>1, <1>3, <1>5, <1>10 DEF ToCome
<1> QED
    BY <1>1, <1>11, <1>12 DEF Flows

\* Behind a comma or a cd there is no operator that reads.
LEMMA FlowsSkip ==
    ASSUME Typing, Aside, Good, Flows, Skip
    PROVE  Flows'
<1>1. /\ pc = "loop" /\ pc' = "loop" /\ cmd \in {",", "cd"} /\ i' = i + 1
      /\ UNCHANGED <<sh, in, out, nest, before>>
    BY DEF Skip, Goto, history
<1>2. /\ sh \in Shells /\ i \in 1..Len(sh.cmds) /\ DOMAIN sh.cmds = 1..Len(sh.cmds)
      /\ Len(sh.cmds) \in Nat
    BY <1>1, TypeUse
<1>3. i + 1 \in 1..Len(sh.cmds) /\ i + 1 > i /\ i + 1 - 1 = i
    <2>1. cmd # End
        BY <1>1 DEF End
    <2>2. i + 1 \in 1..Len(sh.cmds)
        BY <1>1, <2>1, NotLast
    <2> QED
        BY <1>2, <2>2
<1>4. ToCome
    BY DEF Flows
<1>5. sh.cmds[i + 1].cmd \notin DOMAIN Fan \cup {";"}
    <2>1. cmd \in Ops \cup {"cd"}
        BY <1>1, OpsAre
    <2>2. \A n \in 1..Len(sh.cmds) : sh.cmds[n].cmd \in DOMAIN Fan \cup {";"} =>
            sh.cmds[n - 1].cmd \notin Ops \cup {"cd"}
        BY <1>2 DEF Good, Joined
    <2>3. PICK n \in 1..Len(sh.cmds) : n = i + 1
        BY <1>3
    <2>4. sh.cmds[n - 1].cmd \in Ops \cup {"cd"}
        <3>1. n - 1 = i
            BY <1>2, <2>3
        <3> QED
            BY <2>1, <3>1 DEF cmd
    <2>5. sh.cmds[n].cmd \notin DOMAIN Fan \cup {";"}
        BY <2>2, <2>4
    <2> QED
        BY <2>3, <2>5
<1>6. ASSUME Word(sh.cmds[i + 1])
      PROVE  \/ sh.cmds[i + 1].write = <<-1, out>>
             \/ sh.cmds[i + 1].write = <<-1, -1>> /\ sh.cmds[i + 1].read[1] = -1
    <2>1. /\ sh.cmds[i + 1].write \in {<<-1, -1>>, <<-1, out>>}
          /\ \/ sh.cmds[i + 1].read[1] = -1
             \/ sh.cmds[i + 1].write[2] = out
        BY <1>1, <1>3, <1>4, <1>6 DEF ToCome
    <2>2. out # -1
        BY ShellAssumption DEF Aside
    <2> QED
        BY <2>1, <2>2
<1>7. AtLoop'
    BY <1>1, <1>5, <1>6 DEF AtLoop, cmd
<1>8. ToCome'
    <2>1. ASSUME NEW m \in 1..Len(sh.cmds), m > i + 1, Word(sh.cmds[m])
          PROVE  /\ sh.cmds[m].write \in {<<-1, -1>>, <<-1, out>>}
                 /\ sh.cmds[m].read[1] = -1 \/ sh.cmds[m].write[2] = out
        <3>1. m > i
            BY <1>2, <2>1
        <3> QED
            BY <1>1, <1>4, <2>1, <3>1 DEF ToCome
    <2> QED
        BY <1>1, <2>1 DEF ToCome
<1> QED
    BY <1>1, <1>7, <1>8 DEF Flows

\* A stage gets a new pipe, unless it was given the output.
LEMMA FlowsFork ==
    ASSUME Typing, Typing', Aside, Flows, ~sh'.refused, lines' \in 0..MaxLines, Fork
    PROVE  Flows'
<1>1. /\ pc = "loop" /\ pc' = "stage" /\ i' = i /\ cmd \notin Ops \cup {"cd", End}
      /\ SameWords(sh.cmds, sh'.cmds)
      /\ IF sh.cmds[i].write[2] = -1
         THEN sh' = MakePipes(sh, <<i>>, "write") /\ Targets(sh, <<i>>, "write")
         ELSE sh' = sh
    BY TypeFork
<1>2. UNCHANGED <<in, out, nest, before>>
    BY DEF Fork, locals, history
<1>3. /\ sh \in Shells /\ sh' \in Shells /\ Waiting /\ i \in 1..Len(sh.cmds) /\ Len(sh.cmds) \in Nat
    BY <1>1, TypeUse, TypeNext DEF Typing
<1>4. AtLoop /\ ToCome
    BY <1>1 DEF Flows
<1>5. \/ sh.cmds[i].write = <<-1, out>>
      \/ sh.cmds[i].write = <<-1, -1>> /\ (sh.cmds[i].read[1] = -1 \/ Open1(sh, sh.cmds[i].read[1]))
    BY <1>1, <1>4 DEF AtLoop, Word, cmd
<1>6. out # -1
    BY ShellAssumption DEF Aside
<1>7. CASE sh.cmds[i].write = <<-1, out>>
    <2>1. sh' = sh
        BY <1>1, <1>6, <1>7
    <2>2. AtStage'
        BY <1>1, <1>2, <1>7, <2>1 DEF AtStage
    <2>3. ToCome'
        BY <1>1, <1>2, <1>4, <2>1 DEF ToCome
    <2> QED
        BY <1>1, <2>2, <2>3 DEF Flows
<1>8. CASE sh.cmds[i].write = <<-1, -1>> /\ (sh.cmds[i].read[1] = -1 \/ Open1(sh, sh.cmds[i].read[1]))
    <2>1. PICK t : t = sh'
        OBVIOUS
    <2>2. t = MakePipes(sh, <<i>>, "write") /\ Targets(sh, <<i>>, "write") /\ ~t.refused
        BY <1>1, <1>8, <2>1
    <2>3. /\ \A n \in Fds : sh.fd[n] # Closed => t.fd[n] = sh.fd[n]
          /\ \A m \in 1..Len(sh.cmds) :
               /\ t.cmds[m].cmd = sh.cmds[m].cmd
               /\ Rest(t.cmds[m], "write") = Rest(sh.cmds[m], "write")
               /\ (\A k \in DOMAIN <<i>> : <<i>>[k] # m) => t.cmds[m] = sh.cmds[m]
          /\ \A k \in DOMAIN <<i>> : \E r, w \in Free(sh) :
               Pair(t.cmds[<<i>>[k]], "write") = <<r, w>> /\ Fresh(sh, t, r, w)
        BY <1>3, <2>2, MakePipesIs
    <2>4. \E r, w \in Free(sh) : Pair(t.cmds[i], "write") = <<r, w>> /\ Fresh(sh, t, r, w)
        <3>1. 1 \in DOMAIN <<i>> /\ <<i>>[1] = i
            OBVIOUS
        <3> QED
            BY <2>3, <3>1
    <2>5. PICK r \in Free(sh), w \in Free(sh) : t.cmds[i].write = <<r, w>> /\ Fresh(sh, t, r, w)
        BY <2>4 DEF Pair
    <2>6. /\ r \in Fds /\ w \in Fds
          /\ \E q \in Pipes : /\ t.fd[r] = ReadEnd(q) /\ t.fd[w] = WriteEnd(q)
                              /\ Sole(t, q, w)
        BY <1>3, <2>5, FreshIs
    <2>7. t.cmds[i].read = sh.cmds[i].read
        BY <1>3, <2>3 DEF Rest
    <2>8. t.cmds[i].read[1] = -1 \/ Open1(t, t.cmds[i].read[1])
        BY <1>8, <2>3, <2>7 DEF Open1
    <2>9. AtStage'
        BY <1>1, <1>2, <2>1, <2>5, <2>6, <2>8 DEF AtStage, Sole, Outside, Open1
    <2>10. ToCome'
        <3>1. ASSUME NEW m \in 1..Len(t.cmds), m > i, Word(t.cmds[m])
              PROVE  /\ t.cmds[m].write \in {<<-1, -1>>, <<-1, out>>}
                     /\ t.cmds[m].read[1] = -1 \/ t.cmds[m].write[2] = out
            <4>1. m \in 1..Len(sh.cmds)
                BY <1>1, <2>1 DEF SameWords
            <4>2. \A k \in DOMAIN <<i>> : <<i>>[k] # m
                BY <1>3, <3>1
            <4>3. t.cmds[m] = sh.cmds[m]
                BY <2>3, <4>1, <4>2
            <4> QED
                BY <1>1, <1>4, <3>1, <4>1, <4>3 DEF ToCome
        <3> QED
            BY <1>1, <1>2, <2>1, <3>1 DEF ToCome
    <2> QED
        BY <1>1, <2>9, <2>10 DEF Flows
<1> QED
    BY <1>5, <1>7, <1>8

\* The child and the user move what is in the pipes.
LEMMA FlowsChild ==
    ASSUME Typing, lines' \in 0..MaxLines, Piping, Flows, Child \/ Interrupt
    PROVE  Flows'
<1>1. /\ pc = "stage" /\ pc' = pc /\ UNCHANGED <<i, out, nest, before>>
      /\ sh'.fd = sh.fd /\ sh'.cmds = sh.cmds
    <2>1. UNCHANGED <<pc, i, out, nest, before>> /\ Running
        BY DEF Child, ChildRead, ChildEof, ChildWrite, Interrupt, locals, history
    <2> QED
        BY <2>1, TypeQuiet DEF Child, Running, Piping
<1>2. AtStage /\ ToCome
    BY <1>1 DEF Flows
<1>3. AtStage'
    BY <1>1, <1>2 DEF AtStage, Sole, Outside, Open1
<1>4. ToCome'
    BY <1>1, <1>2 DEF ToCome
<1> QED
    BY <1>1, <1>3, <1>4 DEF Flows

\* A block that is copied leaves one pipe for another.
LEMMA FlowsCopyBlock ==
    ASSUME Typing, lines' \in 0..MaxLines, Flows, CopyBlock
    PROVE  Flows'
<1>1. /\ pc = "copy" /\ UNCHANGED <<pc, i, in, out, nest, before>>
      /\ sh'.fd = sh.fd /\ sh'.cmds = sh.cmds
    <2>1. pc = "copy" /\ UNCHANGED <<pc, i, in, out, nest, before>>
        BY DEF CopyBlock, locals, history
    <2> QED
        BY <2>1, TypeQuiet
<1>2. AtCopy /\ ToCome
    BY <1>1 DEF Flows
<1>3. /\ cmd' = cmd /\ Next1' = Next1 /\ Heads' = Heads
      /\ Source(sh)' = Source(sh) /\ Sinks(sh)' = Sinks(sh)
      /\ SourceFile' = SourceFile /\ SinkFiles' = SinkFiles
    BY <1>1, SameCopy
<1>4. sh \in Shells /\ screen \in Seq(Nat)
    BY TypeUse
<1>5. PICK p \in Pipes :
        /\ SourceFile = ReadEnd(p) /\ sh.pipe[p] # << >>
        /\ Deliver([sh EXCEPT !.pipe[p] = Tail(@)], SinkFiles, Head(sh.pipe[p]))
    BY DEF CopyBlock
<1>6. PICK s : s = Taken(sh, p)
    OBVIOUS
<1>7. /\ s \in Shells /\ s.fd = sh.fd /\ s.cmds = sh.cmds
      /\ Head(sh.pipe[p]) \in Nat
      /\ Len(s.pipe[p]) = Len(sh.pipe[p]) - 1 /\ Len(sh.pipe[p]) \in Nat
      /\ \A q \in Pipes : q # p => s.pipe[q] = sh.pipe[q]
    BY <1>4, <1>5, <1>6, TailIs
<1>8. \A q \in Pipes : sh'.pipe[q] =
        IF WriteEnd(q) \in SinkFiles THEN Append(s.pipe[q], Head(sh.pipe[p])) ELSE s.pipe[q]
    <2>1. Deliver(s, SinkFiles, Head(sh.pipe[p]))
        BY <1>5, <1>6 DEF Taken
    <2> QED
        BY <1>4, <1>7, <2>1, DeliverIs
<1>9. WriteEnd(p) \notin SinkFiles
    <2>1. Dry(sh, p)
        BY <1>2, <1>5 DEF AtCopy
    <2> QED
        BY <2>1 DEF Dry, SinkFiles
<1>10. ASSUME NEW u \in Pipes, NEW q \in Pipes, SourceFile = ReadEnd(u), WriteEnd(q) \in SinkFiles
       PROVE  /\ \E n \in Fds : sh.fd[n] = ReadEnd(q)
              /\ Len(sh'.pipe[u]) + Len(sh'.pipe[q]) <= PipeCap
    <2>1. u = p /\ q # p
        BY <1>5, <1>9, <1>10, EndsDiffer
    <2>2. /\ \E n \in Fds : sh.fd[n] = ReadEnd(q)
          /\ Len(sh.pipe[p]) + Len(sh.pipe[q]) <= PipeCap
        BY <1>2, <1>5, <1>10 DEF AtCopy
    <2>3. sh'.pipe[p] = s.pipe[p] /\ sh'.pipe[q] = Append(sh.pipe[q], Head(sh.pipe[p]))
        BY <1>7, <1>8, <1>9, <1>10, <2>1
    <2>4. sh.pipe[q] \in Seq(Nat)
        BY <1>4, ShellIs
    <2>5. Len(sh'.pipe[q]) = Len(sh.pipe[q]) + 1 /\ Len(sh.pipe[q]) \in Nat
        BY <1>7, <2>3, <2>4, AppendProperties, LenProperties
    <2>6. Len(sh'.pipe[p]) = Len(sh.pipe[p]) - 1
        BY <1>7, <2>3
    <2>7. Len(sh'.pipe[p]) + Len(sh'.pipe[q]) = Len(sh.pipe[p]) + Len(sh.pipe[q])
        <3> DEFINE a == Len(sh.pipe[p])
                   b == Len(sh.pipe[q])
                   c == Len(sh'.pipe[p])
                   d == Len(sh'.pipe[q])
        <3>1. a \in Nat /\ b \in Nat /\ c = a - 1 /\ d = b + 1
            BY <1>7, <2>5, <2>6
        <3> HIDE DEF a, b, c, d
        <3>2. c + d = a + b
            BY <3>1
        <3> QED
            BY <3>2 DEF a, b, c, d
    <2> QED
        BY <2>1, <2>2, <2>7
<1>11. AtCopy'
    <2>1. (\A u, q \in Pipes : SourceFile = ReadEnd(u) /\ WriteEnd(q) \in SinkFiles =>
              /\ \E n \in Fds : sh.fd[n] = ReadEnd(q)
              /\ Len(sh.pipe[u]) + Len(sh.pipe[q]) <= PipeCap)'
        BY <1>1, <1>3, <1>10
    <2>2. (\A u \in Pipes : SourceFile = ReadEnd(u) => Dry(sh, u))'
        BY <1>1, <1>2, <1>3 DEF AtCopy, Dry, Outside
    <2>3. (Word(sh.cmds[i]) /\ Next1 \in DOMAIN Fan \cup {";"} =>
              \A q \in Pipes : sh.cmds[i + 1].read[1] \in Fds
                               /\ sh.fd[sh.cmds[i + 1].read[1]] = ReadEnd(q) =>
                  Sole(sh, q, sh.cmds[i + 1].read[2]))'
        BY <1>1, <1>2, <1>3 DEF AtCopy, Sole, Outside
    <2>4. ((Word(sh.cmds[i]) /\ Next1 \in DOMAIN Fan) \/ cmd = "|" =>
              /\ Open1(sh, sh.cmds[i + 1].read[1])
              /\ sh.cmds[i + 1].read[1] \notin {Source(sh)} \cup Sinks(sh))'
        BY <1>1, <1>2, <1>3 DEF AtCopy, Open1
    <2> QED
        BY <2>1, <2>2, <2>3, <2>4 DEF AtCopy
<1>12. ToCome'
    BY <1>1, <1>2, <1>3 DEF ToCome
<1> QED
    BY <1>1, <1>11, <1>12 DEF Flows

\* What Reap does when it gets its pipe.
LEMMA ReapIs ==
    ASSUME Typing, lines' \in 0..MaxLines, Reap, ~sh'.refused
    PROVE  \E s \in Shells :
             /\ Len(s.cmds) = Len(sh.cmds)
             /\ \A m \in 1..Len(sh.cmds) : m # i + 1 => s.cmds[m] = sh.cmds[m]
             /\ \A n \in Fds : sh.fd[n] # Closed => s.fd[n] = sh.fd[n]
             /\ \A p \in Pipes : \A n \in Fds : sh.fd[n] = ReadEnd(p) =>
                   \A w : Sole(sh, p, w) => Sole(s, p, w)
             /\ Next1 = End => s.fd = sh.fd /\ s.cmds[i + 1].read[2] = out
             /\ Next1 # End => \E x, y \in Free(sh) :
                   s.cmds[i + 1].read = <<x, y>> /\ Fresh(sh, s, x, y)
             /\ sh'.cmds = s.cmds /\ sh'.pipe = s.pipe
             /\ \A n \in Fds : sh'.fd[n] =
                   IF n \in {sh.cmds[i].read[1], sh.cmds[i].write[2]} THEN Closed ELSE s.fd[n]
<1>1. pc = "stage" /\ i + 1 \in 1..Len(sh.cmds)
    BY TypeReap
<1>2. PICK s \in Shells :
        /\ SameWords(sh.cmds, s.cmds)
        /\ IF Next1 = End
           THEN /\ s.fd = sh.fd /\ s.pipe = sh.pipe /\ (s.refused <=> sh.refused)
                /\ s.cmds[i + 1].read = <<sh.cmds[i + 1].read[1], out>>
                /\ s.cmds[i + 1].write = sh.cmds[i + 1].write
                /\ \A m \in 1..Len(sh.cmds) : m # i + 1 => s.cmds[m] = sh.cmds[m]
           ELSE s = MakePipes(sh, <<i + 1>>, "read") /\ Targets(sh, <<i + 1>>, "read")
        /\ sh' = Close(s, Own(s))
        /\ sh'.cmds = s.cmds /\ sh'.pipe = s.pipe /\ (sh'.refused <=> s.refused)
        /\ \A n \in Fds : sh'.fd[n] = IF n \in Own(s) THEN Closed ELSE s.fd[n]
    BY TypeReap
<1>3. sh \in Shells /\ Waiting /\ i \in 1..Len(sh.cmds) /\ Len(sh.cmds) \in Nat
    BY <1>1, TypeUse
<1>4. i # i + 1
    BY <1>3
<1>5. /\ \A m \in 1..Len(sh.cmds) : m # i + 1 => s.cmds[m] = sh.cmds[m]
      /\ \A n \in Fds : sh.fd[n] # Closed => s.fd[n] = sh.fd[n]
      /\ \A p \in Pipes : \A n \in Fds : sh.fd[n] = ReadEnd(p) =>
            \A w : Sole(sh, p, w) => Sole(s, p, w)
      /\ Next1 = End => s.fd = sh.fd /\ s.cmds[i + 1].read[2] = out
      /\ Next1 # End => \E x, y \in Free(sh) :
            s.cmds[i + 1].read = <<x, y>> /\ Fresh(sh, s, x, y)
    <2>1. CASE Next1 = End
        BY <1>2, <2>1 DEF Sole
    <2>2. CASE Next1 # End
        <3>1. s = MakePipes(sh, <<i + 1>>, "read") /\ Targets(sh, <<i + 1>>, "read") /\ ~s.refused
            BY <1>2, <2>2
        <3>2. /\ \A n \in Fds : sh.fd[n] # Closed => s.fd[n] = sh.fd[n]
              /\ \A m \in 1..Len(sh.cmds) :
                   (\A k \in DOMAIN <<i + 1>> : <<i + 1>>[k] # m) => s.cmds[m] = sh.cmds[m]
              /\ \A k \in DOMAIN <<i + 1>> : \E x, y \in Free(sh) :
                   Pair(s.cmds[<<i + 1>>[k]], "read") = <<x, y>> /\ Fresh(sh, s, x, y)
            BY <1>3, <3>1, MakePipesIs
        <3>3. \A m \in 1..Len(sh.cmds) : m # i + 1 => s.cmds[m] = sh.cmds[m]
            BY <3>2
        <3>4. \E x, y \in Free(sh) : s.cmds[i + 1].read = <<x, y>> /\ Fresh(sh, s, x, y)
            <4>1. 1 \in DOMAIN <<i + 1>> /\ <<i + 1>>[1] = i + 1
                OBVIOUS
            <4>2. \E x, y \in Free(sh) :
                    Pair(s.cmds[i + 1], "read") = <<x, y>> /\ Fresh(sh, s, x, y)
                BY <3>2, <4>1
            <4> QED
                BY <4>2 DEF Pair
        <3>5. \A p \in Pipes : \A n \in Fds : sh.fd[n] = ReadEnd(p) =>
                 \A w : Sole(sh, p, w) => Sole(s, p, w)
            BY <1>3, <3>1, DryMade
        <3> QED
            BY <2>2, <3>2, <3>3, <3>4, <3>5
    <2> QED
        BY <2>1, <2>2
<1>6. Own(s) = {sh.cmds[i].read[1], sh.cmds[i].write[2]}
    BY <1>3, <1>4, <1>5 DEF Own
<1>7. Len(s.cmds) = Len(sh.cmds)
    BY <1>2 DEF SameWords
<1> QED
    BY <1>2, <1>5, <1>6, <1>7

\* Behind a stage: what it wrote goes into a new pipe, or to the output.
LEMMA FlowsReap ==
    ASSUME Typing, Typing', Straight, Good, Flows, ~sh'.refused,
           lines' \in 0..MaxLines, Reap
    PROVE  Flows'
<1>1. /\ pc = "stage" /\ pc' = "copy" /\ i' = i /\ cmd \notin Ops \cup {"cd", End}
      /\ i + 1 \in 1..Len(sh.cmds) /\ Next1 \in Ops \cup {End}
      /\ SameWords(sh.cmds, sh'.cmds)
    BY TypeReap
<1> DEFINE a == sh.cmds[i].write[1]
           b == sh.cmds[i].write[2]
           d == sh.cmds[i].read[1]
<1>2. PICK s \in Shells :
        /\ Len(s.cmds) = Len(sh.cmds)
        /\ \A m \in 1..Len(sh.cmds) : m # i + 1 => s.cmds[m] = sh.cmds[m]
        /\ \A n \in Fds : sh.fd[n] # Closed => s.fd[n] = sh.fd[n]
        /\ \A p \in Pipes : \A n \in Fds : sh.fd[n] = ReadEnd(p) =>
              \A w : Sole(sh, p, w) => Sole(s, p, w)
        /\ Next1 = End => s.fd = sh.fd /\ s.cmds[i + 1].read[2] = out
        /\ Next1 # End => \E x, y \in Free(sh) :
              s.cmds[i + 1].read = <<x, y>> /\ Fresh(sh, s, x, y)
        /\ sh'.cmds = s.cmds /\ sh'.pipe = s.pipe
        /\ \A n \in Fds : sh'.fd[n] = IF n \in {d, b} THEN Closed ELSE s.fd[n]
    BY ReapIs
<1>3. UNCHANGED <<in, out, nest, before>>
    BY DEF Reap, Drain, locals, history
<1>4. /\ sh \in Shells /\ sh' \in Shells /\ Filled(sh') /\ Waiting
      /\ i \in 1..Len(sh.cmds) /\ Len(sh.cmds) \in Nat /\ i # i + 1
    BY <1>1, TypeUse, TypeNext DEF Typing
<1>5. AtStage /\ ToCome
    BY <1>1 DEF Flows
<1>6. cmd' = cmd /\ Next1' = Next1 /\ sh'.cmds[i] = sh.cmds[i]
    BY <1>1, <1>2, <1>4 DEF cmd, Next1, SameWords
<1>7. Source(sh)' = a /\ Sinks(sh)' = {s.cmds[i + 1].read[2]}
    <2>1. Source(sh)' = a
        BY <1>1, <1>6 DEF Source, cmd
    <2>2. Sinks(sh)' = {s.cmds[i + 1].read[2]}
        BY <1>1, <1>2, <1>6, OpsAre DEF Sinks
    <2> QED
        BY <2>1, <2>2
<1>8. \A n \in Fds : sh'.fd[n] \in {Closed, s.fd[n]}
    BY <1>2
<1>9. \/ sh.cmds[i].write = <<-1, out>>
      \/ /\ \E p \in Pipes : /\ a \in Fds /\ sh.fd[a] = ReadEnd(p)
                             /\ b \in Fds /\ sh.fd[b] = WriteEnd(p) /\ Sole(sh, p, b)
         /\ d = -1 \/ Open1(sh, d)
    BY <1>5 DEF AtStage
<1> HIDE DEF a, b, d
\* The pipe of the stage is severed.
<1>10. ASSUME NEW u \in Pipes, (SourceFile = ReadEnd(u))'
       PROVE  /\ Dry(sh, u)' /\ sh.cmds[i].write # <<-1, out>>
              /\ a \in Fds /\ sh.fd[a] = ReadEnd(u)
              /\ b \in Fds /\ sh.fd[b] = WriteEnd(u)
              /\ d = -1 \/ Open1(sh, d)
    <2>1. a \in Fds /\ sh'.fd[a] = ReadEnd(u)
        BY <1>7, <1>10, EndsDiffer DEF SourceFile
    <2>2. a # -1
        BY <2>1 DEF Fds
    <2>3. sh.cmds[i].write # <<-1, out>>
        BY <2>2 DEF a
    <2>4. PICK p \in Pipes : /\ sh.fd[a] = ReadEnd(p)
                             /\ b \in Fds /\ sh.fd[b] = WriteEnd(p) /\ Sole(sh, p, b)
        BY <1>9, <2>3
    <2>5. s.fd[a] = ReadEnd(p)
        BY <1>2, <2>1, <2>4, EndsDiffer
    <2>6. u = p
        BY <1>8, <2>1, <2>5, EndsDiffer
    <2>7. Sole(s, u, b)
        BY <1>2, <2>1, <2>4, <2>6
    <2>8. sh'.fd[b] = Closed
        BY <1>2, <2>4
    <2>9. PICK t : t = sh'
        OBVIOUS
    <2>10. \A n \in Fds : t.fd[n] \in {Closed, s.fd[n]}
        BY <1>8, <2>9
    <2>11. Dry(t, u)
        BY <2>4, <2>7, <2>8, <2>9, <2>10, DryClosed
    <2>12. Dry(sh, u)'
        BY <1>3, <2>9, <2>11 DEF Dry, Outside
    <2> QED
        BY <1>9, <2>1, <2>3, <2>4, <2>6, <2>12
\* What was read by the stage, and where it wrote, are not the new pipe.
<1>11. ASSUME NEW x \in Fds, sh.fd[x] = Closed, b \in Fds, sh.fd[b] # Closed, d = -1 \/ Open1(sh, d)
       PROVE  sh'.fd[x] = s.fd[x]
    <2>1. x # b
        BY <1>11
    <2>2. x # d
        BY <1>11 DEF Open1, Fds
    <2> QED
        BY <1>2, <2>1, <2>2
<1>12. ASSUME NEW u \in Pipes, NEW q \in Pipes, (SourceFile = ReadEnd(u))',
              (WriteEnd(q) \in SinkFiles)'
       PROVE  (/\ \E n \in Fds : sh.fd[n] = ReadEnd(q)
               /\ Len(sh.pipe[u]) + Len(sh.pipe[q]) <= PipeCap)'
    <2>1. /\ a \in Fds /\ sh.fd[a] = ReadEnd(u)
          /\ b \in Fds /\ sh.fd[b] = WriteEnd(u)
          /\ d = -1 \/ Open1(sh, d)
        BY <1>10, <1>12
    <2> DEFINE w == s.cmds[i + 1].read[2]
    <2>2. w \in Fds /\ sh'.fd[w] = WriteEnd(q)
        BY <1>7, <1>12 DEF SinkFiles
    <2>3. s.fd[w] = WriteEnd(q) /\ w # b
        <3>1. sh'.fd[w] # Closed
            BY <2>2, EndsDiffer
        <3> QED
            BY <1>2, <2>2, <3>1
    <2>4. Next1 # End
        <3>1. ASSUME Next1 = End
              PROVE  FALSE
            <4>1. w = out /\ sh.fd[out] = WriteEnd(q) /\ out # b
                BY <1>2, <2>3, <3>1
            <4>2. sh.fd[out] = before[1] \/ out \in {a, b}
                BY <1>1 DEF Straight, OutIs, a, b
            <4>3. before[1] \in {Screen, Disk}
                BY DEF Good
            <4> QED
                BY <2>1, <4>1, <4>2, <4>3, EndsDiffer
        <3> QED
            BY <3>1
    <2>5. PICK x \in Free(sh), y \in Free(sh) :
            s.cmds[i + 1].read = <<x, y>> /\ Fresh(sh, s, x, y)
        BY <1>2, <2>4
    <2>6. /\ x \in Fds /\ sh.fd[x] = Closed
          /\ \E v \in Pipes : /\ s.fd[x] = ReadEnd(v) /\ s.fd[y] = WriteEnd(v)
                              /\ s.pipe[v] = << >>
        BY <1>4, <2>5, FreshIs
    <2>7. PICK v \in Pipes : s.fd[x] = ReadEnd(v) /\ s.fd[y] = WriteEnd(v) /\ s.pipe[v] = << >>
        BY <2>6
    <2>8. v = q
        BY <2>3, <2>5, <2>7, EndsDiffer
    <2>9. sh'.fd[x] = ReadEnd(q)
        <3>1. sh.fd[b] # Closed
            BY <2>1, EndsDiffer
        <3> QED
            BY <1>11, <2>1, <2>6, <2>7, <2>8, <3>1
    <2>10. PICK t \in Shells : t = sh'
        BY <1>4
    <2>11. Len(t.pipe[u]) <= PipeCap /\ Len(t.pipe[u]) \in Nat /\ Len(t.pipe[q]) = 0
        <3>1. t.pipe[u] \in Seq(Nat)
            BY <2>10, ShellIs
        <3>2. Len(t.pipe[u]) \in Nat
            BY <3>1, LenProperties
        <3>3. t.pipe[q] = << >>
            BY <1>2, <2>7, <2>8, <2>10
        <3> QED
            BY <1>4, <2>10, <3>2, <3>3 DEF Filled
    <2>12. Len(t.pipe[u]) + Len(t.pipe[q]) <= PipeCap
        BY <2>11
    <2> QED
        BY <2>6, <2>9, <2>10, <2>12
<1>13. ASSUME Next1 \in DOMAIN Fan \cup {";"}, NEW q \in Pipes,
              s.cmds[i + 1].read[1] \in Fds, sh'.fd[s.cmds[i + 1].read[1]] = ReadEnd(q)
       PROVE  Sole(sh, q, sh.cmds[i + 1].read[2])'
    <2>1. Next1 # End
        BY <1>13, OpsAre
    <2>2. PICK x \in Free(sh), y \in Free(sh) :
            s.cmds[i + 1].read = <<x, y>> /\ Fresh(sh, s, x, y)
        BY <1>2, <2>1
    <2>3. \E v \in Pipes : s.fd[x] = ReadEnd(v) /\ Sole(s, v, y)
        BY <1>4, <2>2, FreshIs
    <2>4. PICK v \in Pipes : s.fd[x] = ReadEnd(v) /\ Sole(s, v, y)
        BY <2>3
    <2>5. sh'.fd[x] = ReadEnd(q) /\ x \in Fds
        <3>1. s.cmds[i + 1].read[1] = x
            BY <2>2
        <3> QED
            BY <1>13, <3>1, Zenon
    <2>6. v = q
        BY <1>8, <2>4, <2>5, EndsDiffer
    <2>7. PICK t : t = sh'
        OBVIOUS
    <2>8. \A n \in Fds : t.fd[n] \in {Closed, s.fd[n]}
        BY <1>8, <2>7
    <2>9. Sole(t, q, y)
        BY <2>4, <2>6, <2>8, DryClosed
    <2>10. (sh.cmds[i + 1].read[2])' = y
        BY <1>1, <1>2, <2>2
    <2> QED
        BY <1>3, <2>7, <2>9, <2>10 DEF Sole, Outside
<1>14. ASSUME Next1 \in DOMAIN Fan
       PROVE  (/\ Open1(sh, sh.cmds[i + 1].read[1])
               /\ sh.cmds[i + 1].read[1] \notin {Source(sh)} \cup Sinks(sh))'
    <2>1. Next1 # End
        BY <1>14, OpsAre
    <2>2. PICK x \in Free(sh), y \in Free(sh) :
            s.cmds[i + 1].read = <<x, y>> /\ Fresh(sh, s, x, y)
        BY <1>2, <2>1
    <2>3. /\ x \in Fds /\ sh.fd[x] = Closed /\ x # y
          /\ \E v \in Pipes : s.fd[x] = ReadEnd(v)
        BY <1>4, <2>2, FreshIs
    <2>4. out # b
        <3>1. FanAhead
            <4>1. i + 1 \in i..Len(sh.cmds)
                BY <1>1, <1>4
            <4> QED
                BY <1>14, <4>1 DEF FanAhead, Next1
        <3>2. out \notin Fields(sh.cmds[i])
            BY <1>4, <3>1 DEF Straight, Strict, Untouched
        <3> QED
            BY <3>2 DEF Fields, b
    <2>5. /\ a \in Fds /\ sh.fd[a] # Closed /\ b \in Fds /\ sh.fd[b] # Closed
          /\ d = -1 \/ Open1(sh, d)
        <3>1. sh.cmds[i].write # <<-1, out>>
            BY <2>4 DEF b
        <3> QED
            BY <1>9, <3>1, EndsDiffer
    <2>6. sh'.fd[x] = s.fd[x]
        BY <1>11, <2>3, <2>5
    <2>7. sh'.fd[x] # Closed
        BY <2>3, <2>6, EndsDiffer
    <2>8. x # a
        BY <2>3, <2>5
    <2>9. (sh.cmds[i + 1].read)' = <<x, y>> /\ Sinks(sh)' = {y}
        BY <1>1, <1>2, <1>7, <2>2
    <2> QED
        BY <1>7, <2>3, <2>7, <2>8, <2>9 DEF Open1
<1>15. cmd # "|"
    BY <1>1, OpsAre
<1>16. AtCopy'
    BY <1>1, <1>2, <1>6, <1>10, <1>12, <1>13, <1>14, <1>15 DEF AtCopy
<1>17. ToCome'
    <2>1. ASSUME NEW m \in 1..Len(sh.cmds), m > i, Word(s.cmds[m])
          PROVE  /\ s.cmds[m].write \in {<<-1, -1>>, <<-1, out>>}
                 /\ s.cmds[m].read[1] = -1 \/ s.cmds[m].write[2] = out
        <3>1. m # i + 1
            BY <1>1, <1>2, <2>1 DEF Word, Next1, SameWords
        <3>2. s.cmds[m] = sh.cmds[m]
            BY <1>2, <3>1
        <3> QED
            BY <1>1, <1>5, <2>1, <3>2 DEF ToCome
    <2> QED
        BY <1>1, <1>2, <1>3, <2>1 DEF ToCome
<1> QED
    BY <1>1, <1>16, <1>17 DEF Flows

\* Behind the copy loop its descriptors are closed: the next command is an
\* operator behind a stage, or one of the stages of this operator.
LEMMA FlowsCopyEnd ==
    ASSUME Typing, Good, Flows, lines' \in 0..MaxLines, CopyEnd
    PROVE  Flows'
<1>1. /\ pc = "copy" /\ pc' = "loop" /\ cmd \notin {",", "cd", End} /\ i < Len(sh.cmds)
      /\ i' = IF cmd = ";" THEN Len(sh.cmds) ELSE i + 1
      /\ SameWords(sh.cmds, sh'.cmds)
      /\ \A n \in Fds : sh'.fd[n] =
           IF cmd # ";" /\ n \in {Source(sh)} \cup Sinks(sh) THEN Closed ELSE sh.fd[n]
      /\ \A n \in 1..Len(sh.cmds) :
           /\ sh'.cmds[n].read = sh.cmds[n].read
           /\ sh'.cmds[n].write = IF cmd \in {"||", "|||"} /\ n \in Heads
                                  THEN <<sh.cmds[n].write[1], out>> ELSE sh.cmds[n].write
    BY TypeCopyEnd
<1>2. UNCHANGED <<in, out, nest, before>>
    BY DEF CopyEnd, history
<1>3. /\ sh \in Shells /\ i \in 1..Len(sh.cmds) /\ Len(sh.cmds) \in Nat
      /\ DOMAIN sh.cmds = 1..Len(sh.cmds) /\ i + 1 \in 1..Len(sh.cmds) /\ Worded(sh.cmds)
    BY <1>1, TypeUse
<1>4. AtCopy /\ ToCome
    BY <1>1 DEF Flows
<1>5. PICK t : t = sh'
    OBVIOUS
<1>6. /\ Len(t.cmds) = Len(sh.cmds)
      /\ \A n \in 1..Len(sh.cmds) : t.cmds[n].cmd = sh.cmds[n].cmd
    BY <1>1, <1>5 DEF SameWords
<1>7. CASE cmd = ";"
    <2>1. i' = Len(sh.cmds)
        BY <1>1, <1>7
    <2>2. t.cmds[Len(sh.cmds)].cmd = End
        BY <1>3, <1>6 DEF Worded
    <2>3. AtLoop'
        BY <1>5, <2>1, <2>2, OpsAre DEF AtLoop, cmd, Word
    <2>4. ToCome'
        <3>1. \A m \in 1..Len(sh.cmds) : ~(m > Len(sh.cmds))
            BY <1>3
        <3> QED
            BY <1>5, <1>6, <2>1, <3>1 DEF ToCome
    <2> QED
        BY <1>1, <2>3, <2>4 DEF Flows
<1>8. CASE cmd # ";"
    <2>1. i' = i + 1
        BY <1>1, <1>8
    <2>2. PICK j \in 1..Len(sh.cmds) : j = i + 1
        BY <1>3
    <2> DEFINE r == sh.cmds[j].read[1]
               w == sh.cmds[j].read[2]
               shut == {Source(sh)} \cup Sinks(sh)
    <2>3. \A n \in Fds : t.fd[n] = IF n \in shut THEN Closed ELSE sh.fd[n]
        BY <1>1, <1>5, <1>8
    <2>4. /\ t.cmds[j].cmd = sh.cmds[j].cmd
          /\ t.cmds[j].read[1] = r
          /\ t.cmds[j].write = IF cmd \in {"||", "|||"} /\ j \in Heads
                               THEN <<sh.cmds[j].write[1], out>> ELSE sh.cmds[j].write
        BY <1>1, <1>5, <1>6
    <2>5. /\ Word(sh.cmds[i]) /\ sh.cmds[j].cmd \in DOMAIN Fan \cup {";"} =>
             \A q \in Pipes : r \in Fds /\ sh.fd[r] = ReadEnd(q) => Sole(sh, q, w)
          /\ (Word(sh.cmds[i]) /\ sh.cmds[j].cmd \in DOMAIN Fan) \/ cmd = "|" =>
             Open1(sh, r) /\ r \notin shut
        BY <1>4, <2>2 DEF AtCopy, Next1
    <2>6. cmd \notin Ops => Sinks(sh) = {w}
        BY <2>2, OpsAre DEF Sinks
    <2> HIDE DEF r, w, shut
    <2>7. Open1(sh, r) /\ r \notin shut => Open1(t, r)
        BY <2>3 DEF Open1
    <2>8. ASSUME sh.cmds[j].cmd \in DOMAIN Fan \cup {";"}
          PROVE  Word(sh.cmds[i])
        <3>1. sh.cmds[j - 1].cmd \notin Ops \cup {"cd"}
            BY <1>3, <2>8 DEF Good, Joined
        <3>2. j - 1 = i
            BY <1>3, <2>2
        <3>3. sh.cmds[i].cmd \notin Ops \cup {"cd"}
            BY <3>1, <3>2
        <3> QED
            BY <1>1, <3>3 DEF Word, cmd
    <2>9. ASSUME sh.cmds[j].cmd \in DOMAIN Fan \cup {";"}
          PROVE  Severed(t, r)
        <3>1. ASSUME NEW p \in Pipes, r \in Fds, t.fd[r] = ReadEnd(p)
              PROVE  Dry(t, p)
            <4>1. \A n \in Fds : t.fd[n] \in {Closed, sh.fd[n]}
                BY <2>3
            <4>2. sh.fd[r] = ReadEnd(p)
                BY <3>1, <4>1, EndsDiffer
            <4>3. Sole(sh, p, w)
                BY <2>5, <2>8, <2>9, <3>1, <4>2
            <4>4. Sole(t, p, w)
                BY <4>1, <4>3, DryClosed
            <4>5. w \in Fds => t.fd[w] = Closed
                <5>1. cmd \notin Ops
                    BY <2>8, <2>9 DEF Word, cmd
                <5>2. w \in shut
                    BY <2>6, <5>1 DEF shut
                <5> QED
                    BY <2>3, <5>2
            <4> QED
                BY <4>4, <4>5, EndsDiffer DEF Sole, Dry
        <3> QED
            BY <3>1 DEF Severed
    <2>10. ASSUME Word(sh.cmds[j])
           PROVE  cmd \in DOMAIN Fan /\ j \in Heads
        <3>1. sh.cmds[j].cmd \notin Ops \cup {End}
            BY <2>10 DEF Word
        <3>2. i \in 1..(Len(sh.cmds) - 1)
            <4>1. i < Len(sh.cmds)
                BY <1>1
            <4> QED
                BY <1>3, <4>1
        <3>3. cmd \in Ops
            BY <1>3, <2>2, <3>1, <3>2 DEF Worded, cmd
        <3>4. cmd \notin Redirections /\ (cmd \in DOMAIN Fan => Fed)
            BY <1>1, <1>3 DEF Typing, Shape, cmd
        <3>5. cmd \in DOMAIN Fan
            BY <1>1, <1>8, <3>3, <3>4 DEF Ops
        <3> QED
            BY <1>3, <2>2, <3>4, <3>5, HeadsAre
    <2>11. ASSUME Word(sh.cmds[j])
           PROVE  \/ t.cmds[j].write = <<-1, out>>
                  \/ t.cmds[j].write = <<-1, -1>> /\ Open1(t, r)
        <3>1. sh.cmds[j].write \in {<<-1, -1>>, <<-1, out>>}
            <4>1. j > i
                BY <1>3, <2>2
            <4> QED
                BY <1>4, <2>11, <4>1 DEF ToCome
        <3>2. CASE cmd \in {"||", "|||"}
            BY <2>4, <2>10, <2>11, <3>1, <3>2
        <3>3. CASE cmd = "|"
            BY <2>4, <2>5, <2>7, <3>1, <3>3
        <3> QED
            BY <2>10, <2>11, <3>2, <3>3, OpsAre
    <2>12. AtLoop'
        <3>1. (sh.cmds[i])' = t.cmds[j] /\ cmd' = sh.cmds[j].cmd
            BY <1>5, <2>1, <2>2, <2>4 DEF cmd
        <3>2. sh.cmds[j].cmd \in DOMAIN Fan => Open1(t, r)
            BY <2>5, <2>7, <2>8
        <3>3. Word(t.cmds[j]) => Word(sh.cmds[j])
            BY <2>4 DEF Word
        <3> QED
            BY <1>2, <1>5, <2>4, <2>9, <2>11, <3>1, <3>2, <3>3
            DEF AtLoop, Severed, Open1, Dry, Outside
    <2>13. ToCome'
        <3>1. ASSUME NEW m \in 1..Len(sh.cmds), m > i + 1, Word(t.cmds[m])
              PROVE  /\ t.cmds[m].write \in {<<-1, -1>>, <<-1, out>>}
                     /\ t.cmds[m].read[1] = -1 \/ t.cmds[m].write[2] = out
            <4>1. m > i /\ m # i + 1
                BY <1>3, <3>1
            <4>2. Word(sh.cmds[m])
                BY <1>6, <3>1 DEF Word
            <4>3. /\ sh.cmds[m].write \in {<<-1, -1>>, <<-1, out>>}
                  /\ \/ cmd \in DOMAIN Fan /\ m \in Heads
                     \/ sh.cmds[m].read[1] = -1
                     \/ sh.cmds[m].write[2] = out
                BY <1>4, <4>1, <4>2 DEF ToCome
            <4>4. /\ t.cmds[m].read = sh.cmds[m].read
                  /\ t.cmds[m].write = IF cmd \in {"||", "|||"} /\ m \in Heads
                                       THEN <<sh.cmds[m].write[1], out>> ELSE sh.cmds[m].write
                BY <1>1, <1>5
            <4>5. m \in Heads => cmd # "|"
                <5>1. cmd = "|" => Fed
                    BY <1>1, OpsAre DEF Typing, Shape
                <5> QED
                    BY <1>3, <4>1, <5>1, HeadsAre, OpsAre
            <4>6. m \in Heads /\ cmd \in DOMAIN Fan => cmd \in {"||", "|||"}
                BY <4>5, OpsAre
            <4>7. CASE cmd \in {"||", "|||"} /\ m \in Heads
                <5>1. t.cmds[m].write = <<sh.cmds[m].write[1], out>> /\ sh.cmds[m].write[1] = -1
                    BY <4>3, <4>4, <4>7
                <5> QED
                    BY <5>1
            <4>8. CASE ~(cmd \in {"||", "|||"} /\ m \in Heads)
                <5>1. t.cmds[m].read = sh.cmds[m].read /\ t.cmds[m].write = sh.cmds[m].write
                    BY <4>4, <4>8
                <5> QED
                    BY <4>3, <4>6, <4>8, <5>1
            <4> QED
                BY <4>7, <4>8
        <3> QED
            BY <1>1, <1>2, <1>5, <1>6, <2>1, <3>1 DEF ToCome
    <2> QED
        BY <1>1, <2>12, <2>13 DEF Flows
<1> QED
    BY <1>7, <1>8

\* Such a line keeps the copy loop supplied, from one command to the next.
LEMMA FlowingStep ==
    ASSUME Typing, Typing', Outs, Held, Held', Straightened, Flowing, [Next]_vars
    PROVE  Flowing'
<1> SUFFICES ASSUME Piping', Good'
             PROVE  Flows'
    BY DEF Flowing
<1>1. Aside' /\ pc' # "redirect" /\ pc' # "single"
    BY DEF Held, Busy, Piping, Good
<1>2. ASSUME NEW typed \in Lines, Enter(typed)
      PROVE  Flows'
    <2>1. pc' = "loop"
        BY <1>1, <1>2, EnterIs
    <2> QED
        BY <1>1, <1>2, <2>1, FlowsEnter
<1>3. CASE Complete \/ Finish \/ ReapSingle \/ Nest \/ Exit \/ InputLost \/ Single
    <2>1. pc' \in {"prompt", "gone", "spin", "single"}
        BY <1>3, TypeComplete DEF Finish, ReapSingle, Nest, Exit, InputLost, Quit, Return, Single
    <2> QED
        BY <2>1 DEF Piping
<1>4. CASE Redirect
    <2>1. pc = "redirect" /\ pc' \in {pc, "prompt", "gone"}
        BY <1>4, RedirectIs DEF Return, Quit
    <2> QED
        BY <2>1 DEF Piping
<1>5. ASSUME lines' \in 0..MaxLines, Piped
      PROVE  Flows'
    <2>1. Piping
        <3>1. CASE CopyBlock \/ Child \/ Interrupt
            <4>1. pc' = pc
                BY <3>1 DEF CopyBlock, Child, ChildRead, ChildEof, ChildWrite, Interrupt
            <4> QED
                BY <4>1 DEF Piping
        <3>2. CASE ~(CopyBlock \/ Child \/ Interrupt)
            BY <1>5, <3>2 DEF Piping, Piped, Feed, Semicolon, Skip, Fork, Reap, CopyEnd
        <3> QED
            BY <3>1, <3>2
    <2>2. Good
        <3>1. sh' \in Shells
            BY TypeNext DEF Typing
        <3>2. Moves
            BY <1>5, PipedMoves
        <3> QED
            BY <3>1, <3>2, GoodMoves
    <2>3. Flows /\ Straight /\ Aside /\ ~sh'.refused
        BY <2>1, <2>2 DEF Flowing, Straightened, Held, Busy, Piping, Good
    <2>4. CASE Feed
        BY <1>5, <2>3, <2>4, FlowsFeed
    <2>5. CASE Semicolon
        BY <2>2, <2>3, <2>5, FlowsSemicolon
    <2>6. CASE Skip
        BY <2>2, <2>3, <2>6, FlowsSkip
    <2>7. CASE Fork
        BY <1>5, <2>3, <2>7, FlowsFork
    <2>8. CASE Reap
        BY <1>5, <2>2, <2>3, <2>8, FlowsReap
    <2>9. CASE CopyBlock
        BY <1>5, <2>3, <2>9, FlowsCopyBlock
    <2>10. CASE CopyEnd
        BY <1>5, <2>2, <2>3, <2>10, FlowsCopyEnd
    <2>11. CASE Child \/ Interrupt
        BY <1>5, <2>1, <2>3, <2>11, FlowsChild
    <2> QED
        BY <1>5, <2>4, <2>5, <2>6, <2>7, <2>8, <2>9, <2>10, <2>11 DEF Piped
<1>6. CASE UNCHANGED vars
    <2>1. UNCHANGED <<pc, sh, i, out, nest, before>>
        BY <1>6 DEF vars, locals, history
    <2>2. Piping /\ Good
        BY <2>1 DEF Piping, Good, LastFork, Joined
    <2>3. Flows
        BY <2>2 DEF Flowing
    <2>4. /\ cmd' = cmd /\ Next1' = Next1 /\ Heads' = Heads
          /\ Source(sh)' = Source(sh) /\ Sinks(sh)' = Sinks(sh)
          /\ SourceFile' = SourceFile /\ SinkFiles' = SinkFiles
        BY <2>1, SameCopy
    <2>5. AtLoop' <=> AtLoop
        BY <2>1, <2>4 DEF AtLoop, Severed, Dry, Outside
    <2>6. AtStage' <=> AtStage
        BY <2>1 DEF AtStage, Sole, Outside
    <2>7. AtCopy' <=> AtCopy
        BY <2>1, <2>4 DEF AtCopy, Dry, Sole, Outside
    <2>8. ToCome' <=> ToCome
        BY <2>1, <2>4 DEF ToCome
    <2> QED
        BY <2>1, <2>3, <2>5, <2>6, <2>7, <2>8 DEF Flows
<1>7. ASSUME (Work \/ Child \/ InputLost \/ Exit \/ Interrupt) /\ UNCHANGED lines
      PROVE  Flows'
    <2>1. lines' \in 0..MaxLines
        BY <1>7, TypeIs DEF Typing
    <2> QED
        BY <1>7, <2>1, <1>3, <1>4, <1>5 DEF Work, Piped
<1> QED
    BY <1>2, <1>3, <1>6, <1>7 DEF Next

\* What is left to copy fits, and has a reader.
LEMMA FlowsOn ==
    ASSUME Typing, pc = "copy", AtCopy
    PROVE  \/ AtEnd(sh, SourceFile, {})
           \/ \E p \in Pipes : /\ SourceFile = ReadEnd(p) /\ sh.pipe[p] # << >>
                              /\ \A q \in Pipes : WriteEnd(q) \in SinkFiles =>
                                    Room(sh, q) /\ HasEnd(sh, ReadEnd(q))
<1>1. sh \in Shells /\ Waiting
    BY TypeUse
<1>2. ASSUME NEW p \in Pipes, SourceFile = ReadEnd(p), sh.pipe[p] # << >>
      PROVE  \A q \in Pipes : WriteEnd(q) \in SinkFiles => Room(sh, q) /\ HasEnd(sh, ReadEnd(q))
    <2> SUFFICES ASSUME NEW q \in Pipes, WriteEnd(q) \in SinkFiles
                 PROVE  Room(sh, q) /\ HasEnd(sh, ReadEnd(q))
        OBVIOUS
    <2>1. /\ \E n \in Fds : sh.fd[n] = ReadEnd(q)
          /\ Len(sh.pipe[p]) + Len(sh.pipe[q]) <= PipeCap
        BY <1>2 DEF AtCopy
    <2>2. sh.pipe[p] \in Seq(Nat) /\ sh.pipe[q] \in Seq(Nat)
        BY <1>1, ShellIs
    <2>3. Len(sh.pipe[p]) \in Nat /\ Len(sh.pipe[q]) \in Nat /\ Len(sh.pipe[p]) # 0
        BY <1>2, <2>2, LenProperties, EmptySeq
    <2>4. Len(sh.pipe[q]) < PipeCap
        <3> DEFINE a == Len(sh.pipe[p])
                   b == Len(sh.pipe[q])
        <3>1. a \in Nat /\ b \in Nat /\ a # 0 /\ a + b <= PipeCap /\ PipeCap \in Nat
            BY <2>1, <2>3, ShellAssumption
        <3> HIDE DEF a, b
        <3>2. b < PipeCap
            BY <3>1
        <3> QED
            BY <3>2 DEF b
    <2>5. HasEnd(sh, ReadEnd(q))
        BY <1>1, <2>1, HasEndIs
    <2> QED
        BY <2>4, <2>5 DEF Room
<1>3. ASSUME \A p \in Pipes : SourceFile = ReadEnd(p) => sh.pipe[p] = << >>
      PROVE  AtEnd(sh, SourceFile, {})
    <2>1. \A p \in Pipes : SourceFile = ReadEnd(p) => ~HasEnd(sh, WriteEnd(p))
        BY <1>1, DryIs DEF AtCopy
    <2> QED
        BY <1>3, <2>1 DEF AtEnd
<1> QED
    BY <1>2, <1>3

\* CopyGoesOn, for any lines, programs, descriptors and pipes: on a line whose
\* operators stand behind stages, and with descriptors for all of it, the shell
\* never waits for itself in the copy loop, and nothing that it writes kills it.
\* It is so since a stage is reaped, and its write end closed, before its pipe
\* is read, since the pipe that is written is as large and was made empty, and
\* since the reader of that pipe is closed only behind the next command.
THEOREM CopyNeverStuck == Spec => []CopyGoesOn
<1>1. Init => Guarded /\ Flowing
    <2> SUFFICES ASSUME Init
                 PROVE  Guarded /\ Flowing
        OBVIOUS
    <2>1. pc = "prompt"
        BY DEF Init
    <2> QED
        BY <2>1, TypeInit, OutsInit DEF Guarded, Held, Busy, Kept, Straightened, Piping, Flowing
<1>2. Guarded /\ Guarded' /\ Flowing /\ [Next]_vars => Flowing'
    BY FlowingStep DEF Guarded
<1>3. Guarded /\ Flowing => CopyGoesOn
    <2> SUFFICES ASSUME Guarded, Flowing, pc = "copy", Good
                 PROVE  \/ AtEnd(sh, SourceFile, {})
                        \/ \E p \in Pipes : /\ SourceFile = ReadEnd(p) /\ sh.pipe[p] # << >>
                                           /\ \A q \in Pipes : WriteEnd(q) \in SinkFiles =>
                                                 Room(sh, q) /\ HasEnd(sh, ReadEnd(q))
        BY DEF CopyGoesOn, Good
    <2>1. AtCopy
        BY DEF Flowing, Flows, Piping
    <2> QED
        BY <2>1, FlowsOn DEF Guarded
<1> QED
    BY <1>1, <1>2, <1>3, GuardedAlways, PTL DEF Spec

=============================================================================
