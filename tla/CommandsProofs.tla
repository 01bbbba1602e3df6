----------------------------- MODULE CommandsProofs -----------------------------
(***************************************************************************)
(* What comes before and after a restore: the line of the file that an     *)
(* error tells, for every file and every document; the limits of a target  *)
(* for all quantities, units and widths of integer; a run after doctor, in *)
(* every environment; the verdict over every list of checks, and over all  *)
(* that a client may print.                                                *)
(*                                                                         *)
(* LinesInv says what interpolateEnv knows between two parts of a file,    *)
(* PlaceInv where the field of a broken rule comes from; LimitsInv what    *)
(* the engine has parsed before the runtime reads it; DoctorInv what each  *)
(* check of doctor has established of the environment, and keeps;          *)
(* ChecksInv that answers and results are those of the checks in their     *)
(* order, so that the question is one of a single expectation              *)
(* (EvalIsMeant, MeantIsEval).                                             *)
(*                                                                         *)
(* A recursive function is chosen.  What it is follows where a function    *)
(* that solves its equation is shown to exist: step by step (Loop), or     *)
(* from the last node of a tree to the first (Downward).                   *)
(***************************************************************************)
EXTENDS Commands, FiniteSetTheorems, WellFoundedInduction, TLAPS

-----------------------------------------------------------------------------
(* Induction, and loops                                                    *)

\* A set of numbers has a smallest.
LEMMA SmallestExists ==
  ASSUME NEW S, S \subseteq Nat, S # {}
  PROVE  \E k \in S : \A j \in S : k <= j
<1> DEFINE R == OpToRel(<, Nat)
<1>1. \A i, j \in Nat : <<i, j>> \in R <=> i < j
  BY DEF OpToRel
<1>2. IsWellFoundedOn(R, Nat)
  BY NatLessThanWellFounded
<1> HIDE DEF R
<1>3. PICK k \in S : \A j \in S : ~ (<<j, k>> \in R)
  BY <1>2, WFMin
<1>4. \A j \in S : k <= j
  <2> SUFFICES ASSUME NEW j \in S PROVE k <= j
    OBVIOUS
  <2>1. j \in Nat /\ k \in Nat
    OBVIOUS
  <2>2. ~ (j < k)
    BY <1>1, <1>3, <2>1
  <2> QED BY <2>1, <2>2
<1> QED BY <1>4

\* Induction up to a bound, for a set of numbers: there is no smallest one that
\* is missing.
LEMMA UpTo ==
  ASSUME NEW n \in Nat, NEW T, 0 \in T,
         \A i \in 0..n : i \in T /\ i < n => i + 1 \in T
  PROVE  0..n \subseteq T
<1> DEFINE B == {i \in 0..n : i \notin T}
<1> SUFFICES ASSUME B # {} PROVE FALSE
  OBVIOUS
<1>1. PICK m \in B : \A k \in B : m <= k
  <2>1. B \subseteq Nat
    OBVIOUS
  <2> HIDE DEF B
  <2> QED BY <2>1, SmallestExists
<1>2. m \in 0..n /\ m # 0 /\ m - 1 \in 0..n /\ m - 1 \notin B
  BY <1>1
<1> QED
  BY <1>2

\* The states of a loop of n steps.
IsLoop(f, n, base, F) == f[0] = base /\ \A i \in 1..n : f[i] = F[i][f[i - 1]]

\* A loop whose steps stay in S has them.
LEMMA Loop ==
  ASSUME NEW S, NEW base \in S, NEW n \in Nat, NEW F \in [1..n -> [S -> S]]
  PROVE  \E f \in [0..n -> S] : IsLoop(f, n, base, F)
<1> DEFINE Runs(m, f) == f[0] = base /\ \A i \in 1..m : f[i] = F[i][f[i - 1]]
           T == {m \in 0..n : \E f \in [0..m -> S] : Runs(m, f)}
<1>1. 0 \in T
  <2> DEFINE f == [i \in 0..0 |-> base]
  <2>1. f \in [0..0 -> S] /\ Runs(0, f) /\ 0 \in 0..n
    OBVIOUS
  <2> HIDE DEF f, Runs
  <2> QED BY <2>1
<1>2. ASSUME NEW m \in 0..n, m \in T, m < n PROVE m + 1 \in T
  <2>1. PICK f \in [0..m -> S] : Runs(m, f)
    BY <1>2
  <2> DEFINE g == [i \in 0..(m + 1) |-> IF i = m + 1 THEN F[m + 1][f[m]] ELSE f[i]]
  <2>2. F[m + 1][f[m]] \in S
    <3>1. m + 1 \in 1..n /\ f[m] \in S
      BY <1>2
    <3> QED BY <3>1
  <2>3. g \in [0..(m + 1) -> S]
    BY <2>2
  <2>4. Runs(m + 1, g)
    <3>1. g[0] = base
      BY <2>1
    <3>2. ASSUME NEW i \in 1..(m + 1) PROVE g[i] = F[i][g[i - 1]]
      BY <2>1
    <3> QED BY <3>1, <3>2
  <2>5. m + 1 \in 0..n
    BY <1>2
  <2> QED BY <2>3, <2>4, <2>5
<1>3. n \in T
  <2> HIDE DEF T
  <2>1. 0..n \subseteq T
    BY <1>1, <1>2, UpTo
  <2> QED BY <2>1
<1> QED BY <1>3 DEF IsLoop

-----------------------------------------------------------------------------
(* Breaks of a text                                                        *)

\* What a text is made of: breaks, and any other character.
Char == Breaks \cup {"x"}
\* Whether a line feed would join the break the text ends in.
EndsInCR(text) == text # <<>> /\ text[Len(text)] = "CR"
\* The breaks that one more character adds to the text.
One(text, ch) == IF ch \notin Breaks \/ (ch = "LF" /\ EndsInCR(text)) THEN 0 ELSE 1

\* The breaks of a text are counted in whole numbers.
LEMMA BreaksType ==
  ASSUME NEW text \in Seq(Char)
  PROVE  LineBreaks(text) \in Nat
<1>1. {i \in DOMAIN text : EndsBreak(text, i)} \in SUBSET (1..Len(text))
  OBVIOUS
<1>2. IsFiniteSet(1..Len(text))
  BY FS_Interval
<1> QED BY <1>1, <1>2, FS_Subset, FS_CardinalityType DEF LineBreaks

\* One more character: one more break, unless it is none or the second half of one.
LEMMA OneMore ==
  ASSUME NEW text \in Seq(Char), NEW ch \in Char
  PROVE  LineBreaks(Append(text, ch)) = LineBreaks(text) + One(text, ch)
<1> DEFINE n == Len(text)
           t == Append(text, ch)
           A == {i \in DOMAIN text : EndsBreak(text, i)}
           B == {i \in DOMAIN t : EndsBreak(t, i)}
<1>1. /\ n \in Nat /\ t \in Seq(Char) /\ Len(t) = n + 1 /\ t[n + 1] = ch
      /\ \A i \in 1..n : t[i] = text[i] /\ text[i] \in Char
      /\ DOMAIN text = 1..n /\ DOMAIN t = 1..(n + 1)
  OBVIOUS
<1>2. IsFiniteSet(A) /\ n + 1 \notin A
  <2>1. A \in SUBSET (1..n) /\ IsFiniteSet(1..n)
    BY <1>1, FS_Interval
  <2> QED BY <1>1, <2>1, FS_Subset
<1> HIDE DEF t
<1>3. LineBreaks(text) = Cardinality(A) /\ LineBreaks(t) = Cardinality(B)
  BY Zenon DEF LineBreaks
<1>4. Cardinality(A) \in Nat
  BY <1>2, FS_CardinalityType
<1> HIDE DEF t
<1>5. \A i \in 1..n : i # n => (i \in A <=> i \in B)
  <2>1. n \in Nat /\ Len(t) = n + 1 /\ Len(text) = n
    BY <1>1
  <2>2. \A i \in 1..n : i # n => i + 1 \in 1..n /\ i < n /\ i < n + 1 /\ i \in 1..(n + 1)
    <3> HIDE DEF n, A, B
    <3> QED BY <2>1
  <2>3. ASSUME NEW i \in 1..n, i # n PROVE i \in A <=> i \in B
    <3>1. i + 1 \in 1..n /\ i < Len(t) /\ i < Len(text) /\ i \in 1..(n + 1)
      BY <2>1, <2>2, <2>3
    <3>2. t[i] = text[i] /\ t[i + 1] = text[i + 1]
      BY <1>1, <3>1
    <3>3. EndsBreak(text, i) <=> EndsBreak(t, i)
      BY <3>1, <3>2 DEF EndsBreak
    <3> QED BY <1>1, <3>1, <3>3
  <2> QED BY <2>3
<1>6. n # 0 => (n \in A <=> text[n] \in Breaks)
  BY <1>1 DEF EndsBreak
<1>7. n # 0 => (n \in B <=> text[n] \in Breaks /\ ~(text[n] = "CR" /\ ch = "LF"))
  BY <1>1 DEF EndsBreak
<1>8. n + 1 \in B <=> ch \in Breaks
  BY <1>1 DEF EndsBreak
<1>9. A \subseteq 1..n /\ B \subseteq 1..(n + 1)
  BY <1>1
<1>13. 1..(n + 1) = (1..n) \cup {n + 1}
  BY <1>1
<1> HIDE DEF A, B
<1>10. CASE ch \notin Breaks
  <2>1. B = A
    <3>1. n + 1 \notin B
      BY <1>8, <1>10
    <3>2. n # 0 => (n \in A <=> n \in B)
      BY <1>6, <1>7, <1>10 DEF Breaks
    <3>3. \A i \in 1..n : i \in A <=> i \in B
      <4> HIDE DEF n
      <4> QED BY <1>5, <3>2
    <3> QED BY <1>9, <1>13, <3>1, <3>3
  <2> QED BY <1>3, <1>4, <1>10, <2>1 DEF t, One
<1>11. CASE ch \in Breaks /\ ~(ch = "LF" /\ EndsInCR(text))
  <2>1. n # 0 => (n \in A <=> n \in B)
    BY <1>6, <1>7, <1>11 DEF EndsInCR
  <2>2. \A i \in 1..n : i \in A <=> i \in B
    <3> HIDE DEF n
    <3> QED BY <1>5, <2>1
  <2>3. B = A \cup {n + 1}
    <3>1. n + 1 \in B
      BY <1>8, <1>11
    <3> QED BY <1>9, <1>13, <2>2, <3>1
  <2>4. Cardinality(B) = Cardinality(A) + 1
    BY <1>2, <2>3, FS_AddElement
  <2>5. One(text, ch) = 1
    BY <1>11 DEF One
  <2> QED BY <1>3, <2>4, <2>5 DEF t
<1>12. CASE ch = "LF" /\ EndsInCR(text)
  <2>1. n # 0 /\ n \in A /\ n \notin B /\ n + 1 \in B
    BY <1>1, <1>6, <1>7, <1>8, <1>12 DEF EndsInCR, Breaks
  <2> DEFINE C == A \ {n}
  <2>2. A = C \cup {n} /\ n \notin C /\ n + 1 \notin C
    BY <1>2, <2>1
  <2>3. B = C \cup {n + 1}
    <3>1. \A i \in 1..n : i # n => (i \in A <=> i \in B)
      BY <1>5
    <3> QED BY <1>9, <1>13, <2>1, <3>1
  <2>4. IsFiniteSet(C)
    BY <1>2, FS_RemoveElement
  <2> HIDE DEF C
  <2>5. Cardinality(A) = Cardinality(C) + 1 /\ Cardinality(B) = Cardinality(C) + 1
    BY <2>2, <2>3, <2>4, FS_AddElement
  <2>6. One(text, ch) = 0
    BY <1>12 DEF One
  <2> QED BY <1>3, <1>4, <2>5, <2>6 DEF t
<1> QED BY <1>10, <1>11, <1>12 DEF Char

-----------------------------------------------------------------------------
(* The lines of the file                                                   *)

\* Where a character of the text comes from.
Spots == [at : Nat, literal : BOOLEAN]
\* What a placeholder of the file spans, and where its value ends.
Passages == [at : Nat, to : Nat, end : Nat]
\* n is the least element of S.
Least(n, S) == n \in S /\ \A m \in S : n <= m

\* Every line of the text has its number, the least the file allows.
EachLine(f, ps, text, from, lines) ==
  \A b \in DOMAIN text : Begins(text, b) =>
    /\ LineOf(text, b) \in DOMAIN lines
    /\ EndsInCR(text) => LineOf(text, b) # Len(lines)
    /\ Least(lines[LineOf(text, b)], Lines(f, ps, BreakOf(text, from, b), from[b].at))

\* The last number, when nothing stands on its line yet.
NextLine(f, ps, text, from, lines, at) ==
  text = <<>> \/ text[Len(text)] \in Breaks =>
    Least(lines[Len(lines)], Lines(f, ps, BreakOf(text, from, Len(text) + 1), at))

\* The numbers follow the file: the invariant of writeText.
Follows(f, ps, text, from, lines, at) ==
  /\ lines \in Seq(Nat) /\ Len(lines) = LineBreaks(text) + 1
  /\ EachLine(f, ps, text, from, lines)
  /\ NextLine(f, ps, text, from, lines, at)

\* The numbers after one more character of the text.
LinesAfter(lines, n, cr, ch, literal) ==
  IF ch \notin Breaks THEN lines
  ELSE IF ch # "LF" \/ ~cr THEN Append(lines, n)
  ELSE CorrectLast(lines, n, literal)

\* A character leaves what comes before it where it was.
LEMMA Before ==
  ASSUME NEW text \in Seq(Char), NEW from \in Seq(Spots), Len(from) = Len(text),
         NEW ch \in Char, NEW spot \in Spots
  PROVE  LET t == Append(text, ch)
             q == Append(from, spot)
             m == Len(text)
         IN /\ \A b \in 1..m : /\ Begins(t, b) <=> Begins(text, b)
                               /\ LineOf(t, b) = LineOf(text, b)
            /\ \A b \in 1..(m + 1) : BreakOf(t, q, b) = BreakOf(text, from, b)
            /\ LineOf(t, m + 1) = LineBreaks(text) + 1
            /\ Begins(t, m + 1) => text = <<>> \/ text[m] \in Breaks
            /\ Begins(t, m + 1) => ~(ch = "LF" /\ EndsInCR(text))
<1> DEFINE t == Append(text, ch)
           q == Append(from, spot)
           m == Len(text)
<1>1. /\ m \in Nat /\ t \in Seq(Char) /\ Len(t) = m + 1 /\ t[m + 1] = ch /\ DOMAIN t = 1..(m + 1)
      /\ \A i \in 1..m : t[i] = text[i] /\ q[i] = from[i]
      /\ m = 0 => text = <<>>
  OBVIOUS
<1>2. ASSUME NEW k \in 0..m PROVE SubSeq(t, 1, k) = SubSeq(text, 1, k)
  BY <1>1
<1>3. ASSUME NEW b \in 1..m PROVE Begins(t, b) <=> Begins(text, b)
  <2>1. CASE b = 1
    BY <2>1 DEF Begins
  <2>2. CASE b # 1
    <3> DEFINE i == b - 1
    <3>1. i \in 1..m /\ i + 1 \in 1..m /\ i < m /\ i < Len(t) /\ i < Len(text)
      BY <1>1, <2>2
    <3>2. t[i] = text[i] /\ t[i + 1] = text[i + 1]
      BY <1>1, <3>1
    <3>3. EndsBreak(t, i) <=> EndsBreak(text, i)
      BY <3>1, <3>2 DEF EndsBreak
    <3> QED BY <2>2, <3>3 DEF Begins
  <2> QED BY <2>1, <2>2
<1>4. ASSUME NEW b \in 1..m PROVE LineOf(t, b) = LineOf(text, b)
  <2>1. b - 1 \in 0..m
    BY <1>1
  <2>2. SubSeq(t, 1, b - 1) = SubSeq(text, 1, b - 1)
    BY <1>2, <2>1
  <2> QED BY <2>2 DEF LineOf
<1>5. ASSUME NEW b \in 1..(m + 1) PROVE BreakOf(t, q, b) = BreakOf(text, from, b)
  <2>1. b > 2 => b - 1 \in 1..m /\ b - 2 \in 1..m
    BY <1>1
  <2>2. b > 2 => t[b - 1] = text[b - 1] /\ t[b - 2] = text[b - 2] /\ q[b - 1] = from[b - 1]
    BY <1>1, <2>1
  <2> QED BY <2>2 DEF BreakOf
<1>6. LineOf(t, m + 1) = LineBreaks(text) + 1
  <2>1. SubSeq(t, 1, m) = text /\ (m + 1) - 1 = m
    BY <1>1
  <2>2. LineBreaks(text) \in Nat
    BY BreaksType
  <2>3. LineOf(t, m + 1) = 1 + LineBreaks(SubSeq(t, 1, (m + 1) - 1))
    BY Zenon DEF LineOf
  <2> HIDE DEF t, m
  <2>4. LineBreaks(SubSeq(t, 1, (m + 1) - 1)) = LineBreaks(text)
    BY Zenon, <2>1
  <2> QED BY <2>2, <2>3, <2>4
<1>7. ASSUME Begins(t, m + 1)
      PROVE  (text = <<>> \/ text[m] \in Breaks) /\ ~(ch = "LF" /\ EndsInCR(text))
  <2>1. CASE m = 0
    BY <1>1, <2>1 DEF EndsInCR
  <2>2. CASE m # 0
    <3>1. m + 1 # 1 /\ (m + 1) - 1 = m /\ m < m + 1 /\ m \in 1..m
      BY <1>1, <2>2
    <3>2. EndsBreak(t, m)
      BY <1>7, <3>1 DEF Begins
    <3>3. t[m] \in Breaks /\ (t[m] = "CR" => ch # "LF")
      BY <1>1, <3>1, <3>2 DEF EndsBreak
    <3> QED BY <1>1, <3>1, <3>3 DEF EndsInCR
  <2> QED BY <2>1, <2>2
<1> QED BY <1>3, <1>4, <1>5, <1>6, <1>7

\* The three ways in which a character moves the lines on.
LEMMA OneCharacter ==
  ASSUME NEW f, NEW text \in Seq(Char), NEW from \in Seq(Spots), Len(from) = Len(text),
         NEW ps \in SUBSET Passages, \A p \in ps : p.end <= Len(text),
         NEW at \in Nat, NEW literal \in BOOLEAN, NEW ch \in Char, NEW lines, NEW n \in Nat,
         n = LineOf(f, IF literal THEN at + 1 ELSE at),
         Follows(f, ps, text, from, lines, at)
  PROVE  Follows(f, ps, Append(text, ch), Append(from, [at |-> at, literal |-> literal]),
                 LinesAfter(lines, n, EndsInCR(text), ch, literal),
                 IF literal THEN at + 1 ELSE at)
<1> DEFINE spot == [at |-> at, literal |-> literal]
           t == Append(text, ch)
           q == Append(from, spot)
           m == Len(text)
           next == IF literal THEN at + 1 ELSE at
           after == LinesAfter(lines, n, EndsInCR(text), ch, literal)
<1> SUFFICES Follows(f, ps, t, q, after, next)
  OBVIOUS
<1>1. spot \in Spots
  BY DEF Spots
<1>2. /\ m \in Nat /\ t \in Seq(Char) /\ Len(t) = m + 1 /\ t[m + 1] = ch /\ t # <<>>
      /\ DOMAIN t = 1..(m + 1) /\ DOMAIN text = 1..m
      /\ \A i \in 1..m : t[i] = text[i] /\ q[i] = from[i]
      /\ q[m + 1] = spot
      /\ m = 0 <=> text = <<>>
  OBVIOUS
<1>3. /\ \A b \in 1..m : /\ Begins(t, b) <=> Begins(text, b)
                         /\ LineOf(t, b) = LineOf(text, b)
      /\ \A b \in 1..(m + 1) : BreakOf(t, q, b) = BreakOf(text, from, b)
      /\ LineOf(t, m + 1) = LineBreaks(text) + 1
      /\ Begins(t, m + 1) => text = <<>> \/ text[m] \in Breaks
      /\ Begins(t, m + 1) => ~(ch = "LF" /\ EndsInCR(text))
  <2> HIDE DEF spot
  <2> QED BY <1>1, Before
<1>4. /\ lines \in Seq(Nat) /\ Len(lines) = LineBreaks(text) + 1
      /\ EachLine(f, ps, text, from, lines)
      /\ NextLine(f, ps, text, from, lines, at)
  BY DEF Follows
<1>5. LineBreaks(text) \in Nat /\ LineBreaks(t) = LineBreaks(text) + One(text, ch)
  BY BreaksType, OneMore
<1>6. EndsInCR(t) <=> ch = "CR"
  BY <1>2 DEF EndsInCR
<1>7. spot.at = at /\ spot.literal = literal
  OBVIOUS
<1>8. Begins(t, m + 1) => Least(lines[Len(lines)], Lines(f, ps, BreakOf(t, q, m + 1), at))
  <2>1. m + 1 \in 1..(m + 1)
    BY <1>2
  <2>2. BreakOf(t, q, m + 1) = BreakOf(text, from, m + 1)
    BY <1>3, <2>1
  <2> HIDE DEF t, q
  <2> QED BY <1>3, <1>4, <2>2 DEF NextLine
<1>9. 1..(m + 1) = (1..m) \cup {m + 1}
  BY <1>2
\* What is left: the lines before, at their places.
<1>10. ASSUME after \in Seq(Nat), Len(after) = LineBreaks(t) + 1,
              \A b \in 1..m : Begins(text, b) =>
                (LineOf(text, b) # Len(lines) \/ ~ (ch = "LF" /\ EndsInCR(text)) =>
                  /\ LineOf(text, b) \in DOMAIN after
                  /\ after[LineOf(text, b)] = lines[LineOf(text, b)]
                  /\ ch = "CR" => LineOf(text, b) # Len(after)),
              Begins(t, m + 1) => /\ Len(lines) \in DOMAIN after
                                  /\ after[Len(lines)] = lines[Len(lines)]
                                  /\ ch = "CR" => Len(lines) # Len(after),
              NextLine(f, ps, t, q, after, next)
       PROVE  Follows(f, ps, t, q, after, next)
  <2>1. ASSUME NEW b \in 1..m, Begins(t, b)
        PROVE  /\ LineOf(t, b) \in DOMAIN after
               /\ EndsInCR(t) => LineOf(t, b) # Len(after)
               /\ Least(after[LineOf(t, b)], Lines(f, ps, BreakOf(t, q, b), q[b].at))
    <3>1. /\ Begins(text, b) /\ LineOf(t, b) = LineOf(text, b) /\ q[b] = from[b]
          /\ BreakOf(t, q, b) = BreakOf(text, from, b)
      <4>1. b \in 1..(m + 1)
        BY <1>2
      <4> HIDE DEF t, q, m
      <4> QED BY <1>2, <1>3, <2>1, <4>1
    <3>2. /\ EndsInCR(text) => LineOf(text, b) # Len(lines)
          /\ Least(lines[LineOf(text, b)], Lines(f, ps, BreakOf(text, from, b), from[b].at))
      BY <1>2, <1>4, <3>1 DEF EachLine
    <3>3. /\ LineOf(text, b) \in DOMAIN after
          /\ after[LineOf(text, b)] = lines[LineOf(text, b)]
          /\ ch = "CR" => LineOf(text, b) # Len(after)
      <4> HIDE DEF after, t, q, m
      <4> QED BY <1>10, <3>1, <3>2
    <3> HIDE DEF after, t, q, m
    <3> QED BY <1>6, <3>1, <3>2, <3>3
  <2>2. ASSUME Begins(t, m + 1)
        PROVE  /\ LineOf(t, m + 1) \in DOMAIN after
               /\ EndsInCR(t) => LineOf(t, m + 1) # Len(after)
               /\ Least(after[LineOf(t, m + 1)], Lines(f, ps, BreakOf(t, q, m + 1), q[m + 1].at))
    <3>1. LineOf(t, m + 1) = Len(lines) /\ q[m + 1].at = at
      BY <1>2, <1>3, <1>4, <1>7
    <3> HIDE DEF after, t, q, m
    <3> QED BY <1>6, <1>8, <1>10, <2>2, <3>1
  <2>3. EachLine(f, ps, t, q, after)
    <3> HIDE DEF after, q, m
    <3> QED BY <1>2, <1>9, <2>1, <2>2 DEF EachLine
  <2> HIDE DEF after, t, q, next
  <2> QED BY <1>10, <2>3 DEF Follows
<1>11. ASSUME NEW b \in 1..m, Begins(text, b)
       PROVE  /\ LineOf(text, b) \in 1..Len(lines)
              /\ EndsInCR(text) => LineOf(text, b) # Len(lines)
  BY <1>2, <1>4, <1>11 DEF EachLine
<1>12. CASE ch \notin Breaks
  <2>1. after = lines /\ ch # "CR" /\ One(text, ch) = 0
    BY <1>12 DEF LinesAfter, One, Breaks
  <2>2. NextLine(f, ps, t, q, after, next)
    BY <1>2, <1>12 DEF NextLine
  <2>3. Len(after) = LineBreaks(t) + 1
    <3> HIDE DEF t, after
    <3> QED BY <1>4, <1>5, <2>1
  <2>4. Len(lines) \in DOMAIN lines /\ DOMAIN lines = 1..Len(lines)
    BY <1>4, <1>5
  <2> HIDE DEF after, t, q, m, next
  <2> QED BY <1>4, <1>10, <1>11, <2>1, <2>2, <2>3, <2>4
<1>13. CASE ch \in Breaks /\ ~(ch = "LF" /\ EndsInCR(text))
  <2>1. after = Append(lines, n) /\ One(text, ch) = 1
    BY <1>13 DEF LinesAfter, One
  <2>2. /\ after \in Seq(Nat) /\ Len(after) = Len(lines) + 1 /\ after[Len(after)] = n
        /\ DOMAIN after = 1..(Len(lines) + 1) /\ Len(lines) \in Nat
        /\ \A i \in 1..Len(lines) : after[i] = lines[i] /\ i \in DOMAIN after /\ i # Len(after)
    <3> HIDE DEF after, t, q, m, next, spot
    <3> QED BY <1>4, <2>1
  <2>3. Len(after) = LineBreaks(t) + 1
    <3> HIDE DEF t, after
    <3> QED BY <1>4, <1>5, <2>1, <2>2
  <2>4. BreakOf(t, q, (m + 1) + 1) = m + 1
    <3>1. ((m + 1) + 1) - 1 = m + 1 /\ ((m + 1) + 1) - 2 = m /\ ((m + 1) + 1 > 2 => m # 0)
      BY <1>2
    <3>2. m # 0 /\ t[m] = "CR" => EndsInCR(text)
      <4>1. m # 0 => m \in 1..m
        BY <1>2
      <4> QED BY <1>2, <4>1 DEF EndsInCR
    <3> HIDE DEF t, q, m
    <3> QED BY <1>2, <1>13, <3>1, <3>2 DEF BreakOf
  <2>5. Lines(f, ps, m + 1, next) = {n}
    <3>1. \A p \in ps : ~ (m + 1 <= p.end)
      <4>1. \A p \in ps : p.end \in Nat
        BY DEF Passages
      <4> QED BY <1>2, <4>1
    <3> HIDE DEF m
    <3> QED BY <3>1 DEF Lines
  <2>6. NextLine(f, ps, t, q, after, next)
    <3>1. Least(n, {n})
      BY DEF Least
    <3> HIDE DEF t, q, after, next, m
    <3> QED BY <1>2, <2>2, <2>4, <2>5, <3>1 DEF NextLine
  <2>7. Len(lines) \in 1..Len(lines)
    BY <1>4, <1>5
  <2> HIDE DEF after, t, q, m, next
  <2> QED BY <1>10, <1>11, <2>2, <2>3, <2>6, <2>7
<1>14. CASE ch = "LF" /\ EndsInCR(text)
  <2>1. /\ after = CorrectLast(lines, n, literal) /\ One(text, ch) = 0 /\ ch # "CR"
        /\ ~Begins(t, m + 1) /\ m # 0 /\ text[m] = "CR"
    BY <1>2, <1>3, <1>14 DEF LinesAfter, One, EndsInCR, Breaks
  <2>2. Len(lines) \in 1..Len(lines) /\ DOMAIN lines = 1..Len(lines)
    BY <1>4, <1>5
  <2>3. /\ after \in Seq(Nat) /\ Len(after) = Len(lines) /\ DOMAIN after = 1..Len(lines)
        /\ \A i \in 1..Len(lines) : i # Len(lines) => after[i] = lines[i]
    <3> HIDE DEF after, t, q, m, next, spot
    <3>1. after = lines \/ after = [lines EXCEPT ![Len(lines)] = n]
      BY <2>1 DEF CorrectLast
    <3>2. CASE after = lines
      BY <1>4, <2>2, <3>2
    <3>3. CASE after = [lines EXCEPT ![Len(lines)] = n]
      BY <1>4, <2>2, <3>3
    <3> QED BY <3>1, <3>2, <3>3
  <2>4. Len(after) = LineBreaks(t) + 1
    <3> HIDE DEF t, after
    <3> QED BY <1>4, <1>5, <2>1, <2>3
  <2>5. /\ ((m + 1) + 1) - 1 = m + 1 /\ ((m + 1) + 1) - 2 = m /\ (m + 1) + 1 > 2
        /\ m \in 1..m
    BY <1>2, <2>1
  <2>6. NextLine(f, ps, t, q, after, next)
    <3>1. CASE literal
      <4>1. after[Len(after)] = n /\ n = LineOf(f, next)
        BY <1>4, <2>1, <2>2, <2>3, <3>1 DEF CorrectLast
      <4>2. BreakOf(t, q, (m + 1) + 1) = m + 1
        <5> HIDE DEF t, q, m
        <5> QED BY <1>2, <1>7, <2>5, <3>1 DEF BreakOf
      <4>3. Lines(f, ps, m + 1, next) = {n}
        <5>1. \A p \in ps : ~ (m + 1 <= p.end)
          <6>1. \A p \in ps : p.end \in Nat
            BY DEF Passages
          <6> QED BY <1>2, <6>1
        <5> HIDE DEF m, next
        <5> QED BY <4>1, <5>1 DEF Lines
      <4>4. Least(n, {n})
        BY DEF Least
      <4> HIDE DEF t, q, after, next, m
      <4> QED BY <1>2, <4>1, <4>2, <4>3, <4>4 DEF NextLine
    <3>2. CASE ~literal
      <4>1. after = lines /\ next = at
        BY <2>1, <3>2 DEF CorrectLast
      <4>2. BreakOf(t, q, (m + 1) + 1) = m
        <5>1. t[m + 1] = "LF" /\ t[m] = "CR" /\ ~q[m + 1].literal
          BY <1>2, <1>7, <1>14, <2>1, <2>5, <3>2
        <5> HIDE DEF t, q, m
        <5> QED BY <2>5, <5>1 DEF BreakOf
      <4>3. BreakOf(text, from, m + 1) = m
        <5>1. text[(m + 1) - 1] # "LF" /\ (m + 1) - 1 = m
          BY <1>2, <2>1
        <5> HIDE DEF m
        <5> QED BY <5>1 DEF BreakOf
      <4>4. text[m] \in Breaks
        BY <2>1 DEF Breaks
      <4>5. Least(lines[Len(lines)], Lines(f, ps, m, at))
        <5> HIDE DEF m
        <5>1. Least(lines[Len(lines)], Lines(f, ps, BreakOf(text, from, m + 1), at))
          BY <1>4, <4>4 DEF NextLine, m
        <5> QED BY <4>3, <5>1
      <4> HIDE DEF t, q, after, next, m
      <4> QED BY <1>2, <4>1, <4>2, <4>5 DEF NextLine
    <3> QED BY <3>1, <3>2
  <2> HIDE DEF after, t, q, m, next
  <2> QED BY <1>10, <1>11, <1>14, <2>1, <2>3, <2>4, <2>6
<1> HIDE DEF after, t, q, next
<1> QED BY <1>12, <1>13, <1>14

\* What is read of a file is a text, and a file that grows keeps it.
LEMMA Prefix ==
  ASSUME NEW f \in Seq(Char), NEW s \in Seq(Char)
  PROVE  /\ \A k \in 0..Len(f) : /\ SubSeq(f, 1, k) \in Seq(Char)
                                 /\ SubSeq(f \o s, 1, k) = SubSeq(f, 1, k)
         /\ \A k \in 0..Len(s) : /\ SubSeq(f \o s, 1, Len(f) + k) = f \o SubSeq(s, 1, k)
                                 /\ SubSeq(s, 1, k) \in Seq(Char) /\ Len(SubSeq(s, 1, k)) = k
         /\ \A k \in 0..Len(s) : k < Len(s) =>
              SubSeq(s, 1, k + 1) = Append(SubSeq(s, 1, k), s[k + 1])
         /\ SubSeq(s, 1, 0) = <<>> /\ SubSeq(s, 1, Len(s)) = s
<1>1. \A k \in 0..Len(f) : SubSeq(f, 1, k) \in Seq(Char) /\ SubSeq(f \o s, 1, k) = SubSeq(f, 1, k)
  OBVIOUS
<1>2. \A k \in 0..Len(s) : SubSeq(s, 1, k) \in Seq(Char) /\ Len(SubSeq(s, 1, k)) = k
  OBVIOUS
<1>3. ASSUME NEW k \in 0..Len(s) PROVE SubSeq(f \o s, 1, Len(f) + k) = f \o SubSeq(s, 1, k)
  <2> DEFINE a == SubSeq(f \o s, 1, Len(f) + k)
             b == f \o SubSeq(s, 1, k)
  <2>1. Len(a) = Len(f) + k /\ Len(b) = Len(f) + k /\ a \in Seq(Char) /\ b \in Seq(Char)
    OBVIOUS
  <2>2. \A i \in 1..(Len(f) + k) : a[i] = b[i]
    OBVIOUS
  <2> HIDE DEF a, b
  <2>3. a = b
    BY <2>1, <2>2
  <2> QED BY <2>3 DEF a, b
<1>4. \A k \in 0..Len(s) : k < Len(s) => SubSeq(s, 1, k + 1) = Append(SubSeq(s, 1, k), s[k + 1])
  OBVIOUS
<1>5. SubSeq(s, 1, 0) = <<>> /\ SubSeq(s, 1, Len(s)) = s
  OBVIOUS
<1> QED BY <1>1, <1>2, <1>3, <1>4, <1>5

\* The line of a place in the file is a number.
LEMMA LineType ==
  ASSUME NEW f \in Seq(Char), NEW at \in 1..(Len(f) + 1)
  PROVE  LineOf(f, at) \in Nat
<1>1. at - 1 \in 0..Len(f)
  OBVIOUS
<1>2. SubSeq(f, 1, at - 1) \in Seq(Char)
  BY <1>1, Prefix
<1>3. LineBreaks(SubSeq(f, 1, at - 1)) \in Nat
  BY <1>2, BreaksType
<1> QED BY <1>3 DEF LineOf

\* A text that does not begin with the second half of a break adds its own.
LEMMA TextsAdd ==
  ASSUME NEW f \in Seq(Char), NEW s \in Seq(Char), ~ (EndsInCR(f) /\ s[1] = "LF")
  PROVE  LineBreaks(f \o s) = LineBreaks(f) + LineBreaks(s)
<1> DEFINE n == Len(s)
           pre(k) == SubSeq(s, 1, k)
           T == {k \in 0..n : LineBreaks(f \o pre(k)) = LineBreaks(f) + LineBreaks(pre(k))}
<1>1. n \in Nat /\ pre(n) = s
  OBVIOUS
<1>2. 0 \in T
  <2>1. LineBreaks(<<>>) = 0
    <3>1. {i \in DOMAIN <<>> : EndsBreak(<<>>, i)} = {}
      OBVIOUS
    <3> QED BY <3>1, FS_EmptySet DEF LineBreaks
  <2>2. f \o pre(0) = f /\ pre(0) = <<>> /\ 0 \in 0..n
    OBVIOUS
  <2>3. LineBreaks(f) \in Nat
    BY BreaksType
  <2> HIDE DEF n, pre
  <2>4. LineBreaks(f \o pre(0)) = LineBreaks(f) /\ LineBreaks(pre(0)) = 0
    BY Zenon, <2>1, <2>2
  <2> QED BY <2>2, <2>3, <2>4
<1>3. ASSUME NEW k \in 0..n, k \in T, k < n PROVE k + 1 \in T
  <2> DEFINE ch == s[k + 1]
             a == pre(k)
             b == f \o pre(k)
  <2>1. pre(k + 1) = Append(a, ch) /\ a \in Seq(Char) /\ Len(a) = k
    BY <1>3, Prefix
  <2>2. b \in Seq(Char) /\ ch \in Char /\ k + 1 \in 0..n
    BY <1>3
  <2>3. f \o pre(k + 1) = Append(b, ch)
    <3> HIDE DEF pre, ch
    <3>1. f \o Append(pre(k), ch) = Append(f \o pre(k), ch)
      BY <2>1, <2>2
    <3> QED BY <2>1, <3>1
  <2>4. One(b, ch) = One(a, ch)
    <3>1. CASE k = 0
      <4>1. a = <<>> /\ b = f /\ ch = s[1]
        BY <3>1
      <4> HIDE DEF a, b, ch
      <4>2. ~EndsInCR(a) /\ ~ (ch = "LF" /\ EndsInCR(b))
        BY <4>1 DEF EndsInCR
      <4> QED BY <4>2 DEF One
    <3>2. CASE k # 0
      <4>1. a # <<>> /\ b # <<>> /\ a[Len(a)] = b[Len(b)]
        <5>1. Len(b) = Len(f) + k /\ k \in 1..n
          BY <1>3, <3>2
        <5>2. b[Len(f) + k] = a[k]
          BY <1>3, <3>2
        <5> HIDE DEF pre
        <5> QED BY <2>1, <5>1, <5>2
      <4> HIDE DEF a, b, ch
      <4>2. EndsInCR(a) <=> EndsInCR(b)
        BY <4>1 DEF EndsInCR
      <4> QED BY <4>2 DEF One
    <3> QED BY <3>1, <3>2
  <2>5. /\ LineBreaks(Append(a, ch)) = LineBreaks(a) + One(a, ch)
        /\ LineBreaks(Append(b, ch)) = LineBreaks(b) + One(b, ch)
    <3> HIDE DEF a, b, ch
    <3> QED BY <2>1, <2>2, OneMore
  <2>6. LineBreaks(b) = LineBreaks(f) + LineBreaks(a)
    BY <1>3
  <2>7. LineBreaks(a) \in Nat /\ LineBreaks(f) \in Nat /\ One(a, ch) \in Nat
    <3> HIDE DEF a, ch
    <3> QED BY <2>1, BreaksType DEF One
  <2>8. LineBreaks(f \o pre(k + 1)) = LineBreaks(f) + LineBreaks(pre(k + 1))
    <3> HIDE DEF a, b, ch, pre
    <3>1. /\ LineBreaks(f \o pre(k + 1)) = LineBreaks(Append(b, ch))
          /\ LineBreaks(pre(k + 1)) = LineBreaks(Append(a, ch))
      BY Zenon, <2>1, <2>3
    <3> QED BY <2>4, <2>5, <2>6, <2>7, <3>1
  <2> QED BY <2>2, <2>8
<1>4. 0..n \subseteq T
  <2> HIDE DEF T, n
  <2> QED BY <1>1, <1>2, <1>3, UpTo
<1>5. n \in T
  <2> HIDE DEF T
  <2> QED BY <1>1, <1>4
<1> QED BY <1>1, <1>5

\* Placeholders and characters that lie in a file.
Lies(f, ps, text, from) ==
  /\ ps \in SUBSET Passages /\ from \in Seq(Spots) /\ Len(from) = Len(text)
  /\ \A p \in ps : p.at \in 1..(Len(f) + 1) /\ p.to \in 1..(Len(f) + 1) /\ p.end <= Len(text)
  /\ \A b \in DOMAIN text : from[b].at \in 1..(Len(f) + 1)

\* What is told of a file stays right when more of it is read.
LEMMA Grown ==
  ASSUME NEW f \in Seq(Char), NEW s \in Seq(Char), NEW ps, NEW text, NEW from, NEW lines,
         NEW at \in 1..(Len(f) + 1),
         Lies(f, ps, text, from), Follows(f, ps, text, from, lines, at)
  PROVE  Follows(f \o s, ps, text, from, lines, at)
<1> DEFINE g == f \o s
<1>1. ASSUME NEW a \in 1..(Len(f) + 1) PROVE LineOf(g, a) = LineOf(f, a)
  <2>1. a - 1 \in 0..Len(f)
    OBVIOUS
  <2>2. SubSeq(g, 1, a - 1) = SubSeq(f, 1, a - 1)
    BY <2>1, Prefix
  <2> HIDE DEF g
  <2> QED BY <2>2 DEF LineOf
<1>2. ASSUME NEW a \in 1..(Len(f) + 1), NEW break
      PROVE  Lines(g, ps, break, a) = Lines(f, ps, break, a)
  <2>1. \A p \in ps : LineOf(g, p.at) = LineOf(f, p.at) /\ LineOf(g, p.to) = LineOf(f, p.to)
    BY <1>1 DEF Lies
  <2>2. LineOf(g, a) = LineOf(f, a)
    BY <1>1
  <2> HIDE DEF g
  <2> QED BY <2>1, <2>2 DEF Lines
<1> HIDE DEF g
<1>3. NextLine(g, ps, text, from, lines, at)
  BY <1>2 DEF Follows, NextLine
<1>4. EachLine(g, ps, text, from, lines)
  BY <1>2 DEF Follows, EachLine, Lies
<1>5. Follows(g, ps, text, from, lines, at)
  BY <1>3, <1>4 DEF Follows
<1> QED BY <1>5 DEF g

\* What writeText carries from one character to the next.
Written == [line : Nat, lines : Seq(Nat), cr : BOOLEAN]

\* w holds the states of writeText's loop over the text.
IsWritten(w, text, literal) ==
  /\ w[0] = [line |-> line, lines |-> sourceLines, cr |-> previousCR]
  /\ \A i \in 1..Len(text) : w[i] = WriteChar(text, literal, w[i - 1], i)

\* Replacing one number leaves a sequence of numbers.
LEMMA LastReplaced ==
  ASSUME NEW l \in Seq(Nat), NEW k, NEW n \in Nat
  PROVE  [l EXCEPT ![k] = n] \in Seq(Nat)
<1>1. Len(l) \in Nat /\ l \in [1..Len(l) -> Nat]
  OBVIOUS
<1>2. [l EXCEPT ![k] = n] \in [1..Len(l) -> Nat]
  BY <1>1
<1> QED BY <1>1, <1>2

\* One turn of the loop keeps the type of its state.
LEMMA CharStays ==
  ASSUME NEW text \in Seq(Char), NEW literal \in BOOLEAN, NEW s \in Written, NEW i \in 1..Len(text)
  PROVE  WriteChar(text, literal, s, i) \in Written
<1> DEFINE ch == text[i]
           new == ch \in Breaks /\ literal /\ (ch # "LF" \/ i = 1 \/ text[i - 1] # "CR")
           n  == IF new THEN s.line + 1 ELSE s.line
           ls == IF ch \notin Breaks THEN s.lines
                 ELSE IF ch # "LF" \/ ~s.cr THEN Append(s.lines, n)
                 ELSE CorrectLast(s.lines, n, literal)
<1>1. s.line \in Nat /\ s.lines \in Seq(Nat)
  BY DEF Written
<1>2. n \in Nat
  <2> HIDE DEF new
  <2>1. CASE new
    BY <1>1, <2>1
  <2>2. CASE ~new
    BY <1>1, <2>2
  <2> QED BY <2>1, <2>2
<1> HIDE DEF n
<1>3. Append(s.lines, n) \in Seq(Nat) /\ CorrectLast(s.lines, n, literal) \in Seq(Nat)
  <2>1. [s.lines EXCEPT ![Len(s.lines)] = n] \in Seq(Nat)
    BY <1>1, <1>2, LastReplaced
  <2> QED BY <1>1, <1>2, <2>1 DEF CorrectLast
<1>4. ls \in Seq(Nat)
  BY <1>1, <1>3
<1> HIDE DEF ls
<1>5. WriteChar(text, literal, s, i) = [line |-> n, lines |-> ls, cr |-> ch = "CR"]
  BY DEF WriteChar, n, ls
<1>6. (ch = "CR") \in BOOLEAN
  OBVIOUS
<1> HIDE DEF ch
<1> QED BY <1>2, <1>4, <1>5, <1>6 DEF Written

\* writeText is the last state of its loop, and the loop's states exist.
LEMMA WriteLoops ==
  ASSUME NEW text \in Seq(Char), NEW literal \in BOOLEAN,
         line \in Nat, sourceLines \in Seq(Nat), previousCR \in BOOLEAN
  PROVE  \E w : IsWritten(w, text, literal) /\ writeText(text, literal) = w[Len(text)]
                /\ w \in [0..Len(text) -> Written]
<1> DEFINE n == Len(text)
           S == Written
           base == [line |-> line, lines |-> sourceLines, cr |-> previousCR]
           Eq(f) == f = [i \in 0..n |->
                      IF i = 0 THEN base ELSE WriteChar(text, literal, f[i - 1], i)]
           g == CHOOSE f : Eq(f)
           F == [i \in 1..n |-> [x \in S |-> WriteChar(text, literal, x, i)]]
<1>1. writeText(text, literal) = g[n]
  BY DEF writeText
<1>2. F \in [1..n -> [S -> S]] /\ base \in S
  <2>1. \A i \in 1..n : \A x \in S : WriteChar(text, literal, x, i) \in S
    BY CharStays
  <2>2. base \in S
    BY DEF Written
  <2> HIDE DEF S
  <2> QED BY <2>1, <2>2
<1>3. PICK f \in [0..n -> S] : IsLoop(f, n, base, F)
  <2>1. n \in Nat
    OBVIOUS
  <2> HIDE DEF F, n, S, base
  <2> QED BY <1>2, <2>1, Loop
<1> HIDE DEF S, base
<1>4. \A i \in 1..n : f[i] = WriteChar(text, literal, f[i - 1], i)
  <2> SUFFICES ASSUME NEW i \in 1..n PROVE f[i] = WriteChar(text, literal, f[i - 1], i)
    OBVIOUS
  <2>1. f[i - 1] \in S
    OBVIOUS
  <2> QED BY <1>3, <2>1 DEF IsLoop
<1>5. Eq(f)
  BY <1>3, <1>4 DEF IsLoop
<1>6. Eq(g)
  <2> HIDE DEF Eq
  <2> QED BY <1>5
<1>7. \A i \in 0..n : g[i] = IF i = 0 THEN base ELSE WriteChar(text, literal, g[i - 1], i)
  <2> HIDE DEF g
  <2> QED BY <1>6
<1> HIDE DEF g, Eq
<1>8. 0..n \subseteq {i \in 0..n : g[i] \in S}
  <2> DEFINE T == {i \in 0..n : g[i] \in S}
  <2>1. 0 \in T
    BY <1>2, <1>7
  <2>2. ASSUME NEW i \in 0..n, i \in T, i < n PROVE i + 1 \in T
    <3>1. i + 1 \in 0..n /\ i + 1 # 0 /\ (i + 1) - 1 = i /\ g[i] \in S /\ i + 1 \in 1..n
      BY <2>2
    <3> QED BY <1>7, <3>1, CharStays DEF S
  <2>3. n \in Nat
    OBVIOUS
  <2> HIDE DEF T, n
  <2>4. 0..n \subseteq T
    BY <2>1, <2>2, <2>3, UpTo
  <2> QED BY <2>4 DEF T
<1>9. g \in [0..n -> S]
  BY <1>6, <1>8 DEF Eq
<1>10. IsWritten(g, text, literal)
  BY <1>7 DEF IsWritten, base
<1> QED BY <1>1, <1>9, <1>10 DEF S

\* Where the characters of a part come from.
From(text, literal) ==
  [i \in DOMAIN text |-> [at |-> Len(file) + (IF literal THEN i ELSE 1), literal |-> literal]]

\* What interpolateEnv knows between two parts of the file.
Reached(f, lines, n, cr) ==
  /\ cr = EndsInCR(expanded)
  /\ n = LineOf(f, Len(file) + 1)
  /\ Follows(f, placeholders, expanded, origin, lines, Len(file) + 1)

\* ... and within one.
PlaceOf(literal, i) == IF literal THEN Len(file) + i + 1 ELSE Len(file) + 1
\* What holds between two characters of the text being written.
Between(f, text, literal, s, i) ==
  /\ s.cr = EndsInCR(expanded \o SubSeq(text, 1, i))
  /\ s.line = LineOf(f, PlaceOf(literal, i))
  /\ Follows(f, placeholders, expanded \o SubSeq(text, 1, i),
             origin \o From(SubSeq(text, 1, i), literal), s.lines, PlaceOf(literal, i))

\* A character of the file: the line goes on with the breaks.
LEMMA LineGoesOn ==
  ASSUME NEW f \in Seq(Char), NEW source \in Seq(Char), ~EndsInCR(f), NEW i \in 0..Len(source),
         i < Len(source)
  PROVE  LET t == f \o source
             ch == source[i + 1]
         IN LineOf(t, Len(f) + (i + 1) + 1) = LineOf(t, Len(f) + i + 1) +
              (IF ch \in Breaks /\ (ch # "LF" \/ i = 0 \/ source[i] # "CR") THEN 1 ELSE 0)
<1> DEFINE t == f \o source
           ch == source[i + 1]
           a == f \o SubSeq(source, 1, i)
<1>1. /\ a \in Seq(Char) /\ ch \in Char /\ i + 1 \in 0..Len(source)
      /\ (Len(f) + (i + 1) + 1) - 1 = Len(f) + (i + 1) /\ (Len(f) + i + 1) - 1 = Len(f) + i
  OBVIOUS
<1>2. SubSeq(t, 1, Len(f) + (i + 1)) = Append(a, ch)
  <2>1. SubSeq(t, 1, Len(f) + (i + 1)) = f \o SubSeq(source, 1, i + 1)
    BY <1>1, Prefix
  <2>2. SubSeq(source, 1, i + 1) = Append(SubSeq(source, 1, i), ch)
    BY Prefix
  <2>3. SubSeq(source, 1, i) \in Seq(Char)
    BY Prefix
  <2>4. f \o Append(SubSeq(source, 1, i), ch) = Append(a, ch)
    <3> DEFINE b == SubSeq(source, 1, i)
    <3> HIDE DEF b, ch
    <3>1. f \o Append(b, ch) = Append(f \o b, ch)
      BY <1>1, <2>3 DEF b
    <3> QED BY <3>1 DEF b
  <2> HIDE DEF t, a, ch
  <2> QED BY <2>1, <2>2, <2>4
<1>3. SubSeq(t, 1, Len(f) + i) = a
  BY Prefix
<1>4. EndsInCR(a) <=> i # 0 /\ source[i] = "CR"
  <2>1. CASE i = 0
    <3>1. a = f
      BY <2>1
    <3> QED BY <2>1, <3>1
  <2>2. CASE i # 0
    <3>1. a # <<>> /\ Len(a) = Len(f) + i /\ a[Len(f) + i] = source[i]
      BY <2>2
    <3> HIDE DEF a
    <3> QED BY <2>2, <3>1 DEF EndsInCR
  <2> QED BY <2>1, <2>2
<1>5. /\ LineOf(t, Len(f) + (i + 1) + 1) = 1 + LineBreaks(Append(a, ch))
      /\ LineOf(t, Len(f) + i + 1) = 1 + LineBreaks(a)
  <2> HIDE DEF t, a, ch
  <2> QED BY Zenon, <1>1, <1>2, <1>3 DEF LineOf
<1>6. LineBreaks(a) \in Nat /\ LineBreaks(Append(a, ch)) = LineBreaks(a) + One(a, ch)
  <2> HIDE DEF a, ch
  <2> QED BY <1>1, OneMore, BreaksType
<1>7. One(a, ch) = IF ch \in Breaks /\ (ch # "LF" \/ i = 0 \/ source[i] # "CR") THEN 1 ELSE 0
  <2> HIDE DEF a, ch
  <2> QED BY <1>4 DEF One
<1>8. One(a, ch) \in Nat
  BY DEF One
<1> HIDE DEF t, a, ch
<1>9. LineOf(t, Len(f) + (i + 1) + 1) = LineOf(t, Len(f) + i + 1) + One(a, ch)
  BY <1>5, <1>6, <1>8
<1> QED BY <1>7, <1>9 DEF t, ch

\* Appending to the second part of a text appends to the whole.
LEMMA AppendLast ==
  ASSUME NEW S, NEW p \in Seq(S), NEW q \in Seq(S), NEW x \in S
  PROVE  p \o Append(q, x) = Append(p \o q, x) /\ p \o q \in Seq(S) /\ Len(p \o q) = Len(p) + Len(q)
OBVIOUS

\* The places a text comes from, one for each character.
LEMMA FromType ==
  ASSUME NEW text \in Seq(Char), NEW literal \in BOOLEAN, file \in Seq(Char)
  PROVE  From(text, literal) \in Seq(Spots) /\ Len(From(text, literal)) = Len(text)
<1> DEFINE n == Len(text)
           r == [i \in 1..n |->
                  [at |-> Len(file) + (IF literal THEN i ELSE 1), literal |-> literal]]
<1>1. \A i \in 1..n : Len(file) + (IF literal THEN i ELSE 1) \in Nat
  OBVIOUS
<1>2. \A i \in 1..n : [at |-> Len(file) + (IF literal THEN i ELSE 1), literal |-> literal] \in Spots
  BY <1>1 DEF Spots
<1>3. r \in [1..n -> Spots]
  BY <1>2
<1>4. n \in Nat /\ From(text, literal) = r
  BY DEF From
<1> HIDE DEF r, n
<1>5. r \in Seq(Spots) /\ Len(r) = n
  BY <1>3, <1>4
<1> QED BY <1>4, <1>5 DEF n

\* One more character adds its own place and changes no other.
LEMMA FromOneMore ==
  ASSUME NEW a \in Seq(Char), NEW ch \in Char, NEW literal \in BOOLEAN, file \in Seq(Char)
  PROVE  From(Append(a, ch), literal) =
           Append(From(a, literal), [at |-> PlaceOf(literal, Len(a)), literal |-> literal])
<1> DEFINE t == Append(a, ch)
           x == [at |-> PlaceOf(literal, Len(a)), literal |-> literal]
           l == From(t, literal)
           r == Append(From(a, literal), x)
<1>1. t \in Seq(Char) /\ Len(t) = Len(a) + 1 /\ Len(a) \in Nat /\ DOMAIN t = 1..(Len(a) + 1)
      /\ DOMAIN a = 1..Len(a)
  OBVIOUS
<1>2. x \in Spots
  BY DEF PlaceOf, Spots
<1>3. l \in Seq(Spots) /\ Len(l) = Len(a) + 1
  <2> HIDE DEF t
  <2> QED BY <1>1, FromType
<1>4. From(a, literal) \in Seq(Spots) /\ Len(From(a, literal)) = Len(a)
  BY FromType
<1>5. r \in Seq(Spots) /\ Len(r) = Len(a) + 1 /\ r[Len(a) + 1] = x
      /\ \A i \in 1..Len(a) : r[i] = From(a, literal)[i]
  <2> HIDE DEF x
  <2> QED BY <1>2, <1>4
<1>6. l[Len(a) + 1] = x
  <2> HIDE DEF t
  <2> QED BY <1>1 DEF From, PlaceOf
<1>7. \A i \in 1..Len(a) : l[i] = From(a, literal)[i]
  <2> HIDE DEF t
  <2> QED BY <1>1 DEF From
<1>8. 1..(Len(a) + 1) = (1..Len(a)) \cup {Len(a) + 1}
  BY <1>1
<1> HIDE DEF l, r, x
<1>9. \A i \in 1..(Len(a) + 1) : l[i] = r[i]
  BY <1>5, <1>6, <1>7, <1>8
<1>10. l = r
  BY <1>3, <1>5, <1>9
<1> QED BY <1>10 DEF l, r, x

\* writeText: the invariant of its loop.
LEMMA TextWritten ==
  ASSUME NEW source \in Seq(Char), NEW text \in Seq(Char), NEW literal \in BOOLEAN,
         literal => text = source /\ ~EndsInCR(file),
         file \in Seq(Char), expanded \in Seq(Char),
         Lies(file, placeholders, expanded, origin),
         Reached(file, sourceLines, line, previousCR)
  PROVE  /\ writeText(text, literal) \in Written
         /\ Between(file \o source, text, literal, writeText(text, literal), Len(text))
<1> DEFINE n == Len(text)
           f == file \o source
           start == Len(file) + 1
<1>1. n \in Nat /\ Len(file) \in Nat /\ f \in Seq(Char) /\ Len(f) = Len(file) + Len(source)
      /\ start \in 1..(Len(file) + 1) /\ start \in 1..(Len(f) + 1)
  OBVIOUS
<1>2. line \in Nat /\ sourceLines \in Seq(Nat) /\ previousCR \in BOOLEAN
  <2>1. LineOf(file, start) \in Nat
    BY <1>1, LineType
  <2> QED BY <2>1 DEF Reached, Follows, EndsInCR
<1>3. PICK w : /\ IsWritten(w, text, literal) /\ writeText(text, literal) = w[n]
               /\ w \in [0..n -> Written]
  BY <1>2, WriteLoops
<1>4. LineOf(f, start) = LineOf(file, start)
  <2>1. SubSeq(f, 1, start - 1) = SubSeq(file, 1, start - 1)
    <3>1. start - 1 \in 0..Len(file)
      BY <1>1
    <3> QED BY <3>1, Prefix
  <2> HIDE DEF f
  <2> QED BY <2>1 DEF LineOf
<1> DEFINE T == {i \in 0..n : Between(f, text, literal, w[i], i)}
<1>5. 0 \in T
  <2>1. expanded \o SubSeq(text, 1, 0) = expanded
    OBVIOUS
  <2>2. origin \o From(SubSeq(text, 1, 0), literal) = origin
    <3>1. origin \in Seq(Spots)
      BY DEF Lies
    <3>2. SubSeq(text, 1, 0) = <<>>
      OBVIOUS
    <3>3. From(<<>>, literal) = <<>>
      BY DEF From
    <3>4. origin \o From(SubSeq(text, 1, 0), literal) = origin \o <<>>
      BY Zenon, <3>2, <3>3
    <3> QED BY <3>1, <3>4
  <2>3. PlaceOf(literal, 0) = start
    BY <1>1 DEF PlaceOf
  <2>4. w[0].line = line /\ w[0].lines = sourceLines /\ w[0].cr = previousCR
    BY <1>3 DEF IsWritten
  <2>5. Follows(f, placeholders, expanded, origin, sourceLines, start)
    <3> HIDE DEF start
    <3> QED BY <1>1, Grown DEF Reached, start
  <2>6. Between(f, text, literal, w[0], 0)
    <3> HIDE DEF f
    <3> QED BY <1>4, <2>1, <2>2, <2>3, <2>4, <2>5 DEF Between, Reached
  <2> QED BY <1>1, <2>6
<1>6. ASSUME NEW i \in 0..n, i \in T, i < n PROVE i + 1 \in T
  <2> DEFINE a == SubSeq(text, 1, i)
             ch == text[i + 1]
             e == expanded \o a
             q == origin \o From(a, literal)
             at == PlaceOf(literal, i)
             next == IF literal THEN at + 1 ELSE at
             k == LineOf(f, next)
  <2>1. i + 1 \in 1..n /\ i + 1 \in 0..n /\ ch \in Char /\ (i + 1) - 1 = i /\ i \in Nat
    BY <1>6
  <2>2. a \in Seq(Char) /\ Len(a) = i /\ SubSeq(text, 1, i + 1) = Append(a, ch)
    BY <1>6, Prefix
  <2>3. /\ From(Append(a, ch), literal) = Append(From(a, literal), [at |-> at, literal |-> literal])
        /\ From(a, literal) \in Seq(Spots) /\ Len(From(a, literal)) = i
    <3> HIDE DEF a, ch
    <3> QED BY <2>1, <2>2, FromOneMore, FromType
  <2>4. at \in Nat /\ next \in Nat /\ next = PlaceOf(literal, i + 1) /\ next \in 1..(Len(f) + 1)
    BY <1>1, <2>1 DEF PlaceOf
  <2>5. k \in Nat
    BY <1>1, <2>4, LineType
  <2>6. origin \in Seq(Spots) /\ Len(origin) = Len(expanded) /\ placeholders \in SUBSET Passages
        /\ \A p \in placeholders : p.end <= Len(expanded)
    BY DEF Lies
  <2>7. /\ e \in Seq(Char) /\ Len(e) = Len(expanded) + i
        /\ expanded \o Append(a, ch) = Append(e, ch)
    <3> HIDE DEF a, ch, q, at, next, k, f, T, start, n
    <3>1. expanded \in Seq(Char) /\ a \in Seq(Char) /\ ch \in Char
      BY <2>1, <2>2
    <3>2. /\ expanded \o Append(a, ch) = Append(expanded \o a, ch)
          /\ expanded \o a \in Seq(Char) /\ Len(expanded \o a) = Len(expanded) + Len(a)
      BY <3>1, AppendLast
    <3> QED BY <2>2, <3>2
  <2>8. /\ q \in Seq(Spots) /\ Len(q) = Len(e)
        /\ origin \o Append(From(a, literal), [at |-> at, literal |-> literal]) =
             Append(q, [at |-> at, literal |-> literal])
    <3> DEFINE x == [at |-> at, literal |-> literal]
    <3>1. x \in Spots
      BY <2>4 DEF Spots
    <3> HIDE DEF a, ch, at, x
    <3>2. /\ origin \o Append(From(a, literal), x) = Append(q, x)
          /\ q \in Seq(Spots) /\ Len(q) = Len(origin) + Len(From(a, literal))
      BY <2>3, <2>6, <3>1, AppendLast
    <3>3. Len(q) = Len(e)
      BY <2>3, <2>6, <2>7, <3>2
    <3> QED BY <3>2, <3>3 DEF x
  <2>9. /\ w[i].cr = EndsInCR(e) /\ w[i].line = LineOf(f, at)
        /\ Follows(f, placeholders, e, q, w[i].lines, at)
    BY <1>6 DEF Between
  <2>10. \A p \in placeholders : p.end <= Len(e)
    <3>1. \A p \in placeholders : p.end \in Nat
      BY <2>6 DEF Passages
    <3>2. Len(expanded) \in Nat
      OBVIOUS
    <3> QED BY <2>1, <2>6, <2>7, <3>1, <3>2
  <2>11. Follows(f, placeholders, Append(e, ch), Append(q, [at |-> at, literal |-> literal]),
                 LinesAfter(w[i].lines, k, EndsInCR(e), ch, literal), next)
    <3>1. w[i].lines \in Seq(Nat)
      BY <2>9 DEF Follows
    <3> HIDE DEF e, q, at, a, ch, f
    <3> QED BY <2>1, <2>4, <2>5, <2>6, <2>7, <2>8, <2>9, <2>10, OneCharacter
  <2>12. w[i + 1] = WriteChar(text, literal, w[i], i + 1)
    BY <1>3, <2>1 DEF IsWritten
  <2>13. (IF ch \in Breaks /\ literal /\ (ch # "LF" \/ i + 1 = 1 \/ text[i] # "CR")
          THEN w[i].line + 1 ELSE w[i].line) = k
    <3>1. CASE literal
      <4>1. text = source /\ ~EndsInCR(file) /\ i \in 0..Len(source) /\ i < Len(source)
            /\ at = Len(file) + i + 1 /\ next = Len(file) + (i + 1) + 1
        BY <1>6, <3>1, <1>1, <2>1 DEF PlaceOf
      <4>2. k = LineOf(f, at) +
                 (IF ch \in Breaks /\ (ch # "LF" \/ i = 0 \/ text[i] # "CR") THEN 1 ELSE 0)
        BY <4>1, LineGoesOn
      <4>3. LineOf(f, at) \in Nat
        <5> HIDE DEF f, n, at
        <5>1. at \in 1..(Len(f) + 1)
          BY <1>1, <2>1, <4>1
        <5> QED BY <1>1, <5>1, LineType
      <4>4. i + 1 = 1 <=> i = 0
        BY <2>1
      <4> DEFINE c == ch \in Breaks /\ (ch # "LF" \/ i = 0 \/ text[i] # "CR")
      <4>5. (ch \in Breaks /\ literal /\ (ch # "LF" \/ i + 1 = 1 \/ text[i] # "CR")) <=> c
        BY <3>1, <4>4
      <4> HIDE DEF c, ch, k, at, f
      <4>6. k = LineOf(f, at) + (IF c THEN 1 ELSE 0)
        BY <4>2 DEF c
      <4> QED BY <2>9, <4>3, <4>5, <4>6
    <3>2. CASE ~literal
      BY <2>9, <3>2
    <3> QED BY <3>1, <3>2
  <2>14. /\ w[i + 1].line = k /\ w[i + 1].cr = (ch = "CR")
         /\ w[i + 1].lines = LinesAfter(w[i].lines, k, EndsInCR(e), ch, literal)
    <3> HIDE DEF k, e, f, next, at
    <3> QED BY <2>1, <2>9, <2>12, <2>13 DEF WriteChar, LinesAfter
  <2>15. EndsInCR(Append(e, ch)) <=> ch = "CR"
    <3> HIDE DEF e, ch
    <3>1. Append(e, ch)[Len(Append(e, ch))] = ch /\ Append(e, ch) # <<>>
      BY <2>1, <2>7
    <3> QED BY <3>1 DEF EndsInCR
  <2>16. (ch = "CR") = EndsInCR(Append(e, ch))
    BY Zenon, <2>15 DEF EndsInCR
  <2>17. Between(f, text, literal, w[i + 1], i + 1)
    <3> HIDE DEF e, ch, a, q, at, next, f
    <3> QED BY Zenon, <2>2, <2>3, <2>4, <2>7, <2>8, <2>11, <2>14, <2>16 DEF Between, e, q, k
  <2> HIDE DEF f
  <2> QED BY <2>1, <2>17
<1>7. 0..n \subseteq T
  <2> HIDE DEF T, n
  <2> QED BY <1>1, <1>5, <1>6, UpTo
<1>8. n \in T
  <2> HIDE DEF T
  <2> QED BY <1>1, <1>7
<1>9. w[n] \in Written
  <2> HIDE DEF n, f, T
  <2> QED BY <1>1, <1>3
<1> QED BY <1>3, <1>8, <1>9

\* Placeholders and texts of the constants.
LEMMA TextsType ==
  /\ Literals \subseteq Seq(Char)
  /\ \A p \in Placeholders :
       /\ ValueOf(p) \in Seq(Char)
       /\ WrittenAs(p) \in Seq(Char) /\ Len(WrittenAs(p)) > 0
       /\ WrittenAs(p)[1] = "x" /\ WrittenAs(p)[Len(WrittenAs(p))] = "x"
<1>1. \A t \in Texts : t \in Seq(Char)
  BY ConfigurationAssumption DEF ConfigurationAssumption, Char
<1>2. ASSUME NEW p \in Placeholders
      PROVE  /\ p.env \subseteq Seq(Char) /\ p.default \subseteq Seq(Char)
  BY <1>1 DEF Texts
<1>3. <<>> \in Seq(Char) /\ "x" \in Char
  BY DEF Char
<1>4. ASSUME NEW p \in Placeholders PROVE ValueOf(p) \in Seq(Char)
  BY <1>2, <1>3 DEF ValueOf
<1>5. ASSUME NEW p \in Placeholders
      PROVE  /\ WrittenAs(p) \in Seq(Char) /\ Len(WrittenAs(p)) > 0
             /\ WrittenAs(p)[1] = "x" /\ WrittenAs(p)[Len(WrittenAs(p))] = "x"
  <2>1. CASE p.default = {}
    <3>1. WrittenAs(p) = <<"x">>
      BY <2>1 DEF WrittenAs
    <3> QED BY <1>3, <3>1
  <2>2. CASE p.default # {}
    <3> DEFINE d == CHOOSE t \in p.default : TRUE
               w == <<"x">> \o d \o <<"x">>
    <3>1. d \in Seq(Char) /\ WrittenAs(p) = w
      BY <1>2, <2>2 DEF WrittenAs
    <3> HIDE DEF d
    <3>2. Len(w) = Len(d) + 2 /\ Len(d) \in Nat /\ w \in Seq(Char)
      BY <1>3, <3>1
    <3>3. w[1] = "x" /\ w[Len(d) + 2] = "x"
      BY <3>1
    <3> QED BY <3>1, <3>2, <3>3
  <2> QED BY <2>1, <2>2
<1>6. Literals \subseteq Seq(Char)
  BY <1>1 DEF Texts
<1> QED BY <1>4, <1>5, <1>6

\* What interpolateEnv has read, written and told between two parts of the file.
LinesInv ==
  /\ file \in Seq(Char) /\ expanded \in Seq(Char)
  /\ Lies(file, placeholders, expanded, origin)
  /\ \A p \in placeholders : p.at < p.to
  /\ Reached(file, sourceLines, line, previousCR)
  /\ phase = "literal" => ~EndsInCR(file)

\* The invariant holds of the empty file.
LEMMA LinesInitially == ConfigurationInit => LinesInv
<1> SUFFICES ASSUME ConfigurationInit PROVE LinesInv
  OBVIOUS
<1>1. /\ file = <<>> /\ expanded = <<>> /\ origin = <<>> /\ placeholders = {}
      /\ sourceLines = <<1>> /\ line = 1 /\ previousCR = FALSE
  BY DEF ConfigurationInit
<1>2. LineBreaks(<<>>) = 0
  <2>1. {i \in DOMAIN <<>> : EndsBreak(<<>>, i)} = {}
    OBVIOUS
  <2> QED BY <2>1, FS_EmptySet DEF LineBreaks
<1>3. LineOf(<<>>, 1) = 1
  <2>1. SubSeq(<<>>, 1, 1 - 1) = <<>>
    OBVIOUS
  <2>2. LineOf(<<>>, 1) = 1 + LineBreaks(SubSeq(<<>>, 1, 1 - 1))
    BY DEF LineOf
  <2>3. LineBreaks(SubSeq(<<>>, 1, 1 - 1)) = 0
    BY Zenon, <1>2, <2>1
  <2> QED BY <2>2, <2>3
<1>4. ~EndsInCR(<<>>)
  BY DEF EndsInCR
<1>5. Lies(<<>>, {}, <<>>, <<>>)
  BY DEF Lies
<1>6. Follows(<<>>, {}, <<>>, <<>>, <<1>>, 1)
  <2>1. Lines(<<>>, {}, BreakOf(<<>>, <<>>, Len(<<>>) + 1), 1) = {1}
    BY <1>3 DEF Lines
  <2>2. NextLine(<<>>, {}, <<>>, <<>>, <<1>>, 1)
    BY <2>1 DEF NextLine, Least
  <2>3. EachLine(<<>>, {}, <<>>, <<>>, <<1>>)
    BY DEF EachLine
  <2>4. <<1>> \in Seq(Nat) /\ Len(<<1>>) = 1
    OBVIOUS
  <2> QED BY <1>2, <2>2, <2>3, <2>4 DEF Follows
<1>7. Reached(<<>>, <<1>>, 1, FALSE)
  <2>1. (FALSE) = EndsInCR(<<>>)
    BY Zenon, <1>4 DEF EndsInCR
  <2>2. Len(file) + 1 = 1
    BY <1>1
  <2> QED BY <1>1, <1>3, <1>6, <2>1, <2>2 DEF Reached
<1>8. Reached(file, sourceLines, line, previousCR)
  BY Zenon, <1>1, <1>7
<1>9. Lies(file, placeholders, expanded, origin) /\ ~EndsInCR(file)
  BY Zenon, <1>1, <1>4, <1>5
<1>10. file \in Seq(Char) /\ expanded \in Seq(Char) /\ \A p \in placeholders : p.at < p.to
  BY <1>1
<1> QED BY <1>8, <1>9, <1>10 DEF LinesInv

\* The elements of two sequences put together.
LEMMA Joined ==
  ASSUME NEW S, NEW p \in Seq(S), NEW q \in Seq(S)
  PROVE  /\ p \o q \in Seq(S) /\ Len(p \o q) = Len(p) + Len(q)
         /\ \A b \in 1..Len(p) : (p \o q)[b] = p[b]
         /\ \A b \in 1..(Len(p) + Len(q)) : b > Len(p) =>
              (p \o q)[b] = q[b - Len(p)] /\ b - Len(p) \in 1..Len(q)
OBVIOUS

\* What a part of the file adds, seen from the state before.
LEMMA PartLies ==
  ASSUME LinesInv, NEW source \in Seq(Char), NEW text \in Seq(Char), NEW literal \in BOOLEAN,
         literal => text = source
  PROVE  /\ file \o source \in Seq(Char) /\ expanded \o text \in Seq(Char)
         /\ Len(file \o source) = Len(file) + Len(source)
         /\ Len(expanded \o text) = Len(expanded) + Len(text)
         /\ Lies(file \o source, placeholders, expanded \o text, origin \o From(text, literal))
         /\ ~literal => \A b \in DOMAIN (expanded \o text) :
                          (origin \o From(text, literal))[b].at \in 1..(Len(file) + 1)
<1> DEFINE f == file \o source
           e == expanded \o text
           o == From(text, literal)
           q == origin \o o
<1>1. file \in Seq(Char) /\ expanded \in Seq(Char) /\ Lies(file, placeholders, expanded, origin)
  BY DEF LinesInv
<1>2. /\ f \in Seq(Char) /\ e \in Seq(Char) /\ Len(f) = Len(file) + Len(source)
      /\ Len(e) = Len(expanded) + Len(text) /\ DOMAIN e = 1..(Len(expanded) + Len(text))
      /\ DOMAIN expanded = 1..Len(expanded)
      /\ Len(file) \in Nat /\ Len(source) \in Nat /\ Len(expanded) \in Nat /\ Len(text) \in Nat
  BY <1>1
<1>3. origin \in Seq(Spots) /\ Len(origin) = Len(expanded) /\ placeholders \in SUBSET Passages
  BY <1>1 DEF Lies
<1>4. o \in Seq(Spots) /\ Len(o) = Len(text)
  BY <1>1, FromType
<1>5. \A i \in 1..Len(text) : /\ o[i].at \in 1..(Len(f) + 1)
                              /\ ~literal => o[i].at \in 1..(Len(file) + 1)
  <2> SUFFICES ASSUME NEW i \in 1..Len(text)
               PROVE  /\ o[i].at \in 1..(Len(f) + 1)
                      /\ ~literal => o[i].at \in 1..(Len(file) + 1)
    OBVIOUS
  <2>1. o[i].at = Len(file) + (IF literal THEN i ELSE 1)
    BY DEF From
  <2> HIDE DEF o, f
  <2>2. CASE literal
    BY <1>2, <2>1, <2>2
  <2>3. CASE ~literal
    BY <1>2, <2>1, <2>3
  <2> QED BY <2>2, <2>3
<1> HIDE DEF o
<1>6. /\ q \in Seq(Spots) /\ Len(q) = Len(e)
      /\ \A b \in 1..Len(expanded) : q[b] = origin[b]
      /\ \A b \in 1..Len(e) : b > Len(expanded) =>
           q[b] = o[b - Len(expanded)] /\ b - Len(expanded) \in 1..Len(text)
  <2>1. /\ q \in Seq(Spots) /\ Len(q) = Len(origin) + Len(o)
        /\ \A b \in 1..Len(origin) : q[b] = origin[b]
        /\ \A b \in 1..(Len(origin) + Len(o)) : b > Len(origin) =>
             q[b] = o[b - Len(origin)] /\ b - Len(origin) \in 1..Len(o)
    BY <1>3, <1>4, Joined
  <2> HIDE DEF e, q
  <2> QED BY <1>2, <1>3, <1>4, <2>1
<1>7. \A b \in 1..Len(expanded) : origin[b].at \in 1..(Len(file) + 1)
  BY <1>1, <1>2 DEF Lies
<1> HIDE DEF f, e, q
<1>8. \A b \in DOMAIN e : /\ q[b].at \in 1..(Len(f) + 1)
                          /\ ~literal => q[b].at \in 1..(Len(file) + 1)
  <2> SUFFICES ASSUME NEW b \in 1..Len(e)
               PROVE  q[b].at \in 1..(Len(f) + 1) /\ (~literal => q[b].at \in 1..(Len(file) + 1))
    BY <1>2
  <2>1. CASE b > Len(expanded)
    BY <1>5, <1>6, <2>1
  <2>2. CASE ~ (b > Len(expanded))
    <3>1. b \in 1..Len(expanded)
      BY <1>2, <2>2
    <3>2. q[b] = origin[b] /\ origin[b].at \in 1..(Len(file) + 1)
      BY <1>6, <1>7, <3>1
    <3>3. q[b].at \in 1..(Len(file) + 1)
      BY Zenon, <3>2
    <3>4. 1..(Len(file) + 1) \subseteq 1..(Len(f) + 1)
      BY <1>2
    <3> QED BY <3>3, <3>4
  <2> QED BY <2>1, <2>2
<1>9. \A p \in placeholders :
        p.at \in 1..(Len(f) + 1) /\ p.to \in 1..(Len(f) + 1) /\ p.end <= Len(e)
  <2> SUFFICES ASSUME NEW p \in placeholders
               PROVE  p.at \in 1..(Len(f) + 1) /\ p.to \in 1..(Len(f) + 1) /\ p.end <= Len(e)
    OBVIOUS
  <2>1. p.at \in 1..(Len(file) + 1) /\ p.to \in 1..(Len(file) + 1) /\ p.end <= Len(expanded)
    BY <1>1 DEF Lies
  <2>2. p.end \in Nat
    BY <1>3 DEF Passages
  <2> QED BY <1>2, <2>1, <2>2
<1>10. Lies(f, placeholders, e, q)
  BY <1>3, <1>6, <1>8, <1>9 DEF Lies
<1> QED BY <1>2, <1>8, <1>10 DEF f, e, q, o

\* The end of a placeholder: what it puts before the lines that begin later.
LEMMA PlaceholderEnds ==
  ASSUME NEW f \in Seq(Char), NEW ps, NEW text \in Seq(Char), NEW from, NEW lines,
         NEW at \in Nat \ {0}, NEW to \in Nat, at < to, to <= Len(f) + 1,
         Lies(f, ps, text, from), \A q \in ps : q.at < q.to /\ q.to <= at,
         \A b \in DOMAIN text : from[b].at <= at,
         LineOf(f, at) <= LineOf(f, to),
         Follows(f, ps, text, from, lines, at)
  PROVE  Follows(f, ps \cup {[at |-> at, to |-> to, end |-> Len(text)]}, text, from, lines, to)
<1> DEFINE p == [at |-> at, to |-> to, end |-> Len(text)]
           more == ps \cup {p}
<1>1. p.at = at /\ p.to = to /\ p.end = Len(text) /\ Len(text) \in Nat /\ DOMAIN text = 1..Len(text)
  OBVIOUS
<1>2. ps \in SUBSET Passages /\ \A q \in ps : q.at \in Nat /\ q.to \in Nat
  BY DEF Lies, Passages
<1>3. LineOf(f, at) \in Nat /\ LineOf(f, to) \in Nat
  <2>1. at \in 1..(Len(f) + 1) /\ to \in 1..(Len(f) + 1)
    OBVIOUS
  <2> QED BY <2>1, LineType
<1>4. lines \in Seq(Nat) /\ Len(lines) = LineBreaks(text) + 1 /\ LineBreaks(text) \in Nat
  BY BreaksType DEF Follows
<1> HIDE DEF p
<1>5. ASSUME NEW b \in DOMAIN text, NEW break
      PROVE  Lines(f, more, break, from[b].at) = Lines(f, ps, break, from[b].at)
  <2>1. from[b].at \in Nat /\ from[b].at <= at
    BY DEF Lies, Spots
  <2>2. ~ (p.at < from[b].at)
    BY <1>1, <2>1
  <2> QED BY <2>2 DEF Lines
<1>6. EachLine(f, more, text, from, lines)
  <2> HIDE DEF more
  <2> QED BY <1>5 DEF Follows, EachLine
<1> DEFINE break == BreakOf(text, from, Len(text) + 1)
           last == lines[Len(lines)]
<1>7. break <= p.end
  <2>1. break \in {(Len(text) + 1) - 2, (Len(text) + 1) - 1}
    BY DEF BreakOf
  <2> HIDE DEF break
  <2> QED BY <1>1, <2>1
<1>8. ASSUME text = <<>> \/ text[Len(text)] \in Breaks
      PROVE  Least(last, Lines(f, more, break, to))
  <2>1. Least(last, Lines(f, ps, break, at))
    BY <1>8 DEF Follows, NextLine
  <2>2. last \in Nat
    BY <1>4
  <2> HIDE DEF break, last, more
  <2>3. last <= LineOf(f, at)
    <3>1. LineOf(f, at) \in Lines(f, ps, break, at)
      BY DEF Lines
    <3> QED BY <2>1, <3>1 DEF Least
  <2>4. last \in Lines(f, more, break, to)
    <3>1. CASE last = LineOf(f, at)
      <4>1. CASE LineOf(f, at) < LineOf(f, to)
        <5>1. p \in {q \in more : LineOf(f, q.at) < LineOf(f, q.to) /\ break <= q.end /\ q.at < to}
          BY <1>1, <1>7, <4>1 DEF more
        <5>2. last = LineOf(f, p.at)
          BY <1>1, <3>1
        <5> QED BY <5>1, <5>2 DEF Lines
      <4>2. CASE ~ (LineOf(f, at) < LineOf(f, to))
        <5>1. last = LineOf(f, to)
          BY <1>3, <3>1, <4>2
        <5> QED BY <5>1 DEF Lines
      <4> QED BY <4>1, <4>2
    <3>2. CASE last # LineOf(f, at)
      <4>1. PICK q \in ps : /\ LineOf(f, q.at) < LineOf(f, q.to) /\ break <= q.end /\ q.at < at
                            /\ last = LineOf(f, q.at)
        BY <2>1, <3>2 DEF Least, Lines
      <4>2. q.at < to
        BY <1>2, <4>1
      <4>3. q \in {r \in more : LineOf(f, r.at) < LineOf(f, r.to) /\ break <= r.end /\ r.at < to}
        BY <4>1, <4>2 DEF more
      <4> QED BY <4>1, <4>3 DEF Lines
    <3> QED BY <3>1, <3>2
  <2>5. ASSUME NEW m \in Lines(f, more, break, to) PROVE last <= m
    <3>1. CASE m = LineOf(f, to)
      BY <1>3, <2>2, <2>3, <3>1
    <3>2. CASE m # LineOf(f, to)
      <4>1. PICK q \in more : /\ LineOf(f, q.at) < LineOf(f, q.to) /\ break <= q.end
                              /\ m = LineOf(f, q.at)
        BY <2>5, <3>2 DEF Lines
      <4>2. CASE q = p
        BY <1>1, <2>3, <4>1, <4>2
      <4>3. CASE q # p
        <5>1. q \in ps /\ q.at < at
          BY <1>2, <4>1, <4>3 DEF more
        <5>2. m \in Lines(f, ps, break, at)
          BY <4>1, <5>1 DEF Lines
        <5> QED BY <2>1, <5>2 DEF Least
      <4> QED BY <4>2, <4>3
    <3> QED BY <3>1, <3>2
  <2> QED BY <2>4, <2>5 DEF Least
<1>9. NextLine(f, more, text, from, lines, to)
  <2> HIDE DEF more
  <2> QED BY <1>8 DEF NextLine
<1> HIDE DEF more
<1>10. Follows(f, more, text, from, lines, to)
  BY <1>4, <1>6, <1>9 DEF Follows
<1> QED BY <1>10 DEF more, p

\* The end of a part, in the file and in the text.
LEMMA LineAtEnd ==
  ASSUME NEW f \in Seq(Char), NEW s \in Seq(Char), ~ (EndsInCR(f) /\ s[1] = "LF")
  PROVE  LineOf(f \o s, Len(f \o s) + 1) = LineOf(f \o s, Len(f) + 1) + LineBreaks(s)
<1> DEFINE g == f \o s
<1>1. /\ SubSeq(g, 1, (Len(f) + 1) - 1) = f /\ SubSeq(g, 1, (Len(g) + 1) - 1) = g
  OBVIOUS
<1>2. /\ LineOf(g, Len(f) + 1) = 1 + LineBreaks(SubSeq(g, 1, (Len(f) + 1) - 1))
      /\ LineOf(g, Len(g) + 1) = 1 + LineBreaks(SubSeq(g, 1, (Len(g) + 1) - 1))
  BY Zenon DEF LineOf
<1>3. LineBreaks(g) = LineBreaks(f) + LineBreaks(s)
  BY TextsAdd
<1>4. LineBreaks(f) \in Nat /\ LineBreaks(s) \in Nat
  BY BreaksType
<1> HIDE DEF g
<1>5. LineOf(g, Len(f) + 1) = 1 + LineBreaks(f) /\ LineOf(g, Len(g) + 1) = 1 + LineBreaks(g)
  BY Zenon, <1>1, <1>2
<1>6. LineOf(g, Len(g) + 1) = LineOf(g, Len(f) + 1) + LineBreaks(s)
  BY <1>3, <1>4, <1>5
<1> QED BY <1>6 DEF g

\* What Write does to the variables, in the terms of the invariant.
LEMMA WriteFacts ==
  ASSUME NEW source, NEW text \in Seq(Char), NEW literal \in BOOLEAN, NEW breaks,
         Write(source, text, literal, breaks)
  PROVE  /\ file' = file \o source /\ expanded' = expanded \o text
         /\ origin' = origin \o From(text, literal)
         /\ sourceLines' = writeText(text, literal).lines
         /\ line' = writeText(text, literal).line + breaks
         /\ previousCR' = writeText(text, literal).cr
BY DEF Write, From

\* Text copied from the file keeps the invariant.
LEMMA WriteLiteralPreserves ==
  ASSUME LinesInv, WriteLiteral
  PROVE  LinesInv'
<1>1. PICK text \in Literals : Write(text, text, TRUE, 0)
  BY DEF WriteLiteral
<1>2. text \in Seq(Char)
  BY TextsType
<1> DEFINE s == writeText(text, TRUE)
           n == Len(text)
<1>3. /\ file' = file \o text /\ expanded' = expanded \o text
      /\ origin' = origin \o From(text, TRUE)
      /\ sourceLines' = s.lines /\ line' = s.line + 0 /\ previousCR' = s.cr
  BY <1>1, <1>2, WriteFacts
<1>4. placeholders' = placeholders /\ phase' # "literal" /\ phase = "literal"
  BY DEF WriteLiteral
<1>5. /\ file \in Seq(Char) /\ expanded \in Seq(Char) /\ Lies(file, placeholders, expanded, origin)
      /\ Reached(file, sourceLines, line, previousCR) /\ ~EndsInCR(file)
  BY <1>4 DEF LinesInv
<1> HIDE DEF s
<1>6. s \in Written /\ Between(file \o text, text, TRUE, s, n)
  BY <1>2, <1>5, TextWritten DEF s
<1>7. /\ file' \in Seq(Char) /\ expanded' \in Seq(Char)
      /\ Len(file') = Len(file) + n
      /\ Lies(file', placeholders, expanded', origin')
  BY <1>2, <1>3, PartLies
<1>8. /\ SubSeq(text, 1, n) = text /\ PlaceOf(TRUE, n) = Len(file') + 1
  <2>1. SubSeq(text, 1, n) = text
    BY <1>2
  <2>2. Len(file) + n + 1 = (Len(file) + n) + 1
    BY <1>2, <1>5
  <2> QED BY <1>7, <2>1, <2>2 DEF PlaceOf
<1>9. /\ s.cr = EndsInCR(expanded') /\ s.line = LineOf(file', Len(file') + 1)
      /\ Follows(file', placeholders, expanded', origin', s.lines, Len(file') + 1)
  <2> HIDE DEF n
  <2> QED BY Zenon, <1>3, <1>6, <1>8 DEF Between
<1>10. line' = s.line
  <2>1. s.line \in Nat
    BY <1>6 DEF Written
  <2> QED BY <1>3, <2>1
<1>11. Reached(file, sourceLines, line, previousCR)'
  BY <1>3, <1>4, <1>9, <1>10 DEF Reached
<1>12. \A p \in placeholders : p.at < p.to
  BY DEF LinesInv
<1> QED BY <1>4, <1>7, <1>11, <1>12 DEF LinesInv

\* The value of a placeholder keeps the invariant.
LEMMA WritePlaceholderPreserves ==
  ASSUME LinesInv, WritePlaceholder
  PROVE  LinesInv'
<1>1. PICK x \in Placeholders :
        /\ Write(WrittenAs(x), ValueOf(x), FALSE, LineBreaks(WrittenAs(x)))
        /\ placeholders' = placeholders \cup
             {[at |-> Len(file) + 1, to |-> Len(file') + 1, end |-> Len(expanded')]}
  BY DEF WritePlaceholder
<1> DEFINE source == WrittenAs(x)
           text == ValueOf(x)
           s == writeText(text, FALSE)
           n == Len(text)
           f == file \o source
           e == expanded \o text
           q == origin \o From(text, FALSE)
           at == Len(file) + 1
           to == Len(f) + 1
<1>2. /\ text \in Seq(Char) /\ source \in Seq(Char) /\ Len(source) > 0
      /\ source[1] = "x" /\ source[Len(source)] = "x"
  BY TextsType
<1> HIDE DEF source, text
<1>3. /\ file' = f /\ expanded' = e /\ origin' = q
      /\ sourceLines' = s.lines /\ line' = s.line + LineBreaks(source) /\ previousCR' = s.cr
  BY <1>1, <1>2, WriteFacts DEF source, text
<1>4. /\ file \in Seq(Char) /\ expanded \in Seq(Char) /\ Lies(file, placeholders, expanded, origin)
      /\ Reached(file, sourceLines, line, previousCR) /\ \A p \in placeholders : p.at < p.to
  BY DEF LinesInv
<1> HIDE DEF s
<1>5. s \in Written /\ Between(f, text, FALSE, s, n)
  BY <1>2, <1>4, TextWritten DEF s
<1>6. /\ f \in Seq(Char) /\ e \in Seq(Char) /\ Len(f) = Len(file) + Len(source)
      /\ Len(e) = Len(expanded) + n
      /\ Lies(f, placeholders, e, q)
      /\ \A b \in DOMAIN e : q[b].at \in 1..at
  BY <1>2, PartLies
<1>7. SubSeq(text, 1, n) = text /\ PlaceOf(FALSE, n) = at
  BY <1>2 DEF PlaceOf
<1> HIDE DEF n
<1>8. /\ s.cr = EndsInCR(e) /\ s.line = LineOf(f, at)
      /\ Follows(f, placeholders, e, q, s.lines, at)
  BY Zenon, <1>5, <1>7 DEF Between
<1>9. /\ at \in Nat \ {0} /\ to \in Nat /\ at < to /\ to <= Len(f) + 1 /\ Len(f) \in Nat
      /\ at \in 1..(Len(f) + 1)
  BY <1>2, <1>4, <1>6
<1>10. LineOf(f, to) = LineOf(f, at) + LineBreaks(source)
  BY <1>2, <1>4, LineAtEnd
<1>11. LineOf(f, at) \in Nat /\ LineBreaks(source) \in Nat
  <2> HIDE DEF f, at, to
  <2> QED BY <1>2, <1>6, <1>9, LineType, BreaksType
<1>12. \A p \in placeholders : p.at < p.to /\ p.to <= at
  BY <1>4 DEF Lies
<1> HIDE DEF f, e, q, at, to
<1> DEFINE new == [at |-> at, to |-> to, end |-> Len(e)]
           more == placeholders \cup {new}
<1>13. Follows(f, more, e, q, s.lines, to)
  <2>1. \A b \in DOMAIN e : q[b].at <= at
    BY <1>6, <1>9
  <2>2. LineOf(f, at) <= LineOf(f, to)
    BY <1>10, <1>11
  <2> QED BY <1>6, <1>8, <1>9, <1>12, <2>1, <2>2, PlaceholderEnds
<1>14. placeholders' = more
  BY <1>1, <1>3 DEF at, to, f
<1>15. Lies(f, more, e, q)
  <2>1. Len(e) \in Nat
    BY <1>6
  <2>2. new \in Passages
    BY <1>9, <2>1 DEF Passages
  <2>3. new.at \in 1..(Len(f) + 1) /\ new.to \in 1..(Len(f) + 1) /\ new.end <= Len(e)
    BY <1>9, <2>1
  <2> HIDE DEF new
  <2> QED BY <1>6, <2>2, <2>3 DEF Lies
<1>16. \A p \in more : p.at < p.to
  BY <1>4, <1>9
<1>17. ~EndsInCR(f)
  <2>1. f[Len(f)] = "x"
    BY <1>2, <1>4 DEF f
  <2> QED BY <2>1 DEF EndsInCR
<1>18. line' = LineOf(f, to)
  BY <1>3, <1>8, <1>10
<1> HIDE DEF more
<1>19. Reached(file, sourceLines, line, previousCR)'
  <2>1. to = Len(f) + 1
    BY DEF to
  <2>2. Follows(file', placeholders', expanded', origin', sourceLines', Len(file') + 1)
    BY Zenon, <1>3, <1>13, <1>14, <2>1
  <2>3. previousCR' = EndsInCR(expanded') /\ line' = LineOf(file', Len(file') + 1)
    BY Zenon, <1>3, <1>8, <1>18, <2>1
  <2> QED BY <2>2, <2>3 DEF Reached
<1>20. Lies(file', placeholders', expanded', origin')
  BY Zenon, <1>3, <1>14, <1>15
<1> QED BY <1>3, <1>6, <1>14, <1>16, <1>17, <1>19, <1>20 DEF LinesInv

\* The invariant implies the property.
LEMMA LinesInvSuffices == LinesInv => SourceLinesFollowTheFile
<1> SUFFICES ASSUME LinesInv PROVE SourceLinesFollowTheFile
  OBVIOUS
<1>1. Follows(file, placeholders, expanded, origin, sourceLines, Len(file) + 1)
  BY DEF LinesInv, Reached
<1>2. ASSUME NEW b \in DOMAIN expanded, Begins(expanded, b)
      PROVE  sourceLines[LineOf(expanded, b)] =
               Min(Lines(file, placeholders, BreakOf(expanded, origin, b), origin[b].at))
  <2> DEFINE S == Lines(file, placeholders, BreakOf(expanded, origin, b), origin[b].at)
             n == sourceLines[LineOf(expanded, b)]
  <2>1. Least(n, S)
    BY <1>1, <1>2 DEF Follows, EachLine
  <2>2. S \subseteq Nat
    <3>1. /\ \A p \in placeholders : p.at \in 1..(Len(file) + 1)
          /\ origin[b].at \in 1..(Len(file) + 1) /\ file \in Seq(Char)
      BY DEF LinesInv, Lies
    <3>2. \A at \in 1..(Len(file) + 1) : LineOf(file, at) \in Nat
      BY <3>1, LineType
    <3> QED BY <3>1, <3>2 DEF Lines
  <2> HIDE DEF S, n
  <2>3. n \in S /\ \A m \in S : n <= m
    BY <2>1 DEF Least
  <2>4. \A m \in S : (\A k \in S : m <= k) => m = n
    BY <2>2, <2>3
  <2>5. Min(S) = n
    BY <2>3, <2>4 DEF Min
  <2> QED BY <2>5 DEF S, n
<1> QED BY <1>1, <1>2 DEF SourceLinesFollowTheFile, Follows

\* interpolateEnv, for all texts and placeholders and however they are put together:
\* the file's line is known for every line of the expanded text, and it is that of
\* the line's first character, but where a placeholder of several lines ends before it.
THEOREM LinesFollowTheFile ==
  ConfigurationInit /\ [][ConfigurationNext]_configuration => []SourceLinesFollowTheFile
<1>1. LinesInv /\ [ConfigurationNext]_configuration => LinesInv'
  <2> SUFFICES ASSUME LinesInv, [ConfigurationNext]_configuration PROVE LinesInv'
    OBVIOUS
  <2>1. CASE UNCHANGED configuration
    BY <2>1 DEF configuration, textVars, LinesInv, Reached
  <2>2. CASE ParseConfig
    <3>1. phase' # "literal" /\ UNCHANGED textVars
      BY <2>2 DEF ParseConfig
    <3> QED BY <3>1 DEF textVars, LinesInv, Reached
  <2> QED BY <2>1, <2>2, WriteLiteralPreserves, WritePlaceholderPreserves DEF ConfigurationNext
<1> QED BY <1>1, LinesInitially, LinesInvSuffices, PTL

-----------------------------------------------------------------------------
(* The fields of a document                                                *)

\* Induction from a bound down.
LEMMA DownTo ==
  ASSUME NEW n \in Nat, NEW T, \A i \in 1..n : (\A c \in (i + 1)..n : c \in T) => i \in T
  PROVE  1..n \subseteq T
<1> DEFINE S == {m \in 0..n : \A c \in (n - m + 1)..n : c \in T}
<1>1. 0 \in S
  OBVIOUS
<1>2. ASSUME NEW m \in 0..n, m \in S, m < n PROVE m + 1 \in S
  <2> DEFINE i == n - m
  <2>1. i \in 1..n /\ i + 1 = n - m + 1 /\ n - (m + 1) + 1 = i /\ m + 1 \in 0..n
    BY <1>2
  <2>2. \A c \in (i + 1)..n : c \in T
    BY <1>2, <2>1
  <2>3. i \in T
    BY <2>1, <2>2
  <2>4. i..n = {i} \cup (i + 1)..n
    BY <2>1
  <2>5. \A c \in i..n : c \in T
    BY <2>2, <2>3, <2>4
  <2> QED BY <2>1, <2>5
<1>3. 0..n \subseteq S
  <2> HIDE DEF S
  <2> QED BY <1>1, <1>2, UpTo
<1>4. n \in S
  <2> HIDE DEF S
  <2> QED BY <1>3
<1> QED BY <1>4

\* A function whose values are made of those at larger numbers.
IsRecursive(f, n, G) == \A i \in 1..n : f[i] = G[i][f]

\* Recursion from the last node to the first has a solution: a child of a node
\* has a greater number, so a value depends only on later ones.
LEMMA Downward ==
  ASSUME NEW V, NEW v \in V, NEW n \in Nat, NEW G \in [1..n -> [[1..n -> V] -> V]],
         \A i \in 1..n : \A x, y \in [1..n -> V] :
           (\A c \in (i + 1)..n : x[c] = y[c]) => G[i][x] = G[i][y]
  PROVE  \E f \in [1..n -> V] : IsRecursive(f, n, G)
<1> DEFINE X == [1..n -> V]
           Right(f, m) == \A i \in (n - m + 1)..n : f[i] = G[i][f]
           S == {m \in 0..n : \E f \in X : Right(f, m)}
<1>1. 0 \in S
  <2> DEFINE f == [i \in 1..n |-> v]
  <2>1. f \in X /\ Right(f, 0) /\ 0 \in 0..n
    OBVIOUS
  <2> HIDE DEF f, Right, X
  <2> QED BY <2>1
<1>2. ASSUME NEW m \in 0..n, m \in S, m < n PROVE m + 1 \in S
  <2>1. PICK f \in X : Right(f, m)
    BY <1>2
  <2> DEFINE j == n - m
             g == [f EXCEPT ![j] = G[j][f]]
  <2>2. j \in 1..n /\ m + 1 \in 0..n /\ n - m + 1 = j + 1 /\ n - (m + 1) + 1 = j
    BY <1>2
  <2>3. G[j][f] \in V
    BY <2>2
  <2>4. g \in X /\ g[j] = G[j][f] /\ \A i \in (j + 1)..n : g[i] = f[i]
    BY <2>2, <2>3
  <2> HIDE DEF g, X
  <2>5. ASSUME NEW i \in j..n PROVE g[i] = G[i][g]
    <3>1. i \in 1..n /\ \A c \in (i + 1)..n : g[c] = f[c]
      BY <2>2, <2>4
    <3>2. G[i][g] = G[i][f]
      BY <2>1, <2>4, <3>1 DEF X
    <3>3. CASE i = j
      BY <2>4, <3>2, <3>3
    <3>4. CASE i # j
      <4>1. i \in (j + 1)..n
        BY <2>2, <3>4
      <4> QED BY <2>1, <2>2, <2>4, <3>2, <4>1
    <3> QED BY <3>3, <3>4
  <2>6. Right(g, m + 1)
    BY <2>2, <2>5
  <2> HIDE DEF Right
  <2> QED BY <2>2, <2>4, <2>6
<1>3. n \in S
  <2> HIDE DEF S
  <2>1. 0..n \subseteq S
    BY <1>1, <1>2, UpTo
  <2> QED BY <2>1
<1>4. PICK f \in X : Right(f, n)
  BY <1>3
<1>5. IsRecursive(f, n, G)
  BY <1>4 DEF IsRecursive
<1> QED BY <1>5

\* The first of some places in a sequence.
IsFirst(r, n, I) ==
  /\ r \in 0..n
  /\ r = 0 <=> I = {}
  /\ r # 0 => r \in I /\ \A i \in I : r <= i

\* The least of the indices I, or 0, is the first of them.
LEMMA FirstExists ==
  ASSUME NEW n \in Nat, NEW I \in SUBSET (1..n)
  PROVE  IsFirst(IF I # {} THEN Min(I) ELSE 0, n, I)
<1>1. CASE I = {}
  BY <1>1 DEF IsFirst
<1>2. CASE I # {}
  <2>1. \E k \in I : \A j \in I : k <= j
    <3>1. I \subseteq Nat
      OBVIOUS
    <3> QED BY <1>2, <3>1, SmallestExists
  <2>2. Min(I) \in I /\ \A j \in I : Min(I) <= j
    BY <2>1 DEF Min
  <2>3. IsFirst(Min(I), n, I)
    <3> DEFINE m == Min(I)
    <3> HIDE DEF m
    <3>1. m \in I /\ \A j \in I : m <= j
      BY <2>2 DEF m
    <3>2. IsFirst(m, n, I)
      BY <1>2, <3>1 DEF IsFirst
    <3> QED BY <3>2 DEF m
  <2>4. (IF I # {} THEN Min(I) ELSE 0) = Min(I)
    BY <1>2
  <2> QED BY Zenon, <2>3, <2>4
<1> QED BY <1>1, <1>2

\* There is only one.
LEMMA OneFirst ==
  ASSUME NEW n \in Nat, NEW I \in SUBSET (1..n), NEW r, NEW s, IsFirst(r, n, I), IsFirst(s, n, I)
  PROVE  r = s
BY DEF IsFirst

\* The nodes of a parsed document.
Tree(nodes) == nodes \in Seq(Node) \ {<<>>} /\ IsTree(nodes)

\* What IsTree says of each node.
LEMMA TreeFacts ==
  ASSUME NEW nodes, Tree(nodes)
  PROVE  /\ Len(nodes) \in Nat \ {0} /\ DOMAIN nodes = 1..Len(nodes)
         /\ \A i \in 1..Len(nodes) :
              /\ nodes[i].content \in Seq((i + 1)..Len(nodes))
              /\ nodes[i].keys \in Seq(STRING)
              /\ nodes[i].kind = "mapping" => Len(nodes[i].keys) = Len(nodes[i].content)
              /\ nodes[i].kind = "alias" => Len(nodes[i].content) = 1
<1>1. nodes \in Seq(Node) /\ nodes # <<>>
  BY DEF Tree
<1>2. /\ Len(nodes) \in Nat \ {0} /\ DOMAIN nodes = 1..Len(nodes)
      /\ \A i \in 1..Len(nodes) : nodes[i] \in Node
  BY <1>1
<1>3. \A i \in 1..Len(nodes) : nodes[i].keys \in Seq(STRING)
  BY <1>2 DEF Node
<1>4. \A i \in 1..Len(nodes) :
              /\ nodes[i].content \in Seq((i + 1)..Len(nodes))
              /\ nodes[i].kind = "mapping" => Len(nodes[i].keys) = Len(nodes[i].content)
              /\ nodes[i].kind = "alias" => Len(nodes[i].content) = 1
  BY <1>2 DEF Tree, IsTree
<1> QED BY <1>2, <1>3, <1>4

\* An alias points somewhere.
LEMMA PointeeType ==
  ASSUME NEW nodes, Tree(nodes)
  PROVE  Pointee(nodes) \in [1..Len(nodes) -> 1..Len(nodes)]
<1> DEFINE n == Len(nodes)
           V == 1..n
           Body(f, i) == IF nodes[i].kind = "alias" THEN f[nodes[i].content[1]] ELSE i
           Eq(f) == f = [i \in 1..n |-> Body(f, i)]
           g == CHOOSE f : Eq(f)
           G == [i \in 1..n |-> [x \in [1..n -> V] |-> Body(x, i)]]
<1>1. /\ n \in Nat \ {0} /\ DOMAIN nodes = 1..n
      /\ \A i \in 1..n : nodes[i].kind = "alias" => nodes[i].content[1] \in (i + 1)..n
  <2>1. \A i \in 1..n : nodes[i].kind = "alias" =>
          nodes[i].content \in Seq((i + 1)..n) /\ Len(nodes[i].content) = 1
    BY TreeFacts
  <2> QED BY <2>1, TreeFacts
<1>2. Pointee(nodes) = g
  BY <1>1 DEF Pointee
<1> HIDE DEF n
<1>3. \A i \in 1..n : \A x \in [1..n -> V] : Body(x, i) \in V
  BY <1>1
<1>4. G \in [1..n -> [[1..n -> V] -> V]]
  <2> HIDE DEF Body
  <2> QED BY <1>3
<1>5. \A i \in 1..n : \A x, y \in [1..n -> V] :
        (\A c \in (i + 1)..n : x[c] = y[c]) => G[i][x] = G[i][y]
  BY <1>1
<1>6. PICK f \in [1..n -> V] : IsRecursive(f, n, G)
  <2>1. 1 \in V
    BY <1>1
  <2> HIDE DEF G, V
  <2> QED BY <1>1, <1>4, <1>5, <2>1, Downward
<1>7. Eq(f)
  <2> HIDE DEF Body
  <2> QED BY <1>6 DEF IsRecursive
<1>8. Eq(g)
  <2> HIDE DEF Eq
  <2> QED BY <1>7
<1> HIDE DEF g
<1>9. DOMAIN g = 1..n /\ \A i \in 1..n : g[i] = Body(g, i)
  <2> HIDE DEF Body
  <2> QED BY <1>8
<1>10. 1..n \subseteq {i \in 1..n : g[i] \in V}
  <2> DEFINE T == {i \in 1..n : g[i] \in V}
  <2>1. ASSUME NEW i \in 1..n, \A c \in (i + 1)..n : c \in T PROVE i \in T
    <3>1. CASE nodes[i].kind = "alias"
      BY <1>1, <1>9, <2>1, <3>1
    <3>2. CASE nodes[i].kind # "alias"
      BY <1>9, <3>2
    <3> QED BY <3>1, <3>2
  <2> HIDE DEF T
  <2>2. 1..n \subseteq T
    BY <1>1, <2>1, DownTo
  <2> QED BY <2>2 DEF T
<1>11. g \in [1..n -> V]
  <2> HIDE DEF Body
  <2> QED BY <1>8, <1>10
<1> QED BY <1>2, <1>11 DEF n

\* The key of a mapping, if it has it.
LEMMA OwnIs ==
  ASSUME NEW node, node.keys \in Seq(STRING), NEW key
  PROVE  /\ Own(node, key) \in 0..Len(node.keys)
         /\ Own(node, key) = 0 <=> key \notin Range(node.keys)
         /\ Own(node, key) # 0 => node.keys[Own(node, key)] = key
<1> DEFINE m == Len(node.keys)
           I == {i \in 1..m : node.keys[i] = key}
<1>1. Own(node, key) = IF I # {} THEN Min(I) ELSE 0
  BY DEF Own, SelectInSeq
<1>2. m \in Nat /\ DOMAIN node.keys = 1..m /\ I \in SUBSET (1..m)
  OBVIOUS
<1>3. IsFirst(Own(node, key), m, I)
  <2> HIDE DEF I, m
  <2>1. IsFirst(IF I # {} THEN Min(I) ELSE 0, m, I)
    BY <1>2, FirstExists
  <2> QED BY Zenon, <1>1, <2>1
<1>4. I = {} <=> key \notin Range(node.keys)
  BY <1>2 DEF Range
<1> HIDE DEF m
<1> QED BY <1>3, <1>4 DEF IsFirst, m

\* Functions from some names to nodes.
FieldMaps(n) == UNION {[D -> 1..n] : D \in SUBSET STRING}

\* A field map is a function from names to nodes...
LEMMA FieldMapIs ==
  ASSUME NEW n, NEW f \in FieldMaps(n)
  PROVE  /\ f = [k \in DOMAIN f |-> f[k]] /\ DOMAIN f \subseteq STRING
         /\ \A k \in DOMAIN f : f[k] \in 1..n
<1>1. PICK D \in SUBSET STRING : f \in [D -> 1..n]
  BY DEF FieldMaps
<1> QED BY <1>1

\* ... and any such function is one.
LEMMA IsFieldMap ==
  ASSUME NEW n, NEW f, f = [k \in DOMAIN f |-> f[k]], DOMAIN f \subseteq STRING,
         \A k \in DOMAIN f : f[k] \in 1..n
  PROVE  f \in FieldMaps(n)
<1>1. f \in [DOMAIN f -> 1..n]
  OBVIOUS
<1> QED BY <1>1 DEF FieldMaps

\* The mappings in a list: a field is that of the first that has it.
Having(node, of, key) == {j \in 1..Len(node.content) : key \in DOMAIN of[node.content[j]]}

\* The fields of merged mappings: a key is there when a mapping has it, with the
\* value of the first that has.
LEMMA MergedIs ==
  ASSUME NEW n \in Nat, NEW node, node.content \in Seq(1..n),
         NEW of, \A j \in 1..Len(node.content) : of[node.content[j]] \in FieldMaps(n)
  PROVE  LET f == MergedFields(node, of)
         IN /\ f \in FieldMaps(n)
            /\ \A key : key \in DOMAIN f <=> Having(node, of, key) # {}
            /\ \A key \in DOMAIN f : \E r : /\ IsFirst(r, Len(node.content), Having(node, of, key))
                                            /\ f[key] = of[node.content[r]][key]
<1> DEFINE f == MergedFields(node, of)
           m == Len(node.content)
           First(k) == SelectInSeq(node.content, LAMBDA c : k \in DOMAIN of[c])
           D == UNION {DOMAIN of[c] : c \in Range(node.content)}
<1>1. f = [k \in D |-> of[node.content[First(k)]][k]]
  BY DEF MergedFields
<1>2. m \in Nat /\ DOMAIN node.content = 1..m /\ \A j \in 1..m : node.content[j] \in 1..n
  OBVIOUS
<1>3. ASSUME NEW key PROVE IsFirst(First(key), m, Having(node, of, key))
  <2>1. First(key) = IF Having(node, of, key) # {} THEN Min(Having(node, of, key)) ELSE 0
    BY DEF SelectInSeq, Having
  <2>2. Having(node, of, key) \in SUBSET (1..m)
    BY DEF Having
  <2>3. IsFirst(IF Having(node, of, key) # {} THEN Min(Having(node, of, key)) ELSE 0,
                m, Having(node, of, key))
    <3> HIDE DEF m
    <3> QED BY <1>2, <2>2, FirstExists
  <2> QED BY Zenon, <2>1, <2>3
<1>4. ASSUME NEW key PROVE key \in D <=> Having(node, of, key) # {}
  BY <1>2 DEF Having, Range
<1> HIDE DEF First, m, f
<1>5. DOMAIN f = D /\ f = [k \in DOMAIN f |-> f[k]]
  BY <1>1
<1>6. ASSUME NEW key \in D
      PROVE  /\ f[key] = of[node.content[First(key)]][key]
             /\ f[key] \in 1..n /\ key \in STRING
  <2>1. f[key] = of[node.content[First(key)]][key]
    BY <1>1
  <2>2. First(key) \in Having(node, of, key)
    BY <1>3, <1>4 DEF IsFirst
  <2>3. First(key) \in 1..m /\ key \in DOMAIN of[node.content[First(key)]]
    BY <2>2 DEF Having, m
  <2>4. of[node.content[First(key)]] \in FieldMaps(n)
    BY <1>2, <2>3
  <2>5. of[node.content[First(key)]][key] \in 1..n /\ key \in STRING
    BY <2>3, <2>4, FieldMapIs
  <2> QED BY <2>1, <2>5
<1>7. f \in FieldMaps(n)
  <2>1. DOMAIN f \subseteq STRING /\ \A k \in DOMAIN f : f[k] \in 1..n
    BY <1>5, <1>6
  <2> QED BY <1>5, <2>1, IsFieldMap
<1>8. \A key : key \in DOMAIN f <=> Having(node, of, key) # {}
  <2> HIDE DEF D
  <2> QED BY <1>4, <1>5
<1>9. ASSUME NEW key \in DOMAIN f
      PROVE  \E r : IsFirst(r, m, Having(node, of, key)) /\ f[key] = of[node.content[r]][key]
  <2> HIDE DEF D
  <2>1. f[key] = of[node.content[First(key)]][key]
    BY <1>5, <1>6
  <2> QED BY <1>3, <2>1
<1> QED BY <1>7, <1>8, <1>9 DEF f, m

\* A mapping has its own fields, and those that it merges.
IsOwnFields(f, node, of, merge) ==
  \A key : key # "<<" =>
    /\ key \in Range(node.keys) => key \in DOMAIN f /\ f[key] = node.content[Own(node, key)]
    /\ key \notin Range(node.keys) /\ merge = 0 => key \notin DOMAIN f
    /\ key \notin Range(node.keys) /\ merge # 0 =>
         /\ key \in DOMAIN f <=> key \in DOMAIN of[node.content[merge]]
         /\ key \in DOMAIN f => f[key] = of[node.content[merge]][key]

\* A mapping's own fields come before the merged ones.
LEMMA OwnFieldsAre ==
  ASSUME NEW n \in Nat, NEW node, node.content \in Seq(1..n),
         NEW of, \A j \in 1..Len(node.content) : of[node.content[j]] \in FieldMaps(n),
         node.keys \in Seq(STRING), Len(node.keys) = Len(node.content)
  PROVE  /\ OwnFields(node, of) \in FieldMaps(n)
         /\ IsOwnFields(OwnFields(node, of), node, of, Own(node, "<<"))
<1> DEFINE f == OwnFields(node, of)
           m == Len(node.content)
           merge == Own(node, "<<")
           merged == IF merge = 0 THEN NoFields ELSE of[node.content[merge]]
           D == (Range(node.keys) \ {"<<"}) \cup DOMAIN merged
<1>1. f = [k \in D |-> IF k \in Range(node.keys) THEN node.content[Own(node, k)] ELSE merged[k]]
  BY DEF OwnFields
<1>2. /\ m \in Nat /\ DOMAIN node.keys = 1..m /\ \A j \in 1..m : node.content[j] \in 1..n
      /\ Range(node.keys) \subseteq STRING
  BY DEF Range
<1>3. \A key : /\ Own(node, key) \in 0..m
               /\ Own(node, key) = 0 <=> key \notin Range(node.keys)
  BY OwnIs
<1>4. DOMAIN NoFields = {} /\ NoFields = [k \in DOMAIN NoFields |-> NoFields[k]]
  BY DEF NoFields
<1>5. merged \in FieldMaps(n)
  <2>1. CASE merge = 0
    <3>1. NoFields \in FieldMaps(n)
      BY <1>4, IsFieldMap
    <3> QED BY <2>1, <3>1
  <2>2. CASE merge # 0
    <3>1. merge \in 1..m
      BY <1>2, <1>3, <2>2
    <3>2. of[node.content[merge]] \in FieldMaps(n)
      BY <1>2, <3>1
    <3> QED BY <2>2, <3>2
  <2> QED BY <2>1, <2>2
<1> HIDE DEF f, merge, m
<1>6. /\ merge = 0 => DOMAIN merged = {}
      /\ merge # 0 => merged = of[node.content[merge]]
  BY <1>4
<1> HIDE DEF merged
<1>7. /\ DOMAIN merged \subseteq STRING /\ \A k \in DOMAIN merged : merged[k] \in 1..n
  BY <1>5, FieldMapIs
<1>8. DOMAIN f = D /\ f = [k \in DOMAIN f |-> f[k]]
  BY <1>1
<1>9. ASSUME NEW k \in D PROVE f[k] \in 1..n /\ k \in STRING
  <2>1. CASE k \in Range(node.keys)
    <3>1. Own(node, k) \in 1..m
      BY <1>2, <1>3, <2>1
    <3>2. f[k] = node.content[Own(node, k)]
      BY <1>1, <2>1
    <3> QED BY <1>2, <2>1, <3>1, <3>2
  <2>2. CASE k \notin Range(node.keys)
    BY <1>1, <1>7, <2>2
  <2> QED BY <2>1, <2>2
<1>10. f \in FieldMaps(n)
  <2>1. DOMAIN f \subseteq STRING /\ \A k \in DOMAIN f : f[k] \in 1..n
    BY <1>8, <1>9
  <2> QED BY <1>8, <2>1, IsFieldMap
<1>11. ASSUME NEW key, key # "<<"
       PROVE /\ key \in Range(node.keys) =>
                  key \in DOMAIN f /\ f[key] = node.content[Own(node, key)]
             /\ key \notin Range(node.keys) /\ merge = 0 => key \notin DOMAIN f
             /\ key \notin Range(node.keys) /\ merge # 0 =>
                      /\ key \in DOMAIN f <=> key \in DOMAIN of[node.content[merge]]
                      /\ key \in DOMAIN f => f[key] = of[node.content[merge]][key]
  <2>1. CASE key \in Range(node.keys)
    BY <1>1, <1>8, <1>11, <2>1
  <2>2. CASE key \notin Range(node.keys)
    <3>1. key \in DOMAIN f <=> key \in DOMAIN merged
      BY <1>8, <2>2
    <3>2. key \in DOMAIN f => f[key] = merged[key]
      BY <1>1, <1>8, <2>2
    <3> QED BY <1>6, <2>2, <3>1, <3>2
  <2> QED BY <2>1, <2>2
<1>12. IsOwnFields(f, node, of, merge)
  BY <1>11 DEF IsOwnFields
<1> QED BY <1>10, <1>12 DEF f, merge

\* The children of a node, with greater numbers than its own.
LEMMA ContentOf ==
  ASSUME NEW nodes, Tree(nodes), NEW i \in 1..Len(nodes)
  PROVE  /\ nodes[i].content \in Seq(1..Len(nodes)) /\ nodes[i].keys \in Seq(STRING)
         /\ Len(nodes[i].content) \in Nat /\ DOMAIN nodes[i].content = 1..Len(nodes[i].content)
         /\ \A j \in 1..Len(nodes[i].content) : nodes[i].content[j] \in (i + 1)..Len(nodes)
         /\ nodes[i].kind = "alias" => 1 \in 1..Len(nodes[i].content)
         /\ nodes[i].kind = "mapping" => Len(nodes[i].keys) = Len(nodes[i].content)
<1> DEFINE s == nodes[i].content
           n == Len(nodes)
<1>1. /\ n \in Nat /\ s \in Seq((i + 1)..n)
      /\ nodes[i].kind = "alias" => Len(s) = 1
  BY TreeFacts
<1>2. /\ Len(s) \in Nat /\ DOMAIN s = 1..Len(s) /\ \A j \in 1..Len(s) : s[j] \in (i + 1)..n
  BY <1>1
<1>3. (i + 1)..n \subseteq 1..n
  BY <1>1
<1>4. nodes[i].keys \in Seq(STRING) /\ (nodes[i].kind = "mapping" => Len(nodes[i].keys) = Len(s))
  BY TreeFacts
<1> SUFFICES /\ s \in Seq(1..n) /\ nodes[i].keys \in Seq(STRING)
             /\ Len(s) \in Nat /\ DOMAIN s = 1..Len(s)
             /\ \A j \in 1..Len(s) : s[j] \in (i + 1)..n
             /\ nodes[i].kind = "alias" => 1 \in 1..Len(s)
             /\ nodes[i].kind = "mapping" => Len(nodes[i].keys) = Len(s)
  OBVIOUS
<1> HIDE DEF s, n
<1>5. s \in Seq(1..n)
  BY <1>1, <1>3
<1>6. nodes[i].kind = "alias" => 1 \in 1..Len(s)
  BY <1>1
<1> QED BY <1>2, <1>4, <1>5, <1>6

\* The fields of a node are a field map when those of its children are.
LEMMA FieldsOfType ==
  ASSUME NEW nodes, Tree(nodes), NEW i \in 1..Len(nodes),
         NEW of, \A c \in (i + 1)..Len(nodes) : of[c] \in FieldMaps(Len(nodes))
  PROVE  FieldsOf(nodes[i], of) \in FieldMaps(Len(nodes))
<1> DEFINE n == Len(nodes)
           node == nodes[i]
<1>1. n \in Nat
  BY TreeFacts
<1>2. /\ node.content \in Seq(1..n) /\ node.keys \in Seq(STRING)
      /\ \A j \in 1..Len(node.content) : of[node.content[j]] \in FieldMaps(n)
      /\ node.kind = "alias" => 1 \in 1..Len(node.content)
      /\ node.kind = "mapping" => Len(node.keys) = Len(node.content)
  BY <1>1, ContentOf
<1>3. NoFields \in FieldMaps(n)
  <2>1. DOMAIN NoFields = {} /\ NoFields = [k \in DOMAIN NoFields |-> NoFields[k]]
    BY DEF NoFields
  <2> QED BY <2>1, IsFieldMap
<1> SUFFICES FieldsOf(node, of) \in FieldMaps(n)
  OBVIOUS
<1> HIDE DEF n, node
<1>4. MergedFields(node, of) \in FieldMaps(n)
  BY <1>1, <1>2, MergedIs
<1>5. node.kind = "mapping" => OwnFields(node, of) \in FieldMaps(n)
  BY <1>1, <1>2, OwnFieldsAre
<1>6. node.kind = "alias" => of[node.content[1]] \in FieldMaps(n)
  BY <1>2
<1> QED BY <1>3, <1>4, <1>5, <1>6 DEF FieldsOf

\* The fields of a node are made of those of the nodes in it.
LEMMA FieldsOfLater ==
  ASSUME NEW nodes, Tree(nodes), NEW i \in 1..Len(nodes), NEW x, NEW y,
         \A c \in (i + 1)..Len(nodes) : x[c] = y[c] /\ x[c] \in FieldMaps(Len(nodes))
  PROVE  FieldsOf(nodes[i], x) = FieldsOf(nodes[i], y)
<1> DEFINE n == Len(nodes)
           node == nodes[i]
           m == Len(node.content)
<1>1. n \in Nat
  BY TreeFacts
<1>2. /\ node.content \in Seq(1..n) /\ node.keys \in Seq(STRING)
      /\ m \in Nat
      /\ \A j \in 1..m : x[node.content[j]] = y[node.content[j]]
      /\ \A j \in 1..m : x[node.content[j]] \in FieldMaps(n) /\ y[node.content[j]] \in FieldMaps(n)
      /\ node.kind = "alias" => 1 \in 1..m
      /\ node.kind = "mapping" => Len(node.keys) = m
  BY ContentOf
<1> SUFFICES FieldsOf(node, x) = FieldsOf(node, y)
  OBVIOUS
<1> HIDE DEF n, node
<1>3. MergedFields(node, x) = MergedFields(node, y)
  <2> DEFINE f == MergedFields(node, x)
             g == MergedFields(node, y)
  <2>1. \A key : Having(node, x, key) = Having(node, y, key)
    BY <1>2 DEF Having
  <2>2. /\ f \in FieldMaps(n) /\ \A key : key \in DOMAIN f <=> Having(node, x, key) # {}
        /\ \A key \in DOMAIN f : \E r : /\ IsFirst(r, m, Having(node, x, key))
                                        /\ f[key] = x[node.content[r]][key]
    BY <1>1, <1>2, MergedIs
  <2>3. /\ g \in FieldMaps(n) /\ \A key : key \in DOMAIN g <=> Having(node, y, key) # {}
        /\ \A key \in DOMAIN g : \E r : /\ IsFirst(r, m, Having(node, y, key))
                                        /\ g[key] = y[node.content[r]][key]
    BY <1>1, <1>2, MergedIs
  <2> HIDE DEF f, g, m
  <2>4. DOMAIN f = DOMAIN g
    BY <2>1, <2>2, <2>3
  <2>5. ASSUME NEW key \in DOMAIN f PROVE f[key] = g[key]
    <3> DEFINE I == Having(node, x, key)
    <3>1. PICK r : IsFirst(r, m, I) /\ f[key] = x[node.content[r]][key]
      BY <2>2
    <3>2. PICK s : IsFirst(s, m, I) /\ g[key] = y[node.content[s]][key]
      BY <2>1, <2>3, <2>4
    <3>3. I \in SUBSET (1..m) /\ I # {}
      BY <2>2 DEF Having, m
    <3> HIDE DEF I
    <3>4. r = s
      BY <1>2, <3>1, <3>2, <3>3, OneFirst
    <3>5. r \in 1..m
      BY <1>2, <3>1, <3>3 DEF IsFirst
    <3> QED BY <1>2, <3>1, <3>2, <3>4, <3>5
  <2>6. f = [k \in DOMAIN f |-> f[k]] /\ g = [k \in DOMAIN g |-> g[k]]
    BY <2>2, <2>3, FieldMapIs
  <2>7. f = g
    BY <2>4, <2>5, <2>6
  <2> QED BY <2>7 DEF f, g
<1>4. node.kind = "mapping" => OwnFields(node, x) = OwnFields(node, y)
  <2> SUFFICES ASSUME node.kind = "mapping" PROVE OwnFields(node, x) = OwnFields(node, y)
    OBVIOUS
  <2>1. Own(node, "<<") # 0 => Own(node, "<<") \in 1..m
    <3>1. Own(node, "<<") \in 0..m
      BY <1>2, OwnIs
    <3> HIDE DEF m
    <3> QED BY <1>2, <3>1
  <2>2. Own(node, "<<") # 0 => x[node.content[Own(node, "<<")]] = y[node.content[Own(node, "<<")]]
    BY <1>2, <2>1
  <2> DEFINE a == IF Own(node, "<<") = 0 THEN NoFields ELSE x[node.content[Own(node, "<<")]]
             b == IF Own(node, "<<") = 0 THEN NoFields ELSE y[node.content[Own(node, "<<")]]
             Made(merged) == [k \in (Range(node.keys) \ {"<<"}) \cup DOMAIN merged |->
                                IF k \in Range(node.keys) THEN node.content[Own(node, k)]
                                ELSE merged[k]]
  <2>3. a = b
    BY <2>2
  <2>4. OwnFields(node, x) = Made(a) /\ OwnFields(node, y) = Made(b)
    BY DEF OwnFields
  <2> HIDE DEF a, b, Made
  <2> QED BY <2>3, <2>4
<1>5. node.kind = "alias" => x[node.content[1]] = y[node.content[1]]
  BY <1>2
<1> QED BY <1>3, <1>4, <1>5 DEF FieldsOf

\* Fields satisfies its recursive equation.
LEMMA FieldsAre ==
  ASSUME NEW nodes, Tree(nodes)
  PROVE  /\ Fields(nodes) \in [1..Len(nodes) -> FieldMaps(Len(nodes))]
         /\ \A i \in 1..Len(nodes) : Fields(nodes)[i] = FieldsOf(nodes[i], Fields(nodes))
<1> DEFINE n == Len(nodes)
           V == FieldMaps(n)
           Body(f, i) == FieldsOf(nodes[i], f)
           Eq(f) == f = [i \in 1..n |-> Body(f, i)]
           g == CHOOSE f : Eq(f)
           G == [i \in 1..n |-> [x \in [1..n -> V] |-> Body(x, i)]]
<1>1. n \in Nat \ {0} /\ DOMAIN nodes = 1..n
  BY TreeFacts
<1>2. Fields(nodes) = g
  BY <1>1 DEF Fields
<1>3. \A i \in 1..n : \A x \in [1..n -> V] : Body(x, i) \in V
  <2> SUFFICES ASSUME NEW i \in 1..n, NEW x \in [1..n -> V] PROVE Body(x, i) \in V
    OBVIOUS
  <2>1. \A c \in (i + 1)..n : x[c] \in V
    BY <1>1
  <2> QED BY <2>1, FieldsOfType
<1>4. G \in [1..n -> [[1..n -> V] -> V]]
  <2> HIDE DEF Body, V, n
  <2> QED BY <1>3
<1>5. \A i \in 1..n : \A x, y \in [1..n -> V] :
        (\A c \in (i + 1)..n : x[c] = y[c]) => Body(x, i) = Body(y, i)
  <2> SUFFICES ASSUME NEW i \in 1..n, NEW x \in [1..n -> V], NEW y \in [1..n -> V],
                      \A c \in (i + 1)..n : x[c] = y[c]
               PROVE  Body(x, i) = Body(y, i)
    OBVIOUS
  <2>1. \A c \in (i + 1)..n : x[c] \in V
    BY <1>1
  <2> QED BY <2>1, FieldsOfLater
<1>6. \A i \in 1..n : \A x, y \in [1..n -> V] :
        (\A c \in (i + 1)..n : x[c] = y[c]) => G[i][x] = G[i][y]
  <2> HIDE DEF Body, V, n
  <2> QED BY <1>5
<1>7. NoFields \in V
  <2>1. DOMAIN NoFields = {} /\ NoFields = [k \in DOMAIN NoFields |-> NoFields[k]]
    BY DEF NoFields
  <2> QED BY <2>1, IsFieldMap
<1>8. PICK f \in [1..n -> V] : IsRecursive(f, n, G)
  <2> HIDE DEF G, V, n
  <2> QED BY <1>1, <1>4, <1>6, <1>7, Downward
<1>9. Eq(f)
  <2> HIDE DEF Body, V, n
  <2> QED BY <1>8 DEF IsRecursive
<1>10. Eq(g)
  <2> HIDE DEF Eq
  <2> QED BY <1>9
<1> HIDE DEF g
<1>11. DOMAIN g = 1..n /\ \A i \in 1..n : g[i] = Body(g, i)
  <2> HIDE DEF Body, n
  <2> QED BY <1>10
<1>13. 1..n \subseteq {i \in 1..n : g[i] \in V}
  <2> DEFINE T == {i \in 1..n : g[i] \in V}
  <2>1. ASSUME NEW i \in 1..n, \A c \in (i + 1)..n : c \in T PROVE i \in T
    BY <1>11, <2>1, FieldsOfType
  <2> HIDE DEF T
  <2>2. 1..n \subseteq T
    BY <1>1, <2>1, DownTo
  <2> QED BY <2>2 DEF T
<1>14. g \in [1..n -> V]
  <2> HIDE DEF Body, V, n
  <2> QED BY <1>10, <1>13
<1> QED BY <1>2, <1>11, <1>14 DEF n

\* What configMappingValue finds in a list: the first that has something.
Hits(node, of) == {j \in 1..Len(node.content) : of[node.content[j]] # 0}
\* The first of a node's children where the key was found.
Hit(node, of) == SelectInSeq(node.content, LAMBDA c : of[c] # 0)

\* Hit is the first of the hits.
LEMMA HitIs ==
  ASSUME NEW n, NEW node, node.content \in Seq(1..n), NEW of
  PROVE  IsFirst(Hit(node, of), Len(node.content), Hits(node, of))
<1> DEFINE m == Len(node.content)
           I == Hits(node, of)
<1>1. Hit(node, of) = IF I # {} THEN Min(I) ELSE 0
  BY DEF Hit, Hits, SelectInSeq
<1>2. m \in Nat
  OBVIOUS
<1>3. I \in SUBSET (1..m)
  BY DEF Hits
<1>4. IsFirst(IF I # {} THEN Min(I) ELSE 0, m, I)
  <2> HIDE DEF m, I
  <2> QED BY <1>2, <1>3, FirstExists
<1> QED BY Zenon, <1>1, <1>4

\* Where it goes on in a mapping.
LEMMA EntryIs ==
  ASSUME NEW node, node.keys \in Seq(STRING), NEW key
  PROVE  /\ NextEntry(node, key) \in 0..Len(node.keys)
         /\ key \in Range(node.keys) =>
              /\ NextEntry(node, key) = Own(node, key) /\ Own(node, key) # 0
              /\ node.keys[Own(node, key)] = key
         /\ key \notin Range(node.keys) =>
              /\ NextEntry(node, key) = Own(node, "<<")
              /\ Own(node, "<<") # 0 => node.keys[Own(node, "<<")] = "<<"
BY OwnIs DEF NextEntry

\* The value of a key is a node, or 0.
LEMMA MappingValueType ==
  ASSUME NEW nodes, Tree(nodes), NEW i \in 1..Len(nodes), NEW key,
         NEW of, \A c \in (i + 1)..Len(nodes) : of[c] \in 0..Len(nodes)
  PROVE  MappingValue(nodes[i], of, key) \in 0..Len(nodes)
<1> DEFINE n == Len(nodes)
           node == nodes[i]
           m == Len(node.content)
           e == NextEntry(node, key)
           hit == Hit(node, of)
<1>1. n \in Nat
  BY TreeFacts
<1>2. /\ node.content \in Seq(1..n) /\ node.keys \in Seq(STRING) /\ m \in Nat
      /\ \A j \in 1..m : of[node.content[j]] \in 0..n /\ node.content[j] \in 1..n
      /\ node.kind = "alias" => 1 \in 1..m
      /\ node.kind = "mapping" => Len(node.keys) = m
  BY <1>1, ContentOf
<1>3. hit \in 0..m
  BY <1>2, HitIs DEF IsFirst
<1>4. node.kind = "mapping" => e \in 0..m
  BY <1>2, EntryIs
<1>5. MappingValue(node, of, key) =
        CASE node.kind = "alias" -> of[node.content[1]]
          [] node.kind = "sequence" /\ hit # 0 -> of[node.content[hit]]
          [] node.kind = "mapping" /\ e # 0 ->
               IF node.keys[e] = key THEN node.content[e] ELSE of[node.content[e]]
          [] OTHER -> 0
  BY DEF MappingValue, Hit
<1> SUFFICES MappingValue(node, of, key) \in 0..n
  OBVIOUS
<1> HIDE DEF n, node, m, e, hit
<1>6. CASE node.kind = "alias"
  BY <1>1, <1>2, <1>5, <1>6
<1>7. CASE node.kind = "sequence"
  <2>1. CASE hit = 0
    BY <1>1, <1>5, <1>7, <2>1
  <2>2. CASE hit # 0
    <3>1. hit \in 1..m
      BY <1>2, <1>3, <2>2
    <3> QED BY <1>2, <1>5, <1>7, <2>2, <3>1
  <2> QED BY <2>1, <2>2
<1>8. CASE node.kind = "mapping"
  <2>1. CASE e = 0
    BY <1>1, <1>5, <1>8, <2>1
  <2>2. CASE e # 0
    <3>1. e \in 1..m
      BY <1>2, <1>4, <1>8, <2>2
    <3>2. MappingValue(node, of, key) =
            IF node.keys[e] = key THEN node.content[e] ELSE of[node.content[e]]
      BY <1>5, <1>8, <2>2
    <3>3. node.content[e] \in 0..n /\ of[node.content[e]] \in 0..n
      BY <1>1, <1>2, <3>1
    <3> QED BY <3>2, <3>3
  <2> QED BY <2>1, <2>2
<1>9. CASE node.kind \notin {"alias", "sequence", "mapping"}
  BY <1>1, <1>5, <1>9
<1> QED BY <1>6, <1>7, <1>8, <1>9

\* The value of a key depends only on the nodes below.
LEMMA MappingValueLater ==
  ASSUME NEW nodes, Tree(nodes), NEW i \in 1..Len(nodes), NEW key, NEW x, NEW y,
         \A c \in (i + 1)..Len(nodes) : x[c] = y[c]
  PROVE  MappingValue(nodes[i], x, key) = MappingValue(nodes[i], y, key)
<1> DEFINE n == Len(nodes)
           node == nodes[i]
           m == Len(node.content)
           e == NextEntry(node, key)
           Made(of, hit) ==
             CASE node.kind = "alias" -> of[node.content[1]]
               [] node.kind = "sequence" /\ hit # 0 -> of[node.content[hit]]
               [] node.kind = "mapping" /\ e # 0 ->
                    IF node.keys[e] = key THEN node.content[e] ELSE of[node.content[e]]
               [] OTHER -> 0
<1>1. n \in Nat
  BY TreeFacts
<1>2. /\ node.content \in Seq(1..n) /\ node.keys \in Seq(STRING) /\ m \in Nat
      /\ \A j \in 1..m : x[node.content[j]] = y[node.content[j]]
      /\ node.kind = "alias" => 1 \in 1..m
      /\ node.kind = "mapping" => Len(node.keys) = m
  BY <1>1, ContentOf
<1>3. /\ MappingValue(node, x, key) = Made(x, Hit(node, x))
      /\ MappingValue(node, y, key) = Made(y, Hit(node, y))
  BY DEF MappingValue, Hit
<1>4. IsFirst(Hit(node, x), m, Hits(node, x)) /\ IsFirst(Hit(node, y), m, Hits(node, y))
  BY <1>2, HitIs
<1>5. Hits(node, x) = Hits(node, y)
  BY <1>2 DEF Hits
<1>6. Hits(node, x) \in SUBSET (1..m)
  BY DEF Hits
<1>7. node.kind = "mapping" => e \in 0..m
  BY <1>2, EntryIs
<1> SUFFICES MappingValue(node, x, key) = MappingValue(node, y, key)
  OBVIOUS
<1> HIDE DEF n, node, m, e
<1>8. Hit(node, x) = Hit(node, y)
  BY <1>2, <1>4, <1>5, <1>6, OneFirst
<1>9. Hit(node, x) \in 0..m
  BY <1>4 DEF IsFirst
<1>10. Hit(node, x) # 0 => x[node.content[Hit(node, x)]] = y[node.content[Hit(node, x)]]
  BY <1>2, <1>9
<1>11. node.kind = "mapping" /\ e # 0 => x[node.content[e]] = y[node.content[e]]
  BY <1>2, <1>7
<1>12. node.kind = "alias" => x[node.content[1]] = y[node.content[1]]
  BY <1>2
<1>13. Made(x, Hit(node, x)) = Made(y, Hit(node, x))
  BY <1>10, <1>11, <1>12
<1> HIDE DEF Made
<1> QED BY <1>3, <1>8, <1>13

\* What configMappingValue finds at each node.
Finds(nodes, key) == [i \in DOMAIN nodes |-> configMappingValue(nodes, i, key)]

\* configMappingValue satisfies its recursive equation.
LEMMA FindsIs ==
  ASSUME NEW nodes, Tree(nodes), NEW key
  PROVE  /\ Finds(nodes, key) \in [1..Len(nodes) -> 0..Len(nodes)]
         /\ \A i \in 1..Len(nodes) :
              /\ Finds(nodes, key)[i] = MappingValue(nodes[i], Finds(nodes, key), key)
              /\ configMappingValue(nodes, i, key) = Finds(nodes, key)[i]
<1> DEFINE n == Len(nodes)
           V == 0..n
           Body(f, i) == MappingValue(nodes[i], f, key)
           Eq(f) == f = [i \in 1..n |-> Body(f, i)]
           g == CHOOSE f : Eq(f)
           G == [i \in 1..n |-> [x \in [1..n -> V] |-> Body(x, i)]]
<1>1. n \in Nat \ {0} /\ DOMAIN nodes = 1..n
  BY TreeFacts
<1>2. \A i : configMappingValue(nodes, i, key) = g[i]
  BY <1>1 DEF configMappingValue
<1>3. \A i \in 1..n : \A x \in [1..n -> V] : Body(x, i) \in V
  <2> SUFFICES ASSUME NEW i \in 1..n, NEW x \in [1..n -> V] PROVE Body(x, i) \in V
    OBVIOUS
  <2>1. \A c \in (i + 1)..n : x[c] \in V
    BY <1>1
  <2> QED BY <2>1, MappingValueType
<1>4. G \in [1..n -> [[1..n -> V] -> V]]
  <2> HIDE DEF Body, V, n
  <2> QED BY <1>3
<1>5. \A i \in 1..n : \A x, y \in [1..n -> V] :
        (\A c \in (i + 1)..n : x[c] = y[c]) => Body(x, i) = Body(y, i)
  <2> SUFFICES ASSUME NEW i \in 1..n, NEW x \in [1..n -> V], NEW y \in [1..n -> V],
                      \A c \in (i + 1)..n : x[c] = y[c]
               PROVE  Body(x, i) = Body(y, i)
    OBVIOUS
  <2> QED BY MappingValueLater
<1>6. \A i \in 1..n : \A x, y \in [1..n -> V] :
        (\A c \in (i + 1)..n : x[c] = y[c]) => G[i][x] = G[i][y]
  <2> HIDE DEF Body, V, n
  <2> QED BY <1>5
<1>7. 0 \in V
  BY <1>1
<1>8. PICK f \in [1..n -> V] : IsRecursive(f, n, G)
  <2> HIDE DEF G, V, n
  <2> QED BY <1>1, <1>4, <1>6, <1>7, Downward
<1>9. Eq(f)
  <2> HIDE DEF Body, V, n
  <2> QED BY <1>8 DEF IsRecursive
<1>10. Eq(g)
  <2> HIDE DEF Eq
  <2> QED BY <1>9
<1> HIDE DEF g
<1>11. DOMAIN g = 1..n /\ \A i \in 1..n : g[i] = Body(g, i)
  <2> HIDE DEF Body, n
  <2> QED BY <1>10
<1>12. 1..n \subseteq {i \in 1..n : g[i] \in V}
  <2> DEFINE T == {i \in 1..n : g[i] \in V}
  <2>1. ASSUME NEW i \in 1..n, \A c \in (i + 1)..n : c \in T PROVE i \in T
    BY <1>11, <2>1, MappingValueType
  <2> HIDE DEF T
  <2>2. 1..n \subseteq T
    BY <1>1, <2>1, DownTo
  <2> QED BY <2>2 DEF T
<1>13. g \in [1..n -> V]
  <2> HIDE DEF Body, V, n
  <2> QED BY <1>10, <1>12
<1>14. Finds(nodes, key) = g
  <2> HIDE DEF Body, V, n
  <2> QED BY <1>1, <1>2, <1>13 DEF Finds
<1> HIDE DEF Body, V, n
<1>15. /\ Finds(nodes, key) \in [1..n -> V]
       /\ \A i \in 1..n : Finds(nodes, key)[i] = Body(Finds(nodes, key), i)
  BY <1>11, <1>13, <1>14
<1>16. \A i \in 1..n : configMappingValue(nodes, i, key) = Finds(nodes, key)[i]
  BY <1>2, <1>14
<1> QED BY <1>15, <1>16 DEF Body, V, n

\* A field of a node, 0 if it has none.
Shown(fields, key) == IF key \in DOMAIN fields THEN fields[key] ELSE 0

\* configMappingValue finds the node that the decoder takes for the field.
LEMMA FindsTheField ==
  ASSUME NEW nodes, Tree(nodes), NEW key, key # "<<"
  PROVE  \A i \in 1..Len(nodes) : configMappingValue(nodes, i, key) = Shown(Fields(nodes)[i], key)
<1> DEFINE n == Len(nodes)
           of == Finds(nodes, key)
           fields == Fields(nodes)
           T == {i \in 1..n : of[i] = Shown(fields[i], key)}
<1>1. /\ n \in Nat /\ of \in [1..n -> 0..n] /\ fields \in [1..n -> FieldMaps(n)]
      /\ \A i \in 1..n : of[i] = MappingValue(nodes[i], of, key)
      /\ \A i \in 1..n : fields[i] = FieldsOf(nodes[i], fields)
      /\ \A i \in 1..n : configMappingValue(nodes, i, key) = of[i]
  BY TreeFacts, FindsIs, FieldsAre
<1>2. ASSUME NEW i \in 1..n, \A c \in (i + 1)..n : c \in T
      PROVE  MappingValue(nodes[i], of, key) = Shown(FieldsOf(nodes[i], fields), key)
  <2> DEFINE node == nodes[i]
             m == Len(node.content)
             e == NextEntry(node, key)
             hit == Hit(node, of)
  <2>1. /\ node.content \in Seq(1..n) /\ node.keys \in Seq(STRING) /\ m \in Nat
        /\ \A j \in 1..m : node.content[j] \in (i + 1)..n
        /\ node.kind = "alias" => 1 \in 1..m
        /\ node.kind = "mapping" => Len(node.keys) = m
    BY ContentOf
  <2>2. \A j \in 1..m : /\ node.content[j] \in 1..n
                        /\ of[node.content[j]] = Shown(fields[node.content[j]], key)
                        /\ fields[node.content[j]] \in FieldMaps(n)
    BY <1>1, <1>2, <2>1
  <2>3. MappingValue(node, of, key) =
          CASE node.kind = "alias" -> of[node.content[1]]
            [] node.kind = "sequence" /\ hit # 0 -> of[node.content[hit]]
            [] node.kind = "mapping" /\ e # 0 ->
                 IF node.keys[e] = key THEN node.content[e] ELSE of[node.content[e]]
            [] OTHER -> 0
    BY DEF MappingValue, Hit
  <2>4. IsFirst(hit, m, Hits(node, of))
    BY <2>1, HitIs
  <2>5. NoFields \in FieldMaps(n) /\ DOMAIN NoFields = {}
    <3>1. DOMAIN NoFields = {} /\ NoFields = [k \in DOMAIN NoFields |-> NoFields[k]]
      BY DEF NoFields
    <3> QED BY <3>1, IsFieldMap
  <2> SUFFICES MappingValue(node, of, key) = Shown(FieldsOf(node, fields), key)
    OBVIOUS
  <2> HIDE DEF n, of, fields, T, node, m, e, hit
  <2>6. CASE node.kind = "alias"
    <3>1. FieldsOf(node, fields) = fields[node.content[1]]
      BY <2>6 DEF FieldsOf
    <3>2. MappingValue(node, of, key) = of[node.content[1]]
      BY <2>3, <2>6
    <3> QED BY <2>1, <2>2, <2>6, <3>1, <3>2
  <2>7. CASE node.kind = "sequence"
    <3> DEFINE f == MergedFields(node, fields)
               I == Having(node, fields, key)
    <3>1. FieldsOf(node, fields) = f
      BY <2>7 DEF FieldsOf
    <3>2. /\ key \in DOMAIN f <=> I # {}
          /\ key \in DOMAIN f => \E r : IsFirst(r, m, I) /\ f[key] = fields[node.content[r]][key]
      <4>1. n \in Nat /\ node.content \in Seq(1..n)
        BY <1>1, <2>1
      <4>2. \A j \in 1..m : fields[node.content[j]] \in FieldMaps(n)
        BY <2>2
      <4> HIDE DEF f, I
      <4> QED BY <4>1, <4>2, MergedIs DEF m, f, I
    <3>3. I = Hits(node, of)
      <4>1. ASSUME NEW j \in 1..m
            PROVE  key \in DOMAIN fields[node.content[j]] <=> of[node.content[j]] # 0
        <5>1. key \in DOMAIN fields[node.content[j]] => fields[node.content[j]][key] \in 1..n
          BY <2>2, FieldMapIs
        <5>2. key \in DOMAIN fields[node.content[j]] => fields[node.content[j]][key] # 0
          BY <1>1, <5>1
        <5> QED BY <2>2, <5>2 DEF Shown
      <4> QED BY <4>1 DEF Having, Hits, m
    <3>4. I \in SUBSET (1..m)
      BY DEF Having, m
    <3> HIDE DEF f, I
    <3>5. CASE hit = 0
      <4>1. I = {}
        BY <2>4, <3>3, <3>5 DEF IsFirst
      <4>2. MappingValue(node, of, key) = 0
        BY <2>3, <2>7, <3>5
      <4> QED BY <3>1, <3>2, <4>1, <4>2 DEF Shown
    <3>6. CASE hit # 0
      <4>1. hit \in 1..m /\ I # {}
        BY <2>1, <2>4, <3>3, <3>4, <3>6 DEF IsFirst
      <4>2. MappingValue(node, of, key) = of[node.content[hit]]
        BY <2>3, <2>7, <3>6
      <4>3. PICK r : IsFirst(r, m, I) /\ f[key] = fields[node.content[r]][key]
        BY <3>2, <4>1
      <4>4. r = hit
        BY <2>1, <2>4, <3>3, <3>4, <4>3, OneFirst
      <4>5. of[node.content[hit]] # 0
        BY <2>4, <3>6 DEF IsFirst, Hits
      <4>6. of[node.content[hit]] = fields[node.content[hit]][key]
        BY <2>2, <4>1, <4>5 DEF Shown
      <4>7. Shown(f, key) = f[key]
        BY <3>2, <4>1 DEF Shown
      <4> QED BY <3>1, <4>2, <4>3, <4>4, <4>6, <4>7
    <3> QED BY <3>5, <3>6
  <2>8. CASE node.kind = "mapping"
    <3> DEFINE f == OwnFields(node, fields)
               merge == Own(node, "<<")
    <3>1. FieldsOf(node, fields) = f
      BY <2>8 DEF FieldsOf
    <3>2. /\ key \in Range(node.keys) => key \in DOMAIN f /\ f[key] = node.content[Own(node, key)]
          /\ key \notin Range(node.keys) /\ merge = 0 => key \notin DOMAIN f
          /\ key \notin Range(node.keys) /\ merge # 0 =>
               /\ key \in DOMAIN f <=> key \in DOMAIN fields[node.content[merge]]
               /\ key \in DOMAIN f => f[key] = fields[node.content[merge]][key]
      <4>1. n \in Nat /\ node.content \in Seq(1..n) /\ node.keys \in Seq(STRING)
            /\ Len(node.keys) = m
        BY <1>1, <2>1, <2>8
      <4>2. \A j \in 1..m : fields[node.content[j]] \in FieldMaps(n)
        BY <2>2
      <4>3. IsOwnFields(f, node, fields, merge)
        BY <4>1, <4>2, OwnFieldsAre DEF m
      <4> HIDE DEF f, merge, m
      <4> QED BY <4>3 DEF IsOwnFields
    <3>3. /\ e \in 0..m
          /\ key \in Range(node.keys) => e = Own(node, key) /\ e # 0 /\ node.keys[e] = key
          /\ key \notin Range(node.keys) => e = merge /\ (merge # 0 => node.keys[e] = "<<")
      BY <2>1, <2>8, EntryIs DEF e
    <3> HIDE DEF f, merge
    <3>4. CASE key \in Range(node.keys)
      <4>1. MappingValue(node, of, key) = node.content[e]
        BY <2>3, <2>8, <3>3, <3>4
      <4> QED BY <3>1, <3>2, <3>3, <3>4, <4>1 DEF Shown
    <3>5. CASE key \notin Range(node.keys) /\ merge = 0
      <4>1. MappingValue(node, of, key) = 0
        BY <2>3, <2>8, <3>3, <3>5
      <4> QED BY <3>1, <3>2, <3>5, <4>1 DEF Shown
    <3>6. CASE key \notin Range(node.keys) /\ merge # 0
      <4>1. MappingValue(node, of, key) = of[node.content[merge]]
        BY <2>3, <2>8, <3>3, <3>6
      <4>2. merge \in 1..m
        BY <2>1, <3>3, <3>6
      <4>3. of[node.content[merge]] = Shown(fields[node.content[merge]], key)
        BY <2>2, <4>2
      <4>4. Shown(fields[node.content[merge]], key) = Shown(f, key)
        BY <3>2, <3>6 DEF Shown
      <4> QED BY <3>1, <4>1, <4>3, <4>4
    <3> QED BY <3>4, <3>5, <3>6
  <2>9. CASE node.kind \notin {"alias", "sequence", "mapping"}
    <3>1. FieldsOf(node, fields) = NoFields
      BY <2>9 DEF FieldsOf
    <3>2. MappingValue(node, of, key) = 0
      BY <2>3, <2>9
    <3> QED BY <2>5, <3>1, <3>2 DEF Shown
  <2> QED BY <2>6, <2>7, <2>8, <2>9
<1>3. ASSUME NEW i \in 1..n, \A c \in (i + 1)..n : c \in T PROVE i \in T
  <2>1. MappingValue(nodes[i], of, key) = Shown(FieldsOf(nodes[i], fields), key)
    BY <1>2, <1>3
  <2> HIDE DEF n, of, fields
  <2> QED BY <1>1, <2>1
<1>4. 1..n \subseteq T
  <2> HIDE DEF T, n
  <2> QED BY <1>1, <1>3, DownTo
<1> HIDE DEF of
<1> QED BY <1>1, <1>4

\* The names and indices that the rules' paths are made of.
FieldNames ==
  {"drills", "0", "1", "2", "name", "provider", "backup", "tool", "source", "repo", "type",
   "bucket", "prefix", "restore", "container", "image", "timeout", "checks", "alerts", "sql",
   "keys", "key", "expect", "on", "url", "endpoint", "headers", "reporting", "format",
   "retention"}

\* One step of the way: the node below, 0 if there is none.
Below(nodes, i, part) == IF i = 0 \/ part \notin Parts(nodes, i) THEN 0 ELSE Child(nodes, i, part)

\* One step of configFieldNode goes to the node below, or ends.
LEMMA BelowIs ==
  ASSUME NEW nodes, Tree(nodes), NEW i \in 1..Len(nodes), NEW part \in FieldNames
  PROVE  /\ Below(nodes, i, part) \in 0..Len(nodes)
         /\ FieldStep(nodes, [node |-> i, ended |-> FALSE], part) =
              IF Below(nodes, i, part) = 0 THEN [node |-> Pointee(nodes)[i], ended |-> TRUE]
              ELSE [node |-> Below(nodes, i, part), ended |-> FALSE]
<1> DEFINE n == Len(nodes)
           at == Pointee(nodes)[i]
           node == nodes[at]
           m == Len(node.content)
           fields == Fields(nodes)[at]
           s == [node |-> i, ended |-> FALSE]
           next == CASE node.kind = "mapping" -> configMappingValue(nodes, at, part)
                     [] node.kind = "sequence" /\ part \in DOMAIN Place
                          /\ Place[part] \in DOMAIN node.content -> node.content[Place[part]]
                     [] OTHER -> 0
           below == Below(nodes, i, part)
<1>1. n \in Nat /\ at \in 1..n
  BY TreeFacts, PointeeType
<1>2. /\ m \in Nat /\ DOMAIN node.content = 1..m
      /\ \A j \in 1..m : node.content[j] \in 1..n
  <2> HIDE DEF at
  <2> QED BY <1>1, ContentOf
<1>3. fields \in FieldMaps(n)
  <2> HIDE DEF at
  <2> QED BY <1>1, FieldsAre
<1>4. configMappingValue(nodes, at, part) = Shown(fields, part)
  <2>1. part # "<<"
    BY DEF FieldNames
  <2> HIDE DEF at
  <2> QED BY <1>1, <2>1, FindsTheField
<1>5. part \in DOMAIN fields => fields[part] \in 1..n
  <2> HIDE DEF fields, n
  <2> QED BY <1>3, FieldMapIs
<1>6. below = IF part \notin Parts(nodes, i) THEN 0 ELSE Child(nodes, i, part)
  BY <1>1 DEF Below
<1>7. next = below /\ below \in 0..n
  <2>1. CASE node.kind = "mapping"
    <3>1. Parts(nodes, i) = DOMAIN fields /\ Child(nodes, i, part) = fields[part]
      BY <2>1 DEF Parts, Child
    <3> HIDE DEF fields, node, at, below
    <3>2. next = Shown(fields, part)
      BY <1>4, <2>1
    <3> HIDE DEF next, n
    <3> QED BY <1>1, <1>5, <1>6, <3>1, <3>2 DEF Shown
  <2>2. CASE node.kind = "sequence"
    <3>1. /\ Parts(nodes, i) = {p \in DOMAIN Place : Place[p] \in DOMAIN node.content}
          /\ Child(nodes, i, part) = node.content[Place[part]]
      BY <2>2 DEF Parts, Child
    <3> HIDE DEF fields, node, at, below
    <3>2. next = IF part \in DOMAIN Place /\ Place[part] \in DOMAIN node.content
                 THEN node.content[Place[part]] ELSE 0
      BY <2>2
    <3> HIDE DEF next, n
    <3> QED BY <1>1, <1>2, <1>6, <3>1, <3>2
  <2>3. CASE node.kind \notin {"mapping", "sequence"}
    <3>1. Parts(nodes, i) = {}
      BY <2>3 DEF Parts
    <3> HIDE DEF fields, node, at, below
    <3>2. next = 0
      BY <2>3
    <3> QED BY <1>1, <1>6, <3>1, <3>2
  <2> QED BY <2>1, <2>2, <2>3
<1>8. FieldStep(nodes, s, part) = IF s.ended THEN s
                                  ELSE IF next = 0 THEN [node |-> at, ended |-> TRUE]
                                  ELSE [node |-> next, ended |-> FALSE]
  BY DEF FieldStep
<1> HIDE DEF next, at, below, n
<1> QED BY <1>7, <1>8 DEF at, below, n

\* The way to a field.
IsWay(way, nodes, path) ==
  /\ way[0] = 1
  /\ \A k \in 1..Len(path) : way[k] = Below(nodes, way[k - 1], path[k])

\* The way a path leads satisfies its recursive equation.
LEMMA WayIs ==
  ASSUME NEW nodes, Tree(nodes), NEW path \in Seq(FieldNames)
  PROVE  /\ Way(nodes, path) \in [0..Len(path) -> 0..Len(nodes)]
         /\ IsWay(Way(nodes, path), nodes, path)
<1> DEFINE n == Len(path)
           S == 0..Len(nodes)
           Body(x, k) == Below(nodes, x, path[k])
           Eq(f) == f = [k \in 0..n |->
                      IF k = 0 THEN 1
                      ELSE IF f[k - 1] = 0 \/ path[k] \notin Parts(nodes, f[k - 1]) THEN 0
                           ELSE Child(nodes, f[k - 1], path[k])]
           Is(f) == f = [k \in 0..n |-> IF k = 0 THEN 1 ELSE Body(f[k - 1], k)]
           g == CHOOSE f : Eq(f)
           F == [k \in 1..n |-> [x \in S |-> Body(x, k)]]
<1>1. Way(nodes, path) = g
  BY DEF Way
<1>2. n \in Nat /\ Len(nodes) \in Nat \ {0} /\ \A k \in 1..n : path[k] \in FieldNames
  BY TreeFacts
<1>3. \A k \in 1..n : \A x \in S : Body(x, k) \in S
  <2> SUFFICES ASSUME NEW k \in 1..n, NEW x \in S PROVE Body(x, k) \in S
    OBVIOUS
  <2>1. CASE x = 0
    BY <1>2, <2>1 DEF Below
  <2>2. CASE x # 0
    <3>1. x \in 1..Len(nodes) /\ path[k] \in FieldNames
      BY <1>2, <2>2
    <3> QED BY <3>1, BelowIs
  <2> QED BY <2>1, <2>2
<1>4. F \in [1..n -> [S -> S]] /\ 1 \in S
  <2>1. 1 \in S
    BY <1>2
  <2> HIDE DEF S, Body
  <2> QED BY <1>3, <2>1
<1>5. PICK f \in [0..n -> S] : IsLoop(f, n, 1, F)
  <2> HIDE DEF F, n, S
  <2> QED BY <1>2, <1>4, Loop
<1>6. \A x : Eq(x) <=> Is(x)
  BY DEF Below
<1>7. Is(f)
  <2>1. \A k \in 1..n : f[k] = Body(f[k - 1], k)
    <3> HIDE DEF Body, S
    <3> SUFFICES ASSUME NEW k \in 1..n PROVE f[k] = Body(f[k - 1], k)
      OBVIOUS
    <3>1. f[k - 1] \in S
      OBVIOUS
    <3> QED BY <1>5, <3>1 DEF IsLoop
  <2> HIDE DEF Body, S
  <2> QED BY <1>5, <2>1 DEF IsLoop
<1>8. Is(g)
  <2> HIDE DEF Eq, Is
  <2> QED BY <1>6, <1>7
<1> HIDE DEF g
<1>9. \A k \in 0..n : g[k] = IF k = 0 THEN 1 ELSE Body(g[k - 1], k)
  <2> HIDE DEF Body
  <2> QED BY <1>8
<1>10. 0..n \subseteq {k \in 0..n : g[k] \in S}
  <2> DEFINE T == {k \in 0..n : g[k] \in S}
  <2>1. 0 \in T
    BY <1>4, <1>9, <1>2
  <2>2. ASSUME NEW k \in 0..n, k \in T, k < n PROVE k + 1 \in T
    <3>1. k + 1 \in 0..n /\ k + 1 # 0 /\ (k + 1) - 1 = k /\ g[k] \in S /\ k + 1 \in 1..n
      BY <2>2
    <3> HIDE DEF Body, S
    <3> QED BY <1>3, <1>9, <3>1
  <2> HIDE DEF T, n
  <2>3. 0..n \subseteq T
    BY <1>2, <2>1, <2>2, UpTo
  <2> QED BY <2>3 DEF T
<1>11. g \in [0..n -> S]
  <2> HIDE DEF Body, S
  <2> QED BY <1>8, <1>10
<1>12. IsWay(g, nodes, path)
  <2> HIDE DEF Body
  <2>1. g[0] = 1 /\ \A k \in 1..n : g[k] = Body(g[k - 1], k)
    BY <1>2, <1>9
  <2> QED BY <2>1 DEF IsWay, Body
<1> QED BY <1>1, <1>11, <1>12

\* Where configFieldNode stands.
Stands(n) == [node : 1..n, ended : BOOLEAN]

\* One step leads from a stand to a stand.
LEMMA StepType ==
  ASSUME NEW nodes, Tree(nodes), NEW s \in Stands(Len(nodes)), NEW part \in FieldNames
  PROVE  FieldStep(nodes, s, part) \in Stands(Len(nodes))
<1> DEFINE n == Len(nodes)
           t == [node |-> s.node, ended |-> FALSE]
<1>1. CASE s.ended
  <2>1. FieldStep(nodes, s, part) = s
    BY <1>1 DEF FieldStep
  <2> QED BY <2>1
<1>2. CASE ~s.ended
  <2>1. s.node \in 1..n /\ n \in Nat
    BY TreeFacts DEF Stands
  <2>2. s = t
    BY <1>2 DEF Stands
  <2>3. Pointee(nodes)[s.node] \in 1..n
    BY <2>1, PointeeType
  <2> DEFINE b == Below(nodes, s.node, part)
  <2>4. /\ b \in 0..n
        /\ FieldStep(nodes, t, part) =
             IF b = 0 THEN [node |-> Pointee(nodes)[s.node], ended |-> TRUE]
             ELSE [node |-> b, ended |-> FALSE]
    BY <2>1, BelowIs
  <2> HIDE DEF b, t, n
  <2>5. FieldStep(nodes, t, part) \in Stands(n)
    <3>1. CASE b = 0
      BY <2>3, <2>4, <3>1 DEF Stands
    <3>2. CASE b # 0
      BY <2>1, <2>4, <3>2 DEF Stands
    <3> QED BY <3>1, <3>2
  <2> QED BY <2>2, <2>5 DEF n
<1> QED BY <1>1, <1>2

\* The steps of configFieldNode.
IsSteps(f, nodes, path) ==
  /\ f[0] = [node |-> 1, ended |-> FALSE]
  /\ \A k \in 1..Len(path) : f[k] = FieldStep(nodes, f[k - 1], path[k])

\* configFieldNode is the last of its steps, and the steps exist.
LEMMA StepsAre ==
  ASSUME NEW nodes, Tree(nodes), NEW path \in Seq(FieldNames)
  PROVE  \E f \in [0..Len(path) -> Stands(Len(nodes))] :
           IsSteps(f, nodes, path) /\ configFieldNode(nodes, path) = f[Len(path)].node
<1> DEFINE n == Len(path)
           S == Stands(Len(nodes))
           base == [node |-> 1, ended |-> FALSE]
           Body(x, k) == FieldStep(nodes, x, path[k])
           Eq(f) == f = [k \in 0..n |-> IF k = 0 THEN base ELSE Body(f[k - 1], k)]
           g == CHOOSE f : Eq(f)
           F == [k \in 1..n |-> [x \in S |-> Body(x, k)]]
<1>1. configFieldNode(nodes, path) = g[n].node
  BY DEF configFieldNode
<1>2. n \in Nat /\ Len(nodes) \in Nat \ {0} /\ \A k \in 1..n : path[k] \in FieldNames
  BY TreeFacts
<1>3. \A k \in 1..n : \A x \in S : Body(x, k) \in S
  BY <1>2, StepType
<1>4. F \in [1..n -> [S -> S]] /\ base \in S
  <2>1. base \in S
    BY <1>2 DEF Stands
  <2> HIDE DEF S, Body, base
  <2> QED BY <1>3, <2>1
<1>5. PICK f \in [0..n -> S] : IsLoop(f, n, base, F)
  <2> HIDE DEF F, n, S, base
  <2> QED BY <1>2, <1>4, Loop
<1>6. Eq(f)
  <2>1. \A k \in 1..n : f[k] = Body(f[k - 1], k)
    <3> HIDE DEF Body, S, base
    <3> SUFFICES ASSUME NEW k \in 1..n PROVE f[k] = Body(f[k - 1], k)
      OBVIOUS
    <3>1. f[k - 1] \in S
      OBVIOUS
    <3> QED BY <1>5, <3>1 DEF IsLoop
  <2> HIDE DEF Body, S, base
  <2> QED BY <1>5, <2>1 DEF IsLoop
<1>7. Eq(g)
  <2> HIDE DEF Eq
  <2> QED BY <1>6
<1> HIDE DEF g
<1>8. \A k \in 0..n : g[k] = IF k = 0 THEN base ELSE Body(g[k - 1], k)
  <2> HIDE DEF Body, base
  <2> QED BY <1>7
<1>9. 0..n \subseteq {k \in 0..n : g[k] \in S}
  <2> DEFINE T == {k \in 0..n : g[k] \in S}
  <2>1. 0 \in T
    BY <1>4, <1>8, <1>2
  <2>2. ASSUME NEW k \in 0..n, k \in T, k < n PROVE k + 1 \in T
    <3>1. k + 1 \in 0..n /\ k + 1 # 0 /\ (k + 1) - 1 = k /\ g[k] \in S /\ k + 1 \in 1..n
      BY <2>2
    <3> HIDE DEF Body, S
    <3> QED BY <1>3, <1>8, <3>1
  <2> HIDE DEF T, n
  <2>3. 0..n \subseteq T
    BY <1>2, <2>1, <2>2, UpTo
  <2> QED BY <2>3 DEF T
<1>10. g \in [0..n -> S]
  <2> HIDE DEF Body, S, base
  <2> QED BY <1>7, <1>9
<1>11. IsSteps(g, nodes, path)
  <2> HIDE DEF Body
  <2>1. g[0] = base /\ \A k \in 1..n : g[k] = Body(g[k - 1], k)
    BY <1>2, <1>8
  <2> QED BY <2>1 DEF IsSteps, Body
<1> QED BY <1>1, <1>10, <1>11

\* configFieldNode comes as far as the way, and ends at what its last node stands for.
EndedAt(s, way, nodes, l, k) ==
  /\ way[l] # 0 /\ \A j \in (l + 1)..k : way[j] = 0
  /\ s = [node |-> Pointee(nodes)[way[l]], ended |-> TRUE]

\* The code stands where the way leads, or ended where the way did.
StandsAt(s, way, nodes, k) ==
  \/ way[k] # 0 /\ s = [node |-> way[k], ended |-> FALSE]
  \/ \E l \in 0..(k - 1) : EndedAt(s, way, nodes, l, k)

\* The next step keeps the code on the way.
LEMMA NextFollows ==
  ASSUME NEW nodes, Tree(nodes), NEW path \in Seq(FieldNames),
         NEW way \in [0..Len(path) -> 0..Len(nodes)], IsWay(way, nodes, path),
         NEW k \in 0..Len(path), k < Len(path), NEW s, StandsAt(s, way, nodes, k)
  PROVE  StandsAt(FieldStep(nodes, s, path[k + 1]), way, nodes, k + 1)
<1> DEFINE t == FieldStep(nodes, s, path[k + 1])
<1>1. /\ k + 1 \in 1..Len(path) /\ k + 1 - 1 = k /\ Len(path) \in Nat /\ Len(nodes) \in Nat
      /\ k \in Nat
  BY TreeFacts
<1>2. /\ path[k + 1] \in FieldNames
      /\ way[k + 1] = Below(nodes, way[k], path[k + 1])
  BY <1>1 DEF IsWay
<1>3. CASE way[k] # 0 /\ s = [node |-> way[k], ended |-> FALSE]
  <2>1. way[k] \in 1..Len(nodes)
    BY <1>1, <1>3
  <2>2. t = IF way[k + 1] = 0 THEN [node |-> Pointee(nodes)[way[k]], ended |-> TRUE]
            ELSE [node |-> way[k + 1], ended |-> FALSE]
    BY <1>2, <1>3, <2>1, BelowIs
  <2> HIDE DEF t
  <2>3. CASE way[k + 1] = 0
    <3>1. k \in 0..(k + 1 - 1) /\ \A j \in (k + 1)..(k + 1) : way[j] = 0
      BY <1>1, <2>3
    <3>2. t = [node |-> Pointee(nodes)[way[k]], ended |-> TRUE]
      BY <2>2, <2>3
    <3>3. EndedAt(t, way, nodes, k, k + 1)
      BY <1>3, <3>1, <3>2 DEF EndedAt
    <3>4. StandsAt(t, way, nodes, k + 1)
      BY <3>1, <3>3 DEF StandsAt
    <3> QED BY <3>4 DEF t
  <2>4. CASE way[k + 1] # 0
    <3>1. StandsAt(t, way, nodes, k + 1)
      BY <2>2, <2>4 DEF StandsAt
    <3> QED BY <3>1 DEF t
  <2> QED BY <2>3, <2>4
<1>4. ASSUME NEW l \in 0..(k - 1), EndedAt(s, way, nodes, l, k)
      PROVE  StandsAt(t, way, nodes, k + 1)
  <2>1. t = s
    BY <1>4 DEF FieldStep, EndedAt
  <2>2. k \in (l + 1)..k
    BY <1>1
  <2>3. way[k] = 0
    BY <1>4, <2>2 DEF EndedAt
  <2>4. way[k + 1] = 0
    BY <1>2, <2>3 DEF Below
  <2>5. l \in 0..(k + 1 - 1) /\ \A j \in (l + 1)..(k + 1) : way[j] = 0
    BY <1>1, <1>4, <2>4 DEF EndedAt
  <2> HIDE DEF t
  <2>6. EndedAt(t, way, nodes, l, k + 1)
    BY <1>4, <2>1, <2>5 DEF EndedAt
  <2> QED BY <2>5, <2>6 DEF StandsAt
<1> QED BY <1>3, <1>4 DEF StandsAt

\* A greatest element is the maximum.
LEMMA MaxIs ==
  ASSUME NEW S, S \subseteq Nat, NEW m \in S, \A j \in S : j <= m
  PROVE  Max(S) = m
<1>1. Max(S) \in S /\ \A j \in S : Max(S) >= j
  <2>1. \A j \in S : m >= j
    OBVIOUS
  <2> QED BY <2>1 DEF Max
<1> DEFINE x == Max(S)
<1> HIDE DEF x
<1>2. x \in S /\ x >= m
  BY <1>1 DEF x
<1>3. x = m
  BY <1>2
<1> QED BY <1>3 DEF x

\* configFieldNode returns the last node on the way, or what that node points to.
LEMMA FieldNodeIs ==
  ASSUME NEW nodes, Tree(nodes), NEW path \in Seq(FieldNames)
  PROVE  LET way == Way(nodes, path)
             last == Max({k \in DOMAIN way : way[k] # 0})
         IN configFieldNode(nodes, path) =
              IF last = Len(path) THEN way[last] ELSE Pointee(nodes)[way[last]]
<1> DEFINE way == Way(nodes, path)
           n == Len(path)
           W == {k \in DOMAIN way : way[k] # 0}
<1>1. n \in Nat /\ way \in [0..n -> 0..Len(nodes)] /\ IsWay(way, nodes, path)
  BY WayIs
<1>2. PICK f \in [0..n -> Stands(Len(nodes))] :
        IsSteps(f, nodes, path) /\ configFieldNode(nodes, path) = f[n].node
  BY StepsAre
<1> SUFFICES configFieldNode(nodes, path) =
               IF Max(W) = n THEN way[Max(W)] ELSE Pointee(nodes)[way[Max(W)]]
  OBVIOUS
<1> HIDE DEF way
<1>3. 0..n \subseteq {k \in 0..n : StandsAt(f[k], way, nodes, k)}
  <2> DEFINE T == {k \in 0..n : StandsAt(f[k], way, nodes, k)}
  <2>1. 0 \in T
    BY <1>1, <1>2 DEF IsWay, IsSteps, StandsAt
  <2>2. ASSUME NEW k \in 0..n, k \in T, k < n PROVE k + 1 \in T
    <3>1. StandsAt(FieldStep(nodes, f[k], path[k + 1]), way, nodes, k + 1)
      BY <1>1, <2>2, NextFollows
    <3>2. k + 1 \in 1..n /\ k + 1 - 1 = k
      BY <1>1, <2>2
    <3>3. f[k + 1] = FieldStep(nodes, f[k], path[k + 1])
      BY <1>2, <3>2 DEF IsSteps
    <3> QED BY <3>1, <3>2, <3>3
  <2> HIDE DEF T, n
  <2>3. 0..n \subseteq T
    BY <1>1, <2>1, <2>2, UpTo
  <2> QED BY <2>3 DEF T
<1>4. StandsAt(f[n], way, nodes, n)
  BY <1>1, <1>3
<1> HIDE DEF n
<1>5. W = {k \in 0..n : way[k] # 0} /\ W \subseteq Nat
  BY <1>1
<1>6. CASE way[n] # 0 /\ f[n] = [node |-> way[n], ended |-> FALSE]
  <2>1. n \in W /\ \A j \in W : j <= n
    BY <1>1, <1>5, <1>6
  <2> HIDE DEF W
  <2>2. Max(W) = n
    BY <1>5, <2>1, MaxIs
  <2> QED BY <1>2, <1>6, <2>2
<1>7. ASSUME NEW l \in 0..(n - 1), EndedAt(f[n], way, nodes, l, n)
      PROVE  configFieldNode(nodes, path) =
               IF Max(W) = n THEN way[Max(W)] ELSE Pointee(nodes)[way[Max(W)]]
  <2>1. l \in W /\ l # n
    BY <1>1, <1>5, <1>7 DEF EndedAt
  <2>2. \A j \in W : j <= l
    <3> SUFFICES ASSUME NEW j \in W, ~ (j <= l) PROVE FALSE
      OBVIOUS
    <3>1. j \in (l + 1)..n /\ way[j] # 0
      BY <1>1, <1>5, <2>1
    <3> QED BY <1>7, <3>1 DEF EndedAt
  <2> HIDE DEF W
  <2>3. Max(W) = l
    BY <1>5, <2>1, <2>2, MaxIs
  <2> QED BY <1>2, <1>7, <2>1, <2>3 DEF EndedAt
<1> QED BY <1>4, <1>6, <1>7 DEF StandsAt

-----------------------------------------------------------------------------
(* The rules of validateConfig                                             *)

\* A rule of validateConfig: the field it names, and whether it is broken.
Rule == Seq(FieldNames) \X BOOLEAN

\* Sequences of four, seven and ten rules.
LEMMA Fours ==
  ASSUME NEW S, NEW a \in S, NEW b \in S, NEW c \in S, NEW d \in S
  PROVE  <<a, b, c, d>> \in Seq(S)
OBVIOUS

LEMMA Sevens ==
  ASSUME NEW S, NEW a \in S, NEW b \in S, NEW c \in S, NEW d \in S, NEW e \in S, NEW f \in S,
         NEW g \in S
  PROVE  <<a, b, c, d, e, f, g>> \in Seq(S)
OBVIOUS

LEMMA Tens ==
  ASSUME NEW S, NEW a \in S, NEW b \in S, NEW c \in S, NEW d \in S, NEW e \in S, NEW f \in S,
         NEW g \in S, NEW h \in S, NEW i \in S, NEW j \in S
  PROVE  <<a, b, c, d, e, f, g, h, i, j>> \in Seq(S)
OBVIOUS

\* A path with one more part is a path.
LEMMA FieldOf ==
  ASSUME NEW path \in Seq(FieldNames), NEW f \in FieldNames
  PROVE  path \o <<f>> \in Seq(FieldNames) /\ Append(path, f) \in Seq(FieldNames)
OBVIOUS

\* A path and a truth value are a rule.
LEMMA RuleOf ==
  ASSUME NEW path \in Seq(FieldNames), NEW f \in Seq(FieldNames), NEW broken \in BOOLEAN
  PROVE  <<path \o f, broken>> \in Rule /\ <<f, broken>> \in Rule
<1>1. path \o f \in Seq(FieldNames)
  OBVIOUS
<1>2. \A p \in Seq(FieldNames) : <<p, broken>> \in Rule
  BY DEF Rule
<1> QED BY <1>1, <1>2

\* The rules of a check name paths.
LEMMA CheckRulesType ==
  ASSUME NEW cfg, NEW drill \in Seq(FieldNames), NEW named, NEW check \in FieldNames
  PROVE  CheckRules(cfg, drill, named, check) \in Seq(Rule)
<1> DEFINE path == drill \o <<"checks", check>>
           V(f) == Value(cfg, path \o <<f>>)
           b1 == V("name") = ""
           b2 == V("type") \notin supportedCheckTypes
           b3 == named \in DOMAIN supportedCheckTypesByProvider
                    /\ V("type") \notin supportedCheckTypesByProvider[named]
           b4 == V("type") \in sqlBackedCheckTypes /\ V("sql") = ""
           b5 == V("type") = "key_sample" /\ Items(cfg, path \o <<"keys">>) = <<>>
           b6 == V("type") = "key_get" /\ V("key") = ""
           b7 == V("expect") = ""
           R(f, b) == <<path \o <<f>>, b>>
<1>1. CheckRules(cfg, drill, named, check) =
        <<R("name", b1), R("type", b2), R("type", b3), R("sql", b4), R("keys", b5), R("key", b6),
          R("expect", b7)>>
  BY DEF CheckRules
<1>2. path \in Seq(FieldNames)
  <2>1. "checks" \in FieldNames
    BY DEF FieldNames
  <2>2. <<"checks", check>> \in Seq(FieldNames)
    BY <2>1
  <2> QED BY <2>2
<1>3. /\ b1 \in BOOLEAN /\ b2 \in BOOLEAN /\ b3 \in BOOLEAN /\ b4 \in BOOLEAN /\ b5 \in BOOLEAN
      /\ b6 \in BOOLEAN /\ b7 \in BOOLEAN
  OBVIOUS
<1> HIDE DEF path, b1, b2, b3, b4, b5, b6, b7
<1>4. \A f \in FieldNames : \A b \in BOOLEAN : R(f, b) \in Rule
  <2> SUFFICES ASSUME NEW f \in FieldNames, NEW b \in BOOLEAN PROVE R(f, b) \in Rule
    OBVIOUS
  <2>1. <<f>> \in Seq(FieldNames)
    OBVIOUS
  <2> QED BY <1>2, <2>1, RuleOf
<1> HIDE DEF R
<1>5. {"name", "type", "sql", "keys", "key", "expect"} \subseteq FieldNames
  BY DEF FieldNames
<1>6. /\ R("name", b1) \in Rule /\ R("type", b2) \in Rule /\ R("type", b3) \in Rule
      /\ R("sql", b4) \in Rule /\ R("keys", b5) \in Rule /\ R("key", b6) \in Rule
      /\ R("expect", b7) \in Rule
  BY <1>3, <1>4, <1>5
<1>7. <<R("name", b1), R("type", b2), R("type", b3), R("sql", b4), R("keys", b5), R("key", b6),
          R("expect", b7)>> \in Seq(Rule)
  BY <1>6, Sevens
<1> QED BY Zenon, <1>1, <1>7

\* The rules of an alert name paths.
LEMMA AlertRulesType ==
  ASSUME NEW cfg, NEW drill \in Seq(FieldNames), NEW alert \in FieldNames
  PROVE  AlertRules(cfg, drill, alert) \in Seq(Rule)
<1> DEFINE path == drill \o <<"alerts", alert>>
           V(f) == Value(cfg, path \o <<f>>)
           b1 == V("type") \notin {"webhook", "slack", "prometheus"}
           b2 == V("on") \notin {"", "always", "failure"}
           b3 == V("type") \in {"webhook", "slack"} /\ V("url") = "" /\ V("endpoint") = ""
           b4 == \E key \in {"", " "} : path \o <<"headers", key>> \in DOMAIN cfg
           R(f, b) == <<path \o <<f>>, b>>
<1>1. AlertRules(cfg, drill, alert) =
        <<R("type", b1), R("on", b2), R("url", b3), R("headers", b4)>>
  BY DEF AlertRules
<1>2. path \in Seq(FieldNames)
  <2>1. "alerts" \in FieldNames
    BY DEF FieldNames
  <2>2. <<"alerts", alert>> \in Seq(FieldNames)
    BY <2>1
  <2> QED BY <2>2
<1>3. b1 \in BOOLEAN /\ b2 \in BOOLEAN /\ b3 \in BOOLEAN /\ b4 \in BOOLEAN
  OBVIOUS
<1> HIDE DEF path, b1, b2, b3, b4
<1>4. \A f \in FieldNames : \A b \in BOOLEAN : R(f, b) \in Rule
  <2> SUFFICES ASSUME NEW f \in FieldNames, NEW b \in BOOLEAN PROVE R(f, b) \in Rule
    OBVIOUS
  <2>1. <<f>> \in Seq(FieldNames)
    OBVIOUS
  <2> QED BY <1>2, <2>1, RuleOf
<1> HIDE DEF R
<1>5. {"type", "on", "url", "headers"} \subseteq FieldNames
  BY DEF FieldNames
<1>6. /\ R("type", b1) \in Rule /\ R("on", b2) \in Rule
      /\ R("url", b3) \in Rule /\ R("headers", b4) \in Rule
  BY <1>3, <1>4, <1>5
<1>7. <<R("type", b1), R("on", b2), R("url", b3), R("headers", b4)>> \in Seq(Rule)
  BY <1>6, Fours
<1> QED BY Zenon, <1>1, <1>7

\* What is in some sequences is in what they are joined to.
LEMMA Flattened ==
  ASSUME NEW R, NEW seqs \in Seq(Seq(R))
  PROVE  FlattenSeq(seqs) \in Seq(R)
<1> DEFINE n == Len(seqs)
<1>1. CASE n = 0
  <2>1. FlattenSeq(seqs) = seqs
    BY <1>1 DEF FlattenSeq
  <2>2. seqs = <<>>
    BY <1>1
  <2> QED BY <2>1, <2>2
<1>2. CASE n # 0
  <2> DEFINE S == Seq(R)
             Body(x, i) == x \o seqs[i]
             Eq(f) == f = [i \in 1..n |-> IF i = 1 THEN seqs[i] ELSE f[i - 1] \o seqs[i]]
             g == CHOOSE f : Eq(f)
             F == [i \in 1..(n - 1) |-> [x \in S |-> Body(x, i + 1)]]
  <2>1. FlattenSeq(seqs) = g[n]
    BY <1>2 DEF FlattenSeq
  <2>2. n \in Nat \ {0} /\ n - 1 \in Nat /\ \A i \in 1..n : seqs[i] \in S
    BY <1>2
  <2>3. \A i \in 1..n : \A x \in S : Body(x, i) \in S
    BY <2>2
  <2>4. F \in [1..(n - 1) -> [S -> S]] /\ seqs[1] \in S
    <3> HIDE DEF S, Body, n
    <3>1. \A i \in 1..(n - 1) : i + 1 \in 1..n
      BY <2>2
    <3> QED BY <2>2, <2>3, <3>1
  <2>5. PICK f \in [0..(n - 1) -> S] : IsLoop(f, n - 1, seqs[1], F)
    <3> HIDE DEF F, S, n
    <3> QED BY <2>2, <2>4, Loop
  <2> DEFINE h == [i \in 1..n |-> f[i - 1]]
  <2>6. Eq(h)
    <3>1. ASSUME NEW i \in 1..n PROVE h[i] = IF i = 1 THEN seqs[i] ELSE h[i - 1] \o seqs[i]
      <4>1. CASE i = 1
        BY <2>2, <2>5, <4>1 DEF IsLoop
      <4>2. CASE i # 1
        <5>1. i - 1 \in 1..(n - 1) /\ i - 1 + 1 = i /\ i - 1 \in 1..n
          BY <2>2, <4>2
        <5> HIDE DEF S, Body
        <5>2. i - 1 - 1 \in 0..(n - 1)
          BY <2>2, <5>1
        <5> HIDE DEF n
        <5>4. f[i - 1 - 1] \in S
          BY <5>2
        <5>3. f[i - 1] = Body(f[i - 1 - 1], i)
          BY <2>5, <5>1, <5>4 DEF IsLoop
        <5> QED BY <4>2, <5>1, <5>3 DEF Body
      <4> QED BY <4>1, <4>2
    <3> HIDE DEF S, n
    <3> QED BY <3>1
  <2>7. Eq(g)
    <3> HIDE DEF Eq, h
    <3> QED BY <2>6
  <2> HIDE DEF g
  <2>8. \A i \in 1..n : g[i] = IF i = 1 THEN seqs[i] ELSE g[i - 1] \o seqs[i]
    <3> HIDE DEF n
    <3> QED BY <2>7
  <2>9. 0..(n - 1) \subseteq {i \in 0..(n - 1) : g[i + 1] \in S}
    <3> DEFINE T == {i \in 0..(n - 1) : g[i + 1] \in S}
    <3> HIDE DEF S, n
    <3>1. 0 \in T
      BY <2>2, <2>4, <2>8
    <3>2. ASSUME NEW i \in 0..(n - 1), i \in T, i < n - 1 PROVE i + 1 \in T
      <4> DEFINE j == i + 1 + 1
      <4>1. i + 1 \in 0..(n - 1) /\ j \in 1..n /\ j # 1 /\ j - 1 = i + 1
        BY <2>2, <3>2
      <4> HIDE DEF j
      <4>2. g[j] = Body(g[i + 1], j)
        BY <2>8, <4>1
      <4>3. g[i + 1] \in S
        BY <3>2
      <4> HIDE DEF Body
      <4>4. g[j] \in S
        BY <2>3, <4>1, <4>2, <4>3
      <4> QED BY <4>1, <4>4 DEF j
    <3> HIDE DEF T
    <3>3. 0..(n - 1) \subseteq T
      BY <2>2, <3>1, <3>2, UpTo
    <3> QED BY <3>3 DEF T
  <2>10. g[n] \in S
    <3> HIDE DEF S, n
    <3>1. n - 1 \in 0..(n - 1) /\ n - 1 + 1 = n
      BY <2>2
    <3> QED BY <2>9, <3>1
  <2> QED BY <2>1, <2>10
<1> QED BY <1>1, <1>2

\* The items of a list are numbered by names of fields.
LEMMA ItemsType ==
  ASSUME NEW cfg, NEW path
  PROVE  Items(cfg, path) \in Seq(FieldNames)
<1> DEFINE given == {part \in DOMAIN Place : Append(path, part) \in DOMAIN cfg}
           S == {"0", "1", "2"}
           c == Cardinality(given)
           s == <<"0", "1", "2">>
<1>1. given \in SUBSET S
  BY DEF Place
<1>2. IsFiniteSet({}) /\ Cardinality({}) = 0
  BY FS_EmptySet
<1>3. IsFiniteSet({"0"}) /\ Cardinality({"0"}) = 1
  BY FS_Singleton
<1>4. IsFiniteSet({"0"} \cup {"1"}) /\ Cardinality({"0"} \cup {"1"}) = 2
  BY <1>3, FS_AddElement
<1>5. IsFiniteSet(({"0"} \cup {"1"}) \cup {"2"}) /\ Cardinality(({"0"} \cup {"1"}) \cup {"2"}) = 3
  BY <1>4, FS_AddElement
<1>6. S = ({"0"} \cup {"1"}) \cup {"2"}
  OBVIOUS
<1>7. IsFiniteSet(S) /\ Cardinality(S) = 3
  BY <1>5, <1>6
<1> HIDE DEF given, S
<1>8. c \in Nat /\ c <= 3
  <2>1. IsFiniteSet(given) /\ Cardinality(given) <= Cardinality(S)
    BY <1>1, <1>7, FS_Subset
  <2>2. Cardinality(given) \in Nat
    BY <2>1, FS_CardinalityType
  <2> QED BY <1>7, <2>1, <2>2
<1>9. Items(cfg, path) = SubSeq(s, 1, c)
  BY DEF Items, given
<1> HIDE DEF c
<1>10. s \in Seq(FieldNames) /\ Len(s) = 3
  <2>1. "0" \in FieldNames /\ "1" \in FieldNames /\ "2" \in FieldNames
    BY DEF FieldNames
  <2> QED BY <2>1
<1> HIDE DEF s
<1>11. SubSeq(s, 1, c) \in Seq(FieldNames)
  <2>1. \A k \in 1..c : s[k] \in FieldNames
    BY <1>8, <1>10
  <2> QED BY <1>8, <1>10, <2>1
<1> QED BY <1>9, <1>11

\* What is made of the items of a list.
LEMMA Listed ==
  ASSUME NEW T, NEW items \in Seq(T), NEW S, NEW s, s = [c \in DOMAIN items |-> s[c]],
         \A c \in DOMAIN items : s[c] \in S
  PROVE  s \in Seq(S)
<1>1. Len(items) \in Nat /\ DOMAIN items = 1..Len(items)
  OBVIOUS
<1>2. s \in [1..Len(items) -> S]
  BY <1>1
<1> QED BY <1>1, <1>2

\* The field of the first broken rule is a path.
LEMMA FirstBrokenType ==
  ASSUME NEW rules \in Seq(Rule)
  PROVE  FirstBroken(rules) \in Seq(FieldNames)
<1> DEFINE I == {i \in 1..Len(rules) : rules[i][2]}
           k == SelectInSeq(rules, LAMBDA r : r[2])
<1>1. k = IF I # {} THEN Min(I) ELSE 0
  BY DEF SelectInSeq
<1>2. FirstBroken(rules) = IF k = 0 THEN <<>> ELSE rules[k][1]
  BY DEF FirstBroken
<1>3. Len(rules) \in Nat /\ I \in SUBSET (1..Len(rules))
  OBVIOUS
<1> HIDE DEF I, k
<1>4. IsFirst(IF I # {} THEN Min(I) ELSE 0, Len(rules), I)
  BY <1>3, FirstExists
<1>5. IsFirst(k, Len(rules), I)
  BY Zenon, <1>1, <1>4
<1>6. CASE k = 0
  BY <1>2, <1>6
<1>7. CASE k # 0
  <2>1. k \in 1..Len(rules)
    BY <1>3, <1>5, <1>7 DEF IsFirst
  <2>2. rules[k] \in Rule
    BY <2>1
  <2>3. rules[k][1] \in Seq(FieldNames)
    BY <2>2 DEF Rule
  <2> QED BY <1>2, <1>7, <2>3
<1> QED BY <1>6, <1>7

\* The rules of a drill name paths.
LEMMA DrillRulesType ==
  ASSUME NEW cfg, NEW i \in FieldNames
  PROVE  DrillRules(cfg, i) \in Seq(Rule)
<1> DEFINE path == <<"drills", i>>
           V(f) == Value(cfg, path \o f)
           R(f, b) == <<path \o f, b>>
           named == V(<<"provider">>)
           repo(f) == V(<<"backup", "repo", f>>)
           tools == IF named \in DOMAIN supportedBackupTools
                    THEN supportedBackupTools[named] ELSE {}
           b1 == V(<<"name">>) = ""
           b2 == \E j \in Range(Items(cfg, <<"drills">>)) :
                   Place[j] < Place[i] /\ Value(cfg, <<"drills", j, "name">>) = V(<<"name">>)
           b3 == named \notin DOMAIN supportedBackupTools
           b4 == V(<<"backup", "tool">>) \notin tools
           b5 == V(<<"backup", "source">>) = "" /\ repo("type") = ""
           b6 == repo("type") \notin {"", "s3", "s3-compatible"}
           b7 == repo("type") # "" /\ repo("bucket") = ""
           b8 == repo("type") # "" /\ repo("prefix") = ""
           b9 == V(<<"restore", "container", "image">>) = ""
           b10 == V(<<"restore", "timeout">>) \notin DOMAIN Durations \cup {""}
           own == << R(<<"name">>, b1), R(<<"name">>, b2), R(<<"provider">>, b3),
                     R(<<"backup", "tool">>, b4), R(<<"backup", "source">>, b5),
                     R(<<"backup", "repo", "type">>, b6), R(<<"backup", "repo", "bucket">>, b7),
                     R(<<"backup", "repo", "prefix">>, b8),
                     R(<<"restore", "container", "image">>, b9),
                     R(<<"restore", "timeout">>, b10) >>
           checkItems == Items(cfg, path \o <<"checks">>)
           alertItems == Items(cfg, path \o <<"alerts">>)
           ofChecks == [c \in DOMAIN checkItems |-> CheckRules(cfg, path, named, checkItems[c])]
           ofAlerts == [a \in DOMAIN alertItems |-> AlertRules(cfg, path, alertItems[a])]
<1>1. DrillRules(cfg, i) = own \o FlattenSeq(ofChecks) \o FlattenSeq(ofAlerts)
  BY DEF DrillRules
<1>2. path \in Seq(FieldNames)
  <2>1. "drills" \in FieldNames
    BY DEF FieldNames
  <2> QED BY <2>1
<1>3. /\ b1 \in BOOLEAN /\ b2 \in BOOLEAN /\ b3 \in BOOLEAN /\ b4 \in BOOLEAN /\ b5 \in BOOLEAN
      /\ b6 \in BOOLEAN /\ b7 \in BOOLEAN /\ b8 \in BOOLEAN /\ b9 \in BOOLEAN /\ b10 \in BOOLEAN
  OBVIOUS
<1>4. checkItems \in Seq(FieldNames) /\ alertItems \in Seq(FieldNames)
  BY ItemsType
<1> HIDE DEF path, named, b1, b2, b3, b4, b5, b6, b7, b8, b9, b10, checkItems, alertItems
<1>5. /\ <<"name">> \in Seq(FieldNames) /\ <<"provider">> \in Seq(FieldNames)
      /\ <<"backup", "tool">> \in Seq(FieldNames) /\ <<"backup", "source">> \in Seq(FieldNames)
      /\ <<"backup", "repo", "type">> \in Seq(FieldNames)
      /\ <<"backup", "repo", "bucket">> \in Seq(FieldNames)
      /\ <<"backup", "repo", "prefix">> \in Seq(FieldNames)
      /\ <<"restore", "container", "image">> \in Seq(FieldNames)
      /\ <<"restore", "timeout">> \in Seq(FieldNames)
  <2>1. {"name", "provider", "backup", "tool", "source", "repo", "type", "bucket", "prefix",
         "restore", "container", "image", "timeout"} \subseteq FieldNames
    BY DEF FieldNames
  <2> QED BY <2>1
<1>6. ASSUME NEW f \in Seq(FieldNames), NEW b \in BOOLEAN PROVE R(f, b) \in Rule
  BY <1>2, RuleOf
<1>7. \A f \in Seq(FieldNames) : \A b \in BOOLEAN : R(f, b) \in Rule
  <2> HIDE DEF R
  <2> QED BY <1>6
<1> HIDE DEF R
<1>8. own \in Seq(Rule)
  <2>1. /\ R(<<"name">>, b1) \in Rule /\ R(<<"name">>, b2) \in Rule
        /\ R(<<"provider">>, b3) \in Rule
    BY <1>3, <1>5, <1>7
  <2>2. /\ R(<<"backup", "tool">>, b4) \in Rule /\ R(<<"backup", "source">>, b5) \in Rule
    BY <1>3, <1>5, <1>7
  <2>3. /\ R(<<"backup", "repo", "type">>, b6) \in Rule
        /\ R(<<"backup", "repo", "bucket">>, b7) \in Rule
        /\ R(<<"backup", "repo", "prefix">>, b8) \in Rule
    BY <1>3, <1>5, <1>7
  <2>4. /\ R(<<"restore", "container", "image">>, b9) \in Rule
        /\ R(<<"restore", "timeout">>, b10) \in Rule
    BY <1>3, <1>5, <1>7
  <2> QED BY <2>1, <2>2, <2>3, <2>4, Tens
<1>9. FlattenSeq(ofChecks) \in Seq(Rule)
  <2>1. \A c \in DOMAIN checkItems : ofChecks[c] \in Seq(Rule)
    <3>1. \A c \in DOMAIN checkItems : checkItems[c] \in FieldNames
      BY <1>4
    <3> QED BY <1>2, <3>1, CheckRulesType
  <2>2. ofChecks = [c \in DOMAIN checkItems |-> ofChecks[c]]
    OBVIOUS
  <2> HIDE DEF ofChecks
  <2>3. ofChecks \in Seq(Seq(Rule))
    BY <1>4, <2>1, <2>2, Listed
  <2> QED BY <2>3, Flattened
<1>10. FlattenSeq(ofAlerts) \in Seq(Rule)
  <2>1. \A a \in DOMAIN alertItems : ofAlerts[a] \in Seq(Rule)
    <3>1. \A a \in DOMAIN alertItems : alertItems[a] \in FieldNames
      BY <1>4
    <3> QED BY <1>2, <3>1, AlertRulesType
  <2>2. ofAlerts = [a \in DOMAIN alertItems |-> ofAlerts[a]]
    OBVIOUS
  <2> HIDE DEF ofAlerts
  <2>3. ofAlerts \in Seq(Seq(Rule))
    BY <1>4, <2>1, <2>2, Listed
  <2> QED BY <2>3, Flattened
<1> HIDE DEF own, ofChecks, ofAlerts
<1> QED BY <1>1, <1>8, <1>9, <1>10

\* The rules of the reporting section name paths.
LEMMA ReportingRulesType ==
  ASSUME NEW cfg
  PROVE  ReportingRules(cfg) \in Seq(Rule)
<1> DEFINE format == <<"reporting", "format">>
           retention == <<"reporting", "retention">>
           items == Items(cfg, format)
           P(k) == Append(format, items[k])
           B(k) == Value(cfg, P(k)) \notin {"table", "json", "html", "markdown"}
           formats == [k \in DOMAIN items |-> <<P(k), B(k)>>]
           b == ~RetentionAccepted(Value(cfg, retention))
<1>1. ReportingRules(cfg) = formats \o << <<retention, b>> >>
  BY DEF ReportingRules
<1>2. format \in Seq(FieldNames) /\ retention \in Seq(FieldNames) /\ items \in Seq(FieldNames)
  <2>1. "reporting" \in FieldNames /\ "format" \in FieldNames /\ "retention" \in FieldNames
    BY DEF FieldNames
  <2> QED BY <2>1, ItemsType
<1>3. b \in BOOLEAN /\ \A k : B(k) \in BOOLEAN
  OBVIOUS
<1> HIDE DEF format, retention, b, items, B
<1>4. <<retention, b>> \in Rule
  BY <1>2, <1>3, RuleOf
<1>5. \A k \in DOMAIN items : P(k) \in Seq(FieldNames)
  <2>1. \A k \in DOMAIN items : items[k] \in FieldNames
    BY <1>2
  <2> QED BY <1>2, <2>1, FieldOf
<1> HIDE DEF P
<1>6. \A k \in DOMAIN items : formats[k] \in Rule
  BY <1>2, <1>3, <1>5, RuleOf
<1>7. formats = [k \in DOMAIN items |-> formats[k]]
  OBVIOUS
<1> HIDE DEF formats
<1>8. formats \in Seq(Rule)
  BY <1>2, <1>6, <1>7, Listed
<1> DEFINE r == <<retention, b>>
<1> HIDE DEF r
<1>9. <<r>> \in Seq(Rule)
  BY <1>4 DEF r
<1>10. formats \o <<r>> \in Seq(Rule)
  BY <1>8, <1>9
<1> QED BY <1>1, <1>10 DEF r

\* The field that validateConfig names.
LEMMA FieldType ==
  ASSUME NEW cfg
  PROVE  validateConfig(cfg) \in Seq(FieldNames)
<1> DEFINE drills == Items(cfg, <<"drills">>)
           b == drills = <<>>
           none == << <<(<<"drills">>), b>> >>
           ofDrills == [d \in DOMAIN drills |-> DrillRules(cfg, drills[d])]
<1>1. Rules(cfg) = none \o FlattenSeq(ofDrills) \o ReportingRules(cfg)
  BY DEF Rules
<1>2. drills \in Seq(FieldNames) /\ b \in BOOLEAN
  BY ItemsType
<1> HIDE DEF drills, b
<1>3. none \in Seq(Rule)
  <2>1. "drills" \in FieldNames
    BY DEF FieldNames
  <2>2. <<"drills">> \in Seq(FieldNames)
    BY <2>1
  <2>3. <<(<<"drills">>), b>> \in Rule
    BY <1>2, <2>2, RuleOf
  <2> DEFINE r == <<(<<"drills">>), b>>
  <2> HIDE DEF r
  <2>4. <<r>> \in Seq(Rule)
    BY <2>3 DEF r
  <2> QED BY <2>4 DEF r
<1>4. FlattenSeq(ofDrills) \in Seq(Rule)
  <2>1. \A d \in DOMAIN drills : ofDrills[d] \in Seq(Rule)
    <3>1. \A d \in DOMAIN drills : drills[d] \in FieldNames
      BY <1>2
    <3> QED BY <3>1, DrillRulesType
  <2>2. ofDrills = [d \in DOMAIN drills |-> ofDrills[d]]
    OBVIOUS
  <2> HIDE DEF ofDrills
  <2>3. ofDrills \in Seq(Seq(Rule))
    BY <1>2, <2>1, <2>2, Listed
  <2> QED BY <2>3, Flattened
<1>5. ReportingRules(cfg) \in Seq(Rule)
  BY ReportingRulesType
<1> HIDE DEF none, ofDrills
<1>6. Rules(cfg) \in Seq(Rule)
  BY <1>1, <1>3, <1>4, <1>5
<1> QED BY <1>6, FirstBrokenType DEF validateConfig

\* What ParseConfig leaves when a rule is broken.
PlaceInv ==
  phase = "refused" =>
    /\ Tree(document) /\ errorField \in Seq(FieldNames)
    /\ errorNode = configFieldNode(document, errorField)

\* The error of a parsed document is placed on its field's value.
LEMMA ParsePlaces ==
  ASSUME ParseConfig
  PROVE  PlaceInv'
<1>1. PICK d \in Documents :
        /\ document' = d.nodes
        /\ errorField' = validateConfig(Config(d.nodes))
        /\ IF errorField' = <<>>
           THEN phase' = "accepted" /\ UNCHANGED <<errorNode, errorLine>>
           ELSE /\ phase' = "refused"
                /\ errorNode' = configFieldNode(d.nodes, errorField')
                /\ LET at == d.nodes[errorNode'].line
                   IN errorLine' = IF at > 0 THEN sourceLines[at] ELSE 1
  BY DEF ParseConfig
<1>2. Tree(document')
  BY <1>1, ConfigurationAssumption DEF Tree
<1>3. errorField' \in Seq(FieldNames)
  BY <1>1, FieldType
<1>4. phase' = "refused" => errorNode' = configFieldNode(document', errorField')
  BY <1>1
<1> QED BY <1>2, <1>3, <1>4 DEF PlaceInv

\* The invariant implies the property.
LEMMA PlaceInvShows ==
  PlaceInv => ErrorShowsTheValue
<1> SUFFICES ASSUME PlaceInv, phase = "refused"
             PROVE  LET way == Way(document, errorField)
                        last == Max({k \in DOMAIN way : way[k] # 0})
                    IN errorNode = IF last = Len(errorField) THEN way[last]
                                   ELSE Pointee(document)[way[last]]
  BY DEF ErrorShowsTheValue
<1>1. /\ Tree(document) /\ errorField \in Seq(FieldNames)
      /\ errorNode = configFieldNode(document, errorField)
  BY DEF PlaceInv
<1> QED BY <1>1, FieldNodeIs

\* configFieldNode, for every document: an error points to the node that holds the
\* value which the decoder gave the field, through aliases and merged mappings, and
\* to the innermost mapping or list around a field that is not there.
THEOREM ErrorsShowTheValue ==
  ConfigurationInit /\ [][ConfigurationNext]_configuration => []ErrorShowsTheValue
<1>1. ConfigurationInit => PlaceInv
  BY DEF ConfigurationInit, PlaceInv
<1>2. PlaceInv /\ [ConfigurationNext]_configuration => PlaceInv'
  <2> SUFFICES ASSUME PlaceInv, [ConfigurationNext]_configuration PROVE PlaceInv'
    OBVIOUS
  <2>1. CASE WriteLiteral
    <3>1. phase' # "refused"
      BY <2>1 DEF WriteLiteral
    <3> QED BY <3>1 DEF PlaceInv
  <2>2. CASE WritePlaceholder
    <3>1. phase' # "refused"
      BY <2>2 DEF WritePlaceholder
    <3> QED BY <3>1 DEF PlaceInv
  <2>3. CASE ParseConfig
    BY <2>3, ParsePlaces
  <2>4. CASE UNCHANGED configuration
    BY <2>4 DEF PlaceInv, configuration, errorVars
  <2> QED BY <2>1, <2>2, <2>3, <2>4 DEF ConfigurationNext
<1> QED BY <1>1, <1>2, PlaceInvShows, PTL

-----------------------------------------------------------------------------
(* Limits                                                                  *)

\* A number that fits keeps its value.
LEMMA Int64Fits ==
  ASSUME NEW n \in Nat, n <= Largest
  PROVE  Int64(n) = n
<1>1. Largest \in Nat
  BY LimitsAssumption
<1> DEFINE b == 2 * (Largest + 1)
<1>2. b \in Nat /\ b > 0 /\ n + Largest + 1 \in Nat /\ n + Largest + 1 < b
  BY <1>1
<1>3. (n + Largest + 1) % b = n + Largest + 1
  BY <1>2
<1> QED BY <1>1, <1>3 DEF Int64

\* No number leaves the range of int64 above.
LEMMA Int64Bounded ==
  ASSUME NEW n \in Nat
  PROVE  Int64(n) \in Int /\ Int64(n) <= Largest
<1>1. Largest \in Nat
  BY LimitsAssumption
<1> DEFINE b == 2 * (Largest + 1)
<1>2. b \in Nat /\ b > 0 /\ n + Largest + 1 \in Nat
  BY <1>1
<1>3. (n + Largest + 1) % b \in Int /\ (n + Largest + 1) % b < b
  BY <1>2
<1> QED BY <1>1, <1>3 DEF Int64

\* Rounding down to milliseconds loses less than one.
LEMMA WholeMillis ==
  ASSUME NEW n \in Nat
  PROVE  /\ Millis(n) * NanosOfMilli \in Nat
         /\ Millis(n) * NanosOfMilli <= n
         /\ n < Millis(n) * NanosOfMilli + NanosOfMilli
<1>1. NanosOfMilli \in Nat \ {0}
  BY LimitsAssumption
<1>2. n \div NanosOfMilli \in Nat
  BY <1>1
<1>3. (n \div NanosOfMilli) * NanosOfMilli + (n % NanosOfMilli) = n
  BY <1>1
<1>4. n % NanosOfMilli \in 0..(NanosOfMilli - 1)
  BY <1>1
<1> QED BY <1>1, <1>2, <1>3, <1>4 DEF Millis

-----------------------------------------------------------------------------
\* What parseMemory and parseCPU made of the quantities.
MemoryParsed ==
  /\ spec.MemoryLimit \in Int
  /\ \A m \in memory : \A asked \in MemoryAsked(m) :
       /\ asked \in Nat
       /\ spec.MemoryLimit <= asked
       /\ asked <= Largest => spec.MemoryLimit = asked

\* The parsed CPU limit never exceeds what was asked.
CPUParsed ==
  /\ spec.CPULimit \in Int
  /\ \A c \in cpu : \A asked \in CPUAsked(c) :
       /\ asked \in Nat
       /\ spec.CPULimit <= asked
       /\ asked <= Largest => spec.CPULimit = asked

\* The inductive invariant.
LimitsInv ==
  /\ spec = <<>> => limit = <<>>
  /\ spec # <<>> => MemoryParsed /\ CPUParsed
  /\ LimitsAreKept

\* A quantity has at most one number, a natural one.
LEMMA Quantities ==
  ASSUME NEW q \in Memories \cup CPUs
  PROVE  q.number \subseteq Nat /\ \A i, j \in q.number : i = j
BY LimitsAssumption

\* A product of two naturals is a natural.
LEMMA Products ==
  ASSUME NEW i \in Nat, NEW j \in Nat
  PROVE  i * j \in Nat
OBVIOUS

\* parseMemory returns what was asked, or less where that does not fit.
LEMMA ParseMemory ==
  ASSUME NEW m \in Memories, NEW n \in parseMemory(m)
  PROVE  /\ n \in Int
         /\ \A asked \in MemoryAsked(m) :
              asked \in Nat /\ n <= asked /\ (asked <= Largest => n = asked)
<1>1. CASE ~Known(m)
  BY <1>1 DEF parseMemory, MemoryAsked
<1>2. CASE Known(m)
  <2>1. PICK k \in m.number : n = Int64(k * Bytes[m.suffix])
    BY <1>2 DEF parseMemory
  <2>2. \A asked \in MemoryAsked(m) : asked = k * Bytes[m.suffix]
    BY <1>2, Quantities DEF MemoryAsked
  <2>3. Bytes[m.suffix] \in Nat
    BY <1>2, LimitsAssumption DEF Known
  <2>4. k * Bytes[m.suffix] \in Nat
    BY <2>3, Quantities, Products
  <2> QED
    <3> DEFINE asked == k * Bytes[m.suffix]
    <3>1. asked \in Nat /\ n = Int64(asked) /\ Largest \in Nat
      BY <2>1, <2>4, LimitsAssumption
    <3> HIDE DEF asked
    <3>2. n \in Int /\ n <= asked /\ (asked <= Largest => n = asked)
      BY <3>1, Int64Fits, Int64Bounded
    <3> QED BY <2>2, <3>1, <3>2 DEF asked
<1> QED BY <1>1, <1>2

\* parseCPU returns what was asked, or less where that does not fit.
LEMMA ParseCPU ==
  ASSUME NEW c \in CPUs, NEW n \in parseCPU(c)
  PROVE  /\ n \in Int
         /\ \A asked \in CPUAsked(c) :
              asked \in Nat /\ n <= asked /\ (asked <= Largest => n = asked)
<1>1. CASE c.number = {}
  BY <1>1 DEF parseCPU, CPUAsked
<1>2. CASE c.number # {} /\ c.milli
  <2>1. PICK k \in c.number : n = Int64(k * NanosOfMilli)
    BY <1>2 DEF parseCPU
  <2>2. \A asked \in CPUAsked(c) : asked = k * NanosOfMilli
    BY <1>2, Quantities DEF CPUAsked
  <2>3. k * NanosOfMilli \in Nat
    BY Quantities, Products, LimitsAssumption
  <2> QED
    <3> DEFINE asked == k * NanosOfMilli
    <3>1. asked \in Nat /\ n = Int64(asked) /\ Largest \in Nat
      BY <2>1, <2>3, LimitsAssumption
    <3> HIDE DEF asked
    <3>2. n \in Int /\ n <= asked /\ (asked <= Largest => n = asked)
      BY <3>1, Int64Fits, Int64Bounded
    <3> QED BY <2>2, <3>1, <3>2 DEF asked
<1>3. CASE c.number # {} /\ ~c.milli
  <2>1. PICK k \in c.number : n \in FromFloat(k)
    BY <1>3 DEF parseCPU
  <2>2. \A asked \in CPUAsked(c) : asked = k
    BY <1>3, Quantities DEF CPUAsked
  <2>3. k \in Nat /\ Largest \in Nat
    BY Quantities, LimitsAssumption
  <2> QED BY <2>1, <2>2, <2>3 DEF FromFloat
<1> QED BY <1>1, <1>2, <1>3

-----------------------------------------------------------------------------
\* Parsing keeps the invariant.
LEMMA ParsePreserves ==
  ASSUME LimitsInv, ParseResources
  PROVE  LimitsInv'
<1>1. limit' = <<>>
  BY DEF LimitsInv, ParseResources
<1>2. LimitsAreKept'
  BY <1>1 DEF LimitsAreKept
<1>3. PICK m \in IF memory' = {} THEN {0} ELSE UNION {parseMemory(x) : x \in memory'},
           c \in IF cpu' = {} THEN {0} ELSE UNION {parseCPU(x) : x \in cpu'} :
        spec' = [MemoryLimit |-> m, CPULimit |-> c]
  BY DEF ParseResources
<1>4. spec'.MemoryLimit = m /\ spec'.CPULimit = c
  BY <1>3
<1>5. MemoryParsed'
  <2>1. CASE memory' = {}
    BY <1>3, <1>4, <2>1 DEF MemoryParsed
  <2>2. ASSUME NEW x \in Memories, memory' = {x} PROVE MemoryParsed'
    <3>1. m \in parseMemory(x)
      BY <1>3, <2>2
    <3>2. /\ m \in Int
          /\ \A asked \in MemoryAsked(x) :
               asked \in Nat /\ m <= asked /\ (asked <= Largest => m = asked)
      BY <3>1, ParseMemory
    <3> QED BY <1>4, <2>2, <3>2 DEF MemoryParsed
  <2> QED BY <2>1, <2>2 DEF ParseResources
<1>6. CPUParsed'
  <2>1. CASE cpu' = {}
    BY <1>3, <1>4, <2>1 DEF CPUParsed
  <2>2. ASSUME NEW x \in CPUs, cpu' = {x} PROVE CPUParsed'
    <3>1. c \in parseCPU(x)
      BY <1>3, <2>2
    <3>2. /\ c \in Int
          /\ \A asked \in CPUAsked(x) :
               asked \in Nat /\ c <= asked /\ (asked <= Largest => c = asked)
      BY <3>1, ParseCPU
    <3> QED BY <1>4, <2>2, <3>2 DEF CPUParsed
  <2> QED BY <2>1, <2>2 DEF ParseResources
<1> QED BY <1>1, <1>2, <1>5, <1>6 DEF LimitsInv

\* Creating a target with the parsed limits keeps the invariant.
LEMMA CreatePreserves ==
  ASSUME LimitsInv, CreateOnDocker \/ CreateOnKubernetes
  PROVE  LimitsInv'
<1>1. UNCHANGED <<memory, cpu, spec>> /\ spec # <<>> /\ MemoryParsed /\ CPUParsed
  BY DEF LimitsInv, CreateOnDocker, CreateOnKubernetes
<1>2. MemoryParsed' /\ CPUParsed'
  BY <1>1 DEF MemoryParsed, CPUParsed
<1> DEFINE M == spec.MemoryLimit
           C == Positive(spec.CPULimit)
<1>3. limit'.memory = Positive(M)
  BY DEF CreateOnDocker, CreateOnKubernetes
<1>4. /\ C \in Nat /\ NanosOfMilli \in Nat \ {0} /\ Largest \in Nat
      /\ M \in Int
  BY <1>1, LimitsAssumption DEF Positive, MemoryParsed, CPUParsed
<1>5. limit'.cpu \in Nat /\ limit'.cpu <= C /\ C < limit'.cpu + NanosOfMilli
  <2>1. CASE CreateOnDocker
    <3>1. limit'.cpu = C
      BY <2>1 DEF CreateOnDocker
    <3> HIDE DEF C
    <3> QED BY <1>4, <3>1
  <2>2. CASE CreateOnKubernetes
    <3>1. limit'.cpu = Millis(C) * NanosOfMilli
      BY <2>2 DEF CreateOnKubernetes
    <3> HIDE DEF C
    <3> QED BY <1>4, <3>1, WholeMillis
  <2> QED BY <2>1, <2>2
<1>6. \A m \in memory' : \A asked \in MemoryAsked(m) :
        /\ limit'.memory # 0 => limit'.memory <= asked
        /\ asked <= Largest => limit'.memory = asked
  BY <1>1, <1>3, <1>4 DEF MemoryParsed, Positive
<1>7. \A c \in cpu' : \A asked \in CPUAsked(c) :
        /\ limit'.cpu # 0 => limit'.cpu <= asked
        /\ asked <= Largest =>
                           limit'.cpu <= asked /\ asked < limit'.cpu + NanosOfMilli
  <2> SUFFICES ASSUME NEW c \in cpu', NEW asked \in CPUAsked(c)
               PROVE  /\ limit'.cpu # 0 => limit'.cpu <= asked
                      /\ asked <= Largest =>
                           limit'.cpu <= asked /\ asked < limit'.cpu + NanosOfMilli
    OBVIOUS
  <2>1. asked \in Nat /\ C <= asked /\ (asked <= Largest => C = asked)
    BY <1>1 DEF CPUParsed, Positive
  <2> HIDE DEF C
  <2> QED BY <1>4, <1>5, <2>1
<1>8. LimitsAreKept'
  BY <1>6, <1>7 DEF LimitsAreKept
<1> QED BY <1>1, <1>2, <1>8 DEF LimitsInv

\* executeDrill and Create of the runtimes, for all quantities, all units and
\* every width of the integers: a target gets what the configuration asks for;
\* of a quantity that does not fit it gets no limit or a lower one.
THEOREM LimitsFollowTheConfiguration == LimitsSpec => []LimitsAreKept
<1>1. LimitsInit => LimitsInv
  BY DEF LimitsInit, LimitsInv, LimitsAreKept
<1>2. LimitsInv /\ [LimitsNext]_limits => LimitsInv'
  <2> SUFFICES ASSUME LimitsInv, [LimitsNext]_limits PROVE LimitsInv'
    OBVIOUS
  <2>1. CASE UNCHANGED limits
    BY <2>1 DEF limits, LimitsInv, LimitsAreKept, MemoryParsed, CPUParsed
  <2> QED BY <2>1, ParsePreserves, CreatePreserves DEF LimitsNext
<1>3. LimitsInv => LimitsAreKept
  BY DEF LimitsInv
<1> QED BY <1>1, <1>2, <1>3, PTL DEF LimitsSpec

-----------------------------------------------------------------------------
(* Doctor, and the run that follows it                                     *)

\* The types of doctor's state.
DoctorTypes ==
  /\ doctorPc \in {"start", "runtime", "ping", "state", "report", "tools", "finalize", "done"}
  /\ runPc \in {"wait", "setup", "target", "save", "reports", "done"}
  /\ doctorPc # "start" => env \in Environment
  /\ found \in [pass : Nat, warn : Nat, fail : Nat]

\* Nothing of the run happens before doctor has ended.
RunWaits ==
  /\ runPc = "wait" <=> doctorPc # "done"
  /\ runPc = "wait" => failures = {}

\* The reports come last.
FailedBefore == runPc # "done" => "reports" \notin failures

\* What holds of the environment from a check on, unless a check has failed; the
\* reports of the run are what ends it for their directory.
SoundSoFar ==
  found.fail = 0 =>
    /\ doctorPc # "start" => env.valid
    /\ doctorPc \notin {"start", "runtime"} => env.mode # "other"
    /\ doctorPc \notin {"start", "runtime", "ping"} => Ping(env)
    /\ doctorPc \notin {"start", "runtime", "ping", "state"} => env.home = "writable"
    /\ /\ doctorPc \notin {"start", "runtime", "ping", "state", "report"}
       /\ runPc # "done" /\ env.output # "none"
       => Holds(env, ReportDir(env, FALSE))

\* The exit code tells whether a check failed.
ExitTells ==
  doctorPc = "done" =>
    /\ exit.code = 0 <=> exit.status # "fail"
    /\ exit.code = 0 => found.fail = 0

\* The inductive invariant.
DoctorInv ==
  /\ DoctorTypes /\ RunWaits /\ FailedBefore /\ SoundSoFar /\ ExitTells
  /\ DoctorForeseesTheRun

\* Making a directory changes nothing but that directory.
LEMMA MkdirMakes ==
  ASSUME NEW e \in Environment
  PROVE  /\ \A f \in MkdirParent(e) :
              /\ f = [e EXCEPT !.parent = IF @ = "absent" THEN "writable" ELSE @]
              /\ f \in Environment
         /\ \A f \in MkdirPath(e) :
              /\ f \in Environment
              /\ InPath(e) => f = e
              /\ ~InPath(e) => /\ e.path = "absent"
                               /\ f.path = "dir"
<1>1. \A f \in MkdirParent(e) :
        f = [e EXCEPT !.parent = IF @ = "absent" THEN "writable" ELSE @]
  BY DEF MkdirParent
<1>2. \A f \in MkdirParent(e) : f \in Environment /\ f.path = e.path
  BY <1>1 DEF Environment, Directories
<1>3. ASSUME NEW f \in MkdirPath(e)
      PROVE  /\ f \in Environment
             /\ InPath(e) => f = e
             /\ ~InPath(e) => e.path = "absent" /\ f.path = "dir"
  <2>1. CASE InPath(e)
    BY <1>3, <2>1 DEF MkdirPath
  <2>2. CASE ~InPath(e)
    <3>1. PICK g \in MkdirParent(e) : g.path = "absent" /\ f = [g EXCEPT !.path = "dir"]
      BY <1>3, <2>2 DEF MkdirPath
    <3>2. g \in Environment /\ e.path = "absent"
      BY <1>2, <3>1
    <3>3. f \in Environment /\ f.path = "dir"
      BY <3>1, <3>2 DEF Environment
    <3> QED BY <2>2, <3>2, <3>3
  <2> QED BY <2>1, <2>2
<1> QED BY <1>1, <1>2, <1>3

\* One way or another the directory is the one that reports go to.
LEMMA AfterStays ==
  ASSUME NEW e \in Environment, NEW dir \in {"path", "parent"}
  PROVE  /\ After(e, dir) \in Environment
         /\ dir = "parent" => After(e, dir).path = e.path
         /\ After(e, dir) = e \/ After(e, dir) \in Mkdir(e, dir)
<1>1. After(e, dir) = e \/ After(e, dir) \in Mkdir(e, dir)
  BY DEF After
<1>2. \A f \in Mkdir(e, dir) : f \in Environment /\ (dir = "parent" => f.path = e.path)
  <2>1. CASE dir = "path"
    BY <2>1, MkdirMakes DEF Mkdir
  <2>2. CASE dir = "parent"
    <3>1. \A f \in MkdirParent(e) : f.path = e.path
      BY MkdirMakes DEF Environment
    <3> QED BY <2>2, <3>1, MkdirMakes DEF Mkdir
  <2> QED BY <2>1, <2>2
<1> QED BY <1>1, <1>2

\* Making a directory leaves everything else of the environment as it was.
LEMMA AfterKeeps ==
  ASSUME NEW e \in Environment, NEW dir \in {"path", "parent"}
  PROVE  LET f == After(e, dir) IN
         /\ f.valid = e.valid /\ f.mode = e.mode /\ f.home = e.home
         /\ f.padded = e.padded /\ f.flags = e.flags /\ f.inCluster = e.inCluster
         /\ f.daemon = e.daemon /\ f.api = e.api
         /\ f.history = e.history /\ f.allows = e.allows
         /\ f.formats = e.formats /\ f.output = e.output
<1> DEFINE Same(f) == \E pa, d : f = [[e EXCEPT !.parent = pa] EXCEPT !.path = d]
<1>1. Same(e)
  <2>1. e = [[e EXCEPT !.parent = e.parent] EXCEPT !.path = e.path]
    BY DEF Environment
  <2> QED BY <2>1
<1>2. \A f \in MkdirParent(e) : \E pa : f = [e EXCEPT !.parent = pa]
  BY DEF MkdirParent
<1>3. \A f \in MkdirParent(e) : Same(f)
  <2> SUFFICES ASSUME NEW f \in MkdirParent(e) PROVE Same(f)
    OBVIOUS
  <2>1. PICK pa : f = [e EXCEPT !.parent = pa]
    BY <1>2
  <2>2. f = [[e EXCEPT !.parent = pa] EXCEPT !.path = e.path]
    BY <2>1 DEF Environment
  <2> QED BY <2>2
<1>4. \A f \in MkdirPath(e) : Same(f)
  <2> SUFFICES ASSUME NEW f \in MkdirPath(e) PROVE Same(f)
    OBVIOUS
  <2>1. CASE InPath(e)
    BY <1>1, <2>1 DEF MkdirPath
  <2>2. CASE ~InPath(e)
    <3>1. PICK g \in MkdirParent(e) : f = [g EXCEPT !.path = "dir"]
      BY <2>2 DEF MkdirPath
    <3> QED BY <1>2, <3>1
  <2> QED BY <2>1, <2>2
<1>5. Same(After(e, dir))
  BY <1>1, <1>3, <1>4, AfterStays DEF Mkdir
<1>6. PICK pa, d : After(e, dir) = [[e EXCEPT !.parent = pa] EXCEPT !.path = d]
  BY <1>5
<1> QED BY <1>6 DEF Environment

\* Reports go to the path itself or to its parent.
LEMMA DirOfReports ==
  ASSUME NEW e \in Environment, NEW several \in BOOLEAN
  PROVE  ReportDir(e, several) \in {"path", "parent"}
BY DEF ReportDir

\* A status is counted once, and no failure is forgotten.
LEMMA Verified ==
  ASSUME DoctorTypes, NEW ok \in BOOLEAN, Verify(ok)
  PROVE  /\ found' \in [pass : Nat, warn : Nat, fail : Nat]
         /\ found'.fail = 0 => found.fail = 0 /\ ok
BY DEF DoctorTypes, Verify, add

\* Counting a result keeps the counts' type.
LEMMA Counted ==
  ASSUME NEW counts \in [pass : Nat, warn : Nat, fail : Nat],
         NEW p \in Nat, NEW w \in Nat, NEW f \in Nat
  PROVE  /\ [counts EXCEPT !.pass = p, !.fail = f] \in [pass : Nat, warn : Nat, fail : Nat]
         /\ [counts EXCEPT !.pass = p, !.fail = f].fail = f
         /\ [counts EXCEPT !.pass = p, !.fail = f, !.warn = w]
              \in [pass : Nat, warn : Nat, fail : Nat]
         /\ [counts EXCEPT !.pass = p, !.fail = f, !.warn = w].fail = f
OBVIOUS

-----------------------------------------------------------------------------
\* The checks of doctor: each of them adds what it has seen to SoundSoFar.
LEMMA CheckFacts ==
  ASSUME DoctorInv,
         CheckConfig \/ SelectRuntime \/ PingRuntime \/ CheckStateDir \/ CheckReportDir
           \/ addToolChecks
  PROVE  /\ UNCHANGED <<exit, runPc, failures>>
         /\ doctorPc # "done" /\ doctorPc' \notin {"start", "done"} /\ runPc = "wait"
         /\ failures = {}
BY DEF DoctorInv, RunWaits, CheckConfig, SelectRuntime, PingRuntime, CheckStateDir,
       CheckReportDir, addToolChecks, At

\* The configuration's check keeps types and soundness.
LEMMA CheckConfigPreserves ==
  ASSUME DoctorInv, CheckConfig
  PROVE  DoctorTypes' /\ SoundSoFar'
<1>1. /\ doctorPc' = "runtime" /\ UNCHANGED runPc /\ DoctorTypes /\ env' \in Environment
      /\ env'.valid \in BOOLEAN
  BY DoctorAssumption DEF CheckConfig, At, DoctorInv, Environment
<1>2. /\ found' \in [pass : Nat, warn : Nat, fail : Nat]
      /\ found'.fail = 0 => env'.valid
  BY <1>1, Verified DEF CheckConfig
<1> QED BY <1>1, <1>2 DEF DoctorTypes, SoundSoFar

\* The choice of the runtime keeps types and soundness.
LEMMA SelectRuntimePreserves ==
  ASSUME DoctorInv, SelectRuntime
  PROVE  DoctorTypes' /\ SoundSoFar'
<1>1. /\ doctorPc = "runtime" /\ doctorPc' = "ping" /\ UNCHANGED <<runPc, env>>
      /\ DoctorTypes /\ SoundSoFar
  BY DEF SelectRuntime, At, DoctorInv
<1>2. /\ found' \in [pass : Nat, warn : Nat, fail : Nat]
      /\ found'.fail = 0 => found.fail = 0 /\ env.mode # "other"
  BY <1>1, Verified DEF SelectRuntime
<1> QED BY <1>1, <1>2 DEF DoctorTypes, SoundSoFar

\* The ping keeps types and soundness.
LEMMA PingRuntimePreserves ==
  ASSUME DoctorInv, PingRuntime
  PROVE  DoctorTypes' /\ SoundSoFar'
<1>1. /\ doctorPc = "ping" /\ doctorPc' = "state" /\ UNCHANGED <<runPc, env>>
      /\ DoctorTypes /\ SoundSoFar
  BY DEF PingRuntime, At, DoctorInv
<1>2. /\ found' \in [pass : Nat, warn : Nat, fail : Nat]
      /\ found'.fail = 0 => found.fail = 0 /\ (env.mode # "other" => Ping(env))
  <2>1. CASE env.mode = "other"
    BY <1>1, <2>1 DEF PingRuntime, DoctorTypes
  <2>2. CASE env.mode # "other"
    <3>1. PICK auto \in {0, 1}, ok \in {0, 1} :
            /\ ok = 0 => Ping(env)
            /\ found' = [found EXCEPT !.pass = found.pass + auto + (1 - ok),
                                      !.fail = found.fail + ok]
      <4> DEFINE a == IF env.mode = "auto" THEN 1 ELSE 0
                 F(b, ok) == [found EXCEPT !.pass = found.pass + b + (1 - ok),
                                           !.fail = found.fail + ok]
      <4>0. a \in {0, 1} /\ found.pass \in Nat
        BY <1>1 DEF DoctorTypes
      <4>1. CASE Ping(env)
        <5>1. found' = [found EXCEPT !.pass = found.pass + a + 1, !.fail = found.fail + 0]
          BY <2>2, <4>1 DEF PingRuntime
        <5>2. 1 - 0 = 1
          OBVIOUS
        <5>3. found' = F(a, 0)
          BY <5>1, <5>2
        <5> HIDE DEF a
        <5> QED BY <4>0, <4>1, <5>3
      <4>2. CASE ~Ping(env)
        <5>1. found' = [found EXCEPT !.pass = found.pass + a + 0, !.fail = found.fail + 1]
          BY <2>2, <4>2 DEF PingRuntime
        <5>2. 1 - 1 = 0
          OBVIOUS
        <5>3. found' = F(a, 1)
          BY <5>1, <5>2
        <5>4. 1 \in {0, 1} /\ (1 = 0 => Ping(env))
          OBVIOUS
        <5> HIDE DEF a
        <5> QED BY <4>0, <5>3, <5>4
      <4> QED BY <4>1, <4>2
    <3>2. found \in [pass : Nat, warn : Nat, fail : Nat] /\ auto \in Nat /\ ok \in Nat
      BY <1>1 DEF DoctorTypes
    <3>3. found.pass + auto + (1 - ok) \in Nat /\ found.fail + ok \in Nat /\ found.fail \in Nat
      BY <3>2
    <3>4. /\ found' \in [pass : Nat, warn : Nat, fail : Nat]
          /\ found'.fail = found.fail + ok
      BY <3>1, <3>2, <3>3, Counted
    <3>5. found'.fail = 0 => found.fail = 0 /\ ok = 0
      BY <3>2, <3>3, <3>4
    <3> QED BY <3>1, <3>4, <3>5
  <2> QED BY <2>1, <2>2
<1> QED BY <1>1, <1>2 DEF DoctorTypes, SoundSoFar

\* The state directory's check keeps types and soundness.
LEMMA CheckStateDirPreserves ==
  ASSUME DoctorInv, CheckStateDir
  PROVE  DoctorTypes' /\ SoundSoFar'
<1>1. /\ doctorPc = "state" /\ doctorPc' = "report" /\ UNCHANGED runPc
      /\ DoctorTypes /\ SoundSoFar /\ env \in Environment
      /\ env' = [env EXCEPT !.home = IF @ = "absent" THEN "writable" ELSE @]
  BY DEF CheckStateDir, At, DoctorInv, DoctorTypes
<1>2. /\ found' \in [pass : Nat, warn : Nat, fail : Nat]
      /\ found'.fail = 0 => found.fail = 0 /\ env'.home = "writable"
  BY <1>1, Verified DEF CheckStateDir
<1>3. /\ env' \in Environment /\ env'.valid = env.valid /\ env'.mode = env.mode
      /\ Ping(env') <=> Ping(env)
  BY <1>1 DEF Environment, Directories, Ping, Responds, Resolved
<1> QED BY <1>1, <1>2, <1>3 DEF DoctorTypes, SoundSoFar

\* The report directory's check keeps types and soundness.
LEMMA CheckReportDirPreserves ==
  ASSUME DoctorInv, CheckReportDir
  PROVE  DoctorTypes' /\ SoundSoFar'
<1>1. /\ doctorPc = "report" /\ doctorPc' = "tools" /\ UNCHANGED runPc
      /\ DoctorTypes /\ SoundSoFar /\ env \in Environment
  BY DEF CheckReportDir, At, DoctorInv, DoctorTypes
<1>2. CASE ~env.valid \/ env.output = "none"
  <2>1. /\ UNCHANGED env /\ found' \in [pass : Nat, warn : Nat, fail : Nat]
        /\ found'.fail = found.fail
    <3>1. UNCHANGED env /\ found' = [found EXCEPT !["warn"] = @ + 1]
      BY <1>2 DEF CheckReportDir, add
    <3> QED BY <1>1, <3>1 DEF DoctorTypes
  <2>2. found.fail = 0 => env.valid /\ env.output = "none"
    BY <1>1, <1>2 DEF SoundSoFar
  <2>3. SoundSoFar'
    BY <1>1, <2>1, <2>2 DEF SoundSoFar
  <2> QED BY <1>1, <2>1, <2>3 DEF DoctorTypes
<1>3. CASE ~(~env.valid \/ env.output = "none")
  <2> DEFINE dir == ReportDir(env, FALSE)
  <2>1. dir \in {"path", "parent"}
    BY <1>1, DirOfReports
  <2>2. Verify(checkWritableDir(env, dir)) /\ env' = After(env, dir)
    BY <1>3 DEF CheckReportDir
  <2>3. /\ found' \in [pass : Nat, warn : Nat, fail : Nat]
        /\ found'.fail = 0 => found.fail = 0 /\ checkWritableDir(env, dir)
    BY <1>1, <2>2, Verified DEF checkWritableDir
  <2>4. env' \in Environment
    BY <1>1, <2>1, <2>2, AfterStays
  \* The directory is there, and it is still the one that the reports go to.
  <2>5. checkWritableDir(env, dir) => Holds(env', ReportDir(env', FALSE))
    <3> SUFFICES ASSUME checkWritableDir(env, dir)
                 PROVE  Holds(env', ReportDir(env', FALSE))
      OBVIOUS
    <3>1. PICK f \in Mkdir(env, dir) : Holds(f, dir)
      BY DEF checkWritableDir
    <3>2. env' \in Mkdir(env, dir)
      BY <2>2, <3>1 DEF After
    <3>3. CASE dir = "path"
      <4>1. f.path = "dir"
        BY <3>1, <3>3 DEF Holds
      <4>2. env'.path = "dir"
        <5>1. CASE InPath(env)
          BY <1>1, <3>1, <3>2, <3>3, <4>1, <5>1, MkdirMakes DEF Mkdir
        <5>2. CASE ~InPath(env)
          BY <1>1, <3>2, <3>3, <5>2, MkdirMakes DEF Mkdir
        <5> QED BY <5>1, <5>2
      <4> QED BY <4>2 DEF ReportDir, reportOutputIsDir, InPath, Holds
    <3>4. CASE dir = "parent"
      <4>1. env' = f /\ f.parent = "writable"
        BY <1>1, <3>1, <3>2, <3>4, MkdirMakes DEF Mkdir, Holds
      <4>2. env' = [env EXCEPT !.parent = IF @ = "absent" THEN "writable" ELSE @]
        BY <1>1, <3>2, <3>4, MkdirMakes DEF Mkdir
      <4>3. env'.path = env.path /\ env'.output = env.output
        BY <1>1, <4>2 DEF Environment
      <4>4. ReportDir(env', FALSE) = "parent"
        BY <3>4, <4>3 DEF ReportDir, reportOutputIsDir, InPath
      <4> QED BY <4>1, <4>4 DEF Holds
    <3> QED BY <2>1, <3>3, <3>4
  <2>6. /\ env'.valid = env.valid /\ env'.mode = env.mode /\ env'.home = env.home
        /\ Ping(env') <=> Ping(env)
    BY <1>1, <2>1, <2>2, AfterKeeps DEF Ping, Responds, Resolved
  <2> HIDE DEF dir
  <2> QED BY <1>1, <2>3, <2>4, <2>5, <2>6 DEF DoctorTypes, SoundSoFar
<1> QED BY <1>2, <1>3

\* The tools' checks keep types and soundness.
LEMMA ToolChecksPreserve ==
  ASSUME DoctorInv, addToolChecks
  PROVE  DoctorTypes' /\ SoundSoFar'
<1>1. /\ doctorPc = "tools" /\ doctorPc' = "finalize" /\ UNCHANGED <<runPc, env>>
      /\ DoctorTypes /\ SoundSoFar
  BY DEF addToolChecks, At, DoctorInv
<1>2. PICK r \in {0, 1}, o \in {0, 1} :
        found' = [found EXCEPT !.pass = found.pass + 11 - r - o, !.fail = found.fail + r,
                               !.warn = found.warn + o]
  BY DEF addToolChecks
<1>3. found' \in [pass : Nat, warn : Nat, fail : Nat] /\ (found'.fail = 0 => found.fail = 0)
  <2>1. found \in [pass : Nat, warn : Nat, fail : Nat] /\ r \in Nat /\ o \in Nat
    BY <1>1 DEF DoctorTypes
  <2>2. /\ found.pass + 11 - r - o \in Nat /\ found.fail \in Nat
        /\ found.fail + r \in Nat /\ found.warn + o \in Nat
    BY <2>1
  <2>3. /\ found' \in [pass : Nat, warn : Nat, fail : Nat]
        /\ found'.fail = found.fail + r
    BY <1>2, <2>1, <2>2, Counted
  <2> QED BY <2>1, <2>2, <2>3
<1> QED BY <1>1, <1>3 DEF DoctorTypes, SoundSoFar

\* Doctor's checks keep the invariant.
LEMMA ChecksPreserve ==
  ASSUME DoctorInv,
         CheckConfig \/ SelectRuntime \/ PingRuntime \/ CheckStateDir \/ CheckReportDir
           \/ addToolChecks
  PROVE  DoctorInv'
<1>1. DoctorTypes' /\ SoundSoFar'
  BY CheckConfigPreserves, SelectRuntimePreserves, PingRuntimePreserves,
     CheckStateDirPreserves, CheckReportDirPreserves, ToolChecksPreserve
<1>2. RunWaits' /\ FailedBefore' /\ ExitTells' /\ DoctorForeseesTheRun'
  BY CheckFacts DEF RunWaits, FailedBefore, ExitTells, DoctorForeseesTheRun
<1> QED BY <1>1, <1>2 DEF DoctorInv

\* The exit code keeps the invariant.
LEMMA FinalizePreserves ==
  ASSUME DoctorInv, finalize
  PROVE  DoctorInv'
<1>1. /\ doctorPc = "finalize" /\ doctorPc' = "done" /\ runPc' = "setup"
      /\ UNCHANGED <<env, found, failures>>
      /\ DoctorTypes /\ RunWaits /\ SoundSoFar
  BY DEF finalize, DoctorInv
<1>2. failures' = {} /\ runPc # "done"
  BY <1>1 DEF RunWaits
<1>3. exit'.code = Code /\ exit'.status = Status
  BY DEF finalize
<1>4. /\ Code = 0 <=> Status # "fail"
      /\ Code = 0 => found.fail = 0
  BY <1>1 DEF Code, Status, DoctorTypes
<1>5. ExitTells' /\ DoctorForeseesTheRun'
  BY <1>1, <1>2, <1>3, <1>4 DEF ExitTells, DoctorForeseesTheRun
<1>6. DoctorTypes' /\ RunWaits' /\ FailedBefore' /\ SoundSoFar'
  BY <1>1, <1>2 DEF DoctorTypes, RunWaits, FailedBefore, SoundSoFar
<1> QED BY <1>5, <1>6 DEF DoctorInv

-----------------------------------------------------------------------------
\* The parts of the run: what fails was not to be foreseen, or doctor failed.
LEMMA PartPreserves ==
  ASSUME DoctorInv, NEW here \in {"setup", "target", "save", "reports"},
         NEW next \in {"target", "save", "reports", "done"}, NEW ok \in BOOLEAN,
         Part(here, next, ok), here = "reports" => next = "done", env' \in Environment, SoundSoFar',
         found.fail = 0 /\ ~ok => NotForeseen(here)',
         \A part \in failures : NotForeseen(part) => NotForeseen(part)'
  PROVE  DoctorInv'
<1>1. /\ runPc = here /\ runPc' = next /\ UNCHANGED <<doctorPc, found, exit>>
      /\ failures' = IF ok THEN failures ELSE failures \cup {here}
      /\ DoctorTypes /\ RunWaits /\ FailedBefore /\ ExitTells /\ DoctorForeseesTheRun
  BY DEF Part, DoctorInv
<1>2. doctorPc = "done"
  BY <1>1 DEF RunWaits
<1>3. DoctorTypes' /\ RunWaits' /\ FailedBefore' /\ ExitTells'
  BY <1>1, <1>2 DEF DoctorTypes, RunWaits, FailedBefore, ExitTells
<1>4. DoctorForeseesTheRun'
  <2> SUFFICES ASSUME exit.code = 0, NEW part \in failures'
               PROVE  NotForeseen(part)'
    BY <1>1, <1>2 DEF DoctorForeseesTheRun
  <2>1. found.fail = 0 /\ \A p \in failures : NotForeseen(p)
    BY <1>1, <1>2 DEF ExitTells, DoctorForeseesTheRun
  <2>2. CASE part \in failures
    BY <2>1, <2>2
  <2>3. CASE part \notin failures
    <3>1. part = here /\ ~ok
      BY <1>1, <2>3
    <3> QED BY <2>1, <3>1
  <2> QED BY <2>2, <2>3
<1> QED BY <1>3, <1>4 DEF DoctorInv

\* What the run that follows may rely on.
LEMMA RunFacts ==
  ASSUME DoctorInv, runPc # "wait"
  PROVE  /\ doctorPc = "done" /\ env \in Environment
         /\ found.fail = 0 =>
              /\ env.valid /\ env.mode # "other" /\ Ping(env) /\ env.home = "writable"
              /\ runPc # "done" /\ env.output # "none" => Holds(env, ReportDir(env, FALSE))
BY DEF DoctorInv, DoctorTypes, RunWaits, SoundSoFar

\* The run's own steps keep the invariant: its set-up ...
LEMMA SetUpPreserves ==
  ASSUME DoctorInv, SetUp
  PROVE  DoctorInv'
<1>1. PICK client \in BOOLEAN :
        LET ok == env.valid /\ env.mode # "other" /\ ~env.padded /\ env.flags /\ client IN
        /\ Part("setup", IF ok THEN "target" ELSE "done", ok)
        /\ Responds(env) => client
        /\ UNCHANGED env
  BY DEF SetUp
<1> DEFINE ok == env.valid /\ env.mode # "other" /\ ~env.padded /\ env.flags /\ client
           next == IF ok THEN "target" ELSE "done"
<1>2. /\ Part("setup", next, ok) /\ UNCHANGED env
      /\ runPc = "setup" /\ runPc' = next /\ UNCHANGED <<doctorPc, found>>
  BY <1>1 DEF Part
<1>3. SoundSoFar'
  BY <1>2 DEF DoctorInv, SoundSoFar
<1>4. found.fail = 0 /\ ~ok => NotForeseen("setup")'
  <2> SUFFICES ASSUME found.fail = 0, ~ok PROVE NotForeseen("setup")'
    OBVIOUS
  <2>1. env.valid /\ env.mode # "other" /\ Ping(env)
    BY <1>2, RunFacts
  <2>2. client
    BY <1>1, <2>1 DEF Ping, Responds
  <2> QED BY <1>2, <2>1, <2>2 DEF NotForeseen
<1>5. \A part \in failures : NotForeseen(part) => NotForeseen(part)'
  BY <1>2 DEF NotForeseen
<1>6. next \in {"target", "save", "reports", "done"} /\ env' \in Environment /\ ok \in BOOLEAN
  BY <1>2, RunFacts DEF Environment
<1> HIDE DEF ok, next
<1> QED BY <1>2, <1>3, <1>4, <1>5, <1>6, PartPreserves

\* ... its targets ...
LEMMA CreateTargetsPreserves ==
  ASSUME DoctorInv, CreateTargets
  PROVE  DoctorInv'
<1> DEFINE ok == Responds(env) /\ IF Resolved(env) = "docker" THEN env.daemon = "creates"
                                 ELSE env.namespace \in env.creates
<1>1. Part("target", "save", ok) /\ UNCHANGED env
  BY DEF CreateTargets
<1>2. runPc = "target" /\ runPc' = "save" /\ UNCHANGED <<doctorPc, found>>
  BY <1>1 DEF Part
<1>3. SoundSoFar'
  BY <1>1, <1>2 DEF DoctorInv, SoundSoFar
<1>4. found.fail = 0 /\ ~ok => NotForeseen("target")'
  <2> SUFFICES ASSUME found.fail = 0 PROVE NotForeseen("target")'
    OBVIOUS
  <2>1. Ping(env)
    BY <1>2, RunFacts
  <2>2. Responds(env)
    BY <2>1 DEF Ping, Responds
  <2> QED BY <1>1, <2>2 DEF NotForeseen
<1>5. \A part \in failures : NotForeseen(part) => NotForeseen(part)'
  BY <1>1 DEF NotForeseen
<1>6. env \in Environment /\ env' = env
  BY <1>1, <1>2, RunFacts
<1>7. ok \in BOOLEAN
  OBVIOUS
<1> HIDE DEF ok
<1> QED BY <1>1, <1>3, <1>4, <1>5, <1>6, <1>7, PartPreserves

\* ... the saving of its state ...
LEMMA SaveStatePreserves ==
  ASSUME DoctorInv, SaveState
  PROVE  DoctorInv'
<1> DEFINE ok == /\ Saved(env).home = "writable"
                 /\ Saved(env).history \in {"writable", "unlistable"}
                 /\ {"rename", "link", "state"} \subseteq env.allows
<1>1. Part("save", "reports", ok) /\ env' = Saved(env)
  BY DEF SaveState
<1>2. runPc = "save" /\ runPc' = "reports" /\ UNCHANGED <<doctorPc, found>>
  BY <1>1 DEF Part
<1>3. env \in Environment /\ (found.fail = 0 => env.home = "writable")
  BY <1>2, RunFacts
<1>4. /\ env' \in Environment
      /\ env'.home = IF env.home = "absent" THEN "writable" ELSE env.home
      /\ env'.history \in {env.history, "writable"}
      /\ env'.history # env.history => env.history = "absent"
      /\ env'.home = "writable" => env'.history # "absent"
  <2> DEFINE h == IF env.home = "absent" THEN "writable" ELSE env.home
             d == IF env.history = "absent" /\ h = "writable" THEN "writable" ELSE env.history
  <2>1. env' = [env EXCEPT !.home = h, !.history = d]
    BY <1>1 DEF Saved
  <2>2. h \in Directories /\ d \in Directories \cup {"unlistable"}
    BY <1>3 DEF Environment, Directories
  <2>3. env' \in Environment /\ env'.home = h /\ env'.history = d
    <3> HIDE DEF h, d
    <3> QED BY <1>3, <2>1, <2>2 DEF Environment
  <2> QED BY <2>3
<1>5. /\ env'.valid = env.valid /\ env'.padded = env.padded /\ env'.flags = env.flags
      /\ env'.mode = env.mode /\ env'.inCluster = env.inCluster
      /\ env'.daemon = env.daemon /\ env'.api = env.api
      /\ env'.parent = env.parent /\ env'.path = env.path /\ env'.allows = env.allows
      /\ env'.formats = env.formats /\ env'.output = env.output
  BY <1>1, <1>3 DEF Environment, Saved
<1>6. SoundSoFar'
  <2>1. found.fail = 0 => env'.home = env.home
    BY <1>3, <1>4
  <2>2. /\ Ping(env') <=> Ping(env)
        /\ Holds(env', ReportDir(env', FALSE)) <=> Holds(env, ReportDir(env, FALSE))
    BY <1>5 DEF Ping, Responds, Resolved, Holds, ReportDir, reportOutputIsDir, InPath
  <2> QED BY <1>2, <1>5, <2>1, <2>2 DEF DoctorInv, SoundSoFar
<1>7. \A part \in failures : NotForeseen(part) => NotForeseen(part)'
  <2>1. "reports" \notin failures
    BY <1>2 DEF DoctorInv, FailedBefore
  <2>2. env.history \in {"readonly", "blocked"} => env'.history = env.history
    BY <1>4
  <2> QED BY <1>5, <2>1, <2>2 DEF NotForeseen, Responds, Resolved
<1>8. found.fail = 0 /\ ~ok => NotForeseen("save")'
  <2> SUFFICES ASSUME found.fail = 0, ~ok PROVE NotForeseen("save")'
    OBVIOUS
  <2>1. env'.home = "writable"
    BY <1>3, <1>4
  <2>2. CASE ~({"rename", "link", "state"} \subseteq env.allows)
    BY <1>5, <2>2 DEF NotForeseen
  <2>3. CASE env'.history \notin {"writable", "unlistable"}
    <3>1. env'.history \in {"readonly", "blocked"}
      BY <1>4, <2>1, <2>3 DEF Environment, Directories
    <3> QED BY <3>1 DEF NotForeseen
  <2> QED BY <1>1, <2>1, <2>2, <2>3
<1> HIDE DEF ok
<1>9. ok \in BOOLEAN
  BY DEF ok
<1> QED BY <1>1, <1>4, <1>6, <1>7, <1>8, <1>9, PartPreserves

\* The directory that doctor has checked holds the reports, but for the excepted
\* cases.
LEMMA ReportsAreHeld ==
  ASSUME NEW e \in Environment, e.output # "none", Holds(e, ReportDir(e, FALSE)),
         ~Writable(e, ReportDir(e, multiple(e)))
  PROVE  \/ e.path = "lockedFile"
         \/ multiple(e) /\ e.output = "extension" /\ e.path = "file"
<1>1. CASE ReportDir(e, FALSE) = "path"
  <2>1. e.path = "dir" /\ ReportDir(e, multiple(e)) = "path"
    BY <1>1 DEF Holds, ReportDir, reportOutputIsDir
  <2>2. Writable(e, "path")
    BY <2>1 DEF Writable, Mkdir, MkdirPath, InPath, Holds
  <2> QED BY <2>1, <2>2
<1>2. CASE ReportDir(e, FALSE) = "parent"
  <2>1. /\ e.parent = "writable" /\ e.output \notin {"slash", "bare"} /\ ~InPath(e)
    BY <1>2 DEF Holds, ReportDir, reportOutputIsDir
  <2>2. e \in MkdirParent(e)
    <3>1. e = [e EXCEPT !.parent = IF @ = "absent" THEN "writable" ELSE @]
      BY <2>1 DEF Environment
    <3> QED BY <2>1, <3>1 DEF MkdirParent
  <2>3. e.path \in {"absent", "file", "lockedFile"} /\ multiple(e) \in BOOLEAN
    BY <2>1 DEF Environment, InPath, multiple
  <2>4. CASE e.path = "lockedFile"
    BY <2>4
  <2>5. CASE e.path = "absent"
    <3>1. Writable(e, "parent")
      BY <2>1, <2>2, <2>5 DEF Writable, Mkdir, Holds
    <3>2. Writable(e, "path")
      <4>1. [e EXCEPT !.path = "dir"] \in MkdirPath(e)
        BY <2>1, <2>2, <2>5 DEF MkdirPath
      <4>2. [e EXCEPT !.path = "dir"].path = "dir"
        BY DEF Environment
      <4>3. PICK f \in Mkdir(e, "path") : Holds(f, "path")
        BY <4>1, <4>2 DEF Mkdir, Holds
      <4> QED BY <4>3 DEF Writable
    <3> QED BY <2>3, <3>1, <3>2, DirOfReports
  <2>6. CASE e.path = "file"
    <3>1. Writable(e, "parent")
      BY <2>2, <2>6 DEF Writable, Mkdir
    <3>2. CASE multiple(e)
      <4>1. e.output = "extension"
        BY <2>1 DEF Environment
      <4> QED BY <2>6, <3>2, <4>1
    <3>3. CASE ~multiple(e)
      <4>1. ReportDir(e, multiple(e)) = ReportDir(e, FALSE)
        BY <3>3 DEF ReportDir, reportOutputIsDir
      <4> QED BY <1>2, <3>1, <4>1
    <3> QED BY <3>2, <3>3
  <2> QED BY <2>3, <2>4, <2>5, <2>6
<1> QED BY <1>1, <1>2, DirOfReports

\* ... and its reports.
LEMMA WriteReportsPreserves ==
  ASSUME DoctorInv, WriteReports
  PROVE  DoctorInv'
<1> DEFINE dir == ReportDir(env, multiple(env))
           none == env.output = "none" \/ env.formats = {}
           ok == none \/ (Writable(env, dir) /\ Rendered(env))
<1>1. /\ Part("reports", "done", ok)
      /\ env' = IF none THEN env
                ELSE IF dir = "parent" /\ Writable(env, dir)
                     THEN [After(env, dir) EXCEPT !.path = "file"]
                     ELSE After(env, dir)
  BY DEF WriteReports
<1>2. runPc = "reports" /\ runPc' = "done" /\ UNCHANGED <<doctorPc, found>>
  BY <1>1 DEF Part
<1>3. /\ env \in Environment /\ doctorPc = "done"
      /\ found.fail = 0 =>
           /\ env.valid /\ env.mode # "other" /\ Ping(env) /\ env.home = "writable"
           /\ env.output # "none" => Holds(env, ReportDir(env, FALSE))
  BY <1>2, RunFacts
<1>4. dir \in {"path", "parent"} /\ ok \in BOOLEAN
  <2>1. multiple(env) \in BOOLEAN
    BY DEF multiple
  <2> QED BY <1>3, <2>1, DirOfReports
<1> HIDE DEF dir
<1>5. /\ env' \in Environment
      /\ env'.valid = env.valid /\ env'.mode = env.mode /\ env'.home = env.home
      /\ env'.padded = env.padded /\ env'.flags = env.flags /\ env'.inCluster = env.inCluster
      /\ env'.daemon = env.daemon /\ env'.api = env.api
      /\ env'.history = env.history /\ env'.allows = env.allows
      /\ env'.formats = env.formats /\ env'.output = env.output
  <2> DEFINE f == After(env, dir)
  <2>1. /\ f \in Environment /\ f.valid = env.valid /\ f.mode = env.mode /\ f.home = env.home
        /\ f.padded = env.padded /\ f.flags = env.flags /\ f.inCluster = env.inCluster
        /\ f.daemon = env.daemon /\ f.api = env.api
        /\ f.history = env.history /\ f.allows = env.allows
        /\ f.formats = env.formats /\ f.output = env.output
    BY <1>3, <1>4, AfterStays, AfterKeeps
  <2> HIDE DEF f
  <2>2. CASE env' = env
    BY <1>3, <2>2
  <2>3. CASE env' = f
    BY <2>1, <2>3
  <2>4. CASE env' = [f EXCEPT !.path = "file"]
    BY <2>1, <2>4 DEF Environment
  <2> QED BY <1>1, <2>2, <2>3, <2>4 DEF f
<1>6. SoundSoFar'
  <2>1. Ping(env') <=> Ping(env)
    BY <1>5 DEF Ping, Responds, Resolved
  <2> QED BY <1>2, <1>3, <1>5, <2>1 DEF SoundSoFar
<1>7. \A part \in failures : NotForeseen(part) => NotForeseen(part)'
  <2>1. "reports" \notin failures
    BY <1>2 DEF DoctorInv, FailedBefore
  <2> QED BY <1>5, <2>1 DEF NotForeseen, Responds, Resolved
<1>8. found.fail = 0 /\ ~ok => NotForeseen("reports")'
  <2> SUFFICES ASSUME found.fail = 0, ~none, ~Writable(env, dir), Rendered(env)
               PROVE  NotForeseen("reports")'
    <3>1. ~Rendered(env) => NotForeseen("reports")'
      BY <1>5 DEF NotForeseen, Rendered, HistoryOpens
    <3> QED BY <3>1
  <2>1. \/ env.path = "lockedFile"
        \/ multiple(env) /\ env.output = "extension" /\ env.path = "file"
    BY <1>3, ReportsAreHeld DEF dir
  <2>2. env'.path = env.path
    <3>1. env' = After(env, dir)
      BY <1>1
    <3>2. CASE dir = "parent"
      BY <1>3, <1>4, <3>1, <3>2, AfterStays
    <3>3. CASE dir = "path"
      <4>1. ~InPath(env) /\ env.path # "absent"
        BY <2>1 DEF InPath
      <4>2. After(env, dir) = env
        BY <1>3, <1>4, <3>3, <4>1, AfterStays, MkdirMakes DEF Mkdir
      <4> QED BY <3>1, <4>2
    <3> QED BY <1>4, <3>2, <3>3
  <2> QED BY <1>5, <2>1, <2>2 DEF NotForeseen, multiple
<1> HIDE DEF ok
<1> QED BY <1>1, <1>4, <1>5, <1>6, <1>7, <1>8, PartPreserves

\* runDoctor and runCmd, in every set of environments: when doctor ends with
\* exit code 0, the run that follows fails in nothing that doctor looks at.
THEOREM DoctorForesees ==
  DoctorInit /\ [][DoctorNext]_doctor => []DoctorForeseesTheRun
<1>1. DoctorInit => DoctorInv
  BY DEF DoctorInit, DoctorInv, DoctorTypes, RunWaits, FailedBefore, SoundSoFar, ExitTells,
         DoctorForeseesTheRun, Counts
<1>2. DoctorInv /\ [DoctorNext]_doctor => DoctorInv'
  <2> SUFFICES ASSUME DoctorInv, [DoctorNext]_doctor PROVE DoctorInv'
    OBVIOUS
  <2>1. CASE UNCHANGED doctor
    BY <2>1 DEF doctor, DoctorInv, DoctorTypes, RunWaits, FailedBefore, SoundSoFar, ExitTells,
         DoctorForeseesTheRun, NotForeseen, Ping, Responds, Resolved, Holds, ReportDir,
         reportOutputIsDir, InPath
  <2> QED BY <2>1, ChecksPreserve, FinalizePreserves, SetUpPreserves,
        CreateTargetsPreserves, SaveStatePreserves, WriteReportsPreserves DEF DoctorNext
<1>3. DoctorInv => DoctorForeseesTheRun
  BY DEF DoctorInv
<1> QED BY <1>1, <1>2, <1>3, PTL

-----------------------------------------------------------------------------
(* Checks                                                                  *)

\* What Validate may return for a check.
AnswersTo(p, check) ==
  {[actual |-> {}, fault |-> TRUE]}
    \cup (IF Understood(p, check)
          THEN {[actual |-> {a}, fault |-> FALSE] : a \in Actual(p, check)}
          ELSE {[actual |-> {}, fault |-> FALSE]})

\* A check that validateCheck accepts for the provider.
Accepted(p, check) == check \in Check /\ check.type \in supportedCheckTypesByProvider[p]

\* The answers of every provider to every check.
Answers == UNION {AnswersTo(p, check) : p \in DOMAIN Implemented, check \in Check}

\* Only accepted checks are on the list.
ListInv ==
  /\ provider \in DOMAIN Implemented \cup {"none"}
  /\ checks \in Seq(Check)
  /\ provider = "none" => checks = <<>>
  /\ \A i \in DOMAIN checks : Accepted(provider, checks[i])

\* Every answer is one of the provider's to its check.
AnswersInv ==
  /\ answers \in Seq(Answers)
  /\ Len(answers) <= Len(checks)
  /\ \A i \in DOMAIN answers : answers[i] \in AnswersTo(provider, checks[i])

\* Every answer is judged by its check.
PassedInv ==
  /\ passed \in Seq(BOOLEAN)
  /\ Len(passed) <= Len(checks)
  /\ Len(passed) > 0 => Len(answers) = Len(checks)
  /\ \A i \in DOMAIN passed : passed[i] <=> Passes(checks[i], answers[i])

\* The verdict is the conjunction of the judgements.
VerdictInv ==
  /\ provider = "none" => verdict = "none"
  /\ verdict # "none" => Len(answers) = Len(checks) /\ Len(passed) = Len(checks)
  /\ verdict = "passed" => \A i \in DOMAIN passed : passed[i]
  /\ verdict = "failed" => \E i \in DOMAIN passed : ~passed[i]

\* The inductive invariant.
ChecksInv == ListInv /\ AnswersInv /\ PassedInv /\ VerdictInv

\* The listing of etcdctl has as many keys as lines that are not empty.
LEMMA KeysAreCounted ==
  ASSUME NEW n \in Nat
  PROVE  keyCount(Listing(n)) = n
<1> DEFINE odd == {i \in 1..(2 * n) : i % 2 = 1}
           place == [k \in 1..n |-> 2 * k - 1]
<1>1. DOMAIN Listing(n) = 1..(2 * n) /\ {i \in DOMAIN Listing(n) : Listing(n)[i] # ""} = odd
  BY DEF Listing
<1>2. place \in Bijection(1..n, odd)
  <2>1. \A k \in 1..n : place[k] \in odd
    <3> SUFFICES ASSUME NEW k \in 1..n PROVE 2 * k - 1 \in odd
      OBVIOUS
    <3>1. 2 * k - 1 \in 1..(2 * n)
      OBVIOUS
    <3>2. (2 * k - 1) % 2 = 1
      <4>1. 2 * k - 1 = 2 * (k - 1) + 1 /\ k - 1 \in Nat
        OBVIOUS
      <4> QED BY <4>1
    <3> QED BY <3>1, <3>2
  <2>2. \A i, j \in 1..n : place[i] = place[j] => i = j
    OBVIOUS
  <2>3. \A i \in odd : \E k \in 1..n : place[k] = i
    <3> SUFFICES ASSUME NEW i \in odd PROVE \E k \in 1..n : 2 * k - 1 = i
      OBVIOUS
    <3>1. i \in 1..(2 * n) /\ i % 2 = 1 /\ i = 2 * (i \div 2) + (i % 2) /\ i \div 2 \in Nat
      OBVIOUS
    <3>2. i \div 2 + 1 \in 1..n /\ 2 * (i \div 2 + 1) - 1 = i
      BY <3>1
    <3> QED BY <3>2
  <2> QED BY <2>1, <2>2, <2>3 DEF Bijection, Injection, Surjection, IsInjective
<1>3. Cardinality(odd) = n
  <2> HIDE DEF odd, place
  <2>1. ExistsBijection(1..n, odd)
    BY <1>2 DEF ExistsBijection
  <2> QED BY <2>1, FS_CountingElements
<1> QED BY <1>1, <1>3 DEF keyCount

\* What the providers read from a client is what the target holds.
LEMMA ActualIsHeld ==
  ASSUME NEW p \in DOMAIN Implemented, NEW check \in Check, NEW a \in Actual(p, check)
  PROVE  a = Held(check)
<1>1. CASE check.type = "key_sample"
  BY <1>1 DEF Actual, Held
<1>2. CASE check.type = "key_count" /\ p = "redis"
  <2>1. PICK text \in Labelled[check.keys] : a = extractDBSize(text)
    BY <1>2 DEF Actual
  <2>2. extractDBSize(text) = Numeral[check.keys]
    BY ChecksAssumption DEF extractDBSize, Check
  <2> QED BY <1>2, <2>1, <2>2 DEF Held
<1>3. CASE check.type = "key_count" /\ p # "redis"
  <2>1. a = Numeral[keyCount(Listing(check.keys))]
    BY <1>3 DEF Actual
  <2>2. check.keys \in Nat
    BY ChecksAssumption DEF Check
  <2> QED BY <1>3, <2>1, <2>2, KeysAreCounted DEF Held
<1>4. CASE check.type \notin {"key_sample", "key_count"}
  BY <1>4 DEF Actual, Held
<1> QED BY <1>1, <1>2, <1>3, <1>4

\* No expectation can be read in two ways.
LEMMA SyntaxOf ==
  ASSUME NEW expect \in DOMAIN Syntax, NEW x, x = Syntax[expect]
  PROVE  /\ x.text \in {"true", "false", "exists"} => x.begins = "" /\ x.compare = {}
         /\ x.age # {} => x.begins = "age"
         /\ \A a \in x.age : a.amount \in Nat /\ a.unit \in DOMAIN UnitOf
         /\ x.contains # {} => x.begins = "contains "
         /\ \A s, t \in x.contains : s = t
         /\ x.compare # {} => x.begins = ""
BY SyntaxAssumption

\* A threshold that a time.Duration holds is the one that was written.
LEMMA ThresholdFits ==
  ASSUME NEW a, a.amount \in Nat, a.unit \in DOMAIN UnitOf,
         a.amount * UnitOf[a.unit] <= MaxInt
  PROVE  Threshold(a) = a.amount * UnitOf[a.unit]
<1> DEFINE m == a.amount
           u == UnitOf[a.unit]
           n == m * u
<1>1. MaxInt \in Nat /\ u \in Nat \ {0} /\ m \in Nat
  BY ChecksAssumption
<1> HIDE DEF m, u
<1>2. n \in Nat /\ m <= n
  BY <1>1
<1>3. n <= MaxInt
  BY DEF m, u
<1>4. ~(m > MaxInt)
  <2> HIDE DEF n
  <2> QED BY <1>1, <1>2, <1>3
<1>5. Threshold(a) = Wrap(n)
  BY <1>4 DEF Threshold, m, u
<1> HIDE DEF n
<1>6. Wrap(n) = n
  <2> DEFINE b == 2 * (MaxInt + 1)
  <2>1. b \in Nat /\ b > 0 /\ n + MaxInt + 1 \in Nat /\ n + MaxInt + 1 < b
    BY <1>1, <1>2, <1>3
  <2>2. (n + MaxInt + 1) % b = n + MaxInt + 1
    BY <2>1
  <2> QED BY <1>1, <1>2, <2>2 DEF Wrap
<1> QED BY <1>5, <1>6 DEF n, m, u

\* EvalExpression finds nothing but what an expectation means.
LEMMA EvalIsMeant ==
  ASSUME NEW check \in Check, EvalExpression(check.expect, Held(check)), ~Overflows(check)
  PROVE  Means(check)
<1> DEFINE x == Syntax[check.expect]
           held == Held(check)
<1>1. /\ x.age # {} => x.begins = "age"
      /\ \A a \in x.age : a.amount \in Nat /\ a.unit \in DOMAIN UnitOf
      /\ x.contains # {} => x.begins = "contains "
  <2>1. check.expect \in DOMAIN Syntax
    BY DEF Check
  <2> QED BY <2>1, SyntaxOf
<1>2. CASE x.text \in {"true", "exists"}
  BY <1>2 DEF EvalExpression, Means
<1>3. CASE x.text = "false"
  BY <1>3 DEF EvalExpression, Means
<1>4. CASE x.text \notin {"true", "exists", "false"} /\ x.begins = "age"
  <2>1. evalAge(x, held)
    BY <1>4 DEF EvalExpression
  <2>2. PICK a \in x.age, age \in Reading[held].age : Compare(a.op, age, Threshold(a))
    BY <2>1 DEF evalAge
  <2>3. /\ ~(a.amount * UnitOf[a.unit] > MaxInt)
        /\ a.amount \in Nat /\ UnitOf[a.unit] \in Nat /\ MaxInt \in Nat /\ a.unit \in DOMAIN UnitOf
    BY <1>1, ChecksAssumption DEF Overflows
  <2>4. a.amount * UnitOf[a.unit] \in Nat
    BY <2>3, Products
  <2>5. Threshold(a) = a.amount * UnitOf[a.unit]
    <3>1. a.amount * UnitOf[a.unit] <= MaxInt
      BY <2>3, <2>4
    <3> QED BY <2>3, <3>1, ThresholdFits
  <2>6. Compare(a.op, age, a.amount * UnitOf[a.unit])
    BY <2>2, <2>5
  <2> QED BY <2>6 DEF Means
<1>5. CASE x.text \notin {"true", "exists", "false"} /\ x.begins = "contains "
  <2>1. evalContains(x, held)
    BY <1>5 DEF EvalExpression
  <2> QED BY <2>1 DEF evalContains, Means
<1>6. CASE /\ x.text \notin {"true", "exists", "false"} /\ x.begins \notin {"age", "contains "}
           /\ x.compare # {}
  <2>1. evalNumericComparison(x, held)
    BY <1>6 DEF EvalExpression
  <2> QED BY <2>1 DEF evalNumericComparison, Means
<1>7. CASE /\ x.text \notin {"true", "exists", "false"} /\ x.begins \notin {"age", "contains "}
           /\ x.compare = {}
  <2>1. x.age = {} /\ x.contains = {} /\ ~(\E c \in x.compare : c.value # {})
    BY <1>1, <1>7
  <2>2. IF x.comma THEN evalListContains(x, held) ELSE x.text = held
    BY <1>7 DEF EvalExpression
  <2> QED BY <1>7, <2>1, <2>2 DEF evalListContains, Means
<1> QED BY <1>2, <1>3, <1>4, <1>5, <1>6, <1>7

\* And all that it means, unless the expectation is misread.
LEMMA MeantIsEval ==
  ASSUME NEW check \in Check, Means(check), ~Overflows(check), ~Misread(check)
  PROVE  EvalExpression(check.expect, Held(check))
<1> DEFINE x == Syntax[check.expect]
           held == Held(check)
           form == x.text \in {"true", "false", "exists"} \/ x.age # {} \/ x.contains # {}
                     \/ \E c \in x.compare : c.value # {}
<1>1. /\ x.text \in {"true", "false", "exists"} => x.begins = "" /\ x.compare = {}
      /\ x.age # {} => x.begins = "age"
      /\ \A a \in x.age : a.amount \in Nat /\ a.unit \in DOMAIN UnitOf
      /\ x.contains # {} => x.begins = "contains "
      /\ \A s, t \in x.contains : s = t
      /\ x.compare # {} => x.begins = ""
  <2>1. check.expect \in DOMAIN Syntax
    BY DEF Check
  <2> QED BY <2>1, SyntaxOf
<1>2. /\ x.begins = "age" => x.age # {}
      /\ x.begins = "contains " => x.contains # {}
      /\ \A c \in x.compare : c.value # {}
  BY DEF Misread
<1>3. CASE x.text \in {"true", "exists"} /\ isTruthy(held)
  BY <1>3 DEF EvalExpression
<1>4. CASE x.text = "false" /\ held \in {"false", "0", "f"}
  BY <1>4 DEF EvalExpression
<1>5. CASE \E a \in x.age, age \in Reading[held].age :
             Compare(a.op, age, a.amount * UnitOf[a.unit])
  <2>1. PICK a \in x.age, age \in Reading[held].age :
          Compare(a.op, age, a.amount * UnitOf[a.unit])
    BY <1>5
  <2>2. /\ ~(a.amount * UnitOf[a.unit] > MaxInt)
        /\ a.amount \in Nat /\ UnitOf[a.unit] \in Nat /\ MaxInt \in Nat /\ a.unit \in DOMAIN UnitOf
    BY <1>1, ChecksAssumption DEF Overflows
  <2>3. a.amount * UnitOf[a.unit] \in Nat
    BY <2>2, Products
  <2>4. Threshold(a) = a.amount * UnitOf[a.unit]
    <3>1. a.amount * UnitOf[a.unit] <= MaxInt
      BY <2>2, <2>3
    <3> QED BY <2>2, <3>1, ThresholdFits
  <2>5. evalAge(x, held)
    <3>1. Compare(a.op, age, Threshold(a))
      BY <2>1, <2>4
    <3> QED BY <3>1 DEF evalAge
  <2>6. x.begins = "age" /\ x.text \notin {"true", "false", "exists"}
    BY <1>1
  <2> QED BY <2>5, <2>6 DEF EvalExpression
<1>6. CASE \E t \in x.contains : t \in Reading[held].inside
  <2>1. x.begins = "contains " /\ x.text \notin {"true", "false", "exists"}
    BY <1>1, <1>6
  <2>2. evalContains(x, held)
    BY <1>1, <1>6 DEF evalContains
  <2> QED BY <2>1, <2>2 DEF EvalExpression
<1>7. CASE \E c \in x.compare : \E n \in c.value, m \in Reading[held].number : Compare(c.op, m, n)
  <2>1. /\ x.begins = "" /\ x.text \notin {"true", "false", "exists"} /\ x.compare # {}
    BY <1>1, <1>7
  <2>2. evalNumericComparison(x, held)
    BY <1>7 DEF evalNumericComparison
  <2> QED BY <2>1, <2>2 DEF EvalExpression
<1>8. CASE ~form /\ x.comma /\ \A item \in x.items : item \in Reading[held].items
  <2>1. /\ x.text \notin {"true", "false", "exists"} /\ x.begins \notin {"age", "contains "}
        /\ x.compare = {}
    BY <1>2, <1>8
  <2>2. evalListContains(x, held)
    BY <1>8 DEF evalListContains
  <2> QED BY <1>8, <2>1, <2>2 DEF EvalExpression
<1>9. CASE ~form /\ ~x.comma /\ x.text = held
  <2>1. /\ x.text \notin {"true", "false", "exists"} /\ x.begins \notin {"age", "contains "}
        /\ x.compare = {}
    BY <1>2, <1>9
  <2> QED BY <1>9, <2>1 DEF EvalExpression
<1> QED BY <1>3, <1>4, <1>5, <1>6, <1>7, <1>8, <1>9 DEF Means

-----------------------------------------------------------------------------
\* Every type of check that the loader accepts is one that its provider knows.
LEMMA SupportedAreImplemented ==
  ASSUME NEW p \in DOMAIN Implemented
  PROVE  supportedCheckTypesByProvider[p] \subseteq Implemented[p]
BY DEF Implemented, supportedCheckTypesByProvider

\* An answer is a fault, the blank row of a query, or what the check's object holds.
LEMMA AnswerTold ==
  ASSUME NEW p \in DOMAIN Implemented, NEW check, Accepted(p, check),
         NEW answer \in AnswersTo(p, check)
  PROVE  \/ answer.fault /\ answer.actual = {}
         \/ /\ ~answer.fault /\ answer.actual = {}
            /\ check.type = "query" /\ check.blank
         \/ ~answer.fault /\ answer.actual = {Held(check)}
<1>1. check \in Check /\ check.type \in Implemented[p]
  BY SupportedAreImplemented DEF Accepted
<1>2. CASE answer = [actual |-> {}, fault |-> TRUE]
  BY <1>2
<1>3. CASE ~Understood(p, check) /\ answer = [actual |-> {}, fault |-> FALSE]
  BY <1>1, <1>3 DEF Understood
<1>4. ASSUME NEW a \in Actual(p, check), answer = [actual |-> {a}, fault |-> FALSE]
      PROVE  ~answer.fault /\ answer.actual = {Held(check)}
  BY <1>1, <1>4, ActualIsHeld
<1> QED BY <1>2, <1>3, <1>4 DEF AnswersTo

\* A check that passes is earned.
LEMMA PassIsMeant ==
  ASSUME NEW p \in DOMAIN Implemented, NEW check, Accepted(p, check),
         NEW answer \in AnswersTo(p, check), Passes(check, answer)
  PROVE  ~answer.fault /\ (Means(check) \/ Overflows(check))
<1>1. ~answer.fault /\ answer.actual = {Held(check)}
  BY AnswerTold DEF Passes
<1>2. EvalExpression(check.expect, Held(check))
  BY <1>1 DEF Passes
<1> QED BY <1>1, <1>2, EvalIsMeant DEF Accepted

\* One that does not pass is lost.
LEMMA FailIsLost ==
  ASSUME NEW p \in DOMAIN Implemented, NEW check, Accepted(p, check),
         NEW answer \in AnswersTo(p, check), ~Passes(check, answer)
  PROVE  \/ answer.fault \/ ~Means(check) \/ Overflows(check) \/ Misread(check)
         \/ check.type = "query" /\ check.blank
<1>1. CASE answer.actual = {Held(check)}
  <2>1. ~EvalExpression(check.expect, Held(check))
    BY <1>1 DEF Passes
  <2> QED BY <2>1, MeantIsEval DEF Accepted
<1>2. CASE answer.actual # {Held(check)}
  BY <1>2, AnswerTold
<1> QED BY <1>1, <1>2

\* The invariant implies the property.
LEMMA ChecksInvSuffices == ChecksInv => VerdictIsTheMeaning
<1> SUFFICES ASSUME ChecksInv PROVE VerdictIsTheMeaning
  OBVIOUS
<1>1. ASSUME verdict # "none"
      PROVE  /\ provider \in DOMAIN Implemented
             /\ DOMAIN passed = DOMAIN checks /\ DOMAIN answers = DOMAIN checks
             /\ \A i \in DOMAIN checks :
                  /\ Accepted(provider, checks[i])
                  /\ answers[i] \in AnswersTo(provider, checks[i])
                  /\ passed[i] <=> Passes(checks[i], answers[i])
  <2>1. provider \in DOMAIN Implemented /\ Len(answers) = Len(checks) /\ Len(passed) = Len(checks)
    BY <1>1 DEF ChecksInv, ListInv, VerdictInv
  <2>2. answers \in Seq(Answers) /\ passed \in Seq(BOOLEAN) /\ checks \in Seq(Check)
    BY DEF ChecksInv, ListInv, AnswersInv, PassedInv
  <2>3. DOMAIN passed = DOMAIN checks /\ DOMAIN answers = DOMAIN checks
    BY <2>1, <2>2
  <2> QED BY <2>1, <2>3 DEF ChecksInv, ListInv, AnswersInv, PassedInv
<1>2. CASE verdict = "passed"
  <2>1. \A i \in DOMAIN checks : Passes(checks[i], answers[i])
    BY <1>1, <1>2 DEF ChecksInv, VerdictInv
  <2>2. \A i \in DOMAIN checks : ~answers[i].fault /\ (Means(checks[i]) \/ Overflows(checks[i]))
    BY <1>1, <1>2, <2>1, PassIsMeant
  <2> QED BY <1>2, <2>2 DEF VerdictIsTheMeaning
<1>3. CASE verdict = "failed"
  <2>1. PICK i \in DOMAIN checks : ~Passes(checks[i], answers[i])
    BY <1>1, <1>3 DEF ChecksInv, VerdictInv
  <2>2. \/ answers[i].fault \/ ~Means(checks[i]) \/ Overflows(checks[i]) \/ Misread(checks[i])
        \/ checks[i].type = "query" /\ checks[i].blank
    BY <1>1, <1>3, <2>1, FailIsLost
  <2> QED BY <1>3, <2>2 DEF VerdictIsTheMeaning
<1>4. CASE verdict \notin {"passed", "failed"}
  BY <1>4 DEF VerdictIsTheMeaning
<1> QED BY <1>2, <1>3, <1>4

-----------------------------------------------------------------------------
\* The steps of a list of checks keep the invariant: its start ...
LEMMA StartChecksPreserves ==
  ASSUME ChecksInv, StartChecks
  PROVE  ChecksInv'
<1>1. /\ provider = "none" /\ provider' \in DOMAIN Implemented /\ checks' \in CheckLists
      /\ \A i \in DOMAIN checks' : checks'[i].type \in supportedCheckTypesByProvider[provider']
      /\ UNCHANGED <<answers, passed, verdict>>
  BY DEF StartChecks
<1>2. checks' \in Seq(Check)
  BY <1>1, ChecksAssumption
<1>3. ListInv'
  <2>1. \A i \in DOMAIN checks' : Accepted(provider', checks'[i])
    BY <1>1, <1>2 DEF Accepted
  <2>2. provider' # "none"
    BY <1>1 DEF Implemented
  <2> QED BY <1>1, <1>2, <2>1, <2>2 DEF ListInv
<1>4. /\ answers \in Seq(Answers) /\ passed \in Seq(BOOLEAN)
      /\ Len(answers) = 0 /\ Len(passed) = 0 /\ verdict = "none"
  <2>1. answers \in Seq(Answers) /\ passed \in Seq(BOOLEAN) /\ verdict = "none" /\ checks = <<>>
    BY <1>1 DEF ChecksInv, ListInv, AnswersInv, PassedInv, VerdictInv
  <2>2. Len(answers) <= 0 /\ Len(passed) <= 0
    BY <2>1 DEF ChecksInv, AnswersInv, PassedInv
  <2> QED BY <2>1, <2>2
<1>5. DOMAIN answers = {} /\ DOMAIN passed = {} /\ Len(checks') \in Nat
  BY <1>2, <1>4
<1>6. AnswersInv'
  BY <1>1, <1>4, <1>5 DEF AnswersInv
<1>7. PassedInv'
  BY <1>1, <1>4, <1>5 DEF PassedInv
<1>8. VerdictInv'
  BY <1>1, <1>4 DEF VerdictInv
<1> QED BY <1>3, <1>6, <1>7, <1>8 DEF ChecksInv

\* ... the answer to a check ...
LEMMA ValidateCheckPreserves ==
  ASSUME ChecksInv, ValidateCheck
  PROVE  ChecksInv'
<1> DEFINE n == Len(answers) + 1
           check == checks[n]
<1>1. /\ Len(answers) < Len(checks) /\ UNCHANGED <<provider, checks, passed, verdict>>
      /\ ListInv /\ AnswersInv /\ PassedInv /\ VerdictInv
      /\ checks \in Seq(Check) /\ answers \in Seq(Answers) /\ passed \in Seq(BOOLEAN)
  BY DEF ValidateCheck, ChecksInv, ListInv, AnswersInv, PassedInv
<1>2. n \in DOMAIN checks /\ n \in Nat /\ Len(checks) \in Nat
  BY <1>1
<1>3. Accepted(provider, check) /\ provider \in DOMAIN Implemented
  <2>1. checks # <<>>
    BY <1>2
  <2> QED BY <1>1, <1>2, <2>1 DEF ListInv
<1>4. PICK answer \in AnswersTo(provider, check) : answers' = Append(answers, answer)
  BY DEF ValidateCheck, AnswersTo
<1> HIDE DEF check
<1>5. answer \in Answers
  BY <1>3, <1>4 DEF Answers, Accepted
<1>6. /\ answers' \in Seq(Answers) /\ Len(answers') = n
      /\ \A i \in DOMAIN answers : answers'[i] = answers[i]
      /\ answers'[n] = answer /\ DOMAIN answers' = DOMAIN answers \cup {n}
  BY <1>1, <1>4, <1>5
<1>7. AnswersInv'
  BY <1>1, <1>2, <1>6 DEF AnswersInv, check
<1>8. Len(passed) = 0 /\ verdict = "none" /\ DOMAIN passed = {}
  <2>1. verdict = "none"
    BY <1>1, <1>2 DEF VerdictInv
  <2>2. ~(Len(passed) > 0) /\ Len(passed) \in Nat
    BY <1>1, <1>2 DEF PassedInv
  <2>3. Len(passed) = 0
    BY <2>2
  <2> QED BY <1>1, <2>1, <2>3
<1>9. PassedInv' /\ VerdictInv' /\ ListInv'
  <2>1. PassedInv'
    BY <1>1, <1>2, <1>8 DEF PassedInv
  <2>2. VerdictInv'
    BY <1>1, <1>8 DEF VerdictInv
  <2>3. ListInv'
    BY <1>1 DEF ListInv
  <2> QED BY <2>1, <2>2, <2>3
<1> QED BY <1>7, <1>9 DEF ChecksInv

\* ... its judgement ...
LEMMA EvaluateCheckPreserves ==
  ASSUME ChecksInv, EvaluateCheck
  PROVE  ChecksInv'
<1> DEFINE n == Len(passed) + 1
           verdictOf == Passes(checks[n], answers[n])
<1>1. /\ Len(answers) = Len(checks) /\ Len(passed) < Len(checks)
      /\ UNCHANGED <<provider, checks, answers, verdict>>
      /\ ListInv /\ AnswersInv /\ PassedInv /\ VerdictInv
      /\ checks \in Seq(Check) /\ answers \in Seq(Answers) /\ passed \in Seq(BOOLEAN)
      /\ passed' = Append(passed, verdictOf)
  BY DEF EvaluateCheck, ChecksInv, ListInv, AnswersInv, PassedInv
<1>2. verdictOf \in BOOLEAN
  BY DEF Passes
<1> HIDE DEF verdictOf
<1>3. /\ passed' \in Seq(BOOLEAN) /\ Len(passed') = n /\ n \in Nat /\ Len(checks) \in Nat
      /\ \A i \in DOMAIN passed : passed'[i] = passed[i]
      /\ passed'[n] = verdictOf /\ DOMAIN passed' = DOMAIN passed \cup {n}
  BY <1>1, <1>2
<1>4. PassedInv'
  <2>1. Len(passed') <= Len(checks)
    BY <1>1, <1>3
  <2>2. \A i \in DOMAIN passed' : passed'[i] <=> Passes(checks[i], answers[i])
    <3> SUFFICES ASSUME NEW i \in DOMAIN passed' PROVE passed'[i] <=> Passes(checks[i], answers[i])
      OBVIOUS
    <3>1. CASE i \in DOMAIN passed
      BY <1>1, <1>3, <3>1 DEF PassedInv
    <3>2. CASE i = n
      BY <1>3, <3>2 DEF verdictOf
    <3> QED BY <1>3, <3>1, <3>2
  <2> QED BY <1>1, <1>3, <2>1, <2>2 DEF PassedInv
<1>5. verdict = "none"
  BY <1>1, <1>3 DEF VerdictInv
<1>6. ListInv' /\ AnswersInv' /\ VerdictInv'
  BY <1>1, <1>5 DEF ListInv, AnswersInv, VerdictInv
<1> QED BY <1>4, <1>6 DEF ChecksInv

\* ... and the verdict.
LEMMA GiveVerdictPreserves ==
  ASSUME ChecksInv, GiveVerdict
  PROVE  ChecksInv'
<1>1. ListInv' /\ AnswersInv' /\ PassedInv'
  BY DEF ChecksInv, GiveVerdict, ListInv, AnswersInv, PassedInv
<1>2. VerdictInv'
  BY DEF GiveVerdict, VerdictInv
<1> QED BY <1>1, <1>2 DEF ChecksInv

\* executeDrill, for all lists of checks, every data that a target may hold and
\* whatever the clients print: a drill passes exactly when the restored data is
\* what the expectations say, but for the exceptions that VerdictIsTheMeaning names.
THEOREM VerdictsAreMeant ==
  ChecksInit /\ [][ChecksNext]_drillChecks => []VerdictIsTheMeaning
<1>1. ChecksInit => ChecksInv
  <2> SUFFICES ASSUME ChecksInit PROVE ChecksInv
    OBVIOUS
  <2> USE DEF ChecksInit
  <2>1. ListInv
    BY DEF ListInv
  <2>2. AnswersInv
    BY DEF AnswersInv
  <2>3. PassedInv
    BY DEF PassedInv
  <2>4. VerdictInv
    BY DEF VerdictInv
  <2> QED BY <2>1, <2>2, <2>3, <2>4 DEF ChecksInv
<1>2. ChecksInv /\ [ChecksNext]_drillChecks => ChecksInv'
  <2> SUFFICES ASSUME ChecksInv, [ChecksNext]_drillChecks PROVE ChecksInv'
    OBVIOUS
  <2>1. CASE UNCHANGED drillChecks
    BY <2>1 DEF drillChecks, ChecksInv, ListInv, AnswersInv, PassedInv, VerdictInv
  <2> QED BY <2>1, StartChecksPreserves, ValidateCheckPreserves, EvaluateCheckPreserves,
        GiveVerdictPreserves DEF ChecksNext
<1> QED BY <1>1, <1>2, ChecksInvSuffices, PTL

-----------------------------------------------------------------------------
(* The commands together                                                   *)

\* A command does its own work and leaves that of the others alone.
LEMMA EachCommandIsItself ==
  CommandsSpec => /\ ConfigurationInit /\ [][ConfigurationNext]_configuration
                  /\ LimitsSpec
                  /\ DoctorInit /\ [][DoctorNext]_doctor
                  /\ ChecksInit /\ [][ChecksNext]_drillChecks
<1>1. [CommandsNext]_commands =>
        [ConfigurationNext]_configuration /\ [LimitsNext]_limits /\ [DoctorNext]_doctor /\ [ChecksNext]_drillChecks
  BY DEF CommandsNext, commands
<1>2. CommandsInit => ConfigurationInit /\ LimitsInit /\ DoctorInit /\ ChecksInit
  BY DEF CommandsInit
<1> QED BY <1>1, <1>2, PTL DEF CommandsSpec, LimitsSpec

\* In the specification that puts the commands together: the parser's lines are
\* told as those of the file, as SourceLinesFollowTheFile says of interpolateEnv.
THEOREM CommandsFollowTheFile == CommandsSpec => []SourceLinesFollowTheFile
BY EachCommandIsItself, LinesFollowTheFile, PTL

\* There as well, an error shows the value that the decoder gave the field.
THEOREM CommandsShowTheValue == CommandsSpec => []ErrorShowsTheValue
BY EachCommandIsItself, ErrorsShowTheValue, PTL

\* There as well, a target gets the limits that the configuration asks for.
THEOREM CommandsKeepLimits == CommandsSpec => []LimitsAreKept
BY EachCommandIsItself, LimitsFollowTheConfiguration, PTL

\* There as well, what doctor passes does not fail in the run.
THEOREM CommandsForesee == CommandsSpec => []DoctorForeseesTheRun
BY EachCommandIsItself, DoctorForesees, PTL

\* There as well, the verdict of a drill is what its expectations mean.
THEOREM CommandsMean == CommandsSpec => []VerdictIsTheMeaning
BY EachCommandIsItself, VerdictsAreMeant, PTL
=============================================================================
