------------------------ MODULE ArtifactPathsProofs ------------------------
(* What the two checks let through, for paths and roots of any length.      *)
(*                                                                          *)
(* Clean goes through a path element by element, so what it leaves is found *)
(* by induction.  The induction theorems of the library quantify over a     *)
(* predicate; SetInduction says the same of a set of numbers.               *)
EXTENDS ArtifactPaths, SequenceTheorems, FiniteSetTheorems, TLAPS

LEMMA LeastNumber ==
    ASSUME NEW S, S \subseteq Nat, S # {}
    PROVE  \E m \in S : \A n \in S : m <= n
  <1> DEFINE Less == OpToRel(<, Nat)
  <1>1. IsWellFoundedOn(Less, Nat)
    BY NatLessThanWellFounded
  <1>2. \A x, y \in Nat : x < y => <<x, y>> \in Less
    BY DEF OpToRel
  <1> HIDE DEF Less
  <1>3. PICK m \in S : \A n \in S : ~(<<n, m>> \in Less)
    BY <1>1, WFMin
  <1>4. \A n \in S : ~(n < m)
    BY <1>2, <1>3
  <1> QED
    BY <1>3, <1>4

LEMMA SetInduction ==
    ASSUME NEW S, 0 \in S, \A n \in Nat : n \in S => n + 1 \in S
    PROVE  Nat \subseteq S
  <1> SUFFICES ASSUME Nat \ S # {} PROVE FALSE
    OBVIOUS
  <1>1. PICK m \in Nat \ S : \A n \in Nat \ S : m <= n
    BY LeastNumber
  <1>2. m # 0 /\ m - 1 \in Nat /\ m - 1 \in S
    BY <1>1
  <1> QED
    BY <1>1, <1>2

-----------------------------------------------------------------------------
(* What Clean computes.                                                     *)

\* The recursion has a solution, and CleanedUpTo is one.
IsCleanedUpTo(cleaned, abs, parts, n) ==
    cleaned = [i \in 0..n |->
                  IF i = 0 THEN <<>>
                  ELSE CleanElement(abs, cleaned[i - 1], parts[i])]

LEMMA CleaningGoesOn ==
    ASSUME NEW abs, NEW parts, NEW n \in Nat
    PROVE  \E cleaned : IsCleanedUpTo(cleaned, abs, parts, n)
  <1> DEFINE S == {m \in Nat :
                      \E cleaned : IsCleanedUpTo(cleaned, abs, parts, m)}
  <1>1. 0 \in S
    <2> DEFINE g == [i \in 0..0 |-> <<>>]
    <2>1. IsCleanedUpTo(g, abs, parts, 0)
      BY DEF IsCleanedUpTo
    <2> QED
      BY <2>1
  <1>2. ASSUME NEW m \in Nat, m \in S PROVE m + 1 \in S
    <2>1. PICK g : IsCleanedUpTo(g, abs, parts, m)
      BY <1>2
    <2> DEFINE h == [i \in 0..(m + 1) |->
                        IF i = m + 1 THEN CleanElement(abs, g[m], parts[m + 1])
                        ELSE g[i]]
    <2>2. \A i \in 0..m : h[i] = g[i]
      OBVIOUS
    <2>3. \A i \in 0..m : h[i] = IF i = 0 THEN <<>>
                                 ELSE CleanElement(abs, h[i - 1], parts[i])
      <3>1. \A i \in 0..m : g[i] = IF i = 0 THEN <<>>
                                   ELSE CleanElement(abs, g[i - 1], parts[i])
        BY <2>1 DEF IsCleanedUpTo
      <3>2. \A i \in 0..m : i # 0 => i - 1 \in 0..m
        OBVIOUS
      <3> HIDE DEF h
      <3> QED
        BY <2>2, <3>1, <3>2
    <2>4. h[m + 1] = CleanElement(abs, h[m], parts[m + 1])
      OBVIOUS
    <2>5. h = [i \in 0..(m + 1) |-> h[i]]
      OBVIOUS
    <2> HIDE DEF h
    <2>6. \A i \in 0..(m + 1) :
             h[i] = IF i = 0 THEN <<>>
                    ELSE CleanElement(abs, h[i - 1], parts[i])
      <3> SUFFICES ASSUME NEW i \in 0..(m + 1)
                   PROVE  h[i] = IF i = 0 THEN <<>>
                                 ELSE CleanElement(abs, h[i - 1], parts[i])
        OBVIOUS
      <3>1. CASE i \in 0..m
        BY <2>3, <3>1
      <3>2. CASE i = m + 1
        <4>1. i # 0 /\ i - 1 = m
          BY <3>2
        <4> QED
          BY <2>4, <3>2, <4>1
      <3> QED
        BY <3>1, <3>2
    <2>7. IsCleanedUpTo(h, abs, parts, m + 1)
      BY <2>5, <2>6 DEF IsCleanedUpTo
    <2> QED
      BY <2>7
  <1> HIDE DEF S
  <1>3. n \in S
    BY <1>1, <1>2, SetInduction
  <1> QED
    BY <1>3 DEF S

LEMMA CleanedUpToDef ==
    ASSUME NEW abs, NEW parts \in Seq(Elements)
    PROVE  LET cleaned == CleanedUpTo(abs, parts) IN
           /\ cleaned[0] = <<>>
           /\ \A n \in 1..Len(parts) :
                 cleaned[n] = CleanElement(abs, cleaned[n - 1], parts[n])
  <1> DEFINE cleaned == CleanedUpTo(abs, parts)
  <1>1. Len(parts) \in Nat
    OBVIOUS
  <1>2. PICK g : IsCleanedUpTo(g, abs, parts, Len(parts))
    BY <1>1, CleaningGoesOn
  <1>3. cleaned = CHOOSE f : IsCleanedUpTo(f, abs, parts, Len(parts))
    BY DEF CleanedUpTo, IsCleanedUpTo
  <1>4. IsCleanedUpTo(cleaned, abs, parts, Len(parts))
    BY <1>2, <1>3
  <1> HIDE DEF cleaned
  <1>5. \A i \in 0..Len(parts) :
           cleaned[i] = IF i = 0 THEN <<>>
                        ELSE CleanElement(abs, cleaned[i - 1], parts[i])
    BY <1>4 DEF IsCleanedUpTo
  <1> QED
    BY <1>1, <1>5 DEF cleaned

-----------------------------------------------------------------------------
(* Clean paths.                                                             *)

\* What Clean leaves: no ".", and ".." only at the head of a relative path.
Normal(abs, parts) ==
    /\ parts \in Seq(Elements)
    /\ \A i \in 1..Len(parts) : parts[i] # "."
    /\ \A i \in 1..Len(parts) :
          parts[i] = ".." => ~abs /\ \A j \in 1..i : parts[j] = ".."

LEMMA FrontAndLast ==
    ASSUME NEW S, NEW s \in Seq(S), s # <<>>
    PROVE  /\ Front(s) \in Seq(S)
           /\ Len(Front(s)) = Len(s) - 1
           /\ \A i \in 1..(Len(s) - 1) : Front(s)[i] = s[i]
           /\ Len(s) \in 1..Len(s)
           /\ Last(s) = s[Len(s)]
  <1>1. Len(s) \in Nat /\ Len(s) > 0
    OBVIOUS
  <1>2. Front(s) = SubSeq(s, 1, Len(s) - 1)
    BY DEF Front
  <1>3. \A i \in 1..(Len(s) - 1) : s[i] \in S
    BY <1>1
  <1>4. SubSeq(s, 1, Len(s) - 1) = [i \in 1..(Len(s) - 1) |-> s[i]]
    BY <1>1
  <1>5. [i \in 1..(Len(s) - 1) |-> s[i]] \in Seq(S)
    BY <1>1, <1>3, IsASeq
  <1>6. Len([i \in 1..(Len(s) - 1) |-> s[i]]) = Len(s) - 1
    BY <1>1
  <1> DEFINE front == [i \in 1..(Len(s) - 1) |-> s[i]]
  <1>7. Front(s) = front
    BY <1>2, <1>4
  <1>8. \A i \in 1..(Len(s) - 1) : front[i] = s[i]
    OBVIOUS
  <1>9. Len(s) \in 1..Len(s) /\ Last(s) = s[Len(s)]
    BY <1>1 DEF Last
  <1> HIDE DEF front
  <1> QED
    BY <1>5, <1>6, <1>7, <1>8, <1>9 DEF front

LEMMA CleanElementIsNormal ==
    ASSUME NEW abs, NEW parts, Normal(abs, parts), NEW part \in Elements
    PROVE  Normal(abs, CleanElement(abs, parts, part))
  <1> DEFINE cleaned == CleanElement(abs, parts, part)
  <1>1. CASE part = "."
    BY <1>1 DEF CleanElement
  <1>2. CASE part = ".." /\ parts # <<>> /\ Last(parts) # ".."
    <2>1. cleaned = Front(parts)
      BY <1>2 DEF CleanElement
    <2>2. parts \in Seq(Elements)
      BY DEF Normal
    <2> QED
      BY <1>2, <2>1, <2>2, FrontAndLast DEF Normal
  <1>3. CASE part = ".." /\ parts = <<>> /\ abs
    BY <1>3 DEF CleanElement
  <1>4. CASE /\ part # "."
             /\ ~(part = ".." /\ parts # <<>> /\ Last(parts) # "..")
             /\ ~(part = ".." /\ parts = <<>> /\ abs)
    <2>1. cleaned = Append(parts, part)
      BY <1>4 DEF CleanElement
    <2>2. parts \in Seq(Elements) /\ Len(parts) \in Nat
      BY DEF Normal
    <2>3. part = ".." => ~abs /\ \A j \in 1..Len(parts) : parts[j] = ".."
      <3>1. CASE parts = <<>>
        BY <1>4, <3>1
      <3>2. CASE parts # <<>>
        BY <1>4, <2>2, <3>2, FrontAndLast DEF Normal
      <3> QED
        BY <3>1, <3>2
    <2> QED
      BY <1>4, <2>1, <2>2, <2>3 DEF Normal
  <1> QED
    BY <1>1, <1>2, <1>3, <1>4

LEMMA CleanedUpToIsNormal ==
    ASSUME NEW abs, NEW parts \in Seq(Elements)
    PROVE  \A n \in 0..Len(parts) : Normal(abs, CleanedUpTo(abs, parts)[n])
  <1> DEFINE cleaned == CleanedUpTo(abs, parts)
             S == {n \in Nat : n <= Len(parts) => Normal(abs, cleaned[n])}
  <1>1. Len(parts) \in Nat
    OBVIOUS
  <1>2. cleaned[0] = <<>>
    BY CleanedUpToDef
  <1>3. \A n \in 1..Len(parts) :
           cleaned[n] = CleanElement(abs, cleaned[n - 1], parts[n])
    BY CleanedUpToDef
  <1> HIDE DEF cleaned
  <1>4. 0 \in S
    <2>1. Normal(abs, <<>>)
      BY DEF Normal
    <2> QED
      BY <1>2, <2>1
  <1>5. ASSUME NEW n \in Nat, n \in S PROVE n + 1 \in S
    <2>1. CASE n + 1 > Len(parts)
      BY <1>1, <2>1
    <2>2. CASE n + 1 <= Len(parts)
      <3>1. n + 1 \in 1..Len(parts) /\ (n + 1) - 1 = n
        BY <1>1, <2>2
      <3>2. cleaned[n + 1] = CleanElement(abs, cleaned[n], parts[n + 1])
        BY <1>3, <3>1
      <3>3. Normal(abs, cleaned[n])
        BY <1>1, <1>5, <2>2
      <3>4. parts[n + 1] \in Elements
        BY <3>1
      <3> QED
        BY <3>2, <3>3, <3>4, CleanElementIsNormal
    <2> QED
      BY <1>1, <2>1, <2>2
  <1> HIDE DEF S
  <1>6. Nat \subseteq S
    BY <1>4, <1>5, SetInduction
  <1> QED
    BY <1>1, <1>6 DEF S, cleaned

\* A clean path is left as it is.
LEMMA NormalStays ==
    ASSUME NEW abs, NEW parts, Normal(abs, parts)
    PROVE  CleanedUpTo(abs, parts)[Len(parts)] = parts
  <1> DEFINE cleaned == CleanedUpTo(abs, parts)
             S == {n \in Nat : n <= Len(parts) =>
                                  cleaned[n] = [i \in 1..n |-> parts[i]]}
  <1>1. parts \in Seq(Elements) /\ Len(parts) \in Nat
    BY DEF Normal
  <1>2. cleaned[0] = <<>>
    BY <1>1, CleanedUpToDef
  <1>3. \A n \in 1..Len(parts) :
           cleaned[n] = CleanElement(abs, cleaned[n - 1], parts[n])
    BY <1>1, CleanedUpToDef
  <1> HIDE DEF cleaned
  <1>4. 0 \in S
    BY <1>2
  <1>5. ASSUME NEW n \in Nat, n \in S PROVE n + 1 \in S
    <2>1. CASE n + 1 > Len(parts)
      BY <1>1, <2>1
    <2>2. CASE n + 1 <= Len(parts)
      <3> DEFINE head == [i \in 1..n |-> parts[i]]
      <3>1. n + 1 \in 1..Len(parts) /\ (n + 1) - 1 = n
        BY <1>1, <2>2
      <3>2. cleaned[n + 1] = CleanElement(abs, head, parts[n + 1])
        BY <1>1, <1>3, <1>5, <2>2, <3>1
      <3>3. head \in Seq(Elements) /\ Len(head) = n
        BY <1>1, <2>2, IsASeq
      <3>4. parts[n + 1] = ".." =>
               ~abs /\ (head = <<>> \/ Last(head) = "..")
        <4>1. CASE head = <<>>
          BY <3>1, <4>1 DEF Normal
        <4>2. CASE head # <<>>
          <5>1. n \in 1..n /\ Last(head) = head[n]
            BY <3>3, <4>2, FrontAndLast
          <5> QED
            BY <3>1, <5>1 DEF Normal
        <4> QED
          BY <4>1, <4>2
      <3>5. parts[n + 1] # "."
        BY <3>1 DEF Normal
      <3>6. cleaned[n + 1] = Append(head, parts[n + 1])
        BY <3>2, <3>4, <3>5 DEF CleanElement
      <3>7. Append(head, parts[n + 1]) = [i \in 1..(n + 1) |-> parts[i]]
        BY <3>3
      <3> QED
        BY <3>6, <3>7
    <2> QED
      BY <1>1, <2>1, <2>2
  <1> HIDE DEF S
  <1>6. Nat \subseteq S
    BY <1>4, <1>5, SetInduction
  <1>7. cleaned[Len(parts)] = [i \in 1..Len(parts) |-> parts[i]]
    BY <1>1, <1>6 DEF S
  <1> QED
    BY <1>1, <1>7 DEF cleaned

\* The elements at the head of a path are cleaned as they are by themselves.
LEMMA HeadIsCleaned ==
    ASSUME NEW abs, NEW a \in Seq(Elements), NEW b \in Seq(Elements)
    PROVE  CleanedUpTo(abs, a \o b)[Len(a)] = CleanedUpTo(abs, a)[Len(a)]
  <1> DEFINE all == CleanedUpTo(abs, a \o b)
             head == CleanedUpTo(abs, a)
             S == {n \in Nat : n <= Len(a) => all[n] = head[n]}
  <1>1. a \o b \in Seq(Elements) /\ Len(a \o b) = Len(a) + Len(b)
    OBVIOUS
  <1>2. Len(a) \in Nat /\ Len(b) \in Nat
    OBVIOUS
  <1>3. /\ all[0] = <<>>
        /\ \A n \in 1..Len(a \o b) :
              all[n] = CleanElement(abs, all[n - 1], (a \o b)[n])
    BY <1>1, CleanedUpToDef
  <1>4. /\ head[0] = <<>>
        /\ \A n \in 1..Len(a) :
              head[n] = CleanElement(abs, head[n - 1], a[n])
    BY CleanedUpToDef
  <1> HIDE DEF all, head
  <1>5. 0 \in S
    BY <1>3, <1>4
  <1>6. ASSUME NEW n \in Nat, n \in S PROVE n + 1 \in S
    <2>1. CASE n + 1 > Len(a)
      BY <1>2, <2>1
    <2>2. CASE n + 1 <= Len(a)
      <3>1. /\ n + 1 \in 1..Len(a)
            /\ n + 1 \in 1..Len(a \o b)
            /\ (n + 1) - 1 = n
        BY <1>1, <1>2, <2>2
      <3>2. (a \o b)[n + 1] = a[n + 1]
        BY <3>1
      <3>3. all[n] = head[n]
        BY <1>2, <1>6, <2>2
      <3>4. all[n + 1] = CleanElement(abs, all[n], (a \o b)[n + 1])
        BY <1>3, <3>1
      <3>5. head[n + 1] = CleanElement(abs, head[n], a[n + 1])
        BY <1>4, <3>1
      <3> QED
        BY <3>2, <3>3, <3>4, <3>5
    <2> QED
      BY <1>2, <2>1, <2>2
  <1> HIDE DEF S
  <1>7. Nat \subseteq S
    BY <1>5, <1>6, SetInduction
  <1> QED
    BY <1>2, <1>7 DEF S, all, head

IsClean(path) ==
    /\ path = Path(path.abs, path.parts)
    /\ path.abs \in BOOLEAN
    /\ Normal(path.abs, path.parts)

\* Clean makes a path clean, and a path that is clean stays as it is.
LEMMA CleanIsClean ==
    ASSUME NEW path \in Paths
    PROVE  IsClean(Clean(path)) /\ Clean(path).abs = path.abs
  <1>1. path.abs \in BOOLEAN /\ path.parts \in Seq(Elements)
    BY DEF Paths
  <1>2. Len(path.parts) \in 0..Len(path.parts)
    BY <1>1
  <1>3. Normal(path.abs, CleanedUpTo(path.abs, path.parts)[Len(path.parts)])
    BY <1>1, <1>2, CleanedUpToIsNormal
  <1> QED
    BY <1>1, <1>3 DEF Clean, Path, IsClean

LEMMA CleanStays ==
    ASSUME NEW path, IsClean(path)
    PROVE  Clean(path) = path
  BY NormalStays DEF IsClean, Clean, Path

LEMMA CleanIsPath ==
    ASSUME NEW path, IsClean(path)
    PROVE  path \in Paths
  BY DEF IsClean, Normal, Path, Paths

\* A clean path that never leads up is appended to what it is joined to.
LEMMA NormalAppended ==
    ASSUME NEW abs, NEW a \in Seq(Elements), Normal(abs, a),
           NEW b \in Seq(Elements),
           \A i \in 1..Len(b) : b[i] \notin {".", ".."}
    PROVE  Normal(abs, a \o b)
  <1> DEFINE all == a \o b
  <1>1. /\ all \in Seq(Elements)
        /\ Len(all) = Len(a) + Len(b)
        /\ \A i \in 1..(Len(a) + Len(b)) :
              all[i] = IF i <= Len(a) THEN a[i] ELSE b[i - Len(a)]
    BY ConcatProperties
  <1>2. Len(a) \in Nat /\ Len(b) \in Nat
    OBVIOUS
  <1> HIDE DEF all
  <1>3. \A i \in 1..Len(a) : all[i] = a[i]
    BY <1>1, <1>2
  <1>4. ASSUME NEW i \in 1..Len(all), ~(i \in 1..Len(a))
        PROVE  all[i] \notin {".", ".."}
    <2>1. i - Len(a) \in 1..Len(b)
      BY <1>1, <1>2, <1>4
    <2>2. all[i] = b[i - Len(a)]
      BY <1>1, <1>2, <1>4
    <2> QED
      BY <2>1, <2>2
  <1>5. \A i \in 1..Len(all) : all[i] # "."
    BY <1>3, <1>4 DEF Normal
  <1>6. ASSUME NEW i \in 1..Len(all), all[i] = ".."
        PROVE  ~abs /\ \A j \in 1..i : all[j] = ".."
    <2>1. i \in 1..Len(a)
      BY <1>4, <1>6
    <2>2. ~abs /\ \A j \in 1..i : a[j] = ".."
      BY <1>3, <1>6, <2>1 DEF Normal
    <2>3. \A j \in 1..i : j \in 1..Len(a)
      BY <1>2, <2>1
    <2> QED
      BY <1>3, <2>2, <2>3
  <1> QED
    BY <1>1, <1>5, <1>6 DEF Normal, all

LEMMA JoinAppends ==
    ASSUME NEW base, IsClean(base), NEW path,
           path.parts \in Seq(Elements),
           \A i \in 1..Len(path.parts) : path.parts[i] \notin {".", ".."}
    PROVE  LET joined == Join(base, path) IN
           /\ joined = Path(base.abs, base.parts \o path.parts)
           /\ IsClean(joined)
  <1>1. base.parts \in Seq(Elements) /\ Normal(base.abs, base.parts)
    BY DEF IsClean, Normal
  <1>2. Normal(base.abs, base.parts \o path.parts)
    BY <1>1, NormalAppended
  <1>3. Join(base, path) = Path(base.abs, base.parts \o path.parts)
    BY <1>2, NormalStays DEF Join, Clean, Path
  <1> QED
    BY <1>2, <1>3 DEF IsClean, Path

\* A name joined to a path that is not clean.
LEMMA JoinCleansFirst ==
    ASSUME NEW base \in Paths, NEW name \in Names
    PROVE  Join(base, Path(FALSE, <<name>>)) =
              Path(base.abs, Append(Clean(base).parts, name))
  <1> DEFINE all == base.parts \o <<name>>
             cleaned == CleanedUpTo(base.abs, all)
  <1>1. base.parts \in Seq(Elements) /\ Len(base.parts) \in Nat
    BY DEF Paths
  <1>2. /\ name \in Elements
        /\ name \notin {".", ".."}
        /\ <<name>> \in Seq(Elements)
    BY ArtifactPathsAssumption DEF Elements
  <1>3. all \in Seq(Elements) /\ Len(all) = Len(base.parts) + 1
    BY <1>1, <1>2
  <1>4. cleaned[Len(base.parts)] = Clean(base).parts
    BY <1>1, <1>2, HeadIsCleaned DEF Clean, Path
  <1>5. all[Len(base.parts) + 1] = name
    BY <1>1, <1>2
  <1>6. /\ Len(base.parts) + 1 \in 1..Len(all)
        /\ (Len(base.parts) + 1) - 1 = Len(base.parts)
    BY <1>1, <1>3
  <1>7. \A n \in 1..Len(all) :
           cleaned[n] = CleanElement(base.abs, cleaned[n - 1], all[n])
    BY <1>3, CleanedUpToDef
  <1> HIDE DEF cleaned, all
  <1>8. cleaned[Len(all)] =
           CleanElement(base.abs, Clean(base).parts, name)
    BY <1>3, <1>4, <1>5, <1>6, <1>7
  <1>9. CleanElement(base.abs, Clean(base).parts, name) =
           Append(Clean(base).parts, name)
    BY <1>2 DEF CleanElement
  <1>10. Join(base, Path(FALSE, <<name>>)) =
            Path(base.abs, cleaned[Len(all)])
    BY DEF Join, Clean, Path, cleaned, all
  <1> QED
    BY <1>8, <1>9, <1>10

-----------------------------------------------------------------------------
(* Texts.                                                                   *)

LEMMA FirstOfText ==
    ASSUME NEW path, path.parts \in Seq(Elements), path.parts # <<>>,
           ~path.abs
    PROVE  Text(path)[1] = path.parts[1]
  <1> DEFINE n == 2 * Len(path.parts) - 1
             text == [i \in 1..n |-> IF i % 2 = 1
                                     THEN path.parts[(i + 1) \div 2]
                                     ELSE "/"]
  <1>1. n \in Nat /\ 1 \in 1..n
    OBVIOUS
  <1>2. 1 % 2 = 1 /\ (1 + 1) \div 2 = 1
    OBVIOUS
  <1>3. text[1] = path.parts[1]
    BY <1>1, <1>2
  <1>4. Text(path) = text
    BY DEF Text, Separated
  <1> QED
    BY <1>3, <1>4

LEMMA ConcatIsPrefix ==
    ASSUME NEW S, NEW a \in Seq(S), NEW b \in Seq(S), NEW c \in Seq(S)
    PROVE  IsPrefix(a \o b, a \o (b \o c))
  <1> DEFINE s == a \o b
             t == s \o c
  <1>1. s \in Seq(S)
    OBVIOUS
  <1>2. t = a \o (b \o c)
    OBVIOUS
  <1> HIDE DEF s
  <1>3. /\ t \in Seq(S)
        /\ Len(t) = Len(s) + Len(c)
        /\ \A i \in 1..(Len(s) + Len(c)) :
              t[i] = IF i <= Len(s) THEN s[i] ELSE c[i - Len(s)]
    BY <1>1, ConcatProperties
  <1>4. Len(s) \in Nat /\ Len(c) \in Nat
    BY <1>1
  <1> HIDE DEF t
  <1>5. Len(s) <= Len(t) /\ \A i \in 1..Len(s) : t[i] = s[i]
    BY <1>3, <1>4
  <1>6. SubSeq(s, 1, Len(s)) = SubSeq(t, 1, Len(s))
    BY <1>1, <1>3, <1>4, <1>5
  <1> QED
    BY <1>2, <1>5, <1>6 DEF IsPrefix, s

\* The text of a path below another begins with the text of that other and a
\* separator, unless that other path is empty.
LEMMA TextBelow ==
    ASSUME NEW abs \in BOOLEAN, NEW a \in Seq(Elements), a # <<>>,
           NEW b \in Seq(Elements), b # <<>>
    PROVE  IsPrefix(Text(Path(abs, a)) \o <<"/">>, Text(Path(abs, a \o b)))
  <1> DEFINE q == a \o b
  <1>1. /\ q \in Seq(Elements)
        /\ Len(q) = Len(a) + Len(b)
        /\ q # <<>>
    OBVIOUS
  <1>2. Len(a) \in Nat \ {0} /\ Len(b) \in Nat \ {0}
    OBVIOUS
  <1>3. \A i \in 1..Len(a) : q[i] = a[i]
    BY <1>2
  <1> HIDE DEF q
  <1> DEFINE Sep(s) == [i \in 1..(2 * Len(s) - 1) |->
                          IF i % 2 = 1 THEN s[(i + 1) \div 2] ELSE "/"]
             sepA == Sep(a)
             sepQ == Sep(q)
             S == Elements \cup {"/"}
  <1>4. Separated(a) = sepA /\ Separated(q) = sepQ
    BY <1>1 DEF Separated
  <1>5. \A i \in Nat : i % 2 = 1 => (i + 1) \div 2 \in Nat /\
                                    2 * ((i + 1) \div 2) = i + 1
    OBVIOUS
  <1>6. sepA \in Seq(S) /\ Len(sepA) = 2 * Len(a) - 1
    <2>1. \A i \in 1..(2 * Len(a) - 1) :
             (IF i % 2 = 1 THEN a[(i + 1) \div 2] ELSE "/") \in S
      BY <1>2, <1>5
    <2>2. 2 * Len(a) - 1 \in Nat
      BY <1>2
    <2> QED
      BY <2>1, <2>2, IsASeq
  <1>7. sepQ \in Seq(S) /\ Len(sepQ) = 2 * Len(q) - 1
    <2>1. \A i \in 1..(2 * Len(q) - 1) :
             (IF i % 2 = 1 THEN q[(i + 1) \div 2] ELSE "/") \in S
      BY <1>1, <1>2, <1>5
    <2>2. 2 * Len(q) - 1 \in Nat
      BY <1>1, <1>2
    <2> QED
      BY <2>1, <2>2, IsASeq
  <1>8. \A i \in 1..(2 * Len(a) - 1) : sepQ[i] = sepA[i]
    <2> SUFFICES ASSUME NEW i \in 1..(2 * Len(a) - 1)
                 PROVE  sepQ[i] = sepA[i]
      OBVIOUS
    <2>1. i \in 1..(2 * Len(q) - 1)
      BY <1>1, <1>2
    <2>2. CASE i % 2 = 1
      <3>1. (i + 1) \div 2 \in 1..Len(a)
        BY <1>2, <1>5, <2>2
      <3> QED
        BY <1>3, <2>1, <2>2, <3>1
    <2>3. CASE i % 2 # 1
      BY <2>1, <2>3
    <2> QED
      BY <2>2, <2>3
  <1>9. sepQ[2 * Len(a)] = "/" /\ 2 * Len(a) \in 1..Len(sepQ)
    <2>1. 2 * Len(a) \in 1..(2 * Len(q) - 1)
      BY <1>1, <1>2
    <2>2. (2 * Len(a)) % 2 # 1
      BY <1>2
    <2> QED
      BY <1>7, <2>1, <2>2
  <1> HIDE DEF sepA, sepQ, Sep
  <1> DEFINE head == IF abs THEN <<"/">> ELSE <<>>
             textA == head \o sepA \o <<"/">>
             textQ == head \o sepQ
  <1>10. Text(Path(abs, a)) \o <<"/">> = textA
    <2>1. Text(Path(abs, a)) = head \o sepA
      <3>1. CASE abs
        BY <1>4, <3>1 DEF Text, Path
      <3>2. CASE ~abs
        <4>1. Text(Path(abs, a)) = sepA
          BY <1>4, <3>2 DEF Text, Path
        <4> QED
          BY <1>6, <3>2, <4>1
      <3> QED
        BY <3>1, <3>2
    <2> QED
      BY <2>1
  <1>11. Text(Path(abs, q)) = textQ
    BY <1>1, <1>4, <1>7 DEF Text, Path
  <1>12. head \in Seq(S) /\ <<"/">> \in Seq(S) /\ Len(head) \in Nat
    <2>1. "/" \in S
      OBVIOUS
    <2> HIDE DEF S
    <2> QED
      BY <2>1
  <1> HIDE DEF head, S
  <1>13. /\ textA \in Seq(S) /\ textQ \in Seq(S)
         /\ Len(textA) = Len(head) + 2 * Len(a)
         /\ Len(textQ) = Len(head) + Len(sepQ)
         /\ Len(textA) <= Len(textQ)
    <2>1. textA \in Seq(S) /\ textQ \in Seq(S)
      BY <1>6, <1>7, <1>12
    <2>2. Len(textA) = Len(head) + Len(sepA) + 1
      <3>1. Len(sepA \o <<"/">>) = Len(sepA) + 1
        BY <1>6
      <3>2. sepA \o <<"/">> \in Seq(S)
        BY <1>6, <1>12
      <3>3. textA = head \o (sepA \o <<"/">>)
        BY <1>6, <1>12
      <3>4. Len(head \o (sepA \o <<"/">>)) =
               Len(head) + Len(sepA \o <<"/">>)
        BY <1>12, <3>2, ConcatProperties
      <3>5. Len(sepA) \in Nat
        BY <1>6
      <3> HIDE DEF textA
      <3> QED
        BY <1>12, <3>1, <3>3, <3>4, <3>5
    <2>3. Len(textQ) = Len(head) + Len(sepQ)
      BY <1>7, <1>12
    <2> HIDE DEF textA, textQ
    <2> QED
      BY <1>2, <1>6, <1>9, <1>12, <2>1, <2>2, <2>3
  <1>14. \A i \in 1..Len(textA) : textA[i] = textQ[i]
    <2> SUFFICES ASSUME NEW i \in 1..Len(textA)
                 PROVE  textA[i] = textQ[i]
      OBVIOUS
    <2>1. CASE i <= Len(head)
      BY <1>6, <1>7, <1>12, <1>13, <2>1
    <2>2. CASE i > Len(head) /\ i < Len(head) + 2 * Len(a)
      <3>1. i - Len(head) \in 1..(2 * Len(a) - 1)
        BY <1>2, <1>12, <2>2
      <3>2. textA[i] = sepA[i - Len(head)]
        BY <1>6, <1>12, <1>13, <2>2, <3>1
      <3>3. textQ[i] = sepQ[i - Len(head)]
        BY <1>7, <1>12, <1>13, <2>2, <3>1
      <3> QED
        BY <1>8, <3>1, <3>2, <3>3
    <2>3. CASE i = Len(head) + 2 * Len(a)
      <3>1. textA[i] = "/"
        BY <1>2, <1>6, <1>12, <1>13, <2>3
      <3>2. textQ[i] = sepQ[2 * Len(a)]
        BY <1>2, <1>7, <1>9, <1>12, <1>13, <2>3
      <3> QED
        BY <1>9, <3>1, <3>2
    <2> QED
      BY <1>2, <1>12, <1>13, <2>1, <2>2, <2>3
  <1> HIDE DEF textA, textQ
  <1>15. SubSeq(textA, 1, Len(textA)) = SubSeq(textQ, 1, Len(textA))
    BY <1>13, <1>14
  <1> QED
    BY <1>10, <1>11, <1>13, <1>15 DEF IsPrefix, q

-----------------------------------------------------------------------------
(* Depths.                                                                  *)

LEMMA DepthOfNothing == Depth(<<>>) = 0
  <1>1. Ups(<<>>) = {} /\ Downs(<<>>) = {}
    BY DEF Ups, Downs
  <1>2. Cardinality({}) = 0
    BY FS_EmptySet
  <1>3. Cardinality(Ups(<<>>)) = 0 /\ Cardinality(Downs(<<>>)) = 0
    BY <1>1, <1>2, Zenon
  <1>4. Depth(<<>>) = 0 - 0
    BY <1>3, Zenon DEF Depth
  <1> QED
    BY <1>4

LEMMA DepthIsInt ==
    ASSUME NEW parts \in Seq(Elements)
    PROVE  /\ IsFiniteSet(Ups(parts)) /\ IsFiniteSet(Downs(parts))
           /\ Cardinality(Ups(parts)) \in Nat
           /\ Cardinality(Downs(parts)) \in Nat
           /\ Depth(parts) \in Int
  <1>1. IsFiniteSet(1..Len(parts))
    BY FS_Interval
  <1>2. Ups(parts) \subseteq 1..Len(parts)
    BY DEF Ups
  <1>3. Downs(parts) \subseteq 1..Len(parts)
    BY DEF Downs
  <1>4. IsFiniteSet(Ups(parts)) /\ IsFiniteSet(Downs(parts))
    BY <1>1, <1>2, <1>3, FS_Subset
  <1>5. /\ Cardinality(Ups(parts)) \in Nat
        /\ Cardinality(Downs(parts)) \in Nat
    BY <1>4, FS_CardinalityType
  <1> QED
    BY <1>4, <1>5 DEF Depth

\* One element more leads one directory up, one down or nowhere.
LEMMA DepthOfOneMore ==
    ASSUME NEW parts \in Seq(Elements), NEW part \in Elements
    PROVE  LET more == Append(parts, part) IN
           /\ part = "." => Depth(more) = Depth(parts)
           /\ part = ".." => Depth(more) = Depth(parts) - 1
           /\ part \notin {".", ".."} => Depth(more) = Depth(parts) + 1
  <1> DEFINE more == Append(parts, part)
             next == Len(parts) + 1
  <1>1. /\ Len(parts) \in Nat
        /\ DOMAIN parts = 1..Len(parts)
        /\ DOMAIN more = 1..next
        /\ \A i \in 1..Len(parts) : more[i] = parts[i]
        /\ more[next] = part
    OBVIOUS
  <1> HIDE DEF more
  <1>2. Ups(more) = IF part = ".." THEN Ups(parts) \cup {next}
                    ELSE Ups(parts)
    BY <1>1 DEF Ups
  <1>3. Downs(more) = IF part \in {".", ".."} THEN Downs(parts)
                      ELSE Downs(parts) \cup {next}
    BY <1>1 DEF Downs
  <1>4. next \notin Ups(parts) /\ next \notin Downs(parts)
    BY <1>1 DEF Ups, Downs
  <1>5. /\ IsFiniteSet(Ups(parts)) /\ IsFiniteSet(Downs(parts))
        /\ Cardinality(Ups(parts)) \in Nat
        /\ Cardinality(Downs(parts)) \in Nat
    BY DepthIsInt
  <1>6. /\ Cardinality(Ups(parts) \cup {next}) = Cardinality(Ups(parts)) + 1
        /\ Cardinality(Downs(parts) \cup {next}) =
              Cardinality(Downs(parts)) + 1
    BY <1>4, <1>5, FS_AddElement
  <1> QED
    BY <1>2, <1>3, <1>5, <1>6 DEF Depth, more

\* What is left of a path that has not led up is as long as the path is deep.
LeftAsDeep(left, head) ==
    /\ head \in Seq(Elements)
    /\ left \in Seq(Elements)
    /\ Len(left) = Depth(head)
    /\ \A i \in 1..Len(left) : left[i] # ".."

LEMMA StillAsDeep ==
    ASSUME NEW abs, NEW left, NEW head, LeftAsDeep(left, head),
           NEW part \in Elements, Depth(Append(head, part)) >= 0
    PROVE  LeftAsDeep(CleanElement(abs, left, part), Append(head, part))
  <1> SUFFICES ASSUME NEW cleaned, cleaned = CleanElement(abs, left, part)
               PROVE  /\ cleaned \in Seq(Elements)
                      /\ Len(cleaned) = Depth(Append(head, part))
                      /\ \A i \in 1..Len(cleaned) : cleaned[i] # ".."
    BY DEF LeftAsDeep
  <1> USE DEF LeftAsDeep
  <1>1. Len(left) \in Nat
    OBVIOUS
  <1>2. CASE part = "."
    <2>1. cleaned = left
      BY <1>2 DEF CleanElement
    <2>2. Depth(Append(head, part)) = Depth(head)
      BY <1>2, DepthOfOneMore
    <2> QED
      BY <2>1, <2>2
  <1>3. CASE part = ".."
    <2>1. Depth(Append(head, part)) = Depth(head) - 1
      BY <1>3, DepthOfOneMore
    <2>2. Len(left) > 0
      BY <1>1, <2>1
    <2>3. left # <<>> /\ Len(left) \in 1..Len(left)
      BY <1>1, <2>2
    <2>4. Last(left) # ".."
      BY <2>3, FrontAndLast
    <2>5. cleaned = Front(left)
      BY <1>3, <2>3, <2>4 DEF CleanElement
    <2>6. /\ cleaned \in Seq(Elements)
          /\ Len(cleaned) = Len(left) - 1
          /\ \A i \in 1..(Len(left) - 1) : cleaned[i] = left[i]
      BY <2>3, <2>5, FrontAndLast
    <2>7. \A i \in 1..Len(cleaned) : cleaned[i] # ".."
      BY <1>1, <2>6
    <2> QED
      BY <2>1, <2>6, <2>7
  <1>4. CASE part \notin {".", ".."}
    <2>1. cleaned = Append(left, part)
      BY <1>4 DEF CleanElement
    <2>2. Depth(Append(head, part)) = Depth(head) + 1
      BY <1>4, DepthOfOneMore
    <2>3. /\ cleaned \in Seq(Elements)
          /\ Len(cleaned) = Len(left) + 1
          /\ \A i \in 1..Len(left) : cleaned[i] = left[i]
          /\ cleaned[Len(left) + 1] = part
      BY <2>1
    <2>4. \A i \in 1..Len(cleaned) : cleaned[i] # ".."
      BY <1>1, <1>4, <2>3
    <2> QED
      BY <2>2, <2>3, <2>4
  <1> QED
    BY <1>2, <1>3, <1>4

\* A path that never leads above where it begins has no ".." once it is clean.
LEMMA NeverAboveIsClean ==
    ASSUME NEW abs, NEW parts \in Seq(Elements), NeverAbove(parts),
           NEW left, left = CleanedUpTo(abs, parts)[Len(parts)]
    PROVE  \A i \in 1..Len(left) : left[i] # ".."
  <1> DEFINE cleaned == CleanedUpTo(abs, parts)
             head(n) == SubSeq(parts, 1, n)
             S == {n \in Nat : n <= Len(parts) =>
                                  LeftAsDeep(cleaned[n], head(n))}
  <1>1. Len(parts) \in Nat
    OBVIOUS
  <1>2. /\ cleaned[0] = <<>>
        /\ \A n \in 1..Len(parts) :
              cleaned[n] = CleanElement(abs, cleaned[n - 1], parts[n])
    BY CleanedUpToDef
  <1> HIDE DEF cleaned
  <1>3. 0 \in S
    <2>1. head(0) = <<>>
      OBVIOUS
    <2>2. ASSUME NEW none, none = <<>> PROVE LeftAsDeep(none, none)
      <3>1. Depth(none) = 0
        BY <2>2, DepthOfNothing, Zenon
      <3> QED
        BY <2>2, <3>1 DEF LeftAsDeep
    <2> HIDE DEF head
    <2> QED
      BY <1>2, <2>1, <2>2
  <1>4. ASSUME NEW n \in Nat, n \in S PROVE n + 1 \in S
    <2>1. CASE n + 1 > Len(parts)
      BY <1>1, <2>1
    <2>2. CASE n + 1 <= Len(parts)
      <3>1. n + 1 \in 1..Len(parts) /\ (n + 1) - 1 = n
        BY <1>1, <2>2
      <3>2. LeftAsDeep(cleaned[n], head(n))
        BY <1>1, <1>4, <2>2
      <3>3. cleaned[n + 1] = CleanElement(abs, cleaned[n], parts[n + 1])
        BY <1>2, <3>1
      <3>4. parts[n + 1] \in Elements
        BY <3>1
      <3>5. head(n) \in Seq(Elements) /\ Len(head(n)) = n
        BY <1>1, <3>1
      <3>6. head(n + 1) = Append(head(n), parts[n + 1])
        <4>1. \A i \in 1..n : head(n)[i] = parts[i]
          BY <1>1, <3>1
        <4>2. head(n + 1) \in Seq(Elements) /\ Len(head(n + 1)) = n + 1
          BY <1>1, <3>1
        <4>3. \A i \in 1..(n + 1) : head(n + 1)[i] = parts[i]
          BY <1>1, <3>1
        <4> HIDE DEF head
        <4> QED
          BY <3>5, <4>1, <4>2, <4>3
      <3>7. Depth(head(n + 1)) >= 0
        <4>1. n + 1 \in 0..Len(parts)
          BY <3>1
        <4> QED
          BY <4>1, Zenon DEF NeverAbove
      <3> HIDE DEF head
      <3>8. LeftAsDeep(cleaned[n + 1], head(n + 1))
        BY <3>2, <3>3, <3>4, <3>6, <3>7, StillAsDeep
      <3> QED
        BY <3>8
    <2> QED
      BY <1>1, <2>1, <2>2
  <1> HIDE DEF S
  <1>5. Nat \subseteq S
    BY <1>3, <1>4, SetInduction
  <1>6. Len(parts) \in S
    BY <1>1, <1>5
  <1>7. LeftAsDeep(cleaned[Len(parts)], head(Len(parts)))
    BY <1>1, <1>6 DEF S
  <1> HIDE DEF head
  <1> QED
    BY <1>7 DEF LeftAsDeep, cleaned

-----------------------------------------------------------------------------
(* What the catalog lets through.                                           *)

OnlyNames(parts) ==
    /\ parts \in Seq(Elements)
    /\ \A i \in 1..Len(parts) : parts[i] \notin {".", ".."}

\* The catalog looks at the head of a clean path alone, and that is enough.
LEMMA AcceptedLeadsDown ==
    ASSUME NEW path, IsClean(path), ~Invalid(path)
    PROVE  ~path.abs /\ OnlyNames(path.parts)
  <1>1. /\ ~path.abs
        /\ path.parts \in Seq(Elements)
        /\ Len(path.parts) \in Nat
        /\ Text(path)[1] # ".."
    BY DEF Invalid, BeginsWithTwoDots, IsClean, Normal
  <1>2. ASSUME NEW i \in 1..Len(path.parts)
        PROVE  path.parts[i] # ".."
    <2>1. path.parts # <<>> /\ 1 \in 1..i
      BY <1>1, <1>2
    <2>2. path.parts[1] # ".."
      BY <1>1, <2>1, FirstOfText
    <2> QED
      BY <2>1, <2>2 DEF IsClean, Normal
  <1> QED
    BY <1>1, <1>2 DEF OnlyNames, IsClean, Normal

LEMMA NameIsClean ==
    ASSUME NEW name \in Names
    PROVE  /\ IsClean(Path(FALSE, <<name>>))
           /\ <<name>> \in Seq(Elements)
           /\ Path(FALSE, <<name>>) \in Paths
  <1>1. name \in Elements /\ name \notin {".", ".."}
    BY ArtifactPathsAssumption DEF Elements
  <1>2. /\ <<name>> \in Seq(Elements)
        /\ \A i \in 1..Len(<<name>>) : <<name>>[i] = name
    BY <1>1
  <1>3. Normal(FALSE, <<name>>)
    BY <1>1, <1>2 DEF Normal
  <1> QED
    BY <1>2, <1>3 DEF IsClean, Path, Paths

LEMMA EntryLeadsDown ==
    ASSUME NEW tool \in Names, NEW path, IsClean(path), ~Invalid(path)
    PROVE  /\ EntryPath(tool, path) = Path(FALSE, <<tool>> \o path.parts)
           /\ OnlyNames(<<tool>> \o path.parts)
  <1>1. ~path.abs /\ OnlyNames(path.parts)
    BY AcceptedLeadsDown
  <1>2. IsClean(Path(FALSE, <<tool>>)) /\ <<tool>> \in Seq(Elements)
    BY NameIsClean
  <1>3. EntryPath(tool, path) = Path(FALSE, <<tool>> \o path.parts)
    <2>1. ASSUME NEW base, base = Path(FALSE, <<tool>>)
          PROVE  Join(base, path) = Path(FALSE, <<tool>> \o path.parts)
      <3>1. IsClean(base) /\ base.abs = FALSE /\ base.parts = <<tool>>
        BY <1>2, <2>1 DEF Path
      <3>2. Join(base, path) = Path(base.abs, base.parts \o path.parts)
        BY <1>1, <3>1, JoinAppends DEF OnlyNames
      <3> QED
        BY <3>1, <3>2
    <2> QED
      BY <2>1 DEF EntryPath
  <1>4. tool \notin {".", ".."}
    BY ArtifactPathsAssumption
  <1>5. OnlyNames(<<tool>> \o path.parts)
    <2> DEFINE parts == path.parts
               all == <<tool>> \o parts
    <2>1. parts \in Seq(Elements) /\ Len(parts) \in Nat
      BY <1>1 DEF OnlyNames
    <2>2. \A i \in 1..Len(parts) : parts[i] \notin {".", ".."}
      BY <1>1 DEF OnlyNames
    <2>3. Len(<<tool>>) = 1 /\ <<tool>>[1] = tool
      OBVIOUS
    <2> HIDE DEF parts
    <2>4. /\ all \in Seq(Elements)
          /\ Len(all) = 1 + Len(parts)
          /\ \A i \in 1..(1 + Len(parts)) :
                all[i] = IF i <= 1 THEN <<tool>>[i] ELSE parts[i - 1]
      BY <1>2, <2>1, <2>3, ConcatProperties
    <2> HIDE DEF all
    <2>5. ASSUME NEW i \in 1..Len(all) PROVE all[i] \notin {".", ".."}
      <3>1. CASE i = 1
        BY <1>4, <2>1, <2>3, <2>4, <3>1
      <3>2. CASE i # 1
        <4>1. i - 1 \in 1..Len(parts) /\ all[i] = parts[i - 1]
          BY <2>1, <2>4, <2>5, <3>2
        <4> QED
          BY <2>2, <4>1
      <3> QED
        BY <3>1, <3>2
    <2> QED
      BY <2>4, <2>5 DEF OnlyNames, all, parts
  <1> QED
    BY <1>3, <1>5

\* What the reader resolves is the root, the tool's directory and the path that
\* was accepted, one after another.
LEMMA ResolvedBelowRoot ==
    ASSUME NEW base \in Paths, NEW tool \in Names,
           NEW path, IsClean(path), ~Invalid(path)
    PROVE  Clean(Join(Clean(base), EntryPath(tool, path))) =
              Path(base.abs, Clean(base).parts \o (<<tool>> \o path.parts))
  <1> DEFINE entryOf == EntryPath(tool, path)
  <1>1. IsClean(Clean(base)) /\ Clean(base).abs = base.abs
    BY CleanIsClean
  <1>2. /\ entryOf.parts = <<tool>> \o path.parts
        /\ OnlyNames(entryOf.parts)
    <2>1. /\ entryOf = Path(FALSE, <<tool>> \o path.parts)
          /\ OnlyNames(<<tool>> \o path.parts)
      BY EntryLeadsDown
    <2> HIDE DEF entryOf
    <2>2. entryOf.parts = <<tool>> \o path.parts
      BY <2>1 DEF Path
    <2> QED
      BY <2>1, <2>2
  <1> HIDE DEF entryOf
  <1>3. LET joined == Join(Clean(base), entryOf) IN
        /\ joined = Path(base.abs, Clean(base).parts \o entryOf.parts)
        /\ IsClean(joined)
    BY <1>1, <1>2, JoinAppends DEF OnlyNames
  <1> QED
    BY <1>2, <1>3, CleanStays DEF entryOf

-----------------------------------------------------------------------------
(* The inductive invariant.                                                 *)

Checked == Clean(ArtifactPathOrDefault(artifactPath))
Resolved == Clean(Join(CleanRoot, entry))

RequestOK ==
    /\ root \in Paths
    /\ toolId \in Names
    /\ artifactPath \in Paths \cup {Blank}

\* Each check has been passed or failed by the path it was given.
PathInv ==
    /\ RequestOK
    /\ at \in {"reader", "opened", "escapes"} =>
          ~Invalid(Checked) /\ entry = EntryPath(toolId, Checked)
    /\ at = "invalid" => Invalid(Checked)
    /\ at = "escapes" => Escapes(Resolved)
    /\ opened # Null => at = "opened" /\ opened = Resolved

LEMMA RequestIsOK == Init => RequestOK
  <1> SUFFICES ASSUME Init PROVE RequestOK
    OBVIOUS
  <1>1. ASSUME NEW n \in Nat, NEW path \in PathsUpTo(n) PROVE path \in Paths
    <2>1. BoundedSeq(Elements, n) \subseteq Seq(Elements)
      BY SeqDef DEF BoundedSeq, SeqOf
    <2> QED
      BY <1>1, <2>1 DEF PathsUpTo, Paths
  <1>2. root \in PathsUpTo(MaxRoot) /\ MaxRoot \in Nat
    BY ArtifactPathsAssumption DEF Init, Roots
  <1>3. artifactPath \in PathsUpTo(MaxPath) \cup {Blank} /\ MaxPath \in Nat
    BY ArtifactPathsAssumption DEF Init, ArtifactPaths
  <1>4. toolId \in Names
    BY ArtifactPathsAssumption DEF Init
  <1> QED
    BY <1>1, <1>2, <1>3, <1>4 DEF RequestOK

LEMMA CheckedIsClean == RequestOK => IsClean(Checked)
  <1>1. Path(FALSE, <<"module.wasm">>) \in Paths
    BY NameIsClean, ArtifactPathsAssumption
  <1> QED
    BY <1>1, CleanIsClean DEF RequestOK, Checked, ArtifactPathOrDefault

LEMMA PathStep == PathInv /\ [Next]_vars => PathInv'
  <1> SUFFICES ASSUME PathInv, [Next]_vars PROVE PathInv'
    OBVIOUS
  <1>1. CASE ReadTool
    <2>1. /\ UNCHANGED <<request, opened>>
          /\ at = "catalog"
          /\ Checked' = Checked
      BY <1>1 DEF ReadTool, Checked, request
    <2>2. opened = Null
      BY <2>1 DEF PathInv
    <2>3. \/ Invalid(Checked) /\ at' = "invalid"
          \/ ~Invalid(Checked) /\ at' = "reader"
             /\ entry' = EntryPath(toolId, Checked)
      BY <1>1 DEF ReadTool, Checked
    <2> QED
      BY <2>1, <2>2, <2>3 DEF PathInv, RequestOK, request
  <1>2. CASE ResolvePath
    <2>1. /\ UNCHANGED <<request, entry>>
          /\ at = "reader"
          /\ Checked' = Checked
          /\ Resolved' = Resolved
      BY <1>2 DEF ResolvePath, Checked, Resolved, CleanRoot, request
    <2>2. Escapes(Resolved)' <=> Escapes(Resolved)
      BY <2>1 DEF Escapes, CleanRoot, request
    <2>3. opened = Null
      BY <2>1 DEF PathInv
    <2>4. \/ Escapes(Resolved) /\ at' = "escapes" /\ opened' = opened
          \/ at' = "opened" /\ opened' = Resolved
      BY <1>2 DEF ResolvePath, Resolved
    <2> QED
      BY <2>1, <2>2, <2>3, <2>4 DEF PathInv, RequestOK, request
  <1>3. CASE UNCHANGED vars
    BY <1>3 DEF vars, request, PathInv, RequestOK, Checked, Resolved,
                CleanRoot, Escapes
  <1> QED
    BY <1>1, <1>2, <1>3 DEF Next

\* Every check is passed or failed by what the request has at that point.
THEOREM PathsCorrect == Spec => []PathInv
  <1>1. Init => PathInv
    BY RequestIsOK DEF Init, PathInv
  <1> QED
    BY <1>1, PathStep, PTL DEF Spec

-----------------------------------------------------------------------------
(* The properties.                                                          *)

LEMMA ResolvedIs ==
    ASSUME PathInv, at \in {"reader", "opened", "escapes"}
    PROVE  /\ IsClean(Checked)
           /\ OnlyNames(<<toolId>> \o Checked.parts)
           /\ Resolved = Path(root.abs,
                              CleanRoot.parts \o (<<toolId>> \o Checked.parts))
  <1>1. root \in Paths /\ toolId \in Names /\ IsClean(Checked)
    BY CheckedIsClean DEF PathInv, RequestOK
  <1>2. ~Invalid(Checked) /\ entry = EntryPath(toolId, Checked)
    BY DEF PathInv
  <1> QED
    BY <1>1, <1>2, EntryLeadsDown, ResolvedBelowRoot DEF Resolved, CleanRoot

\* The module that is opened for a tool lies in the tool's directory, whatever
\* its manifest says and however ARTIFACT_ROOT is written.
THEOREM OpenedInToolDirectoryCorrect == Spec => []OpenedInToolDirectory
  <1>1. PathInv => OpenedInToolDirectory
    <2> SUFFICES ASSUME PathInv, opened # Null
                 PROVE  LET directory == Join(root, Path(FALSE, <<toolId>>)) IN
                        /\ opened.abs = directory.abs
                        /\ IsPrefix(directory.parts, opened.parts)
      BY DEF OpenedInToolDirectory
    <2>1. at = "opened" /\ opened = Resolved
      BY DEF PathInv
    <2> DEFINE a == CleanRoot.parts
               b == <<toolId>>
               c == Checked.parts
    <2>2. opened = Path(root.abs, a \o (b \o c))
      BY <2>1, ResolvedIs
    <2>3. root \in Paths /\ toolId \in Names
      BY DEF PathInv, RequestOK
    <2>4. Join(root, Path(FALSE, <<toolId>>)) =
             Path(root.abs, Append(a, toolId))
      BY <2>3, JoinCleansFirst DEF CleanRoot
    <2>5. /\ a \in Seq(Elements)
          /\ b \in Seq(Elements)
          /\ c \in Seq(Elements)
      BY <2>1, <2>3, ResolvedIs, CleanIsClean, NameIsClean
         DEF CleanRoot, IsClean, Normal
    <2>6. Append(a, toolId) = a \o b
      BY <2>5
    <2> HIDE DEF a, b, c
    <2>7. IsPrefix(a \o b, a \o (b \o c))
      BY <2>5, ConcatIsPrefix
    <2>8. opened.abs = root.abs /\ opened.parts = a \o (b \o c)
      BY <2>2 DEF Path
    <2> DEFINE directory == Join(root, Path(FALSE, <<toolId>>))
    <2>9. directory = Path(root.abs, a \o b)
      BY <2>4, <2>6
    <2> HIDE DEF directory
    <2>10. directory.abs = root.abs /\ directory.parts = a \o b
      BY <2>9 DEF Path
    <2>11. /\ opened.abs = directory.abs
           /\ IsPrefix(directory.parts, opened.parts)
      BY <2>7, <2>8, <2>10
    <2> QED
      BY <2>11 DEF directory
  <1> QED
    BY <1>1, PathsCorrect, PTL

\* A path that is refused is absolute, leads above the tool's directory on its
\* way or has a dotted name at its head; the default is never refused.
THEOREM RefusedForCauseCorrect == Spec => []RefusedForCause
  <1>1. PathInv => RefusedForCause
    <2> SUFFICES ASSUME PathInv, at = "invalid"
                 PROVE  /\ artifactPath # Blank
                        /\ \/ artifactPath.abs
                           \/ ~NeverAbove(artifactPath.parts)
                           \/ Clean(artifactPath).parts[1] \in DottedNames
      BY DEF RefusedForCause
    <2>1. Invalid(Checked) /\ IsClean(Checked)
      BY CheckedIsClean DEF PathInv
    <2>2. Checked.parts \in Seq(Elements)
      BY <2>1 DEF IsClean, Normal
    <2>3. ASSUME ~Checked.abs
          PROVE  /\ Checked.parts # <<>>
                 /\ Checked.parts[1] \in {".."} \cup DottedNames
      <3>1. Text(Checked)[1] \in {".."} \cup DottedNames
        BY <2>1, <2>3 DEF Invalid, BeginsWithTwoDots
      <3>2. CASE Checked.parts = <<>>
        <4>1. Text(Checked) = <<".">>
          BY <2>3, <3>2 DEF Text
        <4> QED
          BY <3>1, <4>1, ArtifactPathsAssumption
      <3> QED
        BY <2>2, <2>3, <3>1, <3>2, FirstOfText
    <2>4. artifactPath # Blank
      <3> SUFFICES ASSUME artifactPath = Blank PROVE FALSE
        OBVIOUS
      <3>1. "module.wasm" \in Names
        BY ArtifactPathsAssumption
      <3>2. Checked = Path(FALSE, <<"module.wasm">>)
        BY <3>1, NameIsClean, CleanStays DEF Checked, ArtifactPathOrDefault
      <3>3. ~Checked.abs /\ Checked.parts[1] = "module.wasm"
        BY <3>2 DEF Path
      <3> QED
        BY <2>3, <3>3, ArtifactPathsAssumption
    <2>5. artifactPath \in Paths /\ Checked = Clean(artifactPath)
      BY <2>4 DEF PathInv, RequestOK, Checked, ArtifactPathOrDefault
    <2>6. artifactPath.parts \in Seq(Elements)
      BY <2>5 DEF Paths
    <2>7. Checked.abs = artifactPath.abs
      BY <2>5, CleanIsClean
    <2>8. ASSUME NeverAbove(artifactPath.parts), ~Checked.abs
          PROVE  Checked.parts[1] # ".."
      <3>1. Checked.parts =
               CleanedUpTo(artifactPath.abs, artifactPath.parts)
                  [Len(artifactPath.parts)]
        BY <2>5 DEF Clean, Path
      <3>2. 1 \in 1..Len(Checked.parts)
        BY <2>2, <2>3, <2>8
      <3> QED
        BY <2>6, <2>8, <3>1, <3>2, NeverAboveIsClean
    <2> QED
      BY <2>3, <2>4, <2>5, <2>7, <2>8
  <1> QED
    BY <1>1, PathsCorrect, PTL

\* What the catalog accepted, the reader opens, unless the root is "." or "/".
THEOREM AcceptedIsOpenedCorrect == Spec => []AcceptedIsOpened
  <1>1. PathInv => AcceptedIsOpened
    <2> SUFFICES ASSUME PathInv, at = "escapes", CleanRoot.parts # <<>>
                 PROVE  FALSE
      BY DEF AcceptedIsOpened, CleanRoot
    <2> DEFINE below == <<toolId>> \o Checked.parts
    <2>1. /\ root.abs \in BOOLEAN
          /\ CleanRoot = Path(root.abs, CleanRoot.parts)
          /\ CleanRoot.parts \in Seq(Elements)
      BY CleanIsClean
         DEF PathInv, RequestOK, CleanRoot, IsClean, Normal, Paths
    <2>2. below \in Seq(Elements)
      BY ResolvedIs DEF OnlyNames
    <2>3. below # <<>>
      BY ResolvedIs DEF IsClean, Normal
    <2>4. Resolved = Path(root.abs, CleanRoot.parts \o below)
      BY ResolvedIs
    <2> HIDE DEF below
    <2>5. IsPrefix(Text(CleanRoot) \o <<"/">>, Text(Resolved))
      BY <2>1, <2>2, <2>3, <2>4, TextBelow
    <2> QED
      BY <2>5 DEF PathInv, Escapes
  <1> QED
    BY <1>1, PathsCorrect, PTL
=============================================================================
