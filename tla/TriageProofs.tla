----------------------------- MODULE TriageProofs -----------------------------
(***************************************************************************)
(* Proofs about Triage: for every set of paths and names, and every length  *)
(* of the name the kernel keeps.                                            *)
(***************************************************************************)
EXTENDS Triage, SequenceTheorems, WellFoundedInduction, TLAPS

-------------------------------------------------------------------------------
(* The operators *)

LEMMA MinIs ==
  ASSUME NEW a \in Int, NEW b \in Int
  PROVE  /\ Min({a, b}) \in {a, b}
         /\ Min({a, b}) <= a
         /\ Min({a, b}) <= b
<1>1. \E x \in {a, b} : \A y \in {a, b} : x <= y
  OBVIOUS
<1> QED  BY <1>1 DEF Min

\* A set of numbers that is not empty has a least one, and a greatest if bounded.
LEMMA LeastNumber ==
  ASSUME NEW T, T \subseteq Nat, T # {}
  PROVE  \E m \in T : \A y \in T : m <= y
<1>1. PICK m \in T : \A y \in T : ~(<<y, m>> \in OpToRel(<, Nat))
  BY NatLessThanWellFounded, WFMin
<1>2. ASSUME NEW y \in T PROVE m <= y
  <2>1. CASE y < m
    <3>1. <<y, m>> \in OpToRel(<, Nat)
      BY <2>1 DEF OpToRel
    <3> QED  BY <1>1, <3>1
  <2> QED  BY <2>1
<1> QED  BY <1>2

LEMMA GreatestNumber ==
  ASSUME NEW n \in Nat, NEW T, T \subseteq 0 .. n, T # {}
  PROVE  Max(T) \in T /\ \A y \in T : Max(T) >= y
<1> DEFINE U == {n - y : y \in T}
<1>1. U \subseteq Nat /\ U # {}
  OBVIOUS
<1>2. PICK u \in U : \A v \in U : u <= v
  BY <1>1, LeastNumber
<1>3. PICK m \in T : u = n - m
  BY <1>2
<1>4. ASSUME NEW y \in T PROVE m >= y
  <2>1. n - m <= n - y
    BY <1>2, <1>3
  <2> QED  BY <2>1
<1>5. \E x \in T : \A y \in T : x >= y
  BY <1>4
<1> QED  BY <1>5 DEF Max

LEMMA SeparatorsIs ==
  ASSUME NEW p \in Seq(STRING)
  PROVE  /\ Len(p) \in Nat /\ DOMAIN p = 1 .. Len(p)
         /\ Separators(p) \subseteq 1 .. Len(p)
  BY LenProperties DEF Separators

LEMMA SubSeqIs ==
  ASSUME NEW p \in Seq(STRING), NEW m \in 1 .. Len(p) + 1, NEW n \in m - 1 .. Len(p)
  PROVE  /\ SubSeq(p, m, n) \in Seq(STRING) /\ Len(SubSeq(p, m, n)) = n - m + 1
         /\ \A i \in 1 .. n - m + 1 : SubSeq(p, m, n)[i] = p[m + i - 1]
<1>1. \A i \in m .. n : p[i] \in STRING
  BY LenProperties
<1>2. m \in Int /\ n \in Int /\ (n < m => n - m + 1 = 0)
  BY LenProperties
<1>3. /\ SubSeq(p, m, n) \in Seq(STRING)
      /\ Len(SubSeq(p, m, n)) = IF m <= n THEN n - m + 1 ELSE 0
      /\ \A i \in 1 .. n - m + 1 : SubSeq(p, m, n)[i] = p[m + i - 1]
  BY <1>1, <1>2, SubSeqProperties
<1> QED  BY <1>2, <1>3

LEMMA baseNameIs ==
  ASSUME NEW p \in Seq(STRING)
  PROVE  baseName(p) \in Seq(STRING)
<1>1. Separators(p) \cup {0} \subseteq 0 .. Len(p) /\ Len(p) \in Nat
  BY SeparatorsIs
<1>2. Max(Separators(p) \cup {0}) \in 0 .. Len(p)
  BY <1>1, GreatestNumber
<1> DEFINE m == Max(Separators(p) \cup {0})
<1>3. baseName(p) = SubSeq(p, m + 1, Len(p))
  BY DEF baseName
<1> HIDE DEF m
<1>4. m + 1 \in 1 .. Len(p) + 1 /\ Len(p) \in (m + 1) - 1 .. Len(p)
  BY <1>1, <1>2 DEF m
<1> QED  BY <1>3, <1>4, SubSeqIs

\* The kernel's name is a prefix of the base name.
LEMMA CommOfIs ==
  ASSUME NEW p \in Seq(STRING)
  PROVE  /\ CommOf(p) \in Seq(STRING)
         /\ Len(CommOf(p)) \in 0 .. Len(baseName(p))
         /\ CommOf(p) = SubSeq(baseName(p), 1, Len(CommOf(p)))
<1> DEFINE b == baseName(p)
           n == Min({Len(b), TaskCommLen - 1})
<1>1. b \in Seq(STRING) /\ Len(b) \in Nat
  BY baseNameIs, LenProperties
<1>2. CommOf(p) = SubSeq(b, 1, n)
  BY DEF CommOf
<1> HIDE DEF b
<1>3. n \in 0 .. Len(b)
  <2>1. Len(b) \in Int /\ TaskCommLen - 1 \in Int /\ TaskCommLen - 1 >= 0
    BY <1>1, TriageAssumption
  <2>2. n \in {Len(b), TaskCommLen - 1} /\ n <= Len(b)
    BY <2>1, MinIs
  <2> HIDE DEF n
  <2> QED  BY <1>1, <2>1, <2>2
<1> HIDE DEF n
<1>4. SubSeq(b, 1, n) \in Seq(STRING) /\ Len(SubSeq(b, 1, n)) = n
  BY <1>1, <1>3, SubSeqIs
<1> QED  BY <1>3, <1>2, <1>4 DEF b

\* Not taken to be masquerading: there is no name, or one continues the other.
LEMMA NotMasquerading ==
  ASSUME NEW b \in Seq(STRING), NEW c \in Seq(STRING)
  PROVE  ~isMasquerading(b, c) <=> b = <<>> \/ c = <<>> \/ IsPrefix(b, c) \/ IsPrefix(c, b)
<1> DEFINE n == Min({Len(b), Len(c)})
<1>1. Len(b) \in Nat /\ Len(c) \in Nat /\ n \in {Len(b), Len(c)} /\ n <= Len(b) /\ n <= Len(c)
  <2>1. Len(b) \in Nat /\ Len(c) \in Nat
    BY LenProperties
  <2>2. Len(b) \in Int /\ Len(c) \in Int
    BY <2>1
  <2> QED  BY <2>1, <2>2, MinIs
<1>2. isMasquerading(b, c) <=> b # <<>> /\ c # <<>> /\ SubSeq(b, 1, n) # SubSeq(c, 1, n)
  BY DEF isMasquerading
<1> HIDE DEF n
<1>3. IsPrefix(b, c) => n = Len(b) /\ SubSeq(b, 1, n) = SubSeq(c, 1, n)
  BY <1>1 DEF IsPrefix
<1>4. IsPrefix(c, b) => n = Len(c) /\ SubSeq(b, 1, n) = SubSeq(c, 1, n)
  BY <1>1 DEF IsPrefix
<1>5. SubSeq(b, 1, n) = SubSeq(c, 1, n) => IsPrefix(b, c) \/ IsPrefix(c, b)
  BY <1>1 DEF IsPrefix
<1> QED  BY <1>2, <1>3, <1>4, <1>5

-------------------------------------------------------------------------------
(* Hidden components *)

Cuts(p) == Separators(p) \cup {0, Len(p) + 1}
Ends(p, k) == k \notin DOMAIN p \/ p[k] = "/"
Between(p, i, j) == SubSeq(p, i + 1, j - 1)

LEMMA CutsAre ==
  ASSUME NEW p \in Seq(STRING)
  PROVE  /\ Len(p) \in Nat /\ DOMAIN p = 1 .. Len(p) /\ Cuts(p) \subseteq 0 .. Len(p) + 1
         /\ \A k \in 0 .. Len(p) + 1 : k \in Cuts(p) <=> Ends(p, k)
  BY LenProperties DEF Cuts, Ends, Separators

LEMMA BetweenIs ==
  ASSUME NEW p \in Seq(STRING), NEW i \in 0 .. Len(p), NEW j \in i + 1 .. Len(p) + 1
  PROVE  /\ Between(p, i, j) \in Seq(STRING) /\ Len(Between(p, i, j)) = j - i - 1
         /\ \A k \in 1 .. j - i - 1 : Between(p, i, j)[k] = p[i + k]
<1>1. /\ Len(p) \in Nat /\ i \in Int /\ j \in Int /\ i + 1 \in 1 .. Len(p) + 1
      /\ j - 1 \in (i + 1) - 1 .. Len(p) /\ (j - 1) - (i + 1) + 1 = j - i - 1
  BY LenProperties
<1>2. \A k \in 1 .. j - i - 1 : (i + 1) + k - 1 = i + k
  BY <1>1
<1>3. /\ SubSeq(p, i + 1, j - 1) \in Seq(STRING)
      /\ Len(SubSeq(p, i + 1, j - 1)) = (j - 1) - (i + 1) + 1
      /\ \A k \in 1 .. (j - 1) - (i + 1) + 1 : SubSeq(p, i + 1, j - 1)[k] = p[(i + 1) + k - 1]
  BY <1>1, SubSeqIs
<1> QED  BY <1>1, <1>2, <1>3 DEF Between

\* The parts of a path are what stands between a cut and the next one.
LEMMA PartsAre ==
  ASSUME NEW p \in Seq(STRING)
  PROVE  \A s : s \in Parts(p) <=>
           \E i, j \in Cuts(p) : /\ i < j /\ \A k \in Cuts(p) : k <= i \/ k >= j
                                /\ s = Between(p, i, j)
<1> DEFINE Adjacent == {d \in Cuts(p) \X Cuts(p) :
                        d[1] < d[2] /\ \A k \in Cuts(p) : k <= d[1] \/ k >= d[2]}
<1>1. Parts(p) = {Between(p, c[1], c[2]) : c \in Adjacent}
  BY DEF Parts, Cuts, Between
<1>2. ASSUME NEW i \in Cuts(p), NEW j \in Cuts(p), i < j, \A k \in Cuts(p) : k <= i \/ k >= j
      PROVE  Between(p, i, j) \in Parts(p)
  <2>1. <<i, j>> \in Adjacent
    BY <1>2
  <2>2. <<i, j>>[1] = i /\ <<i, j>>[2] = j
    OBVIOUS
  <2> HIDE DEF Adjacent
  <2> QED  BY <1>1, <2>1, <2>2
<1>3. ASSUME NEW s \in Parts(p)
      PROVE  \E i, j \in Cuts(p) : /\ i < j /\ \A k \in Cuts(p) : k <= i \/ k >= j
                                   /\ s = Between(p, i, j)
  <2>1. PICK c \in Adjacent : s = Between(p, c[1], c[2])
    BY <1>1
  <2>2. c[1] \in Cuts(p) /\ c[2] \in Cuts(p)
    OBVIOUS
  <2>3. c[1] < c[2] /\ \A k \in Cuts(p) : k <= c[1] \/ k >= c[2]
    OBVIOUS
  <2> HIDE DEF Adjacent
  <2> QED  BY <2>1, <2>2, <2>3
<1> HIDE DEF Adjacent
<1> QED  BY <1>2, <1>3

LEMMA ShortNames ==
  ASSUME NEW s \in Seq(STRING)
  PROVE  /\ s = <<>> <=> Len(s) = 0
         /\ s = <<".">> <=> Len(s) = 1 /\ s[1] = "."
         /\ s = <<".", ".">> <=> Len(s) = 2 /\ s[1] = "." /\ s[2] = "."
         /\ Len(s) > 0 => Head(s) = s[1]
  OBVIOUS

LEMMA HiddenAtIs ==
  ASSUME NEW p, NEW i
  PROVE  HiddenAt(p, i) <=> /\ p[i] = "." /\ Ends(p, i - 1) /\ ~Ends(p, i + 1)
                            /\ (p[i + 1] = "." => ~Ends(p, i + 2))
  BY Zenon DEF HiddenAt, Ends

\* isHiddenPath finds exactly the hidden components of every path.
LEMMA HiddenIs ==
  ASSUME NEW p \in Seq(STRING)
  PROVE  isHiddenPath(p) <=> \E i \in DOMAIN p : HiddenAt(p, i)
<1>1. /\ Len(p) \in Nat /\ DOMAIN p = 1 .. Len(p) /\ Cuts(p) \subseteq 0 .. Len(p) + 1
      /\ \A k \in 0 .. Len(p) + 1 : k \in Cuts(p) <=> Ends(p, k)
  BY CutsAre
<1>2. ASSUME isHiddenPath(p) PROVE \E i \in DOMAIN p : HiddenAt(p, i)
  <2>1. PICK s \in Parts(p) : s \notin {<<>>, <<".">>, <<".", ".">>} /\ Head(s) = "."
    BY <1>2 DEF isHiddenPath
  <2>2. PICK i \in Cuts(p), j \in Cuts(p) :
             i < j /\ (\A k \in Cuts(p) : k <= i \/ k >= j) /\ s = Between(p, i, j)
    BY <2>1, PartsAre
  <2>3. i \in 0 .. Len(p) /\ j \in i + 1 .. Len(p) + 1 /\ i \in Int /\ j \in Int
    BY <1>1, <2>2
  <2>4. /\ s \in Seq(STRING) /\ Len(s) = j - i - 1
        /\ \A k \in 1 .. j - i - 1 : s[k] = p[i + k]
    BY <2>2, <2>3, BetweenIs
  <2>5. Len(s) # 0 /\ ~(Len(s) = 1 /\ s[1] = ".") /\ ~(Len(s) = 2 /\ s[1] = "." /\ s[2] = ".")
    BY <2>1, <2>4, ShortNames
  <2>6. j >= i + 2 /\ s[1] = "."
    <3>1. j >= i + 2
      BY <2>3, <2>4, <2>5
    <3> QED  BY <2>1, <2>3, <2>4, <3>1, ShortNames
  <2>7. p[i + 1] = "." /\ i + 1 \in DOMAIN p
    <3>1. s[1] = p[i + 1]
      BY <2>3, <2>4, <2>6
    <3> QED  BY <1>1, <2>3, <2>6, <3>1
  <2>8. j >= i + 3
    BY <2>3, <2>4, <2>5, <2>6
  <2>9. Ends(p, i)
    BY <1>1, <2>2
  <2>10. ~Ends(p, i + 2)
    BY <1>1, <2>2, <2>3, <2>8
  <2>11. ASSUME p[i + 2] = "." PROVE ~Ends(p, i + 3)
    <3>1. s[2] = "."
      BY <2>3, <2>4, <2>8, <2>11
    <3>2. j >= i + 4
      BY <2>3, <2>4, <2>5, <2>6, <2>8, <3>1
    <3> QED  BY <1>1, <2>2, <2>3, <3>2
  <2>12. (i + 1) - 1 = i /\ (i + 1) + 1 = i + 2 /\ (i + 1) + 2 = i + 3
    BY <2>3
  <2>13. HiddenAt(p, i + 1)
    <3>1. HiddenAt(p, i + 1) <=>
            /\ p[i + 1] = "." /\ Ends(p, (i + 1) - 1) /\ ~Ends(p, (i + 1) + 1)
            /\ (p[(i + 1) + 1] = "." => ~Ends(p, (i + 1) + 2))
      BY HiddenAtIs, Zenon
    <3> QED  BY <2>7, <2>9, <2>10, <2>11, <2>12, <3>1
  <2> QED  BY <2>7, <2>13
<1>3. ASSUME NEW q \in DOMAIN p, HiddenAt(p, q) PROVE isHiddenPath(p)
  <2>1. q \in 1 .. Len(p) /\ q \in Int /\ p[q] = "." /\ Ends(p, q - 1) /\ ~Ends(p, q + 1)
    <3>1. p[q] = "." /\ Ends(p, q - 1) /\ ~Ends(p, q + 1)
      BY <1>3, HiddenAtIs, Zenon
    <3>2. q \in 1 .. Len(p)
      BY <1>1
    <3> QED  BY <1>1, <3>1, <3>2
  <2>2. p[q + 1] = "." => ~Ends(p, q + 2)
    BY <1>3, HiddenAtIs, Zenon
  <2>3. q - 1 \in Cuts(p)
    BY <1>1, <2>1
  <2> DEFINE Later == {k \in Cuts(p) : k >= q}
  <2>4. Later \subseteq Nat /\ Len(p) + 1 \in Later
    BY <1>1, <2>1 DEF Cuts
  <2>5. PICK j \in Later : \A k \in Later : j <= k
    BY <2>4, LeastNumber
  <2>6. j \in Cuts(p) /\ j \in Int /\ j >= q /\ j <= Len(p) + 1
    BY <1>1, <2>5
  <2>7. \A k \in Cuts(p) : k <= q - 1 \/ k >= j
    BY <1>1, <2>1, <2>5, <2>6
  <2>8. j # q /\ j # q + 1
    <3>1. ~Ends(p, q)
      BY <2>1, <1>1 DEF Ends
    <3> QED  BY <1>1, <2>1, <2>6, <3>1
  <2> HIDE DEF Later
  <2>9. q - 1 \in 0 .. Len(p) /\ j \in (q - 1) + 1 .. Len(p) + 1 /\ j - (q - 1) - 1 = j - q /\ j - q >= 2
    BY <2>1, <2>6, <2>8
  <2> DEFINE s == Between(p, q - 1, j)
  <2>10. s \in Parts(p)
    <3>1. q - 1 < j
      BY <2>1, <2>9
    <3> QED  BY <2>3, <2>6, <2>7, <3>1, PartsAre
  <2>11. /\ s \in Seq(STRING) /\ Len(s) = j - (q - 1) - 1
         /\ \A k \in 1 .. j - (q - 1) - 1 : s[k] = p[(q - 1) + k]
    BY <2>9, BetweenIs
  <2> HIDE DEF s
  <2>12. Len(s) = j - q /\ Len(s) >= 2 /\ s[1] = p[q] /\ s[2] = p[q + 1]
    <3>1. (q - 1) + 1 = q /\ (q - 1) + 2 = q + 1
      BY <2>1
    <3>2. 1 \in 1 .. j - (q - 1) - 1 /\ 2 \in 1 .. j - (q - 1) - 1
      BY <2>9
    <3>3. s[1] = p[q] /\ s[2] = p[q + 1]
      BY <2>11, <3>1, <3>2
    <3> QED  BY <2>1, <2>6, <2>9, <2>11, <3>3
  <2>13. ~(Len(s) = 2 /\ s[2] = ".")
    <3>1. ASSUME Len(s) = 2, s[2] = "." PROVE FALSE
      <4>1. j = q + 2
        <5>1. j - q = 2
          BY <2>12, <3>1
        <5>2. q \in Int /\ j \in Int
          BY <2>1, <2>6
        <5> QED  BY <5>1, <5>2
      <4>2. ~Ends(p, q + 2)
        BY <2>2, <2>12, <3>1
      <4> QED  BY <1>1, <2>6, <4>1, <4>2, <2>9
    <3> QED  BY <3>1
  <2>14. s \notin {<<>>, <<".">>, <<".", ".">>} /\ Head(s) = "."
    <3>1. Len(s) # 0 /\ Len(s) # 1
      BY <2>12
    <3>2. s # <<>> /\ s # <<".">> /\ s # <<".", ".">>
      <4>1. /\ s = <<>> => Len(s) = 0
            /\ s = <<".">> => Len(s) = 1
            /\ s = <<".", ".">> => Len(s) = 2 /\ s[2] = "."
        BY <2>11, ShortNames
      <4> QED  BY <2>13, <3>1, <4>1, Zenon
    <3>3. Head(s) = s[1]
      BY <2>11, <2>12, ShortNames
    <3> QED  BY <3>2, <3>3, <2>1, <2>12
  <2> QED  BY <2>10, <2>14 DEF isHiddenPath
<1> QED  BY <1>2, <1>3

-------------------------------------------------------------------------------
(* The events of a process *)

\* An unchanged name is the one the kernel made of the program's path.
NameInv ==
    /\ image \in Paths
    /\ own => comm = CommOf(image)
    /\ event.path \in Paths \cup {<<>>}
    /\ event.own => event.of \in Paths /\ event.comm = CommOf(event.of)

LEMMA NameAlways == Spec => []NameInv
<1>1. Init => NameInv
  BY DEF Init, NameInv, NoEvent
<1>2. NameInv /\ [Next]_vars => NameInv'
  <2> SUFFICES ASSUME NameInv, [Next]_vars PROVE NameInv'
    OBVIOUS
  <2>1. ASSUME NEW p \in Paths, NEW x \in BOOLEAN, Exec(p, x) PROVE NameInv'
    <3>1. event'.path = p /\ event'.comm = comm /\ event'.of = image /\ event'.own = own
      BY <2>1 DEF Exec
    <3>2. image' \in Paths /\ (own' => comm' = CommOf(image'))
      BY <2>1 DEF Exec, NameInv
    <3> QED  BY <3>1, <3>2 DEF NameInv
  <2>2. ASSUME NEW n \in Names, Rename(n) PROVE NameInv'
    BY <2>2 DEF Rename, NameInv
  <2>3. CASE UNCHANGED vars
    BY <2>3 DEF vars, NameInv
  <2> QED  BY <2>1, <2>2, <2>3 DEF Next
<1> QED  BY <1>1, <1>2, PTL DEF Spec

\* A process that executes a program of its own name, and has not renamed itself,
\* is never taken to be masquerading, for every length the kernel cuts names to.
THEOREM ReexecsAreNotFlagged == Spec => []ReexecNotFlagged
<1>1. NameInv => ReexecNotFlagged
  <2> SUFFICES ASSUME NameInv, event.own, baseName(event.path) = baseName(event.of)
               PROVE  ~isMasquerading(baseName(event.path), event.comm)
    BY DEF ReexecNotFlagged
  <2> DEFINE b == baseName(event.of)
  <2>1. event.of \in Seq(STRING) /\ event.comm = CommOf(event.of)
    BY TriageAssumption DEF NameInv
  <2>2. /\ event.comm \in Seq(STRING) /\ Len(event.comm) \in 0 .. Len(b)
        /\ event.comm = SubSeq(b, 1, Len(event.comm)) /\ b \in Seq(STRING)
    BY <2>1, CommOfIs, baseNameIs
  <2>3. SubSeq(event.comm, 1, Len(event.comm)) = event.comm
    BY <2>2, SubSeqFull
  <2>4. IsPrefix(event.comm, b)
    BY <2>2, <2>3, LenProperties DEF IsPrefix
  <2> QED  BY <2>2, <2>4, NotMasquerading
<1> QED  BY <1>1, NameAlways, PTL

\* What triage keeps from the hunter, of a process with its own name, is only the
\* execution of a namesake or of a directory, whatever the tables contain.
THEOREM DroppedAreNamesakes == Spec => []DroppedIsNamesake
<1>1. NameInv => DroppedIsNamesake
  <2> SUFFICES ASSUME NameInv, event.own, ~IsSuspicious(event.path, event.comm, event.exec)
               PROVE  LET old == CommOf(event.of)
                          new == baseName(event.path)
                      IN  new = <<>> \/ IsPrefix(old, new) \/ IsPrefix(new, old)
    BY DEF DroppedIsNamesake
  <2> DEFINE old == CommOf(event.of)
             new == baseName(event.path)
  <2>1. event.of \in Seq(STRING) /\ event.comm = old /\ event.path \in Seq(STRING)
    <3>1. event.of \in Paths /\ event.comm = old /\ event.path \in Paths \cup {<<>>}
      BY DEF NameInv
    <3>2. <<>> \in Seq(STRING)
      OBVIOUS
    <3> QED  BY <3>1, <3>2, TriageAssumption
  <2>2. old \in Seq(STRING) /\ new \in Seq(STRING) /\ Len(new) \in Nat
    BY <2>1, CommOfIs, baseNameIs, LenProperties
  <2>3. ~isMasquerading(new, old)
    BY <2>1 DEF IsSuspicious
  <2> HIDE DEF old, new
  <2>4. old = <<>> => IsPrefix(old, new)
    BY <2>2 DEF IsPrefix
  <2>5. new = <<>> \/ IsPrefix(old, new) \/ IsPrefix(new, old)
    BY <2>2, <2>3, <2>4, NotMasquerading
  <2> QED  BY <2>5 DEF old, new
<1> QED  BY <1>1, NameAlways, PTL

\* Every path the process executes is taken to be hidden exactly when a component
\* of it starts with a dot and is more than "." or "..".
THEOREM HiddenPathsAreFound == Spec => []HiddenFound
<1>1. NameInv => HiddenFound
  <2> SUFFICES ASSUME NameInv PROVE HiddenFound
    OBVIOUS
  <2>1. event.path \in Seq(STRING)
    <3>1. event.path \in Paths \cup {<<>>} /\ <<>> \in Seq(STRING)
      BY DEF NameInv
    <3> QED  BY <3>1, TriageAssumption
  <2> QED  BY <2>1, HiddenIs DEF HiddenFound
<1> QED  BY <1>1, NameAlways, PTL
===============================================================================
