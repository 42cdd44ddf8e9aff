----------------------------- MODULE SensorProofs -----------------------------
(***************************************************************************)
(* Proofs about Sensor: for any number of CPUs, calls and slots, and every  *)
(* size of the record's buffers.                                            *)
(***************************************************************************)
EXTENDS Sensor, FiniteSetTheorems, SequenceTheorems, WellFoundedInduction, TLAPS

-------------------------------------------------------------------------------
(* The operators *)

LEMMA LeastIs ==
  ASSUME NEW a \in Int, NEW b \in Int
  PROVE  /\ Least(a, b) \in Int
         /\ Least(a, b) <= a
         /\ Least(a, b) <= b
         /\ a <= b => Least(a, b) = a
         /\ b <= a => Least(a, b) = b
  BY DEF Least

\* A set of numbers that is not empty has a least one.
LEMMA LeastNumber ==
  ASSUME NEW T, T \subseteq Nat, T # {}
  PROVE  \E m \in T : \A y \in T : m <= y
<1>1. PICK m \in T : \A y \in T : ~(<<y, m>> \in OpToRel(<, Nat))
  BY NatLessThanWellFounded, WFMin
<1>2. ASSUME NEW y \in T PROVE m <= y
  <2>1. CASE y < m
    <3>1. <<y, m>> \in OpToRel(<, Nat)
      BY <2>1 DEF OpToRel
    <3> QED  BY <1>1, <3>1
  <2> QED  BY <2>1
<1> QED  BY <1>2

\* The longest prefix exists, and is one.
LEMMA LeadingIs ==
  ASSUME NEW T, NEW s \in Seq(T), NEW S
  PROVE  /\ Leading(s, S) \in 0 .. Len(s)
         /\ \A i \in 1 .. Leading(s, S) : s[i] \in S
         /\ Leading(s, S) < Len(s) => s[Leading(s, S) + 1] \notin S
         /\ (\A i \in 1 .. Len(s) : s[i] \in S) => Leading(s, S) = Len(s)
<1> DEFINE P == {n \in 0 .. Len(s) : \A i \in 1 .. n : s[i] \in S}
           Bad == {n \in Nat : n + 1 \in 1 .. Len(s) /\ s[n + 1] \notin S}
<1>1. Len(s) \in Nat
  OBVIOUS
<1>2. ASSUME NEW m \in P, \A y \in P : m >= y, Leading(s, S) \in P, \A y \in P : Leading(s, S) >= y
      PROVE  Leading(s, S) = m
  BY <1>1, <1>2
<1>3. ASSUME NEW m \in P, \A y \in P : m >= y PROVE Leading(s, S) \in P /\ \A y \in P : Leading(s, S) >= y
  BY <1>3 DEF Leading, Max
<1>4. CASE Bad = {}
  <2>1. \A i \in 1 .. Len(s) : s[i] \in S
    <3> SUFFICES ASSUME NEW i \in 1 .. Len(s), s[i] \notin S PROVE FALSE
      OBVIOUS
    <3>1. i - 1 \in Nat /\ (i - 1) + 1 = i
      BY <1>1
    <3> QED  BY <1>4, <3>1
  <2>2. Len(s) \in P /\ \A y \in P : Len(s) >= y
    BY <1>1, <2>1
  <2>3. Leading(s, S) = Len(s)
    BY <1>2, <1>3, <2>2
  <2> QED  BY <1>1, <2>1, <2>3
<1>5. CASE Bad # {}
  <2>1. PICK m \in Bad : \A y \in Bad : m <= y
    BY <1>5, LeastNumber
  <2>2. m \in Nat /\ m + 1 \in 1 .. Len(s) /\ s[m + 1] \notin S
    OBVIOUS
  <2>3. \A i \in 1 .. m : s[i] \in S
    <3> SUFFICES ASSUME NEW i \in 1 .. m, s[i] \notin S PROVE FALSE
      OBVIOUS
    <3>1. i - 1 \in Nat /\ (i - 1) + 1 = i /\ i - 1 < m /\ i \in 1 .. Len(s)
      BY <1>1, <2>2
    <3>2. i - 1 \in Bad
      BY <3>1
    <3>3. m <= i - 1
      BY <2>1, <3>2
    <3> QED  BY <2>2, <3>1, <3>3
  <2>4. m \in P
    BY <1>1, <2>2, <2>3
  <2>5. ASSUME NEW y \in P PROVE m >= y
    <3>1. y \in Nat /\ \A i \in 1 .. y : s[i] \in S
      BY <1>1
    <3>2. CASE y > m
      BY <2>2, <3>1, <3>2
    <3> QED  BY <2>2, <3>1, <3>2
  <2>6. Leading(s, S) = m
    BY <1>2, <1>3, <2>4, <2>5
  <2> QED  BY <1>1, <2>2, <2>3, <2>6
<1> QED  BY <1>4, <1>5

\* Fewer than S consecutive numbers differ modulo S.
LEMMA ModuloDiffers ==
  ASSUME NEW S \in Nat \ {0}, NEW a \in Nat, NEW b \in Nat, a < b, b < a + S
  PROVE  a % S # b % S
<1> SUFFICES ASSUME a % S = b % S PROVE FALSE
  OBVIOUS
<1> DEFINE p == a \div S
           q == b \div S
           r == a % S
<1>1. p \in Int /\ q \in Int /\ r \in Int /\ a = p * S + r /\ b = q * S + r
  <2>1. \A n \in Nat : n = (n \div S) * S + (n % S) /\ n \div S \in Int /\ n % S \in Int
    OBVIOUS
  <2> QED  BY <2>1
<1> HIDE DEF p, q, r
<1>2. b - a = (q - p) * S
  BY <1>1
<1>3. CASE q - p <= 0
  BY <1>1, <1>2, <1>3
<1>4. CASE q - p >= 1
  BY <1>1, <1>2, <1>4
<1> QED  BY <1>1, <1>3, <1>4

-------------------------------------------------------------------------------
(* The record *)

Zeros(n) == [j \in 1 .. n |-> 0]

LEMMA ZerosIs ==
  ASSUME NEW n \in Nat
  PROVE  Zeros(n) \in Seq({0}) /\ Len(Zeros(n)) = n /\ DOMAIN Zeros(n) = 1 .. n
  BY DEF Zeros

LEMMA IdsIs == Ids \subseteq Nat \ {0} /\ Ids \subseteq 0 .. MaxExecs /\ 0 \in 0 .. MaxExecs /\ 0 \notin Ids
  BY SensorAssumption DEF Ids

\* A buffer of zeros after bpf_probe_read_user_str_bytes.
LEMMA StrBytesIs ==
  ASSUME NEW size \in Nat \ {0}, NEW n \in Int, NEW i \in Ids
  PROVE  /\ StrBytes(Zeros(size), n, i) \in [1 .. size -> 0 .. MaxExecs]
         /\ n >= 0 => \A j \in 1 .. Least(n, size - 1) : StrBytes(Zeros(size), n, i)[j] = i
<1> DEFINE k == Least(n, size - 1)
<1>1. Len(Zeros(size)) = size /\ DOMAIN Zeros(size) = 1 .. size /\ \A j \in 1 .. size : Zeros(size)[j] = 0
  BY ZerosIs DEF Zeros
<1>2. StrBytes(Zeros(size), n, i) =
        [j \in 1 .. size |-> IF n = Unreadable \/ j = k + 1 THEN 0 ELSE IF j <= k THEN i ELSE Zeros(size)[j]]
  BY <1>1 DEF StrBytes
<1>3. k \in Int /\ k <= size - 1 /\ i \in 0 .. MaxExecs /\ 0 \in 0 .. MaxExecs
  BY LeastIs, IdsIs
<1> HIDE DEF k
<1>4. StrBytes(Zeros(size), n, i) \in [1 .. size -> 0 .. MaxExecs]
  BY <1>1, <1>2, <1>3
<1>5. ASSUME n >= 0, NEW j \in 1 .. k PROVE StrBytes(Zeros(size), n, i)[j] = i
  BY <1>1, <1>2, <1>3, <1>5 DEF Unreadable
<1> QED  BY <1>4, <1>5 DEF k

\* What cStringN returns of n bytes that are all the same character.
LEMMA cStringNIs ==
  ASSUME NEW size \in Nat \ {0}, NEW b \in [1 .. size -> 0 .. MaxExecs], NEW n \in 0 .. size,
         NEW i \in Ids, \A j \in 1 .. n : b[j] = i
  PROVE  cStringN(b, n) = [j \in 1 .. n |-> i]
<1> DEFINE head == SubSeq(b, 1, n)
<1>1. b \in Seq(0 .. MaxExecs) /\ Len(b) = size
  <2>1. b \in Seq(0 .. MaxExecs)
    BY SeqDef
  <2>2. 1 .. Len(b) = 1 .. size /\ Len(b) \in Nat
    BY <2>1, LenProperties
  <2> QED  BY <2>1, <2>2
<1>2. Least(n, Len(b)) = n
  BY <1>1, LeastIs
<1>3. head \in Seq(0 .. MaxExecs) /\ Len(head) = n /\ \A j \in 1 .. n : head[j] = i
  <2>1. \A j \in 1 .. n : b[j] \in 0 .. MaxExecs
    OBVIOUS
  <2> QED  BY <2>1, SubSeqProperties
<1> HIDE DEF head
<1>4. head = [j \in 1 .. n |-> i]
  <2>1. head \in [1 .. n -> 0 .. MaxExecs]
    BY <1>3, LenProperties
  <2> QED  BY <1>3, <2>1
<1>5. Leading(head, Ids) = n
  <2>1. \A j \in 1 .. Len(head) : head[j] \in Ids
    BY <1>3
  <2> QED  BY <1>3, <2>1, LeadingIs
<1>6. SubSeq(head, 1, n) = head
  BY <1>3, SubSeqFull
<1> QED  BY <1>2, <1>4, <1>5, <1>6 DEF cStringN, head

\* The i-th execve c as the broker decodes it from raw.
Faithful(raw, c, i) ==
    LET e == Decode(raw)
    IN  /\ e.Filename = Passed(i, c.name, MaxFilename)
        /\ e.Args = [a \in 1 .. ArgCount(c.argv) |-> Passed(i, c.argv[a], MaxArgLen)]
        /\ Faulted(c) => e.Truncated
        /\ e.Truncated => \/ Incomplete(c.name, MaxFilename)
                          \/ \E a \in DOMAIN c.argv : Incomplete(c.argv[a], MaxArgLen)

LEMMA CallTypes ==
  ASSUME NEW c \in Calls
  PROVE  c.name \in Int /\ c.argv \in Seq(Int) /\ Len(c.argv) \in Nat
  BY SensorAssumption

LEMMA ArgCountIs ==
  ASSUME NEW argv \in Seq(Int)
  PROVE  /\ ArgCount(argv) \in 0 .. MaxArgs
         /\ \A a \in 1 .. ArgCount(argv) : argv[a] \in Nat
<1>1. Leading(argv, Nat) \in Nat /\ \A a \in 1 .. Leading(argv, Nat) : argv[a] \in Nat
  BY LeadingIs
<1>2. ArgCount(argv) \in Int /\ ArgCount(argv) <= MaxArgs /\ ArgCount(argv) <= Leading(argv, Nat)
  <2>1. MaxArgs \in Int /\ Leading(argv, Nat) \in Int
    BY <1>1, SensorAssumption
  <2> QED  BY <2>1, LeastIs DEF ArgCount
<1>3. ArgCount(argv) >= 0
  BY <1>1, SensorAssumption DEF ArgCount, Least
<1> QED  BY <1>1, <1>2, <1>3, SensorAssumption

\* Nothing of a record depends on what was in its slot.
LEMMA CaptureForgets ==
  ASSUME NEW m, NEW c, NEW i
  PROVE  Capture(m, c, i) = Capture(Blank, c, i)
  BY DEF Capture, Zeroed

LEMMA RecordIn ==
  ASSUME NEW F, NEW FL, NEW AS, NEW AL, NEW AC, NEW TR,
         NEW f \in F, NEW fl \in FL, NEW as \in AS, NEW al \in AL, NEW ac \in AC, NEW tr \in TR
  PROVE  [filename |-> f, filename_len |-> fl, args |-> as, arg_lens |-> al, argc |-> ac, truncated |-> tr]
           \in [filename : F, filename_len : FL, args : AS, arg_lens : AL, argc : AC, truncated : TR]
  OBVIOUS

\* What the program writes has the type of a record.
LEMMA CaptureTypes ==
  ASSUME NEW c \in Calls, NEW i \in Ids
  PROVE  Capture(Blank, c, i) \in ExecEvents
<1> DEFINE argc == ArgCount(c.argv)
           fails == argc < Least(MaxArgs, Len(c.argv)) /\ c.argv[argc + 1] = Unreadable
           f == IF c.name = NoPointer THEN Zeros(MaxFilename)
                ELSE StrBytes(Zeros(MaxFilename), c.name, i)
           fl == IF c.name < 0 THEN 0 ELSE Least(c.name, MaxFilename - 1)
           as == [a \in 1 .. MaxArgs |->
                    IF a <= argc \/ (fails /\ a = argc + 1)
                    THEN StrBytes(Zeros(MaxArgLen), c.argv[a], i) ELSE Zeros(MaxArgLen)]
           al == [a \in 1 .. MaxArgs |-> IF a <= argc THEN Least(c.argv[a], MaxArgLen - 1) ELSE 0]
           tr == IF c.name < 0 \/ fails THEN 1 ELSE 0
<1>1. Capture(Blank, c, i) = [filename |-> f, filename_len |-> fl, args |-> as, arg_lens |-> al,
                              argc |-> argc, truncated |-> tr]
  BY DEF Capture, Zeroed, Blank, Zeros
<1>2. /\ MaxFilename \in Nat \ {0} /\ MaxArgs \in Nat \ {0} /\ MaxArgLen \in Nat \ {0}
      /\ c.name \in Int /\ c.argv \in Seq(Int) /\ Len(c.argv) \in Nat
      /\ argc \in 0 .. MaxArgs /\ \A a \in 1 .. argc : c.argv[a] \in Nat
  BY SensorAssumption, CallTypes, ArgCountIs
<1>3. ASSUME NEW n \in Nat PROVE Zeros(n) \in [1 .. n -> 0 .. MaxExecs]
  BY IdsIs DEF Zeros
<1>4. f \in [1 .. MaxFilename -> 0 .. MaxExecs]
  BY <1>2, <1>3, StrBytesIs
<1>5. ASSUME NEW n \in Nat, NEW m \in Nat \ {0} PROVE Least(n, m - 1) \in 0 .. m - 1
  BY DEF Least
<1>6. fl \in 0 .. MaxFilename - 1
  BY <1>2, <1>5
<1>7. ASSUME NEW a \in 1 .. MaxArgs PROVE as[a] \in [1 .. MaxArgLen -> 0 .. MaxExecs]
  <2>1. CASE a <= argc
    <3>1. a \in 1 .. argc
      BY <1>2, <2>1
    <3>2. c.argv[a] \in Int
      BY <1>2, <3>1
    <3>3. StrBytes(Zeros(MaxArgLen), c.argv[a], i) \in [1 .. MaxArgLen -> 0 .. MaxExecs]
      BY <1>2, <3>2, StrBytesIs
    <3> QED  BY <2>1, <3>3
  <2>2. CASE fails /\ a = argc + 1
    <3>1. c.argv[a] = Unreadable /\ Unreadable \in Int
      BY <2>2 DEF Unreadable
    <3> QED  BY <1>2, <2>2, <3>1, StrBytesIs
  <2>3. CASE ~(a <= argc) /\ ~(fails /\ a = argc + 1)
    BY <1>2, <1>3, <2>3
  <2> QED  BY <2>1, <2>2, <2>3
<1>8. as \in [1 .. MaxArgs -> [1 .. MaxArgLen -> 0 .. MaxExecs]]
  BY <1>7
<1>9. ASSUME NEW a \in 1 .. MaxArgs PROVE al[a] \in 0 .. MaxArgLen - 1
  <2>1. CASE a <= argc
    <3>1. a \in 1 .. argc
      BY <1>2, <2>1
    <3>2. Least(c.argv[a], MaxArgLen - 1) \in 0 .. MaxArgLen - 1
      BY <1>2, <1>5, <3>1
    <3> QED  BY <2>1, <3>2
  <2> QED  BY <1>2, <2>1
<1>10. al \in [1 .. MaxArgs -> 0 .. MaxArgLen - 1]
  BY <1>9
<1>11. tr \in {0, 1} /\ argc \in 0 .. MaxArgs
  BY <1>2
<1> HIDE DEF argc, fails, f, fl, as, al, tr
<1>12. [filename |-> f, filename_len |-> fl, args |-> as, arg_lens |-> al, argc |-> argc, truncated |-> tr]
         \in ExecEvents
  BY <1>4, <1>6, <1>8, <1>10, <1>11, RecordIn, Zenon DEF ExecEvents
<1> QED  BY <1>1, <1>12

\* What cStringN returns of a buffer the program has filled.
LEMMA StringComesThrough ==
  ASSUME NEW size \in Nat \ {0}, NEW n \in Nat, NEW i \in Ids
  PROVE  cStringN(StrBytes(Zeros(size), n, i), Least(n, size - 1)) = Passed(i, n, size)
<1> DEFINE k == Least(n, size - 1)
           b == StrBytes(Zeros(size), n, i)
<1>1. k \in 0 .. size
  BY DEF Least
<1>2. b \in [1 .. size -> 0 .. MaxExecs] /\ \A j \in 1 .. k : b[j] = i
  BY StrBytesIs
<1>3. cStringN(b, k) = [j \in 1 .. k |-> i]
  <2> HIDE DEF k, b
  <2> QED  BY <1>1, <1>2, cStringNIs
<1> QED  BY <1>3 DEF Passed

\* A string that could not be read has length 0 in the record.
LEMMA NothingComesThrough ==
  ASSUME NEW size \in Nat \ {0}, NEW b \in [1 .. size -> 0 .. MaxExecs], NEW n \in Int, n < 0, NEW i \in Ids
  PROVE  cStringN(b, 0) = Passed(i, n, size)
<1>1. cStringN(b, 0) = [j \in 1 .. 0 |-> i]
  BY cStringNIs
<1>2. 1 .. Least(n, size - 1) = {} /\ 1 .. 0 = {}
  BY DEF Least
<1> QED  BY <1>1, <1>2 DEF Passed

\* The loop over argv stops at the first argument that faults.
LEMMA FirstFault ==
  ASSUME NEW argv \in Seq(Int), NEW a \in 1 .. Least(MaxArgs, Len(argv)),
         argv[a] = Unreadable, \A b \in 1 .. a - 1 : argv[b] >= 0
  PROVE  ArgCount(argv) < Least(MaxArgs, Len(argv)) /\ argv[ArgCount(argv) + 1] = Unreadable
<1> DEFINE n == Leading(argv, Nat)
<1>1. MaxArgs \in Nat /\ Len(argv) \in Nat
  BY SensorAssumption, LenProperties
<1>2. a \in Nat /\ 1 <= a /\ a <= MaxArgs /\ a <= Len(argv)
  BY <1>1 DEF Least
<1>3. /\ n \in 0 .. Len(argv)
      /\ \A b \in 1 .. n : argv[b] \in Nat
      /\ n < Len(argv) => argv[n + 1] \notin Nat
  BY LeadingIs
<1>4. \A b \in 1 .. a - 1 : argv[b] \in Nat
  <2> SUFFICES ASSUME NEW b \in 1 .. a - 1 PROVE argv[b] \in Nat
    OBVIOUS
  <2>1. argv[b] \in Int /\ argv[b] >= 0
    BY <1>1, <1>2, LenProperties
  <2> QED  BY <2>1
<1>5. n < a
  BY <1>2, <1>3 DEF Unreadable
<1>6. ~(n < a - 1)
  <2> SUFFICES ASSUME n < a - 1 PROVE FALSE
    OBVIOUS
  <2>1. n + 1 \in 1 .. a - 1 /\ n < Len(argv)
    BY <1>1, <1>2, <1>3
  <2> QED  BY <1>3, <1>4, <2>1
<1>7. n = a - 1
  BY <1>2, <1>3, <1>5, <1>6
<1>8. ArgCount(argv) = a - 1
  BY <1>1, <1>2, <1>7 DEF ArgCount, Least
<1>9. ArgCount(argv) < Least(MaxArgs, Len(argv))
  BY <1>1, <1>2, <1>8 DEF Least
<1>10. ArgCount(argv) + 1 = a
  BY <1>2, <1>8
<1> QED  BY <1>9, <1>10

\* The record the program writes decodes to what the call passed.
LEMMA CaptureFaithful ==
  ASSUME NEW c \in Calls, NEW i \in Ids
  PROVE  Faithful(Capture(Blank, c, i), c, i)
<1> DEFINE raw == Capture(Blank, c, i)
           argc == ArgCount(c.argv)
           fails == argc < Least(MaxArgs, Len(c.argv)) /\ c.argv[argc + 1] = Unreadable
<1>1. /\ MaxFilename \in Nat \ {0} /\ MaxArgs \in Nat \ {0} /\ MaxArgLen \in Nat \ {0}
      /\ c.name \in Int /\ c.argv \in Seq(Int) /\ Len(c.argv) \in Nat
      /\ argc \in 0 .. MaxArgs /\ \A a \in 1 .. argc : c.argv[a] \in Nat
  BY SensorAssumption, CallTypes, ArgCountIs
<1>2. raw \in ExecEvents
  BY CaptureTypes
<1>3. /\ c.name >= 0 => raw.filename = StrBytes(Zeros(MaxFilename), c.name, i)
      /\ c.name >= 0 => raw.filename_len = Least(c.name, MaxFilename - 1)
      /\ c.name < 0 => raw.filename_len = 0
  BY <1>1 DEF Capture, Zeroed, Blank, Zeros, NoPointer
<1>4. \A a \in 1 .. MaxArgs : a <= argc =>
        /\ raw.args[a] = StrBytes(Zeros(MaxArgLen), c.argv[a], i)
        /\ raw.arg_lens[a] = Least(c.argv[a], MaxArgLen - 1)
  BY DEF Capture, Zeroed, Blank, Zeros
<1>5. raw.argc = argc
  BY DEF Capture
<1>6. raw.truncated # 0 <=> c.name < 0 \/ fails
  BY DEF Capture
<1>6a. ASSUME NEW a \in 1 .. Least(MaxArgs, Len(c.argv)), c.argv[a] = Unreadable,
              \A b \in 1 .. a - 1 : c.argv[b] >= 0
       PROVE  fails
  BY <1>1, <1>6a, FirstFault
<1>7. fails => argc + 1 \in DOMAIN c.argv /\ c.argv[argc + 1] < 0
  <2> SUFFICES ASSUME fails PROVE argc + 1 \in DOMAIN c.argv /\ c.argv[argc + 1] < 0
    OBVIOUS
  <2>1. Least(MaxArgs, Len(c.argv)) \in Int /\ Least(MaxArgs, Len(c.argv)) <= Len(c.argv)
    <3>1. MaxArgs \in Int /\ Len(c.argv) \in Int
      BY <1>1
    <3> HIDE DEF fails
    <3> QED  BY <3>1, LeastIs
  <2>2. argc \in Nat /\ argc < Len(c.argv)
    <3>1. argc \in Nat /\ argc < Least(MaxArgs, Len(c.argv)) /\ Len(c.argv) \in Nat
      BY <1>1
    <3> HIDE DEF argc, fails
    <3>2. \A x, y, z \in Int : x < y /\ y <= z => x < z
      OBVIOUS
    <3> QED  BY <2>1, <3>1, <3>2
  <2>3. argc + 1 \in 1 .. Len(c.argv)
    BY <1>1, <2>2
  <2> QED  BY <1>1, <2>3, LenProperties DEF Unreadable
<1> HIDE DEF raw, argc, fails
<1>8. cStringN(raw.filename, raw.filename_len) = Passed(i, c.name, MaxFilename)
  <2>1. CASE c.name >= 0
    BY <1>1, <1>3, <2>1, StringComesThrough
  <2>2. CASE c.name < 0
    <3>1. raw.filename \in [1 .. MaxFilename -> 0 .. MaxExecs]
      BY <1>2 DEF ExecEvents
    <3> QED  BY <1>1, <1>3, <2>2, <3>1, NothingComesThrough
  <2> QED  BY <1>1, <2>1, <2>2
<1>9. ASSUME NEW a \in 1 .. argc
      PROVE  cStringN(raw.args[a], raw.arg_lens[a]) = Passed(i, c.argv[a], MaxArgLen)
  <2>1. a \in 1 .. MaxArgs /\ a <= argc /\ c.argv[a] \in Nat
    BY <1>1
  <2> QED  BY <1>1, <1>4, <2>1, StringComesThrough
<1>10. Least(raw.argc, MaxArgs) = argc
  BY <1>1, <1>5, LeastIs
<1>11. [a \in 1 .. argc |-> cStringN(raw.args[a], raw.arg_lens[a])]
         = [a \in 1 .. argc |-> Passed(i, c.argv[a], MaxArgLen)]
  BY <1>9
<1>12. /\ Decode(raw).Filename = Passed(i, c.name, MaxFilename)
       /\ Decode(raw).Args = [a \in 1 .. argc |-> Passed(i, c.argv[a], MaxArgLen)]
       /\ Decode(raw).Truncated <=> c.name < 0 \/ fails
  BY <1>6, <1>8, <1>10, <1>11 DEF Decode
<1>13. Faulted(c) => Decode(raw).Truncated
  BY <1>12, <1>6a DEF Faulted
<1>14. Decode(raw).Truncated => \/ Incomplete(c.name, MaxFilename)
                                \/ \E a \in DOMAIN c.argv : Incomplete(c.argv[a], MaxArgLen)
  BY <1>7, <1>12 DEF Incomplete
<1> QED  BY <1>12, <1>13, <1>14 DEF Faithful, raw, argc

-------------------------------------------------------------------------------
(* Type correctness *)

Entries == [id : Ids, slot : 1 .. Slots, busy : BOOLEAN]

LEMMA RingTypes ==
  ASSUME TypeOK
  PROVE  /\ ring \in Seq(Entries) /\ Len(ring) \in Nat /\ DOMAIN ring = 1 .. Len(ring)
         /\ \A k \in DOMAIN ring : ring[k].id \in Ids /\ ring[k].slot \in 1 .. Slots /\ ring[k].busy \in BOOLEAN
         /\ call \in Seq(Calls) /\ Len(call) \in Nat /\ \A i \in 1 .. Len(call) : call[i] \in Calls
         /\ running \in [CPUs -> 0 .. Len(call)]
<1>1. ring \in Seq(Entries) /\ call \in Seq(Calls)
  BY DEF TypeOK, Entries
<1>2. \A k \in DOMAIN ring : ring[k] \in Entries
  BY <1>1, LenProperties
<1> QED  BY <1>1, <1>2, LenProperties DEF TypeOK, Entries

LEMMA BlankTypes == Blank \in ExecEvents
<1> DEFINE z(n) == [j \in 1 .. n |-> 0]
<1>1. Blank = [filename |-> z(MaxFilename), filename_len |-> 0,
               args |-> [a \in 1 .. MaxArgs |-> z(MaxArgLen)], arg_lens |-> z(MaxArgs),
               argc |-> 0, truncated |-> 0]
  BY DEF Blank
<1>2. /\ z(MaxFilename) \in [1 .. MaxFilename -> 0 .. MaxExecs]
      /\ 0 \in 0 .. MaxFilename - 1
      /\ [a \in 1 .. MaxArgs |-> z(MaxArgLen)] \in [1 .. MaxArgs -> [1 .. MaxArgLen -> 0 .. MaxExecs]]
      /\ z(MaxArgs) \in [1 .. MaxArgs -> 0 .. MaxArgLen - 1]
      /\ 0 \in 0 .. MaxArgs /\ 0 \in {0, 1}
  BY SensorAssumption
<1> HIDE DEF z
<1>3. [filename |-> z(MaxFilename), filename_len |-> 0,
       args |-> [a \in 1 .. MaxArgs |-> z(MaxArgLen)], arg_lens |-> z(MaxArgs),
       argc |-> 0, truncated |-> 0] \in ExecEvents
  BY <1>2, RecordIn, Zenon DEF ExecEvents
<1> QED  BY <1>1, <1>3

LEMMA TypeInit == Init => TypeOK
<1> SUFFICES ASSUME Init PROVE TypeOK
  OBVIOUS
<1>1. call = <<>> /\ ring = <<>> /\ Len(call) = 0 /\ Len(ring) = 0
  BY DEF Init
<1>2. mem \in [1 .. Slots -> ExecEvents]
  BY BlankTypes DEF Init
<1>3. running \in [CPUs -> 0 .. Len(call)]
  BY <1>1 DEF Init
<1>4. call \in Seq(Calls) /\ Len(call) <= MaxExecs
  BY <1>1, SensorAssumption
<1>5. ring \in Seq([id : Ids, slot : 1 .. Slots, busy : BOOLEAN]) /\ Len(ring) <= Slots
  BY <1>1, SensorAssumption, EmptySeq
<1> QED  BY <1>2, <1>3, <1>4, <1>5 DEF Init, TypeOK

\* A call of the program appends to the calls.
LEMMA CallAppended ==
  ASSUME TypeOK, NEW x \in Calls, call' = Append(call, x), Len(call) + 1 \in Ids
  PROVE  /\ call' \in Seq(Calls) /\ Len(call') = Len(call) + 1 /\ Len(call') <= MaxExecs
         /\ \A i \in 1 .. Len(call) : call'[i] = call[i]
  BY RingTypes, SensorAssumption DEF Ids

LEMMA DroppedFinite ==
  ASSUME TypeOK
  PROVE  IsFiniteSet(dropped) /\ Cardinality(dropped) \in Nat
<1>1. IsFiniteSet(Ids)
  BY SensorAssumption, FS_Interval DEF Ids
<1> QED  BY <1>1, FS_Subset, FS_CardinalityType DEF TypeOK

\* A reservation takes the next slot and the end of the ring.
LEMMA Reserves ==
  ASSUME TypeOK, NEW c \in CPUs, NEW x \in Calls, Enter(c, x), HasRoom
  PROVE  LET i == Len(call) + 1
             e == [id |-> i, slot |-> NextSlot(i), busy |-> TRUE]
         IN  /\ e \in Entries /\ ring' = Append(ring, e) /\ ring' \in Seq(Entries)
             /\ Len(ring') = Len(ring) + 1 /\ Len(ring') <= Slots
             /\ \A k \in 1 .. Len(ring) : ring'[k] = ring[k]
             /\ ring'[Len(ring) + 1] = e
<1> DEFINE i == Len(call) + 1
           e == [id |-> i, slot |-> NextSlot(i), busy |-> TRUE]
<1>1. Cardinality(dropped) \in Nat
  BY DroppedFinite
<1>2. NextSlot(i) \in 1 .. Slots
  <2>1. \A n \in Int : n % Slots \in 0 .. Slots - 1
    BY SensorAssumption
  <2>2. i - 1 - Cardinality(dropped) \in Int
    BY <1>1, RingTypes
  <2>3. NextSlot(i) = ((i - 1 - Cardinality(dropped)) % Slots) + 1
    BY DEF NextSlot
  <2> HIDE DEF i
  <2>4. (i - 1 - Cardinality(dropped)) % Slots \in 0 .. Slots - 1
    BY <2>1, <2>2
  <2> QED  BY <2>3, <2>4, SensorAssumption
<1>3. i \in Ids /\ ring' = Append(ring, e)
  BY DEF Enter
<1>4. e \in Entries
  BY <1>2, <1>3 DEF Entries
<1> HIDE DEF e
<1>5. Len(ring) < Slots
  BY DEF HasRoom
<1> QED  BY <1>3, <1>4, <1>5, RingTypes, SensorAssumption DEF e

\* Submission changes nothing but a busy bit.
LEMMA Submits ==
  ASSUME TypeOK, NEW c \in CPUs, Leave(c)
  PROVE  /\ ring' \in Seq(Entries) /\ Len(ring') = Len(ring) /\ DOMAIN ring' = DOMAIN ring
         /\ \A k \in DOMAIN ring : /\ ring'[k].id = ring[k].id
                                   /\ ring'[k].slot = ring[k].slot
                                   /\ ring'[k].busy = (ring[k].busy /\ ring[k].id # running[c])
<1>1. ring' = [k \in 1 .. Len(ring) |->
         IF ring[k].id = running[c] THEN [ring[k] EXCEPT !.busy = FALSE] ELSE ring[k]]
  BY RingTypes DEF Leave, Submit
<1>2. \A k \in 1 .. Len(ring) : ring[k] \in Entries
  BY RingTypes, LenProperties
<1>3. \A k \in 1 .. Len(ring) : ring'[k] \in Entries
  BY <1>1, <1>2 DEF Entries
<1>4. ring' \in [1 .. Len(ring) -> Entries]
  BY <1>1, <1>3
<1>5. ring' \in Seq(Entries)
  BY <1>4, RingTypes, SeqDef
<1>6. 1 .. Len(ring') = 1 .. Len(ring) /\ Len(ring') \in Nat
  BY <1>4, <1>5, LenProperties
<1>7. Len(ring') = Len(ring)
  BY <1>6, RingTypes
<1> QED  BY <1>1, <1>2, <1>4, <1>5, <1>7, RingTypes DEF Entries

\* Read takes the head.
LEMMA ReadTakes ==
  ASSUME TypeOK, Read
  PROVE  /\ ring' \in Seq(Entries) /\ Len(ring') = Len(ring) - 1 /\ Len(ring) >= 1
         /\ Head(ring) = ring[1] /\ 1 \in DOMAIN ring /\ DOMAIN ring' = 1 .. Len(ring) - 1
         /\ \A k \in DOMAIN ring' : k + 1 \in DOMAIN ring /\ k + 1 > 1 /\ ring'[k] = ring[k + 1]
         /\ inhand = {} /\ ~ring[1].busy
         /\ inhand' = {[id |-> ring[1].id, raw |-> mem[ring[1].slot]]}
<1>1. ring \in Seq(Entries) /\ ring # <<>> /\ ring' = Tail(ring) /\ inhand = {}
  BY RingTypes DEF Read, HandlerIdle
<1>2. Head(ring) = ring[1] /\ Len(ring) >= 1
  BY <1>1
<1>3. Len(ring') = Len(ring) - 1 /\ ring' \in Seq(Entries) /\ \A k \in 1 .. Len(ring') : ring'[k] = ring[k + 1]
  BY <1>1, HeadTailProperties
<1>4. DOMAIN ring' = 1 .. Len(ring') /\ Len(ring) \in Nat /\ DOMAIN ring = 1 .. Len(ring)
  BY <1>1, <1>3, LenProperties
<1>5. ~ring[1].busy /\ inhand' = {[id |-> ring[1].id, raw |-> mem[ring[1].slot]]}
  BY <1>1, <1>2 DEF Read
<1> QED  BY <1>1, <1>2, <1>3, <1>4, <1>5

LEMMA TypeStep ==
  ASSUME TypeOK, [Next]_vars
  PROVE  TypeOK'
<1>2. ASSUME NEW c \in CPUs, NEW x \in Calls, Enter(c, x) PROVE TypeOK'
  <2>1. /\ call' \in Seq(Calls) /\ Len(call') = Len(call) + 1 /\ Len(call') <= MaxExecs
        /\ Len(call) \in Nat
    BY <1>2, CallAppended, RingTypes DEF Enter
  <2>2. CASE HasRoom
    <3>1. ring' \in Seq(Entries) /\ Len(ring') <= Slots
      BY <1>2, <2>2, Reserves
    <3>2. running' = [running EXCEPT ![c] = Len(call) + 1]
      BY <1>2, <2>2 DEF Enter
    <3>3. running' \in [CPUs -> 0 .. Len(call')]
      BY <2>1, <3>2, RingTypes
    <3> QED  BY <1>2, <2>1, <2>2, <3>1, <3>3 DEF TypeOK, Enter, broker, Entries
  <2>3. CASE ~HasRoom
    <3>1. running' \in [CPUs -> 0 .. Len(call')]
      <4>1. running' = running
        BY <1>2, <2>3 DEF Enter
      <4> QED  BY <2>1, <4>1, RingTypes
    <3>2. dropped' \subseteq Ids /\ UNCHANGED ring
      BY <1>2, <2>3 DEF Enter, TypeOK
    <3> QED  BY <1>2, <2>1, <3>1, <3>2 DEF TypeOK, Enter, broker
  <2> QED  BY <2>2, <2>3
<1>3. ASSUME NEW c \in CPUs, Fill(c) PROVE TypeOK'
  <2>1. PICK k \in DOMAIN ring : ring[k].id = running[c]
                                 /\ mem' = [mem EXCEPT ![ring[k].slot] = Capture(@, call[running[c]], running[c])]
    BY <1>3, Zenon DEF Fill
  <2>2. running[c] \in Ids /\ running[c] \in 1 .. Len(call)
    BY <1>3, <2>1, RingTypes DEF Fill
  <2>3. ring[k].slot \in 1 .. Slots /\ call[running[c]] \in Calls
    BY <2>1, <2>2, RingTypes
  <2>4. Capture(mem[ring[k].slot], call[running[c]], running[c]) \in ExecEvents
    BY <2>2, <2>3, CaptureTypes, CaptureForgets
  <2>5. mem' \in [1 .. Slots -> ExecEvents]
    BY <2>1, <2>3, <2>4 DEF TypeOK
  <2> QED  BY <1>3, <2>5 DEF TypeOK, Fill, broker
<1>4. ASSUME NEW c \in CPUs, Leave(c) PROVE TypeOK'
  <2>1. ring' \in Seq(Entries) /\ Len(ring') = Len(ring)
    BY <1>4, Submits
  <2>2. running' \in [CPUs -> 0 .. Len(call)] /\ call' = call
    BY <1>4, RingTypes DEF Leave, Submit
  <2> QED  BY <1>4, <2>1, <2>2 DEF TypeOK, Leave, broker, Entries
<1>5. CASE Read
  <2>1. ring' \in Seq(Entries) /\ Len(ring') <= Slots
    BY <1>5, ReadTakes, RingTypes, SensorAssumption DEF TypeOK
  <2>2. inhand' \subseteq [id : Ids, raw : ExecEvents]
    <3>1. inhand' = {[id |-> ring[1].id, raw |-> mem[ring[1].slot]]} /\ 1 \in DOMAIN ring
      BY <1>5, ReadTakes
    <3>2. ring[1].id \in Ids /\ mem[ring[1].slot] \in ExecEvents
      BY <3>1, RingTypes DEF TypeOK
    <3> QED  BY <3>1, <3>2
  <2> QED  BY <1>5, <2>1, <2>2 DEF TypeOK, Read, Entries
<1>6. ASSUME NEW r \in inhand, Handle(r) PROVE TypeOK'
  <2>1. r.id \in Ids
    BY DEF TypeOK
  <2> QED  BY <1>6, <2>1 DEF TypeOK, Handle, program
<1>7. CASE Crash
  <2>1. {r.id : r \in inhand} \subseteq Ids
    BY DEF TypeOK
  <2> QED  BY <1>7, <2>1 DEF TypeOK, Crash, program
<1>8. CASE Load \/ Attach \/ LoaderEnds \/ Open \/ Close \/ UNCHANGED vars
  BY <1>8 DEF TypeOK, Load, Attach, LoaderEnds, Open, Close, program, broker, vars
<1> QED  BY <1>2, <1>3, <1>4, <1>5, <1>6, <1>7, <1>8 DEF Next

\* Every variable keeps its type, and the ring buffer and its memory their size:
\* the program never writes beyond a buffer of its record.
THEOREM TypeCorrect == Spec => []TypeOK
<1> QED  BY TypeInit, TypeStep, PTL DEF Spec

-------------------------------------------------------------------------------
(* Reservations *)

BusyIds == {ring[k].id : k \in {j \in DOMAIN ring : ring[j].busy}}
Producing == {running[c] : c \in CPUs} \ {0}
OneEach == \A c, d \in CPUs : running[c] = running[d] /\ running[c] # 0 => c = d

LEMMA HeldStep ==
  ASSUME TypeOK, BusyIds = Producing, OneEach, [Next]_vars
  PROVE  BusyIds' = Producing' /\ OneEach'
<1> DEFINE Goal == BusyIds' = Producing' /\ OneEach'
<1> SUFFICES Goal
  OBVIOUS
<1>1. CASE ring' = ring /\ running' = running
  BY <1>1 DEF BusyIds, Producing, OneEach
<1>2. ASSUME NEW c \in CPUs, NEW x \in Calls, Enter(c, x), HasRoom PROVE Goal
  <2> DEFINE i == Len(call) + 1
  <2>1. /\ \A k \in 1 .. Len(ring) : ring'[k] = ring[k]
        /\ ring'[Len(ring) + 1].id = i /\ ring'[Len(ring) + 1].busy
        /\ ring' \in Seq(Entries) /\ Len(ring') = Len(ring) + 1
    BY <1>2, Reserves
  <2>2. Len(ring) \in Nat /\ DOMAIN ring = 1 .. Len(ring) /\ DOMAIN ring' = 1 .. Len(ring) + 1
    BY <2>1, RingTypes, LenProperties
  <2>3. DOMAIN ring' = DOMAIN ring \cup {Len(ring) + 1}
    BY <2>2
  <2>4. BusyIds' = BusyIds \cup {i}
    BY <2>1, <2>2, <2>3 DEF BusyIds
  <2>5. running' = [running EXCEPT ![c] = i] /\ running[c] = 0
    BY <1>2 DEF Enter
  <2>6. i # 0 /\ \A d \in CPUs : running[d] # i
    BY RingTypes
  <2> HIDE DEF i
  <2>7. running'[c] = i /\ \A d \in CPUs : d # c => running'[d] = running[d]
    BY <2>5, RingTypes
  <2>8. Producing' = Producing \cup {i}
    BY <2>5, <2>6, <2>7 DEF Producing
  <2>9. OneEach'
    BY <2>6, <2>7 DEF OneEach
  <2> QED  BY <2>4, <2>8, <2>9
<1>3. ASSUME NEW c \in CPUs, NEW x \in Calls, Enter(c, x), ~HasRoom PROVE Goal
  BY <1>1, <1>3 DEF Enter
<1>4. ASSUME NEW c \in CPUs, Leave(c) PROVE Goal
  <2>1. /\ DOMAIN ring' = DOMAIN ring
        /\ \A k \in DOMAIN ring : /\ ring'[k].id = ring[k].id
                                  /\ ring'[k].busy = (ring[k].busy /\ ring[k].id # running[c])
    BY <1>4, Submits
  <2>2. BusyIds' = BusyIds \ {running[c]}
    <3>1. \A k \in DOMAIN ring : ring'[k].busy <=> ring[k].busy /\ ring[k].id # running[c]
      BY <2>1
    <3>2. {j \in DOMAIN ring' : ring'[j].busy}
            = {j \in DOMAIN ring : ring[j].busy /\ ring[j].id # running[c]}
      BY <2>1, <3>1, Zenon
    <3> DEFINE Kept == {j \in DOMAIN ring : ring[j].busy /\ ring[j].id # running[c]}
    <3>3. BusyIds' = {ring'[k].id : k \in Kept}
      BY <3>2 DEF BusyIds
    <3>4. {ring'[k].id : k \in Kept} = {ring[k].id : k \in Kept}
      BY <2>1
    <3>5. {ring[k].id : k \in Kept} = BusyIds \ {running[c]}
      BY DEF BusyIds
    <3> QED  BY <3>3, <3>4, <3>5
  <2>3. running' = [running EXCEPT ![c] = 0]
    BY <1>4 DEF Leave, Submit
  <2>4. running'[c] = 0 /\ \A d \in CPUs : d # c => running'[d] = running[d]
    BY <2>3, RingTypes
  <2>5. Producing' = Producing \ {running[c]}
    BY <2>4 DEF Producing, OneEach
  <2>6. OneEach'
    BY <2>4 DEF OneEach
  <2> QED  BY <2>2, <2>5, <2>6
<1>5. CASE Read
  <2>1. /\ DOMAIN ring' = 1 .. Len(ring) - 1 /\ ~ring[1].busy
        /\ \A k \in DOMAIN ring' : k + 1 \in DOMAIN ring /\ ring'[k] = ring[k + 1]
    BY <1>5, ReadTakes
  <2>2. Len(ring) \in Nat /\ DOMAIN ring = 1 .. Len(ring)
    BY RingTypes
  <2>3. ASSUME NEW k \in DOMAIN ring, ring[k].busy
        PROVE  k - 1 \in DOMAIN ring' /\ ring'[k - 1] = ring[k]
    <3>1. k - 1 \in DOMAIN ring' /\ (k - 1) + 1 = k
      BY <2>1, <2>2, <2>3
    <3> QED  BY <2>1, <3>1
  <2>4. BusyIds \subseteq BusyIds'
    BY <2>3 DEF BusyIds
  <2>5. BusyIds' \subseteq BusyIds
    BY <2>1 DEF BusyIds
  <2>6. running' = running
    BY <1>5 DEF Read
  <2> QED  BY <2>4, <2>5, <2>6 DEF Producing, OneEach
<1>6. CASE \/ Load \/ Attach \/ LoaderEnds \/ Open \/ Close \/ Crash \/ UNCHANGED vars
           \/ \E c \in CPUs : Fill(c)
           \/ \E r \in inhand : Handle(r)
  BY <1>1, <1>6 DEF Load, Attach, LoaderEnds, Open, Close, Crash, Handle, Fill, program, vars
<1> QED  BY <1>2, <1>3, <1>4, <1>5, <1>6 DEF Next

\* A record that is not submitted has exactly one program that will submit it, for
\* any number of CPUs and execves and whichever process ends meanwhile, so the reader
\* never waits behind a reservation nobody holds.
THEOREM NoReservationIsOrphaned == Spec => []ReservationsAreHeld
<1>1. Init => BusyIds = Producing /\ OneEach
  BY DEF Init, BusyIds, Producing, OneEach
<1>2. BusyIds = Producing /\ OneEach <=> ReservationsAreHeld
  BY DEF ReservationsAreHeld, BusyIds, Producing, OneEach
<1> DEFINE Held == BusyIds = Producing /\ OneEach
<1>3. TypeOK /\ Held /\ [Next]_vars => Held'
  BY HeldStep
<1>4. Init => Held
  BY <1>1
<1>5. Held => ReservationsAreHeld
  BY <1>2
<1> HIDE DEF Held
<1> QED  BY <1>3, <1>4, <1>5, TypeCorrect, PTL DEF Spec

-------------------------------------------------------------------------------
(* Where an execve is *)

RingIds == {ring[k].id : k \in DOMAIN ring}
HandIds == {r.id : r \in inhand}

Before(A, B) == \A a \in A, b \in B : a < b

\* Everything that was observed is accounted for, and nothing else.
Accounted == RingIds \cup HandIds \cup handled \cup dropped \cup mislaid = 1 .. Len(call)

\* What is past comes before the record in hand, and that before the ring buffer.
Sorted ==
    /\ Before(handled \cup mislaid, HandIds)
    /\ Before(handled \cup mislaid, RingIds)
    /\ Before(HandIds, RingIds)
    /\ \A j, k \in DOMAIN ring : j < k => ring[j].id < ring[k].id

Separate ==
    /\ handled \cap mislaid = {}
    /\ dropped \cap (RingIds \cup HandIds \cup handled \cup mislaid) = {}

OneInHand == \A q, r \in inhand : q = r

OrderInv == Accounted /\ Sorted /\ Separate /\ OneInHand

\* What the actions do to the sets.
LEMMA ReserveAdds ==
  ASSUME TypeOK, NEW c \in CPUs, NEW x \in Calls, Enter(c, x), HasRoom
  PROVE  RingIds' = RingIds \cup {Len(call) + 1}
<1>1. /\ \A k \in 1 .. Len(ring) : ring'[k] = ring[k]
      /\ ring'[Len(ring) + 1].id = Len(call) + 1
      /\ ring' \in Seq(Entries) /\ Len(ring') = Len(ring) + 1
  BY Reserves
<1>2. Len(ring) \in Nat /\ DOMAIN ring = 1 .. Len(ring) /\ DOMAIN ring' = 1 .. Len(ring) + 1
  BY <1>1, RingTypes, LenProperties
<1>3. DOMAIN ring' = DOMAIN ring \cup {Len(ring) + 1}
  BY <1>2
<1> QED  BY <1>1, <1>2, <1>3 DEF RingIds

LEMMA ReadRemoves ==
  ASSUME TypeOK, Sorted, Read
  PROVE  /\ RingIds = RingIds' \cup {ring[1].id} /\ HandIds = {} /\ HandIds' = {ring[1].id}
         /\ Before({ring[1].id}, RingIds')
<1>1. /\ DOMAIN ring' = 1 .. Len(ring) - 1 /\ 1 \in DOMAIN ring
      /\ \A k \in DOMAIN ring' : k + 1 \in DOMAIN ring /\ k + 1 > 1 /\ ring'[k] = ring[k + 1]
      /\ inhand = {} /\ inhand' = {[id |-> ring[1].id, raw |-> mem[ring[1].slot]]}
  BY ReadTakes
<1>2. Len(ring) \in Nat /\ DOMAIN ring = 1 .. Len(ring)
  BY RingTypes
<1>3. ASSUME NEW k \in DOMAIN ring PROVE k = 1 \/ (k - 1 \in DOMAIN ring' /\ ring'[k - 1] = ring[k])
  <2>1. CASE k # 1
    <3>1. k - 1 \in DOMAIN ring' /\ (k - 1) + 1 = k
      BY <1>1, <1>2, <2>1
    <3> QED  BY <1>1, <3>1
  <2> QED  BY <2>1
<1>4. RingIds \subseteq RingIds' \cup {ring[1].id}
  BY <1>3 DEF RingIds
<1>5. RingIds' \subseteq RingIds /\ ring[1].id \in RingIds
  BY <1>1 DEF RingIds
<1>6. HandIds = {} /\ HandIds' = {ring[1].id}
  BY <1>1 DEF HandIds
<1>7. ASSUME NEW k \in DOMAIN ring' PROVE ring[1].id < ring'[k].id
  BY <1>1 DEF Sorted
<1>8. Before({ring[1].id}, RingIds')
  BY <1>7 DEF Before, RingIds
<1> QED  BY <1>4, <1>5, <1>6, <1>8

\* A new call comes after all others.
LEMMA OrderEnter ==
  ASSUME TypeOK, OrderInv, NEW c \in CPUs, NEW x \in Calls, Enter(c, x)
  PROVE  OrderInv'
<1> DEFINE n == Len(call) + 1
<1>1. Len(call') = n /\ 1 .. Len(call') = 1 .. Len(call) \cup {n} /\ n \in Nat
  BY CallAppended, RingTypes DEF Enter
<1>2. UNCHANGED <<inhand, handled, mislaid>> /\ HandIds' = HandIds
  BY DEF Enter, broker, HandIds
<1>3. /\ \A i \in RingIds \cup HandIds \cup handled \cup dropped \cup mislaid : i \in Nat /\ i < n
      /\ n \notin RingIds \cup HandIds \cup handled \cup dropped \cup mislaid
  BY RingTypes DEF OrderInv, Accounted
<1>4. OneInHand'
  BY <1>2 DEF OrderInv, OneInHand
<1>5. CASE HasRoom
  <2>1. RingIds' = RingIds \cup {n} /\ dropped' = dropped
    BY <1>5, ReserveAdds DEF Enter
  <2>2. \A j, k \in DOMAIN ring' : j < k => ring'[j].id < ring'[k].id
    <3> SUFFICES ASSUME NEW j \in DOMAIN ring', NEW k \in DOMAIN ring', j < k
                 PROVE  ring'[j].id < ring'[k].id
      OBVIOUS
    <3>1. /\ \A l \in 1 .. Len(ring) : ring'[l] = ring[l]
          /\ ring'[Len(ring) + 1].id = n
          /\ ring' \in Seq(Entries) /\ Len(ring') = Len(ring) + 1
      BY <1>5, Reserves
    <3>2. Len(ring) \in Nat /\ DOMAIN ring = 1 .. Len(ring) /\ DOMAIN ring' = 1 .. Len(ring) + 1
      BY <3>1, RingTypes, LenProperties
    <3>3. j \in DOMAIN ring /\ ring'[j].id = ring[j].id
      BY <3>1, <3>2
    <3>4. CASE k \in DOMAIN ring
      BY <3>1, <3>2, <3>3, <3>4 DEF OrderInv, Sorted
    <3>5. CASE k = Len(ring) + 1
      <4>1. ring[j].id \in RingIds
        BY <3>3 DEF RingIds
      <4> QED  BY <1>3, <3>1, <3>3, <3>5, <4>1
    <3> QED  BY <3>2, <3>4, <3>5
  <2>3. Sorted'
    BY <1>2, <1>3, <2>1, <2>2 DEF OrderInv, Sorted, Before
  <2>4. Accounted'
    BY <1>1, <1>2, <2>1 DEF OrderInv, Accounted
  <2>5. Separate'
    BY <1>2, <1>3, <2>1 DEF OrderInv, Separate
  <2> QED  BY <1>4, <2>3, <2>4, <2>5 DEF OrderInv
<1>6. CASE ~HasRoom
  <2>1. dropped' = dropped \cup {n} /\ ring' = ring /\ RingIds' = RingIds
    BY <1>6 DEF Enter, RingIds
  <2>2. Sorted'
    BY <1>2, <2>1 DEF OrderInv, Sorted
  <2>3. Accounted'
    BY <1>1, <1>2, <2>1 DEF OrderInv, Accounted
  <2>4. Separate'
    BY <1>2, <1>3, <2>1 DEF OrderInv, Separate
  <2> QED  BY <1>4, <2>2, <2>3, <2>4 DEF OrderInv
<1> QED  BY <1>5, <1>6

LEMMA OrderStep ==
  ASSUME TypeOK, OrderInv, [Next]_vars
  PROVE  OrderInv'
<1>1. ASSUME NEW c \in CPUs, Leave(c) PROVE OrderInv'
  <2>1. DOMAIN ring' = DOMAIN ring /\ \A k \in DOMAIN ring : ring'[k].id = ring[k].id
    BY <1>1, Submits
  <2>2. RingIds' = RingIds
    BY <2>1 DEF RingIds
  <2>3. UNCHANGED <<inhand, handled, mislaid, dropped, call>> /\ HandIds' = HandIds
    BY <1>1 DEF Leave, broker, HandIds
  <2>4. Sorted'
    BY <2>1, <2>2, <2>3 DEF OrderInv, Sorted
  <2> QED  BY <2>2, <2>3, <2>4 DEF OrderInv, Accounted, Separate, OneInHand
<1>2. CASE Read
  <2>1. /\ RingIds = RingIds' \cup {ring[1].id} /\ HandIds = {} /\ HandIds' = {ring[1].id}
        /\ Before({ring[1].id}, RingIds')
    BY <1>2, ReadRemoves DEF OrderInv
  <2>2. UNCHANGED <<handled, mislaid, dropped, call>>
    BY <1>2 DEF Read
  <2>3. \A j, k \in DOMAIN ring' : j < k => ring'[j].id < ring'[k].id
    <3>1. /\ DOMAIN ring' = 1 .. Len(ring) - 1 /\ Len(ring) \in Nat
          /\ \A k \in DOMAIN ring' : k + 1 \in DOMAIN ring /\ ring'[k] = ring[k + 1]
      BY <1>2, ReadTakes, RingTypes
    <3>2. \A j, k \in DOMAIN ring' : j < k => j + 1 < k + 1
      BY <3>1
    <3> QED  BY <3>1, <3>2 DEF OrderInv, Sorted
  <2>4. Sorted'
    BY <2>1, <2>2, <2>3 DEF OrderInv, Sorted, Before
  <2>5. Accounted' /\ Separate'
    BY <2>1, <2>2 DEF OrderInv, Accounted, Separate
  <2>6. OneInHand'
    BY <1>2, ReadTakes DEF OneInHand
  <2> QED  BY <2>4, <2>5, <2>6 DEF OrderInv
<1>3. ASSUME NEW r \in inhand, Handle(r) PROVE OrderInv'
  <2>1. inhand = {r} /\ inhand' = {} /\ handled' = handled \cup {r.id} /\ UNCHANGED <<ring, call, dropped, mislaid>>
    BY <1>3 DEF OrderInv, OneInHand, Handle, program
  <2>2. HandIds = {r.id} /\ HandIds' = {} /\ RingIds' = RingIds
    BY <2>1 DEF HandIds, RingIds
  <2>3. Sorted'
    BY <2>1, <2>2 DEF OrderInv, Sorted, Before
  <2>4. Accounted'
    BY <2>1, <2>2 DEF OrderInv, Accounted
  <2>5. r.id \in Int /\ r.id \notin mislaid
    <3>1. r.id \in Nat
      BY IdsIs DEF TypeOK
    <3>2. \A a \in mislaid : a < r.id
      BY <2>2 DEF OrderInv, Sorted, Before
    <3> QED  BY <3>1, <3>2
  <2>6. Separate'
    BY <2>1, <2>2, <2>5 DEF OrderInv, Separate
  <2> QED  BY <2>1, <2>3, <2>4, <2>6 DEF OrderInv, OneInHand
<1>4. CASE Crash
  <2>1. inhand' = {} /\ mislaid' = mislaid \cup HandIds /\ UNCHANGED <<ring, call, dropped, handled>>
    BY <1>4 DEF Crash, program, HandIds
  <2>2. HandIds' = {} /\ RingIds' = RingIds
    BY <2>1 DEF HandIds, RingIds
  <2>3. Sorted'
    BY <2>1, <2>2 DEF OrderInv, Sorted, Before
  <2>4. Accounted'
    BY <2>1, <2>2 DEF OrderInv, Accounted
  <2>5. handled \cap HandIds = {}
    <3> SUFFICES ASSUME NEW i \in handled, i \in HandIds PROVE FALSE
      OBVIOUS
    <3>1. i \in Nat /\ i < i
      BY IdsIs DEF TypeOK, OrderInv, Sorted, Before
    <3> QED  BY <3>1
  <2>6. Separate'
    BY <2>1, <2>2, <2>5 DEF OrderInv, Separate
  <2> QED  BY <2>1, <2>3, <2>4, <2>6 DEF OrderInv, OneInHand
<1>5. ASSUME UNCHANGED <<ring, call, dropped, inhand, handled, mislaid>> PROVE OrderInv'
  BY <1>5 DEF OrderInv, Accounted, Sorted, Separate, OneInHand, RingIds, HandIds
<1>6. ASSUME \/ Load \/ Attach \/ LoaderEnds \/ Open \/ Close \/ UNCHANGED vars
             \/ \E c \in CPUs : Fill(c)
      PROVE  OrderInv'
  BY <1>5, <1>6 DEF Load, Attach, LoaderEnds, Open, Close, Fill, program, broker, vars
<1> QED  BY <1>1, <1>2, <1>3, <1>4, <1>6, OrderEnter DEF Next

LEMMA OrderAlways == Spec => [](TypeOK /\ OrderInv)
<1>1. Init => OrderInv
  <2> SUFFICES ASSUME Init PROVE OrderInv
    OBVIOUS
  <2>1. /\ DOMAIN ring = {} /\ inhand = {} /\ handled = {} /\ dropped = {} /\ mislaid = {}
        /\ 1 .. Len(call) = {}
    BY DEF Init
  <2>2. RingIds = {} /\ HandIds = {}
    BY <2>1 DEF RingIds, HandIds
  <2> QED  BY <2>1, <2>2 DEF OrderInv, Accounted, Sorted, Before, Separate, OneInHand
<1> QED  BY <1>1, TypeInit, TypeStep, OrderStep, PTL DEF Spec

\* Every observed execve is in exactly one place, for any number of calls, CPUs,
\* crashes and restarts: no record is lost, repeated or overtaken on its way from
\* the ring buffer to HandleRaw.
THEOREM EachExecAccounted == Spec => []EachExecInOnePlace
<1>1. TypeOK /\ OrderInv => EachExecInOnePlace
  <2> SUFFICES ASSUME TypeOK, OrderInv PROVE EachExecInOnePlace
    OBVIOUS
  <2> DEFINE Places == <<RingIds, HandIds, handled, dropped, mislaid>>
  <2>1. ASSUME NEW i \in 1 .. Len(call)
        PROVE  Cardinality({p \in DOMAIN Places : i \in Places[p]}) = 1
    <3>1. /\ ~(i \in RingIds /\ i \in HandIds)
          /\ ~(i \in RingIds /\ i \in handled)
          /\ ~(i \in RingIds /\ i \in mislaid)
          /\ ~(i \in HandIds /\ i \in handled)
          /\ ~(i \in HandIds /\ i \in mislaid)
      BY RingTypes DEF OrderInv, Sorted, Before
    <3>2. /\ ~(i \in handled /\ i \in mislaid)
          /\ ~(i \in dropped /\ (i \in RingIds \/ i \in HandIds \/ i \in handled \/ i \in mislaid))
          /\ i \in RingIds \/ i \in HandIds \/ i \in handled \/ i \in dropped \/ i \in mislaid
      BY DEF OrderInv, Separate, Accounted
    <3>3. DOMAIN Places = 1 .. 5
      OBVIOUS
    <3>4. PICK p \in 1 .. 5 : \A q \in 1 .. 5 : (i \in Places[q]) <=> q = p
      <4>1. CASE i \in RingIds
        BY <3>1, <3>2, <4>1, 1 \in 1 .. 5
      <4>2. CASE i \in HandIds
        BY <3>1, <3>2, <4>2, 2 \in 1 .. 5
      <4>3. CASE i \in handled
        BY <3>1, <3>2, <4>3, 3 \in 1 .. 5
      <4>4. CASE i \in dropped
        BY <3>1, <3>2, <4>4, 4 \in 1 .. 5
      <4>5. CASE i \in mislaid
        BY <3>1, <3>2, <4>5, 5 \in 1 .. 5
      <4> QED  BY <3>2, <4>1, <4>2, <4>3, <4>4, <4>5
    <3>5. {q \in DOMAIN Places : i \in Places[q]} = {p}
      BY <3>3, <3>4
    <3> QED  BY <3>5, FS_Singleton
  <2> QED  BY <2>1 DEF EachExecInOnePlace, OrderInv, Sorted, RingIds, HandIds
<1> QED  BY <1>1, OrderAlways, PTL

\* HandleRaw sees records in the order of their reservation, whichever CPU
\* submits first and however often broker and loader are started again.
THEOREM HandledInOrder == Spec => InOrder
<1>1. TypeOK /\ OrderInv /\ [Next]_vars => [\A i \in handled' \ handled : \A j \in handled : j < i]_vars
  <2> SUFFICES ASSUME TypeOK, OrderInv, [Next]_vars, NEW i \in handled' \ handled, NEW j \in handled
               PROVE  j < i
    OBVIOUS
  <2>1. PICK r \in inhand : Handle(r)
    <3>1. ASSUME ~\E r \in inhand : Handle(r) PROVE handled' = handled
      BY <3>1 DEF Next, Load, Attach, LoaderEnds, Enter, Fill, Leave, Open, Read, Close, Crash, broker, vars
    <3> QED  BY <3>1
  <2>2. i = r.id
    BY <2>1 DEF Handle
  <2> QED  BY <2>2 DEF OrderInv, Sorted, Before, HandIds
<1> QED  BY <1>1, OrderAlways, PTL DEF Spec, InOrder

-------------------------------------------------------------------------------
(* What is in a slot *)

\* The reservations so far, and those already taken out of the ring buffer.
Reserved == Len(call) - Cardinality(dropped)
Freed == Reserved - Len(ring)

\* Reservations take the slots in turn.
InTurn ==
    /\ Freed \in Nat
    /\ \A k \in DOMAIN ring : ring[k].slot = ((Freed + k - 1) % Slots) + 1

\* So no two records in the ring buffer share one.
LEMMA OwnSlots ==
  ASSUME TypeOK, InTurn
  PROVE  \A j, k \in DOMAIN ring : j # k => ring[j].slot # ring[k].slot
<1>1. ASSUME NEW j \in DOMAIN ring, NEW k \in DOMAIN ring, j < k
      PROVE  ring[j].slot # ring[k].slot
  <2> DEFINE a == Freed + j - 1
             b == Freed + k - 1
  <2>1. j \in 1 .. Len(ring) /\ k \in 1 .. Len(ring) /\ Len(ring) \in Nat /\ Len(ring) <= Slots /\ Freed \in Nat
    BY RingTypes DEF TypeOK, InTurn
  <2>2. a \in Nat /\ b \in Nat /\ a < b /\ b < a + Slots
    BY <1>1, <2>1, SensorAssumption
  <2>3. ring[j].slot = (a % Slots) + 1 /\ ring[k].slot = (b % Slots) + 1
    BY DEF InTurn
  <2> HIDE DEF a, b
  <2>4. a % Slots # b % Slots
    BY <2>2, ModuloDiffers, SensorAssumption
  <2>5. a % Slots \in Int /\ b % Slots \in Int
    BY <2>2, SensorAssumption
  <2> QED  BY <2>3, <2>4, <2>5
<1>2. \A j, k \in DOMAIN ring : j # k => j < k \/ k < j
  BY RingTypes
<1> QED  BY <1>1, <1>2

LEMMA InTurnStep ==
  ASSUME TypeOK, OrderInv, InTurn, [Next]_vars
  PROVE  InTurn'
<1>1. /\ Len(call) \in Nat /\ Len(ring) \in Nat /\ DOMAIN ring = 1 .. Len(ring)
      /\ IsFiniteSet(dropped) /\ Cardinality(dropped) \in Nat /\ Freed \in Nat
  BY RingTypes, DroppedFinite DEF InTurn
<1>2. ASSUME NEW c \in CPUs, NEW x \in Calls, Enter(c, x) PROVE InTurn'
  <2>1. Len(call') = Len(call) + 1
    BY <1>2, CallAppended DEF Enter
  <2>2. CASE HasRoom
    <3>1. /\ \A k \in 1 .. Len(ring) : ring'[k] = ring[k]
          /\ ring'[Len(ring) + 1].slot = NextSlot(Len(call) + 1)
          /\ ring' \in Seq(Entries) /\ Len(ring') = Len(ring) + 1
      BY <1>2, <2>2, Reserves
    <3>2. DOMAIN ring' = 1 .. Len(ring) + 1
      BY <3>1, LenProperties
    <3>3. dropped' = dropped
      BY <1>2, <2>2 DEF Enter
    <3>4. Freed' = Freed
      BY <1>1, <2>1, <3>1, <3>3 DEF Freed, Reserved
    <3>5. Freed + (Len(ring) + 1) - 1 = (Len(call) + 1) - 1 - Cardinality(dropped)
      BY <1>1 DEF Freed, Reserved
    <3>6. ring'[Len(ring) + 1].slot = ((Freed + (Len(ring) + 1) - 1) % Slots) + 1
      BY <3>1, <3>5 DEF NextSlot
    <3>7. ASSUME NEW k \in DOMAIN ring' PROVE ring'[k].slot = ((Freed' + k - 1) % Slots) + 1
      <4>1. CASE k = Len(ring) + 1
        BY <3>4, <3>6, <4>1
      <4>2. CASE k \in 1 .. Len(ring)
        BY <1>1, <3>1, <3>4, <4>2 DEF InTurn
      <4> QED  BY <1>1, <3>2, <4>1, <4>2
    <3> QED  BY <1>1, <3>4, <3>7 DEF InTurn
  <2>3. CASE ~HasRoom
    <3>1. ring' = ring /\ dropped' = dropped \cup {Len(call) + 1}
      BY <1>2, <2>3 DEF Enter
    <3>2. Len(call) + 1 \notin dropped
      BY <1>1 DEF OrderInv, Accounted
    <3>3. Cardinality(dropped') = Cardinality(dropped) + 1
      BY <1>1, <3>1, <3>2, FS_AddElement
    <3>4. Freed' = Freed
      BY <1>1, <2>1, <3>1, <3>3 DEF Freed, Reserved
    <3> QED  BY <3>1, <3>4 DEF InTurn
  <2> QED  BY <2>2, <2>3
<1>3. ASSUME NEW c \in CPUs, Leave(c) PROVE InTurn'
  <2>1. /\ DOMAIN ring' = DOMAIN ring /\ Len(ring') = Len(ring)
        /\ \A k \in DOMAIN ring : ring'[k].slot = ring[k].slot
    BY <1>3, Submits
  <2>2. UNCHANGED <<call, dropped>>
    BY <1>3 DEF Leave
  <2> QED  BY <2>1, <2>2 DEF InTurn, Freed, Reserved
<1>4. CASE Read
  <2>1. /\ DOMAIN ring' = 1 .. Len(ring) - 1 /\ Len(ring') = Len(ring) - 1
        /\ \A k \in DOMAIN ring' : k + 1 \in DOMAIN ring /\ ring'[k] = ring[k + 1]
        /\ UNCHANGED <<call, dropped>>
    BY <1>4, ReadTakes DEF Read
  <2>2. Freed' = Freed + 1
    BY <1>1, <2>1 DEF Freed, Reserved
  <2>3. ASSUME NEW k \in DOMAIN ring' PROVE ring'[k].slot = ((Freed' + k - 1) % Slots) + 1
    <3>1. Freed' + k - 1 = Freed + (k + 1) - 1
      BY <1>1, <2>1, <2>2
    <3>2. ring[k + 1].slot = ((Freed + (k + 1) - 1) % Slots) + 1
      BY <2>1 DEF InTurn
    <3> QED  BY <2>1, <3>1, <3>2
  <2> QED  BY <1>1, <2>2, <2>3 DEF InTurn
<1>5. ASSUME UNCHANGED <<ring, call, dropped>> PROVE InTurn'
  BY <1>5 DEF InTurn, Freed, Reserved
<1>6. ASSUME \/ Load \/ Attach \/ LoaderEnds \/ Open \/ Close \/ Crash \/ UNCHANGED vars
             \/ \E c \in CPUs : Fill(c)
             \/ \E r \in inhand : Handle(r)
      PROVE  InTurn'
  BY <1>5, <1>6 DEF Load, Attach, LoaderEnds, Open, Close, Crash, Handle, Fill, program, broker, vars
<1> QED  BY <1>2, <1>3, <1>4, <1>6 DEF Next

\* The k-th slot of the ring buffer holds the whole record of its execve, and
\* nothing else.
Cap(i) == Capture(Blank, call[i], i)
Written(k) == mem[ring[k].slot] = Cap(ring[k].id)

\* A record that can be read is written, and so is one about to be submitted.
WriteInv ==
    /\ \A c \in filled : running[c] # 0
    /\ \A k \in DOMAIN ring : ~ring[k].busy => Written(k)
    /\ \A k \in DOMAIN ring : \A c \in filled : ring[k].id = running[c] => Written(k)
    /\ \A r \in inhand : r.raw = Cap(r.id)

LEMMA KnownIds ==
  ASSUME TypeOK, OrderInv
  PROVE  /\ \A k \in DOMAIN ring : ring[k].id \in 1 .. Len(call)
         /\ \A r \in inhand : r.id \in 1 .. Len(call)
  BY DEF OrderInv, Accounted, RingIds, HandIds

\* A reservation leaves the records of others alone.
LEMMA WriteEnter ==
  ASSUME TypeOK, OrderInv, WriteInv, NEW c \in CPUs, NEW x \in Calls, Enter(c, x)
  PROVE  WriteInv'
<1>1. /\ \A i \in 1 .. Len(call) : call'[i] = call[i]
      /\ Len(call) \in Nat /\ Len(ring) \in Nat /\ DOMAIN ring = 1 .. Len(ring)
  BY CallAppended, RingTypes DEF Enter
<1>2. \A i \in 1 .. Len(call) : Cap(i)' = Cap(i)
  BY <1>1 DEF Cap
<1>3. UNCHANGED <<mem, filled, inhand>> /\ c \notin filled
  BY DEF Enter, broker, WriteInv
<1>4. \A d \in filled : running'[d] = running[d] /\ running[d] \in 0 .. Len(call)
  <2>1. running' = running \/ running' = [running EXCEPT ![c] = Len(call) + 1]
    BY DEF Enter
  <2>2. filled \subseteq CPUs /\ running \in [CPUs -> 0 .. Len(call)]
    BY RingTypes DEF TypeOK
  <2> QED  BY <1>3, <2>1, <2>2
<1>5. ASSUME NEW k \in DOMAIN ring, ring'[k] = ring[k] PROVE Written(k)' <=> Written(k)
  <2>1. ring[k].id \in 1 .. Len(call)
    BY KnownIds
  <2> QED  BY <1>2, <1>3, <1>5, <2>1 DEF Written
<1>6. ASSUME NEW k \in DOMAIN ring'
      PROVE  \/ k \in DOMAIN ring /\ ring'[k] = ring[k]
             \/ ring'[k].busy = TRUE /\ ring'[k].id = Len(call) + 1
  <2>1. CASE HasRoom
    <3>1. /\ \A l \in 1 .. Len(ring) : ring'[l] = ring[l]
          /\ ring'[Len(ring) + 1].id = Len(call) + 1 /\ ring'[Len(ring) + 1].busy = TRUE
          /\ ring' \in Seq(Entries) /\ Len(ring') = Len(ring) + 1
      BY <2>1, Reserves
    <3>2. DOMAIN ring' = 1 .. Len(ring) + 1
      BY <3>1, LenProperties
    <3>3. k \in 1 .. Len(ring) \/ k = Len(ring) + 1
      BY <1>1, <3>2
    <3> QED  BY <1>1, <3>1, <3>3
  <2>2. CASE ~HasRoom
    BY <2>2 DEF Enter
  <2> QED  BY <2>1, <2>2
<1>7. \A k \in DOMAIN ring' : ~ring'[k].busy => Written(k)'
  BY <1>5, <1>6 DEF WriteInv
<1>8. ASSUME NEW k \in DOMAIN ring', NEW d \in filled', ring'[k].id = running'[d] PROVE Written(k)'
  <2>1. d \in filled /\ running'[d] = running[d] /\ running[d] \in 0 .. Len(call)
    BY <1>3, <1>4
  <2>2. ring'[k].id # Len(call) + 1
    BY <1>1, <1>8, <2>1
  <2>3. k \in DOMAIN ring /\ ring'[k] = ring[k]
    BY <1>6, <2>2
  <2> QED  BY <1>5, <1>8, <2>1, <2>3 DEF WriteInv
<1>9. \A r \in inhand' : r.raw = Cap(r.id)'
  BY <1>2, <1>3, KnownIds DEF WriteInv
<1>10. \A d \in filled' : running'[d] # 0
  BY <1>3, <1>4 DEF WriteInv
<1> QED  BY <1>7, <1>8, <1>9, <1>10 DEF WriteInv

\* The program writes to its own slot.
LEMMA WriteFill ==
  ASSUME TypeOK, OrderInv, InTurn, WriteInv, NEW c \in CPUs, Fill(c)
  PROVE  WriteInv'
<1>1. PICK k \in DOMAIN ring : ring[k].id = running[c]
                               /\ mem' = [mem EXCEPT ![ring[k].slot] = Capture(@, call[running[c]], running[c])]
  BY Zenon DEF Fill
<1>2. UNCHANGED <<call, running, ring, inhand>> /\ filled' = filled \cup {c} /\ running[c] # 0
  BY DEF Fill, broker
<1>3. mem' = [mem EXCEPT ![ring[k].slot] = Cap(ring[k].id)]
  <2>1. Capture(mem[ring[k].slot], call[running[c]], running[c]) = Cap(ring[k].id)
    BY <1>1, CaptureForgets DEF Cap
  <2> QED  BY <1>1, <2>1
<1>4. \A i : Cap(i)' = Cap(i)
  BY <1>2 DEF Cap
<1>5. \A l \in DOMAIN ring : ring[l].slot \in 1 .. Slots /\ mem \in [1 .. Slots -> ExecEvents]
  BY RingTypes DEF TypeOK
<1>6. Written(k)'
  BY <1>2, <1>3, <1>4, <1>5 DEF Written
<1>7. ASSUME NEW l \in DOMAIN ring, Written(l) PROVE Written(l)'
  <2>1. CASE l = k
    BY <1>6, <2>1
  <2>2. CASE l # k
    <3>1. ring[l].slot # ring[k].slot
      BY <2>2, OwnSlots
    <3>2. mem'[ring[l].slot] = mem[ring[l].slot]
      BY <1>3, <1>5, <3>1
    <3> QED  BY <1>2, <1>4, <1>7, <3>2 DEF Written
  <2> QED  BY <2>1, <2>2
<1>8. ASSUME NEW l \in DOMAIN ring, ring[l].id = running[c] PROVE l = k
  <2>1. ring[l].id \in Nat /\ l \in Nat /\ k \in Nat /\ ring[l].id = ring[k].id
    BY <1>1, <1>8, RingTypes, IdsIs
  <2>2. ~(l < k) /\ ~(k < l)
    BY <2>1 DEF OrderInv, Sorted
  <2> QED  BY <2>1, <2>2
<1>9. \A l \in DOMAIN ring' : ~ring'[l].busy => Written(l)'
  BY <1>2, <1>7 DEF WriteInv
<1>10. \A l \in DOMAIN ring' : \A d \in filled' : ring'[l].id = running'[d] => Written(l)'
  BY <1>2, <1>6, <1>7, <1>8 DEF WriteInv
<1>11. \A r \in inhand' : r.raw = Cap(r.id)'
  BY <1>2, <1>4 DEF WriteInv
<1>12. \A d \in filled' : running'[d] # 0
  BY <1>2 DEF WriteInv
<1> QED  BY <1>9, <1>10, <1>11, <1>12 DEF WriteInv

LEMMA WriteStep ==
  ASSUME TypeOK, OrderInv, InTurn, WriteInv, [Next]_vars
  PROVE  WriteInv'
<1>1. ASSUME NEW c \in CPUs, Leave(c) PROVE WriteInv'
  <2>1. /\ DOMAIN ring' = DOMAIN ring
        /\ \A k \in DOMAIN ring : /\ ring'[k].id = ring[k].id
                                  /\ ring'[k].slot = ring[k].slot
                                  /\ ring'[k].busy = (ring[k].busy /\ ring[k].id # running[c])
    BY <1>1, Submits
  <2>2. /\ UNCHANGED <<call, mem, inhand>> /\ c \in filled /\ filled' = filled \ {c}
        /\ running' = [running EXCEPT ![c] = 0]
    BY <1>1 DEF Leave, Submit, broker
  <2>3. \A i : Cap(i)' = Cap(i)
    BY <2>2 DEF Cap
  <2>4. \A k \in DOMAIN ring : Written(k)' <=> Written(k)
    BY <2>1, <2>2, <2>3 DEF Written
  <2>5. \A d \in filled' : d \in filled /\ running'[d] = running[d]
    BY <2>2, RingTypes DEF TypeOK
  <2>6. \A k \in DOMAIN ring' : ~ring'[k].busy => Written(k)'
    BY <2>1, <2>2, <2>4 DEF WriteInv
  <2>7. \A k \in DOMAIN ring' : \A d \in filled' : ring'[k].id = running'[d] => Written(k)'
    BY <2>1, <2>4, <2>5 DEF WriteInv
  <2>8. (\A r \in inhand' : r.raw = Cap(r.id)') /\ (\A d \in filled' : running'[d] # 0)
    BY <2>2, <2>3, <2>5 DEF WriteInv
  <2> QED  BY <2>6, <2>7, <2>8 DEF WriteInv
<1>2. CASE Read
  <2>1. /\ 1 \in DOMAIN ring /\ ~ring[1].busy
        /\ \A k \in DOMAIN ring' : k + 1 \in DOMAIN ring /\ ring'[k] = ring[k + 1]
        /\ inhand' = {[id |-> ring[1].id, raw |-> mem[ring[1].slot]]}
    BY <1>2, ReadTakes
  <2>2. UNCHANGED <<call, running, filled, mem>>
    BY <1>2 DEF Read
  <2>3. \A i : Cap(i)' = Cap(i)
    BY <2>2 DEF Cap
  <2>4. \A k \in DOMAIN ring' : Written(k)' <=> Written(k + 1)
    BY <2>1, <2>2, <2>3 DEF Written
  <2>5. Written(1)
    BY <2>1 DEF WriteInv
  <2>6. \A r \in inhand' : r.raw = Cap(r.id)'
    BY <2>1, <2>3, <2>5 DEF Written
  <2>7. \A k \in DOMAIN ring' : ~ring'[k].busy => Written(k)'
    BY <2>1, <2>4 DEF WriteInv
  <2>8. \A k \in DOMAIN ring' : \A d \in filled' : ring'[k].id = running'[d] => Written(k)'
    BY <2>1, <2>2, <2>4 DEF WriteInv
  <2>9. \A d \in filled' : running'[d] # 0
    BY <2>2 DEF WriteInv
  <2> QED  BY <2>6, <2>7, <2>8, <2>9 DEF WriteInv
<1>3. ASSUME UNCHANGED <<ring, call, running, filled, mem>>, inhand' \subseteq inhand PROVE WriteInv'
  <2>1. \A i : Cap(i)' = Cap(i)
    BY <1>3 DEF Cap
  <2>2. \A k : Written(k)' <=> Written(k)
    BY <1>3, <2>1 DEF Written
  <2>3. \A r \in inhand' : r.raw = Cap(r.id)'
    BY <1>3, <2>1 DEF WriteInv
  <2> QED  BY <1>3, <2>2, <2>3 DEF WriteInv
<1>4. ASSUME \/ Load \/ Attach \/ LoaderEnds \/ Open \/ Close \/ Crash \/ UNCHANGED vars
             \/ \E r \in inhand : Handle(r)
      PROVE  WriteInv'
  BY <1>3, <1>4 DEF Load, Attach, LoaderEnds, Open, Close, Crash, Handle, program, broker, vars
<1> QED  BY <1>1, <1>2, <1>4, WriteEnter, WriteFill DEF Next

\* What the broker decodes from a record is what that execve passed, cut to the
\* limits of lib.rs, for every number of slots and every size of the buffers:
\* slots are taken in turn, so no program writes to a record that is not its own,
\* and the zeroing leaves nothing of the slot's last record.
THEOREM RecordsAreFaithful == Spec => []RecordIsFaithful
<1>1. Init => InTurn /\ WriteInv
  <2> SUFFICES ASSUME Init PROVE InTurn /\ WriteInv
    OBVIOUS
  <2>1. DOMAIN ring = {} /\ Len(ring) = 0 /\ Len(call) = 0 /\ dropped = {} /\ filled = {} /\ inhand = {}
    BY DEF Init
  <2>2. Freed = 0
    BY <2>1, FS_EmptySet DEF Freed, Reserved
  <2> QED  BY <2>1, <2>2 DEF InTurn, WriteInv
<1>2. TypeOK /\ OrderInv /\ InTurn /\ WriteInv => RecordIsFaithful
  <2> SUFFICES ASSUME TypeOK, OrderInv, WriteInv, NEW r \in inhand
               PROVE  Faithful(r.raw, call[r.id], r.id)
    BY DEF RecordIsFaithful, Faithful
  <2>1. r.id \in 1 .. Len(call) /\ r.id \in Ids
    BY KnownIds DEF TypeOK
  <2>2. call[r.id] \in Calls
    BY <2>1, RingTypes
  <2>3. r.raw = Capture(Blank, call[r.id], r.id)
    BY DEF WriteInv, Cap
  <2> QED  BY <2>1, <2>2, <2>3, CaptureFaithful
<1>3. TypeOK /\ OrderInv /\ InTurn /\ WriteInv /\ [Next]_vars => InTurn' /\ WriteInv'
  BY InTurnStep, WriteStep
<1> QED  BY <1>1, <1>2, <1>3, OrderAlways, PTL DEF Spec

-------------------------------------------------------------------------------
(* Where the bytes of a record are *)

\* The fields in order, with their sizes worked out.
Table == <<
    Field("timestamp_ns", 8, 8), Field("pid", 4, 4), Field("tid", 4, 4), Field("uid", 4, 4),
    Field("gid", 4, 4), Field("comm", 16, 1), Field("filename", 256, 1), Field("filename_len", 2, 2),
    Field("args", 192, 1), Field("arg_lens", 12, 2), Field("argc", 1, 1), Field("truncated", 1, 1)>>

LEMMA FieldsAre ==
  Len(ExecEvent) = 12 /\ DOMAIN ExecEvent = 1 .. 12 /\ \A i \in 1 .. 12 : ExecEvent[i] = Table[i]
<1> DEFINE Mid == <<Field("filename_len", 2, 2), Field("args", MAX_ARGS * MAX_ARG_LEN, 1),
                  Field("arg_lens", MAX_ARGS * 2, 2)>>
<1>1. MAX_ARGS * MAX_ARG_LEN = 192 /\ MAX_ARGS * 2 = 12 /\ TASK_COMM_LEN = 16 /\ MAX_FILENAME_LEN = 256
  BY DEF MAX_ARGS, MAX_ARG_LEN, TASK_COMM_LEN, MAX_FILENAME_LEN
<1> DEFINE F == {Header[i] : i \in 1 .. 7} \cup {Mid[i] : i \in 1 .. 3} \cup {Trailer[i] : i \in 1 .. 2}
<1>2. Header \in Seq(F) /\ Len(Header) = 7
  BY DEF Header
<1>3. Mid \in Seq(F) /\ Len(Mid) = 3
  OBVIOUS
<1>4. Trailer \in Seq(F) /\ Len(Trailer) = 2
  BY DEF Trailer
<1> DEFINE g == Header \o Mid
           e == g \o Trailer
<1>5. ExecEvent = e
  BY DEF ExecEvent
<1> HIDE DEF F, Mid
<1>6. /\ Len(ExecEvent) = 12 /\ DOMAIN ExecEvent = 1 .. 12
      /\ \A i \in 1 .. 7 : ExecEvent[i] = Header[i]
      /\ ExecEvent[8] = Mid[1] /\ ExecEvent[9] = Mid[2] /\ ExecEvent[10] = Mid[3]
      /\ ExecEvent[11] = Trailer[1] /\ ExecEvent[12] = Trailer[2]
  <2>1. /\ g \in Seq(F) /\ Len(g) = Len(Header) + Len(Mid)
        /\ \A i \in 1 .. Len(Header) + Len(Mid) :
              g[i] = IF i <= Len(Header) THEN Header[i] ELSE Mid[i - Len(Header)]
    <3>1. Header \in Seq(F) /\ Mid \in Seq(F)
      BY <1>2, <1>3
    <3> QED  BY <3>1, ConcatProperties, Zenon
  <2> HIDE DEF g
  <2>2. Len(g) = 10 /\ \A i \in 1 .. 10 : g[i] = IF i <= 7 THEN Header[i] ELSE Mid[i - 7]
    BY <2>1, <1>2, <1>3
  <2>3. /\ e \in Seq(F) /\ Len(e) = Len(g) + Len(Trailer)
        /\ \A i \in 1 .. Len(g) + Len(Trailer) :
              e[i] = IF i <= Len(g) THEN g[i] ELSE Trailer[i - Len(g)]
    <3>1. g \in Seq(F) /\ Trailer \in Seq(F)
      BY <2>1, <1>4
    <3> QED  BY <3>1, ConcatProperties, Zenon
  <2> HIDE DEF e
  <2>4. Len(e) = 12 /\ \A i \in 1 .. 12 : e[i] = IF i <= 10 THEN g[i] ELSE Trailer[i - 10]
    BY <2>2, <2>3, <1>4
  <2>5. DOMAIN e = 1 .. 12 /\ \A i \in 1 .. 7 : e[i] = Header[i]
    <3>1. e \in Seq(F)
      BY <2>3
    <3>2. DOMAIN e = 1 .. Len(e)
      BY <3>1, LenProperties
    <3> QED  BY <3>2, <2>2, <2>4
  <2>6. /\ e[8] = Mid[8 - 7] /\ e[9] = Mid[9 - 7] /\ e[10] = Mid[10 - 7]
        /\ e[11] = Trailer[11 - 10] /\ e[12] = Trailer[12 - 10]
    BY <2>2, <2>4
  <2>7. /\ e[8] = Mid[1] /\ e[9] = Mid[2] /\ e[10] = Mid[3]
        /\ e[11] = Trailer[1] /\ e[12] = Trailer[2]
    BY <2>6
  <2> QED  BY <1>5, <2>4, <2>5, <2>7
<1>7. \A i \in 1 .. 7 : ExecEvent[i] = Table[i]
  BY <1>1, <1>6 DEF Header, Table
<1>8. Mid[1] = Table[8] /\ Mid[2] = Table[9] /\ Mid[3] = Table[10]
  BY <1>1 DEF Mid, Table
<1>9. Trailer[1] = Table[11] /\ Trailer[2] = Table[12]
  BY DEF Trailer, Table
<1> QED  BY <1>6, <1>7, <1>8, <1>9

Start == <<0, 8, 12, 16, 20, 24, 40, 296, 298, 490, 502, 503>>
StartOf(s, i) ==
    IF i = 1 THEN 0 ELSE AlignUp(s[i - 1] + ExecEvent[i - 1].bytes, ExecEvent[i].align)

Sizes == <<8, 4, 4, 4, 4, 16, 256, 2, 192, 12, 1, 1>>
Units == <<8, 4, 4, 4, 4, 1, 1, 2, 1, 2, 1, 1>>

LEMMA TableEntry == \A i \in 1 .. 12 : Table[i].bytes = Sizes[i] /\ Table[i].align = Units[i]
  BY DEF Table, Field, Sizes, Units

LEMMA NextStart == \A s : \A i \in 2 .. 12 : s[i - 1] = Start[i - 1] => StartOf(s, i) = Start[i]
<1>1. /\ AlignUp(0 + 8, 4) = 8 /\ AlignUp(8 + 4, 4) = 12 /\ AlignUp(12 + 4, 4) = 16
      /\ AlignUp(16 + 4, 4) = 20 /\ AlignUp(20 + 4, 1) = 24 /\ AlignUp(24 + 16, 1) = 40
      /\ AlignUp(40 + 256, 2) = 296 /\ AlignUp(296 + 2, 1) = 298 /\ AlignUp(298 + 192, 2) = 490
      /\ AlignUp(490 + 12, 1) = 502 /\ AlignUp(502 + 1, 1) = 503
  BY DEF AlignUp
<1>2. ASSUME NEW i \in 2 .. 12
      PROVE  AlignUp(Start[i - 1] + ExecEvent[i - 1].bytes, ExecEvent[i].align) = Start[i]
  <2>1. i - 1 \in 1 .. 12 /\ i \in 1 .. 12
    OBVIOUS
  <2>2. ExecEvent[i - 1].bytes = Sizes[i - 1] /\ ExecEvent[i].align = Units[i]
    BY <2>1, FieldsAre, TableEntry
  <2> QED  BY <1>1, <2>2 DEF Start, Sizes, Units
<1> QED  BY <1>2 DEF StartOf

\* The table meets the recursion, and nothing else does.
LEMMA OffsetIs == Offset = [i \in 1 .. 12 |-> Start[i]]
<1> DEFINE f == [i \in 1 .. 12 |-> Start[i]]
           Def(g) == g = [i \in DOMAIN ExecEvent |->
                             IF i = 1 THEN 0
                             ELSE AlignUp(g[i - 1] + ExecEvent[i - 1].bytes, ExecEvent[i].align)]
<1>1. Offset = CHOOSE g : Def(g)
  BY DEF Offset
<1>2. Def(f)
  <2>1. ASSUME NEW i \in 1 .. 12 PROVE f[i] = StartOf(f, i)
    <3>1. CASE i = 1
       BY <3>1 DEF Start, StartOf
    <3>2. CASE i # 1
       BY <3>2, NextStart
    <3> QED  BY <3>1, <3>2
  <2>2. f = [i \in 1 .. 12 |-> StartOf(f, i)]
    BY <2>1
  <2> QED  BY <2>2, FieldsAre DEF StartOf
<1>3. Def(Offset)
  BY <1>1, <1>2
<1>4. Offset = [i \in 1 .. 12 |-> StartOf(Offset, i)]
  BY <1>3, FieldsAre DEF StartOf
<1> HIDE DEF f, Def
<1> DEFINE Ok(i) == Offset[i] = Start[i]
<1>5. Ok(1)
  BY <1>4 DEF StartOf, Start
<1>6. \A i \in 2 .. 12 : Ok(i - 1) => Ok(i)
  BY <1>4, NextStart
<1>7. Ok(2)  BY <1>5, <1>6
<1>8. Ok(3)  BY <1>7, <1>6
<1>9. Ok(4)  BY <1>8, <1>6
<1>10. Ok(5)  BY <1>9, <1>6
<1>11. Ok(6)  BY <1>10, <1>6
<1>12. Ok(7)  BY <1>11, <1>6
<1>13. Ok(8)  BY <1>12, <1>6
<1>14. Ok(9)  BY <1>13, <1>6
<1>15. Ok(10)  BY <1>14, <1>6
<1>16. Ok(11)  BY <1>15, <1>6
<1>17. Ok(12)  BY <1>16, <1>6
<1>18. \A i \in 1 .. 12 : Ok(i)
  BY <1>5, <1>7, <1>8, <1>9, <1>10, <1>11, <1>12, <1>13, <1>14, <1>15, <1>16, <1>17
<1> QED  BY <1>4, <1>18

LEMMA WritesAre == Writes = Reads /\ SizeOf = EventSize
<1> DEFINE W(i) == [name |-> ExecEvent[i].name, from |-> Offset[i], bytes |-> ExecEvent[i].bytes]
<1>1. Writes = {W(1), W(2), W(3), W(4), W(5), W(6), W(7), W(8), W(9), W(10), W(11), W(12)}
  <2>1. Writes = {W(i) : i \in 1 .. 12}
    BY FieldsAre DEF Writes
  <2>2. 1 .. 12 = {1, 2, 3, 4, 5, 6, 7, 8, 9, 10, 11, 12}
    OBVIOUS
  <2> HIDE DEF W
  <2> QED  BY <2>1, <2>2
<1>2. ASSUME NEW i \in 1 .. 12
      PROVE  W(i) = [name |-> Table[i].name, from |-> Start[i], bytes |-> Table[i].bytes]
  BY FieldsAre, OffsetIs
<1> HIDE DEF W
<1>3. /\ W(1) = [name |-> "timestamp_ns", from |-> 0,   bytes |-> 8]
      /\ W(2) = [name |-> "pid",          from |-> 8,   bytes |-> 4]
      /\ W(3) = [name |-> "tid",          from |-> 12,  bytes |-> 4]
      /\ W(4) = [name |-> "uid",          from |-> 16,  bytes |-> 4]
      /\ W(5) = [name |-> "gid",          from |-> 20,  bytes |-> 4]
      /\ W(6) = [name |-> "comm",         from |-> 24,  bytes |-> 16]
      /\ W(7) = [name |-> "filename",     from |-> 40,  bytes |-> 256]
      /\ W(8) = [name |-> "filename_len", from |-> 296, bytes |-> 2]
      /\ W(9) = [name |-> "args",         from |-> 298, bytes |-> 6 * 32]
      /\ W(10) = [name |-> "arg_lens",    from |-> 490, bytes |-> 6 * 2]
      /\ W(11) = [name |-> "argc",        from |-> 502, bytes |-> 1]
      /\ W(12) = [name |-> "truncated",   from |-> 503, bytes |-> 1]
  BY <1>2 DEF Table, Start, Field
<1>4. Writes = Reads
  BY <1>1, <1>3, Zenon DEF Reads
<1>5. SizeOf = AlignUp(503 + 1, 8)
  BY FieldsAre, OffsetIs, TableEntry DEF SizeOf, Start, Sizes
<1>6. SizeOf = EventSize
  BY <1>5 DEF AlignUp, EventSize
<1> QED  BY <1>4, <1>6

\* What Decode reads, field by field, is what the program wrote: every record that is
\* in hand has all its fields at the offsets of events.go, with their widths, and the
\* size the length check asks for.
THEOREM FieldsAreReadWhereWritten == Spec => []ReadWhereWritten
<1> DEFINE Names == {"filename", "filename_len", "args", "arg_lens", "argc", "truncated"}
<1>1. Names \subseteq {w.name : w \in Writes}
  <2>1. Names \subseteq {w.name : w \in Reads}
    BY DEF Reads
  <2> QED  BY <2>1, WritesAre
<1>2. ASSUME NEW e \in ExecEvents PROVE DOMAIN e = Names
  BY DEF ExecEvents
<1>3. SizeOf >= EventSize
  BY WritesAre DEF EventSize
<1>4. TypeOK => ReadWhereWritten
  <2> SUFFICES ASSUME TypeOK, NEW r \in inhand PROVE DOMAIN r.raw = Names
    BY <1>1, <1>3, WritesAre DEF ReadWhereWritten
  <2>1. r.raw \in ExecEvents
    BY DEF TypeOK
  <2> QED  BY <1>2, <2>1
<1> QED  BY <1>4, TypeCorrect, PTL
===============================================================================
