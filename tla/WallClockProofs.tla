---------------------------- MODULE WallClockProofs ----------------------------
(***************************************************************************)
(* Proofs about WallClock: for every grain of /proc/uptime and any number   *)
(* of records, suspensions and restarts.                                    *)
(***************************************************************************)
EXTENDS WallClock, TLAPS

-------------------------------------------------------------------------------
(* Rounding down, and sequences *)

LEMMA RoundedDown ==
  ASSUME NEW n \in Nat, NEW g \in Nat \ {0}
  PROVE  LET v == (n \div g) * g IN v \in Nat /\ v <= n /\ n < v + g
<1>1. n = (n \div g) * g + (n % g) /\ n % g \in 0 .. g - 1 /\ n \div g \in Nat
  OBVIOUS
<1>2. (n \div g) * g \in Nat
  BY <1>1
<1> QED  BY <1>1, <1>2

LEMMA ElementIn ==
  ASSUME NEW S, NEW s \in Seq(S), NEW i \in DOMAIN s
  PROVE  s[i] \in S
  OBVIOUS

LEMMA AppendParts ==
  ASSUME NEW S, NEW s \in Seq(S), NEW x \in S
  PROVE  /\ Append(s, x) \in Seq(S)
         /\ \A i \in DOMAIN Append(s, x) :
              (i \in DOMAIN s /\ Append(s, x)[i] = s[i]) \/ Append(s, x)[i] = x
  OBVIOUS

LEMMA TailParts ==
  ASSUME NEW S, NEW s \in Seq(S), s # <<>>
  PROVE  /\ Head(s) \in S /\ 1 \in DOMAIN s /\ Head(s) = s[1]
         /\ Tail(s) \in Seq(S)
         /\ \A i \in DOMAIN Tail(s) : \E k \in DOMAIN s : Tail(s)[i] = s[k]
<1>1. /\ Head(s) \in S /\ 1 \in DOMAIN s /\ Head(s) = s[1] /\ Tail(s) \in Seq(S)
      /\ \A i \in DOMAIN Tail(s) : i + 1 \in DOMAIN s /\ Tail(s)[i] = s[i + 1]
  OBVIOUS
<1> QED  BY <1>1

LEMMA ReplaceParts ==
  ASSUME NEW S, NEW s \in Seq(S), NEW k \in DOMAIN s, NEW x \in S
  PROVE  /\ [s EXCEPT ![k] = x] \in Seq(S)
         /\ \A i \in DOMAIN [s EXCEPT ![k] = x] :
              i \in DOMAIN s /\ [s EXCEPT ![k] = x][i] \in {s[i], x}
  OBVIOUS

-------------------------------------------------------------------------------
(* What holds of the clocks, of the anchor and of the records *)

Records == [ns : Nat \cup {None}, at : Nat \cup {None}]
Stamps == [ts : Int, at : Nat]

ClockTypeOK ==
    /\ awake \in Nat /\ asleep \in Nat
    /\ pending \in Seq(Records)
    /\ stamped \in Seq(Stamps)
    /\ uptime \in [value : Int, read : Nat, used : Nat]
    /\ anchor \in Int

\* The anchor is set once, after the uptime was read, and nothing is stamped
\* before.  It is never before the boot, so never taken for one that is not set.
Anchored ==
    /\ anchor # None => anchor >= 0 /\ uptime.value # None
    /\ anchor = None => stamped = <<>>

\* The uptime that was read, and what the anchor makes of it.
Rounded ==
    /\ uptime.value # None => uptime.read <= Now
    /\ uptime.value >= 0 => uptime.value <= uptime.read /\ uptime.read < uptime.value + Grain
    /\ anchor # None /\ uptime.value >= 0 =>
         anchor = uptime.used - uptime.value /\ uptime.read <= uptime.used

\* The captures of this process and of the ring buffer: what the monotonic clock
\* and the wall clock showed, as far as the records and the timestamps tell.
Captured == {[ns |-> pending[k].ns, at |-> pending[k].at] : k \in DOMAIN pending \ Unstamped}
Decoded == {[ns |-> stamped[i].ts - anchor, at |-> stamped[i].at] : i \in DOMAIN stamped}
Seen == Captured \cup Decoded

\* Both clocks only go on, so they order any two captures alike; and the wall
\* clock is ahead by no more than the time the host has been suspended.
SeenInTime ==
    /\ Seen \subseteq [ns : Nat, at : Nat]
    /\ \A r \in Seen : r.ns <= awake /\ r.ns <= r.at /\ r.at <= r.ns + asleep
    /\ \A r, s \in Seen : r.at <= s.at => r.ns <= s.ns

ClockInv == ClockTypeOK /\ Anchored /\ Rounded /\ SeenInTime

LEMMA FieldTypes ==
  ASSUME ClockTypeOK
  PROVE  /\ \A k \in DOMAIN pending : pending[k] \in Records
         /\ \A i \in DOMAIN stamped : stamped[i] \in Stamps /\ stamped[i].ts \in Int /\ stamped[i].at \in Nat
<1>1. \A k \in DOMAIN pending : pending[k] \in Records
  BY ElementIn DEF ClockTypeOK
<1>2. \A i \in DOMAIN stamped : stamped[i] \in Stamps
  BY ElementIn DEF ClockTypeOK
<1> QED  BY <1>1, <1>2 DEF Stamps

\* The captures stay in time when no new one is made.
LEMMA SeenKept ==
  ASSUME ClockTypeOK, SeenInTime, Seen' \subseteq Seen,
         awake' \in Nat, asleep' \in Nat, awake <= awake', asleep <= asleep'
  PROVE  SeenInTime'
<1>1. ASSUME NEW r \in Seen' PROVE r.ns <= awake' /\ r.ns <= r.at /\ r.at <= r.ns + asleep'
  <2>1. /\ r.ns \in Nat /\ r.at \in Nat /\ r.ns <= awake /\ r.ns <= r.at /\ r.at <= r.ns + asleep
        /\ awake \in Nat /\ asleep \in Nat
    BY <1>1 DEF SeenInTime, ClockTypeOK
  <2> QED  BY <2>1
<1> QED  BY <1>1 DEF SeenInTime

LEMMA SeenSame ==
  ASSUME ClockTypeOK, SeenInTime, UNCHANGED <<pending, stamped>>,
         stamped = <<>> \/ anchor' = anchor,
         awake' \in Nat, asleep' \in Nat, awake <= awake', asleep <= asleep'
  PROVE  SeenInTime'
<1>1. Captured' = Captured /\ Decoded' = Decoded
  BY DEF Captured, Decoded, Unstamped
<1>2. Seen' \subseteq Seen
  BY <1>1 DEF Seen
<1> QED  BY <1>2, SeenKept

LEMMA ClockInit == Init => ClockInv
<1> SUFFICES ASSUME Init PROVE ClockInv
  OBVIOUS
<1>1. pending = <<>> /\ stamped = <<>> /\ DOMAIN pending = {} /\ DOMAIN stamped = {}
  BY DEF Init
<1>2. Seen = {}
  BY <1>1 DEF Seen, Captured, Decoded
<1>3. SeenInTime
  BY <1>2 DEF SeenInTime
<1> QED
  BY <1>1, <1>3 DEF Init, ClockInv, ClockTypeOK, Anchored, Rounded, NotRead, None, Now

\* Time passes.
LEMMA TimeStep ==
  ASSUME ClockInv, Tick \/ Suspend
  PROVE  ClockInv'
<1>1. /\ awake' \in Nat /\ asleep' \in Nat /\ awake <= awake' /\ asleep <= asleep'
      /\ UNCHANGED <<pending, uptime, anchor, stamped>>
  BY DEF Tick, Suspend, ClockInv, ClockTypeOK
<1>2. ClockTypeOK' /\ Anchored'
  BY <1>1 DEF ClockInv, ClockTypeOK, Anchored
<1>3. Rounded'
  BY <1>1 DEF ClockInv, ClockTypeOK, Rounded, Now
<1>4. SeenInTime'
  BY <1>1, SeenSame DEF ClockInv
<1> QED  BY <1>2, <1>3, <1>4 DEF ClockInv

\* A reserved record is not a capture yet.
LEMMA ReserveStep ==
  ASSUME ClockInv, Reserve
  PROVE  ClockInv'
<1> DEFINE r == [ns |-> None, at |-> None]
<1>1. r \in Records /\ r.ns = None
  BY DEF Records
<1>2. pending' = Append(pending, r) /\ UNCHANGED <<awake, asleep, uptime, anchor, stamped>>
  BY DEF Reserve
<1> HIDE DEF r
<1>3. /\ pending' \in Seq(Records)
      /\ \A i \in DOMAIN pending' : (i \in DOMAIN pending /\ pending'[i] = pending[i]) \/ pending'[i] = r
  BY <1>1, <1>2, AppendParts DEF ClockInv, ClockTypeOK
<1>4. Seen' \subseteq Seen
  <2>1. Captured' \subseteq Captured
    BY <1>1, <1>3 DEF Captured, Unstamped
  <2>2. Decoded' = Decoded
    BY <1>2 DEF Decoded
  <2> QED  BY <2>1, <2>2 DEF Seen
<1>5. SeenInTime'
  BY <1>2, <1>4, SeenKept DEF ClockInv, ClockTypeOK
<1> QED  BY <1>2, <1>3, <1>5 DEF ClockInv, ClockTypeOK, Anchored, Rounded, Now

\* A capture reads both clocks, and both have gone on since any other.
LEMMA CaptureStep ==
  ASSUME ClockInv, NEW k \in DOMAIN pending, Capture(k)
  PROVE  ClockInv'
<1> DEFINE r == [ns |-> awake, at |-> Now]
<1>1. awake \in Nat /\ asleep \in Nat /\ Now = awake + asleep /\ Now \in Nat
  BY DEF ClockInv, ClockTypeOK, Now
<1>2. r \in Records /\ r \in [ns : Nat, at : Nat] /\ r.ns = awake /\ r.at = awake + asleep
  BY <1>1 DEF Records
<1>3. pending' = [pending EXCEPT ![k] = r] /\ UNCHANGED <<awake, asleep, uptime, anchor, stamped>>
  BY DEF Capture
<1>4. [ns |-> r.ns, at |-> r.at] = r
  OBVIOUS
<1> HIDE DEF r
<1>5. /\ pending' \in Seq(Records)
      /\ \A i \in DOMAIN pending' : i \in DOMAIN pending /\ pending'[i] \in {pending[i], r}
  BY <1>2, <1>3, ReplaceParts DEF ClockInv, ClockTypeOK
<1>6. Seen' \subseteq Seen \cup {r}
  <2>1. Captured' \subseteq Captured \cup {r}
    BY <1>4, <1>5 DEF Captured, Unstamped
  <2>2. Decoded' = Decoded
    BY <1>3 DEF Decoded
  <2> QED  BY <2>1, <2>2 DEF Seen
<1>7. \A s \in Seen : /\ s.ns \in Nat /\ s.at \in Nat
                      /\ s.ns <= awake /\ s.ns <= s.at /\ s.at <= s.ns + asleep
  BY DEF ClockInv, SeenInTime
<1>8. ASSUME NEW s \in Seen PROVE s.ns <= r.ns /\ (r.at <= s.at => r.ns <= s.ns)
  BY <1>1, <1>2, <1>7
<1>9. SeenInTime'
  <2>1. Seen' \subseteq [ns : Nat, at : Nat]
    BY <1>2, <1>6 DEF ClockInv, SeenInTime
  <2>2. ASSUME NEW s \in Seen' PROVE s.ns <= awake /\ s.ns <= s.at /\ s.at <= s.ns + asleep
    BY <1>1, <1>2, <1>6, <1>7
  <2>3. ASSUME NEW s \in Seen', NEW t \in Seen', s.at <= t.at PROVE s.ns <= t.ns
    <3>1. CASE s \in Seen /\ t \in Seen
      BY <2>3, <3>1 DEF ClockInv, SeenInTime
    <3>2. CASE t = r /\ s \in Seen
      BY <1>8, <3>2
    <3>3. CASE s = r /\ t \in Seen
      BY <1>8, <2>3, <3>3
    <3>4. CASE s = r /\ t = r
      BY <1>1, <1>2, <3>4
    <3> QED  BY <1>6, <3>1, <3>2, <3>3, <3>4
  <2> QED  BY <1>3, <2>1, <2>2, <2>3 DEF SeenInTime
<1> QED  BY <1>3, <1>5, <1>9 DEF ClockInv, ClockTypeOK, Anchored, Rounded, Now

\* bootWallTime reads the uptime.
LEMMA ReadUptimeStep ==
  ASSUME ClockInv, ReadUptime
  PROVE  ClockInv'
<1>1. anchor = None /\ UNCHANGED <<awake, asleep, pending, anchor, stamped>>
  BY DEF ReadUptime
<1>2. Now \in Nat /\ Now' = Now
  BY <1>1 DEF ClockInv, ClockTypeOK, Now
<1>3. PICK v \in {(Now \div Grain) * Grain, Failed} : uptime' = [value |-> v, read |-> Now, used |-> 0]
  BY DEF ReadUptime
<1>4. v \in Int /\ (v = Failed \/ (v \in Nat /\ v <= Now /\ Now < v + Grain))
  <2>1. Grain \in Nat \ {0}
    BY ClockAssumption
  <2>2. LET w == (Now \div Grain) * Grain IN w \in Nat /\ w <= Now /\ Now < w + Grain
    BY <1>2, <2>1, RoundedDown
  <2>3. CASE v = Failed
    BY <2>3 DEF Failed
  <2> QED  BY <1>3, <2>2, <2>3
<1>5. /\ uptime' \in [value : Int, read : Nat, used : Nat]
      /\ uptime'.value = v /\ uptime'.read = Now
  BY <1>2, <1>3, <1>4
<1>6. ClockTypeOK' /\ Anchored'
  BY <1>1, <1>5 DEF ClockInv, ClockTypeOK, Anchored
<1>7. SeenInTime'
  BY <1>1, SeenSame DEF ClockInv, ClockTypeOK
<1>8. Rounded'
  BY <1>1, <1>2, <1>4, <1>5 DEF Rounded, Failed
<1> QED  BY <1>6, <1>7, <1>8 DEF ClockInv

\* It sets the anchor, some time later.
LEMMA SetAnchorStep ==
  ASSUME ClockInv, SetAnchor
  PROVE  ClockInv'
<1>1. /\ uptime.value # None /\ anchor = None /\ UNCHANGED <<awake, asleep, pending, stamped>>
      /\ stamped = <<>>
  BY DEF SetAnchor, ClockInv, Anchored
<1>2. Now \in Nat /\ Now' = Now
  BY <1>1 DEF ClockInv, ClockTypeOK, Now
<1>3. /\ uptime' \in [value : Int, read : Nat, used : Nat]
      /\ uptime'.value = uptime.value /\ uptime'.read = uptime.read /\ uptime'.used = Now
  BY <1>2 DEF SetAnchor, ClockInv, ClockTypeOK
<1>4. uptime.value \in Int /\ uptime.read \in Nat /\ uptime.read <= Now
  BY <1>1 DEF ClockInv, ClockTypeOK, Rounded
<1>5. /\ uptime.value = Failed => anchor' = Now
      /\ uptime.value # Failed => anchor' = Now - uptime.value
      /\ uptime.value >= 0 => uptime.value <= uptime.read /\ uptime.read < uptime.value + Grain
  BY DEF SetAnchor, ClockInv, Rounded
<1>6. anchor' \in Int /\ anchor' >= 0
  BY <1>2, <1>4, <1>5, <1>1 DEF None, Failed
<1>7. ClockTypeOK' /\ Anchored'
  BY <1>1, <1>3, <1>6 DEF ClockInv, ClockTypeOK, Anchored, None
<1>8. SeenInTime'
  BY <1>1, SeenSame DEF ClockInv, ClockTypeOK
<1>9. Rounded'
  BY <1>2, <1>3, <1>4, <1>5 DEF Rounded, Failed
<1> QED  BY <1>7, <1>8, <1>9 DEF ClockInv

\* Decode stamps the oldest record, and the timestamp tells its capture.
LEMMA DecodeStep ==
  ASSUME ClockInv, Decode
  PROVE  ClockInv'
<1> DEFINE r == Head(pending)
           e == [ts |-> Stamp(r), at |-> r.at]
           c == [ns |-> r.ns, at |-> r.at]
<1>1. /\ pending # <<>> /\ r.ns # None /\ anchor # None
      /\ stamped' = Append(stamped, e) /\ pending' = Tail(pending)
      /\ UNCHANGED <<awake, asleep, anchor, uptime>>
  BY DEF Decode, AnchoredOnce, Submitted
<1>2. /\ 1 \in DOMAIN pending /\ r = pending[1] /\ pending' \in Seq(Records)
      /\ \A i \in DOMAIN pending' : \E k \in DOMAIN pending : pending'[i] = pending[k]
  BY <1>1, TailParts DEF ClockInv, ClockTypeOK
<1>3. c \in Captured
  BY <1>1, <1>2 DEF Captured, Unstamped
<1>4. r.ns \in Nat /\ r.at \in Nat /\ anchor \in Int
  <2>1. c \in [ns : Nat, at : Nat]
    BY <1>3 DEF ClockInv, SeenInTime, Seen
  <2> QED  BY <2>1 DEF ClockInv, ClockTypeOK
<1>5. e \in Stamps /\ e.ts - anchor = r.ns /\ e.at = r.at
  BY <1>4 DEF Stamp, Stamps
<1> HIDE DEF r, e
<1>6. /\ stamped' \in Seq(Stamps)
      /\ \A i \in DOMAIN stamped' : (i \in DOMAIN stamped /\ stamped'[i] = stamped[i]) \/ stamped'[i] = e
  BY <1>1, <1>5, AppendParts DEF ClockInv, ClockTypeOK
<1>7. Captured' \subseteq Captured
  BY <1>2 DEF Captured, Unstamped
<1>8. Decoded' \subseteq Decoded \cup {c}
  BY <1>1, <1>5, <1>6 DEF Decoded
<1>9. Seen' \subseteq Seen
  BY <1>3, <1>7, <1>8 DEF Seen
<1>10. SeenInTime'
  BY <1>1, <1>9, SeenKept DEF ClockInv, ClockTypeOK
<1> QED
  BY <1>1, <1>2, <1>6, <1>10 DEF ClockInv, ClockTypeOK, Anchored, Rounded, Now

\* A new process knows neither anchor nor uptime, and has stamped nothing.
LEMMA RestartStep ==
  ASSUME ClockInv, Restart
  PROVE  ClockInv'
<1>1. /\ anchor' = None /\ uptime' = NotRead /\ stamped' = <<>> /\ DOMAIN stamped' = {}
      /\ UNCHANGED <<awake, asleep, pending>>
  BY DEF Restart
<1>2. Captured' = Captured /\ Decoded' = {}
  BY <1>1 DEF Captured, Decoded, Unstamped
<1>3. Seen' \subseteq Seen
  BY <1>2 DEF Seen
<1>4. SeenInTime'
  BY <1>1, <1>3, SeenKept DEF ClockInv, ClockTypeOK
<1>5. stamped' \in Seq(Stamps)
  BY <1>1
<1> QED
  BY <1>1, <1>4, <1>5 DEF ClockInv, ClockTypeOK, Anchored, Rounded, NotRead, None, Now

LEMMA ClockAlways == Spec => []ClockInv
<1>1. ClockInv /\ [Next]_vars => ClockInv'
  <2> SUFFICES ASSUME ClockInv, [Next]_vars PROVE ClockInv'
    OBVIOUS
  <2>1. CASE UNCHANGED vars
    <3>1. SeenInTime'
      BY <2>1, SeenSame DEF vars, ClockInv, ClockTypeOK
    <3> QED  BY <2>1, <3>1 DEF vars, ClockInv, ClockTypeOK, Anchored, Rounded, Now
  <2> QED
    BY <2>1, TimeStep, ReserveStep, CaptureStep, ReadUptimeStep, SetAnchorStep, DecodeStep,
       RestartStep DEF Next, Captures
<1> QED  BY <1>1, ClockInit, PTL DEF Spec

\* Within one broker process timestamps order events as they were captured,
\* whenever the anchor was computed, for any number of CPUs, records, suspensions
\* and restarts.
THEOREM TimestampsOrderEvents == Spec => []StampsOrderEvents
<1>1. ClockInv => StampsOrderEvents
  <2> SUFFICES ASSUME ClockInv, NEW i \in DOMAIN stamped, NEW j \in DOMAIN stamped,
                      stamped[i].at <= stamped[j].at
               PROVE  stamped[i].ts <= stamped[j].ts
    BY DEF StampsOrderEvents
  <2> DEFINE R(k) == [ns |-> stamped[k].ts - anchor, at |-> stamped[k].at]
  <2>1. R(i) \in Seen /\ R(j) \in Seen
    BY DEF Seen, Decoded
  <2>2. R(i).at <= R(j).at => R(i).ns <= R(j).ns
    BY <2>1 DEF ClockInv, SeenInTime
  <2>3. stamped[i].ts - anchor <= stamped[j].ts - anchor
    BY <2>2
  <2>4. stamped[i].ts \in Int /\ stamped[j].ts \in Int /\ anchor \in Int
    BY FieldTypes DEF ClockInv, ClockTypeOK
  <2> QED  BY <2>3, <2>4
<1> QED  BY <1>1, ClockAlways, PTL

\* On a host that was never suspended a timestamp is not early, and late by less
\* than the grain of /proc/uptime and the wait inside bootWallTime.
THEOREM TimestampsAreAccurate == Spec => []StampAccurate
<1>1. ClockInv => StampAccurate
  <2> SUFFICES ASSUME ClockInv, asleep = 0, uptime.value >= 0, NEW i \in DOMAIN stamped
               PROVE  LET late == stamped[i].ts - stamped[i].at
                      IN  0 <= late /\ late < Grain + (uptime.used - uptime.read)
    BY DEF StampAccurate
  <2>1. stamped # <<>> /\ anchor # None /\ anchor \in Int
    BY DEF ClockInv, Anchored, ClockTypeOK
  <2>2. stamped[i].ts \in Int /\ stamped[i].at \in Nat
    BY FieldTypes DEF ClockInv
  <2>3. stamped[i].ts - stamped[i].at = anchor
    <3> DEFINE r == [ns |-> stamped[i].ts - anchor, at |-> stamped[i].at]
    <3>1. r \in Seen
      BY DEF Seen, Decoded
    <3>2. r.ns \in Nat /\ r.at \in Nat /\ r.ns <= r.at /\ r.at <= r.ns + asleep
      BY <3>1 DEF ClockInv, SeenInTime
    <3>3. stamped[i].ts - anchor = stamped[i].at
      BY <3>2
    <3> QED  BY <2>1, <2>2, <3>3
  <2>4. /\ anchor = uptime.used - uptime.value /\ anchor >= 0
        /\ uptime.read < uptime.value + Grain
        /\ uptime.used \in Nat /\ uptime.read \in Nat /\ uptime.value \in Int
    BY <2>1 DEF ClockInv, Rounded, ClockTypeOK, Anchored
  <2>5. Grain \in Nat
    BY ClockAssumption
  <2> QED  BY <2>3, <2>4, <2>5
<1> QED  BY <1>1, ClockAlways, PTL
===============================================================================
