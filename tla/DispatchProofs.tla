---------------------------- MODULE DispatchProofs ----------------------------
(* Theorems about where Pipeline keeps each event: in one place at a time,     *)
(* moved only along the paths DispatchPromise allows, and counted.             *)
EXTENDS PipelineProofs

-------------------------------------------------------------------------------
(* Sequences without repetitions. *)

LEMMA DistinctEmpty == Distinct(<<>>)
  BY DEF Distinct

LEMMA DistinctAppend ==
  ASSUME NEW S, NEW s \in Seq(S), Distinct(s), NEW e \in S, e \notin Elements(s) \/ e = Torn
  PROVE  Distinct(Append(s, e))
<1>1. Append(s, e) \in Seq(S) /\ Len(Append(s, e)) = Len(s) + 1 /\ Len(s) \in Nat
  OBVIOUS
<1>2. \A i \in 1..Len(s) : Append(s, e)[i] = s[i]
  OBVIOUS
<1>3. Append(s, e)[Len(s) + 1] = e
  OBVIOUS
<1>4. DOMAIN Append(s, e) = 1..(Len(s) + 1) /\ DOMAIN s = 1..Len(s)
  BY <1>1
<1>5. e # Torn => \A i \in 1..Len(s) : s[i] # e
  BY <1>4 DEF Elements
<1>6. ASSUME NEW i \in 1..(Len(s) + 1), NEW j \in 1..(Len(s) + 1),
             Append(s, e)[i] = Append(s, e)[j], Append(s, e)[i] # Torn
      PROVE  i = j
  <2>1. CASE i \in 1..Len(s) /\ j \in 1..Len(s)
    BY <1>2, <1>4, <1>6, <2>1 DEF Distinct
  <2>2. CASE i = Len(s) + 1 /\ j \in 1..Len(s)
    BY <1>2, <1>3, <1>5, <1>6, <2>2
  <2>3. CASE j = Len(s) + 1 /\ i \in 1..Len(s)
    BY <1>2, <1>3, <1>5, <1>6, <2>3
  <2> QED  BY <1>1, <2>1, <2>2, <2>3
<1> QED  BY <1>4, <1>6 DEF Distinct

LEMMA DistinctTail ==
  ASSUME NEW S, NEW s \in Seq(S), Distinct(s), s # <<>>
  PROVE  /\ Distinct(Tail(s))
         /\ Head(s) # Torn => Head(s) \notin Elements(Tail(s))
<1>1. Head(s) = s[1] /\ Tail(s) \in Seq(S) /\ Len(Tail(s)) = Len(s) - 1
  OBVIOUS
<1>2. Len(s) \in Nat \ {0} /\ DOMAIN s = 1..Len(s) /\ DOMAIN Tail(s) = 1..(Len(s) - 1)
  BY <1>1
<1>3. \A i \in 1..(Len(s) - 1) : Tail(s)[i] = s[i + 1]
  OBVIOUS
<1>4. ASSUME NEW i \in 1..(Len(s) - 1), NEW j \in 1..(Len(s) - 1),
             Tail(s)[i] = Tail(s)[j], Tail(s)[i] # Torn
      PROVE  i = j
  <2>1. i + 1 \in DOMAIN s /\ j + 1 \in DOMAIN s
    BY <1>2
  <2>2. i + 1 = j + 1
    BY <1>3, <1>4, <2>1 DEF Distinct
  <2> QED  BY <2>2
<1>5. ASSUME NEW i \in 1..(Len(s) - 1), Tail(s)[i] = Head(s), Head(s) # Torn PROVE FALSE
  <2>1. i + 1 \in DOMAIN s /\ 1 \in DOMAIN s /\ s[i + 1] = s[1]
    BY <1>1, <1>2, <1>3, <1>5
  <2>2. i + 1 = 1
    BY <1>1, <1>5, <2>1 DEF Distinct
  <2> QED  BY <2>2
<1> QED  BY <1>2, <1>4, <1>5 DEF Distinct, Elements

-------------------------------------------------------------------------------
(* The eight places an event can be in. *)

Queued == Elements(queue)
Spilled == Elements(overflow.file) \ {Torn}
Replaying == Elements(replay) \ {Torn}

\* The events counted lost, as far as they are in no other place: a short write
\* that misses only the newline counts an event that stays on disk.
Missing == IF "torn" \in Faults THEN {} ELSE lost

Place == <<unseen, Queued, Holding, Spilled, Replaying, evaluated, Missing, abandoned>>

\* Where an event goes that is counted lost: to a place, or out of sight.
LossPlace == IF "torn" \in Faults THEN 0 ELSE 7

Apart(P) == \A i, j \in DOMAIN P : i # j => P[i] \cap P[j] = {}

\* No sequence holds an event twice, and no two workers hold the same.
NoTwins ==
    /\ Distinct(queue)
    /\ Distinct(overflow.file)
    /\ Distinct(replay)
    /\ \A v, w \in Workers : held[v] = held[w] /\ held[v] # NoEvent => v = w

LEMMA PlaceDomain == DOMAIN Place = 1..8 /\ DOMAIN Place' = 1..8
  BY DEF Place

\* M leaves the places of J, for the place k if there is one of that number, and
\* nothing else arrives anywhere.
LEMMA ApartMoves ==
  ASSUME Apart(Place), NEW M, NEW J \in SUBSET (1..8), NEW k \in 0..8,
         \A x \in M : \E j \in J : x \in Place[j],
         \A j \in J : j # k => Place'[j] \cap M = {},
         \A i \in 1..8 : Place'[i] \subseteq IF i = k THEN Place[i] \cup M ELSE Place[i]
  PROVE  Apart(Place')
<1>1. \A i, j \in 1..8 : i # j => Place[i] \cap Place[j] = {}
  BY PlaceDomain DEF Apart
<1>2. \A i \in 1..8 : i # k => Place'[i] \cap M = {}
  BY <1>1
<1>3. ASSUME NEW i \in 1..8, NEW j \in 1..8, i # j PROVE Place'[i] \cap Place'[j] = {}
  BY <1>1, <1>2, <1>3
<1> QED  BY <1>3, PlaceDomain DEF Apart

\* The same as an equation for every place: M moves from the places of J to the
\* place k, or out of sight if that is 0.
Moved(M, J, k) ==
    /\ \A x \in M : \E j \in J : x \in Place[j]
    /\ \A i \in 1..8 : Place'[i] = IF i = k THEN Place[i] \cup M
                                   ELSE IF i \in J THEN Place[i] \ M ELSE Place[i]

LEMMA MovedApart ==
  ASSUME Apart(Place), NEW M, NEW J \in SUBSET (1..8), NEW k \in 0..8, Moved(M, J, k)
  PROVE  Apart(Place')
<1>1. \A j \in J : j # k => Place'[j] \cap M = {}
  BY DEF Moved
<1>2. \A i \in 1..8 : Place'[i] \subseteq IF i = k THEN Place[i] \cup M ELSE Place[i]
  BY DEF Moved
<1>3. \A x \in M : \E j \in J : x \in Place[j]
  BY DEF Moved
<1> QED  BY <1>1, <1>2, <1>3, ApartMoves

\* A move of one event, place by place.
LEMMA OneMoved ==
  ASSUME NEW e, NEW j \in 1..8, NEW k \in 0..8, e \in Place[j],
         unseen' = IF k = 1 THEN unseen \cup {e} ELSE IF j = 1 THEN unseen \ {e} ELSE unseen,
         Queued' = IF k = 2 THEN Queued \cup {e} ELSE IF j = 2 THEN Queued \ {e} ELSE Queued,
         Holding' = IF k = 3 THEN Holding \cup {e} ELSE IF j = 3 THEN Holding \ {e} ELSE Holding,
         Spilled' = IF k = 4 THEN Spilled \cup {e} ELSE IF j = 4 THEN Spilled \ {e} ELSE Spilled,
         Replaying' = IF k = 5 THEN Replaying \cup {e} ELSE IF j = 5 THEN Replaying \ {e} ELSE Replaying,
         evaluated' = IF k = 6 THEN evaluated \cup {e} ELSE IF j = 6 THEN evaluated \ {e} ELSE evaluated,
         Missing' = IF k = 7 THEN Missing \cup {e} ELSE IF j = 7 THEN Missing \ {e} ELSE Missing,
         abandoned' = IF k = 8 THEN abandoned \cup {e} ELSE IF j = 8 THEN abandoned \ {e} ELSE abandoned
  PROVE  Moved({e}, {j}, k)
<1>1. ASSUME NEW i \in 1..8
      PROVE  Place'[i] = IF i = k THEN Place[i] \cup {e}
                         ELSE IF i = j THEN Place[i] \ {e} ELSE Place[i]
  <2>1. CASE i = 1
    BY <2>1 DEF Place
  <2>2. CASE i = 2
    BY <2>2 DEF Place
  <2>3. CASE i = 3
    BY <2>3 DEF Place
  <2>4. CASE i = 4
    BY <2>4 DEF Place
  <2>5. CASE i = 5
    BY <2>5 DEF Place
  <2>6. CASE i = 6
    BY <2>6 DEF Place
  <2>7. CASE i = 7
    BY <2>7 DEF Place
  <2>8. CASE i = 8
    BY <2>8 DEF Place
  <2> QED  BY <2>1, <2>2, <2>3, <2>4, <2>5, <2>6, <2>7, <2>8
<1> QED  BY <1>1 DEF Moved

-------------------------------------------------------------------------------
(* What each action moves. *)

\* The two outcomes of a spill.
LEMMA SpillFile ==
  ASSUME TypeOK, NEW e \in Events, NEW C, Spill(e, C)
  PROVE  \/ /\ overflow'.file = Append(overflow.file, e)
            /\ lost' = lost
            /\ metrics' = Bump(C)
         \/ /\ \/ overflow'.file = overflow.file
               \/ /\ "torn" \in Faults
                  /\ overflow'.file \in {Append(overflow.file, Torn), Append(overflow.file, e)}
            /\ lost' = lost \cup {e}
            /\ metrics' = Bump(C \cup {"EventsLost"})
<1>1. CASE AppendOK(overflow, e, overflow') /\ metrics' = Bump(C) /\ UNCHANGED lost
  BY <1>1 DEF AppendOK
<1>2. CASE /\ AppendErr(overflow, e, overflow')
           /\ metrics' = Bump(C \cup {"EventsLost"}) /\ lost' = lost \cup {e}
  <2>1. CASE ~overflow.ok
    BY <1>2, <2>1 DEF AppendErr
  <2>2. CASE overflow.ok
    <3>1. PICK d \in Debris(overflow.file, e) : overflow' = [file |-> d, ok |-> FALSE]
      BY <1>2, <2>2, Zenon DEF AppendErr
    <3>2. overflow'.file = d
      BY <3>1
    <3>3. \/ d = overflow.file
          \/ d \in {Append(overflow.file, Torn), Append(overflow.file, e)} /\ "torn" \in Faults
      BY <3>1 DEF Debris
    <3> QED  BY <1>2, <3>2, <3>3
  <2> QED  BY <2>1, <2>2
<1> QED  BY <1>1, <1>2 DEF Spill

LEMMA SpillMoves ==
  ASSUME TypeOK, NEW e \in Events, NEW C, Spill(e, C)
  PROVE  /\ lost' \subseteq lost \cup {e}
         /\ \/ Spilled' = Spilled \cup {e} /\ Missing' = Missing
            \/ Spilled' = Spilled /\ Missing' = IF LossPlace = 7 THEN Missing \cup {e} ELSE Missing
<1>1. overflow.file \in Seq(Events \cup {Torn})
  BY LogParts DEF TypeOK, Logs
<1>2. /\ Elements(Append(overflow.file, e)) = Elements(overflow.file) \cup {e}
      /\ Elements(Append(overflow.file, Torn)) = Elements(overflow.file) \cup {Torn}
  BY <1>1, ElementsAppend
<1>3. CASE overflow'.file \in {Append(overflow.file, e), Append(overflow.file, Torn), overflow.file}
           /\ "torn" \in Faults
  <2>1. Missing = {} /\ Missing' = {} /\ LossPlace # 7
    BY <1>3 DEF Missing, LossPlace
  <2>2. Spilled' \in {Spilled \cup {e}, Spilled}
    BY <1>2, <1>3, EventsAssumption DEF Spilled
  <2> QED  BY <2>1, <2>2, SpillFile
<1>4. CASE "torn" \notin Faults
  <2>1. Missing = lost /\ Missing' = lost' /\ LossPlace = 7
    BY <1>4 DEF Missing, LossPlace
  <2>2. \/ overflow'.file = Append(overflow.file, e) /\ lost' = lost
        \/ overflow'.file = overflow.file /\ lost' = lost \cup {e}
    BY <1>4, SpillFile
  <2>3. \/ Spilled' = Spilled \cup {e} /\ lost' = lost
        \/ Spilled' = Spilled /\ lost' = lost \cup {e}
    BY <1>2, <2>2, EventsAssumption DEF Spilled
  <2> QED  BY <2>1, <2>3
<1> QED  BY <1>3, <1>4, SpillFile

LEMMA SpillDistinct ==
  ASSUME TypeOK, NEW e \in Events, NEW C, Spill(e, C), Distinct(overflow.file), e \notin Spilled
  PROVE  Distinct(overflow'.file)
<1>1. overflow.file \in Seq(Events \cup {Torn})
  BY LogParts DEF TypeOK, Logs
<1>2. Distinct(Append(overflow.file, e))
  <2>1. e \in Events \cup {Torn} /\ e \notin Elements(overflow.file)
    BY EventsAssumption DEF Spilled
  <2> QED  BY <1>1, <2>1, DistinctAppend
<1>3. Distinct(Append(overflow.file, Torn))
  BY <1>1, DistinctAppend
<1> QED  BY <1>2, <1>3, SpillFile

\* A worker takes an event nobody holds, and lets go of the one it holds.
LEMMA HeldTakes ==
  ASSUME TypeOK, NoTwins, NEW w \in Workers, held[w] = NoEvent, NEW e \in Events, e \notin Holding,
         held' = [held EXCEPT ![w] = e]
  PROVE  /\ Holding' = Holding \cup {e}
         /\ \A u, v \in Workers : held'[u] = held'[v] /\ held'[u] # NoEvent => u = v
<1>1. held'[w] = e /\ \A v \in Workers : v # w => held'[v] = held[v] /\ held[v] # e
  BY EventsAssumption DEF TypeOK, Holding
<1>2. Holding' = Holding \cup {e}
  BY HoldingMoves
<1> QED  BY <1>1, <1>2 DEF NoTwins

LEMMA HeldLeaves ==
  ASSUME TypeOK, NoTwins, NEW w \in Workers, held[w] # NoEvent,
         held' = [held EXCEPT ![w] = NoEvent]
  PROVE  /\ held[w] \in Events
         /\ held[w] \in Holding
         /\ Holding' = Holding \ {held[w]}
         /\ \A u, v \in Workers : held'[u] = held'[v] /\ held'[u] # NoEvent => u = v
<1>1. held'[w] = NoEvent /\ \A v \in Workers : v # w => held'[v] = held[v] /\ held[v] # held[w]
  BY DEF TypeOK, NoTwins
<1>2. ASSUME NEW x PROVE x \in Holding' <=> x \in Holding \ {held[w]}
  BY <1>1 DEF Holding
<1> QED  BY <1>1, <1>2 DEF TypeOK, NoTwins, Holding

\* Events in two places would be the same event.
LEMMA ApartPairs ==
  ASSUME Apart(Place)
  PROVE  /\ unseen \cap Queued = {} /\ unseen \cap Spilled = {}
         /\ Queued \cap Holding = {}
         /\ Holding \cap Spilled = {}
         /\ Replaying \cap Spilled = {}
<1>1. \A i, j \in 1..8 : i # j => Place[i] \cap Place[j] = {}
  BY PlaceDomain DEF Apart
<1>2. /\ Place[1] \cap Place[2] = {} /\ Place[1] \cap Place[4] = {} /\ Place[2] \cap Place[3] = {}
      /\ Place[3] \cap Place[4] = {} /\ Place[5] \cap Place[4] = {}
  BY <1>1
<1> QED  BY <1>2 DEF Place

LEMMA HandleRawMoves ==
  ASSUME TypeOK, Apart(Place), NoTwins, NEW e \in Events, HandleRaw(e)
  PROVE  /\ NoTwins'
         /\ IF e \in Suspicious \ Short
            THEN \/ Moved({e}, {1}, 2) /\ lost' = lost
                 \/ lost' \subseteq lost \cup {e} /\ \E k \in {4, LossPlace} : Moved({e}, {1}, k)
            ELSE Moved({e}, {1}, 0) /\ lost' = lost
<1>1. /\ e \in unseen /\ unseen' = unseen \ {e} /\ e \in Place[1]
      /\ UNCHANGED <<held, replay, evaluated, abandoned>>
  BY DEF HandleRaw, Place
<1>2. Holding' = Holding /\ Replaying' = Replaying
  BY <1>1 DEF Holding, Replaying
<1>3. CASE UNCHANGED <<queue, overflow, lost>> /\ e \notin Suspicious \ Short
  <2>1. Moved({e}, {1}, 0)
    BY <1>1, <1>2, <1>3, OneMoved DEF Queued, Spilled, Missing
  <2> QED  BY <1>1, <1>3, <2>1 DEF NoTwins
<1>4. CASE queue' = Append(queue, e) /\ UNCHANGED <<overflow, lost>> /\ e \in Suspicious \ Short
  <2>1. queue \in Seq(Events) /\ e \notin Elements(queue)
    BY <1>1, ApartPairs DEF TypeOK, Queued
  <2>2. Queued' = Queued \cup {e} /\ Distinct(queue')
    BY <1>4, <2>1, ElementsAppend, DistinctAppend DEF NoTwins, Queued
  <2>3. Spilled' = Spilled /\ Missing' = Missing
    BY <1>4 DEF Spilled, Missing
  <2>4. Moved({e}, {1}, 2)
    BY <1>1, <1>2, <2>2, <2>3, OneMoved
  <2> QED  BY <1>1, <1>4, <2>2, <2>4 DEF NoTwins
<1>5. ASSUME NEW C, Spill(e, C), UNCHANGED queue, e \in Suspicious \ Short
      PROVE  /\ NoTwins'
             /\ lost' \subseteq lost \cup {e}
             /\ \E k \in {4, LossPlace} : Moved({e}, {1}, k)
  <2>1. Distinct(overflow'.file)
    BY <1>1, <1>5, ApartPairs, SpillDistinct DEF NoTwins
  <2>2. ASSUME Spilled' = Spilled \cup {e}, Missing' = Missing PROVE Moved({e}, {1}, 4)
    BY <1>1, <1>2, <1>5, <2>2, OneMoved DEF Queued
  <2>3. ASSUME Spilled' = Spilled,
               Missing' = IF LossPlace = 7 THEN Missing \cup {e} ELSE Missing
        PROVE  Moved({e}, {1}, LossPlace)
    BY <1>1, <1>2, <1>5, <2>3, OneMoved DEF Queued, LossPlace
  <2>4. lost' \subseteq lost \cup {e} /\ \E k \in {4, LossPlace} : Moved({e}, {1}, k)
    BY <1>5, <2>2, <2>3, SpillMoves
  <2> QED  BY <1>1, <1>5, <2>1, <2>4 DEF NoTwins
<1> QED  BY <1>3, <1>4, <1>5 DEF HandleRaw, Enqueue

LEMMA ReceiveMoves ==
  ASSUME TypeOK, Apart(Place), NoTwins, NEW w \in Workers, Receive(w)
  PROVE  /\ NoTwins'
         /\ \E e \in Queued : Moved({e}, {2}, 3)
<1>1. PICK e : e = Head(queue)
  OBVIOUS
<1>2. queue \in Seq(Events) /\ queue # <<>> /\ queue' = Tail(queue) /\ NoEvent \notin Events
  BY EventsAssumption DEF Receive, TypeOK
<1>3. e \in Events /\ Queued = {e} \cup Queued'
  BY <1>1, <1>2, ElementsHeadTail DEF Queued
<1>4. Distinct(queue)' /\ e \notin Queued'
  BY <1>1, <1>2, <1>3, DistinctTail, EventsAssumption DEF NoTwins, Queued
<1>5. held[w] = NoEvent /\ e \notin Holding /\ held' = [held EXCEPT ![w] = e]
  BY <1>1, <1>3, ApartPairs DEF Receive
<1>6. /\ Holding' = Holding \cup {e}
      /\ \A u, v \in Workers : held'[u] = held'[v] /\ held'[u] # NoEvent => u = v
  BY <1>3, <1>5, HeldTakes
<1>7. UNCHANGED <<unseen, overflow, replay, evaluated, lost, abandoned>>
  BY DEF Receive, disk, history
<1>8. /\ Spilled' = Spilled /\ Replaying' = Replaying /\ Missing' = Missing
      /\ Queued' = Queued \ {e} /\ e \in Place[2]
  BY <1>3, <1>4, <1>7 DEF Spilled, Replaying, Missing, Place
<1>9. Moved({e}, {2}, 3)
  BY <1>6, <1>7, <1>8, OneMoved
<1> QED  BY <1>3, <1>4, <1>6, <1>7, <1>9 DEF NoTwins

LEMMA EvaluateOKMoves ==
  ASSUME TypeOK, NoTwins, NEW w \in Workers, EvaluateOK(w)
  PROVE  /\ NoTwins'
         /\ \E e \in Holding : Moved({e}, {3}, 6)
<1>1. PICK e : e = held[w]
  OBVIOUS
<1>2. /\ e \in Holding
      /\ Holding' = Holding \ {e}
      /\ \A u, v \in Workers : held'[u] = held'[v] /\ held'[u] # NoEvent => u = v
  BY <1>1, HeldLeaves DEF EvaluateOK
<1>3. /\ UNCHANGED <<unseen, queue, overflow, replay, lost, abandoned>>
      /\ evaluated' = evaluated \cup {e}
  BY <1>1 DEF EvaluateOK, disk
<1>4. /\ Queued' = Queued /\ Spilled' = Spilled /\ Replaying' = Replaying /\ Missing' = Missing
      /\ e \in Place[3]
  BY <1>2, <1>3 DEF Queued, Spilled, Replaying, Missing, Place
<1>5. Moved({e}, {3}, 6)
  BY <1>2, <1>3, <1>4, OneMoved
<1> QED  BY <1>2, <1>3, <1>5 DEF NoTwins

LEMMA EvaluateErrMoves ==
  ASSUME TypeOK, Apart(Place), NoTwins, NEW w \in Workers, EvaluateErr(w)
  PROVE  /\ NoTwins'
         /\ \E e \in Holding, k \in {4, LossPlace} : Moved({e}, {3}, k) /\ lost' \subseteq lost \cup {e}
<1>1. PICK e : e = held[w]
  OBVIOUS
<1>2. /\ e \in Events /\ e \in Holding
      /\ Holding' = Holding \ {e}
      /\ \A u, v \in Workers : held'[u] = held'[v] /\ held'[u] # NoEvent => u = v
  BY <1>1, HeldLeaves DEF EvaluateErr
<1>3. UNCHANGED <<unseen, queue, replay, evaluated, abandoned>> /\ Spill(e, {"HunterErrors"})
  BY <1>1 DEF EvaluateErr
<1>4. Distinct(overflow'.file)
  BY <1>2, <1>3, ApartPairs, SpillDistinct DEF NoTwins
<1>5. Queued' = Queued /\ Replaying' = Replaying /\ e \in Place[3]
  BY <1>2, <1>3 DEF Queued, Replaying, Place
<1>6. ASSUME Spilled' = Spilled \cup {e}, Missing' = Missing PROVE Moved({e}, {3}, 4)
  BY <1>2, <1>3, <1>5, <1>6, OneMoved
<1>7. ASSUME Spilled' = Spilled,
             Missing' = IF LossPlace = 7 THEN Missing \cup {e} ELSE Missing
      PROVE  Moved({e}, {3}, LossPlace)
  BY <1>2, <1>3, <1>5, <1>7, OneMoved DEF LossPlace
<1>8. lost' \subseteq lost \cup {e} /\ (Moved({e}, {3}, 4) \/ Moved({e}, {3}, LossPlace))
  BY <1>2, <1>3, <1>6, <1>7, SpillMoves
<1> QED  BY <1>2, <1>3, <1>4, <1>8 DEF NoTwins

\* The record the replay loop takes up.
LEMMA NextRecordMoves ==
  ASSUME TypeOK, NoTwins, NextRecord
  PROVE  /\ Head(replay) \in Events
         /\ Head(replay) \in Replaying
         /\ Replaying' = Replaying \ {Head(replay)}
         /\ Distinct(replay')
<1>1. replay \in Seq(Events \cup {Torn}) /\ replay # <<>> /\ Head(replay) # Torn /\ replay' = Tail(replay)
  BY DEF NextRecord, TypeOK
<1>2. Head(replay) \in Events \cup {Torn} /\ Elements(replay) = {Head(replay)} \cup Elements(replay')
  BY <1>1, ElementsHeadTail
<1>3. Distinct(replay') /\ Head(replay) \notin Elements(replay')
  BY <1>1, DistinctTail DEF NoTwins
<1> QED  BY <1>1, <1>2, <1>3 DEF Replaying

LEMMA ReplayOKMoves ==
  ASSUME TypeOK, NoTwins, ReplayOK
  PROVE  /\ NoTwins'
         /\ \E e \in Replaying : Moved({e}, {5}, 6)
<1>1. PICK e : e = Head(replay)
  OBVIOUS
<1>2. e \in Replaying /\ Replaying' = Replaying \ {e} /\ Distinct(replay')
  BY <1>1, NextRecordMoves DEF ReplayOK
<1>3. UNCHANGED <<unseen, queue, held, overflow, lost, abandoned>> /\ evaluated' = evaluated \cup {e}
  BY <1>1 DEF ReplayOK
<1>4. /\ Queued' = Queued /\ Holding' = Holding /\ Spilled' = Spilled /\ Missing' = Missing
      /\ e \in Place[5]
  BY <1>2, <1>3 DEF Queued, Holding, Spilled, Missing, Place
<1>5. Moved({e}, {5}, 6)
  BY <1>2, <1>3, <1>4, OneMoved
<1> QED  BY <1>2, <1>3, <1>5 DEF NoTwins

LEMMA ReplayErrMoves ==
  ASSUME TypeOK, Apart(Place), NoTwins, ReplayErr
  PROVE  /\ NoTwins'
         /\ \E e \in Replaying, k \in {4, LossPlace} : Moved({e}, {5}, k) /\ lost' \subseteq lost \cup {e}
<1>1. PICK e : e = Head(replay)
  OBVIOUS
<1>2. e \in Events /\ e \in Replaying /\ Replaying' = Replaying \ {e} /\ Distinct(replay')
  BY <1>1, NextRecordMoves DEF ReplayErr
<1>3. UNCHANGED <<unseen, queue, held, evaluated, abandoned>> /\ Spill(e, {})
  BY <1>1 DEF ReplayErr
<1>4. Distinct(overflow'.file)
  BY <1>2, <1>3, ApartPairs, SpillDistinct DEF NoTwins
<1>5. Queued' = Queued /\ Holding' = Holding /\ e \in Place[5]
  BY <1>2, <1>3 DEF Queued, Holding, Place
<1>6. ASSUME Spilled' = Spilled \cup {e}, Missing' = Missing PROVE Moved({e}, {5}, 4)
  BY <1>2, <1>3, <1>5, <1>6, OneMoved
<1>7. ASSUME Spilled' = Spilled,
             Missing' = IF LossPlace = 7 THEN Missing \cup {e} ELSE Missing
      PROVE  Moved({e}, {5}, LossPlace)
  BY <1>2, <1>3, <1>5, <1>7, OneMoved DEF LossPlace
<1>8. lost' \subseteq lost \cup {e} /\ (Moved({e}, {5}, 4) \/ Moved({e}, {5}, LossPlace))
  BY <1>2, <1>3, <1>6, <1>7, SpillMoves
<1> QED  BY <1>2, <1>3, <1>4, <1>8 DEF NoTwins

\* The process takes the queue and the workers with it.
LEMMA ProcessEndsMoves ==
  ASSUME ProcessEnds, NoTwins
  PROVE  /\ NoTwins'
         /\ Moved(InMemory, {2, 3}, 8)
<1>1. /\ UNCHANGED <<unseen, overflow, replay, evaluated, lost>>
      /\ abandoned' = abandoned \cup InMemory
      /\ queue' = <<>> /\ \A w \in Workers : held'[w] = NoEvent
  BY DEF ProcessEnds, disk
<1>2. Queued' = {} /\ Holding' = {} /\ InMemory = Queued \cup Holding
  BY <1>1, ElementsEmpty DEF Queued, Holding, InMemory
<1>3. Spilled' = Spilled /\ Replaying' = Replaying /\ Missing' = Missing
  BY <1>1 DEF Spilled, Replaying, Missing
<1>4. \A x \in InMemory : x \in Place[2] \/ x \in Place[3]
  BY <1>2 DEF Place
<1>5. ASSUME NEW i \in 1..8
      PROVE  Place'[i] = IF i = 8 THEN Place[i] \cup InMemory
                         ELSE IF i \in {2, 3} THEN Place[i] \ InMemory ELSE Place[i]
  <2>1. CASE i = 2
    BY <1>2, <2>1 DEF Place
  <2>2. CASE i = 3
    BY <1>2, <2>2 DEF Place
  <2>3. CASE i = 8
    BY <1>1, <2>3 DEF Place
  <2>4. CASE i \in {1, 4, 5, 6, 7}
    BY <1>1, <1>3, <2>4 DEF Place
  <2> QED  BY <2>1, <2>2, <2>3, <2>4
<1>6. Moved(InMemory, {2, 3}, 8)
  BY <1>4, <1>5 DEF Moved
<1> QED  BY <1>1, <1>6, DistinctEmpty DEF NoTwins

-------------------------------------------------------------------------------
(* One place at a time. *)

\* A tick moves the overflow file as a whole, loses it, or moves nothing.
LEMMA DrainMoves ==
  ASSUME TypeOK, Apart(Place), NoTwins, DrainOverflow
  PROVE  Apart(Place') /\ NoTwins'
<1>1. UNCHANGED <<unseen, queue, held, evaluated, lost, abandoned>>
  BY DEF DrainOverflow, history
<1>2. CASE overflow'.file = <<>> /\ replay' \in {overflow.file, <<>>}
  <2>1. /\ Spilled' = {} /\ Replaying' \subseteq Spilled
        /\ Queued' = Queued /\ Holding' = Holding /\ Missing' = Missing
    BY <1>1, <1>2, ElementsEmpty DEF Spilled, Replaying, Queued, Holding, Missing
  <2>2. \A x \in Spilled : x \in Place[4]
    BY DEF Place
  <2>3. Place'[4] \cap Spilled = {}
    BY <2>1 DEF Place
  <2>4. ASSUME NEW i \in 1..8
        PROVE  Place'[i] \subseteq IF i = 5 THEN Place[i] \cup Spilled ELSE Place[i]
    <3>1. CASE i = 4
      BY <2>1, <3>1 DEF Place
    <3>2. CASE i = 5
      BY <2>1, <3>2 DEF Place
    <3>3. CASE i \in {1, 2, 3, 6, 7, 8}
      BY <1>1, <2>1, <3>3 DEF Place
    <3> QED  BY <3>1, <3>2, <3>3
  <2>5. Apart(Place')
    <3> DEFINE M == Spilled
    <3>1. \A x \in M : \E j \in {4} : x \in Place[j]
      BY <2>2
    <3>2. \A j \in {4} : j # 5 => Place'[j] \cap M = {}
      BY <2>3
    <3>3. \A i \in 1..8 : Place'[i] \subseteq IF i = 5 THEN Place[i] \cup M ELSE Place[i]
      BY <2>4
    <3> HIDE DEF M
    <3>4. {4} \in SUBSET (1..8) /\ 5 \in 0..8
      OBVIOUS
    <3> QED  BY <3>1, <3>2, <3>3, <3>4, ApartMoves
  <2> QED  BY <1>1, <1>2, <2>5, DistinctEmpty DEF NoTwins
<1>3. CASE overflow'.file = overflow.file /\ replay' = replay
  <2>1. Place' = Place
    BY <1>1, <1>3 DEF Place, Queued, Holding, Spilled, Replaying, Missing
  <2> QED  BY <1>1, <1>3, <2>1 DEF NoTwins
<1>4. CASE RotateErr(overflow, overflow', replay, replay')
  BY <1>2, <1>3, <1>4 DEF RotateErr, TypeOK
<1> QED  BY <1>2, <1>4 DEF DrainOverflow, RotateOK, newAppendLog

\* Places that only shrink.
LEMMA ApartShrinks ==
  ASSUME Apart(Place), \A i \in 1..8 : Place'[i] \subseteq Place[i]
  PROVE  Apart(Place')
  BY PlaceDomain DEF Apart

LEMMA OnePlaceStep ==
  ASSUME TypeOK, Apart(Place) /\ NoTwins, [Next]_vars
  PROVE  Apart(Place') /\ NoTwins'
<1>1. ASSUME UNCHANGED <<unseen, queue, held, overflow, replay, evaluated, lost, abandoned>>
      PROVE  Apart(Place') /\ NoTwins'
  <2>1. Place' = Place
    BY <1>1 DEF Place, Queued, Holding, Spilled, Replaying, Missing
  <2> QED  BY <1>1, <2>1 DEF NoTwins
<1>2. ASSUME NEW e, NEW j \in 1..8, NEW k \in 0..8, Moved({e}, {j}, k) PROVE Apart(Place')
  <2>1. {j} \in SUBSET (1..8)
    OBVIOUS
  <2> QED  BY <1>2, <2>1, MovedApart
<1>3. ASSUME NEW e \in Events, HandleRaw(e) PROVE Apart(Place') /\ NoTwins'
  <2>1. PICK k \in {0, 2, 4, 7} : Moved({e}, {1}, k)
    BY <1>3, HandleRawMoves DEF LossPlace
  <2>2. NoTwins'
    BY <1>3, HandleRawMoves
  <2>3. Apart(Place')
    BY <1>2, <2>1, 1 \in 1..8, k \in 0..8
  <2> QED  BY <2>2, <2>3
<1>4. ASSUME NEW w \in Workers, WorkerStep(w) PROVE Apart(Place') /\ NoTwins'
  <2>1. CASE Receive(w)
    <3>1. PICK e \in Queued : Moved({e}, {2}, 3)
      BY <2>1, ReceiveMoves
    <3>2. NoTwins'
      BY <2>1, ReceiveMoves
    <3>3. Apart(Place')
      BY <1>2, <3>1, 2 \in 1..8, 3 \in 0..8
    <3> QED  BY <3>2, <3>3
  <2>2. CASE EvaluateOK(w)
    <3>1. PICK e \in Holding : Moved({e}, {3}, 6)
      BY <2>2, EvaluateOKMoves
    <3>2. NoTwins'
      BY <2>2, EvaluateOKMoves
    <3>3. Apart(Place')
      BY <1>2, <3>1, 3 \in 1..8, 6 \in 0..8
    <3> QED  BY <3>2, <3>3
  <2>3. CASE EvaluateErr(w)
    <3>1. PICK e \in Holding, k \in {0, 4, 7} : Moved({e}, {3}, k)
      BY <2>3, EvaluateErrMoves DEF LossPlace
    <3>2. NoTwins'
      BY <2>3, EvaluateErrMoves
    <3>3. Apart(Place')
      BY <1>2, <3>1, 3 \in 1..8, k \in 0..8
    <3> QED  BY <3>2, <3>3
  <2>4. CASE WorkerExit(w)
    BY <1>1, <2>4 DEF WorkerExit, disk, history
  <2> QED  BY <1>4, <2>1, <2>2, <2>3, <2>4 DEF WorkerStep
<1>5. CASE ReplayOK
  <2>1. PICK e \in Replaying : Moved({e}, {5}, 6)
    BY <1>5, ReplayOKMoves
  <2>2. NoTwins'
    BY <1>5, ReplayOKMoves
  <2>3. Apart(Place')
    BY <1>2, <2>1, 5 \in 1..8, 6 \in 0..8
  <2> QED  BY <2>2, <2>3
<1>6. CASE ReplayErr
  <2>1. PICK e \in Replaying, k \in {0, 4, 7} : Moved({e}, {5}, k)
    BY <1>6, ReplayErrMoves DEF LossPlace
  <2>2. NoTwins'
    BY <1>6, ReplayErrMoves
  <2>3. Apart(Place')
    BY <1>2, <2>1, 5 \in 1..8, k \in 0..8
  <2> QED  BY <2>2, <2>3
<1>7. CASE ReplayEnd
  <2>1. UNCHANGED <<unseen, queue, held, overflow, evaluated, lost, abandoned>> /\ replay' = <<>>
    BY <1>7 DEF ReplayEnd, history
  <2>2. /\ Replaying' = {} /\ Queued' = Queued /\ Holding' = Holding
        /\ Spilled' = Spilled /\ Missing' = Missing
    BY <2>1, ElementsEmpty DEF Replaying, Queued, Holding, Spilled, Missing
  <2>3. \A i \in 1..8 : Place'[i] \subseteq Place[i]
    BY <2>1, <2>2 DEF Place
  <2> QED  BY <2>1, <2>3, ApartShrinks, DistinctEmpty DEF NoTwins
<1>8. CASE Boot
  <2>1. /\ UNCHANGED <<unseen, replay, evaluated, lost, abandoned>>
        /\ queue' = <<>> /\ \A w \in Workers : held'[w] = NoEvent
        /\ overflow'.file = overflow.file
    BY <1>8 DEF Boot, FreshMemory, newAppendLog
  <2>2. /\ Replaying' = Replaying /\ Queued' = {} /\ Holding' = {}
        /\ Spilled' = Spilled /\ Missing' = Missing
    BY <2>1, ElementsEmpty DEF Replaying, Queued, Holding, Spilled, Missing
  <2>3. \A i \in 1..8 : Place'[i] \subseteq Place[i]
    BY <2>1, <2>2 DEF Place
  <2> QED  BY <2>1, <2>3, ApartShrinks, DistinctEmpty DEF NoTwins
<1>9. ASSUME ProcessEnds PROVE Apart(Place') /\ NoTwins'
  BY <1>9, ProcessEndsMoves, MovedApart
<1>10. CASE DrainExit \/ Sigterm \/ OpenSucceeds \/ ReaderStops \/ UNCHANGED vars
  BY <1>1, <1>10 DEF DrainExit, Sigterm, OpenSucceeds, ReaderStops, vars, memory, disk, history
<1> QED
  BY <1>3, <1>4, <1>5, <1>6, <1>7, <1>8, <1>9, <1>10, DrainMoves
  DEF Next, ReplayStep, MainStep, Close, OpenGivesUp, Crash

PlaceInv == Apart(Place) /\ NoTwins

LEMMA PlaceAlways == Spec => []PlaceInv
<1>1. Init => PlaceInv
  <2> SUFFICES ASSUME Init PROVE PlaceInv
    OBVIOUS
  <2>1. Queued = {} /\ Holding = {} /\ Spilled = {} /\ Replaying = {}
    BY ElementsEmpty DEF Init, FreshMemory, newAppendLog, Queued, Holding, Spilled, Replaying
  <2>2. Apart(Place)
    BY <2>1 DEF Init, Apart, Place, Missing
  <2>3. NoTwins
    BY DistinctEmpty DEF Init, FreshMemory, newAppendLog, NoTwins
  <2> QED  BY <2>2, <2>3 DEF PlaceInv
<1>2. TypeOK /\ PlaceInv /\ [Next]_vars => PlaceInv'
  BY OnePlaceStep DEF PlaceInv
<1> QED  BY <1>1, <1>2, TypeCorrect, PTL DEF Spec

\* What was counted lost is not on its way into the broker, in memory, or taken
\* along when the process ended.
LostInv == lost \cap (unseen \cup Queued \cup Holding \cup abandoned) = {}

\* A loss is counted of an event that has just left memory, or the replay.
LEMMA LossMoves ==
  ASSUME Apart(Place), LostInv, NEW e, NEW j \in 1..8, NEW k \in {0, 4, 7}, Moved({e}, {j}, k),
         lost' \subseteq lost \cup {e}
  PROVE  LostInv'
<1>1. ASSUME NEW i \in {1, 2, 3, 8} PROVE Place'[i] \subseteq Place[i] \ {e}
  <2>1. e \in Place[j]
    BY DEF Moved
  <2>2. i # j => e \notin Place[i]
    BY <2>1, i \in 1..8, PlaceDomain DEF Apart
  <2>3. Place'[i] = IF i = j THEN Place[i] \ {e} ELSE Place[i]
    BY i \in 1..8, i # k DEF Moved
  <2> QED  BY <2>2, <2>3
<1>2. /\ Place'[1] \subseteq Place[1] \ {e} /\ Place'[2] \subseteq Place[2] \ {e}
      /\ Place'[3] \subseteq Place[3] \ {e} /\ Place'[8] \subseteq Place[8] \ {e}
  BY <1>1
<1>3. /\ unseen' \subseteq unseen \ {e} /\ Queued' \subseteq Queued \ {e}
      /\ Holding' \subseteq Holding \ {e} /\ abandoned' \subseteq abandoned \ {e}
  BY <1>2 DEF Place
<1> QED  BY <1>3 DEF LostInv

LEMMA LostStep ==
  ASSUME TypeOK, Apart(Place), NoTwins, LostInv, [Next]_vars
  PROVE  LostInv'
<1> DEFINE Open == unseen \cup Queued \cup Holding \cup abandoned
<1>1. ASSUME lost' = lost, Open' \subseteq Open PROVE LostInv'
  BY <1>1 DEF LostInv
<1>2. ASSUME UNCHANGED <<unseen, queue, held, lost, abandoned>> PROVE LostInv'
  BY <1>1, <1>2 DEF Queued, Holding
<1>3. ASSUME NEW e \in Events, HandleRaw(e) PROVE LostInv'
  <2>1. e \in unseen /\ unseen' \subseteq unseen /\ held' = held /\ abandoned' = abandoned
    BY <1>3 DEF HandleRaw
  <2>2. CASE lost' = lost /\ (queue' = queue \/ queue' = Append(queue, e))
    <3>1. queue \in Seq(Events) /\ Elements(Append(queue, e)) = Elements(queue) \cup {e}
      BY ElementsAppend DEF TypeOK
    <3>2. Queued' \subseteq Queued \cup {e}
      BY <2>2, <3>1 DEF Queued
    <3> QED  BY <1>1, <2>1, <2>2, <3>2 DEF Holding
  <2>3. CASE \E k \in {4, LossPlace} : Moved({e}, {1}, k) /\ lost' \subseteq lost \cup {e}
    <3>1. PICK k \in {0, 4, 7} : Moved({e}, {1}, k)
      BY <2>3 DEF LossPlace
    <3> QED  BY <2>3, <3>1, LossMoves, 1 \in 1..8
  <2>4. queue' = queue \/ queue' = Append(queue, e)
    BY <1>3 DEF HandleRaw, Enqueue
  <2> QED  BY <1>3, <2>2, <2>3, <2>4, HandleRawMoves
<1>4. ASSUME NEW w \in Workers, Receive(w) PROVE LostInv'
  <2>1. Queued = {Head(queue)} \cup Queued' /\ Head(queue) \in Events
    BY <1>4, ElementsHeadTail DEF Receive, TypeOK, Queued
  <2>2. Holding' = Holding \cup {Head(queue)}
    BY <1>4, <2>1, HoldingMoves DEF Receive
  <2>3. UNCHANGED <<unseen, lost, abandoned>>
    BY <1>4 DEF Receive, history
  <2> QED  BY <1>1, <2>1, <2>2, <2>3
<1>5. ASSUME NEW w \in Workers, EvaluateOK(w) PROVE LostInv'
  <2>1. Holding' \subseteq Holding
    BY <1>5, HeldLeaves DEF EvaluateOK
  <2> QED  BY <1>1, <1>5, <2>1 DEF EvaluateOK, Queued
<1>6. ASSUME NEW w \in Workers, EvaluateErr(w) PROVE LostInv'
  <2>1. PICK e \in Holding, k \in {0, 4, 7} : Moved({e}, {3}, k) /\ lost' \subseteq lost \cup {e}
    BY <1>6, EvaluateErrMoves DEF LossPlace
  <2> QED  BY <2>1, LossMoves, 3 \in 1..8
<1>7. CASE ReplayErr
  <2>1. PICK e \in Replaying, k \in {0, 4, 7} : Moved({e}, {5}, k) /\ lost' \subseteq lost \cup {e}
    BY <1>7, ReplayErrMoves DEF LossPlace
  <2> QED  BY <2>1, LossMoves, 5 \in 1..8
<1>8. ASSUME ProcessEnds PROVE LostInv'
  <2>1. InMemory = Queued \cup Holding
    BY DEF InMemory, Queued
  <2>2. Queued' = {} /\ Holding' = {}
    BY <1>8, ElementsEmpty DEF ProcessEnds, Queued, Holding
  <2> QED  BY <1>1, <1>8, <2>1, <2>2 DEF ProcessEnds
<1>9. CASE Boot
  <2>1. Queued' = {} /\ Holding' = {}
    BY <1>9, ElementsEmpty DEF Boot, FreshMemory, Queued, Holding
  <2> QED  BY <1>1, <1>9, <2>1 DEF Boot
<1>10. ASSUME NEW w \in Workers, WorkerExit(w) PROVE LostInv'
  BY <1>2, <1>10 DEF WorkerExit, history
<1>11. CASE DrainOverflow \/ ReplayOK \/ ReplayEnd \/ DrainExit \/ Sigterm \/ OpenSucceeds
            \/ ReaderStops \/ UNCHANGED vars
  BY <1>2, <1>11 DEF DrainOverflow, ReplayOK, ReplayEnd, DrainExit, Sigterm, OpenSucceeds,
     ReaderStops, vars, memory, history
<1> QED
  BY <1>3, <1>4, <1>5, <1>6, <1>7, <1>8, <1>9, <1>10, <1>11
  DEF Next, WorkerStep, ReplayStep, MainStep, Close, OpenGivesUp, Crash

\* Whatever fails, and for any number of events, workers, crashes and restarts:
\* no event is in two places, so none is evaluated twice by the broker, and one
\* that was counted lost is met again only if a write came short.
THEOREM EachEventInOnePlace == Spec => []OnePlace
<1>1. Init => LostInv
  BY DEF Init, LostInv
<1>2. TypeOK /\ PlaceInv /\ LostInv /\ [Next]_vars => LostInv'
  BY LostStep DEF PlaceInv
<1>3. PlaceInv /\ LostInv => OnePlace
  <2> SUFFICES ASSUME PlaceInv, LostInv PROVE OnePlace
    OBVIOUS
  <2> DEFINE Places == <<unseen, Queued, Holding, Spilled, Replaying, evaluated, abandoned>>
  <2>1. \A i, j \in 1..8 : i # j => Place[i] \cap Place[j] = {}
    BY PlaceDomain DEF PlaceInv, Apart
  <2>2. \A i \in 1..7 : Places[i] = Place[IF i = 7 THEN 8 ELSE i]
    BY DEF Place
  <2>3. ASSUME NEW i \in 1..7, NEW j \in 1..7, i # j PROVE Places[i] \cap Places[j] = {}
    <3> HIDE DEF Places
    <3> QED  BY <2>1, <2>2, <2>3
  <2>4. \A i, j \in DOMAIN Places : i # j => Places[i] \cap Places[j] = {}
    BY <2>3
  <2>5. lost \cap (unseen \cup InMemory \cup abandoned) = {}
    BY DEF LostInv, InMemory, Queued
  <2>6. ASSUME "torn" \notin Faults PROVE lost \cap (OnDisk \cup evaluated) = {}
    <3>1. Place[7] \cap Place[4] = {} /\ Place[7] \cap Place[5] = {} /\ Place[7] \cap Place[6] = {}
      BY <2>1
    <3>2. lost \cap Spilled = {} /\ lost \cap Replaying = {} /\ lost \cap evaluated = {}
      BY <2>6, <3>1 DEF Place, Missing
    <3> QED  BY <3>2 DEF OnDisk, Spilled, Replaying
  <2> QED  BY <2>4, <2>5, <2>6 DEF OnePlace, PlaceInv, NoTwins, Queued, Spilled, Replaying
<1> QED  BY <1>1, <1>2, <1>3, PlaceAlways, TypeCorrect, PTL DEF Spec

-------------------------------------------------------------------------------
(* The promise, when no lossy failure happens. *)

\* What DispatchPromise calls the places.
Called == <<"unseen", "memory", "memory", "disk", "disk", "evaluated", "lost", "abandoned">>

\* Only what HandleRaw accepted gets into the broker.
OnlyAccepted == \A i \in 2..8 : Place[i] \subseteq Suspicious \ Short

\* Without lossy failures what is counted lost is in a place of its own.
LEMMA QuietPlaces ==
  ASSUME Quiet
  PROVE  Missing = lost /\ Missing' = lost' /\ LossPlace = 7
  BY QuietFaults DEF Missing, LossPlace

\* The fate of an event is that of its place.
LEMMA FateIs ==
  ASSUME Quiet, Apart(Place), NEW e \in Events, NEW i \in 1..8, e \in Place[i],
         i # 1 => e \in Suspicious \ Short
  PROVE  Fate[e] = Called[i]
<1>1. \A j \in 1..8 : j # i => e \notin Place[j]
  BY PlaceDomain DEF Apart
<1>2. /\ e \in unseen <=> i = 1
      /\ e \in Queued <=> i = 2
      /\ e \in Holding <=> i = 3
      /\ e \in Spilled <=> i = 4
      /\ e \in Replaying <=> i = 5
      /\ e \in evaluated <=> i = 6
      /\ e \in lost <=> i = 7
  <2>1. \A j \in 1..8 : e \in Place[j] <=> j = i
    BY <1>1
  <2>2. /\ e \in Place[1] <=> 1 = i
        /\ e \in Place[2] <=> 2 = i
        /\ e \in Place[3] <=> 3 = i
        /\ e \in Place[4] <=> 4 = i
        /\ e \in Place[5] <=> 5 = i
        /\ e \in Place[6] <=> 6 = i
        /\ e \in Place[7] <=> 7 = i
    BY <2>1
  <2> QED  BY <2>2, QuietPlaces DEF Place
<1>3. /\ e \in InMemory <=> e \in Queued \/ e \in Holding
      /\ e \in OnDisk <=> e \in Spilled \/ e \in Replaying
  BY DEF InMemory, OnDisk, Queued, Spilled, Replaying
<1>4. CASE i = 1
  BY <1>2, <1>4 DEF Fate, Called
<1>5. CASE i = 2 \/ i = 3
  <2>1. e \notin unseen /\ e \in Suspicious \ Short /\ e \in InMemory
    BY <1>2, <1>3, <1>5
  <2> QED  BY <1>5, <2>1 DEF Fate, Called
<1>6. CASE i = 4 \/ i = 5
  <2>1. e \notin unseen /\ e \in Suspicious \ Short /\ e \notin InMemory /\ e \in OnDisk
    BY <1>2, <1>3, <1>6
  <2> QED  BY <1>6, <2>1 DEF Fate, Called
<1>7. CASE i = 6
  BY <1>2, <1>3, <1>7 DEF Fate, Called
<1>8. CASE i = 7
  BY <1>2, <1>3, <1>8 DEF Fate, Called
<1>9. CASE i = 8
  BY <1>2, <1>3, <1>9 DEF Fate, Called
<1> QED  BY <1>4, <1>5, <1>6, <1>7, <1>8, <1>9

FatesNamed ==
    Quiet /\ Apart(Place) =>
        \A i \in 1..8 : \A e \in Place[i] \cap Events :
            (i # 1 => e \in Suspicious \ Short) => Fate[e] = Called[i]

LEMMA FateNamed == FatesNamed
  BY FateIs DEF FatesNamed

\* An event that stays where it is keeps its fate.
LEMMA FateKept ==
  ASSUME Quiet, NEW d \in Events, \A i \in 1..8 : d \in Place'[i] <=> d \in Place[i]
  PROVE  Fate'[d] = Fate[d]
<1>1. /\ d \in Place'[1] <=> d \in Place[1]
      /\ d \in Place'[2] <=> d \in Place[2]
      /\ d \in Place'[3] <=> d \in Place[3]
      /\ d \in Place'[4] <=> d \in Place[4]
      /\ d \in Place'[5] <=> d \in Place[5]
      /\ d \in Place'[6] <=> d \in Place[6]
      /\ d \in Place'[7] <=> d \in Place[7]
  OBVIOUS
<1>2. /\ d \in unseen' <=> d \in unseen
      /\ d \in Queued' <=> d \in Queued
      /\ d \in Holding' <=> d \in Holding
      /\ d \in Spilled' <=> d \in Spilled
      /\ d \in Replaying' <=> d \in Replaying
      /\ d \in evaluated' <=> d \in evaluated
      /\ d \in lost' <=> d \in lost
  BY <1>1, QuietPlaces DEF Place
<1>3. /\ d \in InMemory' <=> d \in InMemory
      /\ d \in OnDisk' <=> d \in OnDisk
  BY <1>2 DEF InMemory, OnDisk, Queued, Spilled, Replaying
<1> QED  BY <1>2, <1>3 DEF Fate

\* One event moves, and the others keep their fates.
LEMMA FateMoves ==
  ASSUME Quiet, PlaceInv, NEW e \in Events, NEW j \in 1..8, NEW k \in 0..8, Moved({e}, {j}, k)
  PROVE  Fate' = [Fate EXCEPT ![e] = Fate'[e]]
<1>1. ASSUME NEW d \in Events, d # e PROVE Fate'[d] = Fate[d]
  <2>1. \A i \in 1..8 : d \in Place'[i] <=> d \in Place[i]
    BY <1>1 DEF Moved
  <2> QED  BY <2>1, FateKept
<1> QED  BY <1>1 DEF Fate

\* From a place to another the fate changes as the names of the places do.
LEMMA FateGoes ==
  ASSUME Quiet, PlaceInv, NEW e \in Events, e \in Suspicious \ Short,
         NEW j \in 1..8, NEW k \in 1..8, Moved({e}, {j}, k)
  PROVE  Fate[e] = Called[j] /\ Fate' = [Fate EXCEPT ![e] = Called[k]]
<1>1. e \in Place[j] /\ e \in Place'[k]
  BY DEF Moved
<1>2. Fate[e] = Called[j]
  BY <1>1, FateIs DEF PlaceInv
<1>3. Apart(Place')
  BY MovedApart, {j} \in SUBSET (1..8) DEF PlaceInv
<1>4. Fate'[e] = Called[k]
  <2>1. FatesNamed'
    BY FateNamed, PTL
  <2>2. \A x \in Place'[k] \cap Events : x \in Suspicious \ Short => Fate'[x] = Called[k]
    BY <1>3, <2>1 DEF FatesNamed
  <2> QED  BY <1>1, <2>2
<1>5. Fate' = [Fate EXCEPT ![e] = Fate'[e]]
  BY FateMoves, k \in 0..8
<1> QED  BY <1>2, <1>4, <1>5

\* Without lossy failures every step of every goroutine is one of these moves.
LEMMA QuietMoves ==
  ASSUME Quiet, SafeInv, PlaceInv, [Next]_vars
  PROVE  \/ \E e \in Suspicious \ Short, k \in {2, 4, 7} : Moved({e}, {1}, k)
         \/ \E e \in Events \ (Suspicious \ Short) : Moved({e}, {1}, 0)
         \/ \E e \in Queued : Moved({e}, {2}, 3)
         \/ \E e \in Holding, k \in {4, 6, 7} : Moved({e}, {3}, k)
         \/ \E e \in Replaying, k \in {4, 6, 7} : Moved({e}, {5}, k)
         \/ Moved(Spilled, {4}, 5)
         \/ Moved(InMemory, {2, 3}, 8)
         \/ Place' = Place
<1> USE DEF SafeInv, PlaceInv
<1>1. ASSUME UNCHANGED <<unseen, queue, held, overflow, replay, evaluated, lost, abandoned>>
      PROVE  Place' = Place
  BY <1>1 DEF Place, Queued, Holding, Spilled, Replaying, Missing
<1>2. ASSUME NEW e \in Events, HandleRaw(e)
      PROVE  \/ e \in Suspicious \ Short /\ \E k \in {2, 4, 7} : Moved({e}, {1}, k)
             \/ e \notin Suspicious \ Short /\ Moved({e}, {1}, 0)
  BY <1>2, HandleRawMoves, QuietPlaces
<1>3. ASSUME NEW w \in Workers, WorkerStep(w)
      PROVE  \/ \E e \in Queued : Moved({e}, {2}, 3)
             \/ \E e \in Holding, k \in {4, 6, 7} : Moved({e}, {3}, k)
             \/ Place' = Place
  <2>1. CASE Receive(w)
    BY <2>1, ReceiveMoves
  <2>2. CASE EvaluateOK(w)
    BY <2>2, EvaluateOKMoves
  <2>3. CASE EvaluateErr(w)
    BY <2>3, EvaluateErrMoves, QuietPlaces
  <2>4. CASE WorkerExit(w)
    BY <1>1, <2>4 DEF WorkerExit, disk, history
  <2> QED  BY <1>3, <2>1, <2>2, <2>3, <2>4 DEF WorkerStep
<1>4. CASE ReplayOK \/ ReplayErr
  BY <1>4, ReplayOKMoves, ReplayErrMoves, QuietPlaces
<1>5. CASE ReplayEnd
  <2>1. replay = <<>>
    BY <1>5, WholeReplayEnds, QuietFaults DEF DiskInv
  <2> QED  BY <1>1, <1>5, <2>1 DEF ReplayEnd, history
<1>6. CASE DrainOverflow
  <2>1. UNCHANGED <<unseen, queue, held, evaluated, lost, abandoned>>
    BY <1>6 DEF DrainOverflow, history
  <2>2. CASE overflow'.file = overflow.file /\ replay' = replay
    BY <2>1, <2>2 DEF Place, Queued, Holding, Spilled, Replaying, Missing
  <2>3. CASE overflow'.file = <<>> /\ replay' = overflow.file /\ drain = "ticking"
    <3>1. replay = <<>>
      BY <2>3 DEF DiskInv
    <3>2. Spilled' = {} /\ Replaying = {} /\ Replaying' = Spilled /\ Queued' = Queued /\ Holding' = Holding
      BY <2>1, <2>3, <3>1, ElementsEmpty DEF Queued, Holding, Spilled, Replaying
    <3>3. ASSUME NEW i \in 1..8
          PROVE  Place'[i] = IF i = 5 THEN Place[i] \cup Spilled
                             ELSE IF i \in {4} THEN Place[i] \ Spilled ELSE Place[i]
      <4>1. CASE i = 4
        BY <3>2, <4>1 DEF Place
      <4>2. CASE i = 5
        BY <3>2, <4>2 DEF Place
      <4>3. CASE i \in {1, 2, 3, 6, 7, 8}
        BY <2>1, <3>2, <4>3 DEF Place, Missing
      <4> QED  BY <4>1, <4>2, <4>3
    <3>4. \A x \in Spilled : x \in Place[4]
      BY DEF Place
    <3> QED  BY <3>3, <3>4 DEF Moved
  <2> QED  BY <1>6, <2>2, <2>3, TickMoves
<1>7. CASE Close
  BY <1>7, ProcessEndsMoves DEF Close
<1>8. CASE Boot
  <2>1. /\ UNCHANGED <<unseen, replay, evaluated, lost, abandoned>>
        /\ queue' = <<>> /\ \A w \in Workers : held'[w] = NoEvent
        /\ overflow'.file = overflow.file
    BY <1>8 DEF Boot, FreshMemory, newAppendLog
  <2>2. queue = <<>> /\ Holding = {}
    BY <1>8 DEF Boot, Idle
  <2> QED  BY <2>1, <2>2 DEF Place, Queued, Holding, Spilled, Replaying, Missing
<1>9. CASE DrainExit \/ Sigterm \/ OpenSucceeds \/ ReaderStops \/ UNCHANGED vars
  BY <1>1, <1>9 DEF DrainExit, Sigterm, OpenSucceeds, ReaderStops, vars, memory, disk, history
<1>10. ~OpenGivesUp /\ ~Crash
  BY QuietFaults DEF OpenGivesUp, Crash
<1> QED
  BY <1>2, <1>3, <1>4, <1>5, <1>6, <1>7, <1>8, <1>9, <1>10, EventsAssumption
  DEF Next, ReplayStep, MainStep

LEMMA OnlyAcceptedStep ==
  ASSUME Quiet, SafeInv, PlaceInv, OnlyAccepted, [Next]_vars
  PROVE  OnlyAccepted'
<1>1. ASSUME NEW M, NEW J \in SUBSET (1..8), NEW k \in 0..8, Moved(M, J, k),
             M \subseteq Suspicious \ Short
      PROVE  OnlyAccepted'
  BY <1>1 DEF Moved, OnlyAccepted
<1>2. Queued \subseteq Place[2] /\ Holding \subseteq Place[3] /\ Spilled \subseteq Place[4]
      /\ Replaying \subseteq Place[5] /\ InMemory \subseteq Queued \cup Holding
  BY DEF Place, InMemory, Queued
<1>3. Queued \cup Holding \cup Spilled \cup Replaying \cup InMemory \subseteq Suspicious \ Short
  BY <1>2, 2 \in 2..8, 3 \in 2..8, 4 \in 2..8, 5 \in 2..8 DEF OnlyAccepted
<1>4. ASSUME NEW e, NEW j \in 1..8, NEW k \in 0..8, Moved({e}, {j}, k), e \in Suspicious \ Short
      PROVE  OnlyAccepted'
  BY <1>1, <1>4, {j} \in SUBSET (1..8), {e} \subseteq Suspicious \ Short
<1>5. ASSUME NEW e, Moved({e}, {1}, 0) PROVE OnlyAccepted'
  BY <1>5 DEF Moved, OnlyAccepted
<1>6. CASE \E e \in Suspicious \ Short, k \in {2, 4, 7} : Moved({e}, {1}, k)
  <2>1. PICK e \in Suspicious \ Short, k \in {2, 4, 7} : Moved({e}, {1}, k)
    BY <1>6
  <2> QED  BY <1>4, <2>1, 1 \in 1..8, k \in 0..8
<1>7. CASE \E e \in Queued : Moved({e}, {2}, 3)
  <2>1. PICK e \in Queued : Moved({e}, {2}, 3)
    BY <1>7
  <2> QED  BY <1>3, <1>4, <2>1, 2 \in 1..8, 3 \in 0..8
<1>8. CASE \E e \in Holding, k \in {4, 6, 7} : Moved({e}, {3}, k)
  <2>1. PICK e \in Holding, k \in {4, 6, 7} : Moved({e}, {3}, k)
    BY <1>8
  <2> QED  BY <1>3, <1>4, <2>1, 3 \in 1..8, k \in 0..8
<1>9. CASE \E e \in Replaying, k \in {4, 6, 7} : Moved({e}, {5}, k)
  <2>1. PICK e \in Replaying, k \in {4, 6, 7} : Moved({e}, {5}, k)
    BY <1>9
  <2> QED  BY <1>3, <1>4, <2>1, 5 \in 1..8, k \in 0..8
<1>10. CASE Moved(Spilled, {4}, 5)
  BY <1>1, <1>3, <1>10, {4} \in SUBSET (1..8), 5 \in 0..8
<1>11. CASE Moved(InMemory, {2, 3}, 8)
  BY <1>1, <1>3, <1>11, {2, 3} \in SUBSET (1..8), 8 \in 0..8
<1>12. CASE Place' = Place
  BY <1>12 DEF OnlyAccepted
<1> QED  BY <1>5, <1>6, <1>7, <1>8, <1>9, <1>10, <1>11, <1>12, QuietMoves

LEMMA KeepsPromiseStep ==
  ASSUME Quiet, SafeInv, PlaceInv, OnlyAccepted, [Next]_vars
  PROVE  [Promise!PromiseNext]_Fate
<1>1. ASSUME NEW e \in Events, NEW k \in {2, 4, 7}, Moved({e}, {1}, k), e \in Suspicious \ Short
      PROVE  Promise!Arrive(e)
  <2>1. Fate[e] = "unseen" /\ Fate' = [Fate EXCEPT ![e] = Called[k]]
    BY <1>1, FateGoes, 1 \in 1..8, k \in 1..8, Called[1] = "unseen" DEF Called
  <2>2. Called[k] \in {"memory", "disk", "lost"}
    BY DEF Called
  <2> QED  BY <2>1, <2>2 DEF Promise!Arrive, Promise!Moves
<1>2. ASSUME NEW e \in Events \ (Suspicious \ Short), Moved({e}, {1}, 0)
      PROVE  Promise!Arrive(e)
  <2>1. e \in unseen /\ e \notin unseen'
    <3>1. e \in Place[1] /\ Place'[1] = Place[1] \ {e}
      BY <1>2, 1 \in 1..8 DEF Moved
    <3> QED  BY <3>1 DEF Place
  <2>2. Fate' = [Fate EXCEPT ![e] = Fate'[e]]
    BY <1>2, FateMoves, 1 \in 1..8, 0 \in 0..8
  <2>3. Fate[e] = "unseen" /\ Fate'[e] = "ignored"
    BY <2>1 DEF Fate
  <2> QED  BY <2>2, <2>3 DEF Promise!Arrive, Promise!Moves
<1>3. Queued \cup Holding \cup Replaying \subseteq Suspicious \ Short
  <2>1. Place[2] \cup Place[3] \cup Place[5] \subseteq Suspicious \ Short
    BY 2 \in 2..8, 3 \in 2..8, 5 \in 2..8 DEF OnlyAccepted
  <2> QED  BY <2>1 DEF Place
<1>4. Suspicious \ Short \subseteq Events
  BY EventsAssumption
<1>5. ASSUME NEW e \in Queued, Moved({e}, {2}, 3) PROVE Fate' = Fate
  <2>1. Fate[e] = "memory" /\ Fate' = [Fate EXCEPT ![e] = "memory"]
    BY <1>3, <1>4, <1>5, FateGoes, 2 \in 1..8, 3 \in 1..8, Called[2] = "memory", Called[3] = "memory"
    DEF Called
  <2> QED  BY <2>1 DEF Fate
<1>6. ASSUME NEW e \in Holding, NEW k \in {4, 6, 7}, Moved({e}, {3}, k)
      PROVE  e \in Events /\ (Promise!Evaluate(e) \/ Promise!Defer(e))
  <2>1. Fate[e] = "memory" /\ Fate' = [Fate EXCEPT ![e] = Called[k]] /\ e \in Events
    BY <1>3, <1>4, <1>6, FateGoes, 3 \in 1..8, k \in 1..8, Called[3] = "memory" DEF Called
  <2>2. Called[k] \in {"disk", "evaluated", "lost"}
    BY DEF Called
  <2> QED  BY <2>1, <2>2 DEF Promise!Evaluate, Promise!Defer, Promise!Moves
<1>7. ASSUME NEW e \in Replaying, NEW k \in {4, 6, 7}, Moved({e}, {5}, k)
      PROVE  e \in Events /\ (Promise!Evaluate(e) \/ Promise!DeferAgain(e) \/ Fate' = Fate)
  <2>1. Fate[e] = "disk" /\ Fate' = [Fate EXCEPT ![e] = Called[k]] /\ e \in Events
    BY <1>3, <1>4, <1>7, FateGoes, 5 \in 1..8, k \in 1..8, Called[5] = "disk" DEF Called
  <2>2. Called[k] \in {"disk", "evaluated", "lost"}
    BY DEF Called
  <2>3. CASE Called[k] = "disk"
    BY <2>1, <2>3 DEF Fate
  <2>4. CASE Called[k] \in {"evaluated", "lost"}
    BY <2>1, <2>4 DEF Promise!Evaluate, Promise!DeferAgain, Promise!Moves
  <2> QED  BY <2>1, <2>2, <2>3, <2>4
<1>8. CASE Moved(Spilled, {4}, 5)
  <2>1. /\ \A i \in {1, 2, 3, 6, 7, 8} : Place'[i] = Place[i]
        /\ Place'[4] = Place[4] \ Spilled /\ Place'[5] = Place[5] \cup Spilled
    BY <1>8 DEF Moved
  <2>2. /\ Place'[1] = Place[1] /\ Place'[2] = Place[2] /\ Place'[3] = Place[3]
        /\ Place'[6] = Place[6] /\ Place'[7] = Place[7]
    BY <2>1
  <2>3. /\ unseen' = unseen /\ Queued' = Queued /\ Holding' = Holding
        /\ evaluated' = evaluated /\ lost' = lost
        /\ Spilled' = Spilled \ Spilled /\ Replaying' = Replaying \cup Spilled
    BY <2>1, <2>2, QuietPlaces DEF Place
  <2>4. InMemory' = InMemory /\ OnDisk' = OnDisk
    BY <2>3 DEF InMemory, OnDisk, Queued, Spilled, Replaying
  <2> QED  BY <2>3, <2>4 DEF Fate
<1>9. CASE Moved(InMemory, {2, 3}, 8)
  <2>1. InMemory = Queued \cup Holding /\ OnDisk = Spilled \cup Replaying
    BY DEF InMemory, OnDisk, Queued, Spilled, Replaying
  <2>2. (InMemory = Queued \cup Holding /\ OnDisk = Spilled \cup Replaying)'
    BY DEF InMemory, OnDisk, Queued, Spilled, Replaying
  <2>3. /\ Place'[1] = Place[1] /\ Place'[4] = Place[4] /\ Place'[5] = Place[5]
        /\ Place'[6] = Place[6] /\ Place'[7] = Place[7]
        /\ Place'[2] = Place[2] \ InMemory /\ Place'[3] = Place[3] \ InMemory
    BY <1>9 DEF Moved
  <2>4. /\ unseen' = unseen /\ Spilled' = Spilled /\ Replaying' = Replaying
        /\ evaluated' = evaluated /\ lost' = lost
        /\ Queued' = {} /\ Holding' = {}
    BY <2>1, <2>3, QuietPlaces DEF Place
  <2>5. \A e \in InMemory : e \notin OnDisk /\ e \notin evaluated /\ e \notin lost
    <3>1. \A i, j \in 1..8 : i # j => Place[i] \cap Place[j] = {}
      BY PlaceDomain DEF PlaceInv, Apart
    <3>2. /\ Place[2] \cap Place[4] = {} /\ Place[2] \cap Place[5] = {}
          /\ Place[2] \cap Place[6] = {} /\ Place[2] \cap Place[7] = {}
          /\ Place[3] \cap Place[4] = {} /\ Place[3] \cap Place[5] = {}
          /\ Place[3] \cap Place[6] = {} /\ Place[3] \cap Place[7] = {}
      BY <3>1
    <3> QED  BY <2>1, <3>2, QuietPlaces DEF Place
  <2>6. OnDisk' = OnDisk /\ InMemory' = {}
    BY <2>1, <2>2, <2>4
  <2>7. ASSUME NEW e \in Events
        PROVE  Fate'[e] = IF Fate[e] = "memory" THEN "abandoned" ELSE Fate[e]
    BY <2>4, <2>5, <2>6 DEF Fate
  <2>8. Fate' = [e \in Events |-> Fate'[e]]
    BY DEF Fate
  <2> QED  BY <2>7, <2>8 DEF Promise!PromiseNext, Promise!End
<1>10. CASE Place' = Place
  <2>1. \A e \in Events : Fate'[e] = Fate[e]
    BY <1>10, FateKept
  <2> QED  BY <2>1 DEF Fate
<1> QED
  BY <1>1, <1>2, <1>4, <1>5, <1>6, <1>7, <1>8, <1>9, <1>10, QuietMoves DEF Promise!PromiseNext

\* The broker implements DispatchPromise when no lossy failure happens: every
\* step of every goroutine moves at most one event along an allowed path, and an
\* event on disk leaves it only evaluated or counted, shutdown and restart included.
THEOREM ImplementsPromise ==
  ASSUME Faults \cap LossyFaults = {}
  PROVE  Spec => KeepsPromise
<1>1. Quiet
  BY DEF Quiet
<1>2. Init => Promise!PromiseInit
  BY DEF Init, Promise!PromiseInit, Fate
<1>3. Init => OnlyAccepted
  <2> SUFFICES ASSUME Init PROVE OnlyAccepted
    OBVIOUS
  <2>1. Queued = {} /\ Holding = {} /\ Spilled = {} /\ Replaying = {}
    BY ElementsEmpty DEF Init, FreshMemory, newAppendLog, Queued, Holding, Spilled, Replaying
  <2> QED  BY <2>1 DEF Init, OnlyAccepted, Place, Missing
<1>4. SafeInv /\ PlaceInv /\ OnlyAccepted /\ [Next]_vars => OnlyAccepted'
  BY <1>1, OnlyAcceptedStep
<1>5. SafeInv /\ PlaceInv /\ OnlyAccepted /\ [Next]_vars => [Promise!PromiseNext]_Fate
  BY <1>1, KeepsPromiseStep
<1> QED
  BY <1>2, <1>3, <1>4, <1>5, SafeAlways, PlaceAlways, PTL
  DEF Spec, KeepsPromise, Promise!PromiseSpec

-------------------------------------------------------------------------------
(* The counters explain the backlog. *)

NoRotationFault == Faults \cap RotationFaults = {}

\* What SpillBalance rests on: no partial record ends a pass early, and a pass
\* that has ended has handed its count over.
BalanceInv ==
    /\ NoRotationFault => Whole
    /\ drain # "replaying" => replayed = 0
    /\ SpillBalance

LEMMA WholeStep ==
  ASSUME TypeOK, NoRotationFault, Whole, [Next]_vars
  PROVE  Whole'
<1> USE EventsAssumption
<1>1. "torn" \notin Faults
  BY DEF NoRotationFault, RotationFaults
<1>2. ASSUME UNCHANGED <<overflow, replay>> PROVE Whole'
  BY <1>2 DEF Whole
<1>3. ASSUME NEW e \in Events, NEW C, Spill(e, C), Elements(replay') \subseteq Elements(replay) PROVE Whole'
  BY <1>1, <1>3, SpillKeeps DEF Whole
<1>4. ASSUME NEW e \in Events, HandleRaw(e) PROVE Whole'
  BY <1>2, <1>3, <1>4 DEF HandleRaw, Enqueue
<1>5. ASSUME NEW w \in Workers, WorkerStep(w) PROVE Whole'
  <2>1. CASE EvaluateErr(w)
    BY <1>3, <2>1, held[w] \in Events DEF EvaluateErr, TypeOK
  <2> QED  BY <1>2, <1>5, <2>1 DEF WorkerStep, Receive, EvaluateOK, WorkerExit, disk
<1>6. ASSUME NextRecord
      PROVE  Head(replay) \in Events /\ Elements(replay') \subseteq Elements(replay)
  BY <1>6, ElementsHeadTail DEF NextRecord, TypeOK
<1>7. CASE ReplayOK
  BY <1>6, <1>7 DEF ReplayOK, Whole
<1>8. CASE ReplayErr
  BY <1>3, <1>6, <1>8 DEF ReplayErr
<1>9. CASE ReplayEnd
  BY <1>9, ElementsEmpty DEF ReplayEnd, Whole
<1>10. CASE DrainOverflow
  <2>1. \/ overflow'.file = overflow.file /\ replay' = replay
        \/ overflow'.file = <<>> /\ replay' \in {overflow.file, <<>>}
    BY <1>10 DEF DrainOverflow, RotateOK, RotateErr, newAppendLog, TypeOK
  <2> QED  BY <2>1, ElementsEmpty DEF Whole
<1>11. CASE Boot
  BY <1>11 DEF Boot, newAppendLog, Whole
<1>12. CASE DrainExit \/ Sigterm \/ OpenSucceeds \/ ReaderStops \/ ProcessEnds \/ UNCHANGED vars
  BY <1>2, <1>12 DEF DrainExit, Sigterm, OpenSucceeds, ReaderStops, ProcessEnds, vars, disk
<1> QED
  BY <1>4, <1>5, <1>7, <1>8, <1>9, <1>10, <1>11, <1>12
  DEF Next, ReplayStep, MainStep, Close, OpenGivesUp, Crash

\* Only a pass counts, and it starts at zero.
LEMMA CountStep ==
  ASSUME drain # "replaying" => replayed = 0, [Next]_vars
  PROVE  drain' # "replaying" => replayed' = 0
<1>1. ASSUME NEW e \in Events, HandleRaw(e) PROVE UNCHANGED <<drain, replayed>>
  BY <1>1 DEF HandleRaw
<1>2. ASSUME NEW w \in Workers, WorkerStep(w) PROVE UNCHANGED <<drain, replayed>>
  BY <1>2 DEF WorkerStep, Receive, EvaluateOK, EvaluateErr, WorkerExit
<1>3. CASE ReplayStep
  BY <1>3 DEF ReplayStep, DrainOverflow, ReplayOK, ReplayErr, ReplayEnd, DrainExit, NextRecord
<1>4. CASE MainStep \/ Sigterm \/ Crash \/ UNCHANGED vars
  BY <1>4 DEF MainStep, OpenSucceeds, OpenGivesUp, ReaderStops, Close, Boot, FreshMemory, ProcessEnds,
     Sigterm, Crash, vars, memory
<1> QED  BY <1>1, <1>2, <1>3, <1>4 DEF Next

LEMMA BumpIs ==
  ASSUME TypeOK, NEW C, metrics' = Bump(C), NEW c \in Counters
  PROVE  metrics'[c] = IF c \in C THEN metrics[c] + 1 ELSE metrics[c]
  BY DEF Bump

\* A spill makes the file or the loss counter one greater.
LEMMA SpillCounts ==
  ASSUME TypeOK, "torn" \notin Faults, NEW e \in Events,
         NEW C, "EventsLost" \notin C, "OverflowReplays" \notin C, Spill(e, C)
  PROVE  /\ metrics'["EventsLost"] + Len(overflow'.file) = metrics["EventsLost"] + Len(overflow.file) + 1
         /\ metrics'["OverflowReplays"] = metrics["OverflowReplays"]
         /\ \A c \in {"QueueOverflows", "HunterErrors"} :
               /\ c \in C => metrics'[c] = metrics[c] + 1
               /\ c \notin C => metrics'[c] = metrics[c]
<1>1. /\ overflow.file \in Seq(Events \cup {Torn}) /\ Len(overflow.file) \in Nat
      /\ metrics["EventsLost"] \in Nat /\ metrics["QueueOverflows"] \in Nat /\ metrics["HunterErrors"] \in Nat
  BY LogParts DEF TypeOK, Logs, Counters
<1>2. Len(Append(overflow.file, e)) = Len(overflow.file) + 1
  BY <1>1
<1>3. /\ "EventsLost" \in Counters /\ "OverflowReplays" \in Counters
      /\ "QueueOverflows" \in Counters /\ "HunterErrors" \in Counters
  BY DEF Counters
<1>4. CASE overflow'.file = Append(overflow.file, e) /\ metrics' = Bump(C)
  <2>1. \A c \in Counters : metrics'[c] = IF c \in C THEN metrics[c] + 1 ELSE metrics[c]
    BY <1>4, BumpIs
  <2> QED  BY <1>1, <1>2, <1>3, <1>4, <2>1
<1>5. CASE overflow'.file = overflow.file /\ metrics' = Bump(C \cup {"EventsLost"})
  <2>1. \A c \in Counters :
          metrics'[c] = IF c \in C \cup {"EventsLost"} THEN metrics[c] + 1 ELSE metrics[c]
    BY <1>5, BumpIs
  <2>2. metrics'["EventsLost"] = metrics["EventsLost"] + 1
    BY <1>3, <2>1
  <2>3. \A c \in {"QueueOverflows", "HunterErrors", "OverflowReplays"} :
          metrics'[c] = IF c \in C THEN metrics[c] + 1 ELSE metrics[c]
    BY <1>3, <2>1
  <2> QED  BY <1>1, <1>5, <2>2, <2>3
<1> QED  BY <1>4, <1>5, SpillFile

\* The counters and lengths the balance is about.
Numbers ==
    /\ metrics["QueueOverflows"] \in Nat /\ metrics["HunterErrors"] \in Nat
    /\ metrics["EventsLost"] \in Nat /\ metrics["OverflowReplays"] \in Nat
    /\ carried \in Nat /\ replayed \in Nat
    /\ Len(overflow.file) \in Nat /\ Len(replay) \in Nat

LEMMA BalanceTypes == TypeOK => Numbers
<1> SUFFICES ASSUME TypeOK PROVE Numbers
  OBVIOUS
<1>1. overflow.file \in Seq(Events \cup {Torn}) /\ replay \in Seq(Events \cup {Torn})
  BY LogParts DEF TypeOK, Logs
<1> QED  BY <1>1 DEF TypeOK, Counters, Numbers

\* The balance, in three sums, with p records pending in the file being replayed.
Taken == metrics["QueueOverflows"] + metrics["HunterErrors"]
Kept == metrics["EventsLost"] + Len(overflow.file)
Read == metrics["OverflowReplays"] + replayed
Level(p) == Taken + carried = Kept + Read + p

Sums == Taken \in Nat /\ Kept \in Nat /\ Read \in Nat /\ carried \in Nat /\ Len(replay) \in Nat

LEMMA SumsTypes == Numbers => Sums
<1> SUFFICES ASSUME Numbers PROVE Sums
  OBVIOUS
<1>1. Taken \in Nat
  BY DEF Numbers, Taken
<1>2. Kept \in Nat
  BY DEF Numbers, Kept
<1>3. Read \in Nat
  BY DEF Numbers, Read
<1> QED  BY <1>1, <1>2, <1>3 DEF Numbers, Sums

\* How SpillBalance writes them.
LongSum(p) ==
    metrics["QueueOverflows"] + metrics["HunterErrors"] + carried =
        metrics["EventsLost"] + metrics["OverflowReplays"] + replayed + Len(overflow.file) + p

LEMMA LongSumIs ==
  ASSUME Numbers, NEW p \in Nat
  PROVE  LongSum(p) <=> Level(p)
<1> DEFINE q == metrics["QueueOverflows"]   h == metrics["HunterErrors"]
           l == metrics["EventsLost"]       o == metrics["OverflowReplays"]
           f == Len(overflow.file)
<1>1. /\ q \in Nat /\ h \in Nat /\ l \in Nat /\ o \in Nat /\ f \in Nat
      /\ carried \in Nat /\ replayed \in Nat
  BY DEF Numbers
<1>2. LongSum(p) <=> q + h + carried = l + o + replayed + f + p
  BY DEF LongSum
<1>3. Level(p) <=> (q + h) + carried = (l + f) + (o + replayed) + p
  BY DEF Level, Taken, Kept, Read
<1> HIDE DEF q, h, l, o, f
<1>4. (l + f) + (o + replayed) + p = l + o + replayed + f + p
  BY <1>1
<1> QED  BY <1>2, <1>3, <1>4

LevelStated ==
  Numbers =>
    /\ drain = "replaying" => (SpillBalance <=> (NoRotationFault /\ main # "stopped" => Level(Len(replay))))
    /\ drain # "replaying" => (SpillBalance <=> (NoRotationFault /\ main # "stopped" => Level(0)))

LEMMA LevelMeans == LevelStated
<1> SUFFICES ASSUME Numbers
             PROVE  /\ drain = "replaying"
                         => (SpillBalance <=> (NoRotationFault /\ main # "stopped" => Level(Len(replay))))
                    /\ drain # "replaying"
                         => (SpillBalance <=> (NoRotationFault /\ main # "stopped" => Level(0)))
  BY DEF LevelStated
<1>1. drain = "replaying" =>
        (SpillBalance <=> (NoRotationFault /\ main # "stopped" => LongSum(Len(replay))))
  BY DEF SpillBalance, NoRotationFault, LongSum
<1>2. drain # "replaying" => (SpillBalance <=> (NoRotationFault /\ main # "stopped" => LongSum(0)))
  BY DEF SpillBalance, NoRotationFault, LongSum
<1>3. (LongSum(Len(replay)) <=> Level(Len(replay))) /\ (LongSum(0) <=> Level(0))
  BY LongSumIs DEF Numbers
<1> QED  BY <1>1, <1>2, <1>3

\* A step that spills a more and counts b replays keeps the level if what is
\* lost, on file or pending grows by a less b.
LEMMA LevelKept ==
  ASSUME Sums, Sums', UNCHANGED carried,
         NEW p \in Nat, NEW r \in Nat, NEW a \in Nat, NEW b \in Nat,
         Taken' = Taken + a, Read' = Read + b, Kept' + r + b = Kept + p + a, Level(p)
  PROVE  Level(r)'
<1>1. /\ Taken \in Nat /\ Kept \in Nat /\ Read \in Nat /\ carried \in Nat
      /\ Taken' \in Nat /\ Kept' \in Nat /\ Read' \in Nat
  BY DEF Sums
<1>2. Taken + carried = Kept + Read + p
  BY DEF Level
<1>3. Taken' + carried = (Taken + carried) + a
  BY <1>1
<1>4. (Kept + Read + p) + a = (Kept + p + a) + Read
  BY <1>1
<1>5. (Kept' + r + b) + Read = Kept' + Read' + r
  BY <1>1
<1>6. Taken' + carried = Kept' + Read' + r
  BY <1>2, <1>3, <1>4, <1>5
<1> QED  BY <1>6 DEF Level

\* A spill keeps the level if it is counted, or moves a record of the replay.
LEMMA SpillLevel ==
  ASSUME TypeOK, Numbers, Numbers', "torn" \notin Faults, NEW e \in Events, NEW C,
         "EventsLost" \notin C, "OverflowReplays" \notin C, Spill(e, C),
         UNCHANGED <<carried, replayed>>, NEW p \in Nat, Level(p)
  PROVE  /\ \/ "QueueOverflows" \in C /\ "HunterErrors" \notin C
            \/ "QueueOverflows" \notin C /\ "HunterErrors" \in C
            => Level(p)'
         /\ "QueueOverflows" \notin C /\ "HunterErrors" \notin C
            => \A r \in Nat : r + 1 = p => Level(r)'
<1>1. /\ metrics'["EventsLost"] + Len(overflow'.file) = metrics["EventsLost"] + Len(overflow.file) + 1
      /\ metrics'["OverflowReplays"] = metrics["OverflowReplays"]
      /\ "QueueOverflows" \in C => metrics'["QueueOverflows"] = metrics["QueueOverflows"] + 1
      /\ "QueueOverflows" \notin C => metrics'["QueueOverflows"] = metrics["QueueOverflows"]
      /\ "HunterErrors" \in C => metrics'["HunterErrors"] = metrics["HunterErrors"] + 1
      /\ "HunterErrors" \notin C => metrics'["HunterErrors"] = metrics["HunterErrors"]
  BY SpillCounts
<1>2. Sums /\ Sums'
  <2>1. Numbers' => Sums'
    BY SumsTypes, PTL
  <2> QED  BY <2>1, SumsTypes
<1>3. Read' = Read + 0
  BY <1>1 DEF Numbers, Read
<1>4. Kept' = Kept + 1
  BY <1>1 DEF Numbers, Kept
<1>5. ASSUME \/ "QueueOverflows" \in C /\ "HunterErrors" \notin C
             \/ "QueueOverflows" \notin C /\ "HunterErrors" \in C
      PROVE  Level(p)'
  <2>1. Taken' = Taken + 1
    <3>1. CASE "QueueOverflows" \in C /\ "HunterErrors" \notin C
      BY <1>1, <3>1 DEF Numbers, Taken
    <3>2. CASE "QueueOverflows" \notin C /\ "HunterErrors" \in C
      <4>1. Taken' = metrics["QueueOverflows"] + (metrics["HunterErrors"] + 1)
        BY <1>1, <3>2 DEF Taken
      <4> QED  BY <4>1 DEF Numbers, Taken
    <3> QED  BY <1>5, <3>1, <3>2
  <2>2. Kept' + p + 0 = Kept + p + 1
    BY <1>2, <1>4 DEF Sums
  <2> QED  BY <1>2, <1>3, <2>1, <2>2, LevelKept, 0 \in Nat, 1 \in Nat
<1>6. ASSUME "QueueOverflows" \notin C, "HunterErrors" \notin C, NEW r \in Nat, r + 1 = p
      PROVE  Level(r)'
  <2>1. Taken' = Taken + 0
    BY <1>1, <1>6 DEF Numbers, Taken
  <2>2. Kept' + r + 0 = Kept + p + 0
    BY <1>2, <1>4, <1>6 DEF Sums
  <2> QED  BY <1>2, <1>3, <2>1, <2>2, LevelKept, 0 \in Nat
<1> QED  BY <1>5, <1>6

\* Every step keeps the counters and the files level.
LEMMA BalanceStep ==
  ASSUME TypeOK, Idle, NoRotationFault, Whole, drain # "replaying" => replayed = 0,
         SpillBalance, main' # "stopped", [Next]_vars
  PROVE  SpillBalance'
<1>1. "torn" \notin Faults /\ "reopen" \notin Faults /\ "open" \notin Faults
  BY DEF NoRotationFault, RotationFaults
<1>numbers. Numbers /\ Numbers'
  <2>1. TypeOK'
    BY TypeStep
  <2>2. TypeOK' => Numbers'
    BY BalanceTypes, PTL
  <2> QED  BY <2>1, <2>2, BalanceTypes
<1>level. /\ \A p : drain = "replaying" /\ p = Len(replay) /\ main # "stopped" => p \in Nat /\ Level(p)
          /\ drain # "replaying" /\ main # "stopped" => Level(0)
  BY <1>numbers, LevelMeans DEF LevelStated, Numbers
<1>back. /\ drain' = "replaying" /\ Level(Len(replay))' => SpillBalance'
         /\ drain' # "replaying" /\ Level(0)' => SpillBalance'
  <2>1. LevelStated'
    BY LevelMeans, PTL
  <2> QED  BY <1>numbers, <2>1 DEF LevelStated
<1>sums. Sums /\ Sums'
  <2>1. Numbers' => Sums'
    BY SumsTypes, PTL
  <2> QED  BY <1>numbers, <2>1, SumsTypes
<1>same. ASSUME main # "stopped", UNCHANGED <<drain, replay>>, \A p \in Nat : Level(p) => Level(p)'
         PROVE  SpillBalance'
  <2>1. CASE drain = "replaying"
    <3>1. PICK p \in Nat : p = Len(replay) /\ Level(p) /\ p = Len(replay')
      BY <1>numbers, <1>level, <1>same, <2>1 DEF Numbers
    <3>2. Level(p)'
      BY <1>same, <3>1
    <3> QED  BY <1>back, <1>same, <2>1, <3>1, <3>2 DEF Level
  <2>2. CASE drain # "replaying"
    <3>1. Level(0)'
      BY <1>level, <1>same, <2>2
    <3> QED  BY <1>back, <1>same, <2>2, <3>1
  <2> QED  BY <2>1, <2>2
<1>moved. ASSUME main # "stopped", drain = "replaying", UNCHANGED drain,
                 NEW p \in Nat, NEW r \in Nat, p = Len(replay), r = Len(replay'), Level(p) => Level(r)'
          PROVE  SpillBalance'
  BY <1>level, <1>back, <1>moved DEF Level
<1> USE DEF Numbers, SpillBalance
<1>2. CASE Boot
  <2>1. /\ \A c \in Counters : metrics'[c] = 0
        /\ carried' = Len(overflow.file) /\ overflow'.file = overflow.file
        /\ drain' = "ticking" /\ replayed' = 0
    BY <1>2 DEF Boot, FreshMemory, newAppendLog
  <2>2. /\ "EventsLost" \in Counters /\ "OverflowReplays" \in Counters
        /\ "QueueOverflows" \in Counters /\ "HunterErrors" \in Counters
    BY DEF Counters
  <2> QED  BY <2>1, <2>2
<1>3. ASSUME main # "stopped",
             UNCHANGED <<carried, replayed, drain, replay, overflow>>,
             \A c \in {"QueueOverflows", "HunterErrors", "EventsLost", "OverflowReplays"} :
                 metrics'[c] = metrics[c]
      PROVE  SpillBalance'
  BY <1>3
<1>4. ASSUME NEW C \in SUBSET {"EventsTotal", "SuspiciousTotal", "DecodeErrors", "ActionsKill"},
             metrics' = Bump(C)
      PROVE  \A c \in {"QueueOverflows", "HunterErrors", "EventsLost", "OverflowReplays"} :
                 metrics'[c] = metrics[c]
  BY <1>4 DEF Bump, Counters
<1>5. ASSUME NEW e \in Events, HandleRaw(e) PROVE SpillBalance'
  <2>1. main # "stopped" /\ UNCHANGED <<carried, replayed, drain, replay>>
    BY <1>5 DEF HandleRaw
  <2>2. CASE overflow' = overflow /\ metrics' \in {Bump({"DecodeErrors"}), Bump({"EventsTotal"}),
                                               Bump({"EventsTotal", "SuspiciousTotal"})}
    BY <1>3, <1>4, <2>1, <2>2
  <2>3. ASSUME NEW C, C = {"EventsTotal", "SuspiciousTotal", "QueueOverflows"}, Spill(e, C)
        PROVE  SpillBalance'
    <3>1. "EventsLost" \notin C /\ "OverflowReplays" \notin C
          /\ "QueueOverflows" \in C /\ "HunterErrors" \notin C
      BY <2>3
    <3>2. \A p \in Nat : Level(p) => Level(p)'
      BY <1>1, <1>numbers, <2>1, <2>3, <3>1, SpillLevel
    <3> QED  BY <1>same, <2>1, <3>2
  <2> QED  BY <1>5, <2>2, <2>3 DEF HandleRaw, Enqueue
<1>6. ASSUME main # "stopped", NEW w \in Workers, WorkerStep(w) PROVE SpillBalance'
  <2>1. CASE EvaluateErr(w)
    <3>1. UNCHANGED <<carried, replayed, drain, replay>> /\ held[w] \in Events
      BY <2>1 DEF EvaluateErr, TypeOK
    <3>2. PICK C : C = {"HunterErrors"}
      OBVIOUS
    <3>3. "EventsLost" \notin C /\ "OverflowReplays" \notin C
          /\ "QueueOverflows" \notin C /\ "HunterErrors" \in C
      BY <3>2
    <3>4. \A p \in Nat : Level(p) => Level(p)'
      BY <1>1, <1>numbers, <2>1, <3>1, <3>2, <3>3, SpillLevel DEF EvaluateErr
    <3> QED  BY <1>6, <1>same, <3>1, <3>4
  <2>2. CASE Receive(w) \/ WorkerExit(w)
    BY <1>3, <1>6, <2>2 DEF Receive, WorkerExit, disk, history
  <2>3. CASE EvaluateOK(w)
    <3>1. /\ UNCHANGED <<carried, replayed, drain, replay, overflow>>
          /\ metrics' = metrics \/ metrics' = Bump({"ActionsKill"})
      BY <2>3 DEF EvaluateOK, disk
    <3> QED  BY <1>3, <1>4, <1>6, <3>1
  <2> QED  BY <1>6, <2>1, <2>2, <2>3 DEF WorkerStep
<1>7. ASSUME NextRecord PROVE Len(replay') = Len(replay) - 1 /\ Head(replay) \in Events
  BY <1>7, ElementsHeadTail DEF NextRecord, TypeOK
<1>8. ASSUME main # "stopped", ReplayOK PROVE SpillBalance'
  <2>1. /\ UNCHANGED <<carried, drain, overflow, metrics>> /\ drain = "replaying"
        /\ replayed' = replayed + 1 /\ Len(replay') = Len(replay) - 1
    BY <1>7, <1>8 DEF ReplayOK, NextRecord
  <2>2. Taken' = Taken + 0 /\ Read' = Read + 1 /\ Kept' = Kept
    BY <1>numbers, <2>1 DEF Taken, Read, Kept
  <2>3. PICK p \in Nat, r \in Nat : p = Len(replay) /\ r = Len(replay') /\ r + 1 = p
    BY <1>numbers, <2>1
  <2>4. Sums /\ Sums' /\ Kept' + r + 1 = Kept + p + 0
    BY <1>sums, <2>2, <2>3 DEF Sums
  <2>5. Level(p) => Level(r)'
    BY <2>1, <2>2, <2>4, LevelKept, 0 \in Nat, 1 \in Nat
  <2> QED  BY <1>8, <1>moved, <2>1, <2>3, <2>5
<1>9. ASSUME main # "stopped", ReplayErr PROVE SpillBalance'
  <2>1. UNCHANGED <<carried, replayed, drain>> /\ drain = "replaying" /\ Len(replay') = Len(replay) - 1
    BY <1>7, <1>9 DEF ReplayErr, NextRecord
  <2>2. PICK p \in Nat, r \in Nat : p = Len(replay) /\ r = Len(replay') /\ r + 1 = p
    BY <1>numbers, <2>1
  <2>3. PICK C : C = {}
    OBVIOUS
  <2>4. Head(replay) \in Events /\ Spill(Head(replay), C)
    BY <1>7, <1>9, <2>3 DEF ReplayErr
  <2>5. \A c : c \notin C
    BY <2>3
  <2>6. Level(p) => Level(r)'
    BY <1>1, <1>numbers, <2>1, <2>2, <2>4, <2>5, SpillLevel
  <2> QED  BY <1>9, <1>moved, <2>1, <2>2, <2>6
<1>10. ASSUME main # "stopped", ReplayEnd PROVE SpillBalance'
  <2>1. replay = <<>> /\ Len(replay) = 0
    BY <1>10, WholeReplayEnds, EmptyLog DEF NoRotationFault, RotationFaults
  <2>2. /\ drain = "replaying" /\ drain' = "ticking" /\ replayed' = 0
        /\ UNCHANGED <<carried, overflow>>
        /\ metrics'["OverflowReplays"] = metrics["OverflowReplays"] + replayed
        /\ \A c \in {"QueueOverflows", "HunterErrors", "EventsLost"} : metrics'[c] = metrics[c]
    BY <1>10 DEF ReplayEnd, TypeOK, Counters, history
  <2> QED  BY <1>10, <1>numbers, <2>1, <2>2
<1>11. ASSUME main # "stopped", DrainOverflow PROVE SpillBalance'
  <2>1. /\ drain = "ticking" /\ replayed = 0
        /\ UNCHANGED <<carried, metrics>>
    BY <1>11 DEF DrainOverflow, history
  <2>2. CASE /\ overflow'.file = <<>> /\ replay' = overflow.file
             /\ drain' = "replaying" /\ replayed' = 0
    BY <1>11, <1>numbers, <2>1, <2>2, EmptyLog
  <2>3. CASE overflow'.file = overflow.file /\ UNCHANGED <<drain, replayed>>
    BY <1>11, <2>1, <2>3
  <2> QED
    BY <1>1, <1>11, <2>2, <2>3 DEF DrainOverflow, RotateOK, RotateErr, newAppendLog, TypeOK
<1>12. ASSUME main # "stopped", DrainExit \/ Sigterm \/ OpenSucceeds \/ ReaderStops \/ UNCHANGED vars
       PROVE  SpillBalance'
  BY <1>12 DEF DrainExit, Sigterm, OpenSucceeds, ReaderStops, vars, memory, disk, history
<1>13. ~Close /\ ~OpenGivesUp /\ ~Crash
  BY DEF Close, OpenGivesUp, Crash, ProcessEnds
<1>14. CASE main = "stopped"
  <2>1. main' = main \/ Boot
    BY <1>14 DEF Next, HandleRaw, WorkerStep, Receive, EvaluateOK, EvaluateErr, WorkerExit, ReplayStep,
       DrainOverflow, ReplayOK, ReplayErr, ReplayEnd, DrainExit, MainStep, OpenSucceeds, OpenGivesUp,
       ReaderStops, Close, Sigterm, Crash, control, vars
  <2> QED  BY <1>2, <1>14, <2>1
<1> QED
  BY <1>2, <1>5, <1>6, <1>8, <1>9, <1>10, <1>11, <1>12, <1>13, <1>14 DEF Next, ReplayStep, MainStep

\* The counters of /metrics explain the backlog on disk, for any number of
\* events, passes and restarts, crashes included.
THEOREM SpillsBalance == Spec => []SpillBalance
<1>1. Init => BalanceInv
  <2> SUFFICES ASSUME Init PROVE BalanceInv
    OBVIOUS
  <2>1. overflow.file = <<>> /\ replay = <<>> /\ replayed = 0 /\ drain = "ticking" /\ carried = 0
    BY DEF Init, FreshMemory, newAppendLog
  <2>2. Whole
    BY <2>1, ElementsEmpty DEF Whole
  <2>3. \A c \in {"QueueOverflows", "HunterErrors", "EventsLost", "OverflowReplays"} : metrics[c] = 0
    BY DEF Init, Counters
  <2>4. SpillBalance
    BY <2>1, <2>3, EmptyLog DEF SpillBalance
  <2> QED  BY <2>1, <2>2, <2>4 DEF BalanceInv
<1>2. SafeInv /\ BalanceInv /\ [Next]_vars => BalanceInv'
  <2> SUFFICES ASSUME SafeInv, BalanceInv, [Next]_vars PROVE BalanceInv'
    OBVIOUS
  <2>1. NoRotationFault => Whole'
    BY WholeStep DEF BalanceInv, SafeInv
  <2>2. drain' # "replaying" => replayed' = 0
    BY CountStep DEF BalanceInv
  <2>3. SpillBalance'
    <3>1. CASE NoRotationFault /\ main' # "stopped"
      BY <3>1, BalanceStep DEF BalanceInv, SafeInv
    <3> QED  BY <3>1 DEF SpillBalance, NoRotationFault
  <2> QED  BY <2>1, <2>2, <2>3 DEF BalanceInv, NoRotationFault
<1>3. BalanceInv => SpillBalance
  BY DEF BalanceInv
<1> QED  BY <1>1, <1>2, <1>3, SafeAlways, PTL DEF Spec
===============================================================================
