-------------------------- MODULE ExecutionProofs --------------------------
(***************************************************************************)
(* Proofs about the two parts of a batch's execution that run beside the   *)
(* host: the slots of the future map and the CUDA streams.                 *)
(*                                                                         *)
(* FutureRing, for every number of running requests, of chunks and of      *)
(* tokens.  Slots repeat every FutureLimit allocations, so the invariant   *)
(* relates a slot to the number it was taken at modulo FutureLimit: a      *)
(* later launch that takes the same slot again does so a multiple of       *)
(* FutureLimit later.                                                      *)
(*                                                                         *)
(* DeviceStreams, for any number of batches and any rows.  The three       *)
(* streams run at any speed, so that the invariant says of each queue what *)
(* it can still hold and what stands in front of what: work of the forward *)
(* stream runs after a wait for all work of its batch on the schedule      *)
(* stream, and the copies after a wait for the forward stream (After); the *)
(* lengths change in place, but along the schedule stream they are those   *)
(* of a batch where that batch clones them (Climbs); the slot of a batch   *)
(* is filled, or will be by work in front of its reader.  That the staging *)
(* buffer is overwritten early only by the next batch follows from the     *)
(* host's side: at most one record waits, and what was copied is out of    *)
(* the schedule stream (CopiedIsOut).                                      *)
(***************************************************************************)
EXTENDS FutureRing, DeviceStreams, FiniteSetTheorems, SequenceTheorems, TLAPS

\* The length, the domain and the elements of a sequence.
LEMMA Elements ==
  ASSUME NEW S, NEW s \in Seq(S)
  PROVE  Len(s) \in Nat /\ DOMAIN s = 1..Len(s) /\ \A i \in 1..Len(s) : s[i] \in S
OBVIOUS

\* A sequence behind another.
LEMMA RangeConcat ==
  ASSUME NEW S, NEW s \in Seq(S), NEW t \in Seq(S)
  PROVE  /\ s \o t \in Seq(S) /\ Range(s \o t) = Range(s) \cup Range(t)
         /\ IsInjective(s \o t) <=>
              IsInjective(s) /\ IsInjective(t) /\ Range(s) \cap Range(t) = {}
<1> DEFINE a == s \o t
<1>1. /\ a \in Seq(S) /\ Len(s) \in Nat /\ Len(t) \in Nat
      /\ DOMAIN a = 1..(Len(s) + Len(t)) /\ DOMAIN s = 1..Len(s) /\ DOMAIN t = 1..Len(t)
      /\ \A i \in DOMAIN s : i \in DOMAIN a /\ a[i] = s[i]
      /\ \A i \in DOMAIN t : Len(s) + i \in DOMAIN a /\ a[Len(s) + i] = t[i]
      /\ \A i \in DOMAIN a : i \in DOMAIN s \/ (i - Len(s) \in DOMAIN t /\ Len(s) + (i - Len(s)) = i)
  <2>1. /\ a \in Seq(S) /\ Len(a) = Len(s) + Len(t) /\ Len(s) \in Nat /\ Len(t) \in Nat
        /\ DOMAIN a = 1..Len(a) /\ DOMAIN s = 1..Len(s) /\ DOMAIN t = 1..Len(t)
        /\ \A i \in 1..(Len(s) + Len(t)) : a[i] = IF i <= Len(s) THEN s[i] ELSE t[i - Len(s)]
    BY ConcatProperties
  <2> HIDE DEF a
  <2> QED BY <2>1, SMTT(30)
<1> HIDE DEF a
<1>2. Range(a) = Range(s) \cup Range(t)
  <2>1. ASSUME NEW x \in Range(a) PROVE x \in Range(s) \cup Range(t)
    <3>1. PICK i \in DOMAIN a : x = a[i]
      BY <2>1 DEF Range
    <3> QED BY <3>1, <1>1 DEF Range
  <2>2. Range(s) \subseteq Range(a)
    BY <1>1 DEF Range
  <2>3. Range(t) \subseteq Range(a)
    BY <1>1 DEF Range
  <2> QED BY <2>1, <2>2, <2>3
<1>3. ASSUME IsInjective(a)
      PROVE  IsInjective(s) /\ IsInjective(t) /\ Range(s) \cap Range(t) = {}
  <2>1. IsInjective(s)
    BY <1>1, <1>3 DEF IsInjective
  <2>2. IsInjective(t)
    <3> SUFFICES ASSUME NEW i \in DOMAIN t, NEW j \in DOMAIN t, t[i] = t[j] PROVE i = j
      BY DEF IsInjective
    <3>1. Len(s) + i = Len(s) + j /\ i \in Nat /\ j \in Nat
      BY <1>1, <1>3 DEF IsInjective
    <3> QED BY <3>1, <1>1
  <2>3. ASSUME NEW i \in DOMAIN s, NEW j \in DOMAIN t, s[i] = t[j] PROVE FALSE
    <3>1. i = Len(s) + j /\ i \in 1..Len(s) /\ j \in 1..Len(t)
      BY <1>1, <1>3, <2>3 DEF IsInjective
    <3> QED BY <3>1, <1>1
  <2> QED BY <2>1, <2>2, <2>3 DEF Range
<1>4. ASSUME IsInjective(s), IsInjective(t), Range(s) \cap Range(t) = {},
             NEW i \in DOMAIN a, NEW j \in DOMAIN a, a[i] = a[j]
      PROVE  i = j
  <2> DEFINE x == i - Len(s)
             y == j - Len(s)
  <2>1. /\ i \in DOMAIN s \/ (x \in DOMAIN t /\ Len(s) + x = i)
        /\ j \in DOMAIN s \/ (y \in DOMAIN t /\ Len(s) + y = j)
    BY <1>1
  <2> HIDE DEF x, y
  <2>6. /\ \A k \in DOMAIN s : s[k] \in Range(s) /\ a[k] = s[k]
        /\ \A k \in DOMAIN t : t[k] \in Range(t) /\ a[Len(s) + k] = t[k]
    BY <1>1 DEF Range
  <2>2. CASE i \in DOMAIN s /\ j \in DOMAIN s
    BY <1>1, <1>4, <2>2 DEF IsInjective
  <2>3. CASE i \in DOMAIN s /\ j \notin DOMAIN s
    <3>1. a[i] \in Range(s) /\ a[j] \in Range(t)
      BY <2>1, <2>3, <2>6
    <3> QED BY <1>4, <3>1
  <2>4. CASE i \notin DOMAIN s /\ j \in DOMAIN s
    <3>1. a[j] \in Range(s) /\ a[i] \in Range(t)
      BY <2>1, <2>4, <2>6
    <3> QED BY <1>4, <3>1
  <2>5. CASE i \notin DOMAIN s /\ j \notin DOMAIN s
    BY <1>1, <1>4, <2>1, <2>5 DEF IsInjective
  <2> QED BY <2>2, <2>3, <2>4, <2>5
<1> QED BY <1>1, <1>2, <1>3, <1>4 DEF a, IsInjective

---------------------------------------------------------------------------
(* The future map.                                                         *)

\* Multiples of a positive number.
LEMMA Multiples ==
  ASSUME NEW m \in Nat \ {0}, NEW a \in Int, NEW b \in Int
  PROVE  /\ m * a \in Int /\ m * b \in Int
         /\ m * (a + b) = m * a + m * b /\ m * (a - b) = m * a - m * b
         /\ m * (a - b) > 0 => m * (a - b) >= m
         /\ m * 1 = m /\ m * 0 = 0
<1>1. m * a \in Int /\ m * b \in Int /\ m * (a - b) \in Int /\ a - b \in Int
  OBVIOUS
<1>2. m * (a + b) = m * a + m * b /\ m * (a - b) = m * a - m * b
  OBVIOUS
<1>3. m * 1 = m /\ m * 0 = 0
  OBVIOUS
<1>4. ASSUME NEW c \in Int, m * c > 0 PROVE m * c >= m
  <2>1. c >= 1
    <3>1. SUFFICES ASSUME c <= 0 PROVE FALSE
      OBVIOUS
    <3>2. m * c <= 0
      BY <3>1
    <3> QED BY <3>2, <1>4
  <2>2. m * c = m + m * (c - 1)
    OBVIOUS
  <2>3. m * (c - 1) >= 0
    BY <2>1
  <2> QED BY <2>2, <2>3
<1> QED BY <1>1, <1>2, <1>3, <1>4

\* The ring has room for three batches and more.
LEMMA Limit ==
  /\ FutureLimit \in Nat \ {0} /\ MaxRunning \in Nat \ {0}
  /\ MaxRunning + MaxRunning <= FutureLimit
  /\ BufferLen = FutureLimit + 2 * MaxRunning
<1>1. MaxRunning \in Nat \ {0} /\ MaxChunks \in Nat
  BY RingAssumption DEF RingAssumption
<1>2. FutureLimit = 3 * MaxRunning + MaxRunning * MaxChunks
  BY <1>1 DEF FutureLimit
<1>3. MaxRunning * MaxChunks \in Nat
  BY <1>1
<1> QED BY <1>1, <1>2, <1>3 DEF BufferLen

\* Where the counter goes when len slots are taken.
LEMMA NextCtIs ==
  ASSUME NEW ct \in 0..FutureLimit - 1, NEW len \in 0..MaxRunning
  PROVE  /\ (ct + len) % FutureLimit \in 0..FutureLimit - 1
         /\ \E q \in {0, 1} : ct + len = FutureLimit * q + ((ct + len) % FutureLimit)
<1> DEFINE m == FutureLimit
           a == ct + len
<1>1. m \in Nat \ {0} /\ a \in 0..(m + m - 1)
  BY Limit
<1> HIDE DEF m, a
<1>2. CASE a < m
  <2>1. a % m = a
    BY <1>1, <1>2
  <2> QED BY <1>1, <1>2, <2>1 DEF m, a
<1>3. CASE a >= m
  <2>1. (a - m) % m = a - m
    BY <1>1, <1>3
  <2>2. a % m = (a - m) % m
    BY <1>1, <1>3
  <2>3. m * 1 = m
    BY <1>1
  <2> QED BY <1>1, <1>3, <2>1, <2>2, <2>3 DEF m, a
<1> QED BY <1>1, <1>2, <1>3

\* What the ring says of a request r that runs with slot s: the slot is taken's residue
\* at the time it was taken, and holds the last token until the ring has come round.
Holds(r, s) ==
  /\ taken_at[r] <= taken
  /\ \E q \in Int : taken_at[r] = s + FutureLimit * q
  /\ buf[s] = <<r, sampled[r]>> \/ taken - taken_at[r] >= FutureLimit

\* The counter is the residue of the number of slots taken.
CounterIsResidue == \E q \in Int : taken = FutureLimit * q + future_ct

\* The running requests were prefilled, and no one runs twice.
RunningAdmitted ==
  /\ \A i \in DOMAIN running : \E j \in 1..admitted : running[i] = Arrivals[j]
  /\ IsInjective(running)

RingInv ==
  /\ RingTypeOK
  /\ CounterIsResidue
  /\ RunningAdmitted
  /\ \A i \in DOMAIN slots : Holds(running[i], slots[i])

\* Where a request is in a batch without repetition.
LEMMA PlaceIs ==
  ASSUME NEW S, NEW b \in Seq(S), IsInjective(b), NEW k \in 1..Len(b)
  PROVE  In(b, b[k]) /\ Place(b, b[k]) = k
<1>1. DOMAIN b = 1..Len(b)
  BY Elements
<1>2. \A i \in DOMAIN b : b[i] = b[k] => i = k
  BY <1>1 DEF IsInjective
<1> QED BY <1>1, <1>2 DEF In, Place

\* A launch takes the next slots: the state stays typed, and the counter the residue.
LEMMA LaunchTypes ==
  ASSUME RingTypeOK, CounterIsResidue,
         NEW b \in Seq(Requests), IsInjective(b), Len(b) \in 1..MaxRunning, Launch(b)
  PROVE  /\ buf' \in [0..BufferLen - 1 -> {Unset} \cup (Requests \X Nat)]
         /\ future_ct' \in 0..FutureLimit - 1
         /\ sampled' \in [Requests -> Nat]
         /\ taken' \in Nat /\ taken_at' \in [Requests -> Nat]
         /\ CounterIsResidue'
<1> DEFINE m == FutureLimit
<1>1. /\ m \in Nat \ {0} /\ MaxRunning \in Nat \ {0} /\ MaxRunning + MaxRunning <= m
      /\ BufferLen = m + 2 * MaxRunning
  BY Limit
<1>2. future_ct \in 0..m - 1 /\ taken \in Nat
  BY DEF RingTypeOK
<1>3. Len(b) \in Nat /\ DOMAIN b = 1..Len(b) /\ \A i \in 1..Len(b) : b[i] \in Requests
  BY Elements
<1>4. future_ct' = (future_ct + Len(b)) % m /\ taken' = taken + Len(b)
  BY DEF Launch, NextCt
<1>5. PICK q \in {0, 1} : future_ct + Len(b) = m * q + future_ct'
  BY NextCtIs, <1>2, <1>4
<1>6. future_ct' \in 0..m - 1
  BY NextCtIs, <1>2, <1>4
<1>7. PICK p \in Int : taken = m * p + future_ct
  BY DEF CounterIsResidue
<1> HIDE DEF m
<1>8. taken' = m * (p + q) + future_ct'
  <2> DEFINE x == m * p
             y == m * q
             z == m * (p + q)
  <2>1. z = x + y /\ x \in Int /\ y \in Int
    BY <1>1, Multiples
  <2>2. taken = x + future_ct /\ future_ct + Len(b) = y + future_ct'
    BY <1>5, <1>7
  <2> HIDE DEF x, y, z
  <2>3. taken' = z + future_ct'
    BY ONLY <2>1, <2>2, <1>2, <1>3, <1>4, <1>6, SMTT(30)
  <2> QED BY <2>3 DEF z
<1>9. CounterIsResidue'
  BY <1>8 DEF CounterIsResidue, m
<1>10. sampled' \in [Requests -> Nat]
  <2>1. sampled \in [Requests -> Nat]
    BY DEF RingTypeOK
  <2>2. sampled' = [r \in Requests |-> IF In(b, r) THEN sampled[r] + 1 ELSE sampled[r]]
    BY DEF Launch
  <2> QED BY <2>1, <2>2
<1>11. taken_at' \in [Requests -> Nat]
  <2>1. taken_at \in [Requests -> Nat]
    BY DEF RingTypeOK
  <2>2. taken_at' = [r \in Requests |-> IF In(b, r) THEN taken + Place(b, r) ELSE taken_at[r]]
    BY DEF Launch
  <2>3. ASSUME NEW r \in Requests, In(b, r) PROVE taken + Place(b, r) \in Nat
    <3>1. PICK k \in 1..Len(b) : b[k] = r
      BY <1>3, <2>3 DEF In
    <3>2. Place(b, r) = k
      BY <3>1, PlaceIs
    <3> QED BY <3>2, <1>2
  <2> QED BY <2>1, <2>2, <2>3
<1>12. buf' \in [0..BufferLen - 1 -> {Unset} \cup (Requests \X Nat)]
  <2>1. buf \in [0..BufferLen - 1 -> {Unset} \cup (Requests \X Nat)] /\ sampled \in [Requests -> Nat]
    BY DEF RingTypeOK
  <2>2. ASSUME NEW i \in DOMAIN b
        PROVE  <<b[NewSlot(i) - future_ct], sampled[b[NewSlot(i) - future_ct]] + 1>>
                 \in Requests \X Nat
    <3>1. NewSlot(i) - future_ct = i
      BY <1>2, <1>3 DEF NewSlot
    <3> QED BY <3>1, <2>1, <1>3
  <2>3. buf' = [s \in DOMAIN buf |->
               IF \E i \in DOMAIN b : s = NewSlot(i)
                 THEN <<b[s - future_ct], sampled[b[s - future_ct]] + 1>>
                 ELSE buf[s]]
    BY DEF Launch
  <2> QED BY <2>1, <2>2, <2>3
<1> QED BY <1>4, <1>6, <1>2, <1>3, <1>9, <1>10, <1>11, <1>12 DEF m

\* The launched requests hold their new slots.
LEMMA LaunchedHold ==
  ASSUME RingTypeOK, CounterIsResidue,
         NEW b \in Seq(Requests), IsInjective(b), Len(b) \in 1..MaxRunning, Launch(b),
         NEW k \in 1..Len(b), NEW s, s = NewSlot(k)
  PROVE  /\ s \in 1..FutureLimit + MaxRunning - 1
         /\ Holds(b[k], s)'
<1> DEFINE m == FutureLimit
           r == b[k]
<1>1. /\ m \in Nat \ {0} /\ MaxRunning \in Nat \ {0} /\ MaxRunning + MaxRunning <= m
      /\ BufferLen = m + 2 * MaxRunning
  BY Limit
<1>2. future_ct \in 0..m - 1 /\ taken \in Nat /\ sampled \in [Requests -> Nat]
      /\ taken_at \in [Requests -> Nat] /\ DOMAIN buf = 0..BufferLen - 1
  BY DEF RingTypeOK
<1>3. Len(b) \in Nat /\ DOMAIN b = 1..Len(b) /\ r \in Requests
  BY Elements
<1>4. In(b, r) /\ Place(b, r) = k
  BY PlaceIs
<1>5. taken' = taken + Len(b) /\ taken_at'[r] = taken + k /\ sampled'[r] = sampled[r] + 1
  BY <1>3, <1>4 DEF Launch
<1>6. s = future_ct + k /\ s - future_ct = k /\ s \in 1..m + MaxRunning - 1 /\ s \in DOMAIN buf
  BY <1>1, <1>2, <1>3 DEF NewSlot
<1>7. buf'[s] = <<r, sampled[r] + 1>>
  <2>1. buf'[s] = <<b[s - future_ct], sampled[b[s - future_ct]] + 1>>
    BY <1>3, <1>6 DEF Launch
  <2> QED BY <2>1, <1>6
<1>8. PICK p \in Int : taken = m * p + future_ct
  BY DEF CounterIsResidue
<1> HIDE DEF m
<1>9. taken_at'[r] = s + m * p
  <2>1. m * p \in Int
    BY <1>1
  <2> QED BY <2>1, <1>2, <1>3, <1>5, <1>6, <1>8
<1>10. taken_at'[r] <= taken'
  BY <1>2, <1>3, <1>5
<1>11. \E q \in Int : taken_at'[r] = s + FutureLimit * q
  BY <1>9 DEF m
<1>12. buf'[s] = <<r, sampled'[r]>>
  BY <1>5, <1>7
<1> QED BY <1>6, <1>10, <1>11, <1>12 DEF Holds, m

\* Two slots of the ring that were taken at different times and are one slot: the ring
\* has come round between them.
LEMMA ComesRound ==
  ASSUME NEW s \in Int, NEW t \in Int, NEW u \in Int, t < u,
         \E q \in Int : t = s + FutureLimit * q, \E q \in Int : u = s + FutureLimit * q
  PROVE  u - t >= FutureLimit
<1> DEFINE m == FutureLimit
<1>1. m \in Nat \ {0}
  BY Limit
<1>2. PICK p \in Int : t = s + m * p
  OBVIOUS
<1>3. PICK q \in Int : u = s + m * q
  OBVIOUS
<1> DEFINE x == m * p
           y == m * q
           z == m * (q - p)
<1>4. x \in Int /\ y \in Int /\ z = y - x /\ (z > 0 => z >= m)
  BY <1>1, Multiples
<1>5. t = s + x /\ u = s + y
  BY <1>2, <1>3
<1> HIDE DEF x, y, z, m
<1>6. u - t = z /\ z > 0
  BY <1>4, <1>5
<1>7. u - t >= m
  BY <1>4, <1>6
<1> QED BY <1>7 DEF m

\* A request that is not in the launched batch keeps its slot.
LEMMA OthersHold ==
  ASSUME RingTypeOK, CounterIsResidue,
         NEW b \in Seq(Requests), IsInjective(b), Len(b) \in 1..MaxRunning, Launch(b),
         NEW r \in Requests, ~ In(b, r), NEW s \in 1..FutureLimit + MaxRunning - 1, Holds(r, s)
  PROVE  Holds(r, s)'
<1> DEFINE m == FutureLimit
<1>1. /\ m \in Nat \ {0} /\ MaxRunning \in Nat \ {0}
      /\ BufferLen = m + 2 * MaxRunning
  BY Limit
<1>2. future_ct \in 0..m - 1 /\ taken \in Nat /\ sampled \in [Requests -> Nat]
      /\ taken_at \in [Requests -> Nat] /\ DOMAIN buf = 0..BufferLen - 1
  BY DEF RingTypeOK
<1>3. Len(b) \in Nat /\ DOMAIN b = 1..Len(b)
  BY Elements
<1>4. taken' = taken + Len(b) /\ taken_at'[r] = taken_at[r] /\ sampled'[r] = sampled[r]
  BY DEF Launch
<1>5. s \in DOMAIN buf
  BY <1>1, <1>2
<1>6. CASE \A i \in DOMAIN b : s # NewSlot(i)
  <2>1. buf'[s] = buf[s]
    BY <1>5, <1>6 DEF Launch
  <2>2. \E q \in Int : taken_at'[r] = s + m * q
    BY <1>4 DEF Holds
  <2>3. taken_at[r] <= taken /\ (buf[s] = <<r, sampled[r]>> \/ taken - taken_at[r] >= m)
    BY DEF Holds
  <2>4. taken_at[r] \in Nat
    BY <1>2
  <2>5. taken_at'[r] <= taken' /\ (taken - taken_at[r] >= m => taken' - taken_at'[r] >= m)
    <3> HIDE DEF m
    <3>1. PICK x, y, z, l, w : /\ x = taken_at[r] /\ y = taken' /\ z = taken_at'[r]
                               /\ l = Len(b) /\ w = taken
      OBVIOUS
    <3>2. /\ z = x /\ y = w + l /\ x <= w /\ x \in Int /\ l \in Nat /\ w \in Int
          /\ m \in Int
      BY ONLY <2>3, <2>4, <1>1, <1>2, <1>3, <1>4, <3>1
    <3>3. z <= y /\ (w - x >= m => y - z >= m)
      BY ONLY <3>2
    <3> QED BY ONLY <3>1, <3>3
  <2>6. buf'[s] = <<r, sampled'[r]>> \/ taken' - taken_at'[r] >= m
    BY <2>1, <2>3, <2>5, <1>4
  <2> QED BY <2>2, <2>5, <2>6 DEF Holds
<1>7. ASSUME NEW i \in DOMAIN b, s = NewSlot(i) PROVE Holds(r, s)'
  <2> DEFINE u == taken + i
  <2>1. PICK p \in Int : taken = m * p + future_ct
    BY DEF CounterIsResidue
  <2>2. u = s + m * p
    <3>1. m * p \in Int
      BY <1>1
    <3> QED BY <3>1, <2>1, <1>2, <1>3, <1>7 DEF NewSlot
  <2>3. taken_at[r] < u /\ u \in Int /\ taken_at[r] \in Int /\ s \in Int /\ u <= taken'
    BY <1>2, <1>3, <1>4, SMTT(30) DEF Holds
  <2>4. \E q \in Int : taken_at[r] = s + m * q
    BY DEF Holds
  <2>5. u - taken_at[r] >= m
    <3> HIDE DEF u
    <3> QED BY <2>2, <2>3, <2>4, ComesRound
  <2>6. taken' - taken_at'[r] >= m /\ taken_at'[r] <= taken'
    <3> HIDE DEF u, m
    <3>1. PICK x, y, z : x = taken_at[r] /\ y = taken' /\ z = taken_at'[r]
      OBVIOUS
    <3>2. /\ z = x /\ u - x >= m /\ u <= y /\ u \in Int /\ x \in Int /\ m \in Int
          /\ y \in Int
      BY ONLY <2>3, <2>5, <1>1, <1>2, <1>3, <1>4, <3>1
    <3>3. y - z >= m /\ z <= y
      BY ONLY <3>2, <1>1
    <3> QED BY ONLY <3>1, <3>3
  <2> QED BY <2>4, <2>6, <1>4 DEF Holds
<1> QED BY <1>6, <1>7

\* The requests, or the slots, at the places a filter keeps.
LEMMA SelectedIs ==
  ASSUME NEW S, NEW s \in Seq(S), NEW m \in Nat, NEW p \in [1..m -> DOMAIN s]
  PROVE  /\ Selected(s, p) \in Seq(S) /\ Len(Selected(s, p)) = m /\ DOMAIN Selected(s, p) = 1..m
         /\ \A j \in 1..m : p[j] \in 1..Len(s) /\ Selected(s, p)[j] = s[p[j]]
<1> DEFINE f == Selected(s, p)
<1>1. DOMAIN s = 1..Len(s) /\ \A i \in 1..Len(s) : s[i] \in S
  BY Elements
<1>2. DOMAIN p = 1..m /\ \A j \in 1..m : p[j] \in 1..Len(s)
  BY <1>1
<1>3. f \in [1..m -> S] /\ \A j \in 1..m : f[j] = s[p[j]]
  BY <1>1, <1>2 DEF Selected
<1>4. f \in Seq(S)
  BY <1>3, SeqDef
<1> HIDE DEF f
<1>5. DOMAIN f = 1..m
  BY <1>3
<1>6. Len(f) = m
  BY <1>4, <1>5, LenProperties
<1> QED BY <1>2, <1>3, <1>4, <1>5, <1>6 DEF f

LEMMA KeptIs ==
  ASSUME NEW done, NEW p \in KeptPlaces(done), running \in Seq(Requests)
  PROVE  \E m \in 0..Len(running) :
           /\ p \in [1..m -> DOMAIN running] /\ Len(p) = m
           /\ IsInjective(p)
<1>1. Len(running) \in Nat /\ DOMAIN running = 1..Len(running)
  BY Elements
<1>2. PICK m \in 0..Len(running) : p \in [1..m -> DOMAIN running]
  BY DEF KeptPlaces
<1>3. m \in Nat /\ DOMAIN p = 1..m /\ \A j \in 1..m : p[j] \in 1..Len(running)
  BY <1>1, <1>2
<1>4. \A j, k \in DOMAIN p : j < k => p[j] < p[k]
  BY DEF KeptPlaces
<1>5. ASSUME NEW j \in 1..m, NEW k \in 1..m, p[j] = p[k] PROVE j = k
  <2>1. p[j] \in Int /\ ~ (j < k) /\ ~ (k < j)
    BY <1>3, <1>4, <1>5
  <2> QED BY <2>1, <1>3
<1>6. IsInjective(p)
  BY <1>3, <1>5 DEF IsInjective
<1>7. Len(p) = m
  BY <1>3
<1> QED BY <1>2, <1>6, <1>7

\* A batch of running requests, each at most once.
LEMMA StaysInjective ==
  ASSUME NEW S, NEW s \in Seq(S), IsInjective(s), NEW m \in Nat,
         NEW p \in [1..m -> DOMAIN s], IsInjective(p)
  PROVE  IsInjective(Selected(s, p))
<1> DEFINE f == Selected(s, p)
<1>1. /\ DOMAIN f = 1..m
      /\ \A j \in 1..m : p[j] \in DOMAIN s /\ f[j] = s[p[j]]
  BY SelectedIs
<1>2. DOMAIN p = 1..m
  OBVIOUS
<1> HIDE DEF f
<1>3. \A i, j \in 1..m : f[i] = f[j] => i = j
  BY <1>1, <1>2 DEF IsInjective
<1>4. IsInjective(f)
  BY <1>1, <1>3 DEF IsInjective
<1> QED BY <1>4 DEF f

\* The slots of a launched batch, in order.
LEMMA NewSlots ==
  ASSUME RingTypeOK, NEW len \in 0..MaxRunning, NEW f, f = [i \in 1..len |-> NewSlot(i)]
  PROVE  f \in Seq(1..FutureLimit + MaxRunning - 1) /\ Len(f) = len /\ DOMAIN f = 1..len
<1>1. future_ct \in 0..FutureLimit - 1 /\ FutureLimit \in Nat /\ MaxRunning \in Nat
  BY Limit DEF RingTypeOK
<1>2. \A i \in 1..len : NewSlot(i) \in 1..FutureLimit + MaxRunning - 1
  BY <1>1 DEF NewSlot
<1>3. f \in [1..len -> 1..FutureLimit + MaxRunning - 1] /\ len \in Nat
  BY <1>1, <1>2
<1>4. f \in Seq(1..FutureLimit + MaxRunning - 1)
  BY <1>3, SeqDef
<1>5. DOMAIN f = 1..len
  OBVIOUS
<1>6. Len(f) = len
  BY <1>3, <1>4, <1>5, LenProperties
<1> QED BY <1>4, <1>5, <1>6

\* What the results of a step change.
LEMMA ProcessTypes ==
  ASSUME RingTypeOK, NEW eos, Process(eos)
  PROVE  processed' \in [Requests -> Nat] /\ finished' \subseteq Requests
<1>1. processed \in [Requests -> Nat] /\ finished \subseteq Requests
  BY DEF RingTypeOK
<1> QED BY <1>1 DEF Process, Ends

LEMMA RingInitKeeps == RingInit => RingInv
<1> SUFFICES ASSUME RingInit PROVE RingInv
  OBVIOUS
<1>1. FutureLimit \in Nat \ {0} /\ MaxRunning \in Nat /\ BufferLen = FutureLimit + 2 * MaxRunning
  BY Limit
<1>2. Len(Arrivals) \in Nat /\ FutureLimit * 0 = 0
  BY <1>1, RingAssumption DEF RingAssumption
<1>3. RingTypeOK
  <2>1. Len(running) = 0 /\ running \in Seq(Requests) /\ pending \in Seq(Requests)
        /\ slots \in Seq(1..FutureLimit + MaxRunning - 1) /\ slots = << >>
    BY EmptySeq DEF RingInit
  <2>2. buf \in [0..BufferLen - 1 -> {Unset} \cup (Requests \X Nat)]
    BY DEF RingInit
  <2>3. future_ct \in 0..FutureLimit - 1 /\ admitted \in 0..Len(Arrivals)
    BY <1>1, <1>2 DEF RingInit
  <2>4. /\ sampled \in [Requests -> Nat] /\ processed \in [Requests -> Nat]
        /\ finished \subseteq Requests /\ taken \in Nat /\ taken_at \in [Requests -> Nat]
    BY DEF RingInit
  <2> QED BY <2>1, <2>2, <2>3, <2>4, <1>1 DEF RingTypeOK
<1>4. CounterIsResidue
  BY <1>2 DEF RingInit, CounterIsResidue
<1>5. RunningAdmitted /\ \A i \in DOMAIN slots : Holds(running[i], slots[i])
  BY DEF RingInit, RunningAdmitted, IsInjective
<1> QED BY <1>3, <1>4, <1>5 DEF RingInv

\* The requests a step prefills come after those admitted.
LEMMA NewBatch ==
  ASSUME NEW a \in 0..Len(Arrivals), NEW len \in Nat, a + len <= Len(Arrivals),
         NEW b, b = SubSeq(Arrivals, a + 1, a + len)
  PROVE  /\ b \in Seq(Requests) /\ Len(b) = len /\ DOMAIN b = 1..len
         /\ \A i \in 1..len : a + i \in DOMAIN Arrivals /\ b[i] = Arrivals[a + i]
         /\ IsInjective(b)
<1>1. Arrivals \in Seq(Requests) /\ \A i, j \in DOMAIN Arrivals : Arrivals[i] = Arrivals[j] => i = j
  BY RingAssumption DEF RingAssumption
<1>2. Len(Arrivals) \in Nat /\ DOMAIN Arrivals = 1..Len(Arrivals)
      /\ \A i \in 1..Len(Arrivals) : Arrivals[i] \in Requests
  BY <1>1, Elements
<1> DEFINE lo == a + 1
           hi == a + len
<1>3. lo \in Int /\ hi \in Int /\ (lo <= hi => hi - lo + 1 = len) /\ (~(lo <= hi) => len = 0)
      /\ \A i \in lo..hi : Arrivals[i] \in Requests
  BY <1>2
<1>4. \A i \in 1..len : lo + i - 1 = a + i /\ a + i \in 1..Len(Arrivals)
  BY <1>2
<1>5. b = SubSeq(Arrivals, lo, hi)
  OBVIOUS
<1> HIDE DEF lo, hi
<1>6. /\ b \in Seq(Requests) /\ Len(b) = IF lo <= hi THEN hi - lo + 1 ELSE 0
      /\ \A i \in 1..(hi - lo + 1) : b[i] = Arrivals[lo + i - 1]
  <2> DEFINE t == SubSeq(Arrivals, lo, hi)
  <2>1. /\ t \in Seq(Requests) /\ Len(t) = IF lo <= hi THEN hi - lo + 1 ELSE 0
        /\ \A i \in 1..(hi - lo + 1) : t[i] = Arrivals[lo + i - 1]
    BY <1>3, SubSeqProperties
  <2> QED BY <2>1, <1>5
<1>7. Len(b) = len /\ DOMAIN b = 1..len
  BY <1>3, <1>6, Elements
<1>8. \A i \in 1..len : a + i \in DOMAIN Arrivals /\ b[i] = Arrivals[a + i]
  <2> TAKE i \in 1..len
  <2>1. lo <= hi /\ hi - lo + 1 = len
    BY <1>3
  <2> QED BY <2>1, <1>2, <1>6, <1>4
<1>9. IsInjective(b)
  <2> SUFFICES ASSUME NEW i \in 1..len, NEW j \in 1..len, b[i] = b[j] PROVE i = j
    BY <1>7 DEF IsInjective
  <2>1. a + i = a + j
    BY <1>1, <1>8
  <2> QED BY <2>1
<1> QED BY <1>6, <1>7, <1>8, <1>9

\* After a launch, every slot of the running batch is one that a request had and keeps,
\* or one of the launched batch.
LEMMA LaunchKeeps ==
  ASSUME RingInv, NEW b \in Seq(Requests), IsInjective(b), Len(b) \in 1..MaxRunning, Launch(b),
         processed' \in [Requests -> Nat], finished' \subseteq Requests,
         pending' \in Seq(Requests), admitted' \in 0..Len(Arrivals),
         running' \in Seq(Requests), Len(running') <= MaxRunning, RunningAdmitted',
         slots' \in Seq(1..FutureLimit + MaxRunning - 1),
         slots' = << >> \/ Len(slots') = Len(running'),
         \A i \in DOMAIN slots' :
           \/ \E j \in DOMAIN slots : /\ running'[i] = running[j] /\ slots'[i] = slots[j]
                                      /\ ~ In(b, running[j])
           \/ \E k \in 1..Len(b) : running'[i] = b[k] /\ slots'[i] = NewSlot(k)
  PROVE  RingInv'
<1>1. RingTypeOK /\ CounterIsResidue /\ \A i \in DOMAIN slots : Holds(running[i], slots[i])
  BY DEF RingInv
<1>2. /\ buf' \in [0..BufferLen - 1 -> {Unset} \cup (Requests \X Nat)]
      /\ future_ct' \in 0..FutureLimit - 1
      /\ sampled' \in [Requests -> Nat]
      /\ taken' \in Nat /\ taken_at' \in [Requests -> Nat]
      /\ CounterIsResidue'
  BY <1>1, LaunchTypes
<1>3. RingTypeOK'
  BY <1>2 DEF RingTypeOK
<1>4. ASSUME NEW i \in DOMAIN slots'
      PROVE  Holds(running[i], slots[i])'
  <2>1. PICK r, s : r = running'[i] /\ s = slots'[i]
    OBVIOUS
  <2>2. Holds(r, s)'
    <3>1. CASE \E j \in DOMAIN slots : /\ r = running[j] /\ s = slots[j]
                                       /\ ~ In(b, running[j])
      <4>1. PICK j \in DOMAIN slots : r = running[j] /\ s = slots[j] /\ ~ In(b, running[j])
        BY <3>1
      <4>2. r \in Requests /\ s \in 1..FutureLimit + MaxRunning - 1
        <5>1. /\ running \in Seq(Requests) /\ slots \in Seq(1..FutureLimit + MaxRunning - 1)
              /\ slots = << >> \/ Len(slots) = Len(running)
          BY <1>1 DEF RingTypeOK
        <5>2. DOMAIN slots = 1..Len(slots) /\ DOMAIN running = 1..Len(running)
          BY <5>1, Elements
        <5>3. slots # << >>
          OBVIOUS
        <5>4. j \in 1..Len(running) /\ j \in 1..Len(slots)
          BY <5>1, <5>2, <5>3
        <5> QED BY <5>1, <5>4, <4>1, Elements
      <4>3. Holds(r, s)
        BY <1>1, <4>1
      <4> QED BY <1>1, <4>1, <4>2, <4>3, OthersHold
    <3>2. CASE \E k \in 1..Len(b) : r = b[k] /\ s = NewSlot(k)
      <4>1. PICK k \in 1..Len(b) : r = b[k] /\ s = NewSlot(k)
        BY <3>2
      <4>2. Holds(b[k], s)'
        BY <1>1, <4>1, LaunchedHold
      <4> QED BY <4>1, <4>2 DEF Holds
    <3> QED BY <2>1, <3>1, <3>2
  <2> QED BY <2>1, <2>2 DEF Holds
<1> QED BY <1>2, <1>3, <1>4 DEF RingInv

\* A prefill leaves the old requests' slots where they are.
LEMMA ExtendKeeps ==
  ASSUME RingInv, NEW len \in 1..MaxRunning, StepExtend(len)
  PROVE  RingInv'
<1>1. RingTypeOK /\ RunningAdmitted /\ MaxRunning \in Nat /\ len \in 0..MaxRunning
  BY Limit DEF RingInv
<1>2. /\ running \in Seq(Requests) /\ slots \in Seq(1..FutureLimit + MaxRunning - 1)
      /\ slots = << >> \/ Len(slots) = Len(running)
      /\ Len(running) \in Nat /\ DOMAIN running = 1..Len(running)
      /\ Len(slots) \in Nat /\ DOMAIN slots = 1..Len(slots)
      /\ admitted \in 0..Len(Arrivals) /\ Len(Arrivals) \in Nat
  <2>1. /\ running \in Seq(Requests) /\ slots \in Seq(1..FutureLimit + MaxRunning - 1)
        /\ slots = << >> \/ Len(slots) = Len(running)
        /\ admitted \in 0..Len(Arrivals)
    BY <1>1 DEF RingTypeOK
  <2>2. Len(Arrivals) \in Nat
    BY RingAssumption DEF RingAssumption
  <2> QED BY <2>1, <2>2, Elements, <1>1 DEF RingTypeOK
<1>3. Len(running) \in Nat /\ Len(Arrivals) \in Nat
  BY <1>2
<1>4. admitted \in 0..Len(Arrivals)
  BY <1>2
<1>5. admitted \in Nat
  BY <1>3, <1>4
<1>6. PICK b : b = SubSeq(Arrivals, admitted + 1, admitted + len)
  OBVIOUS
<1>7. /\ \E eos \in SUBSET {pending[i] : i \in DOMAIN pending} : Process(eos)
      /\ admitted + len <= Len(Arrivals)
      /\ \E places \in KeptPlaces(Seen) :
           /\ Len(places) + len <= MaxRunning
           /\ running' = Selected(running, places) \o b
           /\ slots' = Propagated(IF slots = << >> THEN << >> ELSE Selected(slots, places),
                                  Len(places), b)
      /\ Launch(b)
      /\ admitted' = admitted + len
      /\ pending' = b
  BY <1>6 DEF StepExtend
<1>8. len \in Nat /\ len >= 1 /\ len <= MaxRunning /\ admitted \in Nat
       /\ admitted + len <= Len(Arrivals) /\ admitted' = admitted + len
  <2>1. len \in Nat /\ len >= 1 /\ len <= MaxRunning
    BY <1>1
  <2>2. admitted \in Nat
    BY <1>5
  <2>3. admitted + len <= Len(Arrivals) /\ admitted' = admitted + len
    BY <1>7
  <2> QED BY <2>1, <2>2, <2>3
<1>9. /\ b \in Seq(Requests) /\ Len(b) = len /\ DOMAIN b = 1..len
      /\ \A i \in 1..len : admitted + i \in DOMAIN Arrivals /\ b[i] = Arrivals[admitted + i]
      /\ IsInjective(b)
  <2>1. admitted \in 0..Len(Arrivals) /\ len \in Nat /\ admitted + len <= Len(Arrivals)
    BY ONLY <1>2, <1>8
  <2> QED BY ONLY <2>1, <1>6, NewBatch
<1>10. processed' \in [Requests -> Nat] /\ finished' \subseteq Requests
  BY <1>1, <1>7, ProcessTypes
<1>11. PICK p \in KeptPlaces(Seen) :
           /\ Len(p) + len <= MaxRunning
           /\ running' = Selected(running, p) \o b
           /\ slots' = Propagated(IF slots = << >> THEN << >> ELSE Selected(slots, p), Len(p), b)
  BY <1>7
<1>12. PICK m \in 0..Len(running) :
        p \in [1..m -> DOMAIN running] /\ Len(p) = m /\ IsInjective(p)
  BY <1>2, KeptIs
<1>13. m \in Nat /\ m + len <= MaxRunning /\ m + len \in Nat
  <2>1. m \in Nat
    BY <1>3
  <2>2. Len(p) = m
    BY <1>12
  <2>3. Len(p) + len <= MaxRunning
    BY <1>11
  <2> QED BY <2>1, <2>3, <2>2, <1>8
<1>14. PICK old : old = Selected(running, p)
  OBVIOUS
<1>15. /\ old \in Seq(Requests) /\ Len(old) = m /\ DOMAIN old = 1..m
       /\ \A j \in 1..m : p[j] \in 1..Len(running) /\ old[j] = running[p[j]]
  <2>1. running \in Seq(Requests) /\ m \in Nat /\ p \in [1..m -> DOMAIN running]
    BY <1>2, <1>12, <1>13
  <2> QED BY <2>1, <1>14, SelectedIs
<1>16. IsInjective(old)
  BY <1>1, <1>2, <1>12, <1>13, <1>14, StaysInjective DEF RunningAdmitted
<1>17. \A i \in 1..m : \E j \in 1..admitted : old[i] = Arrivals[j]
  <2>1. \A i \in 1..m : p[i] \in DOMAIN running /\ old[i] = running[p[i]]
    BY <1>2, <1>15
  <2>2. \A i \in DOMAIN running : \E j \in 1..admitted : running[i] = Arrivals[j]
    BY <1>1 DEF RunningAdmitted
  <2>3. ASSUME NEW i \in 1..m PROVE \E j \in 1..admitted : old[i] = Arrivals[j]
    <3>1. p[i] \in DOMAIN running /\ old[i] = running[p[i]]
      BY <2>1
    <3>2. PICK j \in 1..admitted : running[p[i]] = Arrivals[j]
      BY <2>2, <3>1
    <3> QED BY <3>1, <3>2
  <2> QED BY <2>3
<1>18. Arrivals \in Seq(Requests) /\ DOMAIN Arrivals = 1..Len(Arrivals)
       /\ \A i, j \in DOMAIN Arrivals : Arrivals[i] = Arrivals[j] => i = j
  BY Elements, RingAssumption DEF RingAssumption
<1>19. \A i \in 1..m : ~ In(b, old[i])
  <2> SUFFICES ASSUME NEW i \in 1..m, NEW k \in 1..len, b[k] = old[i] PROVE FALSE
    BY <1>9 DEF In
  <2>1. PICK j \in 1..admitted : old[i] = Arrivals[j]
    BY <1>17
  <2>2. admitted + k \in DOMAIN Arrivals
    BY <1>9
  <2>3. j \in DOMAIN Arrivals /\ j # admitted + k
    BY <1>18, <1>8
  <2> QED BY <2>1, <2>3, <2>2, <1>9, <1>18
<1>20. /\ running' \in Seq(Requests) /\ Len(running') = m + len /\ DOMAIN running' = 1..(m + len)
       /\ \A i \in 1..(m + len) : running'[i] = IF i <= m THEN old[i] ELSE b[i - m]
  <2>1. running' = old \o b
    BY <1>11, <1>14
  <2>2. /\ running' \in Seq(Requests) /\ Len(running') = Len(old) + Len(b)
        /\ \A i \in 1..(Len(old) + Len(b)) :
             running'[i] = IF i <= Len(old) THEN old[i] ELSE b[i - Len(old)]
    <3>1. old \in Seq(Requests) /\ b \in Seq(Requests)
      BY ONLY <1>9, <1>15
    <3> QED BY ONLY <2>1, <3>1, ConcatProperties
  <2> QED BY <2>2, <1>9, <1>15, Elements
<1>21. RunningAdmitted'
  <2>1. IsInjective(running')
    <3>1. running' = old \o b
      BY <1>11, <1>14
    <3>2. Range(old) \cap Range(b) = {}
      <4> SUFFICES ASSUME NEW i \in 1..m, NEW k \in 1..len, old[i] = b[k] PROVE FALSE
        BY <1>9, <1>15 DEF Range
      <4> QED BY <1>9, <1>19 DEF In
    <3> QED BY <3>1, <3>2, <1>9, <1>15, <1>16, RangeConcat
  <2>2. ASSUME NEW i \in 1..(m + len) PROVE \E j \in 1..admitted' : running'[i] = Arrivals[j]
    <3>1. CASE i <= m
      <4>1. i \in 1..m /\ running'[i] = old[i] /\ \A j \in 1..admitted : j \in 1..admitted'
        BY <1>8, <1>13, <1>20, <3>1
      <4> QED BY <4>1, <1>17
    <3>2. CASE i > m
      <4>1. i - m \in 1..len /\ running'[i] = b[i - m] /\ admitted + (i - m) \in 1..admitted'
        BY <1>8, <1>13, <1>20, <3>2
      <4> QED BY <4>1, <1>9
    <3> QED BY <3>1, <3>2, <1>13
  <2> QED BY <2>1, <2>2, <1>20 DEF RunningAdmitted
<1>22. PICK f : f = [i \in 1..Len(b) |-> NewSlot(i)]
  OBVIOUS
<1>23. f \in Seq(1..FutureLimit + MaxRunning - 1) /\ Len(f) = len /\ DOMAIN f = 1..len
       /\ \A k \in 1..len : f[k] = NewSlot(k)
  BY <1>1, <1>9, <1>22, NewSlots
<1>24. ASSUME slots' # << >>
       PROVE  /\ slots' \in Seq(1..FutureLimit + MaxRunning - 1)
              /\ Len(slots') = m + len /\ DOMAIN slots' = 1..(m + len)
              /\ \A i \in 1..m : slots # << >> /\ slots'[i] = slots[p[i]]
              /\ \A i \in 1..(m + len) : i > m => slots'[i] = f[i - m]
  <2>1. PICK o : o = IF slots = << >> THEN << >> ELSE Selected(slots, p)
    OBVIOUS
  <2>2. slots' = o \o f /\ ~ (Len(o) < m)
    BY <1>11, <1>12, <1>22, <1>24, <2>1 DEF Propagated
  <2>3. /\ o \in Seq(1..FutureLimit + MaxRunning - 1) /\ Len(o) = m
        /\ \A i \in 1..m : slots # << >> /\ o[i] = slots[p[i]]
    <3>1. CASE slots = << >>
      <4>1. o = << >>
        BY <2>1, <3>1
      <4>2. o \in Seq(1..FutureLimit + MaxRunning - 1) /\ Len(o) = 0
        BY <4>1, EmptySeq
      <4>3. m = 0
        BY <4>2, <2>2, <1>13
      <4> QED BY <4>2, <4>3
    <3>2. CASE slots # << >>
      <4>1. DOMAIN slots = DOMAIN running /\ o = Selected(slots, p)
        BY <1>2, <2>1, <3>2
      <4> QED BY <4>1, <1>2, <1>12, <1>13, <3>2, SelectedIs
    <3> QED BY <3>1, <3>2
  <2>4. /\ slots' \in Seq(1..FutureLimit + MaxRunning - 1) /\ Len(slots') = Len(o) + Len(f)
        /\ \A i \in 1..(Len(o) + Len(f)) :
             slots'[i] = IF i <= Len(o) THEN o[i] ELSE f[i - Len(o)]
    BY <2>2, <2>3, <1>23, ConcatProperties
  <2>5. DOMAIN slots' = 1..Len(slots')
    BY <2>4, LenProperties
  <2> QED BY <2>3, <2>4, <2>5, <1>13, <1>23
<1>25. /\ slots' \in Seq(1..FutureLimit + MaxRunning - 1)
       /\ slots' = << >> \/ Len(slots') = Len(running')
  <2>1. << >> \in Seq(1..FutureLimit + MaxRunning - 1)
    BY EmptySeq
  <2> QED BY <2>1, <1>24, <1>20
<1>26. \A i \in DOMAIN slots' :
         \/ \E j \in DOMAIN slots : /\ running'[i] = running[j] /\ slots'[i] = slots[j]
                                    /\ ~ In(b, running[j])
         \/ \E k \in 1..Len(b) : running'[i] = b[k] /\ slots'[i] = NewSlot(k)
  <2> TAKE i \in DOMAIN slots'
  <2>1. slots' # << >>
    OBVIOUS
  <2>2. i \in 1..(m + len)
    BY <1>24, <2>1
  <2>3. CASE i <= m
    <3>1. i \in 1..m /\ running'[i] = old[i] /\ slots # << >> /\ slots'[i] = slots[p[i]]
      BY <1>13, <1>20, <1>24, <2>1, <2>2, <2>3
    <3>2. p[i] \in DOMAIN slots /\ old[i] = running[p[i]]
      BY <1>2, <1>15, <3>1
    <3> QED BY <3>1, <3>2, <1>19
  <2>4. CASE i > m
    <3>1. i - m \in 1..len /\ running'[i] = b[i - m] /\ slots'[i] = f[i - m]
      BY <1>13, <1>20, <1>24, <2>1, <2>2, <2>4
    <3> QED BY <3>1, <1>9, <1>23
  <2> QED BY <2>2, <2>3, <2>4, <1>13
<1>27. admitted' \in 0..Len(Arrivals) /\ pending' \in Seq(Requests) /\ Len(b) \in 1..MaxRunning
       /\ Len(running') <= MaxRunning
  <2>1. pending' = b
    BY <1>7
  <2>2. admitted' \in 0..Len(Arrivals)
    BY <1>3, <1>5, <1>8
  <2>3. Len(b) \in 1..MaxRunning
    BY <1>9
  <2>4. Len(running') <= MaxRunning
    BY <1>13, <1>20
  <2> QED BY <2>1, <2>2, <2>3, <2>4, <1>9
<1> QED BY <1>7, <1>9, <1>10, <1>20, <1>21, <1>25, <1>26, <1>27, LaunchKeeps

\* A decode launches the whole running batch and gives every request a new slot.
LEMMA DecodeKeeps ==
  ASSUME RingInv, StepDecode
  PROVE  RingInv'
<1>1. RingTypeOK /\ RunningAdmitted /\ MaxRunning \in Nat
  BY Limit DEF RingInv
<1>2. /\ running \in Seq(Requests) /\ Len(running) \in Nat /\ DOMAIN running = 1..Len(running)
      /\ Len(running) <= MaxRunning /\ admitted \in 0..Len(Arrivals)
  BY <1>1, Elements DEF RingTypeOK
<1>3. PICK p \in KeptPlaces(Seen) :
           /\ p # << >> /\ running' = Selected(running, p)
           /\ slots' = [i \in DOMAIN p |-> NewSlot(i)]
  BY DEF StepDecode
<1>4. PICK m \in 0..Len(running) :
        p \in [1..m -> DOMAIN running] /\ Len(p) = m /\ IsInjective(p)
  BY <1>2, KeptIs
<1>5. m \in Nat
  BY <1>2
<1>6. m # 0
  <2>1. ASSUME m = 0 PROVE FALSE
    <3>1. DOMAIN p = {}
      BY <1>4, <2>1
    <3> QED BY <3>1, <1>3, <1>4
  <2> QED BY <2>1
<1>7. PICK b : b = running'
  OBVIOUS
<1>8. b = Selected(running, p) /\ p \in [1..m -> DOMAIN running]
  BY <1>3, <1>4, <1>7
<1>9. /\ b \in Seq(Requests) /\ Len(b) = m /\ DOMAIN b = 1..m
      /\ \A j \in 1..m : p[j] \in 1..Len(running) /\ b[j] = running[p[j]]
  <2>1. running \in Seq(Requests) /\ m \in Nat
    BY <1>2, <1>5
  <2> QED BY <2>1, <1>8, SelectedIs
<1>10. IsInjective(b)
  BY <1>1, <1>2, <1>4, <1>5, <1>8, StaysInjective DEF RunningAdmitted
<1>11. Launch(b) /\ pending' = b /\ admitted' = admitted
  BY <1>7 DEF StepDecode, Launch
<1>12. m \in 0..MaxRunning /\ Len(b) \in 1..MaxRunning
  <2>1. m <= MaxRunning
    BY <1>1, <1>2
  <2> QED BY <2>1, <1>1, <1>5, <1>6, <1>9
<1>13. slots' = [i \in 1..m |-> NewSlot(i)]
  BY <1>3, <1>4
<1>14. PICK f : f = [i \in 1..m |-> NewSlot(i)]
  OBVIOUS
<1>15. /\ f \in Seq(1..FutureLimit + MaxRunning - 1) /\ Len(f) = m /\ DOMAIN f = 1..m
       /\ slots' = f /\ \A k \in 1..m : f[k] = NewSlot(k)
  BY <1>1, <1>12, <1>13, <1>14, NewSlots
<1>16. processed' \in [Requests -> Nat] /\ finished' \subseteq Requests
  BY <1>1, ProcessTypes DEF StepDecode
<1>17. RunningAdmitted'
  <2>1. \A i \in DOMAIN b : \E j \in 1..admitted : b[i] = Arrivals[j]
    <3> TAKE i \in DOMAIN b
    <3>1. p[i] \in DOMAIN running /\ b[i] = running[p[i]]
      BY <1>2, <1>9
    <3> QED BY <3>1, <1>1 DEF RunningAdmitted
  <2> QED BY <2>1, <1>7, <1>10, <1>11 DEF RunningAdmitted
<1>18. \A i \in DOMAIN slots' : \E k \in 1..Len(b) : running'[i] = b[k] /\ slots'[i] = NewSlot(k)
  BY <1>7, <1>9, <1>15
<1>19. /\ running' \in Seq(Requests) /\ Len(running') <= MaxRunning
       /\ Len(slots') = Len(running') /\ slots' \in Seq(1..FutureLimit + MaxRunning - 1)
       /\ pending' \in Seq(Requests)
  <2>1. Len(b) <= MaxRunning
    BY <1>12
  <2> QED BY <2>1, <1>7, <1>9, <1>11, <1>15
<1>20. admitted' \in 0..Len(Arrivals)
  BY <1>2, <1>11
<1> QED BY <1>9, <1>10, <1>11, <1>12, <1>16, <1>17, <1>18, <1>19, <1>20, LaunchKeeps

LEMMA NothingKeeps ==
  ASSUME RingInv, StepNothing
  PROVE  RingInv'
<1>1. RingTypeOK /\ CounterIsResidue
  BY DEF RingInv
<1>2. processed' \in [Requests -> Nat] /\ finished' \subseteq Requests
  BY <1>1, ProcessTypes DEF StepNothing
<1>3. /\ running' = << >> /\ slots' = << >> /\ pending' = << >>
      /\ buf' = buf /\ future_ct' = future_ct /\ taken' = taken /\ taken_at' = taken_at
      /\ admitted' = admitted /\ sampled' = sampled
  BY DEF StepNothing, ring
<1>4. /\ running' \in Seq(Requests) /\ Len(running') <= MaxRunning /\ pending' \in Seq(Requests)
      /\ slots' \in Seq(1..FutureLimit + MaxRunning - 1)
  BY <1>3, Limit, EmptySeq
<1>5. RingTypeOK'
  BY <1>1, <1>2, <1>3, <1>4 DEF RingTypeOK
<1>6. CounterIsResidue'
  BY <1>1, <1>3 DEF CounterIsResidue
<1>7. RunningAdmitted' /\ (\A i \in DOMAIN slots : Holds(running[i], slots[i]))'
  BY <1>3 DEF RunningAdmitted, IsInjective
<1> QED BY <1>5, <1>6, <1>7 DEF RingInv

\* The invariant is inductive.
THEOREM RingInvariance == RingSpec => []RingInv
<1>1. RingInit => RingInv
  BY RingInitKeeps
<1>2. RingInv /\ [RingNext]_rvars => RingInv'
  <2> SUFFICES ASSUME RingInv, [RingNext]_rvars PROVE RingInv'
    OBVIOUS
  <2>1. ASSUME NEW len \in 1..MaxRunning, StepExtend(len) PROVE RingInv'
    BY <2>1, ExtendKeeps
  <2>2. CASE StepDecode
    BY <2>2, DecodeKeeps
  <2>3. CASE StepNothing
    BY <2>3, NothingKeeps
  <2>4. CASE UNCHANGED rvars
    BY <2>4 DEF rvars, ring, batch, RingInv, RingTypeOK, CounterIsResidue, RunningAdmitted, Holds
  <2> QED BY <2>1, <2>2, <2>3, <2>4 DEF RingNext
<1> QED BY <1>1, <1>2, PTL DEF RingSpec

\* A decode that resolves a slot reads its own request's last token, as long as fewer
\* than future_limit slots were taken since (FutureMap.alloc_future_indices).
THEOREM SlotsHoldLastTheorem == RingSpec => []SlotsHoldLast
<1>1. RingInv => SlotsHoldLast
  BY DEF RingInv, SlotsHoldLast, SlotHoldsLast, Holds
<1> QED BY <1>1, RingInvariance, PTL


---------------------------------------------------------------------------
(* Queues of work.                                                          *)

Ops == {"wait", "input", "add", "clone", "params", "resolve", "forward", "sample", "store", "copy"}

Items == [op : Ops, on : Streams \cup {""}, for : Nat, batch : Nat]

\* Some piece of work is of this kind and batch.
Has(q, o, b) == \E i \in 1..Len(q) : q[i].op = o /\ q[i].batch = b

\* The same, before the j-th piece.
HasBefore(q, j, o, b) == \E h \in 1..(j - 1) : q[h].op = o /\ q[h].batch = b

\* All work is of batches after b, or up to b.
Later(q, b)   == \A i \in 1..Len(q) : q[i].batch > b
Earlier(q, b) == \A i \in 1..Len(q) : q[i].batch <= b

\* Work of queue q runs after the work of its batch and of those before that stands in
\* queue p, of which r pieces have run: a wait in front of it says so.
After(q, p, r) ==
  \A j \in 1..Len(q) : q[j].op # "wait" =>
    \A i \in 1..Len(p) : p[i].batch <= q[j].batch =>
      \E h \in 1..(j - 1) : q[h].op = "wait" /\ q[h].for >= r + i

\* The lengths go from x to y along queue q, one up at every "add", and are b when the
\* lengths of batch b are cloned.
Climbs(q, x, y) ==
  \E v \in [0..Len(q) -> Nat] :
    /\ v[0] = x /\ v[Len(q)] = y
    /\ \A k \in 1..Len(q) :
         /\ v[k] = (IF q[k].op = "add" THEN v[k - 1] + 1 ELSE v[k - 1])
         /\ q[k].op = "clone" => v[k] = q[k].batch

\* The front of a queue, and the rest.
LEMMA TailIs ==
  ASSUME NEW S, NEW q \in Seq(S), q # << >>
  PROVE  /\ Len(q) \in Nat \ {0} /\ Head(q) = q[1] /\ q[1] \in S
         /\ Tail(q) \in Seq(S) /\ Len(Tail(q)) = Len(q) - 1
         /\ \A i \in 1..(Len(q) - 1) : Tail(q)[i] = q[i + 1] /\ i + 1 \in 1..Len(q)
<1>1. Len(q) \in Nat \ {0}
  BY EmptySeq
<1> QED BY <1>1

LEMMA JoinIs ==
  ASSUME NEW S, NEW q \in Seq(S), NEW t \in Seq(S)
  PROVE  /\ q \o t \in Seq(S) /\ Len(q \o t) = Len(q) + Len(t)
         /\ Len(q) \in Nat /\ Len(t) \in Nat
         /\ \A i \in 1..Len(q) : (q \o t)[i] = q[i]
         /\ \A i \in 1..Len(t) : (q \o t)[Len(q) + i] = t[i] /\ Len(q) + i \in 1..Len(q \o t)
         /\ \A i \in 1..Len(q \o t) : i \in 1..Len(q) \/ (i - Len(q) \in 1..Len(t) /\ (q \o t)[i] = t[i - Len(q)])
<1> QED OBVIOUS

LEMMA HasPop ==
  ASSUME NEW q \in Seq(Items), q # << >>, NEW o, NEW b
  PROVE  /\ Has(Tail(q), o, b) => Has(q, o, b)
         /\ Has(q, o, b) => Has(Tail(q), o, b) \/ (q[1].op = o /\ q[1].batch = b)
<1>1. PICK t : t = Tail(q)
  OBVIOUS
<1>2. PICK l : l = Len(q)
  OBVIOUS
<1>3. l \in Nat \ {0} /\ Len(t) = l - 1 /\ \A i \in 1..(l - 1) : t[i] = q[i + 1]
  BY ONLY <1>1, <1>2, q \in Seq(Items), q # << >>, TailIs
<1>4. ASSUME NEW i \in 1..Len(t), t[i].op = o, t[i].batch = b PROVE Has(q, o, b)
  <2>1. i + 1 \in 1..l /\ t[i] = q[i + 1]
    BY ONLY <1>3, i \in 1..Len(t)
  <2> QED BY ONLY <2>1, <1>2, <1>4 DEF Has
<1>5. ASSUME NEW i \in 1..l, q[i].op = o, q[i].batch = b, i # 1 PROVE Has(t, o, b)
  <2>1. i - 1 \in 1..Len(t) /\ t[i - 1] = q[i]
    BY ONLY <1>3, i \in 1..l, i # 1
  <2> QED BY ONLY <2>1, <1>5 DEF Has
<1> QED BY ONLY <1>1, <1>2, <1>4, <1>5 DEF Has

LEMMA HasJoin ==
  ASSUME NEW q \in Seq(Items), NEW t \in Seq(Items), NEW o, NEW b
  PROVE  Has(q \o t, o, b) <=> Has(q, o, b) \/ Has(t, o, b)
<1>1. PICK w : w = q \o t
  OBVIOUS
<1>2. /\ Len(w) = Len(q) + Len(t) /\ Len(q) \in Nat /\ Len(t) \in Nat
      /\ \A i \in 1..Len(q) : w[i] = q[i]
      /\ \A i \in 1..Len(t) : w[Len(q) + i] = t[i] /\ Len(q) + i \in 1..Len(w)
      /\ \A i \in 1..Len(w) : i \in 1..Len(q) \/ (i - Len(q) \in 1..Len(t) /\ w[i] = t[i - Len(q)])
  BY ONLY <1>1, q \in Seq(Items), t \in Seq(Items), JoinIs
<1>3. \A i \in 1..Len(q) : i \in 1..Len(w)
  BY ONLY <1>2
<1>4. ASSUME Has(w, o, b) PROVE Has(q, o, b) \/ Has(t, o, b)
  <2>1. PICK i \in 1..Len(w) : w[i].op = o /\ w[i].batch = b
    BY ONLY <1>4 DEF Has
  <2>2. CASE i \in 1..Len(q)
    <3>1. w[i] = q[i]
      BY ONLY <1>2, <2>2
    <3> QED BY ONLY <2>1, <2>2, <3>1 DEF Has
  <2>3. CASE i - Len(q) \in 1..Len(t) /\ w[i] = t[i - Len(q)]
    <3>1. PICK j : j = i - Len(q)
      OBVIOUS
    <3> QED BY ONLY <2>1, <2>3, <3>1 DEF Has
  <2> QED BY ONLY <1>2, i \in 1..Len(w), <2>2, <2>3
<1>5. ASSUME Has(q, o, b) PROVE Has(w, o, b)
  <2>1. PICK i \in 1..Len(q) : q[i].op = o /\ q[i].batch = b
    BY ONLY <1>5 DEF Has
  <2>2. i \in 1..Len(w) /\ w[i] = q[i]
    BY ONLY <1>2, <1>3, i \in 1..Len(q)
  <2> QED BY ONLY <2>1, <2>2 DEF Has
<1>6. ASSUME Has(t, o, b) PROVE Has(w, o, b)
  <2>1. PICK i \in 1..Len(t) : t[i].op = o /\ t[i].batch = b
    BY ONLY <1>6 DEF Has
  <2>2. Len(q) + i \in 1..Len(w) /\ w[Len(q) + i] = t[i]
    BY ONLY <1>2, i \in 1..Len(t)
  <2> QED BY ONLY <2>1, <2>2 DEF Has
<1> QED BY ONLY <1>1, <1>4, <1>5, <1>6

LEMMA BoundsPop ==
  ASSUME NEW q \in Seq(Items), q # << >>, NEW b
  PROVE  /\ Later(q, b) => Later(Tail(q), b) /\ q[1].batch > b
         /\ Earlier(q, b) => Earlier(Tail(q), b) /\ q[1].batch <= b
<1>1. PICK t : t = Tail(q)
  OBVIOUS
<1>2. Len(q) \in Nat \ {0} /\ Len(t) = Len(q) - 1 /\ \A i \in 1..(Len(q) - 1) : t[i] = q[i + 1] /\ i + 1 \in 1..Len(q)
  BY ONLY <1>1, q \in Seq(Items), q # << >>, TailIs
<1>3. 1 \in 1..Len(q)
  BY ONLY <1>2
<1> QED BY ONLY <1>1, <1>2, <1>3 DEF Later, Earlier

LEMMA BoundsJoin ==
  ASSUME NEW q \in Seq(Items), NEW t \in Seq(Items), NEW b
  PROVE  /\ Later(q \o t, b) <=> Later(q, b) /\ Later(t, b)
         /\ Earlier(q \o t, b) <=> Earlier(q, b) /\ Earlier(t, b)
<1>1. PICK w : w = q \o t
  OBVIOUS
<1>2. /\ Len(w) = Len(q) + Len(t) /\ Len(q) \in Nat /\ Len(t) \in Nat
      /\ \A i \in 1..Len(q) : w[i] = q[i]
      /\ \A i \in 1..Len(t) : w[Len(q) + i] = t[i] /\ Len(q) + i \in 1..Len(w)
      /\ \A i \in 1..Len(w) : i \in 1..Len(q) \/ (i - Len(q) \in 1..Len(t) /\ w[i] = t[i - Len(q)])
  BY ONLY <1>1, q \in Seq(Items), t \in Seq(Items), JoinIs
<1>3. \A i \in 1..Len(q) : i \in 1..Len(w)
  BY ONLY <1>2
<1> QED BY ONLY <1>1, <1>2, <1>3 DEF Later, Earlier

LEMMA AfterPop ==
  ASSUME NEW q \in Seq(Items), q # << >>, NEW p \in Seq(Items), NEW r \in Nat, After(q, p, r),
         q[1].op = "wait" => r >= q[1].for
  PROVE  After(Tail(q), p, r)
<1>1. PICK t : t = Tail(q)
  OBVIOUS
<1>2. Len(q) \in Nat \ {0} /\ Len(t) = Len(q) - 1 /\ \A i \in 1..(Len(q) - 1) : t[i] = q[i + 1] /\ i + 1 \in 1..Len(q)
  BY ONLY <1>1, q \in Seq(Items), q # << >>, TailIs
<1>3. ASSUME NEW j \in 1..Len(t), t[j].op # "wait", NEW i \in 1..Len(p), p[i].batch <= t[j].batch
      PROVE  \E h \in 1..(j - 1) : t[h].op = "wait" /\ t[h].for >= r + i
  <2>1. j + 1 \in 1..Len(q) /\ t[j] = q[j + 1] /\ j \in Nat /\ i \in Nat \ {0}
    BY ONLY <1>2, j \in 1..Len(t), i \in 1..Len(p)
  <2>2. PICK h \in 1..(j + 1 - 1) : q[h].op = "wait" /\ q[h].for >= r + i
    BY ONLY <2>1, <1>3, After(q, p, r) DEF After
  <2>3. h # 1
    <3>1. q[1] \in Items
      BY ONLY q \in Seq(Items), q # << >>, TailIs
    <3>2. q[1].for \in Nat
      BY ONLY <3>1 DEF Items
    <3> QED BY ONLY <2>1, <2>2, <3>2, r \in Nat, q[1].op = "wait" => r >= q[1].for
  <2>4. h - 1 \in 1..(j - 1) /\ t[h - 1] = q[h]
    BY ONLY <1>2, <2>1, <2>3, h \in 1..(j + 1 - 1), j \in 1..Len(t)
  <2> QED BY ONLY <2>2, <2>4
<1> QED BY ONLY <1>1, <1>3 DEF After

\* What is at the front and no wait has nothing left to wait for.
LEMMA AfterHead ==
  ASSUME NEW q \in Seq(Items), q # << >>, NEW p \in Seq(Items), NEW r, After(q, p, r),
         q[1].op # "wait"
  PROVE  Later(p, q[1].batch)
<1>1. 1 \in 1..Len(q) /\ q[1] \in Items
  BY ONLY q \in Seq(Items), q # << >>, TailIs
<1>2. ASSUME NEW i \in 1..Len(p) PROVE p[i].batch > q[1].batch
  <2>1. ~ \E h \in 1..(1 - 1) : TRUE
    OBVIOUS
  <2>2. ~ (p[i].batch <= q[1].batch)
    BY ONLY <1>1, <2>1, i \in 1..Len(p), After(q, p, r), q[1].op # "wait" DEF After
  <2>3. p[i] \in Items
    OBVIOUS
  <2>4. p[i].batch \in Nat /\ q[1].batch \in Nat
    BY ONLY <1>1, <2>3 DEF Items
  <2> QED BY ONLY <2>2, <2>4
<1> QED BY ONLY <1>2 DEF Later

LEMMA AfterRun ==
  ASSUME NEW q, NEW p \in Seq(Items), p # << >>, NEW r \in Nat, After(q, p, r)
  PROVE  After(q, Tail(p), r + 1)
<1>1. PICK t : t = Tail(p)
  OBVIOUS
<1>2. Len(p) \in Nat \ {0} /\ Len(t) = Len(p) - 1 /\ \A i \in 1..(Len(p) - 1) : t[i] = p[i + 1] /\ i + 1 \in 1..Len(p)
  BY ONLY <1>1, p \in Seq(Items), p # << >>, TailIs
<1>3. ASSUME NEW j \in 1..Len(q), q[j].op # "wait", NEW i \in 1..Len(t), t[i].batch <= q[j].batch
      PROVE  \E h \in 1..(j - 1) : q[h].op = "wait" /\ q[h].for >= (r + 1) + i
  <2>1. i + 1 \in 1..Len(p) /\ t[i] = p[i + 1] /\ i \in Int
    BY ONLY <1>2, i \in 1..Len(t)
  <2>2. r + (i + 1) = (r + 1) + i
    BY ONLY <2>1, r \in Nat
  <2> QED BY ONLY <2>1, <2>2, <1>3, After(q, p, r) DEF After
<1> QED BY ONLY <1>1, <1>3 DEF After

\* Work of later batches need not be waited for.
LEMMA AfterMore ==
  ASSUME NEW q \in Seq(Items), NEW p \in Seq(Items), NEW t \in Seq(Items), NEW r, After(q, p, r),
         NEW b \in Nat, Earlier(q, b), Later(t, b)
  PROVE  After(q, p \o t, r)
<1>1. PICK w : w = p \o t
  OBVIOUS
<1>2. /\ Len(w) = Len(p) + Len(t) /\ Len(p) \in Nat /\ Len(t) \in Nat
      /\ \A i \in 1..Len(p) : w[i] = p[i]
      /\ \A i \in 1..Len(w) : i \in 1..Len(p) \/ (i - Len(p) \in 1..Len(t) /\ w[i] = t[i - Len(p)])
  BY ONLY <1>1, p \in Seq(Items), t \in Seq(Items), JoinIs
<1>3. ASSUME NEW j \in 1..Len(q), q[j].op # "wait", NEW i \in 1..Len(w), w[i].batch <= q[j].batch
      PROVE  \E h \in 1..(j - 1) : q[h].op = "wait" /\ q[h].for >= r + i
  <2>1. CASE i \in 1..Len(p)
    BY ONLY <2>1, <1>2, <1>3, After(q, p, r) DEF After
  <2>2. CASE i - Len(p) \in 1..Len(t) /\ w[i] = t[i - Len(p)]
    <3>1. w[i].batch > b /\ q[j].batch <= b
      BY ONLY <2>2, j \in 1..Len(q), Earlier(q, b), Later(t, b) DEF Earlier, Later
    <3>2. w[i] \in Items /\ q[j] \in Items
      BY <2>2
    <3>3. w[i].batch \in Nat /\ q[j].batch \in Nat
      BY ONLY <3>2 DEF Items
    <3> QED BY ONLY <3>1, <3>3, <1>3, b \in Nat
  <2> QED BY ONLY <2>1, <2>2, <1>2, i \in 1..Len(w)
<1> QED BY ONLY <1>1, <1>3 DEF After

\* What is enqueued behind a wait for all that has been enqueued there.
LEMMA AfterWait ==
  ASSUME NEW q \in Seq(Items), NEW p \in Seq(Items), NEW t \in Seq(Items), NEW r \in Nat,
         After(q, p, r), t # << >>, t[1].op = "wait", t[1].for >= r + Len(p)
  PROVE  After(q \o t, p, r)
<1>1. PICK w : w = q \o t
  OBVIOUS
<1>2. /\ Len(w) = Len(q) + Len(t) /\ Len(q) \in Nat /\ Len(t) \in Nat
      /\ \A i \in 1..Len(q) : w[i] = q[i]
      /\ \A i \in 1..Len(t) : w[Len(q) + i] = t[i] /\ Len(q) + i \in 1..Len(w)
      /\ \A i \in 1..Len(w) : i \in 1..Len(q) \/ (i - Len(q) \in 1..Len(t) /\ w[i] = t[i - Len(q)])
  BY ONLY <1>1, q \in Seq(Items), t \in Seq(Items), JoinIs
<1>3. Len(t) \in Nat \ {0} /\ t[1] \in Items /\ Len(p) \in Nat
  BY ONLY t \in Seq(Items), t # << >>, TailIs, p \in Seq(Items), Elements
<1>4. t[1].for \in Nat
  BY ONLY <1>3 DEF Items
<1>5. ASSUME NEW j \in 1..Len(w), w[j].op # "wait", NEW i \in 1..Len(p), p[i].batch <= w[j].batch
      PROVE  \E h \in 1..(j - 1) : w[h].op = "wait" /\ w[h].for >= r + i
  <2>1. CASE j \in 1..Len(q)
    <3>1. PICK h \in 1..(j - 1) : q[h].op = "wait" /\ q[h].for >= r + i
      BY ONLY <2>1, <1>2, <1>5, After(q, p, r) DEF After
    <3>2. w[h] = q[h]
      BY ONLY <2>1, <1>2, h \in 1..(j - 1)
    <3> QED BY ONLY <3>1, <3>2
  <2>2. CASE j - Len(q) \in 1..Len(t) /\ w[j] = t[j - Len(q)]
    <3>1. j - Len(q) # 1
      BY ONLY <2>2, <1>5, t[1].op = "wait"
    <3>2. Len(q) + 1 \in 1..(j - 1) /\ w[Len(q) + 1] = t[1]
      BY ONLY <2>2, <3>1, <1>2, <1>3
    <3>3. t[1].for >= r + i
      BY ONLY <1>3, <1>4, i \in 1..Len(p), r \in Nat, t[1].for >= r + Len(p)
    <3> QED BY ONLY <3>2, <3>3, t[1].op = "wait"
  <2> QED BY ONLY <2>1, <2>2, <1>2, j \in 1..Len(w)
<1> QED BY ONLY <1>1, <1>5 DEF After

LEMMA ClimbsPop ==
  ASSUME NEW q \in Seq(Items), q # << >>, NEW x, NEW y, Climbs(q, x, y)
  PROVE  /\ Climbs(Tail(q), IF q[1].op = "add" THEN x + 1 ELSE x, y)
         /\ q[1].op = "clone" => x = q[1].batch
<1>1. PICK t : t = Tail(q)
  OBVIOUS
<1>2. PICK l : l = Len(q)
  OBVIOUS
<1>3. l \in Nat \ {0} /\ Len(t) = l - 1 /\ \A i \in 1..(l - 1) : t[i] = q[i + 1]
  BY ONLY <1>1, <1>2, q \in Seq(Items), q # << >>, TailIs
<1>4. PICK v \in [0..l -> Nat] :
        /\ v[0] = x /\ v[l] = y
        /\ \A k \in 1..l : /\ v[k] = (IF q[k].op = "add" THEN v[k - 1] + 1 ELSE v[k - 1])
                           /\ q[k].op = "clone" => v[k] = q[k].batch
  BY ONLY <1>2, Climbs(q, x, y) DEF Climbs
<1> DEFINE w == [k \in 0..(l - 1) |-> v[k + 1]]
<1>5. w \in [0..Len(t) -> Nat] /\ w[0] = v[1] /\ w[Len(t)] = y
  BY ONLY <1>3, <1>4
<1>6. ASSUME NEW k \in 1..Len(t)
      PROVE  /\ w[k] = (IF t[k].op = "add" THEN w[k - 1] + 1 ELSE w[k - 1])
             /\ t[k].op = "clone" => w[k] = t[k].batch
  <2>1. k + 1 \in 1..l /\ k \in 0..(l - 1) /\ k - 1 \in 0..(l - 1) /\ (k + 1) - 1 = k /\ (k - 1) + 1 = k
    BY ONLY <1>3, k \in 1..Len(t)
  <2>2. w[k] = v[k + 1] /\ w[k - 1] = v[k] /\ t[k] = q[k + 1]
    BY ONLY <2>1, <1>3, k \in 1..Len(t)
  <2> QED BY ONLY <2>1, <2>2, <1>4
<1> HIDE DEF w
<1>7. Climbs(t, v[1], y)
  BY ONLY <1>5, <1>6 DEF Climbs
<1>8. 1 \in 1..l /\ 1 - 1 = 0
  BY ONLY <1>3
<1>9. v[1] = (IF q[1].op = "add" THEN x + 1 ELSE x) /\ (q[1].op = "clone" => v[1] = q[1].batch)
  BY ONLY <1>4, <1>8
<1> QED BY ONLY <1>1, <1>7, <1>9

LEMMA ClimbsEmpty ==
  ASSUME NEW x \in Nat
  PROVE  Climbs(<< >>, x, x)
<1> DEFINE v == [k \in 0..0 |-> x]
<1>1. PICK q : q = << >>
  OBVIOUS
<1>2. Len(q) = 0
  BY <1>1, EmptySeq
<1>3. v \in [0..Len(q) -> Nat] /\ v[0] = x /\ v[Len(q)] = x
  BY <1>2
<1>4. 1..Len(q) = {}
  BY <1>2
<1> HIDE DEF v
<1>5. Climbs(q, x, x)
  BY ONLY <1>3, <1>4 DEF Climbs
<1> QED BY ONLY <1>1, <1>5

\* At most one piece more.
LEMMA ClimbsPush ==
  ASSUME NEW q \in Seq(Items), NEW x, NEW y \in Nat, Climbs(q, x, y),
         NEW t \in Seq(Items), Len(t) <= 1,
         t # << >> /\ t[1].op = "clone" => t[1].batch = y
  PROVE  Climbs(q \o t, x, IF t # << >> /\ t[1].op = "add" THEN y + 1 ELSE y)
<1>1. PICK u : u = q \o t
  OBVIOUS
<1>2. PICK l : l = Len(q)
  OBVIOUS
<1>3. /\ Len(u) = l + Len(t) /\ l \in Nat /\ Len(t) \in Nat
      /\ \A i \in 1..l : u[i] = q[i]
      /\ \A i \in 1..Len(t) : u[l + i] = t[i]
  BY ONLY <1>1, <1>2, q \in Seq(Items), t \in Seq(Items), JoinIs
<1>4. PICK v \in [0..l -> Nat] :
        /\ v[0] = x /\ v[l] = y
        /\ \A k \in 1..l : /\ v[k] = (IF q[k].op = "add" THEN v[k - 1] + 1 ELSE v[k - 1])
                           /\ q[k].op = "clone" => v[k] = q[k].batch
  BY ONLY <1>2, Climbs(q, x, y) DEF Climbs
<1>5. CASE t = << >>
  <2>1. u = q
    BY ONLY <1>1, <1>5, q \in Seq(Items)
  <2> QED BY ONLY <2>1, <1>1, <1>5, Climbs(q, x, y)
<1>6. CASE t # << >>
  <2>1. Len(t) = 1
    <3>1. Len(t) # 0
      BY ONLY <1>6, t \in Seq(Items), EmptySeq
    <3>2. PICK k : k = Len(t)
      OBVIOUS
    <3>3. k \in Nat /\ k # 0 /\ k <= 1
      BY ONLY <3>1, <3>2, t \in Seq(Items), Len(t) <= 1, LenProperties
    <3>4. k = 1
      BY ONLY <3>3
    <3> QED BY ONLY <3>2, <3>4
  <2>2. PICK z : z = IF t[1].op = "add" THEN y + 1 ELSE y
    OBVIOUS
  <2> DEFINE w == [k \in 0..(l + 1) |-> IF k = l + 1 THEN z ELSE v[k]]
  <2>3. z \in Nat
    BY ONLY <2>2, y \in Nat
  <2>4. w \in [0..Len(u) -> Nat] /\ w[0] = x /\ w[Len(u)] = z
    BY ONLY <2>1, <2>3, <1>3, <1>4
  <2>5. ASSUME NEW k \in 1..Len(u)
        PROVE  /\ w[k] = (IF u[k].op = "add" THEN w[k - 1] + 1 ELSE w[k - 1])
               /\ u[k].op = "clone" => w[k] = u[k].batch
    <3>1. CASE k \in 1..l
      <4>1. w[k] = v[k] /\ w[k - 1] = v[k - 1] /\ u[k] = q[k]
        BY ONLY <3>1, <1>3
      <4> QED BY ONLY <4>1, <3>1, <1>4
    <3>2. CASE k = l + 1
      <4>1. w[k] = z /\ w[k - 1] = y /\ u[k] = t[1]
        BY ONLY <3>2, <2>1, <1>3, <1>4
      <4> QED BY ONLY <4>1, <2>2, <1>6, t # << >> /\ t[1].op = "clone" => t[1].batch = y, y \in Nat
    <3> QED BY ONLY <3>1, <3>2, <2>1, <1>3, k \in 1..Len(u)
  <2> HIDE DEF w
  <2>6. Climbs(u, x, z)
    BY ONLY <2>4, <2>5 DEF Climbs
  <2> QED BY ONLY <2>6, <2>2, <1>1, <1>6
<1> QED BY ONLY <1>5, <1>6

---------------------------------------------------------------------------
(* The invariant, one predicate for each stream's queue and one for the     *)
(* tensors of a batch.                                                      *)

\* Where the host is in the step, waiting or not, and the last batches that were built,
\* whose forward pass was enqueued, and whose sampling was.
HostAt == IF host \in {"sync", "clone"} THEN next ELSE host
Built == IF HostAt \in {"begin", "run_sample", "run_forward"} THEN n ELSE n - 1
Forwarded == IF HostAt \in {"begin", "run_sample"} THEN n ELSE n - 1
Drawn  == IF HostAt = "begin" THEN n ELSE n - 1

\* The lengths when all that is enqueued has run.
Reached == IF n = 0 THEN 1 ELSE IF HostAt = "schedule" /\ n > 1 THEN n - 1 ELSE n

HostInv ==
  /\ host \in {"begin", "schedule", "init_new", "run_forward", "run_sample", "sync", "clone"}
  /\ next \in {"begin", "schedule", "init_new", "run_sample"}
  /\ n \in 0..Batches /\ (HostAt # "begin" => n >= 1)
  /\ can_use_placeholder \in BOOLEAN /\ disable_overlap \in BOOLEAN
  /\ can_use_placeholder => n >= 2
  /\ rows \in Seq(Seq(Kinds)) /\ Len(rows) = n
  /\ ran \in [Streams -> Nat]

\* At most one record waits; none where the code takes it for granted.
RecordInv ==
  /\ result_queue = << >> \/ (Drawn >= 1 /\ result_queue = <<[batch |-> Drawn, event |-> Sent("copy")]>>)
  /\ host \in {"sync", "clone"} => result_queue # << >>
  /\ host = "clone" => work["copy"] = << >>
  /\ host = "run_sample" => result_queue = << >>
  /\ host \in {"schedule", "init_new", "run_forward"} /\ ~can_use_placeholder => result_queue = << >>
  /\ host \in {"init_new", "run_forward"} /\ disable_overlap => result_queue = << >>
  /\ work["copy"] # << >> => result_queue # << >>

\* The copy stream holds work of the last batch alone; the buffer has what was copied.
CopyQueue(q, p, r, l, cbuf) ==
  /\ q \in Seq(Items)
  /\ \A i \in 1..Len(q) : /\ q[i].batch = l
                          /\ q[i].op = (IF i = Len(q) THEN "copy" ELSE "wait")
                          /\ q[i].op = "wait" => q[i].on = "forward"
  /\ cbuf = (IF q = << >> THEN l ELSE l - 1)
  /\ After(q, p, r)

\* The forward stream: what it reads was stored, or will be by work in front.
ForwardQueue(q, p, r, f, l, cbuf, st) ==
  /\ q \in Seq(Items)
  /\ \A i \in 1..Len(q) :
       /\ q[i].op \in {"wait", "resolve", "forward", "sample", "store"}
       /\ q[i].batch \in 1..f /\ q[i].batch > cbuf
       /\ q[i].op \in {"sample", "store"} => q[i].batch <= l
       /\ q[i].op = "wait" => q[i].on = "schedule"
       /\ q[i].op = "resolve" => \/ q[i].batch - 1 \in st
                                 \/ HasBefore(q, i, "store", q[i].batch - 1)
  /\ After(q, p, r)
  /\ st \subseteq 1..l
  /\ \A b \in 1..l : b \in st \/ Has(q, "store", b)

\* The schedule stream: nothing of a batch that was sampled; the lengths climb.
ScheduleQueue(q, m, st, x, y) ==
  /\ q \in Seq(Items)
  /\ \A i \in 1..Len(q) : q[i].op \in {"wait", "input", "add", "clone", "params"} /\ q[i].batch \in 1..m
  /\ \A b \in st : Later(q, b)
  /\ Climbs(q, x, y)

\* Tokens sampled by a route of the batch, from its own parameters if "own".
Routed(tokens, kinds, own) == \E seen : tokens = Sampled(kinds, seen) /\ (own => seen = kinds)

\* The tensors d of batch b, with schedule queue s, forward queue f, g batches built,
\* l sampled, and the staging buffers.
Tensors(d, b, s, f, g, l, pin, pin_input, ov, kinds) ==
  /\ d = [seq_lens |-> d.seq_lens, params |-> d.params, input |-> d.input, used |-> d.used,
          tokens |-> d.tokens]
  /\ d.seq_lens \in {0, b} /\ (b <= g => d.seq_lens = b \/ Has(s, "clone", b))
  /\ d.input \in {0, b - 1} /\ (Has(s, "input", b) => pin_input = b - 1)
  /\ \A j \in 1..Len(f) : f[j].op = "forward" /\ f[j].batch = b =>
       d.input = b - 1 \/ Has(s, "input", b) \/ HasBefore(f, j, "resolve", b)
  /\ d.used \in {<< >>, <<b, b - 1>>}
  /\ d.params \in {0, b} \/ (d.params = b + 1 /\ b + 1 \in ov)
  /\ b <= g => d.params # 0 \/ Has(s, "params", b)
  /\ Has(s, "params", b) => pin = b \/ (pin = b + 1 /\ b + 1 \in ov)
  /\ d.tokens = << >> \/ /\ b <= l /\ d.params # 0 /\ ~Has(s, "params", b)
                         /\ Routed(d.tokens, kinds, d.params = b)

TensorInv ==
  /\ dev = [b \in 1..Batches |-> dev[b]]
  /\ \A b \in 1..Batches :
       Tensors(dev[b], b, work["schedule"], work["forward"], Built, Drawn, pinned, pinned_input,
               overlapped, rows[b])
  /\ HostAt \in {"init_new", "run_forward"} /\ ~can_use_placeholder /\ n > 1 =>
       dev[n].input = n - 1 \/ Has(work["schedule"], "input", n)
  /\ results \in [1..Batches -> Nat] /\ \A b \in 1..Batches : results[b] \in {0, b}

QueueInv ==
  /\ DOMAIN work = Streams
  /\ CopyQueue(work["copy"], work["forward"], ran["forward"], Drawn, cpu_buf)
  /\ ForwardQueue(work["forward"], work["schedule"], ran["schedule"], Forwarded, Drawn,
                  cpu_buf, stored)
  /\ ScheduleQueue(work["schedule"], n, stored, seq_lens, Reached)

StreamsInv == HostInv /\ RecordInv /\ QueueInv /\ TensorInv

LEMMA HasBeforeJoin ==
  ASSUME NEW q \in Seq(Items), NEW t \in Seq(Items), NEW j \in 1..Len(q), NEW o, NEW b
  PROVE  HasBefore(q \o t, j, o, b) <=> HasBefore(q, j, o, b)
<1>1. PICK w : w = q \o t
  OBVIOUS
<1>2. Len(q) \in Nat /\ \A i \in 1..Len(q) : w[i] = q[i]
  BY ONLY <1>1, q \in Seq(Items), t \in Seq(Items), JoinIs
<1>3. \A h \in 1..(j - 1) : w[h] = q[h]
  BY ONLY <1>2, j \in 1..Len(q)
<1> QED BY ONLY <1>1, <1>3 DEF HasBefore

LEMMA HasBeforePop ==
  ASSUME NEW q \in Seq(Items), q # << >>, NEW i \in 1..(Len(q) - 1), NEW o, NEW b,
         HasBefore(q, i + 1, o, b)
  PROVE  HasBefore(Tail(q), i, o, b) \/ (q[1].op = o /\ q[1].batch = b)
<1>1. PICK t : t = Tail(q)
  OBVIOUS
<1>2. Len(q) \in Nat \ {0} /\ \A k \in 1..(Len(q) - 1) : t[k] = q[k + 1]
  BY ONLY <1>1, q \in Seq(Items), q # << >>, TailIs
<1>3. PICK h \in 1..(i + 1 - 1) : q[h].op = o /\ q[h].batch = b
  BY ONLY HasBefore(q, i + 1, o, b) DEF HasBefore
<1>4. CASE h = 1
  BY ONLY <1>3, <1>4
<1>5. CASE h # 1
  <2>1. h - 1 \in 1..(i - 1) /\ h - 1 \in 1..(Len(q) - 1) /\ (h - 1) + 1 = h
    BY ONLY <1>2, <1>5, h \in 1..(i + 1 - 1), i \in 1..(Len(q) - 1)
  <2>2. t[h - 1] = q[h]
    BY ONLY <2>1, <1>2
  <2> QED BY ONLY <2>1, <2>2, <1>3, <1>1 DEF HasBefore
<1> QED BY ONLY <1>4, <1>5

\* The fields of a piece of work.
LEMMA Piece ==
  ASSUME NEW q \in Seq(Items), NEW i \in 1..Len(q)
  PROVE  q[i] \in Items /\ q[i].op \in Ops /\ q[i].for \in Nat /\ q[i].batch \in Nat
<1>1. q[i] \in Items
  OBVIOUS
<1> QED BY ONLY <1>1 DEF Items

---------------------------------------------------------------------------
(* What enqueueing and running do to each queue's predicate.                *)

LEMMA CopyQueueMore ==
  ASSUME NEW q, NEW p \in Seq(Items), NEW t \in Seq(Items), NEW r, NEW l \in Nat, NEW cbuf,
         CopyQueue(q, p, r, l, cbuf), Later(t, l)
  PROVE  CopyQueue(q, p \o t, r, l, cbuf)
<1>1. q \in Seq(Items) /\ After(q, p, r) /\ Earlier(q, l)
  BY ONLY CopyQueue(q, p, r, l, cbuf), l \in Nat DEF CopyQueue, Earlier
<1>2. After(q, p \o t, r)
  BY ONLY <1>1, AfterMore, p \in Seq(Items), t \in Seq(Items), l \in Nat, Later(t, l)
<1> QED BY ONLY <1>2, CopyQueue(q, p, r, l, cbuf) DEF CopyQueue

LEMMA ForwardQueueMore ==
  ASSUME NEW q, NEW p \in Seq(Items), NEW t \in Seq(Items), NEW r, NEW f \in Nat, NEW l, NEW cbuf,
         NEW st, ForwardQueue(q, p, r, f, l, cbuf, st), Later(t, f)
  PROVE  ForwardQueue(q, p \o t, r, f, l, cbuf, st)
<1>1. q \in Seq(Items) /\ After(q, p, r) /\ Earlier(q, f)
  BY ONLY ForwardQueue(q, p, r, f, l, cbuf, st), f \in Nat DEF ForwardQueue, Earlier
<1>2. After(q, p \o t, r)
  BY ONLY <1>1, AfterMore, p \in Seq(Items), t \in Seq(Items), f \in Nat, Later(t, f)
<1> QED BY ONLY <1>2, ForwardQueue(q, p, r, f, l, cbuf, st) DEF ForwardQueue

\* The work of a batch's forward pass, or of its sampling.
Behind(t, m, k, l, cbuf, sent) ==
  /\ t \in Seq(Items) /\ t # << >> /\ t[1].op = "wait" /\ t[1].for >= sent /\ m > cbuf
  /\ \A i \in 1..Len(t) : /\ t[i].op \in {"wait", "resolve", "forward", "sample", "store"}
                          /\ t[i].batch = m
                          /\ t[i].op = "wait" => t[i].on = "schedule"
                          /\ t[i].op \in {"sample", "store"} => m <= k
                          /\ t[i].op = "resolve" => m - 1 \in 1..l
  /\ \A b \in 1..k : b \in 1..l \/ Has(t, "store", b)

LEMMA ForwardQueuePush ==
  ASSUME NEW q, NEW p \in Seq(Items), NEW t, NEW r \in Nat, NEW f \in Nat, NEW l \in Nat,
         NEW k \in Nat, NEW m \in Nat \ {0}, NEW cbuf, NEW st, f <= m, l <= k,
         ForwardQueue(q, p, r, f, l, cbuf, st), Behind(t, m, k, l, cbuf, r + Len(p))
  PROVE  ForwardQueue(q \o t, p, r, m, k, cbuf, st)
<1>0. q \in Seq(Items) /\ t \in Seq(Items)
  BY ONLY ForwardQueue(q, p, r, f, l, cbuf, st), Behind(t, m, k, l, cbuf, r + Len(p)) DEF ForwardQueue, Behind
<1>1. PICK w : w = q \o t
  OBVIOUS
<1>2. /\ w \in Seq(Items) /\ Len(w) = Len(q) + Len(t) /\ Len(q) \in Nat /\ Len(t) \in Nat
      /\ \A i \in 1..Len(q) : w[i] = q[i]
      /\ \A i \in 1..Len(w) : i \in 1..Len(q) \/ (i - Len(q) \in 1..Len(t) /\ w[i] = t[i - Len(q)])
  BY ONLY <1>0, <1>1, JoinIs
<1>3. After(w, p, r)
  BY ONLY <1>0, <1>1, AfterWait, p \in Seq(Items), r \in Nat, ForwardQueue(q, p, r, f, l, cbuf, st),
     Behind(t, m, k, l, cbuf, r + Len(p)) DEF ForwardQueue, Behind
<1>4. ASSUME NEW i \in 1..Len(w)
      PROVE  /\ w[i].op \in {"wait", "resolve", "forward", "sample", "store"}
             /\ w[i].batch \in 1..m /\ w[i].batch > cbuf
             /\ w[i].op \in {"sample", "store"} => w[i].batch <= k
             /\ w[i].op = "wait" => w[i].on = "schedule"
             /\ w[i].op = "resolve" => \/ w[i].batch - 1 \in st
                                       \/ HasBefore(w, i, "store", w[i].batch - 1)
  <2>1. CASE i \in 1..Len(q)
    <3>1. /\ q[i].op \in {"wait", "resolve", "forward", "sample", "store"}
          /\ q[i].batch \in 1..f /\ q[i].batch > cbuf
          /\ q[i].op \in {"sample", "store"} => q[i].batch <= l
          /\ q[i].op = "wait" => q[i].on = "schedule"
          /\ q[i].op = "resolve" => q[i].batch - 1 \in st \/ HasBefore(q, i, "store", q[i].batch - 1)
      BY ONLY <2>1, ForwardQueue(q, p, r, f, l, cbuf, st) DEF ForwardQueue
    <3>2. HasBefore(q, i, "store", q[i].batch - 1) => HasBefore(w, i, "store", q[i].batch - 1)
      BY ONLY <2>1, <1>0, <1>1, HasBeforeJoin
    <3>3. w[i] = q[i]
      BY ONLY <2>1, <1>2
    <3>4. q[i].batch \in 1..m
      BY ONLY <3>1, f \in Nat, m \in Nat \ {0}, f <= m
    <3>5. q[i].op \in {"sample", "store"} => q[i].batch <= k
      BY ONLY <3>1, <3>4, l \in Nat, k \in Nat, l <= k
    <3> QED BY ONLY <3>1, <3>2, <3>3, <3>4, <3>5
  <2>2. CASE i - Len(q) \in 1..Len(t) /\ w[i] = t[i - Len(q)]
    <3>1. /\ w[i].op \in {"wait", "resolve", "forward", "sample", "store"}
          /\ w[i].batch = m /\ m > cbuf
          /\ w[i].op = "wait" => w[i].on = "schedule"
          /\ w[i].op \in {"sample", "store"} => m <= k
          /\ w[i].op = "resolve" => m - 1 \in 1..l
      BY ONLY <2>2, Behind(t, m, k, l, cbuf, r + Len(p)) DEF Behind
    <3>2. ASSUME w[i].op = "resolve"
          PROVE  m - 1 \in st \/ HasBefore(w, i, "store", m - 1)
      <4>1. m - 1 \in st \/ Has(q, "store", m - 1)
        BY ONLY <3>1, <3>2, ForwardQueue(q, p, r, f, l, cbuf, st) DEF ForwardQueue
      <4>2. ASSUME NEW h \in 1..Len(q) PROVE h \in 1..(i - 1) /\ w[h] = q[h]
        BY ONLY <2>2, <1>2, i \in 1..Len(w), h \in 1..Len(q)
      <4> QED BY ONLY <4>1, <4>2 DEF Has, HasBefore
    <3>3. m \in 1..m
      BY ONLY m \in Nat \ {0}
    <3> QED BY ONLY <3>1, <3>2, <3>3
  <2> QED BY ONLY <2>1, <2>2, <1>2, i \in 1..Len(w)
<1>5. st \subseteq 1..k
  BY ONLY ForwardQueue(q, p, r, f, l, cbuf, st), l \in Nat, k \in Nat, l <= k DEF ForwardQueue
<1>6. ASSUME NEW b \in 1..k PROVE b \in st \/ Has(w, "store", b)
  <2>1. b \in st \/ Has(q, "store", b) \/ Has(t, "store", b)
    BY ONLY b \in 1..k, ForwardQueue(q, p, r, f, l, cbuf, st), Behind(t, m, k, l, cbuf, r + Len(p))
       DEF ForwardQueue, Behind
  <2> QED BY ONLY <2>1, <1>0, <1>1, HasJoin
<1> QED BY ONLY <1>1, <1>2, <1>3, <1>4, <1>5, <1>6 DEF ForwardQueue

LEMMA CopyQueuePush ==
  ASSUME NEW p \in Seq(Items), NEW t \in Seq(Items), NEW r \in Nat, NEW m \in Nat, NEW l,
         NEW cbuf, CopyQueue(<< >>, p, r, m - 1, cbuf), NEW x \in Items, NEW y \in Items,
         x.op = "wait", x.on = "forward", x.batch = m, x.for >= r + Len(p),
         y.op = "copy", y.batch = m
  PROVE  CopyQueue(<< >> \o <<x, y>>, p, r, m, cbuf)
<1>1. PICK q : q = <<x, y>>
  OBVIOUS
<1>2. q \in Seq(Items) /\ Len(q) = 2 /\ q[1] = x /\ q[2] = y /\ << >> \o q = q /\ q # << >>
  BY ONLY <1>1, x \in Items, y \in Items
<1>3. << >> \in Seq(Items) /\ After(<< >>, p, r) /\ cbuf = m - 1
  BY ONLY CopyQueue(<< >>, p, r, m - 1, cbuf) DEF CopyQueue
<1>4. After(<< >> \o q, p, r)
  BY ONLY <1>2, <1>3, AfterWait, p \in Seq(Items), r \in Nat, x.op = "wait", x.for >= r + Len(p)
<1>5. After(q, p, r)
  BY ONLY <1>2, <1>4
<1>6. \A i \in 1..Len(q) : i = 1 \/ i = 2
  BY ONLY <1>2
<1>7. CopyQueue(q, p, r, m, cbuf)
  BY ONLY <1>2, <1>3, <1>5, <1>6, x.op = "wait", x.on = "forward", x.batch = m, y.op = "copy",
     y.batch = m DEF CopyQueue
<1> QED BY ONLY <1>1, <1>2, <1>7

LEMMA ScheduleQueuePush ==
  ASSUME NEW q, NEW t \in Seq(Items), NEW m \in Nat \ {0}, NEW k \in Nat, NEW l \in Nat,
         NEW st \in SUBSET (1..l), NEW x, NEW y, NEW z, k <= m, l < m,
         ScheduleQueue(q, k, st, x, y),
         \A i \in 1..Len(t) : /\ t[i].op \in {"wait", "input", "add", "clone", "params"}
                              /\ t[i].batch = m,
         Climbs(q \o t, x, z)
  PROVE  ScheduleQueue(q \o t, m, st, x, z)
<1>0. q \in Seq(Items)
  BY ONLY ScheduleQueue(q, k, st, x, y) DEF ScheduleQueue
<1>1. PICK w : w = q \o t
  OBVIOUS
<1>2. /\ w \in Seq(Items) /\ Len(w) = Len(q) + Len(t) /\ Len(q) \in Nat /\ Len(t) \in Nat
      /\ \A i \in 1..Len(q) : w[i] = q[i]
      /\ \A i \in 1..Len(w) : i \in 1..Len(q) \/ (i - Len(q) \in 1..Len(t) /\ w[i] = t[i - Len(q)])
  BY ONLY <1>0, <1>1, JoinIs, t \in Seq(Items)
<1>3. ASSUME NEW i \in 1..Len(w)
      PROVE  w[i].op \in {"wait", "input", "add", "clone", "params"} /\ w[i].batch \in 1..m
  <2>1. CASE i \in 1..Len(q)
    <3>1. q[i].op \in {"wait", "input", "add", "clone", "params"} /\ q[i].batch \in 1..k
      BY ONLY <2>1, ScheduleQueue(q, k, st, x, y) DEF ScheduleQueue
    <3>2. q[i].batch \in 1..m
      BY ONLY <3>1, k \in Nat, m \in Nat \ {0}, k <= m
    <3> QED BY ONLY <3>1, <3>2, <2>1, <1>2
  <2>2. CASE i - Len(q) \in 1..Len(t) /\ w[i] = t[i - Len(q)]
    <3>1. m \in 1..m
      BY ONLY m \in Nat \ {0}
    <3> QED BY ONLY <3>1, <2>2,
          \A j \in 1..Len(t) : t[j].op \in {"wait", "input", "add", "clone", "params"} /\ t[j].batch = m
  <2> QED BY ONLY <2>1, <2>2, <1>2, i \in 1..Len(w)
<1>4. ASSUME NEW b \in st PROVE Later(w, b)
  <2>1. Later(q, b)
    BY ONLY b \in st, ScheduleQueue(q, k, st, x, y) DEF ScheduleQueue
  <2>2. m > b
    BY ONLY b \in st, st \in SUBSET (1..l), l \in Nat, l < m, m \in Nat \ {0}
  <2>3. Later(t, b)
    BY ONLY <2>2, \A j \in 1..Len(t) : t[j].batch = m DEF Later
  <2> QED BY ONLY <2>1, <2>3, <1>0, <1>1, BoundsJoin, t \in Seq(Items)
<1> QED BY ONLY <1>1, <1>2, <1>3, <1>4, Climbs(q \o t, x, z) DEF ScheduleQueue

LEMMA CopyQueuePop ==
  ASSUME NEW q, q # << >>, NEW p, NEW s, NEW r \in Nat, NEW rs, NEW f, NEW l \in Nat, NEW cbuf, NEW st,
         CopyQueue(q, p, r, l, cbuf), ForwardQueue(p, s, rs, f, l, cbuf, st),
         q[1].op = "wait" => r >= q[1].for, NEW new,
         new = (IF q[1].op = "copy" THEN q[1].batch ELSE cbuf)
  PROVE  CopyQueue(Tail(q), p, r, l, new) /\ ForwardQueue(p, s, rs, f, l, new, st)
<1>0. q \in Seq(Items) /\ p \in Seq(Items) /\ After(q, p, r)
  BY ONLY CopyQueue(q, p, r, l, cbuf), ForwardQueue(p, s, rs, f, l, cbuf, st) DEF CopyQueue, ForwardQueue
<1>1. PICK t : t = Tail(q)
  OBVIOUS
<1>2. /\ t \in Seq(Items) /\ Len(q) \in Nat \ {0} /\ Len(t) = Len(q) - 1
      /\ \A i \in 1..(Len(q) - 1) : t[i] = q[i + 1] /\ i + 1 \in 1..Len(q)
  BY ONLY <1>0, <1>1, q # << >>, TailIs
<1>3. /\ \A i \in 1..Len(q) : /\ q[i].batch = l
                              /\ q[i].op = (IF i = Len(q) THEN "copy" ELSE "wait")
                              /\ q[i].op = "wait" => q[i].on = "forward"
      /\ cbuf = l - 1
  BY ONLY CopyQueue(q, p, r, l, cbuf), q # << >> DEF CopyQueue
<1>4. 1 \in 1..Len(q)
  BY ONLY <1>2
<1>5. After(t, p, r)
  BY ONLY <1>0, <1>1, AfterPop, r \in Nat, q # << >>, q[1].op = "wait" => r >= q[1].for
<1>6. ASSUME NEW i \in 1..Len(t)
      PROVE  /\ t[i].batch = l /\ t[i].op = (IF i = Len(t) THEN "copy" ELSE "wait")
             /\ t[i].op = "wait" => t[i].on = "forward"
  <2>1. t[i] = q[i + 1] /\ i + 1 \in 1..Len(q) /\ (i = Len(t) <=> i + 1 = Len(q))
    BY ONLY <1>2, i \in 1..Len(t)
  <2> QED BY ONLY <2>1, <1>3
<1>7. CASE q[1].op = "copy"
  <2>1. Len(t) = 0
    BY ONLY <1>2, <1>3, <1>4, <1>7
  <2>2. t = << >>
    BY ONLY <2>1, <1>2, EmptySeq
  <2>3. new = l
    BY ONLY <1>3, <1>4, <1>7, new = (IF q[1].op = "copy" THEN q[1].batch ELSE cbuf)
  <2>4. Later(p, l)
    <3>1. Later(p, q[1].batch)
      BY ONLY <1>0, <1>7, AfterHead, q # << >>, "copy" # "wait"
    <3> QED BY ONLY <3>1, <1>3, <1>4
  <2>5. \A i \in 1..Len(p) : p[i].batch > l
    BY ONLY <2>4 DEF Later
  <2>6. ForwardQueue(p, s, rs, f, l, l, st)
    BY ONLY <2>5, ForwardQueue(p, s, rs, f, l, cbuf, st) DEF ForwardQueue
  <2>7. CopyQueue(t, p, r, l, l)
    BY ONLY <1>2, <1>5, <1>6, <2>2 DEF CopyQueue
  <2> QED BY ONLY <1>1, <2>3, <2>6, <2>7
<1>8. CASE q[1].op # "copy"
  <2>1. Len(t) # 0
    BY ONLY <1>2, <1>3, <1>4, <1>8
  <2>2. t # << >>
    BY ONLY <2>1, EmptySeq
  <2>3. new = cbuf
    BY ONLY <1>8, new = (IF q[1].op = "copy" THEN q[1].batch ELSE cbuf)
  <2>4. CopyQueue(t, p, r, l, cbuf)
    BY ONLY <1>2, <1>3, <1>5, <1>6, <2>2 DEF CopyQueue
  <2> QED BY ONLY <2>3, <2>4, <1>1, ForwardQueue(p, s, rs, f, l, cbuf, st)
<1> QED BY ONLY <1>7, <1>8

\* The three queues before the front of the forward stream runs, and after.
ForwardReady(q, p, c, r, rq, f, l, cbuf, st, m, x, y) ==
  /\ ForwardQueue(q, p, r, f, l, cbuf, st) /\ CopyQueue(c, q, rq, l, cbuf) /\ ScheduleQueue(p, m, st, x, y)

LEMMA ForwardQueuePop ==
  ASSUME NEW q, q # << >>, NEW p, NEW c, NEW r \in Nat, NEW rq \in Nat, NEW f \in Nat, NEW l \in Nat,
         NEW cbuf, NEW st, NEW m, NEW x, NEW y,
         ForwardReady(q, p, c, r, rq, f, l, cbuf, st, m, x, y),
         q[1].op = "wait" => r >= q[1].for, NEW new,
         new = (IF q[1].op = "store" THEN st \cup {q[1].batch} ELSE st)
  PROVE  /\ ForwardReady(Tail(q), p, c, r, rq + 1, f, l, cbuf, new, m, x, y)
         /\ q[1].batch \in 1..f
         /\ q[1].op \in {"sample", "store"} => q[1].batch <= l
         /\ q[1].op # "wait" => Later(p, q[1].batch)
         /\ q[1].op = "resolve" => q[1].batch - 1 \in st
<1>a. /\ ForwardQueue(q, p, r, f, l, cbuf, st) /\ CopyQueue(c, q, rq, l, cbuf)
      /\ ScheduleQueue(p, m, st, x, y)
  BY ONLY ForwardReady(q, p, c, r, rq, f, l, cbuf, st, m, x, y) DEF ForwardReady
<1>0. q \in Seq(Items) /\ p \in Seq(Items) /\ c \in Seq(Items) /\ After(q, p, r) /\ After(c, q, rq)
  BY ONLY <1>a DEF ForwardQueue, CopyQueue, ScheduleQueue
<1>1. PICK t : t = Tail(q)
  OBVIOUS
<1>2. /\ t \in Seq(Items) /\ Len(q) \in Nat \ {0} /\ Len(t) = Len(q) - 1
      /\ \A i \in 1..(Len(q) - 1) : t[i] = q[i + 1] /\ i + 1 \in 1..Len(q)
  BY ONLY <1>0, <1>1, q # << >>, TailIs
<1>3. \A i \in 1..Len(q) :
       /\ q[i].op \in {"wait", "resolve", "forward", "sample", "store"}
       /\ q[i].batch \in 1..f /\ q[i].batch > cbuf
       /\ q[i].op \in {"sample", "store"} => q[i].batch <= l
       /\ q[i].op = "wait" => q[i].on = "schedule"
       /\ q[i].op = "resolve" => q[i].batch - 1 \in st \/ HasBefore(q, i, "store", q[i].batch - 1)
  BY ONLY <1>a DEF ForwardQueue
<1>4. 1 \in 1..Len(q)
  BY ONLY <1>2
<1>5. After(t, p, r) /\ After(c, t, rq + 1)
  BY ONLY <1>0, <1>1, AfterPop, AfterRun, r \in Nat, rq \in Nat, q # << >>, q[1].op = "wait" => r >= q[1].for
<1>6. q[1].op # "wait" => Later(p, q[1].batch)
  BY ONLY <1>0, AfterHead, q # << >>
<1>7. q[1].op = "resolve" => q[1].batch - 1 \in st
  <2>1. ~HasBefore(q, 1, "store", q[1].batch - 1)
    BY ONLY TRUE DEF HasBefore
  <2> QED BY ONLY <2>1, <1>3, <1>4
<1>8. st \subseteq new
  BY ONLY new = (IF q[1].op = "store" THEN st \cup {q[1].batch} ELSE st)
<1>9. ASSUME NEW i \in 1..Len(t)
      PROVE  /\ t[i].op \in {"wait", "resolve", "forward", "sample", "store"}
             /\ t[i].batch \in 1..f /\ t[i].batch > cbuf
             /\ t[i].op \in {"sample", "store"} => t[i].batch <= l
             /\ t[i].op = "wait" => t[i].on = "schedule"
             /\ t[i].op = "resolve" => t[i].batch - 1 \in new \/ HasBefore(t, i, "store", t[i].batch - 1)
  <2>1. t[i] = q[i + 1] /\ i + 1 \in 1..Len(q) /\ i \in 1..(Len(q) - 1)
    BY ONLY <1>2, i \in 1..Len(t)
  <2>2. ASSUME t[i].op = "resolve" PROVE t[i].batch - 1 \in new \/ HasBefore(t, i, "store", t[i].batch - 1)
    <3>1. PICK b : b = t[i].batch - 1
      OBVIOUS
    <3>2. b \in st \/ HasBefore(q, i + 1, "store", b)
      BY ONLY <3>1, <2>1, <2>2, <1>3
    <3>3. HasBefore(q, i + 1, "store", b) =>
            HasBefore(t, i, "store", b) \/ (q[1].op = "store" /\ q[1].batch = b)
      BY ONLY <2>1, <1>0, <1>1, q # << >>, HasBeforePop
    <3> QED BY ONLY <3>1, <3>2, <3>3, <1>8, new = (IF q[1].op = "store" THEN st \cup {q[1].batch} ELSE st)
  <2> QED BY ONLY <2>1, <2>2, <1>3
<1>10. new \subseteq 1..l
  <2>1. st \subseteq 1..l
    BY ONLY <1>a DEF ForwardQueue
  <2>2. q[1].op = "store" => q[1].batch \in 1..l
    BY ONLY <1>3, <1>4, f \in Nat, l \in Nat
  <2> QED BY ONLY <2>1, <2>2, new = (IF q[1].op = "store" THEN st \cup {q[1].batch} ELSE st)
<1>11. ASSUME NEW b \in 1..l PROVE b \in new \/ Has(t, "store", b)
  <2>1. b \in st \/ Has(q, "store", b)
    BY ONLY b \in 1..l, <1>a DEF ForwardQueue
  <2>2. Has(q, "store", b) => Has(t, "store", b) \/ (q[1].op = "store" /\ q[1].batch = b)
    BY ONLY <1>0, <1>1, q # << >>, HasPop
  <2> QED BY ONLY <2>1, <2>2, <1>8, new = (IF q[1].op = "store" THEN st \cup {q[1].batch} ELSE st)
<1>12. ForwardQueue(t, p, r, f, l, cbuf, new)
  BY ONLY <1>2, <1>5, <1>9, <1>10, <1>11 DEF ForwardQueue
<1>13. CopyQueue(c, t, rq + 1, l, cbuf)
  BY ONLY <1>5, <1>a DEF CopyQueue
<1>14. \A b \in new : Later(p, b)
  <2>1. \A b \in st : Later(p, b)
    BY ONLY <1>a DEF ScheduleQueue
  <2> QED BY ONLY <2>1, <1>6, new = (IF q[1].op = "store" THEN st \cup {q[1].batch} ELSE st)
<1>15. ScheduleQueue(p, m, new, x, y)
  BY ONLY <1>14, <1>a DEF ScheduleQueue
<1>16. ForwardReady(t, p, c, r, rq + 1, f, l, cbuf, new, m, x, y)
  BY ONLY <1>12, <1>13, <1>15 DEF ForwardReady
<1> QED BY ONLY <1>1, <1>3, <1>4, <1>6, <1>7, <1>16

LEMMA ScheduleQueuePop ==
  ASSUME NEW q, q # << >>, NEW w, NEW r \in Nat, NEW f, NEW l, NEW cbuf, NEW st, NEW m, NEW x, NEW y,
         ScheduleQueue(q, m, st, x, y), ForwardQueue(w, q, r, f, l, cbuf, st), NEW z,
         z = (IF q[1].op = "add" THEN x + 1 ELSE x)
  PROVE  /\ ScheduleQueue(Tail(q), m, st, z, y) /\ ForwardQueue(w, Tail(q), r + 1, f, l, cbuf, st)
         /\ q[1].op \in {"wait", "input", "add", "clone", "params"} /\ q[1].batch \in 1..m
         /\ q[1].op = "clone" => x = q[1].batch
<1>0. q \in Seq(Items) /\ w \in Seq(Items) /\ After(w, q, r) /\ Climbs(q, x, y)
  BY ONLY ForwardQueue(w, q, r, f, l, cbuf, st), ScheduleQueue(q, m, st, x, y) DEF ForwardQueue, ScheduleQueue
<1>1. PICK t : t = Tail(q)
  OBVIOUS
<1>2. /\ t \in Seq(Items) /\ Len(q) \in Nat \ {0} /\ Len(t) = Len(q) - 1
      /\ \A i \in 1..(Len(q) - 1) : t[i] = q[i + 1] /\ i + 1 \in 1..Len(q)
  BY ONLY <1>0, <1>1, q # << >>, TailIs
<1>3. \A i \in 1..Len(q) : q[i].op \in {"wait", "input", "add", "clone", "params"} /\ q[i].batch \in 1..m
  BY ONLY ScheduleQueue(q, m, st, x, y) DEF ScheduleQueue
<1>4. 1 \in 1..Len(q)
  BY ONLY <1>2
<1>5. After(w, t, r + 1)
  BY ONLY <1>0, <1>1, q # << >>, r \in Nat, AfterRun
<1>6. Climbs(t, z, y) /\ (q[1].op = "clone" => x = q[1].batch)
  BY ONLY <1>0, <1>1, q # << >>, ClimbsPop, z = (IF q[1].op = "add" THEN x + 1 ELSE x)
<1>7. ASSUME NEW b \in st PROVE Later(t, b)
  <2>1. Later(q, b)
    BY ONLY b \in st, ScheduleQueue(q, m, st, x, y) DEF ScheduleQueue
  <2> QED BY ONLY <2>1, <1>0, <1>1, q # << >>, BoundsPop
<1>8. \A i \in 1..Len(t) : t[i].op \in {"wait", "input", "add", "clone", "params"} /\ t[i].batch \in 1..m
  BY ONLY <1>2, <1>3
<1>9. ScheduleQueue(t, m, st, z, y)
  BY ONLY <1>2, <1>6, <1>7, <1>8 DEF ScheduleQueue
<1>10. ForwardQueue(w, t, r + 1, f, l, cbuf, st)
  BY ONLY <1>5, ForwardQueue(w, q, r, f, l, cbuf, st) DEF ForwardQueue
<1> QED BY ONLY <1>1, <1>3, <1>4, <1>6, <1>9, <1>10

---------------------------------------------------------------------------
(* What enqueueing and running do to the tensors of a batch.                *)

LEMMA TensorsScheduled ==
  ASSUME NEW d, NEW b, NEW s \in Seq(Items), NEW t \in Seq(Items), NEW f, NEW g, NEW l, NEW pin, NEW pi,
         NEW ov, NEW kinds, NEW g2, NEW pin2, NEW pi2, NEW ov2,
         Tensors(d, b, s, f, g, l, pin, pi, ov, kinds), ov \subseteq ov2,
         b <= g2 => b <= g \/ (Has(t, "clone", b) /\ Has(t, "params", b)),
         Has(s \o t, "input", b) => pi2 = b - 1,
         Has(s \o t, "params", b) => pin2 = b \/ (pin2 = b + 1 /\ b + 1 \in ov2),
         b <= l => ~Has(t, "params", b)
  PROVE  Tensors(d, b, s \o t, f, g2, l, pin2, pi2, ov2, kinds)
<1>1. PICK w : w = s \o t
  OBVIOUS
<1>2. \A o : Has(w, o, b) <=> Has(s, o, b) \/ Has(t, o, b)
  BY ONLY <1>1, HasJoin, s \in Seq(Items), t \in Seq(Items)
<1> HIDE <1>1
<1>3. Has(w, "input", b) => pi2 = b - 1
  BY <1>1
<1>4. Has(w, "params", b) => pin2 = b \/ (pin2 = b + 1 /\ b + 1 \in ov2)
  BY <1>1
<1>5. Tensors(d, b, w, f, g2, l, pin2, pi2, ov2, kinds)
  <2>1. d.params \in {0, b} \/ (d.params = b + 1 /\ b + 1 \in ov2)
    BY ONLY Tensors(d, b, s, f, g, l, pin, pi, ov, kinds), ov \subseteq ov2 DEF Tensors
  <2>2. b <= g2 => (d.seq_lens = b \/ Has(w, "clone", b)) /\ (d.params # 0 \/ Has(w, "params", b))
    BY ONLY Tensors(d, b, s, f, g, l, pin, pi, ov, kinds), <1>2,
       b <= g2 => b <= g \/ (Has(t, "clone", b) /\ Has(t, "params", b)) DEF Tensors
  <2>3. \A j \in 1..Len(f) : f[j].op = "forward" /\ f[j].batch = b =>
           d.input = b - 1 \/ Has(w, "input", b) \/ HasBefore(f, j, "resolve", b)
    BY ONLY Tensors(d, b, s, f, g, l, pin, pi, ov, kinds), <1>2 DEF Tensors
  <2>4. d.tokens = << >> \/ /\ b <= l /\ d.params # 0 /\ ~Has(w, "params", b)
                            /\ Routed(d.tokens, kinds, d.params = b)
    BY ONLY Tensors(d, b, s, f, g, l, pin, pi, ov, kinds), <1>2, b <= l => ~Has(t, "params", b) DEF Tensors
  <2> QED BY ONLY <2>1, <2>2, <2>3, <2>4, <1>3, <1>4, Tensors(d, b, s, f, g, l, pin, pi, ov, kinds)
          DEF Tensors
<1> QED BY <1>1, <1>5

LEMMA TensorsForwarded ==
  ASSUME NEW d, NEW b, NEW s, NEW t \in Seq(Items), NEW f \in Seq(Items), NEW g, NEW l, NEW pin, NEW pi,
         NEW ov, NEW kinds, NEW l2,
         Tensors(d, b, s, f, g, l, pin, pi, ov, kinds), b <= l => b <= l2,
         \A j \in 1..Len(t) : t[j].op = "forward" /\ t[j].batch = b =>
           d.input = b - 1 \/ Has(s, "input", b) \/ \E h \in 1..(j - 1) : t[h].op = "resolve" /\ t[h].batch = b
  PROVE  Tensors(d, b, s, f \o t, g, l2, pin, pi, ov, kinds)
<1>1. PICK w : w = f \o t
  OBVIOUS
<1>2. /\ w \in Seq(Items) /\ Len(w) = Len(f) + Len(t) /\ Len(f) \in Nat /\ Len(t) \in Nat
      /\ \A i \in 1..Len(f) : w[i] = f[i]
      /\ \A i \in 1..Len(t) : w[Len(f) + i] = t[i]
      /\ \A i \in 1..Len(w) : i \in 1..Len(f) \/ (i - Len(f) \in 1..Len(t) /\ w[i] = t[i - Len(f)])
  BY ONLY <1>1, JoinIs, f \in Seq(Items), t \in Seq(Items)
<1>3. ASSUME NEW i \in 1..Len(w), w[i].op = "forward", w[i].batch = b
      PROVE  d.input = b - 1 \/ Has(s, "input", b) \/ HasBefore(w, i, "resolve", b)
  <2>1. CASE i \in 1..Len(f)
    <3>1. d.input = b - 1 \/ Has(s, "input", b) \/ HasBefore(f, i, "resolve", b)
      BY ONLY <2>1, <1>2, <1>3, Tensors(d, b, s, f, g, l, pin, pi, ov, kinds) DEF Tensors
    <3>2. HasBefore(f, i, "resolve", b) => HasBefore(w, i, "resolve", b)
      BY ONLY <2>1, <1>1, f \in Seq(Items), t \in Seq(Items), HasBeforeJoin
    <3> QED BY ONLY <3>1, <3>2
  <2>2. CASE i - Len(f) \in 1..Len(t) /\ w[i] = t[i - Len(f)]
    <3>1. PICK j : j = i - Len(f)
      OBVIOUS
    <3>2. j \in 1..Len(t) /\ t[j].op = "forward" /\ t[j].batch = b
      BY ONLY <3>1, <2>2, <1>3
    <3>3. d.input = b - 1 \/ Has(s, "input", b) \/ \E h \in 1..(j - 1) : t[h].op = "resolve" /\ t[h].batch = b
      BY ONLY <3>2, \A k \in 1..Len(t) : t[k].op = "forward" /\ t[k].batch = b =>
           d.input = b - 1 \/ Has(s, "input", b) \/ \E h \in 1..(k - 1) : t[h].op = "resolve" /\ t[h].batch = b
    <3>4. ASSUME NEW h \in 1..(j - 1), t[h].op = "resolve", t[h].batch = b PROVE HasBefore(w, i, "resolve", b)
      <4>1. Len(f) + h \in 1..(i - 1) /\ h \in 1..Len(t)
        BY ONLY <3>1, <3>2, <1>2, h \in 1..(j - 1), i \in 1..Len(w)
      <4>2. w[Len(f) + h] = t[h]
        BY ONLY <4>1, <1>2
      <4> QED BY ONLY <4>1, <4>2, <3>4 DEF HasBefore
    <3> QED BY ONLY <3>3, <3>4
  <2> QED BY ONLY <2>1, <2>2, <1>2, i \in 1..Len(w)
<1>4. d.tokens = << >> \/ /\ b <= l2 /\ d.params # 0 /\ ~Has(s, "params", b)
                          /\ Routed(d.tokens, kinds, d.params = b)
  BY ONLY Tensors(d, b, s, f, g, l, pin, pi, ov, kinds), b <= l => b <= l2 DEF Tensors
<1> QED BY ONLY <1>1, <1>3, <1>4, Tensors(d, b, s, f, g, l, pin, pi, ov, kinds) DEF Tensors

\* The record e is what a piece of work makes of record d.
Changed(e, d, o, lens, pin, in, kinds, seen) ==
  /\ o = "clone"  => e = [seq_lens |-> lens, params |-> d.params, input |-> d.input,
                          used |-> d.used, tokens |-> d.tokens]
  /\ o = "params" => e = [seq_lens |-> d.seq_lens, params |-> pin, input |-> d.input,
                          used |-> d.used, tokens |-> d.tokens]
  /\ o \in {"input", "resolve"} =>
                     e = [seq_lens |-> d.seq_lens, params |-> d.params, input |-> in,
                          used |-> d.used, tokens |-> d.tokens]
  /\ o = "forward" => e = [seq_lens |-> d.seq_lens, params |-> d.params, input |-> d.input,
                           used |-> <<d.seq_lens, d.input>>, tokens |-> d.tokens]
  /\ o = "sample" => e = [seq_lens |-> d.seq_lens, params |-> d.params, input |-> d.input,
                          used |-> d.used, tokens |-> Sampled(kinds, seen)]
  /\ o \in {"wait", "add", "store", "copy"} => e = d

LEMMA TensorsScheduleRun ==
  ASSUME NEW d, NEW e, NEW b \in Nat \ {0}, NEW s \in Seq(Items), s # << >>, NEW f, NEW g, NEW l,
         NEW pin, NEW pi, NEW ov, NEW kinds, NEW lens, NEW seen,
         Tensors(d, b, s, f, g, l, pin, pi, ov, kinds),
         s[1].op \in {"wait", "input", "add", "clone", "params"},
         s[1].batch # b => e = d,
         s[1].batch = b => Changed(e, d, s[1].op, lens, pin, pi, kinds, seen),
         s[1].op = "clone" => lens = s[1].batch
  PROVE  Tensors(e, b, Tail(s), f, g, l, pin, pi, ov, kinds)
<1>1. PICK t : t = Tail(s)
  OBVIOUS
<1>2. PICK o : o = s[1].op
  OBVIOUS
<1>3. \A k : (Has(t, k, b) => Has(s, k, b)) /\ (Has(s, k, b) => Has(t, k, b) \/ (o = k /\ s[1].batch = b))
  BY ONLY <1>1, <1>2, HasPop, s \in Seq(Items), s # << >>
<1>4. ASSUME s[1].batch = b PROVE Has(s, o, b)
  <2>1. 1 \in 1..Len(s)
    BY ONLY s \in Seq(Items), s # << >>, TailIs
  <2> QED BY ONLY <2>1, <1>2, <1>4 DEF Has
<1>5. CASE e = d /\ (s[1].batch # b \/ o \in {"wait", "add"})
  <2>1. \A k \in {"input", "clone", "params"} : Has(t, k, b) <=> Has(s, k, b)
    BY ONLY <1>3, <1>5
  <2> QED BY ONLY <2>1, <1>1, <1>5, Tensors(d, b, s, f, g, l, pin, pi, ov, kinds) DEF Tensors
<1>6. CASE s[1].batch = b /\ o = "clone"
  <2>1. e = [seq_lens |-> b, params |-> d.params, input |-> d.input, used |-> d.used, tokens |-> d.tokens]
    BY ONLY <1>6, <1>2, s[1].batch = b => Changed(e, d, s[1].op, lens, pin, pi, kinds, seen),
       s[1].op = "clone" => lens = s[1].batch DEF Changed
  <2>2. e.seq_lens = b /\ e.params = d.params /\ e.input = d.input /\ e.used = d.used /\ e.tokens = d.tokens
    BY ONLY <2>1
  <2>3. \A k \in {"input", "params"} : Has(t, k, b) <=> Has(s, k, b)
    BY ONLY <1>3, <1>6
  <2> QED BY ONLY <2>1, <2>2, <2>3, <1>1, Tensors(d, b, s, f, g, l, pin, pi, ov, kinds) DEF Tensors
<1>7. CASE s[1].batch = b /\ o = "params"
  <2>1. e = [seq_lens |-> d.seq_lens, params |-> pin, input |-> d.input, used |-> d.used, tokens |-> d.tokens]
    BY ONLY <1>7, <1>2, s[1].batch = b => Changed(e, d, s[1].op, lens, pin, pi, kinds, seen) DEF Changed
  <2>2. e.seq_lens = d.seq_lens /\ e.params = pin /\ e.input = d.input /\ e.used = d.used /\ e.tokens = d.tokens
    BY ONLY <2>1
  <2>3. \A k \in {"input", "clone"} : Has(t, k, b) <=> Has(s, k, b)
    BY ONLY <1>3, <1>7
  <2>4. Has(s, "params", b)
    BY ONLY <1>4, <1>7
  <2>5. d.tokens = << >> /\ (pin = b \/ (pin = b + 1 /\ b + 1 \in ov))
    BY ONLY <2>4, Tensors(d, b, s, f, g, l, pin, pi, ov, kinds) DEF Tensors
  <2>6. pin # 0
    BY ONLY <2>5, b \in Nat \ {0}
  <2> QED BY ONLY <2>1, <2>2, <2>3, <2>5, <2>6, <1>1, Tensors(d, b, s, f, g, l, pin, pi, ov, kinds) DEF Tensors
<1>8. CASE s[1].batch = b /\ o = "input"
  <2>1. e = [seq_lens |-> d.seq_lens, params |-> d.params, input |-> pi, used |-> d.used, tokens |-> d.tokens]
    BY ONLY <1>8, <1>2, s[1].batch = b => Changed(e, d, s[1].op, lens, pin, pi, kinds, seen) DEF Changed
  <2>2. e.seq_lens = d.seq_lens /\ e.params = d.params /\ e.input = pi /\ e.used = d.used /\ e.tokens = d.tokens
    BY ONLY <2>1
  <2>3. \A k \in {"params", "clone"} : Has(t, k, b) <=> Has(s, k, b)
    BY ONLY <1>3, <1>8
  <2>4. Has(s, "input", b) /\ pi = b - 1
    BY ONLY <1>4, <1>8, Tensors(d, b, s, f, g, l, pin, pi, ov, kinds) DEF Tensors
  <2> QED BY ONLY <2>1, <2>2, <2>3, <2>4, <1>1, Tensors(d, b, s, f, g, l, pin, pi, ov, kinds) DEF Tensors
<1>9. s[1].batch = b /\ o \in {"wait", "add"} => e = d
  BY ONLY <1>2, s[1].batch = b => Changed(e, d, s[1].op, lens, pin, pi, kinds, seen) DEF Changed
<1> QED BY ONLY <1>2, <1>5, <1>6, <1>7, <1>8, <1>9, s[1].op \in {"wait", "input", "add", "clone", "params"},
      s[1].batch # b => e = d

\* Work of batch b at the front of the forward stream may run.
ForwardTurn(e, d, o, b, s, g, l, lens, pin, in, kinds, seen) ==
  /\ Changed(e, d, o, lens, pin, in, kinds, seen) /\ b <= g
  /\ o # "wait" => Later(s, b)
  /\ o = "resolve" => in = b - 1
  /\ o = "sample" => b <= l

LEMMA TensorsForwardRun ==
  ASSUME NEW d, NEW e, NEW b \in Nat \ {0}, NEW s, NEW f \in Seq(Items), f # << >>, NEW g, NEW l,
         NEW pin, NEW pi, NEW ov, NEW kinds, NEW lens, NEW seen, NEW in,
         Tensors(d, b, s, f, g, l, pin, pi, ov, kinds),
         f[1].op \in {"wait", "resolve", "forward", "sample", "store"},
         f[1].batch # b => e = d,
         f[1].batch = b => ForwardTurn(e, d, f[1].op, b, s, g, l, lens, pin, in, kinds, seen),
         d.params = b => seen = kinds
  PROVE  Tensors(e, b, s, Tail(f), g, l, pin, pi, ov, kinds)
<1>1. PICK t : t = Tail(f)
  OBVIOUS
<1>2. PICK o : o = f[1].op
  OBVIOUS
<1>3. /\ Len(f) \in Nat \ {0} /\ Len(t) = Len(f) - 1
      /\ \A i \in 1..(Len(f) - 1) : t[i] = f[i + 1] /\ i + 1 \in 1..Len(f)
  BY ONLY <1>1, TailIs, f \in Seq(Items), f # << >>
<1>4. ASSUME NEW i \in 1..Len(t), t[i].op = "forward", t[i].batch = b
      PROVE  \/ d.input = b - 1 \/ Has(s, "input", b) \/ HasBefore(t, i, "resolve", b)
             \/ (o = "resolve" /\ f[1].batch = b)
  <2>1. t[i] = f[i + 1] /\ i + 1 \in 1..Len(f) /\ i \in 1..(Len(f) - 1)
    BY ONLY <1>3, i \in 1..Len(t)
  <2>2. d.input = b - 1 \/ Has(s, "input", b) \/ HasBefore(f, i + 1, "resolve", b)
    BY ONLY <2>1, <1>4, Tensors(d, b, s, f, g, l, pin, pi, ov, kinds) DEF Tensors
  <2>3. HasBefore(f, i + 1, "resolve", b) => HasBefore(t, i, "resolve", b) \/ (o = "resolve" /\ f[1].batch = b)
    BY ONLY <2>1, <1>1, <1>2, f \in Seq(Items), f # << >>, HasBeforePop
  <2> QED BY ONLY <2>2, <2>3
<1>5. ASSUME f[1].batch = b, o # "wait" PROVE b <= g /\ \A k : ~Has(s, k, b)
  <2>1. Later(s, b) /\ b <= g
    BY ONLY <1>2, <1>5, f[1].batch = b => ForwardTurn(e, d, f[1].op, b, s, g, l, lens, pin, in, kinds, seen) DEF ForwardTurn
  <2>2. ~(b > b)
    BY ONLY b \in Nat \ {0}
  <2> QED BY ONLY <2>1, <2>2 DEF Has, Later
<1>6. CASE e = d /\ (f[1].batch # b \/ o \in {"wait", "store"})
  <2>1. \A i \in 1..Len(t) : t[i].op = "forward" /\ t[i].batch = b =>
          d.input = b - 1 \/ Has(s, "input", b) \/ HasBefore(t, i, "resolve", b)
    BY ONLY <1>4, <1>6
  <2> QED BY ONLY <2>1, <1>1, <1>6, Tensors(d, b, s, f, g, l, pin, pi, ov, kinds) DEF Tensors
<1>7. CASE f[1].batch = b /\ o = "resolve"
  <2>1. e = [seq_lens |-> d.seq_lens, params |-> d.params, input |-> b - 1, used |-> d.used, tokens |-> d.tokens]
    BY ONLY <1>7, <1>2, f[1].batch = b => ForwardTurn(e, d, f[1].op, b, s, g, l, lens, pin, in, kinds, seen) DEF Changed, ForwardTurn
  <2>2. e.seq_lens = d.seq_lens /\ e.params = d.params /\ e.input = b - 1 /\ e.used = d.used /\ e.tokens = d.tokens
    BY ONLY <2>1
  <2> QED BY ONLY <2>1, <2>2, <1>1, Tensors(d, b, s, f, g, l, pin, pi, ov, kinds) DEF Tensors
<1>8. CASE f[1].batch = b /\ o = "forward"
  <2>1. e = [seq_lens |-> d.seq_lens, params |-> d.params, input |-> d.input,
             used |-> <<d.seq_lens, d.input>>, tokens |-> d.tokens]
    BY ONLY <1>8, <1>2, f[1].batch = b => ForwardTurn(e, d, f[1].op, b, s, g, l, lens, pin, in, kinds, seen) DEF Changed, ForwardTurn
  <2>2. /\ e.seq_lens = d.seq_lens /\ e.params = d.params /\ e.input = d.input
        /\ e.used = <<d.seq_lens, d.input>> /\ e.tokens = d.tokens
    BY ONLY <2>1
  <2>3. ~Has(s, "input", b) /\ ~Has(s, "clone", b) /\ b <= g
    BY ONLY <1>5, <1>8, "forward" # "wait"
  <2>4. 1 \in 1..Len(f) /\ ~HasBefore(f, 1, "resolve", b)
    BY ONLY <1>3 DEF HasBefore
  <2>5. d.seq_lens = b /\ d.input = b - 1
    BY ONLY <2>3, <2>4, <1>2, <1>8, Tensors(d, b, s, f, g, l, pin, pi, ov, kinds) DEF Tensors
  <2> QED BY ONLY <2>1, <2>2, <2>5, <1>1, Tensors(d, b, s, f, g, l, pin, pi, ov, kinds) DEF Tensors
<1>9. CASE f[1].batch = b /\ o = "sample"
  <2>1. e = [seq_lens |-> d.seq_lens, params |-> d.params, input |-> d.input, used |-> d.used,
             tokens |-> Sampled(kinds, seen)] /\ b <= l
    BY ONLY <1>9, <1>2, f[1].batch = b => ForwardTurn(e, d, f[1].op, b, s, g, l, lens, pin, in, kinds, seen) DEF Changed, ForwardTurn
  <2>2. /\ e.seq_lens = d.seq_lens /\ e.params = d.params /\ e.input = d.input
        /\ e.used = d.used /\ e.tokens = Sampled(kinds, seen)
    BY ONLY <2>1
  <2>3. ~Has(s, "params", b) /\ b <= g
    BY ONLY <1>5, <1>9, "sample" # "wait"
  <2>4. d.params # 0
    BY ONLY <2>3, Tensors(d, b, s, f, g, l, pin, pi, ov, kinds) DEF Tensors
  <2>5. Routed(e.tokens, kinds, e.params = b)
    BY ONLY <2>2, d.params = b => seen = kinds DEF Routed
  <2>6. \A i \in 1..Len(t) : t[i].op = "forward" /\ t[i].batch = b =>
          d.input = b - 1 \/ Has(s, "input", b) \/ HasBefore(t, i, "resolve", b)
    BY ONLY <1>4, <1>9
  <2> QED BY ONLY <2>1, <2>2, <2>3, <2>4, <2>5, <2>6, <1>1, Tensors(d, b, s, f, g, l, pin, pi, ov, kinds) DEF Tensors
<1>10. f[1].batch = b /\ o \in {"wait", "store"} => e = d
  BY ONLY <1>2, f[1].batch = b => ForwardTurn(e, d, f[1].op, b, s, g, l, lens, pin, in, kinds, seen) DEF Changed, ForwardTurn
<1> QED BY ONLY <1>2, <1>6, <1>7, <1>8, <1>9, <1>10, f[1].op \in {"wait", "resolve", "forward", "sample", "store"},
      f[1].batch # b => e = d

LEMMA TensorsOf ==
  ASSUME NEW d, NEW b, NEW s, NEW f, NEW g, NEW l, NEW pin, NEW pi, NEW ov, NEW kinds, NEW new,
         Tensors(d, b, s, f, g, l, pin, pi, ov, kinds), b <= l => new = kinds
  PROVE  Tensors(d, b, s, f, g, l, pin, pi, ov, new)
<1>1. d.tokens = << >> \/ /\ b <= l /\ d.params # 0 /\ ~Has(s, "params", b)
                          /\ Routed(d.tokens, new, d.params = b)
  BY ONLY Tensors(d, b, s, f, g, l, pin, pi, ov, kinds), b <= l => new = kinds DEF Tensors
<1> QED BY ONLY <1>1, Tensors(d, b, s, f, g, l, pin, pi, ov, kinds) DEF Tensors

---------------------------------------------------------------------------
(* The invariant holds at first, and the host keeps it.                     *)

Params == Batches \in Nat /\ RowsOfBatch \subseteq Seq(Kinds)

LEMMA InitStreams ==
  ASSUME Params, StreamsInit
  PROVE  StreamsInv
<1> USE DEF Params, StreamsInit, Streams
<1>1. work["schedule"] = << >> /\ work["forward"] = << >> /\ work["copy"] = << >> /\ DOMAIN work = Streams
  OBVIOUS
<1>2. HostAt = "begin" /\ Built = 0 /\ Forwarded = 0 /\ Drawn = 0 /\ Reached = 1
  BY DEF HostAt, Built, Forwarded, Drawn, Reached
<1>3. HostInv
  <2>1. rows \in Seq(Seq(Kinds)) /\ Len(rows) = 0
    BY EmptySeq
  <2>2. ran \in [Streams -> Nat] /\ n \in 0..Batches
    OBVIOUS
  <2>3. can_use_placeholder \in BOOLEAN /\ disable_overlap \in BOOLEAN /\ ~can_use_placeholder
    BY ONLY StreamsInit DEF StreamsInit
  <2>4. host = "begin" /\ next = "begin"
    OBVIOUS
  <2> QED BY ONLY <2>1, <2>2, <2>3, <2>4, <1>2, n = 0 DEF HostInv
<1>4. RecordInv
  BY <1>1 DEF RecordInv
<1>5. QueueInv
  <2>1. Climbs(<< >>, 1, 1)
    BY ClimbsEmpty
  <2>2. PICK q : q = << >>
    OBVIOUS
  <2>3. q \in Seq(Items) /\ 1..Len(q) = {}
    BY <2>2, EmptySeq
  <2>4. \A p, r : After(q, p, r)
    BY <2>3 DEF After
  <2>5. CopyQueue(q, q, 0, 0, 0)
    BY <2>2, <2>3, <2>4 DEF CopyQueue
  <2>6. ForwardQueue(q, q, 0, 0, 0, 0, {})
    BY <2>3, <2>4 DEF ForwardQueue
  <2>7. ScheduleQueue(q, 0, {}, 1, 1)
    BY <2>1, <2>2, <2>3 DEF ScheduleQueue
  <2> QED BY <1>1, <1>2, <2>2, <2>5, <2>6, <2>7 DEF QueueInv
<1>6. TensorInv
  <2>1. ASSUME NEW b \in 1..Batches, NEW kinds
        PROVE  Tensors(dev[b], b, << >>, << >>, 0, 0, 0, 0, {}, kinds)
    <3>1. dev[b] = Blank
      OBVIOUS
    <3>2. 1..Len(<< >>) = {} /\ \A o : ~Has(<< >>, o, b)
      BY EmptySeq DEF Has
    <3>3. ~(b <= 0)
      OBVIOUS
    <3> QED BY ONLY <3>1, <3>2, <3>3 DEF Tensors, Blank
  <2>2. dev = [b \in 1..Batches |-> dev[b]] /\ results \in [1..Batches -> Nat] /\ \A b \in 1..Batches : results[b] = 0
    OBVIOUS
  <2> QED BY <1>1, <1>2, <2>1, <2>2 DEF TensorInv
<1> QED BY <1>3, <1>4, <1>5, <1>6 DEF StreamsInv

LEMMA BeginStreams ==
  ASSUME Params, StreamsInv, Begin
  PROVE  StreamsInv'
<1> USE DEF Params
<1>0. HostInv /\ RecordInv /\ QueueInv /\ TensorInv
  BY DEF StreamsInv
<1>1. /\ ran' = ran /\ work' = work /\ dev' = dev /\ stored' = stored /\ cpu_buf' = cpu_buf /\ seq_lens' = seq_lens
      /\ result_queue' = result_queue /\ overlapped' = overlapped /\ pinned' = pinned /\ pinned_input' = pinned_input
      /\ results' = results /\ n' = n + 1 /\ host = "begin" /\ n < Batches
  BY DEF Begin, device
<1>2. n \in Nat /\ n + 1 \in 0..Batches
  BY <1>0, <1>1 DEF HostInv
<1>3. \/ host' = "sync" /\ next' = "schedule" /\ result_queue # << >>
      \/ host' = "schedule" /\ next' = next /\ (can_use_placeholder' \/ result_queue = << >>)
  BY DEF Begin, Then
<1>4. HostAt = "begin" /\ HostAt' = "schedule"
  BY <1>1, <1>3 DEF HostAt
<1>5. Built' = Built /\ Forwarded' = Forwarded /\ Drawn' = Drawn /\ Reached' = Reached /\ Built = n /\ Drawn = n
  BY <1>1, <1>2, <1>4 DEF Built, Forwarded, Drawn, Reached
<1>6. HostInv'
  <2>1. can_use_placeholder' \in BOOLEAN /\ disable_overlap' \in BOOLEAN /\ (can_use_placeholder' => n + 1 >= 2)
    <3>1. disable_overlap' \in BOOLEAN /\ can_use_placeholder' \in (IF n = 0 THEN {FALSE} ELSE BOOLEAN)
      BY ONLY Begin DEF Begin
    <3>2. CASE n = 0
      <4>1. can_use_placeholder' = FALSE
        BY ONLY <3>1, <3>2
      <4> QED BY ONLY <3>1, <4>1
    <3>3. CASE n # 0
      <4>1. can_use_placeholder' \in BOOLEAN
        BY ONLY <3>1, <3>3
      <4>2. n + 1 >= 2
        BY ONLY <3>3, <1>2
      <4> QED BY ONLY <3>1, <4>1, <4>2
    <3> QED BY ONLY <3>2, <3>3
  <2>2. rows' \in Seq(Seq(Kinds)) /\ Len(rows') = n + 1
    <3>1. PICK kinds \in Seq(Kinds) : rows' = Append(rows, kinds)
      BY DEF Begin
    <3> QED BY <3>1, <1>0 DEF HostInv
  <2> QED BY <1>0, <1>1, <1>2, <1>3, <1>4, <2>1, <2>2 DEF HostInv
<1>7. RecordInv'
  BY <1>0, <1>1, <1>3, <1>5 DEF RecordInv, Sent
<1>8. QueueInv'
  <2>1. ScheduleQueue(work["schedule"], n + 1, stored, seq_lens, Reached)
    <3>1. 1..n \subseteq 1..(n + 1)
      BY <1>2
    <3> QED BY <3>1, <1>0 DEF QueueInv, ScheduleQueue
  <2> QED BY <2>1, <1>0, <1>1, <1>5 DEF QueueInv
<1>9. TensorInv'
  <2>1. ASSUME NEW b \in 1..Batches, b <= n PROVE rows'[b] = rows[b]
    <3>1. PICK kinds \in Seq(Kinds) : rows' = Append(rows, kinds)
      BY DEF Begin
    <3> QED BY <3>1, <2>1, <1>0 DEF HostInv
  <2>2. ASSUME NEW b \in 1..Batches
        PROVE  Tensors(dev[b], b, work["schedule"], work["forward"], Built, Drawn, pinned,
                       pinned_input, overlapped, rows'[b])
    <3>1. Tensors(dev[b], b, work["schedule"], work["forward"], Built, Drawn, pinned,
                  pinned_input, overlapped, rows[b])
      BY <1>0 DEF TensorInv
    <3>2. b <= Drawn => rows'[b] = rows[b]
      BY <2>1, <1>5
    <3> QED BY ONLY <3>1, <3>2, TensorsOf
  <2> QED BY <2>2, <1>0, <1>1, <1>4, <1>5 DEF TensorInv
<1> QED BY <1>6, <1>7, <1>8, <1>9 DEF StreamsInv

Queues3(q, a, b) == q \in Seq(Items) /\ a \in Seq(Items) /\ b \in Seq(Items)

LEMMA JoinJoin ==
  ASSUME NEW q, NEW a, NEW b, Queues3(q, a, b)
  PROVE  (q \o a) \o b = q \o (a \o b)
<1>1. q \in Seq(Items) /\ a \in Seq(Items) /\ b \in Seq(Items)
  BY DEF Queues3
<1> QED BY ONLY <1>1, ConcatAssociative

\* All pieces are of this batch and of these kinds.
Own(q, m, ops) == q \in Seq(Items) /\ \A i \in 1..Len(q) : q[i].batch = m /\ q[i].op \in ops

LEMMA OwnJoin ==
  ASSUME NEW q, NEW t, NEW m, NEW ops, Own(q, m, ops), Own(t, m, ops)
  PROVE  Own(q \o t, m, ops)
<1>1. PICK w : w = q \o t
  OBVIOUS
<1>2. q \in Seq(Items) /\ t \in Seq(Items)
  BY ONLY Own(q, m, ops), Own(t, m, ops) DEF Own
<1>3. /\ w \in Seq(Items) /\ \A i \in 1..Len(q) : w[i] = q[i]
      /\ \A i \in 1..Len(w) : i \in 1..Len(q) \/ (i - Len(q) \in 1..Len(t) /\ w[i] = t[i - Len(q)])
  BY ONLY <1>1, <1>2, JoinIs
<1>4. ASSUME NEW i \in 1..Len(w) PROVE w[i].batch = m /\ w[i].op \in ops
  BY ONLY <1>3, i \in 1..Len(w), Own(q, m, ops), Own(t, m, ops) DEF Own
<1> QED BY ONLY <1>1, <1>3, <1>4 DEF Own

LEMMA OneIs ==
  ASSUME NEW x \in Items, NEW ops, x.op \in ops
  PROVE  /\ Own(<<x>>, x.batch, ops) /\ Len(<<x>>) = 1 /\ <<x>> # << >> /\ <<x>>[1] = x
         /\ \A o, b : Has(<<x>>, o, b) <=> x.op = o /\ x.batch = b
<1>1. PICK q : q = <<x>>
  OBVIOUS
<1>2. q \in Seq(Items) /\ Len(q) = 1 /\ q[1] = x /\ q # << >>
  BY ONLY <1>1, x \in Items
<1>3. \A i \in 1..Len(q) : i = 1
  BY ONLY <1>2
<1>4. 1 \in 1..Len(q)
  BY ONLY <1>2
<1> QED BY ONLY <1>1, <1>2, <1>3, <1>4, x.op \in ops DEF Own, Has

LEMMA OneOf ==
  ASSUME NEW x \in Items, NEW ops, NEW k, NEW m, k \in ops, x.op = k, x.batch = m
  PROVE  /\ Own(<<x>>, m, ops) /\ Len(<<x>>) = 1 /\ <<x>> # << >> /\ <<x>>[1] = x /\ <<x>> \in Seq(Items)
         /\ \A o, b : Has(<<x>>, o, b) <=> o = k /\ b = m
<1>1. PICK q : q = <<x>>
  OBVIOUS
<1>2. /\ Own(q, x.batch, ops) /\ Len(q) = 1 /\ q # << >> /\ q[1] = x
      /\ \A o, b : Has(q, o, b) <=> x.op = o /\ x.batch = b
  BY ONLY <1>1, OneIs, x \in Items, x.op \in ops, x.op = k, k \in ops
<1>3. q \in Seq(Items)
  BY ONLY <1>2 DEF Own
<1> QED BY ONLY <1>1, <1>2, <1>3, x.op = k, x.batch = m

\* Tuples from their parts.
LEMMA Pair ==
  ASSUME NEW x \in Items, NEW y \in Items
  PROVE  <<x>> \o <<y>> = <<x, y>>
<1>1. PICK a, b, c : a = <<x>> /\ b = <<y>> /\ c = <<x, y>>
  OBVIOUS
<1>2. a \in Seq(Items) /\ b \in Seq(Items) /\ c \in Seq(Items) /\ Len(a) = 1 /\ Len(b) = 1 /\ Len(c) = 2
      /\ a[1] = x /\ b[1] = y /\ c[1] = x /\ c[2] = y
  BY ONLY <1>1, x \in Items, y \in Items
<1>3. PICK w : w = a \o b
  OBVIOUS
<1>6. a \in Seq(Items) /\ b \in Seq(Items)
  BY ONLY <1>2
<1>4. w \in Seq(Items) /\ Len(w) = 2 /\ w[1] = x /\ w[2] = y
  <2>1. /\ w \in Seq(Items) /\ Len(w) = Len(a) + Len(b)
        /\ \A i \in 1..Len(a) : w[i] = a[i]
        /\ \A i \in 1..Len(b) : w[Len(a) + i] = b[i]
    BY ONLY <1>3, <1>6, JoinIs
  <2>2. w[1] = x
    BY ONLY <2>1, <1>2
  <2>3. w[1 + 1] = y
    BY ONLY <2>1, <1>2
  <2> QED BY ONLY <2>1, <2>2, <2>3, <1>2
<1>5. \A i \in 1..Len(w) : w[i] = c[i]
  BY ONLY <1>2, <1>4
<1> QED BY ONLY <1>1, <1>2, <1>3, <1>4, <1>5, SeqEqual

LEMMA Triple ==
  ASSUME NEW x \in Items, NEW v \in Items, NEW y \in Items
  PROVE  <<x, v>> \o <<y>> = <<x, v, y>>
<1>1. PICK a, b, c : a = <<x, v>> /\ b = <<y>> /\ c = <<x, v, y>>
  OBVIOUS
<1>2. a \in Seq(Items) /\ b \in Seq(Items) /\ c \in Seq(Items) /\ Len(a) = 2 /\ Len(b) = 1 /\ Len(c) = 3
      /\ a[1] = x /\ a[2] = v /\ b[1] = y /\ c[1] = x /\ c[2] = v /\ c[3] = y
  BY ONLY <1>1, x \in Items, v \in Items, y \in Items
<1>3. PICK w : w = a \o b
  OBVIOUS
<1>6. a \in Seq(Items) /\ b \in Seq(Items)
  BY ONLY <1>2
<1>4. w \in Seq(Items) /\ Len(w) = 3 /\ w[1] = x /\ w[2] = v /\ w[3] = y
  <2>1. /\ w \in Seq(Items) /\ Len(w) = Len(a) + Len(b)
        /\ \A i \in 1..Len(a) : w[i] = a[i]
        /\ \A i \in 1..Len(b) : w[Len(a) + i] = b[i]
    BY ONLY <1>3, <1>6, JoinIs
  <2>2. w[1] = x /\ w[2] = v
    BY ONLY <2>1, <1>2
  <2>3. w[2 + 1] = y
    BY ONLY <2>1, <1>2
  <2> QED BY ONLY <2>1, <2>2, <2>3, <1>2
<1>5. \A i \in 1..Len(w) : w[i] = c[i]
  BY ONLY <1>2, <1>4
<1>7. w \in Seq(Items) /\ c \in Seq(Items) /\ Len(w) = Len(c)
  BY ONLY <1>2, <1>4
<1>8. w = c
  BY ONLY <1>5, <1>7, SeqEqual
<1> QED BY ONLY <1>1, <1>3, <1>8

LEMMA NoneIs ==
  ASSUME NEW m, NEW ops
  PROVE  Own(<< >>, m, ops) /\ Len(<< >>) = 0 /\ \A o, b : ~Has(<< >>, o, b)
<1>1. PICK q : q = << >>
  OBVIOUS
<1>2. q \in Seq(Items) /\ Len(q) = 0
  BY <1>1, EmptySeq
<1>3. 1..Len(q) = {}
  BY ONLY <1>2
<1> QED BY ONLY <1>1, <1>2, <1>3 DEF Own, Has

\* What the copy stream has copied is long out of the schedule stream.
LEMMA CopiedIsOut ==
  ASSUME NEW q, NEW p, NEW r, NEW f, NEW l \in Nat, NEW cbuf \in Int, NEW st, NEW m, NEW x, NEW y,
         ForwardQueue(q, p, r, f, l, cbuf, st), ScheduleQueue(p, m, st, x, y), cbuf <= l,
         NEW o, NEW b, Has(p, o, b)
  PROVE  b \in 1..m /\ b > cbuf
<1>1. PICK i \in 1..Len(p) : p[i].op = o /\ p[i].batch = b
  BY ONLY Has(p, o, b) DEF Has
<1>2. b \in 1..m
  BY ONLY <1>1, ScheduleQueue(p, m, st, x, y) DEF ScheduleQueue
<1>3. CASE b \in st
  <2>1. b > b
    BY ONLY <1>1, <1>3, ScheduleQueue(p, m, st, x, y) DEF ScheduleQueue, Later
  <2> QED BY ONLY <2>1, <1>2
<1>4. CASE b \notin st /\ b \in 1..l
  <2>1. Has(q, "store", b)
    BY ONLY <1>4, ForwardQueue(q, p, r, f, l, cbuf, st) DEF ForwardQueue
  <2>2. PICK j \in 1..Len(q) : q[j].batch = b
    BY ONLY <2>1 DEF Has
  <2> QED BY ONLY <2>2, <1>2, ForwardQueue(q, p, r, f, l, cbuf, st) DEF ForwardQueue
<1>5. CASE b \notin 1..l
  BY ONLY <1>2, <1>5, l \in Nat, cbuf \in Int, cbuf <= l
<1> QED BY ONLY <1>2, <1>3, <1>4, <1>5

\* The queues are sequences of pieces, and what the buffer can hold.
LEMMA QueueTypes ==
  ASSUME Params, StreamsInv
  PROVE  /\ work["schedule"] \in Seq(Items) /\ work["forward"] \in Seq(Items) /\ work["copy"] \in Seq(Items)
         /\ n \in Nat /\ n <= Batches /\ Built \in Int /\ Forwarded \in Int /\ Drawn \in Nat /\ Reached \in Nat
         /\ cpu_buf \in Int /\ cpu_buf <= Drawn /\ cpu_buf >= Drawn - 1
         /\ (result_queue = << >> => cpu_buf = Drawn)
         /\ \A s \in Streams : ran[s] \in Nat /\ Len(work[s]) \in Nat /\ Sent(s) \in Nat
<1>0. HostInv /\ RecordInv /\ QueueInv
  BY DEF StreamsInv
<1>1. work["schedule"] \in Seq(Items) /\ work["forward"] \in Seq(Items) /\ work["copy"] \in Seq(Items)
  BY ONLY <1>0 DEF QueueInv, CopyQueue, ForwardQueue, ScheduleQueue
<1>2. n \in Nat /\ n <= Batches /\ (HostAt = "begin" \/ n >= 1)
  BY ONLY <1>0, Params DEF HostInv, Params
<1>3. Built \in Int /\ Forwarded \in Int /\ Drawn \in Nat /\ Reached \in Nat
  BY ONLY <1>2 DEF Built, Forwarded, Drawn, Reached
<1>4. cpu_buf = (IF work["copy"] = << >> THEN Drawn ELSE Drawn - 1)
  BY ONLY <1>0 DEF QueueInv, CopyQueue
<1>5. result_queue = << >> => work["copy"] = << >>
  BY ONLY <1>0 DEF RecordInv
<1>6. cpu_buf \in Int /\ cpu_buf <= Drawn /\ cpu_buf >= Drawn - 1 /\ (result_queue = << >> => cpu_buf = Drawn)
  BY ONLY <1>3, <1>4, <1>5
<1>7. ASSUME NEW s \in Streams PROVE ran[s] \in Nat /\ Len(work[s]) \in Nat /\ Sent(s) \in Nat
  <2>1. ran[s] \in Nat
    BY ONLY <1>0, s \in Streams DEF HostInv
  <2>2. Len(work["schedule"]) \in Nat /\ Len(work["forward"]) \in Nat /\ Len(work["copy"]) \in Nat
    BY ONLY <1>1, Elements
  <2>3. Len(work[s]) \in Nat
    BY ONLY <2>2, s \in Streams DEF Streams
  <2> QED BY ONLY <2>1, <2>3 DEF Sent
<1> QED BY ONLY <1>1, <1>2, <1>3, <1>6, <1>7

\* What the host enqueues.
LEMMA OpIs ==
  ASSUME n \in Nat, NEW o \in Ops
  PROVE  Op(o) \in Items /\ Op(o).op = o /\ Op(o).batch = n
BY DEF Op, Items

LEMMA WaitIs ==
  ASSUME n \in Nat, NEW s \in Streams, Sent(s) \in Nat
  PROVE  /\ WaitFor(s) \in Items /\ WaitFor(s).op = "wait" /\ WaitFor(s).on = s
         /\ WaitFor(s).for = Sent(s) /\ WaitFor(s).batch = n
BY DEF WaitFor, Items, Ops

LEMMA ScheduleStreams ==
  ASSUME Params, StreamsInv, Schedule
  PROVE  StreamsInv'
<1>0. HostInv /\ RecordInv /\ QueueInv /\ TensorInv
  BY DEF StreamsInv
<1>1. /\ ran' = ran /\ dev' = dev /\ stored' = stored /\ cpu_buf' = cpu_buf /\ seq_lens' = seq_lens
      /\ result_queue' = result_queue /\ overlapped' = overlapped /\ pinned' = pinned
      /\ results' = results /\ n' = n /\ rows' = rows /\ host = "schedule"
      /\ can_use_placeholder' = can_use_placeholder /\ disable_overlap' = disable_overlap
  BY DEF Schedule, device
<1>2. \/ host' = "sync" /\ next' = "init_new" /\ result_queue # << >>
      \/ host' = "init_new" /\ next' = next /\ (~disable_overlap \/ result_queue = << >>)
  BY DEF Schedule, Then
<1>3. HostAt = "schedule" /\ HostAt' = "init_new"
  BY ONLY <1>1, <1>2 DEF HostAt
<1>4. n \in Nat /\ n >= 1
  BY ONLY <1>0, <1>3, Params DEF HostInv, Params
<1>5. /\ Built = n - 1 /\ Built' = n - 1 /\ Forwarded = n - 1 /\ Forwarded' = n - 1
      /\ Drawn = n - 1 /\ Drawn' = n - 1 /\ Reached' = n /\ Reached = IF n > 1 THEN n - 1 ELSE n
  BY ONLY <1>1, <1>3, <1>4 DEF Built, Forwarded, Drawn, Reached
<1>6. PICK s, f, c : s = work["schedule"] /\ f = work["forward"] /\ c = work["copy"]
  OBVIOUS
<1>7. /\ s \in Seq(Items) /\ f \in Seq(Items) /\ c \in Seq(Items) /\ cpu_buf \in Int /\ cpu_buf <= n - 1
      /\ (result_queue = << >> => cpu_buf = n - 1)
      /\ "forward" \in Streams /\ \A k \in Streams : Sent(k) \in Nat
  BY ONLY <1>5, <1>6, Params, StreamsInv, QueueTypes DEF Streams
<1>8. PICK a : a = IF use_cuda_graph THEN <<WaitFor("forward")>> ELSE << >>
  OBVIOUS
<1>9. PICK i : i = IF n = 1 \/ can_use_placeholder THEN << >> ELSE <<Op("input")>>
  OBVIOUS
<1>10. PICK d : d = IF n = 1 THEN << >> ELSE <<Op("add")>>
  OBVIOUS
<1>11. work'["schedule"] = ((s \o a) \o i) \o d /\ work'["forward"] = f /\ work'["copy"] = c /\ DOMAIN work' = Streams
  BY ONLY Schedule, <1>0, <1>6, <1>8, <1>9, <1>10 DEF Schedule, QueueInv, Streams
<1> DEFINE ops == {"wait", "input", "add", "clone", "params"}
<1>12. /\ Own(a, n, ops) /\ Len(a) <= 1 /\ (a # << >> => a[1].op = "wait")
       /\ \A o, b : Has(a, o, b) => o = "wait"
  <2>1. WaitFor("forward") \in Items /\ WaitFor("forward").op = "wait" /\ WaitFor("forward").batch = n
    BY ONLY <1>4, <1>7, WaitIs
  <2> QED BY ONLY <2>1, <1>8, OneIs, NoneIs, "wait" \in ops
<1>13. /\ Own(i, n, ops) /\ Len(i) <= 1 /\ (i # << >> => i[1].op = "input")
       /\ (n > 1 /\ ~can_use_placeholder => Has(i, "input", n))
       /\ \A o, b : Has(i, o, b) => o = "input" /\ b = n /\ n > 1 /\ ~can_use_placeholder
  <2>1. Op("input") \in Items /\ Op("input").op = "input" /\ Op("input").batch = n
    BY ONLY <1>4, OpIs, "input" \in Ops DEF Ops
  <2>2. CASE n = 1 \/ can_use_placeholder
    <3>1. i = << >>
      BY ONLY <2>2, <1>9
    <3>2. ~(n > 1 /\ ~can_use_placeholder)
      BY ONLY <2>2
    <3> QED BY ONLY <3>1, <3>2, NoneIs
  <2>3. CASE n # 1 /\ ~can_use_placeholder
    <3>1. i = <<Op("input")>>
      BY ONLY <2>3, <1>9
    <3>2. PICK x \in Items : x = Op("input") /\ x.op = "input" /\ x.batch = n
      BY ONLY <2>1
    <3>3. Own(i, n, ops) /\ Len(i) = 1 /\ i[1] = x /\ \A o, b : Has(i, o, b) <=> x.op = o /\ x.batch = b
      BY ONLY <3>1, <3>2, OneIs, "input" \in ops
    <3>4. n > 1
      BY ONLY <2>3, <1>4
    <3> QED BY ONLY <2>3, <3>2, <3>3, <3>4
  <2> QED BY ONLY <2>2, <2>3
<1>14. /\ Own(d, n, ops) /\ Len(d) <= 1 /\ (d # << >> => d[1].op = "add") /\ (d # << >> <=> n > 1)
       /\ \A o, b : Has(d, o, b) => o = "add"
  <2>1. Op("add") \in Items /\ Op("add").op = "add" /\ Op("add").batch = n
    BY ONLY <1>4, OpIs, "add" \in Ops DEF Ops
  <2> QED BY ONLY <2>1, <1>4, <1>10, OneIs, NoneIs, "add" \in ops
<1> HIDE DEF ops
<1>15. PICK t : t = (a \o i) \o d
  OBVIOUS
<1>16. a \in Seq(Items) /\ i \in Seq(Items) /\ d \in Seq(Items)
  BY ONLY <1>12, <1>13, <1>14 DEF Own
<1>17. Own(t, n, ops) /\ t \in Seq(Items)
  BY ONLY <1>12, <1>13, <1>14, <1>15, OwnJoin DEF Own
<1>18. work'["schedule"] = s \o t
  <2>1. PICK e : e = a \o i
    OBVIOUS
  <2>2. e \in Seq(Items)
    BY ONLY <2>1, <1>16, JoinIs
  <2>3. Queues3(s, a, i) /\ Queues3(s, e, d)
    BY ONLY <2>2, <1>7, <1>16 DEF Queues3
  <2>4. (s \o a) \o i = s \o (a \o i)
    BY ONLY <2>3, JoinJoin
  <2>5. (s \o e) \o d = s \o (e \o d)
    BY ONLY <2>3, JoinJoin
  <2> QED BY ONLY <2>1, <2>4, <2>5, <1>11, <1>15
<1>19. \A o, b : Has(t, o, b) <=> Has(a, o, b) \/ Has(i, o, b) \/ Has(d, o, b)
  <2>1. a \o i \in Seq(Items)
    BY ONLY <1>16, JoinIs
  <2> QED BY ONLY <2>1, <1>15, <1>16, HasJoin
<1>20. HostInv'
  BY ONLY <1>0, <1>1, <1>2, <1>3, <1>4 DEF HostInv
<1>21. RecordInv'
  BY ONLY <1>0, <1>1, <1>2, <1>5, <1>6, <1>11 DEF RecordInv, Sent
<1>22. QueueInv'
  <2>1. /\ CopyQueue(c, f, ran["forward"], n - 1, cpu_buf)
        /\ ForwardQueue(f, s, ran["schedule"], n - 1, n - 1, cpu_buf, stored)
        /\ ScheduleQueue(s, n, stored, seq_lens, Reached)
    BY ONLY <1>0, <1>5, <1>6 DEF QueueInv
  <2>2. Later(t, n - 1)
    BY ONLY <1>17, <1>4 DEF Own, Later
  <2>3. ForwardQueue(f, s \o t, ran["schedule"], n - 1, n - 1, cpu_buf, stored)
    <3>1. n - 1 \in Nat
      BY ONLY <1>4
    <3> QED BY ONLY <3>1, <2>1, <2>2, <1>7, <1>17, ForwardQueueMore
  <2>4. Climbs(s \o t, seq_lens, n)
    <3>1. Climbs(s, seq_lens, Reached) /\ Reached \in Nat
      BY ONLY <2>1, <1>4, <1>5 DEF ScheduleQueue
    <3>2. Climbs(s \o a, seq_lens, Reached)
      BY ONLY <3>1, <1>7, <1>12, <1>16, ClimbsPush, "wait" # "add", "wait" # "clone"
    <3>3. Climbs((s \o a) \o i, seq_lens, Reached)
      <4>1. s \o a \in Seq(Items)
        BY ONLY <1>7, <1>16, JoinIs
      <4> QED BY ONLY <3>1, <3>2, <4>1, <1>13, <1>16, ClimbsPush, "input" # "add", "input" # "clone"
    <3>4. Climbs(((s \o a) \o i) \o d, seq_lens, IF d # << >> /\ d[1].op = "add" THEN Reached + 1 ELSE Reached)
      <4>1. (s \o a) \o i \in Seq(Items)
        BY ONLY <1>7, <1>16, JoinIs
      <4> QED BY ONLY <3>1, <3>3, <4>1, <1>14, <1>16, ClimbsPush, "add" # "clone"
    <3>5. (IF d # << >> /\ d[1].op = "add" THEN Reached + 1 ELSE Reached) = n
      BY ONLY <1>4, <1>5, <1>14
    <3> QED BY ONLY <3>4, <3>5, <1>11, <1>18
  <2>5. ScheduleQueue(s \o t, n, stored, seq_lens, n)
    <3>1. n - 1 \in Nat /\ n \in Nat \ {0} /\ n <= n /\ n - 1 < n
      BY ONLY <1>4
    <3>2. stored \in SUBSET (1..(n - 1))
      BY ONLY <2>1 DEF ForwardQueue
    <3>3. \A j \in 1..Len(t) : t[j].op \in {"wait", "input", "add", "clone", "params"} /\ t[j].batch = n
      BY ONLY <1>17 DEF Own, ops
    <3> QED BY ONLY <3>1, <3>2, <3>3, <2>1, <2>4, <1>4, <1>17, ScheduleQueuePush
  <2> QED BY ONLY <2>1, <2>3, <2>5, <1>1, <1>5, <1>11, <1>18 DEF QueueInv
<1>23. TensorInv'
  <2>1. ASSUME NEW b \in 1..Batches
        PROVE  Tensors(dev[b], b, s \o t, f, n - 1, n - 1, pinned, pinned_input', overlapped, rows[b])
    <3>1. Tensors(dev[b], b, s, f, n - 1, n - 1, pinned, pinned_input, overlapped, rows[b])
      BY ONLY <1>0, <1>5, <1>6, b \in 1..Batches DEF TensorInv
    <3>2. ~Has(t, "params", b)
      BY ONLY <1>12, <1>13, <1>14, <1>19
    <3>3. Has(s \o t, "input", b) => Has(s, "input", b) \/ (b = n /\ n > 1 /\ ~can_use_placeholder)
      BY ONLY <1>7, <1>12, <1>13, <1>14, <1>17, <1>19, HasJoin
    <3>4. Has(s \o t, "params", b) => Has(s, "params", b)
      BY ONLY <3>2, <1>7, <1>17, HasJoin
    <3>5. ASSUME Has(s \o t, "input", b) PROVE pinned_input' = b - 1
      <4>1. CASE n = 1 \/ can_use_placeholder
        <5>1. pinned_input' = pinned_input
          BY ONLY <4>1, Schedule DEF Schedule
        <5>2. Has(s, "input", b)
          BY ONLY <3>3, <3>5, <4>1, <1>4
        <5> QED BY ONLY <5>1, <5>2, <3>1 DEF Tensors
      <4>2. CASE n # 1 /\ ~can_use_placeholder
        <5>1. pinned_input' = n - 1
          BY ONLY <4>2, Schedule DEF Schedule
        <5>2. ASSUME Has(s, "input", b) PROVE b = n
          <6>1. result_queue = << >>
            BY ONLY <4>2, <1>0, <1>1 DEF RecordInv
          <6>2. cpu_buf = n - 1
            BY ONLY <6>1, <1>7
          <6>3. /\ ForwardQueue(f, s, ran["schedule"], n - 1, n - 1, cpu_buf, stored)
                /\ ScheduleQueue(s, n, stored, seq_lens, Reached) /\ n - 1 \in Nat
            BY ONLY <1>0, <1>4, <1>5, <1>6 DEF QueueInv
          <6>4. b \in 1..n /\ b > cpu_buf
            BY ONLY <6>3, <5>2, <1>7, CopiedIsOut
          <6> QED BY ONLY <6>2, <6>4, <1>4
        <5> QED BY ONLY <5>1, <5>2, <3>3, <3>5
      <4> QED BY ONLY <4>1, <4>2
    <3>6. Has(s \o t, "params", b) => pinned = b \/ (pinned = b + 1 /\ b + 1 \in overlapped)
      BY ONLY <3>1, <3>4 DEF Tensors
    <3> QED BY ONLY <3>1, <3>2, <3>5, <3>6, <1>7, <1>17, TensorsScheduled
  <2>2. n > 1 /\ ~can_use_placeholder => Has(s \o t, "input", n)
    BY ONLY <1>7, <1>13, <1>17, <1>19, HasJoin
  <2> QED BY ONLY <2>1, <2>2, <1>0, <1>1, <1>3, <1>5, <1>11, <1>18 DEF TensorInv
<1> QED BY ONLY <1>20, <1>21, <1>22, <1>23 DEF StreamsInv

LEMMA InitNewStreams ==
  ASSUME Params, StreamsInv, InitNew
  PROVE  StreamsInv'
<1>0. HostInv /\ RecordInv /\ QueueInv /\ TensorInv
  BY DEF StreamsInv
<1>1. /\ ran' = ran /\ dev' = dev /\ stored' = stored /\ cpu_buf' = cpu_buf /\ seq_lens' = seq_lens
      /\ result_queue' = result_queue /\ pinned' = n /\ pinned_input' = pinned_input
      /\ results' = results /\ n' = n /\ rows' = rows /\ host = "init_new" /\ host' = "run_forward" /\ next' = next
      /\ can_use_placeholder' = can_use_placeholder /\ disable_overlap' = disable_overlap
      /\ overlapped' = IF result_queue = << >> THEN overlapped ELSE overlapped \cup {n}
  BY DEF InitNew, device
<1>3. HostAt = "init_new" /\ HostAt' = "run_forward"
  BY ONLY <1>1 DEF HostAt
<1>4. n \in Nat /\ n >= 1
  BY ONLY <1>0, <1>3, Params DEF HostInv, Params
<1>5. /\ Built = n - 1 /\ Built' = n /\ Forwarded = n - 1 /\ Forwarded' = n - 1
      /\ Drawn = n - 1 /\ Drawn' = n - 1 /\ Reached' = n /\ Reached = n
  BY ONLY <1>1, <1>3, <1>4 DEF Built, Forwarded, Drawn, Reached
<1>6. PICK s, f, c : s = work["schedule"] /\ f = work["forward"] /\ c = work["copy"]
  OBVIOUS
<1>7. /\ s \in Seq(Items) /\ f \in Seq(Items) /\ c \in Seq(Items) /\ cpu_buf \in Int /\ cpu_buf <= n - 1
      /\ cpu_buf >= (n - 1) - 1 /\ (result_queue = << >> => cpu_buf = n - 1)
  BY ONLY <1>5, <1>6, Params, StreamsInv, QueueTypes
<1>8. PICK x, y : x = Op("clone") /\ y = Op("params")
  OBVIOUS
<1>9. x \in Items /\ x.op = "clone" /\ x.batch = n /\ y \in Items /\ y.op = "params" /\ y.batch = n
  <2>1. "clone" \in Ops /\ "params" \in Ops
    BY DEF Ops
  <2> QED BY ONLY <2>1, <1>4, <1>8, OpIs
<1>10. PICK a, b2 : a = <<x>> /\ b2 = <<y>>
  OBVIOUS
<1> DEFINE ops == {"wait", "input", "add", "clone", "params"}
<1>11. /\ Own(a, n, ops) /\ Len(a) = 1 /\ a # << >> /\ a[1] = x /\ a \in Seq(Items)
       /\ \A o, b : Has(a, o, b) <=> o = "clone" /\ b = n
  BY ONLY <1>9, <1>10, OneOf, "clone" \in ops
<1>12. /\ Own(b2, n, ops) /\ Len(b2) = 1 /\ b2 # << >> /\ b2[1] = y /\ b2 \in Seq(Items)
       /\ \A o, b : Has(b2, o, b) <=> o = "params" /\ b = n
  BY ONLY <1>9, <1>10, OneOf, "params" \in ops
<1> HIDE DEF ops
<1>13. PICK t : t = a \o b2
  OBVIOUS
<1>14. Own(t, n, ops) /\ t \in Seq(Items)
  <2>1. Own(t, n, ops)
    BY ONLY <1>11, <1>12, <1>13, OwnJoin
  <2> QED BY ONLY <2>1 DEF Own
<1>15. \A o, b : Has(t, o, b) <=> (o = "clone" \/ o = "params") /\ b = n
  BY ONLY <1>11, <1>12, <1>13, HasJoin
<1>16. /\ work'["schedule"] = s \o t /\ work'["forward"] = f /\ work'["copy"] = c /\ DOMAIN work' = Streams
       /\ s \o t = (s \o a) \o b2
  <2>1. t = <<x, y>>
    BY ONLY <1>9, <1>10, <1>13, Pair
  <2>2. s \o t = (s \o a) \o b2
    <3>1. Queues3(s, a, b2)
      BY ONLY <1>7, <1>11, <1>12 DEF Queues3
    <3> QED BY ONLY <3>1, <1>13, JoinJoin
  <2> QED BY ONLY <2>1, <2>2, InitNew, <1>0, <1>6, <1>8 DEF InitNew, QueueInv, Streams
<1>20. HostInv'
  BY ONLY <1>0, <1>1, <1>3, <1>4 DEF HostInv
<1>21. RecordInv'
  BY ONLY <1>0, <1>1, <1>5, <1>6, <1>16 DEF RecordInv, Sent
<1>22. QueueInv'
  <2>1. /\ CopyQueue(c, f, ran["forward"], n - 1, cpu_buf)
        /\ ForwardQueue(f, s, ran["schedule"], n - 1, n - 1, cpu_buf, stored)
        /\ ScheduleQueue(s, n, stored, seq_lens, n)
    BY ONLY <1>0, <1>5, <1>6 DEF QueueInv
  <2>2. Later(t, n - 1)
    BY ONLY <1>14, <1>4 DEF Own, Later
  <2>3. ForwardQueue(f, s \o t, ran["schedule"], n - 1, n - 1, cpu_buf, stored)
    <3>1. n - 1 \in Nat
      BY ONLY <1>4
    <3> QED BY ONLY <3>1, <2>1, <2>2, <1>7, <1>14, ForwardQueueMore
  <2>4. Climbs(s \o t, seq_lens, n)
    <3>1. Climbs(s, seq_lens, n) /\ s \o a \in Seq(Items) /\ Len(a) <= 1 /\ Len(b2) <= 1
      BY ONLY <2>1, <1>7, <1>11, <1>12, JoinIs DEF ScheduleQueue
    <3>2. Climbs(s \o a, seq_lens, n)
      BY ONLY <3>1, <1>4, <1>7, <1>9, <1>11, ClimbsPush, "clone" # "add"
    <3>3. Climbs((s \o a) \o b2, seq_lens, n)
      BY ONLY <3>1, <3>2, <1>4, <1>9, <1>12, ClimbsPush, "params" # "add", "params" # "clone"
    <3> QED BY ONLY <3>3, <1>16
  <2>5. ScheduleQueue(s \o t, n, stored, seq_lens, n)
    <3>1. n - 1 \in Nat /\ n \in Nat \ {0} /\ n <= n /\ n - 1 < n
      BY ONLY <1>4
    <3>2. stored \in SUBSET (1..(n - 1))
      BY ONLY <2>1 DEF ForwardQueue
    <3>3. \A j \in 1..Len(t) : t[j].op \in {"wait", "input", "add", "clone", "params"} /\ t[j].batch = n
      BY ONLY <1>14 DEF Own, ops
    <3> QED BY ONLY <3>1, <3>2, <3>3, <2>1, <2>4, <1>4, <1>14, ScheduleQueuePush
  <2> QED BY ONLY <2>1, <2>3, <2>5, <1>1, <1>5, <1>16 DEF QueueInv
<1>23. TensorInv'
  <2>1. ASSUME NEW b \in 1..Batches
        PROVE  Tensors(dev[b], b, s \o t, f, n, n - 1, n, pinned_input, overlapped', rows[b])
    <3>1. Tensors(dev[b], b, s, f, n - 1, n - 1, pinned, pinned_input, overlapped, rows[b])
      BY ONLY <1>0, <1>5, <1>6, b \in 1..Batches DEF TensorInv
    <3>2. overlapped \subseteq overlapped' /\ (result_queue # << >> => n \in overlapped')
      BY ONLY <1>1
    <3>3. \A o : Has(s \o t, o, b) => Has(s, o, b) \/ ((o = "clone" \/ o = "params") /\ b = n)
      BY ONLY <1>7, <1>14, <1>15, HasJoin
    <3>4. b \in Int
      OBVIOUS
    <3>5. b <= n => b <= n - 1 \/ (Has(t, "clone", b) /\ Has(t, "params", b))
      BY ONLY <3>4, <1>4, <1>15
    <3>6. b <= n - 1 => ~Has(t, "params", b)
      BY ONLY <3>4, <1>4, <1>15
    <3>7. Has(s \o t, "input", b) => pinned_input = b - 1
      BY ONLY <3>1, <3>3 DEF Tensors
    <3>8. ASSUME Has(s \o t, "params", b), b # n PROVE n = b + 1 /\ b + 1 \in overlapped'
      <4>1. Has(s, "params", b)
        BY ONLY <3>3, <3>8
      <4>2. /\ ForwardQueue(f, s, ran["schedule"], n - 1, n - 1, cpu_buf, stored)
            /\ ScheduleQueue(s, n, stored, seq_lens, Reached) /\ n - 1 \in Nat
        BY ONLY <1>0, <1>4, <1>5, <1>6 DEF QueueInv
      <4>3. b \in 1..n /\ b > cpu_buf
        BY ONLY <4>1, <4>2, <1>7, CopiedIsOut
      <4>4. n = b + 1
        BY ONLY <4>3, <3>8, <1>4, <1>7
      <4>5. result_queue # << >>
        BY ONLY <4>3, <4>4, <1>4, <1>7
      <4> QED BY ONLY <4>4, <4>5, <3>2
    <3>9. Has(s \o t, "params", b) => n = b \/ (n = b + 1 /\ b + 1 \in overlapped')
      BY ONLY <3>8
    <3> QED BY ONLY <3>1, <3>2, <3>5, <3>6, <3>7, <3>9, <1>7, <1>14, TensorsScheduled
  <2>2. n > 1 /\ ~can_use_placeholder => dev[n].input = n - 1 \/ Has(s \o t, "input", n)
    <3>1. n > 1 /\ ~can_use_placeholder => dev[n].input = n - 1 \/ Has(s, "input", n)
      BY ONLY <1>0, <1>3, <1>6 DEF TensorInv
    <3> QED BY ONLY <3>1, <1>7, <1>14, HasJoin
  <2> QED BY ONLY <2>1, <2>2, <1>0, <1>1, <1>3, <1>5, <1>16 DEF TensorInv
<1> QED BY ONLY <1>20, <1>21, <1>22, <1>23 DEF StreamsInv

LEMMA RunForwardStreams ==
  ASSUME Params, StreamsInv, RunForward
  PROVE  StreamsInv'
<1>0. HostInv /\ RecordInv /\ QueueInv /\ TensorInv
  BY DEF StreamsInv
<1>1. /\ ran' = ran /\ dev' = dev /\ stored' = stored /\ cpu_buf' = cpu_buf /\ seq_lens' = seq_lens
      /\ result_queue' = result_queue /\ overlapped' = overlapped /\ pinned' = pinned /\ pinned_input' = pinned_input
      /\ results' = results /\ n' = n /\ rows' = rows /\ host = "run_forward"
      /\ can_use_placeholder' = can_use_placeholder /\ disable_overlap' = disable_overlap
  BY DEF RunForward, device
<1>2. \/ host' = "sync" /\ next' = "run_sample" /\ result_queue # << >>
      \/ host' = "run_sample" /\ next' = next /\ result_queue = << >>
  BY ONLY RunForward, <1>0 DEF RunForward, Then, RecordInv, HostInv
<1>3. HostAt = "run_forward" /\ HostAt' = "run_sample"
  BY ONLY <1>1, <1>2 DEF HostAt
<1>4. n \in Nat /\ n >= 1 /\ (can_use_placeholder => n >= 2)
  BY ONLY <1>0, <1>3, Params DEF HostInv, Params
<1>5. /\ Built = n /\ Built' = n /\ Forwarded = n - 1 /\ Forwarded' = n
      /\ Drawn = n - 1 /\ Drawn' = n - 1 /\ Reached' = n /\ Reached = n
  BY ONLY <1>1, <1>3, <1>4 DEF Built, Forwarded, Drawn, Reached
<1>6. PICK s, f, c : s = work["schedule"] /\ f = work["forward"] /\ c = work["copy"]
  OBVIOUS
<1>7. /\ s \in Seq(Items) /\ f \in Seq(Items) /\ c \in Seq(Items) /\ cpu_buf \in Int /\ cpu_buf <= n - 1
      /\ "schedule" \in Streams /\ (\A k \in Streams : Sent(k) \in Nat /\ ran[k] \in Nat)
  BY ONLY <1>5, <1>6, Params, StreamsInv, QueueTypes DEF Streams
<1>8. PICK x, v, y : x = WaitFor("schedule") /\ v = Op("resolve") /\ y = Op("forward")
  OBVIOUS
<1>9. /\ x \in Items /\ x.op = "wait" /\ x.on = "schedule" /\ x.for = ran["schedule"] + Len(s) /\ x.batch = n
      /\ v \in Items /\ v.op = "resolve" /\ v.batch = n
      /\ y \in Items /\ y.op = "forward" /\ y.batch = n
  <2>1. "resolve" \in Ops /\ "forward" \in Ops
    BY DEF Ops
  <2>2. Sent("schedule") = ran["schedule"] + Len(s)
    BY ONLY <1>6 DEF Sent
  <2> QED BY ONLY <2>1, <2>2, <1>4, <1>7, <1>8, OpIs, WaitIs
<1>10. PICK t : t = IF can_use_placeholder THEN <<x, v, y>> ELSE <<x, y>>
  OBVIOUS
<1>11. t \in Seq(Items) /\ t # << >> /\ t[1] = x
       /\ (can_use_placeholder => Len(t) = 3 /\ t[2] = v /\ t[3] = y)
       /\ (~can_use_placeholder => Len(t) = 2 /\ t[2] = y)
  <2>1. CASE can_use_placeholder
    <3>1. t = <<x, v, y>>
      BY ONLY <2>1, <1>10
    <3> QED BY ONLY <3>1, <2>1, <1>9
  <2>2. CASE ~can_use_placeholder
    <3>1. t = <<x, y>>
      BY ONLY <2>2, <1>10
    <3> QED BY ONLY <3>1, <2>2, <1>9
  <2> QED BY ONLY <2>1, <2>2
<1>12. work'["forward"] = f \o t /\ work'["schedule"] = s /\ work'["copy"] = c /\ DOMAIN work' = Streams
  <2>1. PICK r : r = IF can_use_placeholder THEN <<v>> ELSE << >>
    OBVIOUS
  <2>2. work' = [work EXCEPT !["forward"] = ((@ \o <<x>>) \o r) \o <<y>>]
    BY ONLY RunForward, <2>1, <1>8 DEF RunForward
  <2>3. work'["forward"] = ((f \o <<x>>) \o r) \o <<y>> /\ work'["schedule"] = s /\ work'["copy"] = c /\ DOMAIN work' = Streams
    BY ONLY <2>2, <1>0, <1>6 DEF QueueInv, Streams
  <2>4. PICK a, b : a = <<x>> /\ b = <<y>>
    OBVIOUS
  <2>5. a \in Seq(Items) /\ b \in Seq(Items)
    BY ONLY <2>4, <1>9
  <2>6. r \in Seq(Items)
    BY ONLY <2>1, <1>9, EmptySeq
  <2>7. PICK e : e = a \o r
    OBVIOUS
  <2>8. e \in Seq(Items)
    BY ONLY <2>5, <2>6, <2>7, JoinIs
  <2>9. (f \o a) \o r = f \o e /\ (f \o e) \o b = f \o (e \o b)
    <3>1. (f \o a) \o r = f \o e
      <4>1. Queues3(f, a, r)
        BY ONLY <2>5, <2>6, <1>7 DEF Queues3
      <4> QED BY ONLY <4>1, <2>7, JoinJoin
    <3>2. (f \o e) \o b = f \o (e \o b)
      <4>1. Queues3(f, e, b)
        BY ONLY <2>5, <2>8, <1>7 DEF Queues3
      <4> QED BY ONLY <4>1, JoinJoin
    <3> QED BY ONLY <3>1, <3>2
  <2>10. e \o b = t
    <3>1. CASE can_use_placeholder
      <4>1. r = <<v>> /\ t = <<x, v, y>>
        BY ONLY <2>1, <3>1, <1>10
      <4>2. e = <<x, v>>
        BY ONLY <4>1, <2>4, <2>7, <1>9, Pair
      <4> QED BY ONLY <4>1, <4>2, <2>4, <1>9, Triple
    <3>2. CASE ~can_use_placeholder
      <4>1. r = << >> /\ t = <<x, y>>
        BY ONLY <2>1, <3>2, <1>10
      <4>2. e = a
        BY ONLY <4>1, <2>5, <2>7
      <4> QED BY ONLY <4>1, <4>2, <2>4, <1>9, Pair
    <3> QED BY ONLY <3>1, <3>2
  <2> QED BY ONLY <2>3, <2>4, <2>9, <2>10
<1>13. \A j \in 1..Len(t) : \/ j = 1 /\ t[j] = x
                            \/ j = 2 /\ t[j] = v /\ can_use_placeholder
                            \/ j >= 2 /\ t[j] = y /\ (can_use_placeholder => j = 3)
  BY ONLY <1>11
<1>20. HostInv'
  BY ONLY <1>0, <1>1, <1>2, <1>3, <1>4 DEF HostInv
<1>21. RecordInv'
  BY ONLY <1>0, <1>1, <1>2, <1>5, <1>6, <1>12 DEF RecordInv, Sent
<1>22. QueueInv'
  <2>1. /\ CopyQueue(c, f, ran["forward"], n - 1, cpu_buf)
        /\ ForwardQueue(f, s, ran["schedule"], n - 1, n - 1, cpu_buf, stored)
        /\ ScheduleQueue(s, n, stored, seq_lens, n)
    BY ONLY <1>0, <1>5, <1>6 DEF QueueInv
  <2>2. n - 1 \in Nat /\ n \in Nat \ {0} /\ n - 1 <= n /\ n - 1 <= n - 1 /\ n > cpu_buf
    BY ONLY <1>4, <1>7
  <2>3. \A j \in 1..Len(t) : t[j].batch = n
    BY ONLY <1>13, <1>9
  <2>4. Behind(t, n, n - 1, n - 1, cpu_buf, ran["schedule"] + Len(s))
    <3>1. ASSUME NEW j \in 1..Len(t)
          PROVE  /\ t[j].op \in {"wait", "resolve", "forward", "sample", "store"} /\ t[j].batch = n
                 /\ t[j].op = "wait" => t[j].on = "schedule"
                 /\ t[j].op \in {"sample", "store"} => n <= n - 1
                 /\ t[j].op = "resolve" => n - 1 \in 1..(n - 1)
      <4>1. can_use_placeholder => n - 1 \in 1..(n - 1)
        BY ONLY <1>4
      <4> QED BY ONLY <4>1, <1>9, <1>13, j \in 1..Len(t)
    <3>2. x.for >= ran["schedule"] + Len(s)
      <4>1. ran["schedule"] \in Nat /\ Len(s) \in Nat
        BY ONLY <1>7, Elements
      <4> QED BY ONLY <4>1, <1>9
    <3> QED BY ONLY <3>1, <3>2, <2>2, <1>9, <1>11 DEF Behind
  <2>5. ForwardQueue(f \o t, s, ran["schedule"], n, n - 1, cpu_buf, stored)
    BY ONLY <2>1, <2>2, <2>4, <1>7, ForwardQueuePush
  <2>6. Later(t, n - 1)
    BY ONLY <2>3, <1>4 DEF Later
  <2>7. CopyQueue(c, f \o t, ran["forward"], n - 1, cpu_buf)
    BY ONLY <2>1, <2>2, <2>6, <1>7, <1>11, CopyQueueMore
  <2> QED BY ONLY <2>1, <2>5, <2>7, <1>1, <1>5, <1>12 DEF QueueInv
<1>23. TensorInv'
  <2>1. ASSUME NEW b \in 1..Batches
        PROVE  Tensors(dev[b], b, s, f \o t, n, n - 1, pinned, pinned_input, overlapped, rows[b])
    <3>1. Tensors(dev[b], b, s, f, n, n - 1, pinned, pinned_input, overlapped, rows[b])
      BY ONLY <1>0, <1>5, <1>6, b \in 1..Batches DEF TensorInv
    <3>2. ASSUME NEW j \in 1..Len(t), t[j].op = "forward", t[j].batch = b
          PROVE  \/ dev[b].input = b - 1 \/ Has(s, "input", b)
                 \/ \E h \in 1..(j - 1) : t[h].op = "resolve" /\ t[h].batch = b
      <4>1. t[j] = y /\ b = n
        BY ONLY <3>2, <1>13, <1>9
      <4>2. CASE can_use_placeholder
        <5>1. j = 3
          BY ONLY <4>1, <4>2, <1>9, <1>13, j \in 1..Len(t)
        <5>2. 2 \in 1..(j - 1) /\ t[2].op = "resolve" /\ t[2].batch = b
          BY ONLY <5>1, <4>1, <4>2, <1>9, <1>11
        <5> QED BY ONLY <5>2
      <4>3. CASE ~can_use_placeholder /\ n > 1
        BY ONLY <4>1, <4>3, <1>0, <1>3, <1>6 DEF TensorInv
      <4>4. CASE n = 1
        <5>1. dev[b].input \in {0, b - 1}
          BY ONLY <3>1 DEF Tensors
        <5> QED BY ONLY <5>1, <4>1, <4>4
      <4> QED BY ONLY <4>2, <4>3, <4>4, <1>4
    <3> QED BY ONLY <3>1, <3>2, <1>7, <1>11, TensorsForwarded
  <2> QED BY ONLY <2>1, <1>0, <1>1, <1>3, <1>5, <1>12 DEF TensorInv
<1> QED BY ONLY <1>20, <1>21, <1>22, <1>23 DEF StreamsInv

LEMMA RunSampleStreams ==
  ASSUME Params, StreamsInv, RunSample
  PROVE  StreamsInv'
<1>0. HostInv /\ RecordInv /\ QueueInv /\ TensorInv
  BY DEF StreamsInv
<1>1. /\ ran' = ran /\ dev' = dev /\ stored' = stored /\ cpu_buf' = cpu_buf /\ seq_lens' = seq_lens
      /\ overlapped' = overlapped /\ pinned' = pinned /\ pinned_input' = pinned_input
      /\ results' = results /\ n' = n /\ rows' = rows /\ host = "run_sample"
      /\ can_use_placeholder' = can_use_placeholder /\ disable_overlap' = disable_overlap
      /\ result_queue' = Append(result_queue, [batch |-> n, event |-> Sent("copy") + 2])
  BY DEF RunSample, device
<1>2. \/ host' = "sync" /\ next' = "begin"
      \/ host' = "begin" /\ next' = next
  BY DEF RunSample
<1>3. HostAt = "run_sample" /\ HostAt' = "begin"
  BY ONLY <1>1, <1>2 DEF HostAt
<1>4. n \in Nat /\ n >= 1
  BY ONLY <1>0, <1>3, Params DEF HostInv, Params
<1>5. /\ Built = n /\ Built' = n /\ Forwarded = n /\ Forwarded' = n
      /\ Drawn = n - 1 /\ Drawn' = n /\ Reached' = n /\ Reached = n
  BY ONLY <1>1, <1>3, <1>4 DEF Built, Forwarded, Drawn, Reached
<1>6. PICK s, f, c : s = work["schedule"] /\ f = work["forward"] /\ c = work["copy"]
  OBVIOUS
<1>7. /\ s \in Seq(Items) /\ f \in Seq(Items) /\ c \in Seq(Items) /\ cpu_buf \in Int /\ cpu_buf <= n - 1
      /\ "schedule" \in Streams /\ "forward" \in Streams /\ "copy" \in Streams
      /\ (\A k \in Streams : Sent(k) \in Nat /\ ran[k] \in Nat)
  BY ONLY <1>5, <1>6, Params, StreamsInv, QueueTypes DEF Streams
<1>8. c = << >> /\ result_queue = << >>
  BY ONLY <1>0, <1>1, <1>6 DEF RecordInv
<1>9. PICK x, v, y, z : /\ x = WaitFor("schedule") /\ v = Op("sample") /\ y = Op("store") /\ z = Op("copy")
  OBVIOUS
<1>10. PICK u : u = [WaitFor("forward") EXCEPT !.for = @ + 3]
  OBVIOUS
<1>11. /\ x \in Items /\ x.op = "wait" /\ x.on = "schedule" /\ x.for = ran["schedule"] + Len(s) /\ x.batch = n
       /\ v \in Items /\ v.op = "sample" /\ v.batch = n
       /\ y \in Items /\ y.op = "store" /\ y.batch = n
       /\ z \in Items /\ z.op = "copy" /\ z.batch = n
  <2>1. "sample" \in Ops /\ "store" \in Ops /\ "copy" \in Ops
    BY DEF Ops
  <2>2. Sent("schedule") = ran["schedule"] + Len(s)
    BY ONLY <1>6 DEF Sent
  <2> QED BY ONLY <2>1, <2>2, <1>4, <1>7, <1>9, OpIs, WaitIs
<1>12. u \in Items /\ u.op = "wait" /\ u.on = "forward" /\ u.batch = n /\ u.for = (ran["forward"] + Len(f)) + 3
  <2>1. Sent("forward") = ran["forward"] + Len(f) /\ Sent("forward") \in Nat
    BY ONLY <1>6, <1>7 DEF Sent
  <2>2. PICK e : e = Sent("forward")
    OBVIOUS
  <2>3. WaitFor("forward") = [op |-> "wait", on |-> "forward", for |-> e, batch |-> n]
    BY ONLY <2>2 DEF WaitFor
  <2>4. u = [op |-> "wait", on |-> "forward", for |-> e + 3, batch |-> n]
    BY ONLY <2>3, <1>10
  <2>5. e \in Nat /\ e = ran["forward"] + Len(f)
    BY ONLY <2>1, <2>2
  <2>6. u \in Items
    <3>1. e + 3 \in Nat /\ "wait" \in Ops /\ "forward" \in Streams \cup {""}
      BY ONLY <2>5 DEF Ops, Streams
    <3> QED BY ONLY <3>1, <2>4, <1>4 DEF Items
  <2> QED BY ONLY <2>4, <2>5, <2>6
<1>13. PICK t : t = <<x, v, y>>
  OBVIOUS
<1>14. t \in Seq(Items) /\ Len(t) = 3 /\ t # << >> /\ t[1] = x /\ t[2] = v /\ t[3] = y
  BY ONLY <1>11, <1>13
<1>15. /\ work'["forward"] = f \o t /\ work'["schedule"] = s /\ work'["copy"] = c \o <<u, z>>
       /\ DOMAIN work' = Streams
  <2>1. work' = [work EXCEPT !["forward"] = @ \o t, !["copy"] = @ \o <<u, z>>]
    <3>1. Len(<<x, v, y>>) = 3
      BY ONLY <1>13, <1>14
    <3> QED BY ONLY RunSample, <3>1, <1>9, <1>10, <1>13 DEF RunSample
  <2> QED BY ONLY <2>1, <1>0, <1>6 DEF QueueInv, Streams
<1>16. \A j \in 1..Len(t) : (j = 1 /\ t[j] = x) \/ (j = 2 /\ t[j] = v) \/ (j = 3 /\ t[j] = y)
  BY ONLY <1>14
<1>20. HostInv'
  BY ONLY <1>0, <1>1, <1>2, <1>3, <1>4 DEF HostInv
<1>21. RecordInv'
  <2>1. PICK d : d = [batch |-> n, event |-> Sent("copy") + 2]
    OBVIOUS
  <2>2. result_queue' = <<d>> /\ result_queue' # << >>
    BY ONLY <2>1, <1>1, <1>8
  <2>3. Sent("copy")' = Sent("copy") + 2
    <3>1. PICK k : k = <<u, z>>
      OBVIOUS
    <3>2. Len(k) = 2 /\ c \o k = k
      BY ONLY <3>1, <1>8, <1>11, <1>12
    <3>3. Len(work'["copy"]) = 2 /\ Len(c) = 0 /\ ran' = ran /\ ran["copy"] \in Nat
      BY ONLY <3>1, <3>2, <1>1, <1>7, <1>8, <1>15, EmptySeq
    <3> QED BY ONLY <3>3, <1>6 DEF Sent
  <2> QED BY ONLY <2>1, <2>2, <2>3, <1>2, <1>4, <1>5 DEF RecordInv
<1>22. QueueInv'
  <2>1. /\ CopyQueue(c, f, ran["forward"], n - 1, cpu_buf)
        /\ ForwardQueue(f, s, ran["schedule"], n, n - 1, cpu_buf, stored)
        /\ ScheduleQueue(s, n, stored, seq_lens, n)
    BY ONLY <1>0, <1>5, <1>6 DEF QueueInv
  <2>2. n - 1 \in Nat /\ n \in Nat \ {0} /\ n <= n /\ n - 1 <= n /\ n > cpu_buf
    BY ONLY <1>4, <1>7
  <2>3. \A j \in 1..Len(t) : t[j].batch = n
    BY ONLY <1>16, <1>11
  <2>4. Behind(t, n, n, n - 1, cpu_buf, ran["schedule"] + Len(s))
    <3>1. ASSUME NEW j \in 1..Len(t)
          PROVE  /\ t[j].op \in {"wait", "resolve", "forward", "sample", "store"} /\ t[j].batch = n
                 /\ t[j].op = "wait" => t[j].on = "schedule"
                 /\ t[j].op \in {"sample", "store"} => n <= n
                 /\ t[j].op = "resolve" => n - 1 \in 1..(n - 1)
      BY ONLY <2>2, <1>11, <1>16, j \in 1..Len(t)
    <3>2. x.for >= ran["schedule"] + Len(s)
      <4>1. ran["schedule"] \in Nat /\ Len(s) \in Nat
        BY ONLY <1>7, Elements
      <4> QED BY ONLY <4>1, <1>11
    <3>3. Has(t, "store", n)
      <4>1. 3 \in 1..Len(t) /\ t[3].op = "store" /\ t[3].batch = n
        BY ONLY <1>11, <1>14
      <4> QED BY ONLY <4>1 DEF Has
    <3>4. \A b \in 1..n : b \in 1..(n - 1) \/ Has(t, "store", b)
      <4>1. \A b \in 1..n : b \in 1..(n - 1) \/ b = n
        BY ONLY <1>4
      <4> QED BY ONLY <4>1, <3>3
    <3> QED BY ONLY <3>1, <3>2, <3>4, <2>2, <1>11, <1>14 DEF Behind
  <2>5. ForwardQueue(f \o t, s, ran["schedule"], n, n, cpu_buf, stored)
    BY ONLY <2>1, <2>2, <2>4, <1>4, <1>7, ForwardQueuePush
  <2>6. Later(t, n - 1)
    BY ONLY <2>3, <1>4 DEF Later
  <2>7. CopyQueue(c, f \o t, ran["forward"], n - 1, cpu_buf)
    BY ONLY <2>1, <2>2, <2>6, <1>7, <1>14, CopyQueueMore
  <2>8. CopyQueue(c \o <<u, z>>, f \o t, ran["forward"], n, cpu_buf)
    <3>1. PICK w : w = f \o t
      OBVIOUS
    <3>2. w \in Seq(Items) /\ Len(w) = Len(f) + Len(t) /\ Len(f) \in Nat
      <4>1. f \in Seq(Items) /\ t \in Seq(Items)
        BY ONLY <1>7, <1>14
      <4>2. f \o t \in Seq(Items) /\ Len(f \o t) = Len(f) + Len(t) /\ Len(f) \in Nat
        BY ONLY <4>1, JoinIs
      <4> QED BY ONLY <3>1, <4>2
    <3>3. u.for >= ran["forward"] + Len(w) /\ ran["forward"] \in Nat
      BY ONLY <3>2, <1>7, <1>12, <1>14
    <3> QED BY ONLY <3>1, <3>2, <3>3, <2>7, <1>4, <1>8, <1>11, <1>12, CopyQueuePush
  <2> QED BY ONLY <2>1, <2>5, <2>8, <1>1, <1>5, <1>15 DEF QueueInv
<1>23. TensorInv'
  <2>1. ASSUME NEW b \in 1..Batches
        PROVE  Tensors(dev[b], b, s, f \o t, n, n, pinned, pinned_input, overlapped, rows[b])
    <3>1. Tensors(dev[b], b, s, f, n, n - 1, pinned, pinned_input, overlapped, rows[b])
      BY ONLY <1>0, <1>5, <1>6, b \in 1..Batches DEF TensorInv
    <3>2. \A j \in 1..Len(t) : t[j].op # "forward"
      BY ONLY <1>11, <1>16
    <3>3. b <= n - 1 => b <= n
      BY <1>4
    <3> QED BY ONLY <3>1, <3>2, <3>3, <1>7, <1>14, TensorsForwarded
  <2> QED BY ONLY <2>1, <1>0, <1>1, <1>3, <1>5, <1>15 DEF TensorInv
<1> QED BY ONLY <1>20, <1>21, <1>22, <1>23 DEF StreamsInv

LEMMA SyncStreams ==
  ASSUME Params, StreamsInv, Sync
  PROVE  StreamsInv'
<1>0. HostInv /\ RecordInv /\ QueueInv /\ TensorInv
  BY DEF StreamsInv
<1>1. /\ ran' = ran /\ work' = work /\ dev' = dev /\ stored' = stored /\ cpu_buf' = cpu_buf /\ seq_lens' = seq_lens
      /\ result_queue' = result_queue /\ overlapped' = overlapped /\ pinned' = pinned /\ pinned_input' = pinned_input
      /\ results' = results /\ n' = n /\ rows' = rows /\ host = "sync" /\ host' = "clone" /\ next' = next
      /\ can_use_placeholder' = can_use_placeholder /\ disable_overlap' = disable_overlap
  BY DEF Sync, device
<1>2. HostAt' = HostAt
  BY ONLY <1>1 DEF HostAt
<1>3. Built' = Built /\ Forwarded' = Forwarded /\ Drawn' = Drawn /\ Reached' = Reached
  BY ONLY <1>1, <1>2 DEF Built, Forwarded, Drawn, Reached
<1>4. work["copy"] = << >>
  <2>1. result_queue = <<[batch |-> Drawn, event |-> Sent("copy")]>>
    BY ONLY <1>0, <1>1 DEF RecordInv
  <2>2. Head(result_queue).event = Sent("copy")
    BY ONLY <2>1
  <2>3. ran["copy"] >= Sent("copy")
    BY ONLY <2>2, Sync DEF Sync
  <2>4. ran["copy"] \in Nat /\ Len(work["copy"]) \in Nat /\ work["copy"] \in Seq(Items)
    BY ONLY Params, StreamsInv, QueueTypes, "copy" \in Streams DEF Streams
  <2>5. Len(work["copy"]) = 0
    BY ONLY <2>3, <2>4 DEF Sent
  <2> QED BY ONLY <2>4, <2>5, EmptySeq
<1>5. HostInv'
  BY ONLY <1>0, <1>1, <1>2 DEF HostInv
<1>6. RecordInv'
  BY ONLY <1>0, <1>1, <1>3, <1>4 DEF RecordInv, Sent
<1>7. QueueInv'
  BY ONLY <1>0, <1>1, <1>3 DEF QueueInv
<1>8. TensorInv'
  BY ONLY <1>0, <1>1, <1>2, <1>3 DEF TensorInv
<1> QED BY ONLY <1>5, <1>6, <1>7, <1>8 DEF StreamsInv

LEMMA CloneStreams ==
  ASSUME Params, StreamsInv, CloneResult
  PROVE  StreamsInv'
<1>0. HostInv /\ RecordInv /\ QueueInv /\ TensorInv
  BY DEF StreamsInv
<1>1. /\ ran' = ran /\ work' = work /\ dev' = dev /\ stored' = stored /\ cpu_buf' = cpu_buf /\ seq_lens' = seq_lens
      /\ overlapped' = overlapped /\ pinned' = pinned /\ pinned_input' = pinned_input
      /\ n' = n /\ rows' = rows /\ host = "clone" /\ next' = next
      /\ can_use_placeholder' = can_use_placeholder /\ disable_overlap' = disable_overlap
  BY DEF CloneResult, device
<1>2. PICK d : d = [batch |-> Drawn, event |-> Sent("copy")]
  OBVIOUS
<1>3. result_queue = <<d>> /\ d.batch = Drawn /\ Drawn >= 1 /\ work["copy"] = << >>
  BY ONLY <1>0, <1>1, <1>2 DEF RecordInv
<1>4. Len(result_queue) = 1 /\ Tail(result_queue) = << >> /\ Head(result_queue) = d
  BY ONLY <1>3
<1>5. host' = next /\ result_queue' = << >> /\ results' = [results EXCEPT ![Drawn] = cpu_buf]
  <2>1. host' = (IF Len(result_queue) > 1 THEN "sync" ELSE next) /\ result_queue' = Tail(result_queue)
    BY ONLY CloneResult DEF CloneResult
  <2>2. ~(Len(result_queue) > 1)
    BY ONLY <1>4
  <2>3. results' = [results EXCEPT ![Head(result_queue).batch] = cpu_buf]
    BY ONLY CloneResult DEF CloneResult
  <2>4. Head(result_queue).batch = Drawn
    BY ONLY <1>3, <1>4
  <2>5. results' = [results EXCEPT ![Drawn] = cpu_buf]
    BY ONLY <2>3, <2>4
  <2> QED BY ONLY <2>1, <2>2, <2>5, <1>4
<1>6. next \in {"begin", "schedule", "init_new", "run_sample"}
  BY ONLY <1>0 DEF HostInv
<1>7. HostAt' = HostAt
  BY ONLY <1>1, <1>5, <1>6 DEF HostAt
<1>8. Built' = Built /\ Forwarded' = Forwarded /\ Drawn' = Drawn /\ Reached' = Reached
  BY ONLY <1>1, <1>7 DEF Built, Forwarded, Drawn, Reached
<1>9. HostInv'
  BY ONLY <1>0, <1>1, <1>5, <1>6, <1>7 DEF HostInv
<1>10. RecordInv'
  BY ONLY <1>1, <1>3, <1>5, <1>6 DEF RecordInv
<1>11. QueueInv'
  BY ONLY <1>0, <1>1, <1>8 DEF QueueInv
<1>12. cpu_buf = Drawn /\ cpu_buf \in Nat
  <2>1. cpu_buf = Drawn
    BY ONLY <1>0, <1>3 DEF QueueInv, CopyQueue
  <2> QED BY ONLY <2>1, Params, StreamsInv, QueueTypes
<1>13. results' \in [1..Batches -> Nat] /\ \A b \in 1..Batches : results'[b] \in {0, b}
  BY ONLY <1>0, <1>5, <1>12 DEF TensorInv
<1>14. TensorInv'
  BY ONLY <1>0, <1>1, <1>7, <1>8, <1>13 DEF TensorInv
<1> QED BY ONLY <1>9, <1>10, <1>11, <1>14 DEF StreamsInv

---------------------------------------------------------------------------
(* The streams keep the invariant.                                          *)

\* The input a piece of work writes.
InputOf(o, b) == IF o = "input" THEN pinned_input ELSE IF b - 1 \in stored THEN b - 1 ELSE 0

LEMMA EffectIs ==
  ASSUME dev = [b \in 1..Batches |-> dev[b]], NEW o \in Ops, NEW b \in 1..Batches, NEW d, d = dev[b],
         d = [seq_lens |-> d.seq_lens, params |-> d.params, input |-> d.input, used |-> d.used,
              tokens |-> d.tokens],
         NEW new, new = Effect(o, b)
  PROVE  /\ new = [c \in 1..Batches |-> new[c]] /\ \A c \in 1..Batches \ {b} : new[c] = dev[c]
         /\ Changed(new[b], d, o, seq_lens, pinned, InputOf(o, b), rows[b], rows[d.params])
<1> USE DEF SeqLensOf
<1>1. CASE o \in {"wait", "add", "store", "copy"}
  <2>1. new = dev
    BY ONLY <1>1, new = Effect(o, b) DEF Effect
  <2> QED BY ONLY <2>1, <1>1, dev = [c \in 1..Batches |-> dev[c]], d = dev[b] DEF Changed
<1>2. CASE o = "clone"
  <2>1. new = [dev EXCEPT ![b] = [dev[b] EXCEPT !.seq_lens = seq_lens]]
    BY ONLY <1>2, new = Effect(o, b) DEF Effect
  <2>2. new[b] = [d EXCEPT !.seq_lens = seq_lens] /\ new = [c \in 1..Batches |-> new[c]]
        /\ \A c \in 1..Batches \ {b} : new[c] = dev[c]
    BY ONLY <2>1, dev = [c \in 1..Batches |-> dev[c]], d = dev[b], b \in 1..Batches
  <2>3. [d EXCEPT !.seq_lens = seq_lens] = [seq_lens |-> seq_lens, params |-> d.params, input |-> d.input, used |-> d.used, tokens |-> d.tokens]
    BY ONLY d = [seq_lens |-> d.seq_lens, params |-> d.params, input |-> d.input, used |-> d.used, tokens |-> d.tokens]
  <2> QED BY ONLY <2>2, <2>3, <1>2 DEF Changed
<1>3. CASE o = "params"
  <2>1. new = [dev EXCEPT ![b] = [dev[b] EXCEPT !.params = pinned]]
    BY ONLY <1>3, new = Effect(o, b) DEF Effect
  <2>2. new[b] = [d EXCEPT !.params = pinned] /\ new = [c \in 1..Batches |-> new[c]]
        /\ \A c \in 1..Batches \ {b} : new[c] = dev[c]
    BY ONLY <2>1, dev = [c \in 1..Batches |-> dev[c]], d = dev[b], b \in 1..Batches
  <2>3. [d EXCEPT !.params = pinned] = [seq_lens |-> d.seq_lens, params |-> pinned, input |-> d.input, used |-> d.used, tokens |-> d.tokens]
    BY ONLY d = [seq_lens |-> d.seq_lens, params |-> d.params, input |-> d.input, used |-> d.used, tokens |-> d.tokens]
  <2> QED BY ONLY <2>2, <2>3, <1>3 DEF Changed
<1>4. CASE o = "input" \/ o = "resolve"
  <2>0. PICK v : v = InputOf(o, b)
    OBVIOUS
  <2>1. new = [dev EXCEPT ![b] = [dev[b] EXCEPT !.input = v]]
    BY ONLY <2>0, <1>4, new = Effect(o, b) DEF Effect, InputOf
  <2>2. new[b] = [d EXCEPT !.input = v] /\ new = [c \in 1..Batches |-> new[c]]
        /\ \A c \in 1..Batches \ {b} : new[c] = dev[c]
    BY ONLY <2>1, dev = [c \in 1..Batches |-> dev[c]], d = dev[b], b \in 1..Batches
  <2>3. [d EXCEPT !.input = v] = [seq_lens |-> d.seq_lens, params |-> d.params, input |-> v, used |-> d.used, tokens |-> d.tokens]
    BY ONLY d = [seq_lens |-> d.seq_lens, params |-> d.params, input |-> d.input, used |-> d.used, tokens |-> d.tokens]
  <2> QED BY ONLY <2>0, <2>2, <2>3, <1>4 DEF Changed
<1>5. CASE o = "forward"
  <2>0. PICK v : v = <<d.seq_lens, d.input>>
    OBVIOUS
  <2>1. new = [dev EXCEPT ![b] = [dev[b] EXCEPT !.used = v]]
    BY ONLY <2>0, <1>5, new = Effect(o, b), d = dev[b] DEF Effect, SeqLensOf
  <2>2. new[b] = [d EXCEPT !.used = v] /\ new = [c \in 1..Batches |-> new[c]]
        /\ \A c \in 1..Batches \ {b} : new[c] = dev[c]
    BY ONLY <2>1, dev = [c \in 1..Batches |-> dev[c]], d = dev[b], b \in 1..Batches
  <2>3. [d EXCEPT !.used = v] = [seq_lens |-> d.seq_lens, params |-> d.params, input |-> d.input, used |-> v, tokens |-> d.tokens]
    BY ONLY d = [seq_lens |-> d.seq_lens, params |-> d.params, input |-> d.input, used |-> d.used, tokens |-> d.tokens]
  <2> QED BY ONLY <2>0, <2>2, <2>3, <1>5 DEF Changed
<1>6. CASE o = "sample"
  <2>0. PICK v : v = Sampled(rows[b], rows[d.params])
    OBVIOUS
  <2>1. new = [dev EXCEPT ![b] = [dev[b] EXCEPT !.tokens = v]]
    BY ONLY <2>0, <1>6, new = Effect(o, b), d = dev[b] DEF Effect
  <2>2. new[b] = [d EXCEPT !.tokens = v] /\ new = [c \in 1..Batches |-> new[c]]
        /\ \A c \in 1..Batches \ {b} : new[c] = dev[c]
    BY ONLY <2>1, dev = [c \in 1..Batches |-> dev[c]], d = dev[b], b \in 1..Batches
  <2>3. [d EXCEPT !.tokens = v] = [seq_lens |-> d.seq_lens, params |-> d.params, input |-> d.input, used |-> d.used, tokens |-> v]
    BY ONLY d = [seq_lens |-> d.seq_lens, params |-> d.params, input |-> d.input, used |-> d.used, tokens |-> d.tokens]
  <2> QED BY ONLY <2>0, <2>2, <2>3, <1>6 DEF Changed
<1> QED BY ONLY <1>1, <1>2, <1>3, <1>4, <1>5, <1>6, o \in Ops DEF Ops

\* What running the front of a stream changes, whatever it is.
Ran(s, q, w) ==
  /\ q = work[s] /\ q # << >> /\ w = q[1]
  /\ w.op = "wait" => ran[w.on] >= w.for
  /\ dev' = Effect(w.op, w.batch)
  /\ seq_lens' = (IF w.op = "add" THEN seq_lens + 1 ELSE seq_lens)
  /\ stored' = (IF w.op = "store" THEN stored \cup {w.batch} ELSE stored)
  /\ cpu_buf' = (IF w.op = "copy" THEN w.batch ELSE cpu_buf)
  /\ work' = [work EXCEPT ![s] = Tail(@)] /\ ran' = [ran EXCEPT ![s] = @ + 1]
  /\ host' = host /\ next' = next /\ n' = n /\ rows' = rows
  /\ can_use_placeholder' = can_use_placeholder /\ disable_overlap' = disable_overlap
  /\ result_queue' = result_queue /\ overlapped' = overlapped /\ pinned' = pinned /\ pinned_input' = pinned_input
  /\ results' = results
  /\ HostAt' = HostAt /\ Built' = Built /\ Forwarded' = Forwarded /\ Drawn' = Drawn /\ Reached' = Reached

LEMMA ExecuteIs ==
  ASSUME Params, StreamsInv, NEW s \in Streams, Execute(s)
  PROVE  /\ work[s] \in Seq(Items) /\ work[s][1] \in Items /\ Ran(s, work[s], work[s][1])
         /\ HostInv' /\ \A k \in Streams : Sent(k)' = Sent(k)
<1>0. HostInv /\ QueueInv
  BY DEF StreamsInv
<1>1. work[s] \in Seq(Items) /\ work[s] # << >>
  BY ONLY Params, StreamsInv, QueueTypes, s \in Streams, Execute(s) DEF Streams, Execute
<1>2. PICK q, w : q = work[s] /\ w = q[1]
  OBVIOUS
<1>3. Head(q) = w /\ w \in Items /\ Len(Tail(q)) = Len(q) - 1 /\ Len(q) \in Nat
  BY ONLY <1>1, <1>2, TailIs
<1>4. /\ host' = host /\ next' = next /\ n' = n /\ rows' = rows
      /\ can_use_placeholder' = can_use_placeholder /\ disable_overlap' = disable_overlap
      /\ result_queue' = result_queue /\ overlapped' = overlapped /\ pinned' = pinned /\ pinned_input' = pinned_input
      /\ results' = results
      /\ work' = [work EXCEPT ![s] = Tail(@)] /\ ran' = [ran EXCEPT ![s] = @ + 1]
  BY ONLY Execute(s) DEF Execute
<1>5. /\ w.op = "wait" => ran[w.on] >= w.for
      /\ dev' = Effect(w.op, w.batch)
      /\ seq_lens' = (IF w.op = "add" THEN seq_lens + 1 ELSE seq_lens)
      /\ stored' = (IF w.op = "store" THEN stored \cup {w.batch} ELSE stored)
      /\ cpu_buf' = (IF w.op = "copy" THEN w.batch ELSE cpu_buf)
  BY ONLY Execute(s), <1>2, <1>3 DEF Execute
<1>6. HostAt' = HostAt
  BY ONLY <1>4 DEF HostAt
<1>7. Built' = Built /\ Forwarded' = Forwarded /\ Drawn' = Drawn /\ Reached' = Reached
  BY ONLY <1>4, <1>6 DEF Built, Forwarded, Drawn, Reached
<1>8. ran' \in [Streams -> Nat]
  BY ONLY <1>0, <1>4, s \in Streams DEF HostInv
<1>9. HostInv'
  BY ONLY <1>0, <1>4, <1>6, <1>8 DEF HostInv
<1>10. ASSUME NEW k \in Streams PROVE Sent(k)' = Sent(k)
  <2>1. DOMAIN work = Streams /\ ran \in [Streams -> Nat]
    BY ONLY <1>0 DEF QueueInv, HostInv
  <2>2. CASE k = s
    <3>1. work'[k] = Tail(q) /\ ran'[k] = ran[k] + 1 /\ ran[k] \in Nat
      BY ONLY <2>1, <2>2, <1>2, <1>4, k \in Streams
    <3>2. (ran[k] + 1) + Len(Tail(q)) = ran[k] + Len(q)
      BY ONLY <3>1, <1>3
    <3> QED BY ONLY <3>1, <3>2, <2>2, <1>2 DEF Sent
  <2>3. CASE k # s
    <3>1. work'[k] = work[k] /\ ran'[k] = ran[k]
      BY ONLY <2>1, <2>3, <1>4, k \in Streams
    <3> QED BY ONLY <3>1 DEF Sent
  <2> QED BY ONLY <2>2, <2>3
<1> QED BY ONLY <1>1, <1>2, <1>3, <1>4, <1>5, <1>6, <1>7, <1>9, <1>10 DEF Ran

LEMMA CopyRuns ==
  ASSUME Params, StreamsInv, Execute("copy")
  PROVE  StreamsInv'
<1>0. HostInv /\ RecordInv /\ QueueInv /\ TensorInv
  BY DEF StreamsInv
<1>1. PICK s, f, c, w : s = work["schedule"] /\ f = work["forward"] /\ c = work["copy"] /\ w = c[1]
  OBVIOUS
<1>2. "copy" \in Streams
  BY DEF Streams
<1>3. c \in Seq(Items) /\ w \in Items /\ Ran("copy", c, w) /\ HostInv' /\ Sent("copy")' = Sent("copy")
  BY ONLY <1>1, <1>2, Params, StreamsInv, Execute("copy"), ExecuteIs
<1>4. /\ c # << >> /\ dev' = Effect(w.op, w.batch)
      /\ cpu_buf' = (IF w.op = "copy" THEN w.batch ELSE cpu_buf)
      /\ host' = host /\ next' = next /\ n' = n /\ rows' = rows
      /\ can_use_placeholder' = can_use_placeholder /\ disable_overlap' = disable_overlap
      /\ result_queue' = result_queue /\ overlapped' = overlapped /\ pinned' = pinned /\ pinned_input' = pinned_input
      /\ results' = results
      /\ HostAt' = HostAt /\ Built' = Built /\ Forwarded' = Forwarded /\ Drawn' = Drawn /\ Reached' = Reached
      /\ (w.op = "wait" => ran[w.on] >= w.for)
      /\ work' = [work EXCEPT !["copy"] = Tail(@)] /\ ran' = [ran EXCEPT !["copy"] = @ + 1]
      /\ seq_lens' = (IF w.op = "add" THEN seq_lens + 1 ELSE seq_lens)
      /\ stored' = (IF w.op = "store" THEN stored \cup {w.batch} ELSE stored)
  BY ONLY <1>3 DEF Ran
<1>5. /\ work'["schedule"] = s /\ work'["forward"] = f /\ work'["copy"] = Tail(c) /\ DOMAIN work' = Streams
      /\ ran'["schedule"] = ran["schedule"] /\ ran'["forward"] = ran["forward"]
  BY ONLY <1>0, <1>1, <1>4 DEF QueueInv, Streams, HostInv
<1>6. /\ CopyQueue(c, f, ran["forward"], Drawn, cpu_buf)
      /\ ForwardQueue(f, s, ran["schedule"], Forwarded, Drawn, cpu_buf, stored)
      /\ ScheduleQueue(s, n, stored, seq_lens, Reached)
  BY ONLY <1>0, <1>1 DEF QueueInv
<1>7. Drawn \in Nat /\ ran["forward"] \in Nat
  BY ONLY Params, StreamsInv, QueueTypes, "forward" \in Streams DEF Streams
<1>8. w.op \in {"wait", "copy"} /\ (w.op = "wait" => w.on = "forward")
  <2>1. 1 \in 1..Len(c)
    BY ONLY <1>3, <1>4, TailIs
  <2> QED BY ONLY <2>1, <1>1, <1>6 DEF CopyQueue
<1>9. dev' = dev /\ seq_lens' = seq_lens /\ stored' = stored
  BY ONLY <1>4, <1>8 DEF Effect
<1>10. RecordInv'
  <2>1. host # "clone" /\ result_queue # << >>
    BY ONLY <1>0, <1>1, <1>4 DEF RecordInv
  <2> QED BY ONLY <2>1, <1>0, <1>3, <1>4 DEF RecordInv
<1>11. QueueInv'
  <2>1. c[1].op = "wait" => ran["forward"] >= c[1].for
    BY ONLY <1>1, <1>4, <1>8
  <2>2. cpu_buf' = IF c[1].op = "copy" THEN c[1].batch ELSE cpu_buf
    BY ONLY <1>1, <1>4
  <2>3. /\ CopyQueue(Tail(c), f, ran["forward"], Drawn, cpu_buf')
        /\ ForwardQueue(f, s, ran["schedule"], Forwarded, Drawn, cpu_buf', stored)
    BY ONLY <2>1, <2>2, <1>4, <1>6, <1>7, CopyQueuePop
  <2> QED BY ONLY <2>3, <1>4, <1>5, <1>6, <1>9 DEF QueueInv
<1>12. TensorInv'
  BY ONLY <1>0, <1>1, <1>4, <1>5, <1>9 DEF TensorInv
<1> QED BY ONLY <1>3, <1>10, <1>11, <1>12 DEF StreamsInv

LEMMA ForwardRuns ==
  ASSUME Params, StreamsInv, Execute("forward")
  PROVE  StreamsInv'
<1>0. HostInv /\ RecordInv /\ QueueInv /\ TensorInv
  BY DEF StreamsInv
<1>1. PICK s, f, c, w : s = work["schedule"] /\ f = work["forward"] /\ c = work["copy"] /\ w = f[1]
  OBVIOUS
<1>2. "forward" \in Streams /\ "copy" \in Streams
  BY DEF Streams
<1>3. f \in Seq(Items) /\ w \in Items /\ Ran("forward", f, w) /\ HostInv' /\ Sent("copy")' = Sent("copy")
  BY ONLY <1>1, <1>2, Params, StreamsInv, Execute("forward"), ExecuteIs
<1>4. /\ f # << >> /\ dev' = Effect(w.op, w.batch)
      /\ cpu_buf' = (IF w.op = "copy" THEN w.batch ELSE cpu_buf)
      /\ host' = host /\ next' = next /\ n' = n /\ rows' = rows
      /\ can_use_placeholder' = can_use_placeholder /\ disable_overlap' = disable_overlap
      /\ result_queue' = result_queue /\ overlapped' = overlapped /\ pinned' = pinned /\ pinned_input' = pinned_input
      /\ results' = results
      /\ HostAt' = HostAt /\ Built' = Built /\ Forwarded' = Forwarded /\ Drawn' = Drawn /\ Reached' = Reached
      /\ (w.op = "wait" => ran[w.on] >= w.for)
      /\ work' = [work EXCEPT !["forward"] = Tail(@)] /\ ran' = [ran EXCEPT !["forward"] = @ + 1]
      /\ seq_lens' = (IF w.op = "add" THEN seq_lens + 1 ELSE seq_lens)
      /\ stored' = (IF w.op = "store" THEN stored \cup {w.batch} ELSE stored)
  BY ONLY <1>3 DEF Ran
<1>5. /\ work'["schedule"] = s /\ work'["forward"] = Tail(f) /\ work'["copy"] = c /\ DOMAIN work' = Streams
      /\ ran'["schedule"] = ran["schedule"] /\ ran'["forward"] = ran["forward"] + 1
  BY ONLY <1>0, <1>1, <1>4 DEF QueueInv, Streams, HostInv
<1>6. /\ CopyQueue(c, f, ran["forward"], Drawn, cpu_buf)
      /\ ForwardQueue(f, s, ran["schedule"], Forwarded, Drawn, cpu_buf, stored)
      /\ ScheduleQueue(s, n, stored, seq_lens, Reached)
  BY ONLY <1>0, <1>1 DEF QueueInv
<1>7. /\ Drawn \in Nat /\ ran["forward"] \in Nat /\ ran["schedule"] \in Nat /\ n \in Nat /\ n <= Batches
      /\ (HostAt = "begin" \/ n >= 1)
  BY ONLY <1>0, Params, StreamsInv, QueueTypes, "forward" \in Streams, "schedule" \in Streams DEF Streams, HostInv
<1>8. Forwarded \in Nat /\ Forwarded <= Built /\ Forwarded <= n /\ Built \in Nat
  BY ONLY <1>7 DEF Forwarded, Built
<1>9. w.op \in {"wait", "resolve", "forward", "sample", "store"} /\ (w.op = "wait" => w.on = "schedule")
  <2>1. 1 \in 1..Len(f)
    BY ONLY <1>3, <1>4, TailIs
  <2> QED BY ONLY <2>1, <1>1, <1>6 DEF ForwardQueue
<1>10. seq_lens' = seq_lens /\ cpu_buf' = cpu_buf
  BY ONLY <1>4, <1>9
<1>11. /\ ForwardQueue(Tail(f), s, ran["schedule"], Forwarded, Drawn, cpu_buf, stored')
       /\ CopyQueue(c, Tail(f), ran["forward"] + 1, Drawn, cpu_buf)
       /\ ScheduleQueue(s, n, stored', seq_lens, Reached)
       /\ w.batch \in 1..Forwarded
       /\ w.op \in {"sample", "store"} => w.batch <= Drawn
       /\ w.op # "wait" => Later(s, w.batch)
       /\ w.op = "resolve" => w.batch - 1 \in stored
  <2>1. f[1].op = "wait" => ran["schedule"] >= f[1].for
    BY ONLY <1>1, <1>4, <1>9
  <2>2. stored' = IF f[1].op = "store" THEN stored \cup {f[1].batch} ELSE stored
    BY ONLY <1>1, <1>4
  <2>3. PICK new : new = stored'
    OBVIOUS
  <2>4. PICK l, p, r, m, y : l = Drawn /\ p = Forwarded /\ r = ran["schedule"] /\ m = ran["forward"] /\ y = Reached
    OBVIOUS
  <2>5. /\ ForwardReady(Tail(f), s, c, r, m + 1, p, l, cpu_buf, new, n, seq_lens, y)
        /\ f[1].batch \in 1..p
        /\ f[1].op \in {"sample", "store"} => f[1].batch <= l
        /\ f[1].op # "wait" => Later(s, f[1].batch)
        /\ f[1].op = "resolve" => f[1].batch - 1 \in stored
    <3>1. l \in Nat /\ m \in Nat /\ r \in Nat /\ p \in Nat
      BY ONLY <2>4, <1>7, <1>8
    <3>2. ForwardReady(f, s, c, r, m, p, l, cpu_buf, stored, n, seq_lens, y)
      BY ONLY <2>4, <1>6 DEF ForwardReady
    <3>3. f[1].op = "wait" => r >= f[1].for
      BY ONLY <2>1, <2>4
    <3>4. new = (IF f[1].op = "store" THEN stored \cup {f[1].batch} ELSE stored) /\ f # << >>
      BY ONLY <2>2, <2>3, <1>4
    <3> QED BY ONLY <3>1, <3>2, <3>3, <3>4, ForwardQueuePop
  <2> QED BY ONLY <2>3, <2>4, <2>5, <1>1 DEF ForwardReady
<1>12. RecordInv'
  BY ONLY <1>0, <1>1, <1>3, <1>4, <1>5 DEF RecordInv
<1>13. QueueInv'
  BY ONLY <1>4, <1>5, <1>10, <1>11 DEF QueueInv
<1>14. w.batch \in 1..Batches /\ w.batch \in Nat \ {0} /\ w.batch <= Built /\ w.op \in Ops
  <2>1. Batches \in Nat
    BY DEF Params
  <2> QED BY ONLY <2>1, <1>7, <1>8, <1>9, <1>11 DEF Ops
<1>15. /\ dev' = [c2 \in 1..Batches |-> dev'[c2]] /\ \A c2 \in 1..Batches \ {w.batch} : dev'[c2] = dev[c2]
       /\ Changed(dev'[w.batch], dev[w.batch], w.op, seq_lens, pinned, InputOf(w.op, w.batch),
                  rows[w.batch], rows[dev[w.batch].params])
  <2>1. PICK b \in 1..Batches : b = w.batch
    BY ONLY <1>14
  <2>2. PICK d : d = dev[b]
    OBVIOUS
  <2>3. d = [seq_lens |-> d.seq_lens, params |-> d.params, input |-> d.input, used |-> d.used,
             tokens |-> d.tokens] /\ dev = [c2 \in 1..Batches |-> dev[c2]]
    BY ONLY <2>2, <1>0, b \in 1..Batches DEF TensorInv, Tensors
  <2>4. PICK o \in Ops : o = w.op
    BY ONLY <1>14
  <2>5. dev' = Effect(o, b)
    BY ONLY <2>1, <2>4, <1>4
  <2>6. /\ dev' = [c2 \in 1..Batches |-> dev'[c2]] /\ \A c2 \in 1..Batches \ {b} : dev'[c2] = dev[c2]
        /\ Changed(dev'[b], d, o, seq_lens, pinned, InputOf(o, b), rows[b], rows[d.params])
    BY ONLY <2>2, <2>3, <2>5, o \in Ops, b \in 1..Batches, EffectIs
  <2> QED BY ONLY <2>1, <2>2, <2>4, <2>6
<1>16. ASSUME NEW b \in 1..Batches
       PROVE  Tensors(dev'[b], b, s, Tail(f), Built, Drawn, pinned, pinned_input, overlapped, rows[b])
  <2>1. Tensors(dev[b], b, s, f, Built, Drawn, pinned, pinned_input, overlapped, rows[b])
    BY ONLY <1>0, <1>1, b \in 1..Batches DEF TensorInv
  <2>2. PICK d, e, o : d = dev[b] /\ e = dev'[b] /\ o = w.op
    OBVIOUS
  <2>3. b \in Nat \ {0} /\ f[1].op = o
    BY ONLY <2>2, <1>1, b \in 1..Batches
  <2>4. f[1].batch # b => e = d
    BY ONLY <2>2, <1>1, <1>15, b \in 1..Batches
  <2>5. PICK seen : seen = rows[d.params]
    OBVIOUS
  <2>6. PICK in : in = InputOf(o, b)
    OBVIOUS
  <2>7. ASSUME f[1].batch = b PROVE ForwardTurn(e, d, o, b, s, Built, Drawn, seq_lens, pinned, in, rows[b], seen)
    <3>1. w.batch = b
      BY ONLY <2>7, <1>1
    <3>2. Changed(e, d, o, seq_lens, pinned, in, rows[b], seen)
      BY ONLY <3>1, <2>2, <2>5, <2>6, <1>15
    <3>3. o = "resolve" => in = b - 1
      BY ONLY <3>1, <2>2, <2>6, <1>11, "resolve" # "input" DEF InputOf
    <3> QED BY ONLY <3>1, <3>2, <3>3, <2>2, <1>11, <1>14 DEF ForwardTurn
  <2>8. d.params = b => seen = rows[b]
    BY ONLY <2>5
  <2>9. Tensors(e, b, s, Tail(f), Built, Drawn, pinned, pinned_input, overlapped, rows[b])
    <3>1. PICK g, l, kinds : g = Built /\ l = Drawn /\ kinds = rows[b]
      OBVIOUS
    <3>2. Tensors(d, b, s, f, g, l, pinned, pinned_input, overlapped, kinds)
      BY ONLY <2>1, <2>2, <3>1
    <3>3. f[1].batch = b => ForwardTurn(e, d, f[1].op, b, s, g, l, seq_lens, pinned, in, kinds, seen)
      BY ONLY <2>3, <2>7, <3>1
    <3>4. f[1].op \in {"wait", "resolve", "forward", "sample", "store"} /\ (d.params = b => seen = kinds)
      BY ONLY <2>8, <3>1, <1>1, <1>9
    <3>5. Tensors(e, b, s, Tail(f), g, l, pinned, pinned_input, overlapped, kinds)
      BY ONLY <3>2, <3>3, <3>4, <2>3, <2>4, <1>3, <1>4, TensorsForwardRun
    <3> QED BY ONLY <3>1, <3>5
  <2> QED BY ONLY <2>2, <2>9
<1>17. HostAt \in {"init_new", "run_forward"} /\ ~can_use_placeholder /\ n > 1 =>
         dev'[n].input = n - 1 \/ Has(s, "input", n)
  <2>1. ASSUME HostAt \in {"init_new", "run_forward"} PROVE w.batch # n
    <3>1. Forwarded = n - 1
      BY ONLY <2>1 DEF Forwarded
    <3> QED BY ONLY <3>1, <1>7, <1>11
  <2>2. HostAt \in {"init_new", "run_forward"} /\ n > 1 => dev'[n] = dev[n]
    <3>1. n > 1 => n \in 1..Batches
      BY ONLY <1>7, Params DEF Params
    <3> QED BY ONLY <3>1, <2>1, <1>15
  <2> QED BY ONLY <2>2, <1>0, <1>1 DEF TensorInv
<1>18. TensorInv'
  BY ONLY <1>0, <1>4, <1>5, <1>15, <1>16, <1>17 DEF TensorInv
<1> QED BY ONLY <1>3, <1>12, <1>13, <1>18 DEF StreamsInv

LEMMA ScheduleRuns ==
  ASSUME Params, StreamsInv, Execute("schedule")
  PROVE  StreamsInv'
<1>0. HostInv /\ RecordInv /\ QueueInv /\ TensorInv
  BY DEF StreamsInv
<1>1. PICK s, f, c, w : s = work["schedule"] /\ f = work["forward"] /\ c = work["copy"] /\ w = s[1]
  OBVIOUS
<1>2. "schedule" \in Streams /\ "copy" \in Streams
  BY DEF Streams
<1>3. s \in Seq(Items) /\ w \in Items /\ Ran("schedule", s, w) /\ HostInv' /\ Sent("copy")' = Sent("copy")
  BY ONLY <1>1, <1>2, Params, StreamsInv, Execute("schedule"), ExecuteIs
<1>4. /\ s # << >> /\ dev' = Effect(w.op, w.batch)
      /\ cpu_buf' = (IF w.op = "copy" THEN w.batch ELSE cpu_buf)
      /\ host' = host /\ next' = next /\ n' = n /\ rows' = rows
      /\ can_use_placeholder' = can_use_placeholder /\ disable_overlap' = disable_overlap
      /\ result_queue' = result_queue /\ overlapped' = overlapped /\ pinned' = pinned /\ pinned_input' = pinned_input
      /\ results' = results
      /\ HostAt' = HostAt /\ Built' = Built /\ Forwarded' = Forwarded /\ Drawn' = Drawn /\ Reached' = Reached
      /\ work' = [work EXCEPT !["schedule"] = Tail(@)] /\ ran' = [ran EXCEPT !["schedule"] = @ + 1]
      /\ seq_lens' = (IF w.op = "add" THEN seq_lens + 1 ELSE seq_lens)
      /\ stored' = (IF w.op = "store" THEN stored \cup {w.batch} ELSE stored)
  BY ONLY <1>3 DEF Ran
<1>5. /\ work'["schedule"] = Tail(s) /\ work'["forward"] = f /\ work'["copy"] = c /\ DOMAIN work' = Streams
      /\ ran'["schedule"] = ran["schedule"] + 1 /\ ran'["forward"] = ran["forward"]
  BY ONLY <1>0, <1>1, <1>4 DEF QueueInv, Streams, HostInv
<1>6. /\ CopyQueue(c, f, ran["forward"], Drawn, cpu_buf)
      /\ ForwardQueue(f, s, ran["schedule"], Forwarded, Drawn, cpu_buf, stored)
      /\ ScheduleQueue(s, n, stored, seq_lens, Reached)
  BY ONLY <1>0, <1>1 DEF QueueInv
<1>7. ran["schedule"] \in Nat /\ n \in Nat /\ n <= Batches
  BY ONLY Params, StreamsInv, QueueTypes, "schedule" \in Streams DEF Streams
<1>8. /\ ScheduleQueue(Tail(s), n, stored, seq_lens', Reached)
      /\ ForwardQueue(f, Tail(s), ran["schedule"] + 1, Forwarded, Drawn, cpu_buf, stored)
      /\ w.op \in {"wait", "input", "add", "clone", "params"} /\ w.batch \in 1..n
      /\ w.op = "clone" => seq_lens = w.batch
  BY ONLY <1>1, <1>4, <1>6, <1>7, ScheduleQueuePop
<1>9. stored' = stored /\ cpu_buf' = cpu_buf
  BY ONLY <1>4, <1>8
<1>12. RecordInv'
  BY ONLY <1>0, <1>1, <1>3, <1>4, <1>5 DEF RecordInv
<1>13. QueueInv'
  BY ONLY <1>4, <1>5, <1>6, <1>8, <1>9 DEF QueueInv
<1>14. w.batch \in 1..Batches /\ w.op \in Ops
  <2>1. Batches \in Nat
    BY DEF Params
  <2> QED BY ONLY <2>1, <1>7, <1>8 DEF Ops
<1>15. /\ dev' = [c2 \in 1..Batches |-> dev'[c2]] /\ \A c2 \in 1..Batches \ {w.batch} : dev'[c2] = dev[c2]
       /\ Changed(dev'[w.batch], dev[w.batch], w.op, seq_lens, pinned, InputOf(w.op, w.batch),
                  rows[w.batch], rows[dev[w.batch].params])
  <2>1. PICK b \in 1..Batches : b = w.batch
    BY ONLY <1>14
  <2>2. PICK d : d = dev[b]
    OBVIOUS
  <2>3. d = [seq_lens |-> d.seq_lens, params |-> d.params, input |-> d.input, used |-> d.used,
             tokens |-> d.tokens] /\ dev = [c2 \in 1..Batches |-> dev[c2]]
    BY ONLY <2>2, <1>0, b \in 1..Batches DEF TensorInv, Tensors
  <2>4. PICK o \in Ops : o = w.op
    BY ONLY <1>14
  <2>5. dev' = Effect(o, b)
    BY ONLY <2>1, <2>4, <1>4
  <2>6. /\ dev' = [c2 \in 1..Batches |-> dev'[c2]] /\ \A c2 \in 1..Batches \ {b} : dev'[c2] = dev[c2]
        /\ Changed(dev'[b], d, o, seq_lens, pinned, InputOf(o, b), rows[b], rows[d.params])
    BY ONLY <2>2, <2>3, <2>5, o \in Ops, b \in 1..Batches, EffectIs
  <2> QED BY ONLY <2>1, <2>2, <2>4, <2>6
<1>16. ASSUME NEW b \in 1..Batches
       PROVE  Tensors(dev'[b], b, Tail(s), f, Built, Drawn, pinned, pinned_input, overlapped, rows[b])
  <2>1. Tensors(dev[b], b, s, f, Built, Drawn, pinned, pinned_input, overlapped, rows[b])
    BY ONLY <1>0, <1>1, b \in 1..Batches DEF TensorInv
  <2>2. PICK d, e, o : d = dev[b] /\ e = dev'[b] /\ o = w.op
    OBVIOUS
  <2>3. b \in Nat \ {0} /\ s[1].op = o
    BY ONLY <2>2, <1>1, b \in 1..Batches
  <2>4. s[1].batch # b => e = d
    BY ONLY <2>2, <1>1, <1>15, b \in 1..Batches
  <2>5. PICK seen : seen = rows[d.params]
    OBVIOUS
  <2>6. ASSUME s[1].batch = b PROVE Changed(e, d, o, seq_lens, pinned, pinned_input, rows[b], seen)
    <3>1. w.batch = b
      BY ONLY <2>6, <1>1
    <3>2. Changed(e, d, o, seq_lens, pinned, InputOf(o, b), rows[b], seen)
      BY ONLY <3>1, <2>2, <2>5, <1>15
    <3> QED BY ONLY <3>2, <2>2, <1>8 DEF Changed, InputOf
  <2>7. s[1].op = "clone" => seq_lens = s[1].batch
    BY ONLY <1>1, <1>8
  <2>8. s[1].op \in {"wait", "input", "add", "clone", "params"}
    BY ONLY <1>1, <1>8
  <2>9. Tensors(e, b, Tail(s), f, Built, Drawn, pinned, pinned_input, overlapped, rows[b])
    BY ONLY <2>1, <2>2, <2>3, <2>4, <2>6, <2>7, <2>8, <1>3, <1>4, TensorsScheduleRun
  <2> QED BY ONLY <2>2, <2>9
<1>17. HostAt \in {"init_new", "run_forward"} /\ ~can_use_placeholder /\ n > 1 =>
         dev'[n].input = n - 1 \/ Has(Tail(s), "input", n)
  <2>1. SUFFICES ASSUME HostAt \in {"init_new", "run_forward"}, ~can_use_placeholder, n > 1
                 PROVE  dev'[n].input = n - 1 \/ Has(Tail(s), "input", n)
    OBVIOUS
  <2>2. n \in 1..Batches
    BY ONLY <2>1, <1>7, Params DEF Params
  <2>3. PICK d, e, o : d = dev[n] /\ e = dev'[n] /\ o = w.op
    OBVIOUS
  <2>4. d.input = n - 1 \/ Has(s, "input", n)
    BY ONLY <2>1, <2>3, <1>0, <1>1 DEF TensorInv
  <2>5. Has(s, "input", n) => Has(Tail(s), "input", n) \/ (o = "input" /\ w.batch = n)
    BY ONLY <2>3, <1>1, <1>3, <1>4, HasPop
  <2>6. CASE w.batch # n
    BY ONLY <2>2, <2>3, <2>4, <2>5, <2>6, <1>15
  <2>7. CASE w.batch = n
    <3>1. Changed(e, d, o, seq_lens, pinned, InputOf(o, n), rows[n], rows[d.params])
      BY ONLY <2>3, <2>7, <1>15
    <3>2. CASE o = "input"
      <4>1. e.input = pinned_input
        BY ONLY <3>1, <3>2 DEF Changed, InputOf
      <4>2. Has(s, "input", n)
        <5>1. 1 \in 1..Len(s)
          BY ONLY <1>3, <1>4, TailIs
        <5> QED BY ONLY <5>1, <3>2, <2>3, <2>7, <1>1 DEF Has
      <4>3. pinned_input = n - 1
        BY ONLY <4>2, <2>2, <1>0, <1>1 DEF TensorInv, Tensors
      <4> QED BY ONLY <4>1, <4>3, <2>3
    <3>3. CASE o # "input"
      <4>1. e.input = d.input
        BY ONLY <3>1, <3>3, <2>3, <1>8 DEF Changed
      <4> QED BY ONLY <4>1, <3>3, <2>3, <2>4, <2>5
    <3> QED BY ONLY <3>2, <3>3
  <2> QED BY ONLY <2>6, <2>7
<1>18. TensorInv'
  BY ONLY <1>0, <1>4, <1>5, <1>15, <1>16, <1>17 DEF TensorInv
<1> QED BY ONLY <1>3, <1>12, <1>13, <1>18 DEF StreamsInv

---------------------------------------------------------------------------
(* Theorems.                                                                *)

\* In every behaviour the invariant holds.
THEOREM StreamsInvariance ==
  ASSUME Params
  PROVE  StreamsSpec => []StreamsInv
<1>1. StreamsInit => StreamsInv
  BY ONLY Params, InitStreams
<1>2. StreamsInv /\ [StreamsNext]_dvars => StreamsInv'
  <2>1. SUFFICES ASSUME StreamsInv, [StreamsNext]_dvars PROVE StreamsInv'
    OBVIOUS
  <2>2. CASE Begin
    BY ONLY <2>1, <2>2, Params, BeginStreams
  <2>3. CASE Schedule
    BY ONLY <2>1, <2>3, Params, ScheduleStreams
  <2>4. CASE InitNew
    BY ONLY <2>1, <2>4, Params, InitNewStreams
  <2>5. CASE RunForward
    BY ONLY <2>1, <2>5, Params, RunForwardStreams
  <2>6. CASE RunSample
    BY ONLY <2>1, <2>6, Params, RunSampleStreams
  <2>7. CASE Sync
    BY ONLY <2>1, <2>7, Params, SyncStreams
  <2>8. CASE CloneResult
    BY ONLY <2>1, <2>8, Params, CloneStreams
  <2>9. ASSUME NEW s \in Streams, Execute(s) PROVE StreamsInv'
    <3>1. s = "schedule" \/ s = "forward" \/ s = "copy"
      BY ONLY s \in Streams DEF Streams
    <3>2. CASE s = "schedule"
      <4>1. Execute("schedule")
        BY ONLY <2>9, <3>2
      <4> QED BY ONLY <4>1, <2>1, Params, ScheduleRuns
    <3>3. CASE s = "forward"
      <4>1. Execute("forward")
        BY ONLY <2>9, <3>3
      <4> QED BY ONLY <4>1, <2>1, Params, ForwardRuns
    <3>4. CASE s = "copy"
      <4>1. Execute("copy")
        BY ONLY <2>9, <3>4
      <4> QED BY ONLY <4>1, <2>1, Params, CopyRuns
    <3> QED BY ONLY <3>1, <3>2, <3>3, <3>4
  <2>10. CASE UNCHANGED dvars
    BY ONLY <2>1, <2>10 DEF dvars, StreamsInv, HostInv, RecordInv, QueueInv, TensorInv, HostAt, Built,
       Forwarded, Drawn, Reached, Sent
  <2> QED BY ONLY <2>1, <2>2, <2>3, <2>4, <2>5, <2>6, <2>7, <2>8, <2>9, <2>10 DEF StreamsNext
<1> QED BY <1>1, <1>2, PTL DEF StreamsSpec

\* Whatever the relative speed of the three streams, and however often the host overlaps
\* two steps, a forward pass reads the lengths of its own step and the tokens of the batch
\* before, a record is given its own tokens, and the sampling parameters are the batch's
\* own unless the next batch was built over it.
THEOREM BatchReadsOwnTheorem ==
  ASSUME Params
  PROVE  StreamsSpec => []BatchReadsOwn
<1>1. StreamsInv => BatchReadsOwn
  BY DEF StreamsInv, TensorInv, Tensors, BatchReadsOwn
<1> QED BY <1>1, StreamsInvariance, PTL

\* The routes of the sampler: what it may return for row i.
LEMMA RouteObeys ==
  ASSUME NEW kinds \in Seq(Kinds), NEW seen, NEW own, own => seen = kinds,
         NEW i \in DOMAIN Sampled(kinds, seen)
  PROVE  \/ Sampled(kinds, seen)[i] \subseteq Allowed(kinds[i])
         \/ ~own /\ ~AllGreedy(kinds)
         \/ ~AllGreedy(kinds) /\ ~AllNonGreedy(kinds) /\ kinds[i] = "narrow"
<1>1. i \in DOMAIN kinds /\ kinds[i] \in Kinds
  BY DEF Sampled
<1>2. CASE AllGreedy(kinds)
  <2>1. kinds[i] = "greedy" /\ ~AllNonGreedy(kinds)
    BY ONLY <1>1, <1>2 DEF AllGreedy, AllNonGreedy
  <2>2. Sampled(kinds, seen)[i] = {"best"}
    BY ONLY <2>1, <1>1, <1>2 DEF Sampled
  <2> QED BY ONLY <2>1, <2>2 DEF Allowed
<1>3. CASE ~AllGreedy(kinds) /\ AllNonGreedy(kinds) /\ own
  <2>1. Sampled(kinds, seen)[i] = Fused(kinds[i], Filters(kinds))
    BY ONLY <1>1, <1>3, own => seen = kinds DEF Sampled
  <2>2. kinds[i] = "narrow" \/ kinds[i] = "wide"
    BY ONLY <1>1, <1>3 DEF AllNonGreedy, Kinds
  <2>3. kinds[i] = "narrow" => Filters(kinds)
    BY ONLY <1>1 DEF Filters
  <2>4. Fused(kinds[i], Filters(kinds)) \subseteq Allowed(kinds[i])
    BY ONLY <2>2, <2>3 DEF Fused, Allowed
  <2> QED BY ONLY <2>1, <2>4
<1>4. CASE ~AllGreedy(kinds) /\ ~AllNonGreedy(kinds) /\ own
  <2>1. Sampled(kinds, seen)[i] = Gumbel(kinds[i])
    BY ONLY <1>1, <1>4, own => seen = kinds DEF Sampled
  <2>2. kinds[i] # "narrow" => Gumbel(kinds[i]) \subseteq Allowed(kinds[i])
    BY ONLY <1>1 DEF Gumbel, Allowed, Kinds
  <2> QED BY ONLY <2>1, <2>2, <1>4
<1> QED BY ONLY <1>2, <1>3, <1>4

\* A row gets a token its own parameters allow, but for rows whose parameters the host
\* overwrote first and the cut rows of a batch that mixes greedy and sampled rows.
THEOREM TokensObeyParamsTheorem ==
  ASSUME Params
  PROVE  StreamsSpec => []TokensObeyParams
<1>1. ASSUME StreamsInv PROVE TokensObeyParams
  <2>1. ASSUME NEW b \in 1..Batches, NEW i \in DOMAIN dev[b].tokens
        PROVE  \/ dev[b].tokens[i] \subseteq Allowed(rows[b][i])
               \/ dev[b].params # b /\ ~AllGreedy(rows[b])
               \/ ~AllGreedy(rows[b]) /\ ~AllNonGreedy(rows[b]) /\ rows[b][i] = "narrow"
    <3>1. dev[b].tokens # << >>
      <4>1. DOMAIN << >> = {}
        OBVIOUS
      <4> QED BY ONLY <4>1, i \in DOMAIN dev[b].tokens
    <3>2. b <= Drawn /\ Routed(dev[b].tokens, rows[b], dev[b].params = b)
      BY ONLY <3>1, <1>1, b \in 1..Batches DEF StreamsInv, TensorInv, Tensors
    <3>3. PICK seen : dev[b].tokens = Sampled(rows[b], seen) /\ (dev[b].params = b => seen = rows[b])
      BY ONLY <3>2 DEF Routed
    <3>4. b \in 1..n
      <4>1. n \in Nat /\ Drawn <= n /\ Drawn \in Nat
        <5>1. n \in Nat /\ Drawn \in Nat
          BY ONLY <1>1, Params, QueueTypes
        <5> QED BY ONLY <5>1 DEF Drawn
      <4> QED BY ONLY <4>1, <3>2, b \in 1..Batches
    <3>5. rows[b] \in Seq(Kinds)
      <4>1. rows \in Seq(Seq(Kinds)) /\ Len(rows) = n
        BY ONLY <1>1 DEF StreamsInv, HostInv
      <4> QED BY ONLY <4>1, <3>4, Elements
    <3>6. PICK kinds \in Seq(Kinds) : kinds = rows[b]
      BY ONLY <3>5
    <3>7. PICK own : own = (dev[b].params = b)
      OBVIOUS
    <3>8. i \in DOMAIN Sampled(kinds, seen)
      BY ONLY <3>3, <3>6, i \in DOMAIN dev[b].tokens
    <3>9. own => seen = kinds
      BY ONLY <3>3, <3>6, <3>7
    <3>10. \/ Sampled(kinds, seen)[i] \subseteq Allowed(kinds[i])
           \/ ~own /\ ~AllGreedy(kinds)
           \/ ~AllGreedy(kinds) /\ ~AllNonGreedy(kinds) /\ kinds[i] = "narrow"
      BY ONLY <3>8, <3>9, kinds \in Seq(Kinds), RouteObeys
    <3> QED BY ONLY <3>3, <3>6, <3>7, <3>10
  <2> QED BY ONLY <2>1 DEF TokensObeyParams
<1> QED BY <1>1, StreamsInvariance, PTL
=============================================================================
