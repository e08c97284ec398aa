---------------------------- MODULE RtpTimeProofs ----------------------------
(***************************************************************************)
(* The clock of RtpTime, for every modulus, clock rate and packet spacing  *)
(* that the assumption allows; in particular for 32-bit timestamps at 90   *)
(* kHz and gaps of up to 2^31 ticks.                                       *)
(***************************************************************************)
EXTENDS RtpTime, TLAPS

\* Quotient and remainder.
LEMMA DivMod ==
    ASSUME NEW a \in Int, NEW n \in Nat \ {0}
    PROVE  /\ a \div n \in Int /\ a % n \in 0..(n - 1)
           /\ a = n * (a \div n) + (a % n)
OBVIOUS

\* ... are unique.
LEMMA ModUnique ==
    ASSUME NEW n \in Nat \ {0}, NEW q \in Int, NEW p \in Int,
           NEW r \in 0..(n - 1), NEW s \in 0..(n - 1),
           n * q + r = n * p + s
    PROVE  r = s
<1>1. n * (q - p) = s - r
  OBVIOUS
<1>2. CASE q - p >= 1
  <2>1. n * (q - p) >= n
    BY <1>2
  <2>. QED  BY <1>1, <2>1
<1>3. CASE q - p <= -1
  <2>1. n * (q - p) <= -n
    BY <1>3
  <2>. QED  BY <1>1, <2>1
<1>4. CASE q - p = 0
  BY <1>1, <1>4
<1>. QED  BY <1>2, <1>3, <1>4

\* A number that differs from the remainder by a multiple has that remainder.
LEMMA ModShift ==
    ASSUME NEW n \in Nat \ {0}, NEW a \in Int, NEW k \in Int,
           NEW r \in 0..(n - 1), a = n * k + r
    PROVE  a % n = r
BY DivMod, ModUnique

\* Reducing a summand first changes nothing.
LEMMA ModAdd ==
    ASSUME NEW n \in Nat \ {0}, NEW a \in Int, NEW b \in Int
    PROVE  ((a % n) + b) % n = (a + b) % n
<1> DEFINE q == a \div n
           p == (a + b) \div n
           r == (a + b) % n
<1>1. q \in Int /\ a % n \in Int /\ a = n * q + (a % n)
  BY DivMod
<1>2. p \in Int /\ r \in 0..(n - 1) /\ a + b = n * p + r
  BY DivMod
<1>3. (a % n) + b = n * (p - q) + r
  <2>1. n * (p - q) = n * p - n * q
    BY <1>1, <1>2
  <2>. QED  BY <1>1, <1>2, <2>1
<1>. HIDE DEF q, p, r
<1>4. PICK k \in Int, m \in Int, c \in Int :
         k = p - q /\ m = a % n /\ c = m + b
  <2>1. \A m \in Int : m + b \in Int
    OBVIOUS
  <2>2. p - q \in Int
    BY <1>1, <1>2
  <2>. QED  BY <1>1, <2>1, <2>2
<1>5. c = n * k + r
  BY <1>3, <1>4
<1>6. c % n = r
  BY <1>2, <1>5, ModShift
<1>. QED  BY <1>4, <1>6 DEF r

\* Adding less than the modulus wraps at most once.
LEMMA ModStep ==
    ASSUME NEW n \in Nat \ {0}, NEW a \in Nat, NEW d \in Nat, d < n
    PROVE  (a + d) % n = IF (a % n) + d < n THEN (a % n) + d ELSE (a % n) + d - n
<1> DEFINE q == a \div n
           m == a % n
<1>1. q \in Int /\ m \in 0..(n - 1) /\ a = n * q + m
  BY DivMod
<1>. HIDE DEF q, m
<1>2. CASE m + d < n
  <2>1. m + d \in 0..(n - 1) /\ a + d = n * q + (m + d)
    BY <1>1, <1>2
  <2>2. (a + d) % n = m + d
    BY <1>1, <2>1, ModShift
  <2>. QED  BY <2>2, <1>2 DEF m
<1>3. CASE ~(m + d < n)
  <2>1. n * (q + 1) = n * q + n
    BY <1>1
  <2>2. m + d - n \in 0..(n - 1) /\ a + d = n * (q + 1) + (m + d - n)
    BY <1>1, <1>3, <2>1
  <2>3. PICK k \in Int, c \in Int, e \in 0..(n - 1) :
           k = q + 1 /\ c = a + d /\ e = m + d - n
    BY <1>1, <2>2
  <2>4. c = n * k + e
    BY <2>2, <2>3
  <2>5. c % n = e
    BY <2>4, ModShift
  <2>. QED  BY <2>3, <2>5, <1>3 DEF m
<1>. QED  BY <1>2, <1>3

-----------------------------------------------------------------------------
\* A tick count turned into a duration and back is the same, or one less
\* (internal.FromTS, internal.ToTS): both conversions round down.
LEMMA RoundTrip ==
    ASSUME NEW ts \in Nat
    PROVE  ToTS(FromTS(ts)) \in Nat /\ ToTS(FromTS(ts)) \in {ts - 1, ts}
<1>. USE TimeAssumption
<1>1. PICK a \in Nat : a = ts * Second
  OBVIOUS
<1>2. PICK t \in Int : t = a \div Rate
  BY <1>1, DivMod
<1>3. Rate * t <= a /\ a < Rate * t + Rate
  BY <1>1, <1>2
<1>4. t \in Nat
  <2>1. CASE t <= -1
    <3>1. Rate * t <= -Rate
      BY <2>1, <1>2
    <3>. QED  BY <1>1, <1>3, <3>1
  <2>. QED  BY <1>2, <2>1
<1>5. PICK b \in Nat : b = t * Rate
  BY <1>4
<1>6. PICK u \in Int : u = b \div Second
  BY <1>5, DivMod
<1>7. Second * u <= b /\ b < Second * u + Second
  BY <1>5, <1>6
<1>8. b <= ts * Second /\ ts * Second < b + Second
  BY <1>1, <1>3, <1>5
<1>9. u <= ts
  <2>1. CASE u >= ts + 1
    <3>1. Second * u >= Second * (ts + 1)
      BY <2>1, <1>6
    <3>2. Second * (ts + 1) = ts * Second + Second
      OBVIOUS
    <3>. QED  BY <3>1, <3>2, <1>7, <1>8
  <2>. QED  BY <2>1, <1>6
<1>10. u >= ts - 1
  <2>1. CASE u <= ts - 2
    <3>1. Second * u <= Second * (ts - 2)
      BY <2>1, <1>6
    <3>2. Second * (ts - 2) = ts * Second - 2 * Second
      OBVIOUS
    <3>. QED  BY <3>1, <3>2, <1>7, <1>8
  <2>. QED  BY <2>1, <1>6
<1>11. u >= 0
  <2>1. CASE u <= -1
    <3>1. Second * u <= -Second
      BY <2>1, <1>6
    <3>. QED  BY <3>1, <1>5, <1>7
  <2>. QED  BY <2>1, <1>6
<1>12. ToTS(FromTS(ts)) = u
  BY <1>1, <1>2, <1>5, <1>6 DEF ToTS, FromTS
<1>. QED  BY <1>6, <1>9, <1>10, <1>11, <1>12

-----------------------------------------------------------------------------
(***************************************************************************)
(* The invariant of a stream whose packets arrive in order.  NoDrift is    *)
(* not inductive: it follows from the sum of the sample counts being the   *)
(* difference of two converted clocks, however many packets lie between.   *)
(***************************************************************************)
ClockInv ==
    /\ cur = -1 => baseTS = 0 /\ lastTS = 0 /\ sent = first
    /\ cur # -1 => cur = sent /\ lastTS = cur % W /\ baseTS + lastTS = cur

FramerInv ==
    /\ ~got => total = 0
    /\ got => /\ playing /\ cur # -1
              /\ fts = ToTS(FromTS(cur))
              /\ total = (fts - ToTS(FromTS(start))) % W

TInv == TypeOK /\ ClockInv /\ FramerInv

\* Deframe follows a clock that advances by at most half the modulus.
LEMMA DeframeStep ==
    ASSUME TInv, cur # -1, NEW d \in 0..MaxStep, Deframe((sent + d) % W)
    PROVE  /\ lastTS' = (sent + d) % W /\ lastTS' \in 0..(W - 1)
           /\ baseTS' \in Nat
           /\ baseTS' + lastTS' = sent + d
<1>. USE TimeAssumption DEF TInv, TypeOK, ClockInv
<1>1. d < W /\ 2 * d <= W
  OBVIOUS
<1>2. PICK ts : ts = (sent + d) % W
  OBVIOUS
<1>3. ts = IF lastTS + d < W THEN lastTS + d ELSE lastTS + d - W
  <2>1. lastTS = sent % W /\ sent \in Nat /\ d \in Nat /\ W \in Nat \ {0}
    OBVIOUS
  <2>. QED  BY <1>1, <1>2, <2>1, ModStep
<1>4. baseTS' = (IF ts < lastTS /\ 2 * ts < W THEN baseTS + W ELSE baseTS) /\ lastTS' = ts
  BY <1>2 DEF Deframe, Wrapped
<1>5. ts \in 0..(W - 1) /\ baseTS' \in Nat /\ baseTS' + ts = sent + d
  BY <1>1, <1>3, <1>4
<1>. QED  BY <1>2, <1>4, <1>5

\* One packet, when Deframe has recovered its clock c.
LEMMA PacketStep ==
    ASSUME TInv, NEW c \in Nat, Packet(c), UNCHANGED reordered,
           sent' = c, lastTS' = c % W,
           lastTS' \in 0..(W - 1), baseTS' \in Nat, baseTS' + lastTS' = c
    PROVE  TInv'
<1>. USE TimeAssumption DEF TInv
<1>1. cur' = c /\ UNCHANGED <<first, playing, reordered>> /\ start' \in Nat
  BY DEF Packet, TypeOK
<1>2. ClockInv'
  <2>1. cur' # -1
    BY <1>1
  <2>. QED  BY <1>1, <2>1 DEF ClockInv
<1>3. CASE ~playing
  <2>1. UNCHANGED <<fts, got, total, start>>
    BY <1>3 DEF Packet
  <2>2. TypeOK'
    BY <1>1, <2>1 DEF TypeOK
  <2>3. ~got' /\ total' = 0
    BY <1>3, <2>1 DEF FramerInv
  <2>. QED  BY <1>2, <2>2, <2>3 DEF FramerInv
<1>4. CASE playing
  <2>1. PICK f \in Nat : f = ToTS(FromTS(c))
    BY RoundTrip
  <2>2. /\ fts' = f /\ got' = TRUE
        /\ total' = IF got THEN (total + (f - fts)) % W ELSE total
    BY <1>4, <2>1 DEF Packet, delta
  <2>3. PICK g \in Nat : g = ToTS(FromTS(start'))
    BY <1>1, RoundTrip
  <2>4. total' = (f - g) % W
    <3>1. CASE ~got
      <4>1. total' = 0 /\ f = g
        BY <1>4, <2>1, <2>2, <2>3, <3>1 DEF Packet, FramerInv
      <4>2. PICK z \in Int : z = f - g
        OBVIOUS
      <4>3. z = W * 0 + 0 /\ 0 \in 0..(W - 1)
        BY <4>1, <4>2
      <4>4. z % W = 0
        BY <4>3, ModShift
      <4>. QED  BY <4>1, <4>2, <4>4
    <3>2. CASE got
      <4>1. start' = start
        BY <3>2 DEF Packet
      <4>2. total = (fts - g) % W /\ fts \in Nat
        BY <2>3, <3>2, <4>1 DEF FramerInv, TypeOK
      <4>3. PICK a \in Int, b \in Int : a = fts - g /\ b = f - fts
        BY <4>2
      <4>4. total' = ((a % W) + b) % W
        BY <2>2, <3>2, <4>2, <4>3
      <4>5. a + b = f - g
        BY <4>2, <4>3
      <4>. QED  BY <4>4, <4>5, ModAdd
    <3>. QED  BY <3>1, <3>2
  <2>5. total' \in 0..(W - 1)
    <3>1. f - g \in Int
      OBVIOUS
    <3>. QED  BY <2>4, <3>1, DivMod
  <2>6. TypeOK'
    BY <1>1, <2>2, <2>5 DEF TypeOK
  <2>7. FramerInv'
    BY <1>1, <1>4, <2>1, <2>2, <2>3, <2>4 DEF FramerInv, ToTS, FromTS
  <2>. QED  BY <1>2, <2>6, <2>7
<1>. QED  BY <1>3, <1>4

\* Every step of a stream in order preserves the invariant.
LEMMA NextTInv == TInv /\ [NextInOrder]_vars => TInv'
<1>. SUFFICES ASSUME TInv, [NextInOrder]_vars PROVE TInv'
  OBVIOUS
<1>1. CASE First
  <2>1. PICK z \in Nat : z = first /\ z \in 0..(W - 1) /\ z = W * 0 + z
    BY TimeAssumption DEF TInv, TypeOK
  <2>2. z % W = z
    BY <2>1, TimeAssumption, ModShift
  <2>3. baseTS' = 0 /\ lastTS' = z
    BY <1>1, <2>1, <2>2 DEF First, Packet, Deframe, Wrapped, TInv, ClockInv
  <2>4. sent' = z /\ Packet(z) /\ UNCHANGED reordered
    BY <1>1, <2>1 DEF First, TInv, ClockInv
  <2>. QED  BY <2>1, <2>2, <2>3, <2>4, PacketStep
<1>2. CASE InOrder
  <2>1. PICK d \in 0..MaxStep : sent' = sent + d /\ Packet(sent + d)
    BY <1>2 DEF InOrder
  <2>2. PICK c \in Nat : c = sent + d
    BY DEF TInv, TypeOK
  <2>3. Deframe((sent + d) % W) /\ cur # -1 /\ UNCHANGED reordered
    BY <1>2, <2>1 DEF Packet, InOrder
  <2>. QED  BY <2>1, <2>2, <2>3, DeframeStep, PacketStep
<1>3. CASE Play
  BY <1>3 DEF Play, TInv, TypeOK, ClockInv, FramerInv, ToTS, FromTS
<1>4. CASE UNCHANGED vars
  BY <1>4 DEF vars, TInv, TypeOK, ClockInv, FramerInv, ToTS, FromTS
<1>. QED  BY <1>1, <1>2, <1>3, <1>4 DEF NextInOrder

\* The invariant holds until a packet is late.
THEOREM ClockInvariance == Spec => [](~reordered => TInv)
<1>1. Init => TInv
  <2>. SUFFICES ASSUME Init PROVE TInv
    OBVIOUS
  <2>1. TypeOK
    <3>1. playing \in BOOLEAN /\ got \in BOOLEAN /\ reordered \in BOOLEAN
      BY Zenon DEF Init
    <3>2. /\ first \in 0..(W - 1) /\ sent = first /\ cur = -1
          /\ baseTS = 0 /\ lastTS = 0 /\ fts = 0 /\ total = 0 /\ start = 0
      BY DEF Init
    <3>. QED  BY <3>1, <3>2, TimeAssumption DEF TypeOK
  <2>2. ClockInv
    BY DEF Init, ClockInv
  <2>3. FramerInv
    BY DEF Init, FramerInv
  <2>. QED  BY <2>1, <2>2, <2>3 DEF TInv
<1>2. (~reordered => TInv) /\ [Next]_vars => (~reordered => TInv)'
  <2>. SUFFICES ASSUME ~reordered => TInv, [Next]_vars, ~reordered' PROVE TInv'
    OBVIOUS
  <2>1. CASE Late
    BY <2>1 DEF Late
  <2>2. CASE [NextInOrder]_vars
    <3>1. ~reordered
      BY <2>2 DEF NextInOrder, First, InOrder, Play, vars
    <3>. QED  BY <2>2, <3>1, NextTInv
  <2>. QED  BY <2>1, <2>2 DEF Next
<1>. QED  BY <1>1, <1>2, PTL DEF Spec

\* Deframer recovers the sender's clock across any number of wraps.
THEOREM UnwrapCorrect == Spec => []UnwrapExact
<1>1. (~reordered => TInv) => UnwrapExact
  BY DEF TInv, ClockInv, UnwrapExact
<1>. QED  BY <1>1, ClockInvariance, PTL

\* The timestamps a viewer is sent follow the sender's clock within one tick,
\* for ever.
THEOREM FramerFollows == Spec => []NoDrift
<1>1. (~reordered => TInv) => NoDrift
  <2>. SUFFICES ASSUME TInv, got, ~reordered
                PROVE  \E e \in {-1, 0, 1} : total = (cur - start + e) % W
    BY DEF NoDrift
  <2>1. cur \in Nat /\ start \in Nat
    BY TimeAssumption DEF TInv, TypeOK, FramerInv
  <2>2. PICK f \in Nat : f = ToTS(FromTS(cur)) /\ f \in {cur - 1, cur}
    BY <2>1, RoundTrip
  <2>3. PICK g \in Nat : g = ToTS(FromTS(start)) /\ g \in {start - 1, start}
    BY <2>1, RoundTrip
  <2>4. total = (f - g) % W
    BY <2>2, <2>3 DEF TInv, FramerInv
  <2>5. PICK e \in {-1, 0, 1} : f - g = cur - start + e
    BY <2>1, <2>2, <2>3
  <2>. QED  BY <2>4, <2>5
<1>. QED  BY <1>1, ClockInvariance, PTL

-----------------------------------------------------------------------------
(***************************************************************************)
(* Packets in any order.  baseTS counts whole wraps, at least as many as   *)
(* the packet received last has behind it; two packets received one after  *)
(* the other are at most half a wrap apart upwards, so a real wrap is      *)
(* never missed.                                                           *)
(***************************************************************************)
Wraps(k, q) == baseTS = W * k /\ cur = W * q + lastTS /\ q <= k

WInv ==
    /\ sent \in Nat /\ first \in 0..(W - 1)
    /\ baseTS \in Nat /\ lastTS \in 0..(W - 1) /\ cur \in Int
    /\ cur = -1 => baseTS = 0 /\ lastTS = 0 /\ sent = first
    /\ cur # -1 => /\ cur \in Nat /\ sent - MaxLate <= cur
                   /\ \E k \in Nat, q \in Nat : Wraps(k, q)

\* Deframe counts every wrap between the last packet and the packet stamped c.
LEMMA WrapStep ==
    ASSUME WInv, cur # -1, NEW c \in Nat, 2 * (c - cur) <= W, Deframe(c % W),
           cur' = c
    PROVE  /\ baseTS' \in Nat /\ lastTS' \in 0..(W - 1)
           /\ \E k \in Nat, q \in Nat : Wraps(k, q)'
<1>. USE TimeAssumption
<1>1. PICK k \in Nat, q \in Nat : Wraps(k, q)
  BY DEF WInv
<1>2. PICK ts \in 0..(W - 1), p \in Int : ts = c % W /\ c = W * p + ts
  <2>1. c \in Int
    OBVIOUS
  <2>2. c \div W \in Int /\ c % W \in 0..(W - 1) /\ c = W * (c \div W) + (c % W)
    BY <2>1, DivMod
  <2>. QED  BY <2>2, Zenon
<1>3. p >= 0
  <2>1. CASE p <= -1
    <3>1. W * p <= -W
      BY <2>1
    <3>. QED  BY <1>2, <3>1
  <2>. QED  BY <2>1
<1>4. /\ lastTS \in 0..(W - 1) /\ baseTS \in Nat /\ cur \in Int
      /\ cur = W * q + lastTS /\ baseTS = W * k /\ q <= k
  BY <1>1 DEF WInv, Wraps
<1>5. lastTS' = ts /\ baseTS' = IF ts < lastTS /\ 2 * ts < W THEN baseTS + W ELSE baseTS
  BY <1>2 DEF Deframe, Wrapped
<1>6. PICK j \in Nat : baseTS' = W * j /\ p <= j
  <2>1. CASE baseTS' = baseTS /\ p <= q
    BY <1>4, <2>1
  <2>2. CASE baseTS' = baseTS + W /\ p <= q + 1
    <3>1. baseTS' = W * (k + 1) /\ p <= k + 1 /\ k + 1 \in Nat
      BY <1>4, <2>2
    <3>. QED  BY <3>1
  <2>3. CASE p > q
    <3>1. PICK m \in Nat : m = p - q /\ m >= 1
      BY <2>3
    <3>2. W * p = W * q + W * m
      BY <3>1
    <3>3. W * m >= W
      BY <3>1
    <3>4. 2 * (W * m + ts - lastTS) <= W
      BY <1>2, <1>4, <3>2
    <3>5. ts < lastTS /\ 2 * ts < W
      BY <1>4, <3>3, <3>4
    <3>6. CASE m >= 2
      <4>1. W * m >= 2 * W
        BY <3>6
      <4>. QED  BY <1>4, <3>4, <4>1
    <3>. QED  BY <1>5, <2>2, <3>1, <3>5, <3>6
  <2>. QED  BY <1>5, <2>1, <2>2, <2>3
<1>7. baseTS' \in Nat /\ lastTS' \in 0..(W - 1)
  BY <1>4, <1>5
<1>8. cur' = W * p + lastTS' /\ p \in Nat
  BY <1>2, <1>3, <1>5
<1>9. Wraps(j, p)'
  BY <1>6, <1>8 DEF Wraps
<1>. QED  BY <1>6, <1>7, <1>8, <1>9, Zenon

\* Every step, late packets included, preserves it.
LEMMA NextWInv == WInv /\ [Next]_vars => WInv'
<1>. SUFFICES ASSUME WInv, [Next]_vars PROVE WInv'
  OBVIOUS
<1>. USE TimeAssumption
<1>1. CASE First
  <2>1. PICK z \in Nat : z = first /\ z \in 0..(W - 1) /\ z = W * 0 + z
    BY DEF WInv
  <2>2. z % W = z
    BY <2>1, ModShift
  <2>3. /\ baseTS' = 0 /\ lastTS' = z /\ cur' = z
        /\ sent' = sent /\ first' = first /\ sent = z
    BY <1>1, <2>1, <2>2 DEF First, Packet, Deframe, Wrapped, WInv
  <2>4. Wraps(0, 0)'
    BY <2>1, <2>3 DEF Wraps
  <2>. QED  BY <2>1, <2>3, <2>4 DEF WInv
<1>2. CASE InOrder
  <2>1. PICK d \in 0..MaxStep : sent' = sent + d /\ Packet(sent + d)
    BY <1>2 DEF InOrder
  <2>2. PICK c \in Nat : c = sent + d
    BY DEF WInv
  <2>3. cur # -1 /\ cur' = c /\ Deframe(c % W) /\ first' = first
    BY <1>2, <2>1, <2>2 DEF Packet, InOrder
  <2>4. 2 * (c - cur) <= W
    BY <2>2, <2>3 DEF WInv
  <2>. QED  BY <2>1, <2>2, <2>3, <2>4, WrapStep DEF WInv
<1>3. CASE Late
  <2>1. PICK e \in 1..MaxLate : first <= sent - e /\ Packet(sent - e)
    BY <1>3 DEF Late
  <2>2. PICK c \in Nat : c = sent - e
    BY <2>1 DEF WInv
  <2>3. cur # -1 /\ cur' = c /\ Deframe(c % W) /\ first' = first /\ sent' = sent
    BY <1>3, <2>1, <2>2 DEF Packet, Late
  <2>4. 2 * (c - cur) <= W
    BY <2>2, <2>3 DEF WInv
  <2>. QED  BY <2>1, <2>2, <2>3, <2>4, WrapStep DEF WInv
<1>4. CASE Play
  BY <1>4 DEF Play, WInv, Wraps
<1>5. CASE UNCHANGED vars
  BY <1>5 DEF vars, WInv, Wraps
<1>. QED  BY <1>1, <1>2, <1>3, <1>4, <1>5 DEF Next, NextInOrder

\* However packets are reordered, the clock Deframer recovers is off by whole
\* wraps and never behind the sender's.
THEOREM WrapsOnly == Spec => []OffByWraps
<1>. USE TimeAssumption
<1>1. Init => WInv
  BY DEF Init, WInv
<1>2. WInv => OffByWraps
  <2>. SUFFICES ASSUME WInv, cur # -1
                PROVE  /\ baseTS + lastTS >= cur
                       /\ (baseTS + lastTS - cur) % W = 0
    BY DEF OffByWraps
  <2>1. PICK k \in Nat, q \in Nat : Wraps(k, q)
    BY DEF WInv
  <2>2. PICK m \in Nat : m = k - q
    BY <2>1 DEF Wraps
  <2>3. W * k = W * q + W * m /\ W * m >= 0
    BY <2>2
  <2>4. PICK z \in Int : z = baseTS + lastTS - cur
    BY DEF WInv
  <2>5. z = W * m + 0 /\ 0 \in 0..(W - 1)
    BY <2>1, <2>3, <2>4 DEF WInv, Wraps
  <2>6. z % W = 0
    BY <2>5, ModShift
  <2>7. baseTS + lastTS >= cur
    BY <2>3, <2>4, <2>5 DEF WInv
  <2>. QED  BY <2>4, <2>6, <2>7
<1>. QED  BY <1>1, <1>2, NextWInv, PTL DEF Spec

=============================================================================
