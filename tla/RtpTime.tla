------------------------------- MODULE RtpTime -------------------------------
(***************************************************************************)
(* The clock of a stream on its way through the program: a sender's 32-bit *)
(* RTP timestamps are unwrapped by ftl.Deframer (ingest/ftl/deframing.go), *)
(* become durations (internal/math.go), and are turned back into sample    *)
(* counts by the framer of an RTSP or WebRTC track (sinks/rtsp/framing.go).*)
(* UDP may deliver a packet after one that was sent later.                 *)
(***************************************************************************)
EXTENDS Integers

CONSTANTS W,           \* 2^32: RTP timestamps and sample counts are mod W
          Second,      \* time.Second
          Rate,        \* the track's clock rate, on both sides
          MaxStep,     \* ticks between packets that follow one another
          MaxLate,     \* how far back a reordered packet may be
          MaxTime      \* bound on the clocks, for TLC

ASSUME TimeAssumption ==
    /\ W \in Nat \ {0} /\ Second \in Nat \ {0} /\ Rate \in 1..Second
    /\ MaxStep \in Nat /\ MaxLate \in Nat
    /\ 2 * (MaxStep + MaxLate) <= W
    /\ MaxTime \in Nat

VARIABLES
    sent,      \* the sender's clock at its latest packet, not wrapped
    cur,       \* the same for the packet received last, -1 before any
    first,     \* ... and for the first one: an arbitrary 32-bit offset
    baseTS, lastTS,            \* Deframer
    playing,   \* a track is being sent
    fts, got,                  \* framer
    total,     \* sum of the sample counts so far: the outgoing timestamp
    start,     \* the sender's clock at the first packet it was given
    reordered  \* a packet has arrived late

vars == <<sent, cur, first, baseTS, lastTS, playing, fts, got, total, start,
          reordered>>

TypeOK ==
    /\ sent \in Nat /\ cur \in Int /\ cur >= -1 /\ first \in 0..(W - 1)
    /\ baseTS \in Nat /\ lastTS \in 0..(W - 1)
    /\ playing \in BOOLEAN /\ got \in BOOLEAN
    /\ fts \in Nat /\ total \in 0..(W - 1) /\ start \in Nat
    /\ reordered \in BOOLEAN

Init ==
    /\ first \in 0..(W - 1) /\ sent = first /\ cur = -1
    /\ baseTS = 0 /\ lastTS = 0
    /\ playing = FALSE /\ got = FALSE
    /\ fts = 0 /\ total = 0 /\ start = 0
    /\ reordered = FALSE

FromTS(ts) == (ts * Second) \div Rate

ToTS(t) == (t * Rate) \div Second

WrappedInclusive(ts) == ts <= lastTS /\ 2 * ts < W   \* <= instead of <

\* The test for a wrapped timestamp.
Wrapped(ts) == ts < lastTS /\ 2 * ts < W

DeframeShort(ts) ==                 \* a mask, 1<<32 - 1, for the modulus
    /\ baseTS' = IF Wrapped(ts) THEN baseTS + W - 1 ELSE baseTS
    /\ lastTS' = ts

Deframe(ts) ==
    /\ baseTS' = IF Wrapped(ts) THEN baseTS + W ELSE baseTS
    /\ lastTS' = ts

deltaFromFirst(t) ==                \* without f.ts = ts
    /\ total' = IF got THEN (total + (ToTS(t) - fts)) % W ELSE total
    /\ fts' = IF got THEN fts ELSE ToTS(t)
    /\ got' = TRUE

\* framer.delta, whose result the packetizer adds to its timestamp.
delta(t) ==
    /\ total' = IF got THEN (total + (ToTS(t) - fts)) % W ELSE total
    /\ fts' = ToTS(t)
    /\ got' = TRUE

\* The packet the sender stamped at c: deframed, and framed again for the track.
Packet(c) ==
    /\ cur' = c
    /\ Deframe(c % W)
    /\ IF playing THEN delta(FromTS(baseTS' + lastTS'))
                  ELSE UNCHANGED <<fts, got, total>>
    /\ start' = IF playing /\ ~got THEN c ELSE start
    /\ UNCHANGED <<first, playing>>

First == cur = -1 /\ Packet(first) /\ UNCHANGED <<sent, reordered>>

InOrder ==
    /\ cur # -1
    /\ \E d \in 0..MaxStep :
          /\ sent + d <= MaxTime
          /\ sent' = sent + d
          /\ Packet(sent + d)
    /\ UNCHANGED reordered

\* A packet overtaken by later ones.  MaxTime also bounds the clock recovered,
\* which each of them may move ahead.
Late ==
    /\ cur # -1 /\ baseTS <= MaxTime
    /\ \E e \in 1..MaxLate :
          /\ first <= sent - e
          /\ Packet(sent - e)
    /\ reordered' = TRUE
    /\ UNCHANGED sent

Play ==
    /\ ~playing
    /\ playing' = TRUE
    /\ UNCHANGED <<sent, cur, first, baseTS, lastTS, fts, got, total, start, reordered>>

NextInOrder == First \/ InOrder \/ Play
Next == NextInOrder \/ Late

Spec == Init /\ [][Next]_vars

-----------------------------------------------------------------------------
\* While packets come in order, Deframe recovers the sender's clock exactly,
\* across any number of wraps and from any initial timestamp.
UnwrapExact == (cur # -1 /\ ~reordered) => baseTS + lastTS = cur

\* While they do, the outgoing timestamp is the sender's clock since the track
\* started, give or take a tick: a conversion to a duration and back (FromTS, ToTS) loses at
\* most one, and delta does not let the losses add up.
NoDrift ==
    (got /\ ~reordered) => \E e \in {-1, 0, 1} : total = (cur - start + e) % W

\* Whatever the order, the recovered clock is off by whole wraps, never behind.
OffByWraps ==
    cur # -1 => /\ baseTS + lastTS >= cur
                /\ (baseTS + lastTS - cur) % W = 0

=============================================================================
