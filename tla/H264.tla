-------------------------------- MODULE H264 ---------------------------------
(***************************************************************************)
(* From RTP packets to H.264 units: Deframer and H264Parser                *)
(* (ingest/ftl/deframing.go) with the reader that hands their results out  *)
(* one by one (rtpReader.readPacket, ingest/ftl/rtp.go), behind a network  *)
(* that loses, reorders and duplicates packets.                            *)
(*                                                                         *)
(* A unit is NFrags pieces <<u, i>>, sent in one packet ("single"),        *)
(* together with the next unit ("stap") or a piece at a time ("fu").  The  *)
(* sender follows the RTP format: it puts neither aggregates nor fragments *)
(* into a fragmented unit, and its packets fit the receive buffer.         *)
(***************************************************************************)
EXTENDS Integers, Sequences, FiniteSets

CONSTANTS NUnits,      \* units sent
          NFrags,      \* fragments of a unit
          NetCap,      \* packets on their way at a time
          MaxKept      \* duplicates arrive while no more than this is kept

ASSUME H264Assumption ==
    NUnits \in Nat \ {0} /\ NFrags \in Nat \ {0, 1} /\ NetCap \in Nat /\ MaxKept \in Nat

VARIABLES
    kinds,       \* what the units are
    unit, frag, seq,       \* the sender: what it sends next
    net,         \* packets on their way
    fbuf, sps, pps,        \* H264Parser
    last,        \* the packet deframed last, whose seq is Deframer.lastSeq
    saved,       \* rtpReader.saved
    failed,      \* the reader has returned an error
    got,         \* what readPacket has returned
    gap,         \* a packet was lost, or came out of order or twice
    streak       \* fragments of one unit received in a row, from its first

sender == <<kinds, unit, frag, seq>>
parser == <<fbuf, sps, pps>>
history == <<last, gap, streak>>
vars == <<sender, net, parser, saved, failed, got, history>>

Whole(u) == [i \in 1..NFrags |-> <<u, i>>]

NoPacket  == [form |-> "none", u |-> 0, i |-> 0, seq |-> 0]
Unset     == [data |-> <<>>, form |-> "none"]
Overwritten == <<>>

Init ==
    /\ kinds \in [1..NUnits -> {"nal", "sps", "pps"}]
    /\ unit = 1 /\ frag = 1 /\ seq = 1
    /\ net = {}
    /\ fbuf = <<>> /\ sps = Unset /\ pps = Unset
    /\ last = NoPacket /\ saved = <<>> /\ failed = FALSE /\ got = <<>>
    /\ gap = FALSE /\ streak = 0

-----------------------------------------------------------------------------
(***************************************************************************)
(* The sender and the network.                                             *)
(***************************************************************************)
Put(form) ==
    /\ unit <= NUnits /\ Cardinality(net) < NetCap
    /\ net' = net \cup {[form |-> form, u |-> unit, i |-> frag, seq |-> seq]}
    /\ seq' = seq + 1
    /\ UNCHANGED <<kinds, parser, saved, failed, got, history>>

Single == Put("single") /\ frag = 1 /\ unit' = unit + 1 /\ UNCHANGED frag

Aggregate == Put("stap") /\ frag = 1 /\ unit < NUnits /\ unit' = unit + 2 /\ UNCHANGED frag

Fragment ==
    /\ Put("fu")
    /\ IF frag = NFrags THEN unit' = unit + 1 /\ frag' = 1
                        ELSE frag' = frag + 1 /\ UNCHANGED unit

Lose(p) ==
    /\ net' = net \ {p}
    /\ UNCHANGED <<sender, parser, saved, failed, got, history>>

-----------------------------------------------------------------------------
(***************************************************************************)
(* H264Parser.ParseFrame.                                                  *)
(***************************************************************************)
Start(p) == p.form = "fu" /\ p.i = 1
EndBit(p) == p.form = "fu" /\ p.i = NFrags

AccumulateAppending(p) ==           \* without the fbuf.Reset of a first fragment
    IF Start(p) \/ fbuf # <<>> THEN Append(fbuf, <<p.u, p.i>>) ELSE <<>>

\* What fbuf holds after the fragment: nothing if its first one was missed.
Accumulate(p) ==
    CASE Start(p)    -> <<<<p.u, p.i>>>>
      [] ~Start(p) /\ fbuf # <<>> -> Append(fbuf, <<p.u, p.i>>)
      [] OTHER       -> <<>>

\* The type of a unit is that of its header, which the first piece brings.
Keep(kind, c) == IF kinds[c[1][1]] = kind THEN <<c>> ELSE <<>>

UnitsFirstOnly(kind, p) ==          \* the loop over an aggregate ends too soon
    CASE p.form \in {"single", "stap"} -> Keep(kind, Whole(p.u))
      [] EndBit(p) /\ Accumulate(p) # <<>> -> Keep(kind, Accumulate(p))
      [] OTHER -> <<>>

\* The units of a kind that are complete with this packet.
Units(kind, p) ==
    CASE p.form = "single" -> Keep(kind, Whole(p.u))
      [] p.form = "stap"   -> Keep(kind, Whole(p.u)) \o Keep(kind, Whole(p.u + 1))
      [] EndBit(p) /\ Accumulate(p) # <<>> -> Keep(kind, Accumulate(p))
      [] OTHER             -> <<>>

\* p.sps and p.pps are slices of what was parsed.  Every datagram has a buffer
\* of its own, but a unit put together from fragments lies in fbuf, whose
\* memory the next first fragment writes again.
Kept(par, p) ==
    IF par.form = "fu" /\ Start(p) THEN [par EXCEPT !.data = Overwritten] ELSE par

Store(par, kind, p) ==
    LET new == Units(kind, p) IN
    IF new = <<>> THEN Kept(par, p) ELSE [data |-> new[Len(new)], form |-> p.form]

ParseFrameUncleared(p) ==           \* without the deferred fbuf.Reset
    /\ fbuf' = IF p.form = "fu" THEN Accumulate(p) ELSE fbuf
    /\ sps' = Store(sps, "sps", p)
    /\ pps' = Store(pps, "pps", p)

ParseFrame(p) ==
    /\ fbuf' = IF EndBit(p) THEN <<>>
               ELSE IF p.form = "fu" THEN Accumulate(p) ELSE fbuf
    /\ sps' = Store(sps, "sps", p)
    /\ pps' = Store(pps, "pps", p)

-----------------------------------------------------------------------------
(***************************************************************************)
(* rtpReader.readPacket: the first unit of a packet is returned, the       *)
(* others are saved for the next calls.                                    *)
(***************************************************************************)
ReturnFirst(frames) ==
    IF frames = <<>> THEN UNCHANGED <<got, saved>>
    ELSE got' = Append(got, Head(frames)) /\ saved' = Tail(frames)

Receive(p) ==
    /\ ~failed /\ saved = <<>>
    /\ \/ net' = net \ {p}
       \/ net' = net /\ Len(got) + Len(fbuf) < MaxKept      \* to come once more
    /\ ParseFrame(p)
    /\ ReturnFirst(Units("nal", p))
    /\ last' = p
    /\ gap' = (gap \/ p.seq # last.seq + 1)
    /\ streak' = CASE Start(p) -> 1
                   [] ~Start(p) /\ p.form = "fu" /\ p.seq = last.seq + 1 /\ streak = p.i - 1 -> p.i
                   [] OTHER -> 0
    /\ UNCHANGED <<sender, failed>>

ReadSaved ==
    /\ saved # <<>>
    /\ got' = Append(got, Head(saved))
    /\ saved' = Tail(saved)
    /\ UNCHANGED <<sender, net, parser, failed, history>>

\* A packet of fewer than two bytes: the error ends the reader.
TooShort ==
    /\ ~failed /\ saved = <<>>
    /\ failed' = TRUE
    /\ UNCHANGED <<sender, net, parser, saved, got, history>>

Next ==
    \/ Single \/ Aggregate \/ Fragment
    \/ \E p \in net : Lose(p) \/ Receive(p)
    \/ ReadSaved \/ TooShort

Spec == Init /\ [][Next]_vars

-----------------------------------------------------------------------------
\* The units sent up to the packet deframed last.
Completed == CASE last.form = "none" -> 0
               [] last.form = "stap" -> last.u + 1
               [] last.form = "fu" /\ last.i < NFrags -> last.u - 1
               [] OTHER -> last.u

\* s holds the units of a kind from lo to hi: all of them, whole, once and in
\* the order they were sent.
Lists(s, kind, lo, hi) ==
    /\ \A n \in 1..Len(s) : \E u \in lo..hi : kinds[u] = kind /\ s[n] = Whole(u)
    /\ \A u \in lo..hi : kinds[u] = kind => \E n \in 1..Len(s) : s[n] = Whole(u)
    /\ \A m, n \in 1..Len(s) : m < n => s[m][1][1] < s[n][1][1]

\* The last unit of a kind that was sent, if there is one.
Latest(data, kind) ==
    LET us == {u \in 1..Completed : kinds[u] = kind} IN
    IF us = {} THEN data = <<>>
    ELSE \E u \in us : data = Whole(u) /\ \A v \in us : v <= u

\* While no packet is missing or out of place, what readPacket returns is what
\* was sent: every unit but the parameter sets, whole, once and in order,
\* however it was packed.  The parameter sets are the latest ones, except that
\* one put together from fragments is valid only until the next fragmented unit.
InOrderExact ==
    ~gap => /\ Lists(got \o saved, "nal", 1, Completed)
            /\ sps.form # "fu" => Latest(sps.data, "sps")
            /\ pps.form # "fu" => Latest(pps.data, "pps")

\* The parser recovers by itself: a fragmented unit whose packets arrive in a
\* row comes out whole, whatever was lost before it.
Resync ==
    streak = NFrags =>
       CASE kinds[last.u] = "nal" -> got # <<>> /\ got[Len(got)] = Whole(last.u)
         [] kinds[last.u] = "sps" -> sps.data = Whole(last.u)
         [] OTHER                 -> pps.data = Whole(last.u)

OneUnit(f) ==
    /\ f[1][2] = 1 /\ f[Len(f)][2] = NFrags
    /\ \A i \in 2..Len(f) : f[i][2] # 1 /\ f[i - 1][2] # NFrags

\* Whatever is lost, a unit returned begins with the first fragment of a unit,
\* ends with the last of one, and has neither in between: it never lacks
\* its header, and never runs on past an end or into the next beginning.
Framed == \A n \in 1..Len(got) : OneUnit(got[n])

=============================================================================
