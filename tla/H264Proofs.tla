----------------------------- MODULE H264Proofs ------------------------------
(***************************************************************************)
(* What H264Parser returns, for any number of units, fragments and         *)
(* packets, lost, reordered and duplicated at will: it is framed, it is    *)
(* what was sent while nothing is missing, and it is whole again with the  *)
(* first unit that arrives in a row.  The first invariant says what fbuf   *)
(* may hold between two packets: nothing, or the beginning of a unit       *)
(* without its end.                                                        *)
(***************************************************************************)
EXTENDS H264, TLAPS

Cell   == Nat \X (1..NFrags)
Packet == [form : {"single", "stap", "fu"}, u : Nat, i : 1..NFrags, seq : Nat]

Frame == {f \in Seq(Cell) : f # <<>> /\ OneUnit(f)}

Prefix ==
    {b \in Seq(Cell) : b # <<>> => /\ b[1][2] = 1
                                   /\ \A i \in 1..Len(b) : b[i][2] # NFrags
                                   /\ \A i \in 2..Len(b) : b[i][2] # 1}

ReaderInv == got \in Seq(Frame) /\ saved \in Seq(Frame)

FrameInv ==
    /\ unit \in Nat /\ frag \in 1..NFrags /\ seq \in Nat
    /\ net \subseteq Packet
    /\ fbuf \in Prefix
    /\ ReaderInv

-----------------------------------------------------------------------------
\* A unit that was not fragmented is framed.
LEMMA WholeFramed == \A u \in Nat : Whole(u) \in Frame
<1>. SUFFICES ASSUME NEW u \in Nat PROVE Whole(u) \in Frame
  OBVIOUS
<1>1. NFrags \in Nat /\ NFrags >= 2
  BY H264Assumption
<1>2. Whole(u) \in Seq(Cell) /\ Len(Whole(u)) = NFrags
  BY <1>1 DEF Whole, Cell
<1>3. \A i \in 1..NFrags : Whole(u)[i][2] = i
  BY DEF Whole
<1>4. OneUnit(Whole(u))
  BY <1>1, <1>2, <1>3 DEF OneUnit
<1>. QED  BY <1>1, <1>2, <1>4 DEF Frame

\* A fragment extends a prefix, or completes it.
LEMMA AccumulateFramed ==
    ASSUME fbuf \in Prefix, NEW p \in Packet, p.form = "fu"
    PROVE  /\ ~EndBit(p) => Accumulate(p) \in Prefix
           /\ EndBit(p) /\ Accumulate(p) # <<>> => Accumulate(p) \in Frame
<1> DEFINE c == <<p.u, p.i>>
<1>1. NFrags \in Nat /\ NFrags >= 2
  BY H264Assumption
<1>2. c \in Cell /\ c[2] = p.i /\ p.i \in 1..NFrags
  BY DEF Packet, Cell
<1>3. CASE Start(p)
  <2>1. Accumulate(p) = <<c>> /\ p.i = 1 /\ ~EndBit(p)
    BY <1>1, <1>3 DEF Accumulate, Start, EndBit
  <2>. HIDE DEF c
  <2>2. <<c>> \in Seq(Cell) /\ Len(<<c>>) = 1 /\ <<c>>[1] = c
    BY <1>2
  <2>3. <<c>> \in Prefix
    BY <1>1, <1>2, <2>1, <2>2 DEF Prefix
  <2>. QED  BY <2>1, <2>3
<1>4. CASE ~Start(p) /\ fbuf # <<>>
  <2> DEFINE b == Append(fbuf, c)
  <2>1. Accumulate(p) = b /\ p.i # 1
    BY <1>4 DEF Accumulate, Start
  <2>. HIDE DEF c
  <2>2. fbuf \in Seq(Cell) /\ Len(fbuf) \in Nat /\ Len(fbuf) >= 1
    BY <1>4 DEF Prefix
  <2>3. /\ b \in Seq(Cell) /\ Len(b) = Len(fbuf) + 1 /\ b # <<>>
        /\ \A i \in 1..Len(fbuf) : b[i] = fbuf[i]
        /\ b[Len(fbuf) + 1] = c
    BY <1>2, <2>2
  <2>4. /\ fbuf[1][2] = 1
        /\ \A i \in 1..Len(fbuf) : fbuf[i][2] # NFrags
        /\ \A i \in 2..Len(fbuf) : fbuf[i][2] # 1
    BY <1>4 DEF Prefix
  <2>. HIDE DEF b
  <2>5. b[1][2] = 1 /\ \A i \in 2..Len(b) : b[i][2] # 1
    BY <1>2, <2>1, <2>2, <2>3, <2>4
  <2>6. \A i \in 2..Len(b) : b[i - 1][2] # NFrags
    BY <2>2, <2>3, <2>4
  <2>7. CASE EndBit(p)
    <3>1. b[Len(b)][2] = NFrags
      BY <1>2, <2>2, <2>3, <2>7 DEF EndBit
    <3>2. OneUnit(b)
      BY <2>5, <2>6, <3>1 DEF OneUnit
    <3>. QED  BY <2>1, <2>3, <2>7, <3>2 DEF Frame
  <2>8. CASE ~EndBit(p)
    <3>1. \A i \in 1..Len(b) : b[i][2] # NFrags
      BY <1>2, <2>2, <2>3, <2>4, <2>8 DEF EndBit
    <3>. QED  BY <2>1, <2>3, <2>5, <2>8, <3>1 DEF Prefix
  <2>. QED  BY <2>7, <2>8
<1>5. CASE ~Start(p) /\ fbuf = <<>>
  <2>1. Accumulate(p) = <<>>
    BY <1>5 DEF Accumulate
  <2>. QED  BY <1>5, <2>1
<1>. QED  BY <1>3, <1>4, <1>5

\* ParseFrame returns framed units only.
LEMMA UnitsFramed ==
    ASSUME fbuf \in Prefix, NEW p \in Packet, NEW kind
    PROVE  Units(kind, p) \in Seq(Frame)
<1>1. \A f \in Frame : Keep(kind, f) \in Seq(Frame)
  BY DEF Keep
<1>2. p.u \in Nat /\ p.u + 1 \in Nat /\ p.form \in {"single", "stap", "fu"}
  BY DEF Packet
<1>3. Keep(kind, Whole(p.u)) \in Seq(Frame) /\ Keep(kind, Whole(p.u + 1)) \in Seq(Frame)
  BY <1>1, <1>2, WholeFramed
<1>4. EndBit(p) /\ Accumulate(p) # <<>> => Keep(kind, Accumulate(p)) \in Seq(Frame)
  BY <1>1, AccumulateFramed DEF EndBit
<1>5. CASE p.form = "single"
  BY <1>3, <1>5 DEF Units, EndBit
<1>6. CASE p.form = "stap"
  <2>1. Units(kind, p) = Keep(kind, Whole(p.u)) \o Keep(kind, Whole(p.u + 1))
    BY <1>6 DEF Units, EndBit
  <2>. QED  BY <1>3, <2>1
<1>7. CASE p.form = "fu"
  BY <1>4, <1>7 DEF Units
<1>. QED  BY <1>2, <1>5, <1>6, <1>7

-----------------------------------------------------------------------------
\* The sender only adds packets.
LEMMA SendPreserves ==
    ASSUME FrameInv, Single \/ Aggregate \/ Fragment
    PROVE  FrameInv'
<1>1. PICK form \in {"single", "stap", "fu"} : Put(form)
  BY DEF Single, Aggregate, Fragment
<1>2. UNCHANGED <<fbuf, got, saved>> /\ seq' = seq + 1
  BY <1>1 DEF Put, parser
<1>3. net' \subseteq Packet
  BY <1>1 DEF Put, FrameInv, Packet
<1>4. unit' \in Nat /\ frag' \in 1..NFrags
  BY H264Assumption DEF Single, Aggregate, Fragment, FrameInv
<1>. QED  BY <1>2, <1>3, <1>4 DEF FrameInv, ReaderInv

\* A packet is deframed.
LEMMA ReceivePreserves ==
    ASSUME FrameInv, NEW p \in net, Receive(p)
    PROVE  FrameInv'
<1>1. p \in Packet /\ fbuf \in Prefix
  BY DEF FrameInv
<1>2. UNCHANGED <<unit, frag, seq>> /\ net' \subseteq Packet
  BY DEF Receive, sender, FrameInv
<1>3. fbuf' \in Prefix
  <2>1. <<>> \in Prefix
    BY DEF Prefix
  <2>2. CASE EndBit(p)
    BY <2>1, <2>2 DEF Receive, ParseFrame, EndBit
  <2>3. CASE ~EndBit(p) /\ p.form = "fu"
    BY <1>1, <2>3, AccumulateFramed DEF Receive, ParseFrame
  <2>4. CASE ~EndBit(p) /\ p.form # "fu"
    BY <1>1, <2>4 DEF Receive, ParseFrame
  <2>. QED  BY <2>2, <2>3, <2>4
<1>4. ReaderInv'
  <2> DEFINE us == Units("nal", p)
  <2>1. us \in Seq(Frame)
    BY <1>1, UnitsFramed
  <2>2. ReturnFirst(us)
    BY DEF Receive
  <2>3. got \in Seq(Frame) /\ saved \in Seq(Frame)
    BY DEF FrameInv, ReaderInv
  <2>. HIDE DEF us
  <2>4. CASE us = <<>>
    BY <2>2, <2>3, <2>4 DEF ReturnFirst, ReaderInv
  <2>5. CASE us # <<>>
    <3>1. Head(us) \in Frame /\ Tail(us) \in Seq(Frame)
      BY <2>1, <2>5
    <3>2. got' = Append(got, Head(us)) /\ saved' = Tail(us)
      BY <2>2, <2>5 DEF ReturnFirst
    <3>3. \A f \in Frame : Append(got, f) \in Seq(Frame)
      BY <2>3
    <3>. QED  BY <3>1, <3>2, <3>3 DEF ReaderInv
  <2>. QED  BY <2>4, <2>5
<1>. QED  BY <1>2, <1>3, <1>4 DEF FrameInv

\* Every step preserves the invariant.
LEMMA NextFrameInv == FrameInv /\ [Next]_vars => FrameInv'
<1>. SUFFICES ASSUME FrameInv, [Next]_vars PROVE FrameInv'
  OBVIOUS
<1>1. CASE UNCHANGED vars
  BY <1>1 DEF vars, sender, parser, FrameInv, ReaderInv
<1>2. CASE Single \/ Aggregate \/ Fragment
  BY <1>2, SendPreserves
<1>3. ASSUME NEW p \in net, Lose(p) PROVE FrameInv'
  BY <1>3 DEF Lose, sender, parser, FrameInv, ReaderInv
<1>4. ASSUME NEW p \in net, Receive(p) PROVE FrameInv'
  BY <1>4, ReceivePreserves
<1>5. CASE ReadSaved
  <2>1. UNCHANGED <<unit, frag, seq, net, fbuf>>
    BY <1>5 DEF ReadSaved, sender, parser
  <2>2. Head(saved) \in Frame /\ Tail(saved) \in Seq(Frame)
    BY <1>5 DEF ReadSaved, FrameInv, ReaderInv
  <2>. QED  BY <1>5, <2>1, <2>2 DEF ReadSaved, FrameInv, ReaderInv
<1>6. CASE TooShort
  BY <1>6 DEF TooShort, sender, parser, FrameInv, ReaderInv
<1>. QED  BY <1>1, <1>2, <1>3, <1>4, <1>5, <1>6 DEF Next

\* fbuf holds nothing or the beginning of a unit, and every unit handed out is
\* framed.
THEOREM FrameInvariance == Spec => []FrameInv
<1>1. Init => FrameInv
  BY H264Assumption DEF Init, FrameInv, ReaderInv, Prefix, Frame
<1>. QED  BY <1>1, NextFrameInv, PTL DEF Spec

\* Every unit readPacket returns begins with a first fragment, ends with a last
\* one and has neither in between, however packets were lost and reordered.
THEOREM AlwaysFramed == Spec => []Framed
<1>1. FrameInv => Framed
  BY DEF FrameInv, ReaderInv, Framed, Frame
<1>. QED  BY <1>1, FrameInvariance, PTL

-----------------------------------------------------------------------------
(***************************************************************************)
(* Packets with consecutive numbers carry consecutive pieces, so a         *)
(* fragmented unit whose packets come in a row is put together in fbuf,    *)
(* and while no packet is missing fbuf holds the pieces of the unit that   *)
(* is under way and nothing else.                                          *)
(***************************************************************************)
\* What the sender sends after a packet: the unit and the piece.
After(p) ==
    CASE p.form = "single" -> <<p.u + 1, 1>>
      [] p.form = "stap"   -> <<p.u + 2, 1>>
      [] p.form = "fu" /\ p.i < NFrags -> <<p.u, p.i + 1>>
      [] p.form = "fu" /\ p.i = NFrags -> <<p.u + 1, 1>>
      [] OTHER             -> <<1, 1>>

Pieces(u, n) == [i \in 1..n |-> <<u, i>>]

KindType == kinds \in [1..NUnits -> {"nal", "sps", "pps"}]

\* The packets that matter still, and the number zero before the first.
Known == net \cup {last}

PacketInv(p) ==
    /\ p.u <= (IF p.form = "stap" THEN NUnits - 1 ELSE NUnits) /\ (p.form # "none" => p.u >= 1)
    /\ p.form # "fu" => p.i \in {0, 1}

SeqInv ==
    /\ unit >= 1 /\ seq >= 1
    /\ last \in Packet \cup {NoPacket}
    /\ \A p \in Known : PacketInv(p) /\ p.seq < seq
    /\ \A p \in Known : p.seq + 1 = seq => After(p) = <<unit, frag>>
    /\ \A p \in Known, q \in net : q.seq = p.seq + 1 => After(p) = <<q.u, q.i>>

StreakInv ==
    /\ streak \in 0..NFrags
    /\ streak # 0 => last.form = "fu" /\ last.i = streak
    /\ streak \in 1..(NFrags - 1) => fbuf = Pieces(last.u, streak)
    /\ streak = NFrags => saved = <<>> /\ Resync

OrderInv ==
    ~gap => fbuf = Pieces(After(last)[1], After(last)[2] - 1) /\ InOrderExact

Parameter == [data : Seq(Cell), form : {"none", "single", "stap", "fu"}]
ParameterType == sps \in Parameter /\ pps \in Parameter

SyncInv == KindType /\ ParameterType /\ SeqInv /\ StreakInv /\ OrderInv

\* The sender numbers its packets one by one.
LEMMA SendSync ==
    ASSUME FrameInv, SeqInv, Single \/ Aggregate \/ Fragment
    PROVE  SeqInv'
<1>1. NFrags \in Nat /\ NFrags >= 2 /\ NUnits \in Nat
  BY H264Assumption
<1>2. unit \in Nat /\ frag \in 1..NFrags /\ seq \in Nat /\ net \subseteq Packet
  BY DEF FrameInv
<1>3. PICK w \in [form : {"single", "stap", "fu"}, u : {unit}, i : {frag}, seq : {seq}] :
          /\ net' = net \cup {w} /\ seq' = seq + 1 /\ last' = last /\ unit <= NUnits
          /\ w.form = "single" => frag = 1 /\ unit' = unit + 1 /\ frag' = frag
          /\ w.form = "stap" => frag = 1 /\ unit < NUnits /\ unit' = unit + 2 /\ frag' = frag
          /\ w.form = "fu" => IF frag = NFrags THEN unit' = unit + 1 /\ frag' = 1
                              ELSE frag' = frag + 1 /\ unit' = unit
  <2>1. CASE Single
    <3> DEFINE w == [form |-> "single", u |-> unit, i |-> frag, seq |-> seq]
    <3>1. net' = net \cup {w} /\ seq' = seq + 1 /\ last' = last /\ unit <= NUnits
      BY <2>1 DEF Single, Put, history
    <3>2. /\ w.form = "single"
          /\ w \in [form : {"single", "stap", "fu"}, u : {unit}, i : {frag}, seq : {seq}]
      OBVIOUS
    <3>. HIDE DEF w
    <3>. QED  BY <2>1, <3>1, <3>2 DEF Single
  <2>2. CASE Aggregate
    <3> DEFINE w == [form |-> "stap", u |-> unit, i |-> frag, seq |-> seq]
    <3>1. net' = net \cup {w} /\ seq' = seq + 1 /\ last' = last /\ unit <= NUnits
      BY <2>2 DEF Aggregate, Put, history
    <3>2. /\ w.form = "stap"
          /\ w \in [form : {"single", "stap", "fu"}, u : {unit}, i : {frag}, seq : {seq}]
      OBVIOUS
    <3>. HIDE DEF w
    <3>. QED  BY <2>2, <3>1, <3>2 DEF Aggregate
  <2>3. CASE Fragment
    <3> DEFINE w == [form |-> "fu", u |-> unit, i |-> frag, seq |-> seq]
    <3>1. net' = net \cup {w} /\ seq' = seq + 1 /\ last' = last /\ unit <= NUnits
      BY <2>3 DEF Fragment, Put, history
    <3>2. /\ w.form = "fu"
          /\ w \in [form : {"single", "stap", "fu"}, u : {unit}, i : {frag}, seq : {seq}]
      OBVIOUS
    <3>. HIDE DEF w
    <3>. QED  BY <2>3, <3>1, <3>2 DEF Fragment
  <2>. QED  BY <2>1, <2>2, <2>3
<1>4. w.u = unit /\ w.i = frag /\ w.seq = seq /\ w.form \in {"single", "stap", "fu"}
  OBVIOUS
<1>. HIDE DEF FrameInv
<1>5. After(w) = <<unit', frag'>>
  BY <1>1, <1>2, <1>3, <1>4 DEF After
<1>6. PacketInv(w) /\ unit' >= 1
  BY <1>1, <1>2, <1>3, <1>4 DEF PacketInv, SeqInv
<1>7. Known' = Known \cup {w} /\ \A p \in Known : p.seq \in Int
  BY <1>2, <1>3 DEF Known, SeqInv, Packet, NoPacket
<1>8. \A p \in Known : PacketInv(p) /\ p.seq < seq
  BY DEF SeqInv
<1>9. \A p \in Known' : PacketInv(p) /\ p.seq < seq' /\ (p.seq + 1 = seq' => p = w)
  BY <1>2, <1>3, <1>4, <1>6, <1>7, <1>8
<1>10. \A p \in Known', q \in net' : q.seq = p.seq + 1 => After(p) = <<q.u, q.i>>
  <2>. SUFFICES ASSUME NEW p \in Known', NEW q \in net', q.seq = p.seq + 1
                PROVE  After(p) = <<q.u, q.i>>
    OBVIOUS
  <2>1. p \in Known
    <3>1. q.seq <= seq
      BY <1>2, <1>3, <1>4, <1>7, <1>8 DEF Known
    <3>. QED  BY <1>2, <1>4, <1>7, <3>1
  <2>2. CASE q \in net
    BY <2>1, <2>2 DEF SeqInv
  <2>3. CASE q = w
    BY <1>4, <2>1, <2>3 DEF SeqInv
  <2>. QED  BY <1>3, <2>2, <2>3
<1>. QED  BY <1>2, <1>3, <1>5, <1>6, <1>9, <1>10 DEF SeqInv

\* The network only forgets packets.
LEMMA NetworkSync ==
    ASSUME SeqInv, FrameInv, net' \subseteq net, last' \in Known, UNCHANGED sender
    PROVE  SeqInv'
<1>1. Known' \subseteq Known
  BY DEF Known
<1>2. last' \in Packet \cup {NoPacket}
  BY DEF Known, SeqInv, FrameInv
<1>. QED  BY <1>1, <1>2 DEF SeqInv, sender

\* Pieces of a unit.
LEMMA PiecesGrow ==
    ASSUME NEW u, NEW n \in Nat
    PROVE  /\ Append(Pieces(u, n), <<u, n + 1>>) = Pieces(u, n + 1)
           /\ Pieces(u, 0) = <<>>
           /\ Pieces(u, 1) = <<<<u, 1>>>>
           /\ n # 0 => Pieces(u, n) # <<>>
           /\ Pieces(u, NFrags) = Whole(u)
<1>1. Append(Pieces(u, n), <<u, n + 1>>) = Pieces(u, n + 1)
  BY DEF Pieces
<1>2. Pieces(u, 0) = <<>>
  BY DEF Pieces
<1>3. Pieces(u, 1) = <<<<u, 1>>>>
  BY DEF Pieces
<1>4. n # 0 => Pieces(u, n) # <<>>
  BY DEF Pieces
<1>5. Pieces(u, NFrags) = Whole(u)
  BY DEF Pieces, Whole
<1>. QED  BY <1>1, <1>2, <1>3, <1>4, <1>5

\* The next fragment of the unit in fbuf, or the first of a new one.
LEMMA NextFragment ==
    ASSUME NEW p \in Packet, p.form = "fu", p.i = 1 \/ fbuf = Pieces(p.u, p.i - 1)
    PROVE  Accumulate(p) = Pieces(p.u, p.i)
<1>1. p.i \in Nat \ {0}
  BY H264Assumption DEF Packet
<1>2. CASE p.i = 1
  BY <1>2, PiecesGrow DEF Accumulate, Start
<1>3. CASE p.i # 1
  <2> DEFINE n == p.i - 1
  <2>1. n \in Nat /\ n # 0 /\ n + 1 = p.i /\ fbuf = Pieces(p.u, n)
    BY <1>1, <1>3
  <2>. HIDE DEF n
  <2>2. fbuf # <<>> /\ Append(fbuf, <<p.u, p.i>>) = Pieces(p.u, p.i)
    BY <2>1, PiecesGrow
  <2>. QED  BY <1>3, <2>2 DEF Accumulate, Start
<1>. QED  BY <1>2, <1>3

\* A whole unit begins with its own first piece.
LEMMA WholeHead == \A u \in Nat : Whole(u) # <<>> /\ Whole(u)[1][1] = u
<1>. SUFFICES ASSUME NEW u \in Nat PROVE Whole(u) # <<>> /\ Whole(u)[1][1] = u
  OBVIOUS
<1>1. 1 \in 1..NFrags
  BY H264Assumption
<1>2. Whole(u)[1] = <<u, 1>>
  BY <1>1 DEF Whole
<1>3. Whole(u) # <<>>
  BY WholeFramed DEF Frame
<1>. QED  BY <1>2, <1>3

\* A fragmented unit that is complete is handed out, or kept as a parameter set.
LEMMA WholeHandedOut ==
    ASSUME NEW p \in Packet, KindType, FrameInv, p.u \in 1..NUnits, p.form = "fu", p.i = NFrags,
           Accumulate(p) = Whole(p.u), ParseFrame(p), ReturnFirst(Units("nal", p)),
           saved = <<>>, last' = p, kinds' = kinds
    PROVE  saved' = <<>> /\ Resync'
<1>1. NFrags \in Nat /\ NFrags >= 2
  BY H264Assumption
<1>2. Whole(p.u) # <<>> /\ Whole(p.u)[1][1] = p.u
  BY WholeHead DEF Packet
<1>3. \A kind : Units(kind, p) = IF kinds[p.u] = kind THEN <<Whole(p.u)>> ELSE <<>>
  BY <1>2 DEF Units, EndBit, Keep
<1>4. kinds[p.u] \in {"nal", "sps", "pps"}
  BY DEF KindType
<1> DEFINE f == Whole(p.u)
<1>. HIDE DEF f
<1>5. Len(<<f>>) = 1 /\ <<f>>[1] = f /\ Head(<<f>>) = f /\ Tail(<<f>>) = <<>> /\ <<f>> # <<>>
  OBVIOUS
<1>6. CASE kinds[p.u] = "nal"
  <2>1. got' = Append(got, f) /\ saved' = <<>>
    BY <1>3, <1>5, <1>6 DEF ReturnFirst, f
  <2>2. f \in Frame /\ got \in Seq(Frame)
    BY WholeFramed DEF f, FrameInv, ReaderInv
  <2>3. got' # <<>> /\ got'[Len(got')] = f
    BY <2>1, <2>2
  <2>. QED  BY <1>6, <2>1, <2>3 DEF Resync, f
<1>7. CASE kinds[p.u] = "sps"
  <2>1. saved' = saved
    BY <1>3, <1>7 DEF ReturnFirst
  <2>2. sps'.data = f
    BY <1>3, <1>5, <1>7 DEF ParseFrame, Store, f
  <2>. QED  BY <1>7, <2>1, <2>2 DEF Resync, f
<1>8. CASE kinds[p.u] = "pps"
  <2>1. saved' = saved
    BY <1>3, <1>8 DEF ReturnFirst
  <2>2. pps'.data = f
    BY <1>3, <1>5, <1>8 DEF ParseFrame, Store, f
  <2>. QED  BY <1>8, <2>1, <2>2 DEF Resync, f
<1>. QED  BY <1>4, <1>6, <1>7, <1>8

\* A packet is deframed: the fragments in a row.
LEMMA ReceiveStreak ==
    ASSUME FrameInv, KindType, SeqInv, StreakInv, NEW p \in net, Receive(p)
    PROVE  StreakInv'
<1>1. NFrags \in Nat /\ NFrags >= 2
  BY H264Assumption
<1>2. p \in Packet /\ p.i \in 1..NFrags
  BY DEF FrameInv, Packet
<1>3. /\ ParseFrame(p) /\ ReturnFirst(Units("nal", p)) /\ saved = <<>> /\ last' = p /\ kinds' = kinds
  BY DEF Receive, sender
<1>4. CASE Start(p)
  <2>1. streak' = 1 /\ p.i = 1 /\ p.form = "fu"
    BY <1>4 DEF Receive, Start
  <2>2. fbuf' = Pieces(p.u, 1)
    BY <1>1, <1>2, <1>3, <2>1, NextFragment DEF ParseFrame, EndBit
  <2>. QED  BY <1>1, <1>3, <2>1, <2>2 DEF StreakInv
<1>5. CASE ~Start(p) /\ p.form = "fu" /\ p.seq = last.seq + 1 /\ streak = p.i - 1
  <2>1. streak' = p.i /\ p.i # 1
    BY <1>5 DEF Receive, Start
  <2>2. streak \in 1..(NFrags - 1)
    BY <1>1, <1>2, <1>5, <2>1
  <2>3. last.form = "fu" /\ last.i = streak /\ fbuf = Pieces(last.u, streak)
    BY <1>1, <2>2 DEF StreakInv
  <2>4. After(last) = <<p.u, p.i>>
    BY <1>5 DEF SeqInv, Known
  <2>5. last.u = p.u
    BY <1>1, <2>2, <2>3, <2>4 DEF After
  <2>6. Accumulate(p) = Pieces(p.u, p.i)
    BY <1>2, <1>5, <2>3, <2>5, NextFragment
  <2>7. CASE p.i < NFrags
    <3>1. fbuf' = Pieces(p.u, p.i)
      BY <1>1, <1>2, <1>3, <1>5, <2>6, <2>7 DEF ParseFrame, EndBit
    <3>. QED  BY <1>1, <1>2, <1>3, <1>5, <2>1, <2>7, <3>1 DEF StreakInv
  <2>8. CASE p.i = NFrags
    <3>1. Accumulate(p) = Whole(p.u)
      BY <1>1, <2>6, <2>8, PiecesGrow
    <3>2. p.u \in 1..NUnits
      BY <1>2, <1>5, H264Assumption DEF SeqInv, Known, PacketInv, Packet
    <3>3. saved' = <<>> /\ Resync'
      BY <1>2, <1>3, <1>5, <2>8, <3>1, <3>2, WholeHandedOut
    <3>. QED  BY <1>1, <1>3, <1>5, <2>1, <2>8, <3>3 DEF StreakInv
  <2>. QED  BY <1>1, <1>2, <2>7, <2>8
<1>6. CASE ~Start(p) /\ ~(p.form = "fu" /\ p.seq = last.seq + 1 /\ streak = p.i - 1)
  <2>1. streak' = 0
    BY <1>6 DEF Receive
  <2>. QED  BY <1>1, <2>1 DEF StreakInv
<1>. QED  BY <1>4, <1>5, <1>6

-----------------------------------------------------------------------------
\* The units completed are those before the one that is to come.
LEMMA CompletedAfter ==
    ASSUME last \in Packet \cup {NoPacket}
    PROVE  Completed = After(last)[1] - 1 /\ Completed \in Int
<1>1. CASE last = NoPacket
  BY <1>1 DEF Completed, After, NoPacket
<1>2. CASE last \in Packet
  BY <1>2, H264Assumption DEF Completed, After, Packet
<1>. QED  BY <1>1, <1>2

\* Units that come after those listed so far.
LEMMA ListsJoin ==
    ASSUME NEW s \in Seq(Frame), NEW t \in Seq(Frame), NEW kind, NEW l \in Nat, NEW m \in Int, NEW n \in Int,
           l <= m + 1, m <= n, Lists(s, kind, l, m), Lists(t, kind, m + 1, n)
    PROVE  Lists(s \o t, kind, l, n)
<1> DEFINE w == s \o t
<1>1. /\ w \in Seq(Frame) /\ Len(w) = Len(s) + Len(t)
      /\ \A i \in 1..Len(w) : w[i] = IF i <= Len(s) THEN s[i] ELSE t[i - Len(s)]
  OBVIOUS
<1>2. Len(s) \in Nat /\ Len(t) \in Nat
  OBVIOUS
<1>3. \A u \in Nat : Whole(u)[1][1] = u
  BY WholeHead
<1>. HIDE DEF w
<1>4. \A i \in 1..Len(s) : w[i] = s[i] /\ i \in 1..Len(w)
  BY <1>1, <1>2
<1>5. \A i \in 1..Len(t) : w[i + Len(s)] = t[i] /\ i + Len(s) \in 1..Len(w)
  <2>. SUFFICES ASSUME NEW i \in 1..Len(t)
                PROVE  w[i + Len(s)] = t[i] /\ i + Len(s) \in 1..Len(w)
    OBVIOUS
  <2>1. i + Len(s) \in 1..Len(w) /\ ~(i + Len(s) <= Len(s)) /\ (i + Len(s)) - Len(s) = i
    BY <1>1, <1>2
  <2>. QED  BY <1>1, <2>1
<1>6. \A i \in 1..Len(w) : i \in 1..Len(s) \/ (i - Len(s) \in 1..Len(t) /\ w[i] = t[i - Len(s)])
  BY <1>1, <1>2
<1>7. /\ \A i \in 1..Len(s) : \E u \in l..m : kinds[u] = kind /\ s[i] = Whole(u)
      /\ \A u \in l..m : kinds[u] = kind => \E i \in 1..Len(s) : s[i] = Whole(u)
      /\ \A i, j \in 1..Len(s) : i < j => s[i][1][1] < s[j][1][1]
  BY DEF Lists
<1>8. /\ \A i \in 1..Len(t) : \E u \in (m + 1)..n : kinds[u] = kind /\ t[i] = Whole(u)
      /\ \A u \in (m + 1)..n : kinds[u] = kind => \E i \in 1..Len(t) : t[i] = Whole(u)
      /\ \A i, j \in 1..Len(t) : i < j => t[i][1][1] < t[j][1][1]
  BY DEF Lists
<1>9. l..m \subseteq l..n /\ (m + 1)..n \subseteq l..n /\ l..n \subseteq (l..m) \cup ((m + 1)..n)
  OBVIOUS
<1>10. \A i \in 1..Len(w) : \E u \in l..n : kinds[u] = kind /\ w[i] = Whole(u)
  <2>. SUFFICES ASSUME NEW i \in 1..Len(w) PROVE \E u \in l..n : kinds[u] = kind /\ w[i] = Whole(u)
    OBVIOUS
  <2>1. CASE i \in 1..Len(s)
    <3>1. PICK u \in l..m : kinds[u] = kind /\ s[i] = Whole(u)
      BY <1>7, <2>1
    <3>. QED  BY <1>4, <1>9, <2>1, <3>1
  <2>2. CASE i - Len(s) \in 1..Len(t) /\ w[i] = t[i - Len(s)]
    <3>1. PICK u \in (m + 1)..n : kinds[u] = kind /\ t[i - Len(s)] = Whole(u)
      BY <1>8, <2>2
    <3>. QED  BY <1>9, <2>2, <3>1
  <2>. QED  BY <1>6, <2>1, <2>2
<1>11. \A u \in l..n : kinds[u] = kind => \E i \in 1..Len(w) : w[i] = Whole(u)
  <2>. SUFFICES ASSUME NEW u \in l..n, kinds[u] = kind PROVE \E i \in 1..Len(w) : w[i] = Whole(u)
    OBVIOUS
  <2>1. CASE u \in l..m
    <3>1. PICK i \in 1..Len(s) : s[i] = Whole(u)
      BY <1>7, <2>1
    <3>. QED  BY <1>4, <3>1
  <2>2. CASE u \in (m + 1)..n
    <3>1. PICK i \in 1..Len(t) : t[i] = Whole(u)
      BY <1>8, <2>2
    <3>. QED  BY <1>5, <3>1
  <2>. QED  BY <1>9, <2>1, <2>2
<1>12. \A i, j \in 1..Len(w) : i < j => w[i][1][1] < w[j][1][1]
  <2>. SUFFICES ASSUME NEW i \in 1..Len(w), NEW j \in 1..Len(w), i < j
                PROVE  w[i][1][1] < w[j][1][1]
    OBVIOUS
  <2>1. CASE j <= Len(s)
    <3>1. i \in 1..Len(s) /\ j \in 1..Len(s)
      BY <1>1, <1>2, <2>1
    <3>. QED  BY <1>4, <1>7, <3>1
  <2>2. CASE i > Len(s)
    <3>1. /\ i - Len(s) \in 1..Len(t) /\ j - Len(s) \in 1..Len(t) /\ i - Len(s) < j - Len(s)
          /\ w[i] = t[i - Len(s)] /\ w[j] = t[j - Len(s)]
      BY <1>1, <1>2, <2>2
    <3>. QED  BY <1>8, <3>1
  <2>3. CASE i <= Len(s) /\ j > Len(s)
    <3>1. /\ w[i] = s[i] /\ i \in 1..Len(s) /\ w[j] = t[j - Len(s)] /\ j - Len(s) \in 1..Len(t)
      BY <1>1, <1>2, <2>3
    <3>2. PICK u \in l..m : w[i] = Whole(u)
      BY <1>7, <3>1
    <3>3. PICK v \in (m + 1)..n : w[j] = Whole(v)
      BY <1>8, <3>1
    <3>4. u \in Nat /\ v \in Nat /\ u < v
      OBVIOUS
    <3>. QED  BY <1>3, <3>2, <3>3, <3>4
  <2>. QED  BY <1>2, <2>1, <2>2, <2>3
<1>13. Lists(w, kind, l, n)
  BY <1>10, <1>11, <1>12 DEF Lists
<1>. QED  BY <1>13 DEF w

\* The units of a packet that is in its place.
LEMMA UnitsListed ==
    ASSUME NEW p \in Packet, NEW kind, p.form = "fu" => Accumulate(p) = Pieces(p.u, p.i)
    PROVE  Lists(Units(kind, p), kind, p.u, After(p)[1] - 1)
<1>1. NFrags \in Nat /\ NFrags >= 2 /\ p.u \in Nat /\ p.i \in 1..NFrags
  BY H264Assumption DEF Packet
<1>2. \A u \in Nat : Whole(u) # <<>> /\ Whole(u)[1][1] = u
  BY WholeHead
<1>3. \A u \in Nat : Keep(kind, Whole(u)) = IF kinds[u] = kind THEN <<Whole(u)>> ELSE <<>>
  BY <1>2 DEF Keep
<1>4. \A u \in Nat : Lists(Keep(kind, Whole(u)), kind, u, u)
  BY <1>3 DEF Lists
<1>5. CASE p.form = "single" \/ (p.form = "fu" /\ p.i = NFrags)
  <2>1. Units(kind, p) = Keep(kind, Whole(p.u))
    BY <1>1, <1>2, <1>5, PiecesGrow DEF Units, EndBit
  <2>2. After(p)[1] - 1 = p.u
    BY <1>1, <1>5 DEF After
  <2>. QED  BY <1>1, <1>4, <2>1, <2>2
<1>6. CASE p.form = "stap"
  <2>1. Units(kind, p) = Keep(kind, Whole(p.u)) \o Keep(kind, Whole(p.u + 1))
    BY <1>6 DEF Units, EndBit
  <2>2. After(p)[1] - 1 = p.u + 1
    BY <1>1, <1>6 DEF After
  <2>3. \A u \in Nat : Keep(kind, Whole(u)) \in Seq(Frame)
    BY WholeFramed DEF Keep
  <2>4. ASSUME NEW a \in Nat
        PROVE  Lists(Keep(kind, Whole(a)) \o Keep(kind, Whole(a + 1)), kind, a, a + 1)
    <3>1. /\ Keep(kind, Whole(a)) \in Seq(Frame) /\ Keep(kind, Whole(a + 1)) \in Seq(Frame)
          /\ Lists(Keep(kind, Whole(a)), kind, a, a)
          /\ Lists(Keep(kind, Whole(a + 1)), kind, a + 1, a + 1)
          /\ a <= a + 1 /\ a \in Int /\ a + 1 \in Int
      BY <1>4, <2>3
    <3>. QED  BY <3>1, ListsJoin
  <2>. QED  BY <1>1, <2>1, <2>2, <2>4
<1>7. CASE p.form = "fu" /\ p.i # NFrags
  <2>1. Units(kind, p) = <<>>
    BY <1>7 DEF Units, EndBit
  <2>2. After(p)[1] - 1 = p.u - 1
    BY <1>1, <1>7 DEF After
  <2>. QED  BY <1>1, <2>1, <2>2 DEF Lists
<1>. QED  BY <1>5, <1>6, <1>7 DEF Packet

\* A parameter set is replaced by the last one of the packet.
LEMMA StoreParameter ==
    ASSUME fbuf \in Prefix, NEW p \in Packet, NEW kind, NEW par \in Parameter
    PROVE  /\ Store(par, kind, p) \in Parameter
           /\ Store(par, kind, p).form # "fu" =>
                 LET new == Units(kind, p) IN
                 IF new = <<>> THEN par.form # "fu" /\ Store(par, kind, p) = par
                 ELSE Store(par, kind, p).data = new[Len(new)]
<1> DEFINE new == Units(kind, p)
<1>1. new \in Seq(Frame)
  BY UnitsFramed
<1>2. Store(par, kind, p) = IF new = <<>> THEN Kept(par, p)
                            ELSE [data |-> new[Len(new)], form |-> p.form]
  BY DEF Store
<1>3. p.form \in {"single", "stap", "fu"} /\ Frame \subseteq Seq(Cell)
  BY DEF Packet, Frame
<1>. HIDE DEF new
<1>4. CASE new = <<>>
  <2>1. Kept(par, p) \in Parameter /\ Kept(par, p).form = par.form
    <3>1. <<>> \in Seq(Cell)
      OBVIOUS
    <3>2. CASE par.form = "fu" /\ Start(p)
      BY <3>1, <3>2 DEF Kept, Parameter, Overwritten
    <3>3. CASE ~(par.form = "fu" /\ Start(p))
      BY <3>3 DEF Kept
    <3>. QED  BY <3>2, <3>3
  <2>2. par.form # "fu" => Kept(par, p) = par
    BY DEF Kept
  <2>. QED  BY <1>2, <1>4, <2>1, <2>2 DEF new
<1>5. CASE new # <<>>
  <2>1. new[Len(new)] \in Seq(Cell)
    BY <1>1, <1>3, <1>5
  <2>. QED  BY <1>2, <1>3, <1>5, <2>1 DEF new, Parameter
<1>. QED  BY <1>4, <1>5

\* Latest, for the units up to n.
LatestOf(data, kind, n) ==
    LET us == {u \in 1..n : kinds[u] = kind} IN
    IF us = {} THEN data = <<>>
    ELSE \E u \in us : data = Whole(u) /\ \A v \in us : v <= u

\* The last unit of a list is the latest.
LEMMA LastIsLatest ==
    ASSUME NEW s \in Seq(Frame), NEW kind, NEW m \in Nat, NEW n \in Int, m <= n,
           Lists(s, kind, m + 1, n)
    PROVE  /\ s = <<>> => \A d : LatestOf(d, kind, m) => LatestOf(d, kind, n)
           /\ s # <<>> => LatestOf(s[Len(s)], kind, n)
<1>1. \A u \in Nat : Whole(u)[1][1] = u
  BY WholeHead
<1>2. Len(s) \in Nat /\ (s = <<>> <=> Len(s) = 0)
  OBVIOUS
<1>3. /\ \A i \in 1..Len(s) : \E u \in (m + 1)..n : kinds[u] = kind /\ s[i] = Whole(u)
      /\ \A u \in (m + 1)..n : kinds[u] = kind => \E i \in 1..Len(s) : s[i] = Whole(u)
      /\ \A i, j \in 1..Len(s) : i < j => s[i][1][1] < s[j][1][1]
  BY DEF Lists
<1>4. CASE s = <<>>
  <2>1. \A u \in (m + 1)..n : kinds[u] # kind
    BY <1>2, <1>3, <1>4
  <2>2. {u \in 1..m : kinds[u] = kind} = {u \in 1..n : kinds[u] = kind}
    BY <2>1
  <2>. QED  BY <1>4, <2>2 DEF LatestOf
<1>5. CASE s # <<>>
  <2>1. Len(s) \in 1..Len(s)
    BY <1>2, <1>5
  <2>2. PICK u \in (m + 1)..n : kinds[u] = kind /\ s[Len(s)] = Whole(u)
    BY <1>3, <2>1
  <2>3. u \in 1..n /\ u \in Nat
    OBVIOUS
  <2>4. ASSUME NEW v \in 1..n, kinds[v] = kind PROVE v <= u
    <3>1. CASE v \in (m + 1)..n
      <4>1. PICK i \in 1..Len(s) : s[i] = Whole(v)
        BY <1>3, <2>4, <3>1
      <4>2. i = Len(s) \/ i < Len(s)
        BY <1>2
      <4>3. v \in Nat /\ s[i][1][1] = v /\ s[Len(s)][1][1] = u
        BY <1>1, <2>2, <2>3, <4>1
      <4>4. i < Len(s) => v < u
        BY <1>3, <2>1, <4>3
      <4>5. i = Len(s) => v = u
        BY <4>3
      <4>. QED  BY <2>3, <4>2, <4>3, <4>4, <4>5
    <3>2. CASE v \notin (m + 1)..n
      BY <3>2
    <3>. QED  BY <3>1, <3>2
  <2>. QED  BY <1>5, <2>2, <2>3, <2>4 DEF LatestOf
<1>. QED  BY <1>4, <1>5

\* What is handed out and what is saved, after a packet.
LEMMA HandedOut ==
    ASSUME NEW us \in Seq(Frame), got \in Seq(Frame), saved = <<>>, ReturnFirst(us)
    PROVE  got' \o saved' = got \o us
<1>1. CASE us = <<>>
  BY <1>1 DEF ReturnFirst
<1>2. CASE us # <<>>
  <2>1. got' = Append(got, Head(us)) /\ saved' = Tail(us)
    BY <1>2 DEF ReturnFirst
  <2>2. Append(got, Head(us)) \o Tail(us) = got \o us
    BY <1>2
  <2>. QED  BY <2>1, <2>2
<1>. QED  BY <1>1, <1>2

\* A packet is deframed: the parameter sets are sets of pieces still.
LEMMA ReceiveParameters ==
    ASSUME FrameInv, ParameterType, NEW p \in net, Receive(p)
    PROVE  ParameterType'
<1>1. sps' = Store(sps, "sps", p) /\ pps' = Store(pps, "pps", p)
  BY DEF Receive, ParseFrame
<1>2. p \in Packet /\ fbuf \in Prefix
  BY DEF FrameInv
<1>. QED  BY <1>1, <1>2, StoreParameter DEF ParameterType

\* A packet is deframed: what is in its place is put in its place.
LEMMA ReceiveOrder ==
    ASSUME FrameInv, KindType, ParameterType, SeqInv, OrderInv, NEW p \in net, Receive(p)
    PROVE  OrderInv'
<1>. SUFFICES ASSUME ~gap'
              PROVE  /\ fbuf' = Pieces(After(p)[1], After(p)[2] - 1)
                     /\ InOrderExact'
  BY DEF OrderInv, Receive
<1>1. NFrags \in Nat /\ NFrags >= 2
  BY H264Assumption
<1>2. /\ p \in Packet /\ p.i \in 1..NFrags /\ p.u \in Nat /\ p.form \in {"single", "stap", "fu"}
      /\ fbuf \in Prefix /\ got \in Seq(Frame)
  BY DEF FrameInv, ReaderInv, Packet
<1>3. ~gap /\ p.seq = last.seq + 1
  <2>1. gap' = (gap \/ p.seq # last.seq + 1)
    BY DEF Receive
  <2>. QED  BY <2>1, Zenon
<1>4. /\ ParseFrame(p) /\ ReturnFirst(Units("nal", p)) /\ saved = <<>> /\ last' = p /\ kinds' = kinds
  BY DEF Receive, sender
<1>5. After(last) = <<p.u, p.i>> /\ p.u >= 1 /\ (p.form # "fu" => p.i = 1)
  BY <1>2, <1>3 DEF SeqInv, Known, PacketInv
<1>6. fbuf = Pieces(p.u, p.i - 1) /\ InOrderExact
  BY <1>3, <1>5 DEF OrderInv
<1>7. p.form = "fu" => Accumulate(p) = Pieces(p.u, p.i)
  BY <1>2, <1>6, NextFragment
<1> DEFINE m == p.u - 1
           n == After(p)[1] - 1
<1>8. Completed = m /\ m \in Nat /\ p.u = m + 1
  BY <1>2, <1>5, CompletedAfter DEF SeqInv
<1>9. Completed' = n /\ n \in Int /\ m <= n
  <2>1. After(p)[1] \in Int /\ p.u <= After(p)[1]
    BY ONLY <1>1, <1>2 DEF After
  <2>2. Completed' = CASE p.form = "stap" -> p.u + 1
                      [] p.form = "fu" /\ p.i < NFrags -> p.u - 1
                      [] OTHER -> p.u
    BY ONLY <1>2, <1>4 DEF Completed
  <2>3. Completed' = n
    BY ONLY <1>1, <1>2, <2>2 DEF After
  <2>. QED  BY ONLY <1>2, <2>1, <2>3
<1>10. fbuf' = Pieces(After(p)[1], After(p)[2] - 1)
  <2>1. CASE p.form # "fu"
    <3>1. fbuf = <<>> /\ fbuf' = fbuf
      BY <1>4, <1>5, <1>6, <2>1, PiecesGrow DEF ParseFrame, EndBit
    <3>2. After(p)[2] - 1 = 0
      BY <1>2, <2>1 DEF After
    <3>. QED  BY <3>1, <3>2, PiecesGrow
  <2>2. CASE p.form = "fu" /\ p.i = NFrags
    <3>1. fbuf' = <<>>
      BY <1>4, <2>2 DEF ParseFrame, EndBit
    <3>2. After(p)[2] - 1 = 0
      BY <2>2 DEF After
    <3>. QED  BY <3>1, <3>2, PiecesGrow
  <2>3. CASE p.form = "fu" /\ p.i < NFrags
    <3>1. fbuf' = Pieces(p.u, p.i)
      BY <1>1, <1>2, <1>4, <1>7, <2>3 DEF ParseFrame, EndBit
    <3>2. After(p)[1] = p.u /\ After(p)[2] - 1 = p.i
      BY <1>2, <2>3 DEF After
    <3>. QED  BY <3>1, <3>2
  <2>. QED  BY <1>1, <1>2, <2>1, <2>2, <2>3
<1>. HIDE DEF m, n
<1>11. \A kind : Units(kind, p) \in Seq(Frame) /\ Lists(Units(kind, p), kind, m + 1, n)
  <2>. SUFFICES ASSUME NEW kind
                PROVE  Units(kind, p) \in Seq(Frame) /\ Lists(Units(kind, p), kind, p.u, After(p)[1] - 1)
    BY <1>8 DEF n
  <2>. QED  BY <1>2, <1>7, UnitsFramed, UnitsListed
<1>12. Lists(got' \o saved', "nal", 1, n)
  <2>1. Lists(got, "nal", 1, m)
    <3>1. got \o saved = got
      BY <1>2, <1>4
    <3>. QED  BY <1>3, <1>6, <1>8, <3>1 DEF InOrderExact
  <2>2. got' \o saved' = got \o Units("nal", p)
    BY <1>2, <1>4, <1>11, HandedOut
  <2>3. 1 <= m + 1 /\ m \in Int /\ 1 \in Nat
    BY <1>8
  <2>. QED  BY <1>2, <1>9, <1>11, <2>1, <2>2, <2>3, ListsJoin
<1>13. ASSUME NEW par \in Parameter, NEW kind, par.form # "fu" => Latest(par.data, kind),
              Store(par, kind, p).form # "fu"
       PROVE  LatestOf(Store(par, kind, p).data, kind, n)
  <2> DEFINE new == Units(kind, p)
  <2>1. IF new = <<>> THEN par.form # "fu" /\ Store(par, kind, p) = par
        ELSE Store(par, kind, p).data = new[Len(new)]
    BY <1>2, <1>13, StoreParameter
  <2>2. new \in Seq(Frame) /\ Lists(new, kind, m + 1, n)
    BY <1>11
  <2>. HIDE DEF new
  <2>3. CASE new = <<>>
    <3>1. LatestOf(par.data, kind, m)
      BY <1>8, <1>13, <2>1, <2>3 DEF Latest, LatestOf
    <3>. QED  BY <1>8, <1>9, <2>1, <2>2, <2>3, <3>1, LastIsLatest
  <2>4. CASE new # <<>>
    BY <1>8, <1>9, <2>1, <2>2, <2>4, LastIsLatest
  <2>. QED  BY <2>3, <2>4
<1>14. sps'.form # "fu" => LatestOf(sps'.data, "sps", n)
  BY <1>3, <1>4, <1>6, <1>13 DEF ParseFrame, InOrderExact, ParameterType
<1>15. pps'.form # "fu" => LatestOf(pps'.data, "pps", n)
  BY <1>3, <1>4, <1>6, <1>13 DEF ParseFrame, InOrderExact, ParameterType
<1>16. InOrderExact'
  BY <1>4, <1>9, <1>12, <1>14, <1>15 DEF InOrderExact, Lists, Latest, LatestOf
<1>. QED  BY <1>10, <1>16

\* A unit that was saved is handed out.
LEMMA SavedHandedOut ==
    ASSUME FrameInv, ReadSaved
    PROVE  got' \o saved' = got \o saved
<1>1. got \in Seq(Frame) /\ saved \in Seq(Frame) /\ saved # <<>>
  BY DEF FrameInv, ReaderInv, ReadSaved
<1>2. Append(got, Head(saved)) \o Tail(saved) = got \o saved
  BY <1>1
<1>. QED  BY <1>2 DEF ReadSaved

\* Every step preserves the invariant.
LEMMA NextSyncInv == FrameInv /\ SyncInv /\ [Next]_vars => SyncInv'
<1>. SUFFICES ASSUME FrameInv, SyncInv, [Next]_vars PROVE SyncInv'
  OBVIOUS
<1>. USE DEF SyncInv
<1>1. KindType'
  BY DEF KindType, Next, vars, sender, Single, Aggregate, Fragment, Put, Lose, Receive, ReadSaved, TooShort
<1>2. ASSUME UNCHANGED <<kinds, parser, saved, got, history>>
      PROVE  ParameterType' /\ StreakInv' /\ OrderInv'
  <2>1. /\ kinds' = kinds /\ fbuf' = fbuf /\ sps' = sps /\ pps' = pps /\ saved' = saved /\ got' = got
        /\ last' = last /\ gap' = gap /\ streak' = streak
    BY <1>2 DEF parser, history
  <2>2. ParameterType' /\ StreakInv'
    BY <2>1 DEF ParameterType, StreakInv, Resync
  <2>3. Completed' = Completed
    BY <2>1 DEF Completed
  <2>4. InOrderExact' = InOrderExact
    BY <2>1, <2>3 DEF InOrderExact, Lists, Latest
  <2>. QED  BY <2>1, <2>2, <2>4 DEF OrderInv
<1>3. CASE UNCHANGED vars
  <2>1. SeqInv'
    BY <1>3, NetworkSync DEF vars, history, Known
  <2>. QED  BY <1>1, <1>2, <1>3, <2>1 DEF vars, sender
<1>4. CASE Single \/ Aggregate \/ Fragment
  <2>1. UNCHANGED <<kinds, parser, saved, got, history>>
    BY <1>4 DEF Single, Aggregate, Fragment, Put
  <2>. QED  BY <1>1, <1>2, <1>4, <2>1, SendSync
<1>5. ASSUME NEW p \in net, Lose(p) PROVE SyncInv'
  <2>1. SeqInv'
    BY <1>5, NetworkSync DEF Lose, history, Known
  <2>. QED  BY <1>1, <1>2, <1>5, <2>1 DEF Lose, sender
<1>6. ASSUME NEW p \in net, Receive(p) PROVE SyncInv'
  <2>1. SeqInv'
    BY <1>6, NetworkSync DEF Receive, Known
  <2>. QED  BY <1>1, <1>6, <2>1, ReceiveParameters, ReceiveStreak, ReceiveOrder
<1>7. CASE ReadSaved
  <2>1. /\ saved # <<>> /\ UNCHANGED <<sender, net, parser, history>>
    BY <1>7 DEF ReadSaved
  <2>2. SeqInv'
    BY <2>1, NetworkSync DEF history, Known
  <2>3. ParameterType' /\ StreakInv'
    BY <2>1 DEF ParameterType, StreakInv, parser, history
  <2>4. /\ kinds' = kinds /\ fbuf' = fbuf /\ sps' = sps /\ pps' = pps /\ last' = last /\ gap' = gap
        /\ Completed' = Completed
    BY <2>1 DEF sender, parser, history, Completed
  <2>5. got' \o saved' = got \o saved
    BY <1>7, SavedHandedOut
  <2>6. InOrderExact => InOrderExact'
    <3>1. Lists(got \o saved, "nal", 1, Completed) => Lists(got \o saved, "nal", 1, Completed)'
      BY <2>4, <2>5, Zenon DEF Lists
    <3>2. /\ Latest(sps.data, "sps") => Latest(sps.data, "sps")'
          /\ Latest(pps.data, "pps") => Latest(pps.data, "pps")'
      BY <2>4 DEF Latest
    <3>. QED  BY <2>4, <3>1, <3>2 DEF InOrderExact
  <2>. QED  BY <1>1, <2>2, <2>3, <2>4, <2>6 DEF OrderInv
<1>8. CASE TooShort
  <2>1. SeqInv'
    BY <1>8, NetworkSync DEF TooShort, history, Known
  <2>. QED  BY <1>1, <1>2, <1>8, <2>1 DEF TooShort, sender
<1>. QED  BY <1>3, <1>4, <1>5, <1>6, <1>7, <1>8 DEF Next

\* Packets in a row carry pieces in a row, and the parser keeps to them.
THEOREM SyncInvariance == Spec => []SyncInv
<1>1. Init => SyncInv
  <2>. SUFFICES ASSUME Init PROVE SyncInv
    OBVIOUS
  <2>1. /\ unit = 1 /\ frag = 1 /\ seq = 1 /\ net = {} /\ last = NoPacket /\ streak = 0
        /\ fbuf = <<>> /\ sps = Unset /\ pps = Unset /\ got = <<>> /\ saved = <<>>
    BY DEF Init
  <2>2. KindType /\ ParameterType
    <3>1. <<>> \in Seq(Cell)
      OBVIOUS
    <3>. QED  BY <2>1, <3>1 DEF Init, KindType, ParameterType, Parameter, Unset
  <2>3. After(NoPacket) = <<1, 1>> /\ Completed = 0
    BY <2>1 DEF After, Completed, NoPacket
  <2>4. SeqInv
    <3>1. Known = {NoPacket} /\ NoPacket.seq = 0 /\ PacketInv(NoPacket)
      BY <2>1, H264Assumption DEF Known, PacketInv, NoPacket
    <3>. QED  BY <2>1, <2>3, <3>1 DEF SeqInv
  <2>5. StreakInv
    BY <2>1, H264Assumption DEF StreakInv
  <2>6. InOrderExact
    <3>1. got \o saved = <<>>
      BY <2>1
    <3>. QED  BY <2>1, <2>3, <3>1 DEF InOrderExact, Lists, Latest, Unset
  <2>7. fbuf = Pieces(After(last)[1], After(last)[2] - 1)
    BY <2>1, <2>3, PiecesGrow
  <2>. QED  BY <2>2, <2>4, <2>5, <2>6, <2>7 DEF SyncInv, OrderInv
<1>. QED  BY <1>1, FrameInvariance, NextSyncInv, PTL DEF Spec

\* While no packet is missing, readPacket returns exactly the units that were
\* sent, in order, however they were packed (ParseFrame, readPacket).
THEOREM AlwaysInOrder == Spec => []InOrderExact
<1>1. SyncInv => InOrderExact
  BY DEF SyncInv, OrderInv, InOrderExact
<1>. QED  BY <1>1, SyncInvariance, PTL

\* A fragmented unit whose packets arrive in a row comes out whole, whatever
\* was lost or reordered before (the fbuf of ParseFrame).
THEOREM AlwaysResync == Spec => []Resync
<1>1. SyncInv => Resync
  BY DEF SyncInv, StreakInv, Resync
<1>. QED  BY <1>1, SyncInvariance, PTL

=============================================================================
