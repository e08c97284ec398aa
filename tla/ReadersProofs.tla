---------------------------- MODULE ReadersProofs ----------------------------
(***************************************************************************)
(* The readers of a stream, each for itself and for every value of its     *)
(* constants: the conversion to Opus, the frame grabber, the HLS viewers'  *)
(* table, an RTSP connection and a WebRTC viewer; then the readers         *)
(* together.                                                               *)
(***************************************************************************)
EXTENDS Playback, OpusConvert, FiniteSetTheorems, WellFoundedInduction, TLAPS

(***************************************************************************)
(* The conversion to Opus.  As long as no goroutine has failed, all PCM    *)
(* that ffmpeg made is in it, in stdout, in the encoder's buffer or sent.  *)
(* The encoder, which does not fail and is done, has seen the end of an    *)
(* empty stdout with its buffer not full; the feeder, that of the source;  *)
(* ffmpeg, when it ends by itself, leaves nothing behind.                  *)
(***************************************************************************)
OpusType ==
    /\ main \in {"start", "waiting", "reaping", "returned"}
    /\ encoder \in {"none", "new", "loop", "reading", "encoding", "done"}
    /\ err \in {"none", "feeder", "encoder"}
    /\ ffmpeg \in {"none", "running", "exited", "reaped"}
    /\ left \in Nat /\ stdin \in Nat /\ stdout \in Nat /\ held \in Nat
    /\ sbuf \in 0..ChunkLen /\ pcm \in Nat /\ encoded \in Nat

Conserved == err = "none" => pcm = held + stdout + sbuf + encoded

\* The buffer is full when a chunk is to be encoded, and only then.
BufferInv ==
    /\ encoder \in {"none", "new", "loop"} => sbuf = 0
    /\ encoder = "reading" \/ (encoder = "done" /\ err = "none") => sbuf < ChunkLen
    /\ encoder = "encoding" => sbuf = ChunkLen

Ended == ffmpeg \in {"exited", "reaped"}

EndInv ==
    /\ main = "start" => ffmpeg = "none" /\ encoder = "none"
    /\ main = "reaping" \/ ffmpeg = "reaped" => encoder = "done" /\ feeder = "done"
    /\ feeder = "done" /\ err = "none" => left = 0
    /\ Ended /\ ~lost => stdin = 0 /\ held = 0
    /\ encoder = "done" /\ err = "none" => stdout = 0 /\ Ended

\* What the stages of Convert have done before one waits for another.
StageInv ==
    /\ feeder \in {"none", "loop", "reading", "writing", "done"}
    /\ main \in {"waiting", "reaping"} =>
          ffmpeg \in {"running", "exited"} /\ feeder # "none" /\ encoder # "none"
    /\ main = "reaping" /\ err # "none" => killed
    /\ main = "start" => feeder = "none" /\ err = "none"
    /\ err = "feeder" => feeder = "done"
    /\ feeder = "done" => ~stdinOpen

OpusInv == OpusType /\ Conserved /\ BufferInv /\ EndInv /\ StageInv

\* The feeder and ffmpeg's input.
LEMMA FeederPreserves ==
    ASSUME OpusInv, Feeder
    PROVE  OpusInv'
<1>. USE DEF OpusInv, OpusType, Conserved, BufferInv, Ended, EndInv, StageInv, mainVars, encVars, procVars
<1>1. CASE FeedCheck
  BY <1>1 DEF FeedCheck, FeederEnds, Fails
<1>2. CASE FeedRead
  BY <1>2 DEF FeedRead, FeederEnds, Fails
<1>3. CASE FeedWrite
  BY <1>3 DEF FeedWrite, FeederEnds, Fails
<1>. QED  BY <1>1, <1>2, <1>3 DEF Feeder

\* The encoder.
LEMMA EncoderPreserves ==
    ASSUME OpusInv, Encoder \/ EncReadFails
    PROVE  OpusInv'
<1>. USE DEF OpusInv, OpusType, Conserved, BufferInv, Ended, EndInv, StageInv, mainVars, feedVars, procVars
<1>1. CASE NewEncoder
  BY <1>1, OpusAssumption DEF NewEncoder, EncoderEnds, Fails
<1>2. CASE EncCheck
  BY <1>2, OpusAssumption DEF EncCheck
<1>3. CASE EncRead
  BY <1>3, OpusAssumption DEF EncRead
<1>5. CASE EncReadFails
  BY <1>5 DEF EncReadFails, EncoderEnds, Fails
<1>4. CASE Encode
  BY <1>4, OpusAssumption DEF Encode, EncoderEnds, Fails
<1>. QED  BY <1>1, <1>2, <1>3, <1>4, <1>5 DEF Encoder

\* ffmpeg, and Convert itself.
LEMMA ConvertPreserves ==
    ASSUME OpusInv, Process \/ Reject \/ HeaderFails \/ Start \/ Wait \/ CmdWait
    PROVE  OpusInv'
<1>. USE DEF OpusInv, OpusType, Conserved, BufferInv, Ended, EndInv, StageInv,
             mainVars, feedVars, encVars, procVars
<1>1. CASE Decode
  BY <1>1 DEF Decode
<1>2. CASE Finish \/ Abort
  BY <1>2 DEF Finish, Abort
<1>3. CASE Reject \/ HeaderFails \/ Start
  BY <1>3 DEF Reject, HeaderFails, Start
<1>4. CASE Wait
  <2>1. err # "none" => killed'
    BY <1>4, Zenon DEF Wait
  <2>. QED  BY <1>4, <2>1 DEF Wait
<1>5. CASE CmdWait
  BY <1>5 DEF CmdWait
<1>. QED  BY <1>1, <1>2, <1>3, <1>4, <1>5 DEF Process

\* The inductive invariant of the conversion.
THEOREM OpusInvariant == OpusSpec => []OpusInv
<1>1. OpusInit => OpusInv
  <2>. SUFFICES ASSUME OpusInit PROVE OpusInv
    OBVIOUS
  <2>1. OpusType
    BY OpusAssumption DEF OpusInit, OpusType
  <2>2. Conserved /\ BufferInv /\ EndInv /\ StageInv
    BY DEF OpusInit, Conserved, BufferInv, Ended, EndInv, StageInv
  <2>. QED  BY <2>1, <2>2 DEF OpusInv
<1>2. OpusInv /\ UNCHANGED opusVars => OpusInv'
  BY DEF opusVars, OpusInv, OpusType, Conserved, BufferInv, Ended, EndInv, StageInv
<1>3. OpusInv /\ [OpusNext]_opusVars => OpusInv'
  BY <1>2, FeederPreserves, EncoderPreserves, ConvertPreserves DEF OpusNext
<1>. QED  BY <1>1, <1>3, PTL DEF OpusSpec

\* Whatever the pace of the goroutines, the capacity of the pipes, what ffmpeg
\* makes of a packet and the length of a chunk: when Convert ends without an error
\* all audio has been encoded and sent but a rest shorter than one chunk, for the
\* encoder reads stdout to its end before cmd.Wait.
THEOREM ConversionComplete == OpusSpec => []NothingLost
<1>1. OpusInv => NothingLost
  BY OpusAssumption DEF OpusInv, OpusType, Conserved, BufferInv, Ended, EndInv, NothingLost
<1>. QED  BY <1>1, OpusInvariant, PTL

\* Convert and everything it started cannot all wait for each other, whatever the
\* capacity of the pipes: until it returns, or the encoder is the first to fail,
\* one of the steps that OpusFairness asks for is possible.
SomeoneMoves ==
    \/ main = "start"
    \/ main = "waiting" /\ feeder = "done" /\ encoder = "done"
    \/ main = "reaping" /\ ffmpeg = "exited"
    \/ feeder \in {"loop", "reading"}
    \/ feeder = "writing" /\ (ffmpeg = "exited" \/ (ffmpeg = "running" /\ stdin < Cap))
    \/ encoder \in {"new", "loop", "encoding"}
    \/ encoder = "reading" /\ (stdout > 0 \/ ffmpeg = "exited")
    \/ ffmpeg = "running" /\ held = 0 /\ (stdin > 0 \/ ~stdinOpen)
    \/ ffmpeg = "running" /\ held > 0 /\ stdout < Cap
    \/ ffmpeg = "running" /\ killed

\* The two pipes and the two waits of Convert form no cycle: the encoder stays
\* to drain stdout as long as the feeder may be blocked on stdin.
THEOREM ConvertNeverStuck ==
    OpusSpec => [](main = "returned" \/ err = "encoder" \/ SomeoneMoves)
<1>1. OpusInv => main = "returned" \/ err = "encoder" \/ SomeoneMoves
  <2>. SUFFICES ASSUME OpusInv, main \in {"waiting", "reaping"}, err \in {"none", "feeder"}
                PROVE  SomeoneMoves
    BY DEF OpusInv, OpusType, SomeoneMoves
  <2>1. Cap > 0 /\ stdin \in Nat /\ stdout \in Nat /\ held \in Nat /\ Cap \in Nat
    BY OpusAssumption DEF OpusInv, OpusType
  <2>2. CASE ffmpeg = "exited"
    BY <2>2 DEF OpusInv, OpusType, StageInv, SomeoneMoves
  <2>3. CASE ffmpeg = "running" /\ encoder = "done"
    BY <2>1, <2>3 DEF OpusInv, OpusType, EndInv, Ended, StageInv, SomeoneMoves
  <2>4. CASE ffmpeg = "running" /\ encoder # "done"
    BY <2>1, <2>4 DEF OpusInv, OpusType, EndInv, StageInv, SomeoneMoves
  <2>. QED  BY <2>2, <2>3, <2>4 DEF OpusInv, OpusType, StageInv
<1>. QED  BY <1>1, OpusInvariant, PTL

-----------------------------------------------------------------------------
(***************************************************************************)
(* The frame grabber.  What it has collected is the key picture its last   *)
(* packet is of; what it remembers is the last B-frame, or nothing when    *)
(* that one is too long ago.                                               *)
(***************************************************************************)
GrabType ==
    /\ prev \in Packet
    /\ buf \in Seq(Int) /\ keyTime \in Int
    /\ lastBframe \in Int /\ bframe \in Int

PictureInv ==
    /\ buf = picture
    /\ buf # <<>> => keyTime = prev.time

BframeInv ==
    /\ lastBframe \in {0, bframe}
    /\ lastBframe = 0 => bframe = 0 \/ prev.time - bframe > Window

GInv == GrabType /\ PictureInv /\ BframeInv /\ NoHiddenBframe

\* One round of the loop of Grab.
LEMMA GrabPreserves ==
    ASSUME GInv, NEW pkt \in Packet, Grab(pkt)
    PROVE  GInv'
<1>. USE DEF GInv
<1>1. /\ pkt.time \in Int /\ prev.time \in Int /\ pkt.time >= prev.time
      /\ pkt.kind \in {"key", "P", "B"} /\ prev' = pkt
  BY GrabAssumption DEF Grab, Follows, GrabType, Packet
<1>2. buf' \in Seq(Int) /\ PictureInv'
  <2>1. CASE pkt.kind # "key"
    BY <1>1, <2>1 DEF Grab, Flushes, GrabType, PictureInv
  <2>2. CASE pkt.kind = "key" /\ Flushes(pkt)
    BY <1>1, <2>2 DEF Grab, Flushes, GrabType, PictureInv
  <2>3. CASE pkt.kind = "key" /\ ~Flushes(pkt)
    <3>1. keyTime' = pkt.time /\ buf' = buf \o <<pkt.time>>
      BY <2>3 DEF Grab
    <3>2. (IF pkt.time = prev.time THEN picture ELSE <<>>) = buf
      BY <2>3 DEF Flushes, PictureInv
    <3>3. picture' = buf \o <<pkt.time>>
      BY <2>3, <3>2 DEF Grab
    <3>. QED  BY <1>1, <3>1, <3>3 DEF GrabType, PictureInv
  <2>. QED  BY <2>1, <2>2, <2>3
<1>3. BframeInv' /\ lastBframe' \in Int /\ bframe' \in Int
  BY <1>1, GrabAssumption DEF Grab, Remember, GrabType, BframeInv
<1>4. keyTime' \in Int
  BY <1>1 DEF Grab, GrabType
<1>5. NoHiddenBframe'
  <2>1. CASE grabch' = grabch
    BY <2>1 DEF NoHiddenBframe
  <2>2. CASE grabch' = <<[HasBframes |-> lastBframe # 0, at |-> prev.time, b |-> bframe]>>
    <3>. DEFINE f == lastBframe # 0
    <3>1. grabch' = <<[HasBframes |-> f, at |-> prev.time, b |-> bframe]>>
      BY <2>2
    <3>2. ~f => bframe = 0 \/ prev.time - bframe > Window
      BY DEF BframeInv
    <3>. HIDE DEF f
    <3>3. /\ DOMAIN grabch' = {1}
          /\ grabch'[1].HasBframes = f /\ grabch'[1].at = prev.time /\ grabch'[1].b = bframe
      BY <3>1
    <3>. QED  BY <3>2, <3>3 DEF NoHiddenBframe
  <2>. QED  BY <2>1, <2>2 DEF Grab, Flush
<1>. QED  BY <1>1, <1>2, <1>3, <1>4, <1>5 DEF GrabType

\* The inductive invariant of the grabber.
THEOREM GrabInvariant == GrabSpec => []GInv
<1>1. GrabInit => GInv
  BY GrabAssumption DEF GrabInit, GInv, GrabType, Packet, PictureInv, BframeInv, NoHiddenBframe
<1>2. GInv /\ [GrabNext]_grabVars => GInv'
  <2>. SUFFICES ASSUME GInv, [GrabNext]_grabVars PROVE GInv'
    OBVIOUS
  <2>1. CASE GrabDue \/ TakeResult \/ UNCHANGED grabVars
    BY <2>1 DEF GrabDue, TakeResult, grabVars, GInv, GrabType, PictureInv, BframeInv, NoHiddenBframe
  <2>. QED  BY <2>1, GrabPreserves DEF GrabNext
<1>. QED  BY <1>1, <1>2, PTL DEF GrabSpec

\* A result without HasBframes never hides a B-frame of the 30 seconds before
\* its picture (Grab), for a stream of any length.
THEOREM BframesReported == GrabSpec => []NoHiddenBframe
<1>1. GInv => NoHiddenBframe
  BY DEF GInv
<1>. QED  BY <1>1, GrabInvariant, PTL

\* makeFrame is given one whole key picture, of any number of packets.
THEOREM FramesAreWhole == GrabSpec => WholePicture
<1>. DEFINE Act == frame' # frame =>
                      frame' = picture /\ (prev'.kind = "key" => prev'.time > prev.time)
<1>1. GInv /\ [GrabNext]_grabVars => [Act]_grabVars
  <2>. SUFFICES ASSUME GInv, GrabNext, frame' # frame PROVE Act
    OBVIOUS
  <2>1. PICK pkt \in Packet : Grab(pkt)
    BY DEF GrabNext, GrabDue, TakeResult
  <2>2. Flushes(pkt) /\ frame' = buf /\ prev' = pkt /\ Follows(pkt)
    BY <2>1 DEF Grab, Flush
  <2>3. pkt.kind = "key" => pkt.time > prev.time
    BY <2>2 DEF Flushes, Follows, GInv, PictureInv
  <2>. QED  BY <2>2, <2>3 DEF GInv, PictureInv
<1>. QED  BY <1>1, GrabInvariant, PTL DEF GrabSpec, WholePicture

-----------------------------------------------------------------------------
(***************************************************************************)
(* The HLS viewers.  An entry of the table, where there is one, has the    *)
(* age of the host's last request; it is missing only for a host that let  *)
(* its time pass, since only such a host is ever picked for deletion.  A   *)
(* count in progress has counted one set of hosts (seen), none of them     *)
(* still to visit, which with those to visit covers every steady host and  *)
(* holds only hosts that watched meanwhile.                                *)
(***************************************************************************)
Age == Absent..Late

Count == [pc : {"idle", "range"}, todo : SUBSET Host, doomed : SUBSET Host, views : Int,
          least : SUBSET Host, most : SUBSET Host]

HlsType ==
    /\ hlsv \in [Host -> Age] /\ watched \in [Host -> Age]
    /\ steady \subseteq Host
    /\ counts \in [Counter -> Count]

TableInv ==
    /\ \A h \in Host : hlsv[h] \in {Absent, watched[h]}
    /\ \A h \in steady : watched[h] \in 0..Timeout /\ hlsv[h] = watched[h]
    /\ \A c \in Counter : \A h \in counts[c].doomed : watched[h] # Absent /\ h \notin steady

Covers(r, S) ==
    /\ r.views = Cardinality(S) /\ S \cap r.todo = {}
    /\ r.least \subseteq S \cup r.todo /\ S \subseteq r.most

CountInv ==
    \A c \in Counter :
       /\ counts[c].least \subseteq steady
       /\ counts[c].pc = "range" =>
             /\ Watching(watched) \subseteq counts[c].most
             /\ \E S \in SUBSET Host : Covers(counts[c], S)

HInv == HlsType /\ TableInv /\ CountInv

\* The age of an entry after a tick.
LEMMA OlderAge ==
    ASSUME NEW a \in Age
    PROVE  /\ Older(a) \in Age /\ (Older(a) = Absent <=> a = Absent)
           /\ Older(a) \in 0..Timeout => a \in 0..Timeout
           /\ Older(a) \in {Absent, Late} \cup (0..Timeout)
BY HlsAssumption DEF Age, Absent, Late, Older

\* A tick ages the entries; hosts that are late are no longer steady.
LEMMA TickPreserves ==
    ASSUME HInv, Tick
    PROVE  HInv'
<1>. USE DEF HInv, HlsType
<1>1. /\ hlsv' \in [Host -> Age] /\ watched' \in [Host -> Age] /\ steady' \subseteq steady
      /\ \A h \in Host : hlsv'[h] = Older(hlsv[h]) /\ watched'[h] = Older(watched[h])
      /\ \A h \in steady' : watched'[h] # Late
  BY OlderAge DEF Tick
<1>2. \A c \in Counter :
         /\ counts'[c] \in Count /\ counts'[c].least = counts[c].least \cap steady'
         /\ counts'[c].pc = counts[c].pc /\ counts'[c].todo = counts[c].todo
         /\ counts'[c].doomed = counts[c].doomed /\ counts'[c].views = counts[c].views
         /\ counts'[c].most = counts[c].most
  <2>. SUFFICES ASSUME NEW c \in Counter
                PROVE  LET r == counts[c] q == counts'[c] IN
                       /\ q \in Count /\ q.least = r.least \cap steady'
                       /\ q.pc = r.pc /\ q.todo = r.todo /\ q.doomed = r.doomed
                       /\ q.views = r.views /\ q.most = r.most
    OBVIOUS
  <2>1. counts'[c] = [counts[c] EXCEPT !.least = @ \cap steady'] /\ counts[c] \in Count
    BY DEF Tick
  <2>. QED  BY ONLY <2>1 DEF Count
<1>3. HlsType'
  BY <1>1, <1>2 DEF Tick
<1>4. TableInv'
  <2>1. \A h \in Host : hlsv'[h] \in {Absent, watched'[h]}
    BY <1>1, OlderAge DEF TableInv
  <2>2. \A h \in steady' : watched'[h] \in 0..Timeout /\ hlsv'[h] = watched'[h]
    <3>. SUFFICES ASSUME NEW h \in steady'
                  PROVE  watched'[h] \in 0..Timeout /\ hlsv'[h] = watched'[h]
      OBVIOUS
    <3>1. h \in Host /\ h \in steady /\ watched[h] # Absent
      BY <1>1, HlsAssumption DEF TableInv, Absent
    <3>. QED  BY <1>1, <3>1, OlderAge DEF TableInv
  <2>3. \A h \in Host : watched[h] # Absent => watched'[h] # Absent
    BY <1>1, OlderAge
  <2>4. \A c \in Counter : \A h \in counts'[c].doomed : watched'[h] # Absent /\ h \notin steady'
    BY <1>1, <1>2, <2>3 DEF TableInv, Count
  <2>. QED  BY <2>1, <2>2, <2>4 DEF TableInv
<1>5. Watching(watched') \subseteq Watching(watched)
  BY <1>1, OlderAge DEF Watching
<1>6. CountInv'
  <2>1. ASSUME NEW c \in Counter, NEW S, Covers(counts[c], S)
        PROVE  Covers(counts'[c], S)
    BY ONLY <1>2, <2>1, c \in Counter DEF Covers
  <2>. QED  BY ONLY <1>2, <1>5, <2>1, CountInv DEF CountInv
<1>. QED  BY <1>3, <1>4, <1>6

\* A request renews the entry of its host.
LEMMA RequestPreserves ==
    ASSUME HInv, NEW h \in Host, hlsViewed(h)
    PROVE  HInv'
<1>. USE DEF HInv, HlsType
<1>1. 0 \in Age /\ 0 \in 0..Timeout /\ 0 # Absent
  BY HlsAssumption DEF Age, Absent, Late
<1>2. /\ hlsv' = [hlsv EXCEPT ![h] = 0] /\ watched' = [watched EXCEPT ![h] = 0]
      /\ steady \subseteq steady' /\ steady' \subseteq steady \cup {h}
      /\ h \in steady' => h \in steady \/ watched[h] = Absent
  BY DEF hlsViewed
<1>3. \A c \in Counter :
         /\ counts'[c] \in Count /\ counts'[c].most = counts[c].most \cup {h}
         /\ counts'[c].pc = counts[c].pc /\ counts'[c].todo = counts[c].todo
         /\ counts'[c].doomed = counts[c].doomed /\ counts'[c].views = counts[c].views
         /\ counts'[c].least = counts[c].least
  BY DEF hlsViewed, Count
<1>4. HlsType'
  BY <1>1, <1>2, <1>3 DEF hlsViewed
<1>5. TableInv'
  <2>1. \A g \in Host : /\ hlsv'[g] = IF g = h THEN 0 ELSE hlsv[g]
                        /\ watched'[g] = IF g = h THEN 0 ELSE watched[g]
    BY <1>2
  <2>2. \A g \in Host : hlsv'[g] \in {Absent, watched'[g]}
    BY ONLY <2>1, TableInv DEF TableInv
  <2>3. \A g \in steady' : watched'[g] \in 0..Timeout /\ hlsv'[g] = watched'[g]
    BY <1>1, <1>2, <2>1 DEF TableInv
  <2>4. ASSUME NEW c \in Counter, NEW g \in counts'[c].doomed
        PROVE  watched'[g] # Absent /\ g \notin steady'
    <3>1. g \in counts[c].doomed /\ g \in Host
      BY <1>3, <2>4 DEF Count
    <3>2. watched[g] # Absent /\ g \notin steady
      BY <3>1 DEF TableInv
    <3>. QED  BY ONLY <1>1, <1>2, <2>1, <3>1, <3>2
  <2>. QED  BY ONLY <2>2, <2>3, <2>4 DEF TableInv
<1>6. Watching(watched') \subseteq Watching(watched) \cup {h}
  BY <1>2 DEF Watching
<1>7. CountInv'
  <2>1. ASSUME NEW c \in Counter, NEW S, Covers(counts[c], S)
        PROVE  Covers(counts'[c], S)
    BY <1>3, <2>1 DEF Covers
  <2>. QED  BY <1>2, <1>3, <1>6, <2>1 DEF CountInv
<1>. QED  BY <1>4, <1>5, <1>7

\* The Range of a count begins, or its result is stored.
LEMMA CountEndsPreserve ==
    ASSUME HInv, NEW c \in Counter, BeginCount(c) \/ StoreTotal(c)
    PROVE  HInv'
<1>. USE DEF HInv, HlsType
<1>1. /\ hlsv' = hlsv /\ watched' = watched /\ steady' = steady
  BY DEF BeginCount, StoreTotal
<1>2. PICK r \in Count :
         /\ counts' = [counts EXCEPT ![c] = r]
         /\ r.doomed = {} /\ r.least \subseteq steady
         /\ r.pc = "range" => /\ Watching(watched) \subseteq r.most
                              /\ Covers(r, {})
  <2>1. CASE StoreTotal(c)
    <3>1. NoCount \in Count /\ NoCount.doomed = {} /\ NoCount.least = {} /\ NoCount.pc = "idle"
      BY DEF NoCount, Count
    <3>2. counts' = [counts EXCEPT ![c] = NoCount]
      BY <2>1 DEF StoreTotal
    <3>. QED  BY ONLY <3>1, <3>2
  <2>2. CASE BeginCount(c)
    <3>1. PICK extra \in SUBSET Host :
             counts' = [counts EXCEPT ![c] =
                [pc |-> "range", todo |-> extra \cup {h \in Host : hlsv[h] # Absent},
                 doomed |-> {}, views |-> 0, least |-> steady, most |-> Watching(watched)]]
      BY <2>2 DEF BeginCount
    <3>. DEFINE todo == extra \cup {h \in Host : hlsv[h] # Absent}
                r == [pc |-> "range", todo |-> todo, doomed |-> {}, views |-> 0,
                      least |-> steady, most |-> Watching(watched)]
    <3>2. counts' = [counts EXCEPT ![c] = r]
      BY <3>1
    <3>3. todo \subseteq Host /\ Watching(watched) \subseteq Host
      BY DEF Watching
    <3>4. steady \subseteq todo
      BY HlsAssumption DEF TableInv, Absent
    <3>. HIDE DEF todo
    <3>5. r \in Count
      BY ONLY <3>3, steady \subseteq Host DEF Count
    <3>6. Covers(r, {})
      BY <3>4, FS_EmptySet DEF Covers
    <3>7. /\ r.doomed = {} /\ r.least \subseteq steady
          /\ Watching(watched) \subseteq r.most
      OBVIOUS
    <3>. HIDE DEF r
    <3>. QED  BY ONLY <3>2, <3>5, <3>6, <3>7
  <2>. QED  BY <2>1, <2>2
<1>3. \A d \in Counter : counts'[d] = IF d = c THEN r ELSE counts[d]
  BY <1>2
<1>4. HlsType' /\ TableInv'
  BY <1>1, <1>2, <1>3 DEF TableInv
<1>5. CountInv'
  BY <1>1, <1>2, <1>3 DEF CountInv
<1>. QED  BY <1>4, <1>5

\* Range visits a host: one that is not late is counted.
LEMMA VisitPreserves ==
    ASSUME HInv, NEW c \in Counter, NEW h \in Host, Visit(c, h)
    PROVE  HInv'
<1>. USE DEF HInv, HlsType
<1>. DEFINE r == counts[c]
            counted == hlsv[h] \in 0..Timeout
<1>1. /\ hlsv' = hlsv /\ watched' = watched /\ steady' = steady
      /\ r \in Count /\ h \in r.todo /\ r.doomed = {}
  BY DEF Visit
<1>2. /\ counts'[c] \in Count /\ counts' \in [Counter -> Count]
      /\ counts'[c].todo = r.todo \ {h}
      /\ counts'[c].doomed = IF hlsv[h] = Late THEN {h} ELSE {}
      /\ counts'[c].views = IF counted THEN r.views + 1 ELSE r.views
      /\ counts'[c].pc = r.pc /\ counts'[c].least = r.least /\ counts'[c].most = r.most
      /\ \A d \in Counter \ {c} : counts'[d] = counts[d]
  <2>. DEFINE t == r.todo \ {h}
              l == IF hlsv[h] = Late THEN {h} ELSE {}
              v == IF counted THEN r.views + 1 ELSE r.views
  <2>1. counts' = [counts EXCEPT ![c].todo = t, ![c].doomed = l, ![c].views = v]
    BY DEF Visit
  <2>2. t \subseteq Host /\ l \subseteq Host /\ v \in Int
    BY <1>1 DEF Count
  <2>. HIDE DEF t, l, v
  <2>3. /\ counts'[c] \in Count /\ counts' \in [Counter -> Count]
        /\ counts'[c].todo = t /\ counts'[c].doomed = l /\ counts'[c].views = v
        /\ counts'[c].pc = r.pc /\ counts'[c].least = r.least /\ counts'[c].most = r.most
        /\ \A d \in Counter \ {c} : counts'[d] = counts[d]
    BY <1>1, <2>1, <2>2 DEF Count
  <2>. QED  BY <2>3 DEF t, l, v
<1>3. HlsType'
  BY <1>1, <1>2
<1>4. hlsv[h] = Late => watched[h] # Absent /\ h \notin steady
  BY HlsAssumption DEF TableInv, Absent, Late
<1>5. TableInv'
  <2>1. \A d \in Counter : \A g \in counts'[d].doomed : watched[g] # Absent /\ g \notin steady
    <3>1. \A d \in Counter : \A g \in counts[d].doomed : watched[g] # Absent /\ g \notin steady
      BY DEF TableInv
    <3>2. \A g \in counts'[c].doomed : watched[g] # Absent /\ g \notin steady
      BY ONLY <1>1, <1>2, <1>4, <3>1, c \in Counter
    <3>. QED  BY ONLY <1>2, <3>1, <3>2
  <2>. QED  BY ONLY <1>1, <2>1, TableInv DEF TableInv
<1>6. ASSUME r.pc = "range"
      PROVE  \E S \in SUBSET Host : Covers(counts'[c], S)
  <2>1. PICK S \in SUBSET Host : Covers(r, S)
    BY <1>6 DEF CountInv
  <2>2. IsFiniteSet(S) /\ Cardinality(S) \in Nat /\ h \notin S
    BY <1>1, <2>1, HlsAssumption, FS_Subset, FS_CardinalityType DEF Covers
  <2>3. CASE counted
    <3>1. h \in r.most
      <4>1. watched[h] = hlsv[h] /\ watched[h] \in 0..Timeout
        BY <2>3, HlsAssumption DEF TableInv, Absent
      <4>2. h \in Watching(watched)
        BY <4>1 DEF Watching
      <4>3. Watching(watched) \subseteq r.most
        BY <1>6 DEF CountInv
      <4>. QED  BY ONLY <4>2, <4>3
    <3>2. Cardinality(S \cup {h}) = Cardinality(S) + 1
      BY <2>2, FS_AddElement
    <3>3. Covers(counts'[c], S \cup {h})
      BY <1>2, <2>1, <2>3, <3>1, <3>2 DEF Covers
    <3>. QED  BY <3>3
  <2>4. CASE ~counted
    <3>1. h \notin r.least
      BY <2>4 DEF TableInv, CountInv
    <3>2. Covers(counts'[c], S)
      BY <1>2, <2>1, <2>4, <3>1 DEF Covers
    <3>. QED  BY <3>2
  <2>. QED  BY <2>3, <2>4
<1>7. CountInv'
  BY <1>1, <1>2, <1>6 DEF CountInv
<1>. QED  BY <1>3, <1>5, <1>7

\* A deletion hits no steady host.
LEMMA DeletePreserves ==
    ASSUME HInv, NEW c \in Counter, Delete(c)
    PROVE  HInv'
<1>. USE DEF HInv, HlsType
<1>1. /\ watched' = watched /\ steady' = steady
      /\ hlsv' = [h \in Host |-> IF h \in counts[c].doomed THEN Absent ELSE hlsv[h]]
      /\ Absent \in Age
  BY HlsAssumption DEF Delete, Age, Absent, Late
<1>2. /\ counts' \in [Counter -> Count]
      /\ counts'[c].todo = counts[c].todo /\ counts'[c].doomed = {}
      /\ counts'[c].views = counts[c].views /\ counts'[c].pc = counts[c].pc
      /\ counts'[c].least = counts[c].least /\ counts'[c].most = counts[c].most
      /\ \A d \in Counter \ {c} : counts'[d] = counts[d]
  BY DEF Delete, Count
<1>3. HlsType'
  BY ONLY <1>1, <1>2, HlsType
<1>4. TableInv'
  <2>1. \A d \in Counter : counts'[d].doomed \subseteq counts[d].doomed
    BY ONLY <1>2
  <2>2. \A h \in Host : hlsv'[h] \in {Absent, hlsv[h]}
                       /\ (h \notin counts[c].doomed => hlsv'[h] = hlsv[h])
    BY ONLY <1>1
  <2>3. steady \subseteq Host
    OBVIOUS
  <2>. QED  BY ONLY <1>1, <2>1, <2>2, <2>3, TableInv, c \in Counter DEF TableInv
<1>5. CountInv'
  <2>1. \A d \in Counter :
           /\ counts'[d].pc = counts[d].pc /\ counts'[d].least = counts[d].least
           /\ counts'[d].most = counts[d].most
           /\ \A S \in SUBSET Host : Covers(counts[d], S) => Covers(counts'[d], S)
    BY ONLY <1>2 DEF Covers
  <2>. QED  BY ONLY <1>1, <2>1, CountInv DEF CountInv
<1>. QED  BY <1>3, <1>4, <1>5

\* The inductive invariant of the table and of the counts.
THEOREM HlsInvariant == HlsSpec => []HInv
<1>1. HlsInit => HInv
  <2>. SUFFICES ASSUME HlsInit PROVE HInv
    OBVIOUS
  <2>1. HlsType
    <3>1. Absent \in Age
      BY HlsAssumption DEF Age, Absent, Late
    <3>2. NoCount \in Count
      <4>1. "idle" \in {"idle", "range"} /\ {} \in SUBSET Host /\ 0 \in Int
        OBVIOUS
      <4>. QED  BY ONLY <4>1 DEF NoCount, Count
    <3>. QED  BY ONLY <3>1, <3>2, HlsInit DEF HlsInit, HlsType
  <2>2. TableInv /\ CountInv
    BY DEF HlsInit, TableInv, CountInv, NoCount
  <2>. QED  BY <2>1, <2>2 DEF HInv
<1>2. HInv /\ UNCHANGED hlsVars => HInv'
  BY DEF hlsVars, HInv, HlsType, TableInv, CountInv
<1>3. HInv /\ [HlsNext]_hlsVars => HInv'
  BY <1>2, TickPreserves, RequestPreserves, CountEndsPreserve, VisitPreserves, DeletePreserves
     DEF HlsNext
<1>. QED  BY <1>1, <1>3, PTL DEF HlsSpec

\* What countHLSViewers stores lies between the hosts that watched throughout the
\* count and those that watched at some time during it, for any number of hosts
\* and of notifiers that count and delete at once.
THEOREM HlsCountHolds == HlsSpec => []HlsCount
<1>1. HInv => HlsCount
  <2>. SUFFICES ASSUME HInv, NEW c \in Counter, Counted(c)
                PROVE  /\ Cardinality(counts[c].least) <= counts[c].views
                       /\ counts[c].views <= Cardinality(counts[c].most)
    BY DEF HlsCount
  <2>1. PICK S \in SUBSET Host : Covers(counts[c], S)
    BY DEF HInv, CountInv, Counted
  <2>2. counts[c].least \subseteq S /\ S \subseteq counts[c].most /\ counts[c].most \subseteq Host
    BY <2>1 DEF Covers, Counted, HInv, HlsType, Count
  <2>3. /\ Cardinality(counts[c].least) <= Cardinality(S)
        /\ Cardinality(S) <= Cardinality(counts[c].most)
    BY <2>2, HlsAssumption, FS_Subset
  <2>. QED  BY <2>1, <2>3 DEF Covers
<1>. QED  BY <1>1, HlsInvariant, PTL

-----------------------------------------------------------------------------
(***************************************************************************)
(* The RTSP connection.                                                    *)
(***************************************************************************)
RtspSpec == RtspInit /\ [][RtspNext]_rtspVars

(***************************************************************************)
(* A slice fits when it was made for the stream that was described last:   *)
(* it has a place for each of its tracks, still nil or of their codec.     *)
(* What the connection holds always fits.  What a sender may still see     *)
(* (old) and the stream it reads fit only while the condition of TracksFit *)
(* holds, which no step makes true again.                                  *)
(***************************************************************************)
Fits(t) ==
    /\ DOMAIN t = DOMAIN layout[described]
    /\ \A i \in DOMAIN t : t[i].codec \in {"none", layout[described][i]}

Same == ~early /\ \A s, t \in involved : layout[s] = layout[t]

StreamType ==
    /\ owner \in Stream \cup {NoStream} /\ involved \subseteq Stream
    /\ layout \in [Stream -> Seq({"H264", "OPUS"})]

SendersType ==
    senders \in [Plays -> [pc : Over \cup {"check", "reading", "sending"},
                           src : Stream \cup {NoStream}, idx : Int, sent : BOOLEAN]]

IdleInv ==
    conn = "idle" => involved = {} /\ tracks = <<>> /\ \A p \in Plays : senders[p].pc \in Over

ConnInv ==
    /\ conn \in {"idle", "open"} => old = tracks
    /\ tracks # <<>> => described \in involved /\ Fits(tracks)

IdxInv ==
    \A p \in Plays :
       /\ senders[p].pc \notin Over => senders[p].src \in Stream
       /\ senders[p].pc = "sending" => senders[p].idx \in DOMAIN layout[senders[p].src]

SenderInv ==
    \A p \in Plays : senders[p].pc \notin Over =>
       senders[p].src \in involved /\ described \in involved /\ Fits(tracks) /\ Fits(old)

RInv == /\ StreamType /\ SendersType /\ IdleInv /\ ConnInv /\ IdxInv
        /\ Same => SenderInv /\ ~crashed /\ ~wrong

-----------------------------------------------------------------------------
\* A step that leaves the handler's state alone, starts no sender and gives
\* none a new stream.
LEMMA SenderMoves ==
    ASSUME RInv, UNCHANGED <<layout, handlerVars>>,
           owner' \in Stream \cup {NoStream}, SendersType',
           \A p \in Plays : /\ senders'[p].src = senders[p].src
                            /\ senders[p].pc \in Over => senders'[p].pc \in Over,
           IdxInv', Same => ~crashed' /\ ~wrong'
    PROVE  RInv'
<1>. USE DEF RInv, handlerVars
<1>1. /\ layout' = layout /\ conn' = conn /\ tracks' = tracks /\ old' = old
      /\ described' = described /\ involved' = involved /\ early' = early
  OBVIOUS
<1>2. StreamType' /\ IdleInv'
  BY <1>1 DEF StreamType, IdleInv
<1>3. Fits(tracks)' = Fits(tracks) /\ Fits(old)' = Fits(old)
  BY <1>1 DEF Fits
<1>4. ConnInv'
  BY ONLY <1>1, <1>3, ConnInv DEF ConnInv
<1>5. Same' = Same
  BY ONLY <1>1 DEF Same
<1>6. SenderInv => SenderInv'
  BY <1>1, <1>3 DEF SenderInv
<1>. QED  BY <1>2, <1>4, <1>5, <1>6

\* What a sender sends: under the condition of TracksFit, a packet of its codec.
LEMMA SendFits ==
    ASSUME RInv, Same, NEW p \in Plays, senders[p].pc = "sending", Send(p)
    PROVE  ~crashed' /\ ~wrong'
<1>. DEFINE i == senders[p].idx
<1>1. /\ i \in DOMAIN layout[senders[p].src] /\ layout[senders[p].src] = layout[described]
      /\ Fits(tracks) /\ Fits(old) /\ ~crashed /\ ~wrong
  BY DEF RInv, IdxInv, SenderInv, Same, Over
<1>2. PICK bound \in {old, tracks}, slice \in {old, tracks} :
          IF i \notin DOMAIN bound \cap DOMAIN slice
          THEN crashed' = TRUE /\ UNCHANGED <<senders, wrong>>
          ELSE /\ wrong' = (wrong \/ slice[i].codec \notin {"none", layout[senders[p].src][i]})
               /\ UNCHANGED crashed
  BY Zenon DEF Send
<1>3. /\ i \in DOMAIN bound \cap DOMAIN slice
      /\ slice[i].codec \in {"none", layout[senders[p].src][i]}
  BY <1>1, <1>2 DEF Fits
<1>. QED  BY <1>1, <1>2, <1>3

\* The goroutine of handlePlay.
LEMMA SenderPreserves ==
    ASSUME RInv, NEW p \in Plays,
           Check(p) \/ Read(p) \/ Send(p) \/ ReadEnd(p) \/ WriteFails(p)
    PROVE  RInv'
<1>. USE DEF RInv
<1>1. UNCHANGED <<channelVars, handlerVars>>
  BY DEF Check, Read, Send, ReadEnd, WriteFails
<1>2. layout' = layout /\ owner' = owner /\ owner \in Stream \cup {NoStream}
  BY <1>1 DEF channelVars, StreamType
<1>3. Same => ~crashed' /\ ~wrong'
  <2>1. CASE Send(p)
    BY <2>1, SendFits DEF Send
  <2>2. CASE Check(p) \/ Read(p) \/ ReadEnd(p) \/ WriteFails(p)
    BY <2>2 DEF Check, Read, ReadEnd, WriteFails
  <2>. QED  BY <2>1, <2>2
<1>4. /\ SendersType' /\ IdxInv'
      /\ \A q \in Plays : /\ senders'[q].src = senders[q].src
                          /\ senders[q].pc \in Over => senders'[q].pc \in Over
  <2>1. CASE Check(p) \/ ReadEnd(p) \/ WriteFails(p)
    <3>1. PICK l \in {"done", "reading", "failed"} : senders' = [senders EXCEPT ![p].pc = l]
      BY <2>1 DEF Check, ReadEnd, WriteFails, Goto
    <3>2. senders[p].pc \notin Over
      BY <2>1 DEF Check, ReadEnd, WriteFails, Over
    <3>. QED  BY <1>2, <3>1, <3>2 DEF SendersType, IdxInv, Over
  <2>2. CASE Read(p)
    <3>1. senders[p].pc \notin Over /\ senders[p].src \in Stream
      BY <2>2 DEF Read, IdxInv, Over
    <3>2. PICK n \in DOMAIN layout[senders[p].src] :
             senders' = [senders EXCEPT ![p].pc = "sending", ![p].idx = n]
      BY <2>2 DEF Read
    <3>3. n \in Int
      BY <3>1 DEF StreamType
    <3>4. SendersType'
      <4>1. SendersType /\ "sending" \in Over \cup {"check", "reading", "sending"}
        OBVIOUS
      <4>. QED  BY ONLY <3>2, <3>3, <4>1, ZenonT(60) DEF SendersType
    <3>5. \A q \in Plays : /\ senders'[q].src = senders[q].src
                           /\ q # p => senders'[q] = senders[q]
      BY ONLY <3>2, SendersType DEF SendersType
    <3>6. senders'[p].pc = "sending" /\ senders'[p].idx = n
      BY ONLY <3>2, SendersType, p \in Plays DEF SendersType
    <3>. QED  BY ONLY <1>2, <3>1, <3>4, <3>5, <3>6, n \in DOMAIN layout[senders[p].src], IdxInv
              DEF IdxInv, Over
  <2>3. CASE Send(p)
    <3>1. senders[p].pc \notin Over
      BY <2>3 DEF Send, Over
    <3>2. \/ senders' = senders
          \/ \E l \in {"done", "check"}, f \in BOOLEAN :
                senders' = [senders EXCEPT ![p].pc = l, ![p].sent = f]
      <4>. DEFINE i == senders[p].idx
      <4>1. PICK slice \in {old, tracks} :
              \/ senders' = senders
              \/ senders' = [senders EXCEPT
                     ![p].pc = IF slice[i] # Nil /\ ~slice[i].addr THEN "done" ELSE "check",
                     ![p].sent = @ \/ slice[i].addr]
        BY <2>3, Zenon DEF Send
      <4>. DEFINE f == senders[p].sent \/ slice[i].addr
                  l == IF slice[i] # Nil /\ ~slice[i].addr THEN "done" ELSE "check"
      <4>2. f \in BOOLEAN /\ l \in {"done", "check"}
        BY ONLY Zenon
      <4>3. senders' = senders \/ senders' = [senders EXCEPT ![p].pc = l, ![p].sent = f]
        BY <4>1, Zenon
      <4>. HIDE DEF f, l
      <4>. QED  BY ONLY <4>2, <4>3
    <3>3. ASSUME NEW l \in {"done", "check"}, NEW f \in BOOLEAN,
                 senders' = [senders EXCEPT ![p].pc = l, ![p].sent = f]
          PROVE  /\ SendersType' /\ IdxInv'
                 /\ \A q \in Plays : /\ senders'[q].src = senders[q].src
                                     /\ senders[q].pc \in Over => senders'[q].pc \in Over
      <4>1. SendersType'
        BY ONLY <3>3, SendersType, ZenonT(60) DEF SendersType, Over
      <4>2. \A q \in Plays : /\ senders'[q].src = senders[q].src
                             /\ q # p => senders'[q] = senders[q]
        BY ONLY <3>3, SendersType DEF SendersType
      <4>3. senders'[p].pc = l
        BY ONLY <3>3, SendersType, p \in Plays DEF SendersType
      <4>. QED  BY ONLY <1>2, <3>1, <4>1, <4>2, <4>3, l \in {"done", "check"}, IdxInv
                DEF IdxInv, Over
    <3>. QED  BY <1>2, <3>2, <3>3 DEF SendersType, IdxInv
  <2>. QED  BY <2>1, <2>2, <2>3
<1>. QED  BY <1>1, <1>2, <1>3, <1>4, SenderMoves

-----------------------------------------------------------------------------
\* handleDescribe replaces the slice, which fits the stream it now describes;
\* under the condition of TracksFit the old one fits it too.
LEMMA DescribePreserves ==
    ASSUME RInv, handleDescribe
    PROVE  RInv'
<1>. USE DEF RInv, handleDescribe, channelVars
<1>1. owner \in Stream /\ layout' = layout /\ involved' = involved \cup {owner}
  BY DEF StreamType
<1>2. StreamType' /\ SendersType' /\ IdleInv' /\ IdxInv'
  BY <1>1 DEF StreamType, SendersType, IdleInv, IdxInv
<1>3. Fits(tracks)'
  BY <1>1 DEF Fits, Nil
<1>4. ConnInv'
  BY <1>1, <1>3 DEF ConnInv
<1>5. ASSUME Same' PROVE Same /\ SenderInv'
  <2>1. Same
    BY <1>1, <1>5 DEF Same
  <2>2. ASSUME described \in involved, Fits(tracks) PROVE Fits(old)'
    <3>1. layout[described] = layout[owner]
      BY <1>1, <1>5, <2>2 DEF Same
    <3>. QED  BY <1>1, <2>2, <3>1 DEF Fits
  <2>. QED  BY <1>1, <1>3, <2>1, <2>2 DEF SenderInv
<1>. QED  BY <1>2, <1>4, <1>5

\* FillTracks and handleSetup change what is in the slice and keep its length.
LEMMA SlicePreserves ==
    ASSUME RInv, FillTracks \/ handleSetup
    PROVE  RInv'
<1>. USE DEF RInv
<1>1. /\ owner' = owner /\ layout' = layout /\ involved' = involved /\ senders' = senders
      /\ described' = described /\ early' = early /\ crashed' = crashed /\ wrong' = wrong
      /\ conn # "idle" /\ conn' # "idle" /\ old' = tracks' /\ DOMAIN tracks' = DOMAIN tracks
  <2>1. CASE FillTracks
    BY <2>1 DEF FillTracks, channelVars
  <2>2. CASE handleSetup
    BY <2>2 DEF handleSetup, channelVars
  <2>. QED  BY <2>1, <2>2
<1>2. StreamType' /\ SendersType' /\ IdleInv' /\ IdxInv' /\ Same' = Same
  BY <1>1 DEF StreamType, SendersType, IdleInv, IdxInv, Same
<1>3. ASSUME Fits(tracks) PROVE Fits(tracks)' /\ Fits(old)'
  <2>1. CASE FillTracks
    <3>1. \A i \in DOMAIN tracks : tracks'[i].codec = layout[described][i]
      BY ONLY <2>1 DEF FillTracks
    <3>. QED  BY ONLY <1>1, <1>3, <3>1 DEF Fits
  <2>2. CASE handleSetup
    <3>1. \A i \in DOMAIN tracks : tracks'[i].codec = tracks[i].codec
      BY <2>2 DEF handleSetup
    <3>. QED  BY <1>1, <1>3, <3>1 DEF Fits
  <2>. QED  BY <2>1, <2>2
<1>4. ConnInv'
  BY <1>1, <1>3 DEF ConnInv
<1>5. SenderInv => SenderInv'
  BY <1>1, <1>3 DEF SenderInv
<1>. QED  BY <1>1, <1>2, <1>4, <1>5

\* handlePlay starts a sender, for which a DESCRIBE came before.
LEMMA PlayPreserves ==
    ASSUME RInv, NEW p \in Plays, handlePlay(p)
    PROVE  RInv'
<1>. USE DEF RInv, handlePlay, channelVars
<1>1. /\ owner \in Stream /\ layout' = layout /\ involved' = involved \cup {owner}
      /\ tracks' = tracks /\ old' = old /\ described' = described /\ conn' = "open" /\ old = tracks
  BY DEF StreamType, ConnInv
<1>2. senders' = [senders EXCEPT ![p] = Sender("check", owner)]
  OBVIOUS
<1>3. /\ SendersType'
      /\ senders'[p].pc = "check" /\ senders'[p].src = owner
      /\ \A q \in Plays \ {p} : senders'[q] = senders[q]
  BY ONLY <1>1, <1>2, p \in Plays, SendersType DEF SendersType, Sender
<1>4. StreamType' /\ IdleInv'
  BY <1>1 DEF StreamType, IdleInv
<1>5. Fits(tracks)' = Fits(tracks) /\ Fits(old)' = Fits(old)
  BY <1>1 DEF Fits
<1>6. ConnInv' /\ IdxInv'
  BY <1>1, <1>3, <1>5 DEF ConnInv, IdxInv, Over
<1>7. ASSUME Same' PROVE Same /\ SenderInv'
  <2>1. Same /\ tracks # <<>>
    BY <1>1, <1>7 DEF Same
  <2>2. described \in involved /\ Fits(tracks) /\ Fits(old)
    BY <1>1, <2>1 DEF ConnInv
  <2>. QED  BY <1>1, <1>3, <1>5, <2>1, <2>2 DEF SenderInv
<1>. QED  BY <1>3, <1>4, <1>6, <1>7

\* The channel changes hands, the connection is accepted, torn down or ended.
LEMMA ConnPreserves ==
    ASSUME RInv, ChannelStep \/ Accept \/ Teardown \/ EndConn
    PROVE  RInv'
<1>. USE DEF RInv
<1>1. CASE ChannelStep
  <2>1. owner' \in Stream \cup {NoStream}
    BY <1>1 DEF ChannelStep, StreamType, Channel!Next, Channel!Take, Channel!End, Channel!Release
  <2>2. /\ UNCHANGED <<layout, handlerVars>>
        /\ senders' = senders /\ crashed' = crashed /\ wrong' = wrong
    BY <1>1 DEF ChannelStep
  <2>3. SendersType' /\ IdxInv'
    BY <2>2 DEF SendersType, IdxInv
  <2>. QED  BY <2>1, <2>2, <2>3, SenderMoves
<1>2. CASE Accept
  <2>. USE <1>2 DEF Accept
  <2>1. /\ involved' = involved /\ involved = {} /\ tracks' = tracks /\ tracks = <<>> /\ old' = old
        /\ senders' = senders /\ \A p \in Plays : senders[p].pc \in Over
    BY DEF IdleInv
  <2>2. \A p \in Plays : senders[p].pc # "sending"
    BY <2>1 DEF Over
  <2>3. StreamType'
    BY RtspAssumption DEF StreamType
  <2>4. SendersType' /\ IdleInv' /\ ConnInv' /\ IdxInv' /\ SenderInv'
    BY <2>1, <2>2 DEF SendersType, IdleInv, ConnInv, IdxInv, SenderInv
  <2>5. Same' => Same
    BY <2>1 DEF Same
  <2>. QED  BY <2>3, <2>4, <2>5
<1>3. CASE Teardown \/ EndConn
  <2>1. /\ owner' = owner /\ layout' = layout /\ involved' = involved /\ senders' = senders
        /\ described' = described /\ early' = early /\ crashed' = crashed /\ wrong' = wrong
        /\ tracks' = tracks /\ old' = old /\ conn # "idle" /\ conn' # "idle"
        /\ conn' = "open" => conn = "open"
    BY <1>3 DEF Teardown, EndConn, channelVars
  <2>2. Fits(tracks)' = Fits(tracks) /\ Fits(old)' = Fits(old) /\ Same' = Same
    BY <2>1 DEF Fits, Same
  <2>3. /\ StreamType' /\ SendersType' /\ IdleInv' /\ ConnInv' /\ IdxInv'
        /\ SenderInv => SenderInv'
    BY <2>1, <2>2 DEF StreamType, SendersType, IdleInv, ConnInv, IdxInv, SenderInv
  <2>. QED  BY <2>1, <2>2, <2>3
<1>. QED  BY <1>1, <1>2, <1>3

\* The slices of a connection fit the streams it meets (handler.go).
THEOREM RtspInvariant == RtspSpec => []RInv
<1>1. RtspInit => RInv
  <2>. SUFFICES ASSUME RtspInit PROVE RInv
    OBVIOUS
  <2>1. StreamType
    BY DEF RtspInit, StreamType, Channel!Init
  <2>2. SendersType /\ \A p \in Plays : senders[p].pc = "idle"
    BY DEF RtspInit, SendersType, Sender, Over
  <2>3. IdleInv /\ ConnInv /\ IdxInv /\ SenderInv
    BY <2>2 DEF RtspInit, IdleInv, ConnInv, IdxInv, SenderInv, Over
  <2>. QED  BY <2>1, <2>2, <2>3 DEF RInv, RtspInit
<1>2. RInv /\ [RtspNext]_rtspVars => RInv'
  <2>. SUFFICES ASSUME RInv, [RtspNext]_rtspVars PROVE RInv'
    OBVIOUS
  <2>1. CASE RtspNext
    BY <2>1, ConnPreserves, DescribePreserves, SlicePreserves, PlayPreserves, SenderPreserves
       DEF RtspNext, SenderStep
  <2>2. CASE UNCHANGED rtspVars
    <3>1. SendersType' /\ IdxInv' /\ owner' = owner /\ owner \in Stream \cup {NoStream}
      BY <2>2 DEF RInv, SendersType, IdxInv, StreamType, rtspVars, channelVars
    <3>. QED  BY <2>2, <3>1, SenderMoves DEF RInv, rtspVars, channelVars
  <2>. QED  BY <2>1, <2>2
<1>. QED  BY <1>1, <1>2, PTL DEF RtspSpec

\* Every packet finds the track of its codec, whatever the order of the requests
\* and the streams, while the streams have the same tracks and no PLAY comes
\* before a DESCRIBE (handleDescribe and the goroutine of handlePlay).
THEOREM TracksFitInvariant == RtspSpec => []TracksFit
<1>1. RInv => TracksFit
  BY DEF RInv, Same, TracksFit
<1>. QED  BY <1>1, RtspInvariant, PTL

-----------------------------------------------------------------------------
(***************************************************************************)
(* A WebRTC viewer.  chooseCodec runs over the lines of an offer, so what  *)
(* it returns is shown by induction over them: the set of the positions    *)
(* where the claim fails has no least element.                             *)
(***************************************************************************)
\* A non-empty set of natural numbers has a least one.
LEMMA LeastNatural ==
    ASSUME NEW T \in SUBSET Nat, T # {}
    PROVE  \E n \in T : \A k \in T : n <= k
<1>1. PICK n \in T : \A k \in T : <<k, n>> \notin OpToRel(<, Nat)
  BY WFMin, NatLessThanWellFounded
<1>2. \A k \in T : ~(k < n)
  BY <1>1 DEF OpToRel
<1>. QED  BY <1>2

\* Induction over a set of natural numbers.
LEMMA UpTo ==
    ASSUME NEW n \in Nat, NEW S, 0 \in S, \A k \in 1..n : k - 1 \in S => k \in S
    PROVE  0..n \subseteq S
<1>. SUFFICES ASSUME (0..n) \ S # {} PROVE FALSE
  OBVIOUS
<1> DEFINE T == (0..n) \ S
<1>0. T \in SUBSET Nat /\ T # {}
  OBVIOUS
<1>. HIDE DEF T
<1>1. PICK k \in T : \A j \in T : k <= j
  BY <1>0, LeastNatural
<1>. USE DEF T
<1>2. k \in 1..n /\ k - 1 \in 0..n /\ ~(k <= k - 1)
  <2>1. k \in 0..n /\ k # 0
    BY <1>1
  <2>. QED  BY <2>1
<1>3. k - 1 \in S
  BY <1>1, <1>2
<1>. QED  BY <1>1, <1>2, <1>3

\* g is the function that starts with b and continues with F.
Recursive(g, V, n, b, F) ==
    g \in [0..n -> V] /\ g[0] = b /\ \A i \in 1..n : g[i] = F[i][g[i - 1]]

\* A function may be defined by recursion over the positions of a sequence.
LEMMA RecursionExists ==
    ASSUME NEW V, NEW n \in Nat, NEW b \in V, NEW F \in [1..n -> [V -> V]]
    PROVE  \E g : Recursive(g, V, n, b, F)
<1> DEFINE S == {k \in 0..n : \E g : Recursive(g, V, k, b, F)}
<1>1. 0 \in S
  <2> DEFINE g == [i \in 0..0 |-> b]
  <2>1. Recursive(g, V, 0, b, F)
    BY DEF Recursive
  <2>. HIDE DEF g
  <2>. QED  BY <2>1
<1>2. ASSUME NEW k \in 1..n, k - 1 \in S PROVE k \in S
  <2>1. PICK g : Recursive(g, V, k - 1, b, F)
    BY <1>2
  <2> DEFINE h == [i \in 0..k |-> IF i = k THEN F[k][g[k - 1]] ELSE g[i]]
  <2>2. g \in [0..(k - 1) -> V] /\ g[k - 1] \in V /\ F[k][g[k - 1]] \in V
    BY <2>1 DEF Recursive
  <2>3. h \in [0..k -> V] /\ h[0] = b
    BY <2>1, <2>2 DEF Recursive
  <2>4. ASSUME NEW i \in 1..k PROVE h[i] = F[i][h[i - 1]]
    <3>1. CASE i = k
      BY <2>2, <3>1
    <3>2. CASE i # k
      <4>1. i \in 1..(k - 1) /\ i \in 0..k /\ i - 1 \in 0..k /\ i - 1 # k
        BY <3>2
      <4>2. g[i] = F[i][g[i - 1]]
        BY <2>1, <4>1 DEF Recursive
      <4>. QED  BY ONLY <3>2, <4>1, <4>2
    <3>. QED  BY <3>1, <3>2
  <2>. HIDE DEF h
  <2>5. Recursive(h, V, k, b, F) /\ k \in 0..n
    BY <2>3, <2>4 DEF Recursive
  <2>. QED  BY <2>5
<1>. HIDE DEF S
<1>3. n \in S
  <2>1. 0..n \subseteq S
    BY <1>1, <1>2, UpTo
  <2>. QED  BY <2>1
<1>. QED  BY <1>3 DEF S

\* A line of an offer.
Attr == [key : STRING, pt : Nat]

\* c is the least element of S, and NoCandidate when there is none.
IsLowest(c, S) ==
    IF S = {} THEN c = NoCandidate ELSE c \in S /\ \A t \in S : c <= t

\* The payload types for H264 that the first i lines of a media complete.
TypesUpTo(i, media) ==
    {t \in H264Types(media) :
        t < 2^8 /\ \E j \in 1..i : media[j].key = "fmtp" /\ media[j].pt = t}

\* The fields of a line, and the fmtp line of a payload type.
LEMMA AttrFields ==
    ASSUME NEW a \in Attr
    PROVE  /\ a.pt \in Nat
           /\ \A t : a = [key |-> "fmtp", pt |-> t] <=> a.key = "fmtp" /\ a.pt = t
<1>1. a = [key |-> a.key, pt |-> a.pt] /\ a.pt \in Nat
  BY DEF Attr
<1>. QED  BY <1>1

\* The payload types an rtpmap gives to H264 are numbers.
LEMMA H264TypesNat ==
    ASSUME NEW media \in Seq(Attr)
    PROVE  H264Types(media) \subseteq Nat
<1>1. \A j \in DOMAIN media : media[j].pt \in Nat
  BY AttrFields
<1>2. \A t \in H264Types(media) : \E j \in DOMAIN media : t = media[j].pt
  BY Zenon DEF H264Types
<1>. QED  BY <1>1, <1>2

\* One line: the candidate stays the least of the types seen.
LEMMA FmtpStep ==
    ASSUME NEW media \in Seq(Attr), NEW i \in 1..Len(media), NEW S \in SUBSET Nat,
           NEW c, IsLowest(c, S \cup TypesUpTo(i - 1, media))
    PROVE  IsLowest(Fmtp(c, media[i], media), S \cup TypesUpTo(i, media))
<1> DEFINE a == media[i]
           Adds == a.key = "fmtp" /\ a.pt \in H264Types(media) /\ a.pt < 2^8
           was == S \cup TypesUpTo(i - 1, media)
           now == S \cup TypesUpTo(i, media)
           d == Fmtp(c, a, media)
<1>. SUFFICES IsLowest(d, now)
  OBVIOUS
<1>1. a.pt \in Nat /\ H264Types(media) \subseteq Nat
  <2>1. a \in Attr
    OBVIOUS
  <2>2. a.pt \in Nat
    BY <2>1, AttrFields
  <2>. QED  BY <2>2, H264TypesNat
<1>2. i \in 1..i /\ 1..i = 1..(i - 1) \cup {i}
  OBVIOUS
<1>3. now = IF Adds THEN was \cup {a.pt} ELSE was
  BY <1>2 DEF TypesUpTo
<1>4. was \subseteq Nat
  BY <1>1 DEF TypesUpTo
<1>5. d = IF Adds /\ (c = NoCandidate \/ c > a.pt) THEN a.pt ELSE c
  BY DEF Fmtp
<1>6. IsLowest(c, was)
  OBVIOUS
<1>. HIDE DEF a, Adds, was, now, d
<1>7. CASE ~Adds
  BY <1>3, <1>5, <1>6, <1>7
<1>8. CASE Adds /\ was = {}
  <2>1. c = NoCandidate /\ now = {a.pt}
    BY <1>3, <1>6, <1>8 DEF IsLowest
  <2>. QED  BY <1>1, <1>5, <1>8, <2>1 DEF IsLowest
<1>9. CASE Adds /\ was # {}
  <2>1. c \in was /\ (\A t \in was : c <= t) /\ c \in Nat /\ now = was \cup {a.pt}
    BY <1>3, <1>4, <1>6, <1>9 DEF IsLowest
  <2>2. c # NoCandidate
    BY <2>1 DEF NoCandidate
  <2>3. CASE c > a.pt
    BY <1>1, <1>4, <1>5, <1>9, <2>1, <2>3 DEF IsLowest
  <2>4. CASE ~(c > a.pt)
    BY <1>1, <1>4, <1>5, <1>9, <2>1, <2>2, <2>4 DEF IsLowest
  <2>. QED  BY <2>3, <2>4
<1>. QED  BY <1>7, <1>8, <1>9

\* One media: the candidate of the media before it and of its own lines.
LEMMA MediaLowest ==
    ASSUME NEW media \in Seq(Attr), NEW S \in SUBSET Nat, NEW best, IsLowest(best, S)
    PROVE  IsLowest(Media(best, media), S \cup TypesUpTo(Len(media), media))
<1> DEFINE n == Len(media)
           V == Nat \cup {NoCandidate}
           Body(g) == [i \in 0..n |-> IF i = 0 THEN best ELSE Fmtp(g[i - 1], media[i], media)]
           F == [i \in 1..n |-> [v \in V |-> Fmtp(v, media[i], media)]]
           c == CHOOSE g : g = Body(g)
<1>1. Media(best, media) = c[n]
  BY DEF Media
<1>2. best \in V /\ n \in Nat
  <2>1. best \in S \/ best = NoCandidate
    BY DEF IsLowest
  <2>2. n \in Nat
    OBVIOUS
  <2>. QED  BY <2>1, <2>2
<1>3. \A i \in 1..n : media[i].pt \in Nat
  <2>1. \A i \in 1..n : media[i] \in Attr
    OBVIOUS
  <2>. QED  BY <2>1, AttrFields
<1>4. \A i \in 1..n, v \in V : Fmtp(v, media[i], media) \in V
  <2>1. \A v, a : Fmtp(v, a, media) \in {v, a.pt}
    BY Zenon DEF Fmtp
  <2>. HIDE DEF n
  <2>. QED  BY ONLY <1>3, <2>1
<1>5. F \in [1..n -> [V -> V]]
  BY <1>4
<1>6. PICK g : Recursive(g, V, n, best, F)
  <2>. HIDE DEF F, V, n
  <2>. QED  BY <1>2, <1>5, RecursionExists
<1>7. g = Body(g)
  <2>1. \A i \in 0..n : i = 0 \/ (i \in 1..n /\ i - 1 \in 0..n)
    BY <1>2
  <2>2. \A i \in 1..n, v \in V : F[i][v] = Fmtp(v, media[i], media)
    OBVIOUS
  <2>. HIDE DEF F, V, n
  <2>3. g \in [0..n -> V] /\ g[0] = best /\ \A i \in 1..n : g[i] = F[i][g[i - 1]]
    BY <1>6 DEF Recursive
  <2>4. \A i \in 1..n : g[i] = Fmtp(g[i - 1], media[i], media)
    <3>1. \A i \in 1..n : i - 1 \in 0..n
      BY <1>2
    <3>. QED  BY ONLY <2>2, <2>3, <3>1
  <2>. QED  BY ONLY <2>1, <2>3, <2>4
<1>8. c = Body(c)
  <2>. HIDE DEF Body
  <2>. QED  BY <1>7
<1>. HIDE DEF c, n
<1>9. c[0] = best /\ \A i \in 1..n : c[i] = Fmtp(c[i - 1], media[i], media)
  BY <1>2, <1>8
<1> DEFINE Good == {i \in 0..n : IsLowest(c[i], S \cup TypesUpTo(i, media))}
<1>10. 0 \in Good
  <2>1. TypesUpTo(0, media) = {}
    BY ONLY 1..0 = {} DEF TypesUpTo
  <2>2. IsLowest(c[0], S \cup TypesUpTo(0, media))
    BY <1>9, <2>1
  <2>. QED  BY <1>2, <2>2
<1>11. ASSUME NEW i \in 1..n, i - 1 \in Good PROVE i \in Good
  <2>1. IsLowest(c[i - 1], S \cup TypesUpTo(i - 1, media))
    BY <1>11
  <2>2. IsLowest(Fmtp(c[i - 1], media[i], media), S \cup TypesUpTo(i, media))
    BY <2>1, FmtpStep DEF n
  <2>3. i \in 0..n
    BY <1>2
  <2>. QED  BY <1>9, <2>2, <2>3
<1>12. n \in Good
  <2>. HIDE DEF Good
  <2>1. 0..n \subseteq Good
    BY <1>2, <1>10, <1>11, UpTo
  <2>. QED  BY <1>2, <2>1
<1>. QED  BY <1>1, <1>12 DEF n

\* The payload types for H264 of the first m media.
TypesOf(m, sdp) == {t \in Nat : \E k \in 1..m : t \in TypesUpTo(Len(sdp[k]), sdp[k])}

\* They are payload types.
LEMMA TypesAreNat ==
    ASSUME NEW media \in Seq(Attr), NEW i \in Nat
    PROVE  TypesUpTo(i, media) \subseteq Nat
BY H264TypesNat DEF TypesUpTo

\* Media keeps a candidate a payload type or NoCandidate.
LEMMA MediaType ==
    ASSUME NEW media \in Seq(Attr), NEW v \in Nat \cup {NoCandidate}
    PROVE  Media(v, media) \in Nat \cup {NoCandidate}
<1>1. PICK S \in SUBSET Nat : IsLowest(v, S)
  <2>1. CASE v \in Nat
    <3>1. IsLowest(v, {v})
      BY <2>1 DEF IsLowest
    <3>. QED  BY <2>1, <3>1
  <2>2. CASE v = NoCandidate
    <3>1. IsLowest(v, {})
      BY <2>2 DEF IsLowest
    <3>. QED  BY <3>1
  <2>. QED  BY <2>1, <2>2
<1> DEFINE T == S \cup TypesUpTo(Len(media), media)
<1>2. T \subseteq Nat
  <2>1. Len(media) \in Nat
    OBVIOUS
  <2>. QED  BY <2>1, TypesAreNat
<1>3. IsLowest(Media(v, media), T)
  BY <1>1, MediaLowest
<1>. HIDE DEF T
<1>4. Media(v, media) \in T \/ Media(v, media) = NoCandidate
  BY <1>3 DEF IsLowest
<1>. QED  BY <1>2, <1>4

\* All media: chooseCodec returns the least payload type of the offer, and the
\* default where it has none.
LEMMA ChooseCodecLowest ==
    ASSUME NEW sdp \in Seq(Seq(Attr))
    PROVE  \E cand : /\ IsLowest(cand, TypesOf(Len(sdp), sdp))
                     /\ chooseCodec(sdp) = IF cand = NoCandidate THEN DefaultType ELSE cand
<1> DEFINE n == Len(sdp)
           V == Nat \cup {NoCandidate}
           Body(g) == [m \in 0..n |-> IF m = 0 THEN NoCandidate ELSE Media(g[m - 1], sdp[m])]
           F == [m \in 1..n |-> [v \in V |-> Media(v, sdp[m])]]
           c == CHOOSE g : g = Body(g)
<1>1. chooseCodec(sdp) = IF c[n] = NoCandidate THEN DefaultType ELSE c[n]
  BY DEF chooseCodec
<1>2. n \in Nat /\ NoCandidate \in V /\ \A m \in 1..n : sdp[m] \in Seq(Attr)
  OBVIOUS
<1>3. \A m \in 0..n : m = 0 \/ (m \in 1..n /\ m - 1 \in 0..n)
  BY <1>2
<1>4. F \in [1..n -> [V -> V]]
  BY <1>2, MediaType
<1>5. \A m \in 1..n, v \in V : F[m][v] = Media(v, sdp[m])
  OBVIOUS
<1>. HIDE DEF F, V, n
<1>6. PICK g : Recursive(g, V, n, NoCandidate, F)
  BY <1>2, <1>4, RecursionExists
<1>7. g = Body(g)
  <2>1. g \in [0..n -> V] /\ g[0] = NoCandidate /\ \A m \in 1..n : g[m] = F[m][g[m - 1]]
    BY <1>6 DEF Recursive
  <2>2. \A m \in 1..n : g[m - 1] \in V
    BY <1>2, <2>1
  <2>3. \A m \in 1..n : g[m] = Media(g[m - 1], sdp[m])
    BY <1>5, <2>1, <2>2
  <2>. QED  BY <1>3, <2>1, <2>3
<1>8. c = Body(c)
  <2>. HIDE DEF Body
  <2>. QED  BY <1>7
<1>. HIDE DEF c
<1>9. c[0] = NoCandidate /\ \A m \in 1..n : c[m] = Media(c[m - 1], sdp[m])
  BY <1>2, <1>8
<1> DEFINE Good == {m \in 0..n : IsLowest(c[m], TypesOf(m, sdp))}
<1>10. 0 \in Good
  <2>1. TypesOf(0, sdp) = {}
    BY DEF TypesOf
  <2>2. IsLowest(c[0], TypesOf(0, sdp))
    BY <1>9, <2>1 DEF IsLowest
  <2>. QED  BY <1>2, <2>2
<1>11. ASSUME NEW m \in 1..n, m - 1 \in Good PROVE m \in Good
  <2>1. IsLowest(c[m - 1], TypesOf(m - 1, sdp)) /\ TypesOf(m - 1, sdp) \in SUBSET Nat
    BY <1>11 DEF TypesOf
  <2>2. IsLowest(Media(c[m - 1], sdp[m]),
                 TypesOf(m - 1, sdp) \cup TypesUpTo(Len(sdp[m]), sdp[m]))
    BY <1>2, <2>1, MediaLowest
  <2>3. TypesOf(m - 1, sdp) \cup TypesUpTo(Len(sdp[m]), sdp[m]) = TypesOf(m, sdp)
    <3>1. 1..m = 1..(m - 1) \cup {m} /\ Len(sdp[m]) \in Nat
      BY <1>2
    <3>2. TypesUpTo(Len(sdp[m]), sdp[m]) \subseteq Nat
      BY <1>2, <3>1, TypesAreNat
    <3>. QED  BY <3>1, <3>2 DEF TypesOf
  <2>4. m \in 0..n
    BY <1>2
  <2>. QED  BY <1>9, <2>2, <2>3, <2>4
<1>12. n \in Good
  <2>. HIDE DEF Good
  <2>1. 0..n \subseteq Good
    BY <1>2, <1>10, <1>11, UpTo
  <2>. QED  BY <1>2, <2>1
<1>13. IsLowest(c[n], TypesOf(n, sdp))
  BY <1>12
<1>. QED  BY <1>1, <1>13 DEF n

\* A connection that has gone beyond Connected under its viewer has the report
\* of its present state still on the way: in a callback or in the channel.
ReportPending ==
    (rtcpc \notin {"closing", "done"} /\ ice > Connected) =>
       <<changes, ice>> \in callbacks \/ state = <<ice>>

\* A viewer counts from the start of its goroutine until it is let go.
ViewerCounted ==
    /\ rtcpc \in {"wait", "select", "read"} => rtcViewers = 1
    /\ rtcpc \in {"idle", "chosen", "setup", "done"} => rtcViewers = 0

\* Until the codec is registered, its payload type is what chooseCodec made of
\* the offer.
RtcInv ==
    /\ rtcpc \in {"idle", "chosen", "setup", "wait", "select", "read", "closing", "done"}
    /\ ice \in New..Closed /\ changes \in Nat /\ rtcViewers \in 0..1
    /\ rtcpc = "chosen" => offer \in Offers /\ payloadType = chooseCodec(offer)
    /\ ReportPending /\ ViewerCounted

\* The steps of the viewer and of its peer connection preserve it.
LEMMA RtcPreserves ==
    ASSUME RtcInv, [RtcNext]_rtcVars
    PROVE  RtcInv'
<1>. USE DEF RtcInv, ReportPending, ViewerCounted, New, Connected, Closed
<1>1. CASE HandleSDP
  BY <1>1 DEF HandleSDP, iceVars
<1>2. CASE NewPeer
  BY <1>2 DEF NewPeer, iceVars
<1>3. CASE setupTracks
  <2>1. /\ rtcpc = "setup" /\ UNCHANGED <<ice, changes, callbacks, state>>
        /\ \/ rtcpc' = "wait" /\ rtcViewers' = rtcViewers + 1
           \/ rtcpc' = "closing" /\ rtcViewers' = rtcViewers
    BY <1>3 DEF setupTracks, iceVars
  <2>. QED  BY <2>1
<1>4. CASE IceChange
  <2>1. PICK st \in New..Closed : ChangeTo(st)
    BY <1>4 DEF IceChange
  <2>2. <<changes', ice'>> \in callbacks' /\ changes' \in Nat /\ ice' \in New..Closed
    BY <2>1 DEF ChangeTo
  <2>3. UNCHANGED <<rtcpc, offer, payloadType, rtcViewers>> /\ rtcpc \notin {"chosen", "closing"}
    BY <1>4 DEF IceChange
  <2>. QED  BY <2>2, <2>3
<1>5. ASSUME NEW c \in callbacks, Report(c) PROVE RtcInv'
  <2>1. c = <<changes, ice>> => c[2] = ice
    OBVIOUS
  <2>. QED  BY <1>5, <2>1 DEF Report
<1>6. CASE AwaitConnected
  BY <1>6 DEF AwaitConnected, iceVars
<1>7. CASE Select
  <2>1. /\ rtcpc = "select" /\ UNCHANGED <<ice, changes, callbacks, rtcViewers>>
        /\ \/ rtcpc' = "read" /\ state' = state
           \/ rtcpc' = "read" /\ state[1] = Connected /\ state' = <<>>
           \/ rtcpc' = "closing"
    BY <1>7 DEF Select, iceVars
  <2>. QED  BY <2>1
<1>8. CASE ReadPacket
  BY <1>8 DEF ReadPacket, iceVars
<1>9. CASE Close
  <2>1. changes' \in Nat /\ ice' \in New..Closed
    BY <1>9 DEF Close, ChangeTo, iceVars
  <2>2. rtcpc' = "done" /\ rtcViewers' = 0
    BY <1>9 DEF Close
  <2>. QED  BY <2>1, <2>2
<1>10. CASE UNCHANGED rtcVars
  BY <1>10 DEF rtcVars
<1>. QED
  BY <1>1, <1>2, <1>3, <1>4, <1>5, <1>6, <1>7, <1>8, <1>9, <1>10 DEF RtcNext, Serve

\* The report of a lost connection is never lost itself, however the callbacks
\* are scheduled, and a viewer is counted exactly while it is served.
THEOREM RtcInvariant == RtcSpec => []RtcInv
<1>1. RtcInit => RtcInv
  BY RtcAssumption DEF RtcInit, RtcInv, ReportPending, ViewerCounted, New, Connected, Closed
<1>. QED  BY <1>1, RtcPreserves, PTL DEF RtcSpec

\* What Offered says of an offer is what the lines of its media complete.
LEMMA OfferedTypes ==
    ASSUME offer \in Seq(Seq(Attr))
    PROVE  Offered = TypesOf(Len(offer), offer)
<1> DEFINE One(m) == {t \in H264Types(offer[m]) :
                         t < 2^8 /\ [key |-> "fmtp", pt |-> t] \in Range(offer[m])}
<1>1. \A m \in 1..Len(offer) : offer[m] \in Seq(Attr) /\ Len(offer[m]) \in Nat
  OBVIOUS
<1>2. ASSUME NEW m \in 1..Len(offer) PROVE One(m) = TypesUpTo(Len(offer[m]), offer[m])
  <2> DEFINE media == offer[m]
  <2>1. media \in Seq(Attr)
    BY <1>1
  <2>. HIDE DEF media
  <2>2. \A j \in 1..Len(media) : media[j] \in Attr
    BY <2>1
  <2>3. \A j \in 1..Len(media), t \in Nat :
           media[j] = [key |-> "fmtp", pt |-> t] <=> media[j].key = "fmtp" /\ media[j].pt = t
    BY <2>2, AttrFields
  <2>4. H264Types(media) \subseteq Nat
    BY <2>1, H264TypesNat
  <2>5. DOMAIN media = 1..Len(media)
    BY <2>1
  <2>6. \A t \in Nat : [key |-> "fmtp", pt |-> t] \in Range(media)
                         <=> \E j \in 1..Len(media) : media[j].key = "fmtp" /\ media[j].pt = t
    <3>. SUFFICES ASSUME NEW t \in Nat
                  PROVE [key |-> "fmtp", pt |-> t] \in Range(media)
                         <=> \E j \in 1..Len(media) : media[j].key = "fmtp" /\ media[j].pt = t
      OBVIOUS
    <3> DEFINE r == [key |-> "fmtp", pt |-> t]
    <3>1. \A j \in 1..Len(media) : media[j] = r <=> media[j].key = "fmtp" /\ media[j].pt = t
      BY <2>3
    <3>. HIDE DEF r
    <3>2. r \in Range(media) <=> \E j \in 1..Len(media) : media[j] = r
      BY <2>5, Zenon DEF Range
    <3>3. r \in Range(media) <=> \E j \in 1..Len(media) : media[j].key = "fmtp" /\ media[j].pt = t
      BY <3>1, <3>2
    <3>. QED  BY <3>3 DEF r
  <2>. QED  BY <2>4, <2>6 DEF TypesUpTo, media
<1>3. \A m \in 1..Len(offer) : One(m) \subseteq Nat
  BY <1>1, <1>2, TypesAreNat
<1>4. Offered = UNION {One(m) : m \in DOMAIN offer} /\ DOMAIN offer = 1..Len(offer)
  BY DEF Offered
<1>. HIDE DEF One
<1>5. \A t : t \in Offered <=> \E m \in 1..Len(offer) : t \in One(m)
  BY <1>4
<1>. QED  BY <1>2, <1>3, <1>5 DEF TypesOf

\* Whatever the offer, chooseCodec finds its lowest payload type for H264.
THEOREM LowestChosen == RtcSpec => []LowestPayload
<1>1. RtcInv => LowestPayload
  <2>. SUFFICES ASSUME RtcInv, rtcpc = "chosen"
                PROVE  IF Offered = {} THEN payloadType = DefaultType
                       ELSE payloadType \in Offered /\ \A t \in Offered : payloadType <= t
    BY DEF LowestPayload
  <2>1. offer \in Seq(Seq(Attr)) /\ payloadType = chooseCodec(offer)
    BY RtcAssumption DEF RtcInv, Attr
  <2>2. Offered = TypesOf(Len(offer), offer)
    BY <2>1, OfferedTypes
  <2>3. PICK cand : /\ IsLowest(cand, Offered)
                    /\ payloadType = IF cand = NoCandidate THEN DefaultType ELSE cand
    BY <2>1, <2>2, ChooseCodecLowest
  <2>4. Offered \subseteq Nat
    BY <2>2 DEF TypesOf
  <2>5. CASE Offered = {}
    BY <2>3, <2>5 DEF IsLowest
  <2>6. CASE Offered # {}
    <3>1. cand \in Offered /\ cand \in Nat
      BY <2>3, <2>4, <2>6 DEF IsLowest
    <3>2. cand # NoCandidate
      BY <3>1 DEF NoCandidate
    <3>. QED  BY <2>3, <2>6, <3>1, <3>2 DEF IsLowest
  <2>. QED  BY <2>5, <2>6
<1>. QED  BY <1>1, RtcInvariant, PTL

-----------------------------------------------------------------------------
(***************************************************************************)
(* The readers together.  Playback lets one of them run in a behaviour;    *)
(* here they interleave freely, as in the program.  No step changes two of *)
(* them, so each takes only its own steps.                                 *)
(***************************************************************************)
AnyReader ==
    \/ RtspNext /\ UNCHANGED <<rtcVars, hlsVars, grabVars>>
    \/ RtcNext /\ UNCHANGED <<rtspVars, hlsVars, grabVars>>
    \/ HlsNext /\ UNCHANGED <<rtspVars, rtcVars, grabVars>>
    \/ GrabNext /\ UNCHANGED <<rtspVars, rtcVars, hlsVars>>

Interleaved == Init /\ [][AnyReader]_<<rtspVars, rtcVars, hlsVars, grabVars>>

\* Playback is one of the ways in which the readers may interleave.
THEOREM PlaybackInterleaves == Spec => Interleaved
<1>1. [Next]_<<rtspVars, rtcVars, hlsVars, grabVars>>
         => [AnyReader]_<<rtspVars, rtcVars, hlsVars, grabVars>>
  BY DEF Next, AnyReader
<1>. QED  BY <1>1, PTL DEF Spec, Interleaved

\* In every interleaving each reader keeps to its own specification.
THEOREM ReadersImplement == Interleaved => RtspSpec /\ RtcSpec /\ HlsSpec /\ GrabSpec
<1>1. Init => RtspInit /\ RtcInit /\ HlsInit /\ GrabInit
  BY DEF Init
<1>2. [AnyReader]_<<rtspVars, rtcVars, hlsVars, grabVars>> => [RtspNext]_rtspVars
  BY DEF AnyReader
<1>3. [AnyReader]_<<rtspVars, rtcVars, hlsVars, grabVars>> => [RtcNext]_rtcVars
  BY DEF AnyReader
<1>4. [AnyReader]_<<rtspVars, rtcVars, hlsVars, grabVars>> => [HlsNext]_hlsVars
  BY DEF AnyReader
<1>5. [AnyReader]_<<rtspVars, rtcVars, hlsVars, grabVars>> => [GrabNext]_grabVars
  BY DEF AnyReader
<1>. QED
  BY <1>1, <1>2, <1>3, <1>4, <1>5, PTL DEF Interleaved, RtspSpec, RtcSpec, HlsSpec, GrabSpec

\* The safety properties of the readers hold however the readers interleave.
THEOREM ReadersSafe ==
    Interleaved => [](TracksFit /\ LowestPayload /\ HlsCount /\ NoHiddenBframe) /\ WholePicture
BY ReadersImplement, TracksFitInvariant, LowestChosen, HlsCountHolds, BframesReported,
   FramesAreWhole, PTL

=============================================================================
