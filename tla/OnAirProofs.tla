----------------------------- MODULE OnAirProofs -----------------------------
(***************************************************************************)
(* What surrounds a channel, on top of the invariant of the channel and    *)
(* for any number of sessions: its viewers, any finite set of requests,    *)
(* and what the rest of the program is told of it.                         *)
(***************************************************************************)
EXTENDS Viewers, LiveStatus, ChannelProofs, FiniteSetTheorems

ViewType ==
    /\ vpc \in [Viewer -> {"idle", "ts", "rtc", "counted", "stalled"}]
    /\ vsrc \in [Viewer -> Queue \cup {None}]

\* A queue is handed out only while its session is on the air, and only the
\* queues that the session has.
HandedOut(q) ==
    \A s \in Session : \A k \in {"main", "opus"} :
       q = <<s, k>> => s \in Seen /\ (k = "opus" => s \in transcode)

Sources == \A v \in Viewer : HandedOut(vsrc[v])

Counted == {v \in Viewer : vpc[v] \in {"counted", "stalled"}}

VInv == IInv /\ ViewType /\ Sources /\ viewers = Cardinality(Counted)

-----------------------------------------------------------------------------
\* A session that was on the air stays one, with its queues.
LEMMA SeenGrows ==
    ASSUME IInv, Next
    PROVE  Seen \subseteq Seen' /\ transcode \subseteq transcode'
<1>. USE DEF IInv, TypeOK, entryVars, sessionVars
<1>1. ASSUME NEW s \in Session, TaskStep(s)
      PROVE  Seen \subseteq Seen' /\ transcode \subseteq transcode'
  BY <1>1, TaskStepEffect DEF TaskEffect, Seen
<1>2. CASE Expire \/ Cleanup
  BY <1>2 DEF Expire, Cleanup, Seen
<1>3. ASSUME NEW s \in Session, PublishStep(s)
      PROVE  Seen \subseteq Seen' /\ transcode \subseteq transcode'
  <2>1. transcode \subseteq transcode'
    BY <1>3 DEF PublishStep, Refuse, Open, SetStream, StartOutputs, Wait, StopStream, AnnounceStop
  <2>2. Seen \subseteq Seen'
    BY <1>3 DEF PublishStep, Refuse, Open, SetStream, StartOutputs, Wait, StopStream, AnnounceStop,
                Seen, OnAir
  <2>. QED  BY <2>1, <2>2
<1>. QED  BY <1>1, <1>2, <1>3 DEF Next

\* A step of the channel.
LEMMA ChannelKeepsViewers ==
    ASSUME VInv, [Next]_vars, UNCHANGED viewVars
    PROVE  VInv'
<1>. USE DEF VInv, viewVars
<1>1. IInv'
  BY NextIInv
<1>2. Seen \subseteq Seen' /\ transcode \subseteq transcode'
  <2>1. CASE UNCHANGED vars
    BY <2>1 DEF vars, sessionVars, Seen
  <2>. QED  BY <2>1, SeenGrows
<1>3. ViewType' /\ viewers' = Cardinality(Counted')
  BY DEF ViewType, Counted
<1>4. Sources'
  BY <1>2 DEF Sources, HandedOut
<1>. QED  BY <1>1, <1>3, <1>4

\* What channel.queue returns is a queue of the session on the air.
LEMMA QueueHandedOut ==
    ASSUME IInv, NEW kind, queue(kind) # None
    PROVE  queue(kind) \in Queue /\ HandedOut(queue(kind))
<1>1. PICK s \in Session : ingest = Main(s)
  BY DEF IInv, EntryInv, queue
<1>2. /\ pc[s] \in OnAir /\ queue(kind) \in {Main(s), Opus(s)}
  BY <1>1 DEF IInv, EntryInv, queue
<1>3. s \in Seen
  BY <1>2 DEF Seen, OnAir
<1>4. HandedOut(Main(s))
  BY <1>3 DEF HandedOut, Main
<1>5. HandedOut(Opus(s))
  <2>1. CASE s \in transcode
    BY <1>3, <2>1 DEF HandedOut, Opus
  <2>2. CASE s \notin transcode
    BY <1>3, <2>2 DEF HandedOut, Opus
  <2>. QED  BY <2>1, <2>2
<1>. QED  BY <1>2, <1>4, <1>5, QueueNames

\* A step of a viewer.
LEMMA ViewerPreserves ==
    ASSUME VInv, NEW v \in Viewer, ViewerStep(v), UNCHANGED vars
    PROVE  VInv'
<1>. USE DEF VInv
<1>1. IInv' /\ \A q : HandedOut(q) => HandedOut(q)'
  <2>1. Seen' = Seen /\ transcode' = transcode
    BY DEF vars, sessionVars, Seen
  <2>. QED  BY <2>1, NextIInv DEF HandedOut
<1>2. HandedOut(None)'
  BY ChannelAssumption DEF HandedOut, Queue
<1>3. ViewType' /\ Sources'
  <2>1. CASE Attach(v)
    <3>1. PICK kind \in {"ts", "rtc"} :
             /\ queue(kind) # None
             /\ vpc' = [vpc EXCEPT ![v] = kind] /\ vsrc' = [vsrc EXCEPT ![v] = queue(kind)]
      BY <2>1 DEF Attach
    <3>2. queue(kind) \in Queue /\ HandedOut(queue(kind))
      BY <3>1, QueueHandedOut
    <3>. QED  BY <1>1, <3>1, <3>2 DEF ViewType, Sources
  <2>2. CASE AddViewer(v)
    BY <1>1, <2>2 DEF AddViewer, ViewType, Sources
  <2>3. CASE SetupFails(v) \/ Leave(v)
    BY <1>1, <1>2, <2>3 DEF SetupFails, Leave, Gone, ViewType, Sources
  <2>4. CASE Stall(v) \/ Resume(v)
    BY <1>1, <2>4 DEF Stall, Resume, ViewType, Sources
  <2>. QED  BY <2>1, <2>2, <2>3, <2>4 DEF ViewerStep
<1>4. IsFiniteSet(Counted) /\ Cardinality(Counted) \in Nat
  BY ViewerAssumption, FS_Subset, FS_CardinalityType DEF Counted
<1>5. viewers' = Cardinality(Counted')
  <2>1. CASE Attach(v) \/ SetupFails(v) \/ Stall(v) \/ Resume(v)
    <3>1. Counted' = Counted /\ viewers' = viewers
      BY <2>1 DEF Attach, SetupFails, Stall, Resume, Gone, Counted, ViewType
    <3>. QED  BY <3>1
  <2>2. CASE AddViewer(v)
    <3>1. Counted' = Counted \cup {v} /\ v \notin Counted /\ viewers' = viewers + 1
      BY <2>2 DEF AddViewer, Counted, ViewType
    <3>. QED  BY <1>4, <3>1, FS_AddElement
  <2>3. CASE Leave(v)
    <3>1. Counted' = Counted \ {v} /\ v \in Counted /\ viewers' = viewers - 1
      BY <2>3 DEF Leave, Gone, Counted, ViewType
    <3>. QED  BY <1>4, <3>1, FS_RemoveElement
  <2>. QED  BY <2>1, <2>2, <2>3 DEF ViewerStep
<1>. QED  BY <1>1, <1>3, <1>5

\* The inductive invariant of the channel together with its viewers.
THEOREM ViewInvariant == ViewSpec => []VInv
<1>1. ViewInit => VInv
  <2>. SUFFICES ASSUME ViewInit PROVE VInv
    OBVIOUS
  <2>1. IInv
    BY InitIInv DEF ViewInit
  <2>2. ViewType
    BY DEF ViewInit, ViewType
  <2>3. Sources
    BY ChannelAssumption DEF ViewInit, Sources, HandedOut, Queue
  <2>4. Counted = {} /\ viewers = 0
    BY DEF ViewInit, Counted
  <2>. QED  BY <2>1, <2>2, <2>3, <2>4, FS_EmptySet DEF VInv
<1>2. VInv /\ [ViewNext]_allVars => VInv'
  BY ChannelKeepsViewers, ViewerPreserves DEF ViewNext, allVars
<1>. QED  BY <1>1, <1>2, PTL DEF ViewSpec

\* No viewer is left on a queue that nobody will close (channel.queue, setStream
\* and the deferred Close of each goroutine).
THEOREM NobodyStranded == ViewSpec => []NoStrandedViewer
<1>1. VInv => NoStrandedViewer
  <2>. SUFFICES ASSUME VInv, NEW v \in Viewer, NEW s \in Session, NEW k \in {"main", "opus"},
                       vsrc[v] = <<s, k>>, pc[s] \notin {"set", "running"}
                PROVE  <<s, k>> \in closed
    BY DEF NoStrandedViewer
  <2>1. s \in Seen /\ (k = "opus" => s \in transcode)
    BY DEF VInv, Sources, HandedOut
  <2>2. Main(s) \in closed /\ Opus(s) \in closed
    BY <2>1 DEF VInv, IInv, TaskInv, Seen, OnAir, Past
  <2>. QED  BY <2>1, <2>2 DEF Main, Opus
<1>. QED  BY <1>1, ViewInvariant, PTL

\* ch.viewers is the number of requests between addViewer(1) and addViewer(-1).
THEOREM CountIsExact == ViewSpec => []ViewerCount
<1>1. VInv => ViewerCount
  BY DEF VInv, Counted, ViewerCount
<1>. QED  BY <1>1, ViewInvariant, PTL

-----------------------------------------------------------------------------
(***************************************************************************)
(* The notifier (LiveStatus).  A thumbnail waits in grabch, or is between  *)
(* its broadcast and the store of ch.rtc, only while the notifier of its   *)
(* session runs, and only after the outputs of the session were started:   *)
(* eg.Wait, which waits for the notifier, comes after both.                *)
(***************************************************************************)
NewsInv ==
    /\ grabch \cup thumb \subseteq Session
    /\ \A s \in grabch \cup thumb : "notify" \in running[s]

NotifierInv ==
    \A s \in Session :
       /\ pc[s] = "idle" => running[s] = {}
       /\ pc[s] = "running" /\ "grab" \in running[s] => "notify" \in running[s]

SInv == IInv /\ NewsInv /\ NotifierInv

\* Every step is one of the channel, or leaves the channel as it is.
LEMMA StatusIsChannel ==
    ASSUME [StatusNext]_liveVars
    PROVE  [Next]_vars
BY DEF StatusNext, liveVars, GrabThumb, Notify, StoreRTC, DrainedNotifyEnd, BroadcastStop,
       SilentStep, Next, PublishStep, TaskStep

\* A notifier that has started runs until its range loop ends.
LEMMA NotifierStays ==
    ASSUME IInv, NotifierInv, NEW s \in Session, SilentStep(s) \/ AnnounceStop(s)
    PROVE  /\ NotifierInv'
           /\ \A t \in Session : "notify" \in running[t] => "notify" \in running'[t]
<1>. USE DEF IInv, NotifierInv, TypeOK
<1>1. CASE Refuse(s) \/ Open(s)
  BY <1>1 DEF Refuse, Open
<1>2. CASE SetStream(s) \/ StartOutputs(s) \/ Wait(s)
  BY <1>2 DEF SetStream, StartOutputs, Wait
<1>3. CASE StopStream(s) \/ AnnounceStop(s)
  BY <1>3 DEF StopStream, AnnounceStop
<1>4. CASE HlsEnd(s) \/ HlsFail(s) \/ GrabEnd(s)
  BY <1>4 DEF HlsEnd, HlsFail, GrabEnd, Return
<1>5. CASE CopyStream(s) \/ ConvertOpus(s) \/ CloseOnDone(s)
  BY <1>5 DEF CopyStream, ConvertOpus, CloseOnDone, Return
<1>. QED  BY <1>1, <1>2, <1>3, <1>4, <1>5 DEF SilentStep

\* The inductive invariant of the notices.
THEOREM StatusInvariant == StatusSpec => []SInv
<1>1. StatusInit => SInv
  BY InitIInv DEF StatusInit, Init, SInv, NewsInv, NotifierInv
<1>2. SInv /\ [StatusNext]_liveVars => SInv'
  <2>. SUFFICES ASSUME SInv, [StatusNext]_liveVars PROVE SInv'
    OBVIOUS
  <2>. USE DEF SInv
  <2>1. IInv'
    BY StatusIsChannel, NextIInv
  <2>2. ASSUME UNCHANGED vars PROVE NotifierInv' /\ running' = running
    BY <2>2 DEF NotifierInv, vars, sessionVars
  <2>3. ASSUME NEW s \in Session, GrabThumb(s) PROVE SInv'
    BY <2>1, <2>2, <2>3 DEF GrabThumb, NewsInv, NotifierInv
  <2>4. ASSUME NEW s \in Session, Notify(s) \/ StoreRTC(s) PROVE SInv'
    BY <2>1, <2>2, <2>4 DEF Notify, StoreRTC, NewsInv
  <2>5. ASSUME NEW s \in Session, DrainedNotifyEnd(s) PROVE SInv'
    BY <2>1, <2>5 DEF DrainedNotifyEnd, NotifyEnd, Return, statusVars, NewsInv, NotifierInv,
                      IInv, TypeOK
  <2>6. ASSUME NEW s \in Session, BroadcastStop(s) \/ SilentStep(s) PROVE SInv'
    <3>1. SilentStep(s) \/ AnnounceStop(s)
      BY <2>6 DEF BroadcastStop
    <3>2. grabch' = grabch /\ thumb' = thumb
      BY <2>6 DEF BroadcastStop, SilentStep, statusVars
    <3>. QED  BY <2>1, <3>1, <3>2, NotifierStays DEF NewsInv
  <2>7. CASE (Expire \/ Cleanup) /\ UNCHANGED statusVars
    BY <2>1, <2>7 DEF Expire, Cleanup, sessionVars, statusVars, NewsInv, NotifierInv
  <2>8. CASE UNCHANGED liveVars
    BY <2>1, <2>2, <2>8 DEF liveVars, statusVars, NewsInv
  <2>. QED  BY <2>3, <2>4, <2>5, <2>6, <2>7, <2>8 DEF StatusNext
<1>. QED  BY <1>1, <1>2, PTL DEF StatusSpec

\* The notifier is one of the goroutines eg.Wait waits for, and it returns only
\* when grabch is drained: no notice of a session follows its end.
THEOREM NoLateNews == StatusSpec => []NoNewsAfterStop
<1>1. SInv => NoNewsAfterStop
  BY DEF SInv, IInv, TaskInv, Past, Group, NewsInv, NoNewsAfterStop
<1>. QED  BY <1>1, StatusInvariant, PTL

-----------------------------------------------------------------------------
\* Viewers and notices leave the channel to its own steps: whatever is proved of
\* Channel holds of the channel with its viewers, and with its notices.
THEOREM SurroundingsImplementChannel == (ViewSpec => Spec) /\ (StatusSpec => Spec)
<1>1. [ViewNext]_allVars => [Next]_vars
  BY DEF ViewNext, allVars
<1>2. [StatusNext]_liveVars => [Next]_vars
  BY StatusIsChannel
<1>3. ViewSpec => Spec
  BY <1>1, PTL DEF ViewSpec, ViewInit, Spec
<1>4. StatusSpec => Spec
  BY <1>2, PTL DEF StatusSpec, StatusInit, Spec
<1>. QED  BY <1>3, <1>4

\* A session that has been announced and has not announced its end yet.
Announcing == {s \in Session : pc[s] \in {"running", "waited", "stopped"}}

\* Clients believe the channel to be live only while a session that will tell
\* them of its end is still in Publish.
AnnouncedInv == announced => Announcing # {}

\* The last word about a channel whose sessions have all ended is that it is off
\* the air: a thumbnail's notice, however late, is followed by its own session's
\* "stopped" (the range over grabch and the deferred PublishEvent).
THEOREM LastWordIsStop == StatusSpec => [](Ended => ~announced /\ ~live)
<1>1. StatusInit => AnnouncedInv
  BY DEF StatusInit, AnnouncedInv
<1>2. IInv /\ EarlyInv /\ AnnouncedInv /\ [StatusNext]_liveVars => AnnouncedInv'
  <2>. SUFFICES ASSUME IInv, EarlyInv, AnnouncedInv, [StatusNext]_liveVars PROVE AnnouncedInv'
    OBVIOUS
  <2>. USE DEF AnnouncedInv
  <2>1. ASSUME NEW s \in Session, BroadcastStop(s) PROVE AnnouncedInv'
    BY <2>1 DEF BroadcastStop
  <2>2. ASSUME NEW s \in Session, Notify(s) PROVE AnnouncedInv'
    <3>1. pc[s] = "running"
      BY <2>2 DEF Notify, EarlyInv, IInv, TypeOK, OnAir, TaskInv, Past, Group
    <3>2. pc' = pc
      BY <2>2 DEF Notify, vars, sessionVars
    <3>. QED  BY <3>1, <3>2 DEF Announcing
  <2>3. ASSUME NEW s \in Session, SilentStep(s) PROVE AnnouncedInv'
    <3>1. Announcing \subseteq Announcing'
      <4>1. CASE Refuse(s) \/ Open(s) \/ SetStream(s) \/ StartOutputs(s) \/ Wait(s) \/ StopStream(s)
        BY <4>1 DEF Refuse, Open, SetStream, StartOutputs, Wait, StopStream, Announcing, IInv, TypeOK
      <4>2. ASSUME TaskStep(s) PROVE Announcing \subseteq Announcing'
        BY <4>2, TaskStepEffect DEF TaskEffect, Announcing, IInv
      <4>. QED  BY <2>3, <4>1, <4>2 DEF SilentStep, TaskStep
    <3>. QED  BY <2>3, <3>1 DEF SilentStep, statusVars
  <2>4. ASSUME NEW s \in Session, DrainedNotifyEnd(s) PROVE AnnouncedInv'
    BY <2>4 DEF DrainedNotifyEnd, NotifyEnd, statusVars, Announcing
  <2>5. ASSUME NEW s \in Session, GrabThumb(s) \/ StoreRTC(s) PROVE AnnouncedInv'
    BY <2>5 DEF GrabThumb, StoreRTC, vars, sessionVars, Announcing
  <2>6. CASE (Expire \/ Cleanup) /\ UNCHANGED statusVars
    BY <2>6 DEF Expire, Cleanup, sessionVars, statusVars, Announcing
  <2>7. CASE UNCHANGED liveVars
    BY <2>7 DEF liveVars, vars, sessionVars, statusVars, Announcing
  <2>. QED  BY <2>1, <2>2, <2>3, <2>4, <2>5, <2>6, <2>7 DEF StatusNext
<1>3. IInv /\ AnnouncedInv => (Ended => ~announced /\ ~live)
  BY DEF IInv, EntryInv, AnnouncedInv, Announcing, Ended, OnAir
<1>. QED  BY <1>1, <1>2, <1>3, SurroundingsImplementChannel, Invariance, EarlyInvariance, PTL
            DEF StatusSpec

=============================================================================
