---------------------------- MODULE ChannelProofs ----------------------------
(***************************************************************************)
(* The safety of Channel, for any number of sessions.  The invariants the  *)
(* runs check are not inductive: that the holder of the channel is in      *)
(* flight rests on a superseded session being cut off, on a session being  *)
(* over only once its queues are closed, and on which goroutine closes     *)
(* which queue.  IInv collects those facts.                                *)
(***************************************************************************)
EXTENDS Channel, TLAPS

Past == {"waited", "stopped", "done"}

\* The entry belongs to one session that is on the air, or to nobody.
EntryInv ==
    /\ live <=> ingest # None
    /\ ingest = None => aac = None /\ opus = None
    /\ ingest # None => /\ stoppedAt = "zero"
                        /\ \E s \in Session : ingest = Main(s)
    /\ \A s \in Session : ingest = Main(s) =>
          /\ pc[s] \in OnAir
          /\ aac = Main(s) /\ opus = Opus(s)
          /\ hls # None /\ pub[s] = hls

\* Publishers are named after sessions that have been on the air, so the one
\* a session creates was never closed before.
HlsInv ==
    /\ closedHls \subseteq Seen
    /\ hls # None => hls \in Seen \ closedHls

\* A session that has lost the channel is cut off.
CutOffInv ==
    \A s \in Seen : ingest # Main(s) => Main(s) \in closed

\* Which goroutine, when it is gone, has closed which queue.
TaskInv ==
    \A s \in Session :
       /\ pc[s] = "running" /\ "copy" \notin running[s] => Main(s) \in closed
       /\ s \in transcode /\ "conv" \notin running[s] => <<s, "opus">> \in closed
       /\ s \in transcode => pc[s] # "idle"
       /\ pc[s] \in Past => /\ running[s] \cap Group = {}
                            /\ Main(s) \in closed
                            /\ Opus(s) \in closed

IInv == TypeOK /\ EntryInv /\ HlsInv /\ CutOffInv /\ TaskInv

-----------------------------------------------------------------------------
(***************************************************************************)
(* Facts about the queues of a session.                                    *)
(***************************************************************************)

\* Two sessions never share a queue, and a queue is not nil.
LEMMA QueueNames ==
    /\ \A s, t \in Session : Main(s) = Main(t) => s = t
    /\ \A s, t \in Session : Main(s) # <<t, "opus">>
    /\ \A s \in Session : Main(s) \in Queue /\ <<s, "opus">> \in Queue
    /\ \A s \in Session : Main(s) # None /\ Main(s)[1] = s
    /\ \A s \in Session : Opus(s) \in Queue
BY ChannelAssumption DEF Main, Opus, Queue

-----------------------------------------------------------------------------
(***************************************************************************)
(* The steps of a session's goroutines: they return, having closed what    *)
(* they must, and touch neither the entry nor the Publish call itself.     *)
(***************************************************************************)
TaskEffect ==
    /\ UNCHANGED <<pc, transcode, pub, entryVars, closedHls>>
    /\ running' \in [Session -> SUBSET (Group \cup {"grab"})]
    /\ \A s \in Session : running'[s] \subseteq running[s]
    /\ ctxDone' \subseteq Session
    /\ closed \subseteq closed' /\ closed' \subseteq Queue
    /\ \A s \in Session :
          /\ "copy" \in running[s] \ running'[s] => Main(s) \in closed'
          /\ "conv" \in running[s] \ running'[s] => <<s, "opus">> \in closed'

\* Every step of a goroutine has that effect.
LEMMA TaskStepEffect ==
    ASSUME TypeOK, NEW s \in Session, TaskStep(s)
    PROVE  TaskEffect
<1>. USE DEF TypeOK, TaskEffect, entryVars
<1>q. Main(s) \in Queue /\ <<s, "opus">> \in Queue
  BY QueueNames
<1>1. CASE HlsEnd(s)
  BY <1>1 DEF HlsEnd, Return
<1>2. CASE HlsFail(s)
  BY <1>2 DEF HlsFail, Return
<1>3. CASE GrabEnd(s)
  BY <1>3 DEF GrabEnd
<1>4. CASE NotifyEnd(s)
  BY <1>4 DEF NotifyEnd, Return
<1>5. CASE CopyStream(s)
  BY <1>5, <1>q DEF CopyStream, Return, Main
<1>6. CASE ConvertOpus(s)
  BY <1>6, <1>q DEF ConvertOpus, Return, Main
<1>7. CASE CloseOnDone(s)
  BY <1>7, <1>q DEF CloseOnDone, Main
<1>. QED  BY <1>1, <1>2, <1>3, <1>4, <1>5, <1>6, <1>7 DEF TaskStep

\* That effect preserves the invariant: closing a queue early, or twice, does
\* no harm.
LEMMA TaskPreserves ==
    ASSUME IInv, TaskEffect
    PROVE  IInv'
<1>. USE DEF IInv, TaskEffect, entryVars
<1>1. TypeOK'
  BY DEF TypeOK
<1>2. EntryInv'
  BY DEF EntryInv, Main, Opus
<1>3. HlsInv'
  BY DEF HlsInv, Seen
<1>4. CutOffInv'
  BY DEF CutOffInv, Seen, Main
<1>5. TaskInv'
  BY DEF TaskInv, Main, Opus, TypeOK
<1>. QED  BY <1>1, <1>2, <1>3, <1>4, <1>5

-----------------------------------------------------------------------------
(***************************************************************************)
(* The steps of the Publish call.                                          *)
(***************************************************************************)

\* Opening a session, or refusing one, leaves the channel alone.
LEMMA OpenPreserves ==
    ASSUME IInv, NEW s \in Session, Refuse(s) \/ Open(s)
    PROVE  IInv'
<1>. USE DEF IInv, Refuse, Open, entryVars
<1>1. TypeOK'
  BY DEF TypeOK, Group
<1>2. /\ Seen' = Seen
      /\ \A t \in Session : pc[t] \in OnAir => pc'[t] = pc[t]
  BY DEF TypeOK, Seen, OnAir
<1>3. \A t \in Session : t # s => (t \in transcode' <=> t \in transcode)
  BY DEF TypeOK
<1>4. \A t \in Session : pc[t] # "idle" =>
         /\ Opus(t)' = Opus(t)
         /\ running'[t] = running[t] /\ pc'[t] = pc[t]
  BY <1>3 DEF Opus, TypeOK
<1>5. EntryInv'
  BY <1>2, <1>4 DEF EntryInv, Main, OnAir
<1>6. HlsInv'
  BY <1>2 DEF HlsInv
<1>7. CutOffInv'
  BY <1>2 DEF CutOffInv, Main
<1>8. TaskInv'
  <2>. SUFFICES ASSUME NEW t \in Session
                PROVE  /\ pc'[t] = "running" /\ "copy" \notin running'[t] => Main(t) \in closed'
                       /\ t \in transcode' /\ "conv" \notin running'[t] => <<t, "opus">> \in closed'
                       /\ t \in transcode' => pc'[t] # "idle"
                       /\ pc'[t] \in Past => /\ running'[t] \cap Group = {}
                                             /\ Main(t) \in closed'
                                             /\ Opus(t)' \in closed'
    BY DEF TaskInv, Main
  <2>1. CASE t = s
    BY <2>1 DEF TaskInv, TypeOK, Past
  <2>2. CASE t # s
    BY <2>2, <1>3 DEF TaskInv, TypeOK, Past, Opus
  <2>. QED  BY <2>1, <2>2
<1>. QED  BY <1>1, <1>5, <1>6, <1>7, <1>8

\* setStream: the session that held the channel is cut off, and the publisher
\* the new one gets is open.
LEMMA SetStreamPreserves ==
    ASSUME IInv, NEW s \in Session, SetStream(s)
    PROVE  IInv'
<1>. USE DEF IInv, SetStream
<1>1. TypeOK'
  BY QueueNames DEF TypeOK, OnAir
<1>2. Seen' = Seen \cup {s} /\ s \notin Seen
  BY DEF TypeOK, Seen, OnAir
<1>3. Opus(s)' = Opus(s)
  BY DEF Opus
<1>4. EntryInv'
  BY <1>3, QueueNames, ChannelAssumption DEF EntryInv, TypeOK, Main, OnAir
<1>5. HlsInv'
  BY <1>2, ChannelAssumption DEF HlsInv, TypeOK
<1>6. CutOffInv'
  <2>. SUFFICES ASSUME NEW t \in Seen', ingest' # Main(t)
                PROVE  Main(t) \in closed'
    BY DEF CutOffInv, Main
  <2>1. t \in Seen
    BY <1>2
  <2>2. CASE ingest = Main(t)
    BY <2>2, QueueNames DEF Seen
  <2>3. CASE ingest # Main(t)
    BY <2>1, <2>3 DEF CutOffInv
  <2>. QED  BY <2>2, <2>3
<1>7. TaskInv'
  <2>1. closed \subseteq closed'
    OBVIOUS
  <2>2. \A t \in Session : pc'[t] = IF t = s THEN "set" ELSE pc[t]
    BY DEF TypeOK
  <2>3. UNCHANGED <<running, transcode>>
    OBVIOUS
  <2>. HIDE DEF SetStream
  <2>. QED  BY <2>1, <2>2, <2>3 DEF TaskInv, Past, Main, Opus
<1>. QED  BY <1>1, <1>4, <1>5, <1>6, <1>7

\* The outputs start, or all of them have returned.
LEMMA RunPreserves ==
    ASSUME IInv, NEW s \in Session, StartOutputs(s) \/ Wait(s)
    PROVE  IInv'
<1>. USE DEF IInv, StartOutputs, Wait, entryVars
<1>1. TypeOK'
  BY DEF TypeOK, OnAir, Group
<1>2. Seen' = Seen
  BY DEF TypeOK, Seen, OnAir
<1>3. EntryInv'
  BY DEF EntryInv, TypeOK, Main, Opus, OnAir
<1>4. HlsInv'
  BY <1>2 DEF HlsInv
<1>5. CutOffInv'
  BY <1>2 DEF CutOffInv, Main
<1>6. TaskInv'
  <2>1. CASE StartOutputs(s)
    BY <2>1 DEF TaskInv, TypeOK, Past, Main, Opus
  <2>2. CASE Wait(s)
    <3>1. "copy" \notin running[s] /\ "conv" \notin running[s]
      BY <2>2 DEF Group
    <3>2. Main(s) \in closed /\ Opus(s) \in closed
      BY <2>2, <3>1 DEF TaskInv, Main, Opus
    <3>3. /\ running[s] \cap Group = {}
          /\ pc'[s] = "waited" /\ \A t \in Session : t # s => pc'[t] = pc[t]
          /\ UNCHANGED <<running, transcode, closed>>
      BY <2>2 DEF TypeOK
    <3>4. \A t \in Session : Main(t)' = Main(t) /\ Opus(t)' = Opus(t)
      BY <3>3 DEF Main, Opus
    <3>5. pc[s] # "idle"
      BY <2>2
    <3>. HIDE DEF StartOutputs, Wait
    <3>. QED  BY <3>2, <3>3, <3>4, <3>5 DEF TaskInv, Past
  <2>. QED  BY <2>1, <2>2
<1>. QED  BY <1>1, <1>3, <1>4, <1>5, <1>6

\* stopStream and the return: only the holder clears the entry.
LEMMA StopPreserves ==
    ASSUME IInv, NEW s \in Session, StopStream(s) \/ AnnounceStop(s)
    PROVE  IInv'
<1>. USE DEF IInv, StopStream, AnnounceStop, entryVars
<1>1. TypeOK'
  BY DEF TypeOK, OnAir
<1>2. Seen' = Seen
  BY DEF TypeOK, Seen, OnAir
<1>3. EntryInv'
  BY QueueNames DEF EntryInv, TypeOK, Main, Opus, OnAir
<1>4. HlsInv'
  BY <1>2 DEF HlsInv
<1>5. TaskInv'
  BY DEF TaskInv, TypeOK, Past, Main, Opus
<1>6. CutOffInv'
  BY <1>2, QueueNames DEF CutOffInv, TaskInv, Past, Main, Seen
<1>. QED  BY <1>1, <1>3, <1>4, <1>5, <1>6

\* The reaper acts only on a channel that nobody holds.
LEMMA ReapPreserves ==
    ASSUME IInv, Expire \/ Cleanup
    PROVE  IInv'
<1>. USE DEF IInv, Expire, Cleanup, entryVars, sessionVars
<1>1. TypeOK'
  BY DEF TypeOK
<1>2. Seen' = Seen /\ ingest = None
  BY DEF Seen, EntryInv
<1>3. EntryInv'
  BY <1>2, QueueNames DEF EntryInv, Main
<1>4. HlsInv'
  BY <1>2 DEF HlsInv, TypeOK
<1>5. CutOffInv'
  BY <1>2 DEF CutOffInv, Main
<1>6. TaskInv'
  BY DEF TaskInv, Main, Opus
<1>. QED  BY <1>1, <1>3, <1>4, <1>5, <1>6

-----------------------------------------------------------------------------
(***************************************************************************)
(* The inductive invariant, and what follows from it.                      *)
(***************************************************************************)

\* A fresh channel satisfies the invariant.
LEMMA InitIInv == Init => IInv
BY QueueNames
   DEF Init, IInv, TypeOK, EntryInv, HlsInv, CutOffInv, TaskInv, Seen, OnAir, Past

\* Every step preserves it.
LEMMA NextIInv == IInv /\ [Next]_vars => IInv'
<1>. SUFFICES ASSUME IInv, [Next]_vars PROVE IInv'
  OBVIOUS
<1>1. CASE UNCHANGED vars
  <2>1. TaskEffect
    BY <1>1 DEF vars, sessionVars, entryVars, TaskEffect, IInv, TypeOK
  <2>. QED  BY <2>1, TaskPreserves
<1>2. ASSUME NEW s \in Session, PublishStep(s) PROVE IInv'
  BY <1>2, OpenPreserves, SetStreamPreserves, RunPreserves, StopPreserves
     DEF PublishStep
<1>3. ASSUME NEW s \in Session, TaskStep(s) PROVE IInv'
  BY <1>3, TaskStepEffect, TaskPreserves DEF IInv
<1>4. CASE Expire \/ Cleanup
  BY <1>4, ReapPreserves
<1>. QED  BY <1>1, <1>2, <1>3, <1>4 DEF Next

\* The inductive invariant of the channel holds in every reachable state.
THEOREM Invariance == Spec => []IInv
BY InitIInv, NextIInv, PTL DEF Spec

\* Type correctness of the channel entry and of the sessions.
THEOREM TypeCorrect == Spec => []TypeOK
<1>1. IInv => TypeOK
  BY DEF IInv
<1>. QED  BY <1>1, Invariance, PTL

\* ch.ingest always belongs to a Publish call between setStream and stopStream,
\* for any number of sessions that supersede one another.
THEOREM OwnerAlwaysInFlight == Spec => []OwnerInFlight
<1>1. IInv => OwnerInFlight
  BY DEF IInv, EntryInv, OwnerInFlight
<1>. QED  BY <1>1, Invariance, PTL

\* Manager.Cleanup never closes the HLS publisher of a stream on the air.
THEOREM LiveHlsStaysOpen == Spec => []LiveStreamHasHls
<1>1. IInv => LiveStreamHasHls
  BY DEF IInv, EntryInv, HlsInv, LiveStreamHasHls
<1>. QED  BY <1>1, Invariance, PTL

\* Every way out of eg.Wait leaves both queues of the session closed.
THEOREM EndedMeansClosed == Spec => []EndedQueuesClosed
<1>1. IInv => EndedQueuesClosed
  BY DEF IInv, TaskInv, Past, EndedQueuesClosed
<1>. QED  BY <1>1, Invariance, PTL

\* stopStream takes the channel off the air only for the session that holds it
\* and whose outputs have all returned.
THEOREM OffAirProperty == Spec => OffAirOnlyWhenEnded
<1> DEFINE Act == live /\ ~live' =>
                    \E s \in Session : /\ ingest = Main(s)
                                       /\ running[s] \cap Group = {}
                                       /\ Main(s) \in closed
<1>1. IInv /\ [Next]_vars => [Act]_vars
  <2>. SUFFICES ASSUME IInv, Next, live, ~live' PROVE Act
    OBVIOUS
  <2>1. PICK s \in Session : StopStream(s)
    BY DEF Next, PublishStep, TaskStep, Refuse, Open, SetStream, StartOutputs,
           Wait, AnnounceStop, HlsEnd, HlsFail, GrabEnd, NotifyEnd, CopyStream,
           ConvertOpus, CloseOnDone, Expire, Cleanup, entryVars
  <2>2. ingest = Main(s) /\ pc[s] \in Past
    BY <2>1 DEF StopStream, entryVars, Past
  <2>. QED  BY <2>2 DEF IInv, TaskInv
<1>. QED  BY <1>1, Invariance, PTL DEF Spec, OffAirOnlyWhenEnded

-----------------------------------------------------------------------------
(***************************************************************************)
(* Channel implements ChannelSlot.                                         *)
(***************************************************************************)
Owner == IF ingest = None THEN None ELSE ingest[1]
OpenStreams == {s \in Seen : Main(s) \notin closed}

\* A step of a goroutine, or a stutter, at most ends the holder's stream.
LEMMA TaskRefines ==
    ASSUME IInv, TaskEffect, NEW s \in Session,
           closed' \subseteq closed \cup {Main(s), <<s, "opus">>}
    PROVE  [Slot!Next]_<<Owner, Seen, OpenStreams>>
<1>1. Owner' = Owner /\ Seen' = Seen
  BY DEF TaskEffect, entryVars, Owner, Seen
<1>2. \A t \in Session : t # s => (Main(t) \in closed' <=> Main(t) \in closed)
  BY QueueNames DEF TaskEffect
<1>3. OpenStreams' \in {OpenStreams, OpenStreams \ {s}}
  BY <1>1, <1>2 DEF OpenStreams, Main, TaskEffect, Seen
<1>4. CASE s \in OpenStreams /\ OpenStreams' = OpenStreams \ {s}
  BY <1>1, <1>4 DEF Slot!Next, Slot!End, Owner, OpenStreams
<1>5. CASE OpenStreams' = OpenStreams
  BY <1>1, <1>5
<1>. QED  BY <1>3, <1>4, <1>5

\* Every step of the channel is a step of the slot, or a stutter.
LEMMA StepRefines ==
    IInv /\ [Next]_vars => [Slot!Next]_<<Owner, Seen, OpenStreams>>
<1>. SUFFICES ASSUME IInv, [Next]_vars
              PROVE  [Slot!Next]_<<Owner, Seen, OpenStreams>>
  OBVIOUS
<1>1. CASE UNCHANGED vars
  BY <1>1 DEF vars, entryVars, sessionVars, Owner, Seen, OpenStreams
<1>2. ASSUME NEW s \in Session,
             Refuse(s) \/ Open(s) \/ StartOutputs(s) \/ Wait(s) \/ AnnounceStop(s)
      PROVE  UNCHANGED <<Owner, Seen, OpenStreams>>
  <2>1. UNCHANGED <<ingest, closed>>
    BY <1>2 DEF Refuse, Open, StartOutputs, Wait, AnnounceStop, entryVars
  <2>2. Seen' = Seen
    BY <1>2 DEF Refuse, Open, StartOutputs, Wait, AnnounceStop, Seen, OnAir,
                IInv, TypeOK
  <2>. QED  BY <2>1, <2>2 DEF Owner, OpenStreams, Main
<1>3. ASSUME NEW s \in Session, SetStream(s)
      PROVE  Slot!Next
  <2>1. s \notin Seen /\ Seen' = Seen \cup {s}
    BY <1>3 DEF SetStream, Seen, OnAir, IInv, TypeOK
  <2>2. Owner' = s
    BY <1>3, QueueNames DEF SetStream, Owner
  <2>3. \A t \in Seen : Main(t) \in closed'
    BY <1>3, QueueNames DEF SetStream, IInv, CutOffInv, Seen
  <2>4. OpenStreams' \in {{}, {s}}
    BY <2>1, <2>3 DEF OpenStreams, Main
  <2>. QED  BY <2>1, <2>2, <2>4 DEF Slot!Next, Slot!Take, Owner, OpenStreams
<1>4. ASSUME NEW s \in Session, StopStream(s)
      PROVE  [Slot!Next]_<<Owner, Seen, OpenStreams>>
  <2>1. Seen' = Seen /\ OpenStreams' = OpenStreams
    BY <1>4 DEF StopStream, Seen, OpenStreams, OnAir, IInv, TypeOK, Main
  <2>2. CASE ingest # Main(s)
    BY <1>4, <2>1, <2>2 DEF StopStream, entryVars, Owner
  <2>3. CASE ingest = Main(s)
    <3>1. Owner = s /\ Owner' = None
      BY <1>4, <2>3, QueueNames DEF StopStream, Owner, entryVars
    <3>2. s \notin OpenStreams
      BY <1>4 DEF StopStream, IInv, TaskInv, Past, OpenStreams
    <3>. QED  BY <2>1, <3>1, <3>2 DEF Slot!Next, Slot!Release, Owner, OpenStreams
  <2>. QED  BY <2>2, <2>3
<1>5. ASSUME NEW s \in Session, TaskStep(s)
      PROVE  [Slot!Next]_<<Owner, Seen, OpenStreams>>
  <2>1. closed' \subseteq closed \cup {Main(s), <<s, "opus">>}
    BY <1>5 DEF TaskStep, HlsEnd, HlsFail, GrabEnd, NotifyEnd, CopyStream,
                ConvertOpus, CloseOnDone
  <2>. QED  BY <1>5, <2>1, TaskStepEffect, TaskRefines DEF IInv
<1>6. CASE Expire \/ Cleanup
  BY <1>6 DEF Expire, Cleanup, sessionVars, Owner, Seen, OpenStreams
<1>. QED  BY <1>1, <1>2, <1>3, <1>4, <1>5, <1>6 DEF Next, PublishStep

\* The channel is a slot that one session holds at a time: a takeover cuts the
\* previous stream off in the same step, and only the holder lets go.
THEOREM Refinement == Spec => ImplementsSlot
<1>1. Init => Slot!Init
  BY DEF Init, Slot!Init, Seen, OnAir
<1>2. Spec => [][Slot!Next]_<<Owner, Seen, OpenStreams>>
  BY Invariance, StepRefines, PTL DEF Spec
<1>. QED  BY <1>1, <1>2, PTL DEF Spec, ImplementsSlot, Slot!Spec, Owner, OpenStreams

-----------------------------------------------------------------------------
(***************************************************************************)
(* What the liveness of the channel rests on.                              *)
(***************************************************************************)

\* A publisher that no stream writes to is waiting for the reaper.
HlsExpires == hls # None => live \/ stoppedAt \in {"recent", "expired"}

\* However sessions follow one another, stopStream starts the clock of every HLS
\* publisher that is left without a stream, so that cleanup can close it.
THEOREM NoForgottenHls == Spec => []HlsExpires
<1>1. Init => HlsExpires
  BY DEF Init, HlsExpires
<1>2. IInv /\ HlsExpires /\ [Next]_vars => HlsExpires'
  <2>. SUFFICES ASSUME IInv, HlsExpires, [Next]_vars PROVE HlsExpires'
    OBVIOUS
  <2>. USE DEF HlsExpires
  <2>1. ASSUME NEW s \in Session, TaskStep(s) PROVE HlsExpires'
    BY <2>1, TaskStepEffect DEF TaskEffect, entryVars, IInv
  <2>2. ASSUME NEW s \in Session, PublishStep(s) PROVE HlsExpires'
    BY <2>2 DEF PublishStep, Refuse, Open, SetStream, StartOutputs, Wait, StopStream,
                AnnounceStop, entryVars
  <2>3. CASE Expire \/ Cleanup \/ UNCHANGED vars
    BY <2>3 DEF Expire, Cleanup, vars, entryVars
  <2>. QED  BY <2>1, <2>2, <2>3 DEF Next
<1>. QED  BY <1>1, <1>2, Invariance, PTL DEF Spec

\* What is left of a session: the stages of Publish, the goroutines that run or
\* will be started, and the end of its queue.
Ahead(s) ==
    CASE pc[s] = "opened"  -> {"set", "run", "wait", "stop", "return"}
      [] pc[s] = "set"     -> {"run", "wait", "stop", "return"}
      [] pc[s] = "running" -> {"wait", "stop", "return"}
      [] pc[s] = "waited"  -> {"stop", "return"}
      [] pc[s] = "stopped" -> {"return"}
      [] OTHER -> {}

Todo(s) ==
    Ahead(s) \cup running[s]
      \cup (IF pc[s] \in {"opened", "set"} THEN {"hls", "notify", "copy"} ELSE {})
      \cup (IF Main(s) \in closed THEN {} ELSE {"close"})

\* Nothing is added to it, and every step of the session takes something away.
Shrinks(s) ==
    /\ Todo(s)' \subseteq Todo(s)
    /\ <<pc[s], running[s]>>' # <<pc[s], running[s]>> => Todo(s)' # Todo(s)

\* Before the outputs start, only the grabber and the converter run.
EarlyInv ==
    \A s \in Session :
       /\ pc[s] \in {"idle", "refused"} => running[s] = {}
       /\ pc[s] \in {"opened", "set"} => running[s] \subseteq {"grab", "conv"}

\* Every step preserves that.
LEMMA NextEarlyInv == IInv /\ EarlyInv /\ [Next]_vars => EarlyInv'
<1>. SUFFICES ASSUME IInv, EarlyInv, [Next]_vars PROVE EarlyInv'
  OBVIOUS
<1>. USE DEF EarlyInv
<1>1. ASSUME NEW s \in Session, TaskStep(s) PROVE EarlyInv'
  BY <1>1, TaskStepEffect DEF TaskEffect, IInv
<1>2. ASSUME NEW s \in Session, Refuse(s) \/ Open(s) \/ SetStream(s) PROVE EarlyInv'
  BY <1>2 DEF Refuse, Open, SetStream, IInv, TypeOK
<1>3. ASSUME NEW s \in Session,
             StartOutputs(s) \/ Wait(s) \/ StopStream(s) \/ AnnounceStop(s)
      PROVE  EarlyInv'
  BY <1>3 DEF StartOutputs, Wait, StopStream, AnnounceStop, IInv, TypeOK
<1>4. CASE Expire \/ Cleanup \/ UNCHANGED vars
  BY <1>4 DEF Expire, Cleanup, vars, sessionVars
<1>. QED  BY <1>1, <1>2, <1>3, <1>4 DEF Next, PublishStep

\* Before StartOutputs a session has no notifier, copier or HLS output.
THEOREM EarlyInvariance == Spec => []EarlyInv
<1>1. Init => EarlyInv
  BY DEF Init, EarlyInv
<1>. QED  BY <1>1, NextEarlyInv, Invariance, PTL DEF Spec

\* A step that leaves a session's own state alone, except that it may be cut off.
LEMMA OthersShrink ==
    ASSUME NEW t \in Session, pc'[t] = pc[t], running'[t] = running[t], closed \subseteq closed'
    PROVE  Shrinks(t)
<1>1. Ahead(t)' = Ahead(t)
  BY DEF Ahead
<1>. QED  BY <1>1 DEF Shrinks, Todo, Main

\* A goroutine that returns is not started again.
LEMMA TaskShrinks ==
    ASSUME IInv, EarlyInv, TaskEffect, NEW t \in Session
    PROVE  Shrinks(t)
<1>1. Ahead(t)' = Ahead(t) /\ pc' = pc /\ running'[t] \subseteq running[t] /\ closed \subseteq closed'
  BY DEF TaskEffect, Ahead
<1>2. CASE running'[t] = running[t]
  BY <1>1, <1>2, OthersShrink
<1>3. CASE running'[t] # running[t]
  <2>1. PICK g \in running[t] : g \notin running'[t]
    BY <1>1, <1>3
  <2>2. g \in Group \cup {"grab"}
    BY DEF IInv, TypeOK
  <2>3. g \notin Ahead(t) /\ g # "close"
    BY <2>2 DEF Ahead, Group
  <2>4. pc[t] \in {"opened", "set"} => g \notin {"hls", "notify", "copy"}
    BY DEF EarlyInv
  <2>5. g \in Todo(t) /\ g \notin Todo(t)'
    BY <1>1, <2>1, <2>3, <2>4 DEF Todo
  <2>6. Todo(t)' \subseteq Todo(t)
    BY <1>1 DEF Todo, Main
  <2>. QED  BY <2>5, <2>6 DEF Shrinks
<1>. QED  BY <1>2, <1>3

\* Publish goes from stage to stage.
LEMMA PublishShrinks ==
    ASSUME IInv, NEW s \in Session, PublishStep(s), NEW t \in Session, pc[t] # "idle"
    PROVE  Shrinks(t)
<1>. USE DEF IInv, TypeOK
<1>1. closed \subseteq closed'
  BY DEF PublishStep, Refuse, Open, SetStream, StartOutputs, Wait, StopStream, AnnounceStop
<1>2. CASE t # s
  <2>1. pc'[t] = pc[t] /\ running'[t] = running[t]
    BY <1>2 DEF PublishStep, Refuse, Open, SetStream, StartOutputs, Wait, StopStream, AnnounceStop
  <2>. QED  BY <1>1, <2>1, OthersShrink
<1>3. CASE t = s /\ SetStream(s)
  <2>1. pc[t] = "opened" /\ pc'[t] = "set" /\ running'[t] = running[t]
    BY <1>3 DEF SetStream
  <2>2. "set" \notin running[t]
    BY DEF Group
  <2>. HIDE DEF TypeOK
  <2>. QED  BY <1>1, <2>1, <2>2 DEF Shrinks, Todo, Ahead, Main
<1>4. CASE t = s /\ StartOutputs(s)
  <2>1. /\ pc[t] = "set" /\ pc'[t] = "running"
        /\ running'[t] = running[t] \cup {"hls", "notify", "copy"}
    BY <1>4 DEF StartOutputs
  <2>2. "run" \notin running[t]
    BY DEF Group
  <2>. HIDE DEF TypeOK
  <2>. QED  BY <1>1, <2>1, <2>2 DEF Shrinks, Todo, Ahead, Main
<1>5. CASE t = s /\ (Wait(s) \/ StopStream(s) \/ AnnounceStop(s))
  <2>1. /\ <<pc[t], pc'[t]>> \in
              {<<"running", "waited">>, <<"waited", "stopped">>, <<"stopped", "done">>}
        /\ running'[t] = running[t]
    BY <1>5 DEF Wait, StopStream, AnnounceStop
  <2>2. running[t] \cap {"wait", "stop", "return"} = {}
    BY DEF Group
  <2>. HIDE DEF TypeOK
  <2>. QED  BY <1>1, <2>1, <2>2 DEF Shrinks, Todo, Ahead, Main
<1>. QED  BY <1>2, <1>3, <1>4, <1>5 DEF PublishStep, Refuse, Open

\* A session that has opened does finitely many things: no step of it, and none
\* of the sessions that supersede it, gives it more to do.  With NeverStuck this
\* is ClosedSessionEnds but for the fairness of the scheduler.
THEOREM SessionsShrink == Spec => [][\A s \in Session : pc[s] # "idle" => Shrinks(s)]_vars
<1> DEFINE Act == \A s \in Session : pc[s] # "idle" => Shrinks(s)
<1>1. IInv /\ EarlyInv /\ [Next]_vars => [Act]_vars
  <2>. SUFFICES ASSUME IInv, EarlyInv, Next, NEW t \in Session, pc[t] # "idle" PROVE Shrinks(t)
    OBVIOUS
  <2>1. ASSUME NEW s \in Session, TaskStep(s) PROVE Shrinks(t)
    BY <2>1, TaskStepEffect, TaskShrinks DEF IInv
  <2>2. CASE Expire \/ Cleanup
    BY <2>2, OthersShrink DEF Expire, Cleanup, sessionVars
  <2>. QED  BY <2>1, <2>2, PublishShrinks DEF Next
<1>. QED  BY <1>1, EarlyInvariance, Invariance, PTL DEF Spec

\* A step that a session on a closed queue can take: one of Progress or the end
\* of the notifier.
CanMove(s) ==
    \/ pc[s] \in {"set", "waited", "stopped"}
    \/ pc[s] = "running" /\ running[s] \cap Group = {}
    \/ {"hls", "grab"} \cap running[s] # {}
    \/ "notify" \in running[s] /\ "grab" \notin running[s]

\* The goroutines of a session whose queue is closed do not wait for one another
\* in a circle, and eg.Wait waits for nobody who waits for it: the session can
\* move, or is held up by its source or its converter alone.
LEMMA NeverStuck ==
    ASSUME TypeOK, NEW s \in Seen, Main(s) \in closed
    PROVE  pc[s] = "done" \/ CanMove(s) \/ Held(s)
BY DEF TypeOK, Seen, OnAir, CanMove, Held, Group

=============================================================================
