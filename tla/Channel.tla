------------------------------- MODULE Channel -------------------------------
(***************************************************************************)
(* One channel of ingest.Manager: the Publish calls that feed it, with the *)
(* goroutines each of them starts, the channel entry they share, and the   *)
(* HLS publisher that outlives them with its reaper (ingest/publish.go).   *)
(* HlsOutput adds what the publisher is given, Viewers the clients that     *)
(* read the queues, LiveStatus what clients are told of the channel.        *)
(*                                                                         *)
(* A session is one call of Publish.  Channels of different names share    *)
(* nothing but the sync.Map that holds them, so one channel is modelled.   *)
(* The sections under ch.mu and the operations of a queue are atomic;      *)
(* everything else interleaves.                                            *)
(***************************************************************************)
EXTENDS Integers, FiniteSets

CONSTANTS Session,           \* calls of Publish that may happen
          None               \* a nil pointer

Queue == Session \X {"main", "opus"}

ASSUME ChannelAssumption ==
    /\ None \notin Session
    /\ None \notin Queue

VARIABLES
    \* type channel
    ingest, aac, opus, hls, stoppedAt, live,
    \* one Publish call: where it is, its goroutines, its queues
    pc,          \* progress of the call itself
    running,     \* goroutines that have not returned
    transcode,   \* sessions whose audio goes through convertOpus
    ctxDone,     \* sessions whose errgroup context is cancelled
    closed,      \* queues on which Close was called
    pub,         \* the *hls.Publisher that setStream returned
    closedHls    \* HLS publishers closed by cleanup

entryVars   == <<ingest, aac, opus, hls, stoppedAt, live>>
sessionVars == <<pc, running, transcode, ctxDone, closed, pub>>
vars == <<entryVars, sessionVars, closedHls>>

(***************************************************************************)
(* The goroutines of a session.  Publish waits for those of the errgroup;  *)
(* the frame grabber is on its own.  An HLS publisher is named after the   *)
(* session whose setStream created it.                                     *)
(***************************************************************************)
Group == {"hls", "notify", "copy", "conv"}

Main(s) == <<s, "main">>
Opus(s) == <<s, IF s \in transcode THEN "opus" ELSE "main">>

\* The session has put its stream on the channel and has not withdrawn it.
OnAir == {"set", "running", "waited"}

TypeOK ==
    /\ ingest \in Queue \cup {None}
    /\ aac \in Queue \cup {None}
    /\ opus \in Queue \cup {None}
    /\ hls \in Session \cup {None}
    /\ stoppedAt \in {"zero", "recent", "expired"}
    /\ live \in BOOLEAN
    /\ pc \in [Session -> OnAir \cup
                 {"idle", "refused", "opened", "stopped", "done"}]
    /\ running \in [Session -> SUBSET (Group \cup {"grab"})]
    /\ transcode \subseteq Session
    /\ ctxDone \subseteq Session
    /\ closed \subseteq Queue
    /\ pub \in [Session -> Session \cup {None}]
    /\ closedHls \subseteq Session

Init ==
    /\ ingest = None /\ aac = None /\ opus = None
    /\ hls = None /\ stoppedAt = "zero" /\ live = FALSE
    /\ pc = [s \in Session |-> "idle"]
    /\ running = [s \in Session |-> {}]
    /\ transcode = {} /\ ctxDone = {} /\ closed = {}
    /\ pub = [s \in Session |-> None]
    /\ closedHls = {}

-----------------------------------------------------------------------------
(***************************************************************************)
(* The Publish call.                                                       *)
(***************************************************************************)

\* src.Streams fails, or grabber.Grab finds no H.264 stream: Publish returns
\* before anything is shared.
Refuse(s) ==
    /\ pc[s] = "idle"
    /\ pc' = [pc EXCEPT ![s] = "refused"]
    /\ UNCHANGED <<running, transcode, ctxDone, closed, pub>>
    /\ UNCHANGED <<entryVars, closedHls>>

\* The queue is made, the grabber starts, and unless the audio is Opus or
\* absent (audioType) so does the converter, all before the channel is live.
Open(s) ==
    /\ pc[s] = "idle"
    /\ pc' = [pc EXCEPT ![s] = "opened"]
    /\ \/ /\ running' = [running EXCEPT ![s] = {"grab"}]
          /\ UNCHANGED transcode
       \/ /\ running' = [running EXCEPT ![s] = {"grab", "conv"}]
          /\ transcode' = transcode \cup {s}
    /\ UNCHANGED <<ctxDone, closed, pub>>
    /\ UNCHANGED <<entryVars, closedHls>>

SetStreamKeepingOld(s) ==           \* without ch.ingest.Close()
    /\ pc[s] = "opened"
    /\ pc' = [pc EXCEPT ![s] = "set"]
    /\ ingest' = Main(s) /\ aac' = Main(s) /\ opus' = Opus(s)
    /\ hls' = IF hls # None THEN hls ELSE s
    /\ pub' = [pub EXCEPT ![s] = hls']
    /\ stoppedAt' = "zero" /\ live' = TRUE
    /\ UNCHANGED <<running, transcode, ctxDone, closed, closedHls>>

SetStreamKeepingStoppedAt(s) ==     \* without ch.stoppedAt = time.Time{}
    /\ pc[s] = "opened"
    /\ pc' = [pc EXCEPT ![s] = "set"]
    /\ closed' = IF ingest # None THEN closed \cup {ingest} ELSE closed
    /\ ingest' = Main(s) /\ aac' = Main(s) /\ opus' = Opus(s)
    /\ hls' = IF hls # None THEN hls ELSE s
    /\ pub' = [pub EXCEPT ![s] = hls']
    /\ live' = TRUE
    /\ UNCHANGED <<stoppedAt, running, transcode, ctxDone, closedHls>>

\* setStream, under ch.mu: the stream that was on the channel is closed, the
\* new one takes its place, and the HLS publisher is reused if there is one.
\* LoadOrStore comes first; entries are never deleted from the sync.Map, so a
\* channel that is not in it yet is one whose fields are all zero.
SetStream(s) ==
    /\ pc[s] = "opened"
    /\ pc' = [pc EXCEPT ![s] = "set"]
    /\ closed' = IF ingest # None THEN closed \cup {ingest} ELSE closed
    /\ ingest' = Main(s)
    /\ aac' = Main(s)
    /\ opus' = Opus(s)
    /\ hls' = IF hls # None THEN hls ELSE s
    /\ pub' = [pub EXCEPT ![s] = hls']
    /\ stoppedAt' = "zero"
    /\ live' = TRUE
    /\ UNCHANGED <<running, transcode, ctxDone, closedHls>>

\* The go-live notice only invokes the webhook; then the outputs start.
StartOutputs(s) ==
    /\ pc[s] = "set"
    /\ pc' = [pc EXCEPT ![s] = "running"]
    /\ running' = [running EXCEPT ![s] = @ \cup {"hls", "notify", "copy"}]
    /\ UNCHANGED <<transcode, ctxDone, closed, pub>>
    /\ UNCHANGED <<entryVars, closedHls>>

\* eg.Wait: every goroutine of the group has returned; the context is
\* cancelled whether one of them failed or not.
Wait(s) ==
    /\ pc[s] = "running"
    /\ running[s] \cap Group = {}
    /\ pc' = [pc EXCEPT ![s] = "waited"]
    /\ ctxDone' = ctxDone \cup {s}
    /\ UNCHANGED <<running, transcode, closed, pub>>
    /\ UNCHANGED <<entryVars, closedHls>>

StopStreamKeepingQueues(s) ==       \* without the reset of ch.aac and ch.opus
    /\ pc[s] = "waited"
    /\ pc' = [pc EXCEPT ![s] = "stopped"]
    /\ IF ingest = Main(s)
       THEN live' = FALSE /\ ingest' = None /\ stoppedAt' = "recent"
       ELSE UNCHANGED <<live, ingest, stoppedAt>>
    /\ UNCHANGED <<aac, opus, hls>>
    /\ UNCHANGED <<running, transcode, ctxDone, closed, pub, closedHls>>

StopStreamUntimed(s) ==             \* without ch.stoppedAt = time.Now()
    /\ pc[s] = "waited"
    /\ pc' = [pc EXCEPT ![s] = "stopped"]
    /\ IF ingest = Main(s)
       THEN live' = FALSE /\ ingest' = None /\ aac' = None /\ opus' = None
       ELSE UNCHANGED <<live, ingest, aac, opus>>
    /\ UNCHANGED <<hls, stoppedAt>>
    /\ UNCHANGED <<running, transcode, ctxDone, closed, pub, closedHls>>

\* stopStream, under ch.mu: only the session that still owns the channel
\* takes it off the air.
StopStream(s) ==
    /\ pc[s] = "waited"
    /\ pc' = [pc EXCEPT ![s] = "stopped"]
    /\ \/ /\ ingest # Main(s)
          /\ UNCHANGED entryVars
       \/ /\ ingest = Main(s)
          /\ live' = FALSE
          /\ ingest' = None /\ aac' = None /\ opus' = None
          /\ stoppedAt' = "recent"
          /\ UNCHANGED <<hls>>
    /\ UNCHANGED <<running, transcode, ctxDone, closed, pub>>
    /\ UNCHANGED closedHls

\* The deferred PublishEvent(auth, false, ...), and the return.
AnnounceStop(s) ==
    /\ pc[s] = "stopped"
    /\ pc' = [pc EXCEPT ![s] = "done"]
    /\ UNCHANGED <<running, transcode, ctxDone, closed, pub>>
    /\ UNCHANGED <<entryVars, closedHls>>

-----------------------------------------------------------------------------
(***************************************************************************)
(* The goroutines of a session.                                            *)
(***************************************************************************)

\* Goroutine g returns; the first error cancels the group's context.
Return(s, g, failed) ==
    /\ running' = [running EXCEPT ![s] = @ \ {g}]
    /\ ctxDone' = IF failed THEN ctxDone \cup {s} ELSE ctxDone

\* avutil.CopyFile(p, q.Latest()) reaches the end of the queue.
HlsEnd(s) ==
    /\ "hls" \in running[s] /\ Main(s) \in closed
    /\ Return(s, "hls", FALSE)
    /\ UNCHANGED <<pc, transcode, closed, pub>>
    /\ UNCHANGED <<entryVars, closedHls>>

\* The same copy, ended by an error of the publisher.
HlsFail(s) ==
    /\ "hls" \in running[s]
    /\ Return(s, "hls", TRUE)
    /\ UNCHANGED <<pc, transcode, closed, pub>>
    /\ UNCHANGED <<entryVars, closedHls>>

GrabEndLeavingOpen(s) ==            \* without defer close(grabch)
    /\ "grab" \in running[s] /\ Main(s) \in closed
    /\ UNCHANGED vars

\* The frame grabber reads the end of the queue and closes grabch.
GrabEnd(s) ==
    /\ "grab" \in running[s] /\ Main(s) \in closed
    /\ running' = [running EXCEPT ![s] = @ \ {"grab"}]
    /\ UNCHANGED <<pc, transcode, ctxDone, closed, pub>>
    /\ UNCHANGED <<entryVars, closedHls>>

\* The range over grabch ends once it is closed.
NotifyEnd(s) ==
    /\ "notify" \in running[s] /\ "grab" \notin running[s]
    /\ Return(s, "notify", FALSE)
    /\ UNCHANGED <<pc, transcode, closed, pub>>
    /\ UNCHANGED <<entryVars, closedHls>>

\* copyStream ends with its source, or with the first error of a read or of a
\* write to the queue; the deferred Close ends the queue.  The packets it
\* copies until then are what the readers' actions may find.
CopyStream(s) ==
    /\ "copy" \in running[s]
    /\ \E failed \in BOOLEAN : Return(s, "copy", failed)
    /\ closed' = closed \cup {Main(s)}
    /\ UNCHANGED <<pc, transcode, pub>>
    /\ UNCHANGED <<entryVars, closedHls>>

ConvertOpusLeavingOpen(s) ==        \* without defer ret.Close()
    /\ "conv" \in running[s]
    /\ \E failed \in BOOLEAN :
          (failed \/ Main(s) \in closed) /\ Return(s, "conv", failed)
    /\ UNCHANGED <<pc, transcode, closed, pub, entryVars, closedHls>>

\* convertOpus: opus.Convert may end once its input has, or fail at any time, or
\* not return at all; the deferred Close ends its output queue.
ConvertOpus(s) ==
    /\ "conv" \in running[s]
    /\ \E failed \in BOOLEAN :
          /\ failed \/ Main(s) \in closed
          /\ Return(s, "conv", failed)
    /\ closed' = closed \cup {<<s, "opus">>}
    /\ UNCHANGED <<pc, transcode, pub>>
    /\ UNCHANGED <<entryVars, closedHls>>

\* The goroutine that waits for the group's context and closes the queue.
CloseOnDone(s) ==
    /\ s \in ctxDone /\ Main(s) \notin closed
    /\ closed' = closed \cup {Main(s)}
    /\ UNCHANGED <<pc, running, transcode, ctxDone, pub>>
    /\ UNCHANGED <<entryVars, closedHls>>

-----------------------------------------------------------------------------
(***************************************************************************)
(* The reaper: main calls Manager.Cleanup on a ticker.                     *)
(***************************************************************************)

\* More than hlsExpiry has passed since stoppedAt.
Expire ==
    /\ stoppedAt = "recent"
    /\ stoppedAt' = "expired"
    /\ UNCHANGED <<ingest, aac, opus, hls, live>>
    /\ UNCHANGED <<sessionVars, closedHls>>

Cleanup ==
    /\ hls # None /\ stoppedAt = "expired"
    /\ closedHls' = closedHls \cup {hls}
    /\ hls' = None
    /\ UNCHANGED <<ingest, aac, opus, stoppedAt, live>>
    /\ UNCHANGED <<sessionVars>>

-----------------------------------------------------------------------------
PublishStep(s) ==
    \/ Refuse(s) \/ Open(s) \/ SetStream(s)
    \/ StartOutputs(s) \/ Wait(s) \/ StopStream(s) \/ AnnounceStop(s)

TaskStep(s) ==
    \/ HlsEnd(s) \/ HlsFail(s) \/ GrabEnd(s) \/ NotifyEnd(s)
    \/ CopyStream(s) \/ ConvertOpus(s) \/ CloseOnDone(s)

Next ==
    \/ \E s \in Session : PublishStep(s) \/ TaskStep(s)
    \/ Expire \/ Cleanup

Spec == Init /\ [][Next]_vars

(***************************************************************************)
(* A session that can move moves.  Each step of Progress happens at most   *)
(* once in a session, so this asks no more of the scheduler than that it   *)
(* never leaves all goroutines of a session idle.  Readers of a closed     *)
(* queue reach its end.  Nobody has to start a session or to fail, and     *)
(* neither the source nor opus.Convert has to come to an end: a connection *)
(* that falls silent keeps copyStream in ReadPacket, and Convert may hang  *)
(* after an error of its encoder.                                          *)
(***************************************************************************)
Progress(s) ==
    \/ SetStream(s) \/ StartOutputs(s) \/ Wait(s) \/ StopStream(s)
    \/ HlsEnd(s) \/ GrabEnd(s) \/ CloseOnDone(s)

Fairness ==
    /\ \A s \in Session : WF_vars(Progress(s) \/ NotifyEnd(s) \/ AnnounceStop(s))
    /\ WF_vars(Expire)
    /\ WF_vars(Cleanup)

FairSpec == Spec /\ Fairness

-----------------------------------------------------------------------------
(***************************************************************************)
(* Safety.                                                                 *)
(***************************************************************************)

\* The session whose queue is ch.ingest is still inside Publish between
\* setStream and stopStream, and the rest of the entry is its own: no ended
\* stream stays on the channel, however takeovers and failures interleave.
OwnerInFlight ==
    /\ live <=> ingest # None
    /\ ingest = None => aac = None /\ opus = None
    /\ \A s \in Session : ingest = Main(s) =>
          /\ pc[s] \in OnAir
          /\ aac = Main(s) /\ opus = Opus(s)

\* The stream on the air writes to the publisher that ServeHLS hands out, and
\* that publisher is open: cleanup never closes it under a restarted stream.
LiveStreamHasHls ==
    \A s \in Session : ingest = Main(s) =>
       /\ hls # None /\ pub[s] = hls
       /\ hls \notin closedHls

\* Once eg.Wait has returned, and whatever ended the session, both of its
\* queues are closed: whoever still reads one gets to its end.
EndedQueuesClosed ==
    \A s \in Session : pc[s] \in {"waited", "stopped", "done"} =>
       Main(s) \in closed /\ Opus(s) \in closed

\* The channel goes off the air only when the session on it has closed its
\* queue and every output of it has returned, never because of an earlier
\* session that ends late.
OffAirOnlyWhenEnded ==
    [][live /\ ~live' =>
         \E s \in Session : /\ ingest = Main(s)
                            /\ running[s] \cap Group = {}
                            /\ Main(s) \in closed]_vars

-----------------------------------------------------------------------------
(***************************************************************************)
(* Channel implements ChannelSlot.                                         *)
(***************************************************************************)
Seen == {s \in Session : pc[s] \in OnAir \cup {"stopped", "done"}}

Slot == INSTANCE ChannelSlot WITH
           owner <- IF ingest = None THEN None ELSE ingest[1],
           seen  <- Seen,
           open  <- {s \in Seen : Main(s) \notin closed}

\* One session at a time: setStream cuts the session it supersedes off in the
\* step that replaces it, no ended session comes back, and the holder lets go
\* only after its own queue is closed.
ImplementsSlot == Slot!Spec

-----------------------------------------------------------------------------
(***************************************************************************)
(* Liveness.                                                               *)
(***************************************************************************)

\* eg.Wait waits for copyStream or convertOpus and for nobody else.
Held(s) ==
    /\ pc[s] = "running"
    /\ running[s] # {} /\ running[s] \subseteq {"copy", "conv"}

\* A session whose queue is closed, because it was superseded or because one
\* of its outputs failed, comes to an end, unless its source or its converter
\* never returns; even then all its other goroutines do.
ClosedSessionEnds ==
    \A s \in Session :
       (pc[s] \in OnAir /\ Main(s) \in closed) ~> (pc[s] = "done" \/ []Held(s))

Ended == \A s \in Session : pc[s] \in {"idle", "refused", "done"}

\* A channel that stays off the air gives its HLS publisher back.
HlsReleased == (<>[]Ended) => <>[](hls = None)

=============================================================================
