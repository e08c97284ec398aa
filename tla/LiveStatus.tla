----------------------------- MODULE LiveStatus ------------------------------
(***************************************************************************)
(* What the rest of the program is told of a channel: the frame grabber    *)
(* hands thumbnails to the session's notifier through a channel of         *)
(* capacity one, the notifier broadcasts them and stores ch.rtc, and every *)
(* session announces its end (ingest/publish.go, sinks/grabber,            *)
(* web/events.go).  The actions of Channel are joined with their effect on *)
(* that state.                                                             *)
(***************************************************************************)
EXTENDS Channel

VARIABLES grabch,      \* sessions with a thumbnail waiting in grabch
          thumb,       \* sessions whose notifier has announced a thumbnail
                       \*   and not stored its rtc flag yet
          rtc,         \* ch.rtc: the session whose thumbnail decided it
          announced    \* live flag of the last broadcast about the channel

statusVars == <<grabch, thumb, rtc, announced>>
liveVars   == <<vars, statusVars>>

StatusInit ==
    /\ Init
    /\ grabch = {} /\ thumb = {} /\ rtc = None /\ announced = FALSE

\* Grab has read a thumbnail's worth of packets, which come only once
\* copyStream runs.  The send does not block: a result that finds grabch full
\* is dropped.
GrabThumb(s) ==
    /\ "grab" \in running[s] /\ pc[s] = "running"
    /\ grabch' = grabch \cup {s}
    /\ UNCHANGED <<vars, thumb, rtc, announced>>

NotifySilently(s) ==                \* without PublishEvent(auth, true, thumb)
    /\ "notify" \in running[s] /\ s \in grabch \ thumb
    /\ grabch' = grabch \ {s}
    /\ thumb' = thumb \cup {s}
    /\ UNCHANGED <<vars, rtc, announced>>

\* for thumb := range grabch: PublishEvent(auth, true, thumb), which for a
\* thumbnail is a broadcast ...
Notify(s) ==
    /\ "notify" \in running[s] /\ s \in grabch \ thumb
    /\ grabch' = grabch \ {s}
    /\ thumb' = thumb \cup {s}
    /\ announced' = TRUE
    /\ UNCHANGED <<vars, rtc>>

\* ... then the store to ch.rtc.
StoreRTC(s) ==
    /\ s \in thumb
    /\ thumb' = thumb \ {s}
    /\ rtc' = s
    /\ UNCHANGED <<vars, grabch, announced>>

UndrainedNotifyEnd(s) ==            \* a select on ctx.Done instead of the range
    /\ NotifyEnd(s)
    /\ UNCHANGED statusVars

\* The range loop ends when grabch is closed and empty.
DrainedNotifyEnd(s) ==
    /\ s \notin grabch \cup thumb
    /\ NotifyEnd(s)
    /\ UNCHANGED statusVars

\* PublishEvent(auth, false, ...), sent by every session that was on the air,
\* superseded or not.
BroadcastStop(s) ==
    /\ AnnounceStop(s)
    /\ announced' = FALSE
    /\ UNCHANGED <<grabch, thumb, rtc>>

\* The announcement made by StartOutputs has no thumbnail and goes to the
\* webhook alone, so like the other steps it leaves this state as it is.
SilentStep(s) ==
    /\ \/ Refuse(s) \/ Open(s) \/ SetStream(s) \/ StartOutputs(s)
       \/ Wait(s) \/ StopStream(s)
       \/ HlsEnd(s) \/ HlsFail(s) \/ GrabEnd(s)
       \/ CopyStream(s) \/ ConvertOpus(s) \/ CloseOnDone(s)
    /\ UNCHANGED statusVars

StatusNext ==
    \/ \E s \in Session :
          \/ GrabThumb(s) \/ Notify(s) \/ StoreRTC(s)
          \/ DrainedNotifyEnd(s) \/ BroadcastStop(s) \/ SilentStep(s)
    \/ (Expire \/ Cleanup) /\ UNCHANGED statusVars

StatusSpec == StatusInit /\ [][StatusNext]_liveVars

(***************************************************************************)
(* The fairness of Channel, and: the notifier takes the thumbnails it is   *)
(* offered, and an open stream completes one now and then (a key frame     *)
(* every so often).                                                        *)
(***************************************************************************)
StatusFairness ==
    \A s \in Session :
       /\ WF_liveVars(\/ Progress(s) /\ UNCHANGED statusVars
                     \/ DrainedNotifyEnd(s) \/ BroadcastStop(s))
       /\ WF_liveVars(Notify(s) \/ StoreRTC(s))
       /\ WF_liveVars(Main(s) \notin closed /\ GrabThumb(s))

StatusFairSpec == StatusSpec /\ StatusFairness

-----------------------------------------------------------------------------
\* A notifier that has returned has handled every thumbnail of its session, so
\* no "live" broadcast of a session follows its "stopped" broadcast, and its
\* store to ch.rtc does not outlive it either.
NoNewsAfterStop ==
    \A s \in Session : pc[s] \in {"waited", "stopped", "done"} =>
       s \notin grabch \cup thumb

\* What clients were last told settles to the truth.  On the air, the thumbnails
\* of the stream, as long as it brings key frames, correct the late "stopped"
\* notice of a superseded session and its late store to ch.rtc; off the air, the
\* last "stopped" notice does.  A session held up by its source or its converter
\* gets no further thumbnail through, and has not sent its notice.
StatusConverges ==
    <>[](/\ \A s \in Session : ingest = Main(s) /\ ~Held(s) => announced /\ rtc = s
         /\ ~live /\ (\A s \in Session : ~Held(s)) => ~announced)

=============================================================================
