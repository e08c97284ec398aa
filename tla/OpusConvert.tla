----------------------------- MODULE OpusConvert -----------------------------
(***************************************************************************)
(* opus.Convert: two goroutines around an ffmpeg process.  The feeder      *)
(* writes audio packets to ffmpeg's stdin, the encoder reads PCM from its  *)
(* stdout, and Convert waits for both and then for the process             *)
(* (transcode/opus/opus.go).  ffmpeg and the pipes are external: a pipe    *)
(* holds so much and blocks its writer when full, and ffmpeg makes of a    *)
(* packet of audio some number of units of PCM, none included.  The        *)
(* encoder cuts them anew, into chunks of ChunkLen units (20 ms).          *)
(***************************************************************************)
EXTENDS Integers

CONSTANTS NAudio,          \* audio packets the source may have
          Cap,             \* packets, or units of PCM, a pipe holds
          MaxPcm,          \* units ffmpeg makes of a packet, at most
          ChunkLen         \* units in the encoder's buffer

ASSUME OpusAssumption ==
    NAudio \in Nat /\ Cap \in Nat \ {0} /\ MaxPcm \in Nat /\ ChunkLen \in Nat \ {0}

VARIABLES
    main,        \* Convert itself
    feeder, encoder,       \* its goroutines
    err,         \* whose error was the group's first, if any
    killed,      \* cancel() was called: ffmpeg is to be killed
    left,        \* audio packets the source still has
    stdin, stdinOpen,      \* packets in the pipe; its writing end
    stdout,      \* units in the pipe
    ffmpeg,      \* the process
    held,        \* units inside ffmpeg
    lost,        \* ffmpeg ended with its input or output incomplete
    sbuf,        \* units in the encoder's buffer
    pcm, encoded           \* units ffmpeg has made, units encoded and sent to dest

opusVars == <<main, feeder, encoder, err, killed, left, stdin, stdinOpen,
          stdout, ffmpeg, held, lost, sbuf, pcm, encoded>>
mainVars == <<main, killed>>
feedVars == <<feeder, left, stdinOpen>>
encVars  == <<encoder, sbuf, encoded>>
procVars == <<ffmpeg, held, lost, pcm>>

OpusInit ==
    /\ main = "start" /\ feeder = "none" /\ encoder = "none"
    /\ err = "none" /\ killed = FALSE
    /\ left \in 0..NAudio
    /\ stdin = 0 /\ stdinOpen = TRUE /\ stdout = 0
    /\ ffmpeg = "none" /\ held = 0 /\ lost = FALSE
    /\ sbuf = 0 /\ pcm = 0 /\ encoded = 0

-----------------------------------------------------------------------------
(***************************************************************************)
(* Convert.                                                                *)
(***************************************************************************)

\* No AAC stream, or ffmpeg cannot be started.
Reject ==
    /\ main = "start"
    /\ main' = "returned"
    /\ UNCHANGED <<killed, err, feedVars, encVars, procVars, stdin, stdout>>

\* dest refuses the header: the deferred calls close the pipes and kill ffmpeg,
\* and nobody waits for it.
HeaderFails ==
    /\ main = "start"
    /\ main' = "returned"
    /\ ffmpeg' = "running" /\ killed' = TRUE /\ stdinOpen' = FALSE
    /\ UNCHANGED <<err, feeder, left, encVars, held, lost, pcm, stdin, stdout>>

Start ==
    /\ main = "start"
    /\ main' = "waiting"
    /\ ffmpeg' = "running"
    /\ feeder' = "loop" /\ encoder' = "new"
    /\ UNCHANGED <<killed, err, left, stdinOpen, sbuf, encoded, held, lost, pcm,
                   stdin, stdout>>

\* eg.Wait returns, and cancel is called if either goroutine failed ...
Wait ==
    /\ main = "waiting" /\ feeder = "done" /\ encoder = "done"
    /\ main' = "reaping"
    /\ killed' = (killed \/ err # "none")
    /\ UNCHANGED <<err, feedVars, encVars, procVars, stdin, stdout>>

\* ... then cmd.Wait, and the return.
CmdWait ==
    /\ main = "reaping" /\ ffmpeg = "exited"
    /\ main' = "returned"
    /\ ffmpeg' = "reaped"
    /\ UNCHANGED <<killed, err, feedVars, encVars, held, lost, pcm, stdin, stdout>>

\* A goroutine of the group returns; its first error cancels the context that
\* both loops look at.
Fails(g, failed) == err' = IF failed /\ err = "none" THEN g ELSE err

-----------------------------------------------------------------------------
(***************************************************************************)
(* The feeder.  A write to stdin blocks while the pipe is full and fails   *)
(* once ffmpeg is gone; the deferred Close runs when the goroutine ends.   *)
(***************************************************************************)
FeederEndsOpen(failed) ==              \* without the deferred stdin.Close
    /\ feeder' = "done"
    /\ Fails("feeder", failed)
    /\ UNCHANGED stdinOpen

FeederEnds(failed) ==
    /\ feeder' = "done"
    /\ stdinOpen' = FALSE
    /\ Fails("feeder", failed)

FeedCheck ==
    /\ feeder = "loop"
    /\ \/ err # "none" /\ FeederEnds(FALSE)
       \/ err = "none" /\ feeder' = "reading" /\ UNCHANGED <<stdinOpen, err>>
    /\ UNCHANGED <<mainVars, encVars, procVars, left, stdin, stdout>>

\* A packet of video goes straight to dest; one of audio is to be written; or
\* the source ends, or it or dest fails.
FeedRead ==
    /\ feeder = "reading"
    /\ \/ /\ left > 0
          /\ left' = left - 1 /\ feeder' = "writing"
          /\ UNCHANGED <<stdinOpen, err>>
       \/ /\ feeder' = "loop"
          /\ UNCHANGED <<left, stdinOpen, err>>
       \/ left = 0 /\ FeederEnds(FALSE) /\ UNCHANGED left
       \/ FeederEnds(TRUE) /\ UNCHANGED left
    /\ UNCHANGED <<mainVars, encVars, procVars, stdin, stdout>>

FeedWrite ==
    /\ feeder = "writing"
    /\ \/ /\ ffmpeg = "running" /\ stdin < Cap
          /\ stdin' = stdin + 1 /\ feeder' = "loop"
          /\ UNCHANGED <<stdinOpen, err>>
       \/ /\ ffmpeg = "exited"
          /\ FeederEnds(TRUE)
          /\ UNCHANGED stdin
    /\ UNCHANGED <<mainVars, encVars, procVars, left, stdout>>

-----------------------------------------------------------------------------
(***************************************************************************)
(* The encoder.  ReadFull blocks until its buffer is full or ffmpeg has    *)
(* gone; it does not look at the context.                                  *)
(***************************************************************************)
EncoderEnds(failed) ==
    /\ encoder' = "done"
    /\ Fails("encoder", failed)

NewEncoder ==
    /\ encoder = "new"
    /\ \/ encoder' = "loop" /\ UNCHANGED err
       \/ EncoderEnds(TRUE)
    /\ UNCHANGED <<mainVars, feedVars, procVars, sbuf, encoded, stdin, stdout>>

EncCheck ==
    /\ encoder = "loop"
    /\ encoder' = IF err # "none" THEN "done" ELSE "reading"
    /\ UNCHANGED <<mainVars, feedVars, procVars, sbuf, encoded, err, stdin, stdout>>

EncReadEager ==                     \* done as soon as stdout is empty
    /\ encoder = "reading"
    /\ \/ /\ stdout > 0
          /\ stdout' = stdout - 1 /\ sbuf' = sbuf + 1
          /\ encoder' = IF sbuf' = ChunkLen THEN "encoding" ELSE "reading"
       \/ /\ stdout = 0
          /\ encoder' = "done"
          /\ UNCHANGED <<stdout, sbuf>>
    /\ UNCHANGED <<mainVars, feedVars, procVars, encoded, err, stdin>>

\* ReadFull takes what is there until the buffer is full.  At the end of stdout
\* the goroutine is done, without an error: io.EOF, or io.ErrUnexpectedEOF when
\* the buffer holds part of a chunk, which is dropped.
EncRead ==
    /\ encoder = "reading"
    /\ \/ /\ stdout > 0
          /\ stdout' = stdout - 1 /\ sbuf' = sbuf + 1
          /\ encoder' = IF sbuf' = ChunkLen THEN "encoding" ELSE "reading"
       \/ /\ stdout = 0 /\ ffmpeg = "exited"
          /\ encoder' = "done"
          /\ UNCHANGED <<stdout, sbuf>>
    /\ UNCHANGED <<mainVars, feedVars, procVars, encoded, err, stdin>>

\* ... or reading fails in another way.
EncReadFails ==
    /\ encoder = "reading"
    /\ EncoderEnds(TRUE)
    /\ UNCHANGED <<mainVars, feedVars, procVars, sbuf, encoded, stdin, stdout>>

Encode ==
    /\ encoder = "encoding"
    /\ \/ /\ encoder' = "loop"
          /\ encoded' = encoded + ChunkLen /\ sbuf' = 0
          /\ UNCHANGED err
       \/ EncoderEnds(TRUE) /\ UNCHANGED <<sbuf, encoded>>
    /\ UNCHANGED <<mainVars, feedVars, procVars, stdin, stdout>>

-----------------------------------------------------------------------------
(***************************************************************************)
(* ffmpeg.                                                                 *)
(***************************************************************************)
Decode ==
    /\ ffmpeg = "running"
    /\ \/ /\ stdin > 0 /\ held = 0
          /\ stdin' = stdin - 1
          /\ \E n \in 0..MaxPcm : held' = n /\ pcm' = pcm + n
          /\ UNCHANGED stdout
       \/ /\ held > 0 /\ stdout < Cap
          /\ held' = held - 1 /\ stdout' = stdout + 1
          /\ UNCHANGED <<stdin, pcm>>
    /\ UNCHANGED <<mainVars, feedVars, encVars, ffmpeg, lost, err>>

Finish ==
    /\ ffmpeg = "running" /\ ~stdinOpen /\ stdin = 0 /\ held = 0
    /\ ffmpeg' = "exited"
    /\ UNCHANGED <<mainVars, feedVars, encVars, held, lost, pcm, err, stdin, stdout>>

Abort ==
    /\ ffmpeg = "running"
    /\ ffmpeg' = "exited" /\ lost' = TRUE
    /\ UNCHANGED <<mainVars, feedVars, encVars, held, pcm, err, stdin, stdout>>

Kill == killed /\ Abort

Process == Decode \/ Finish \/ Abort
Feeder  == FeedCheck \/ FeedRead \/ FeedWrite
Encoder == NewEncoder \/ EncCheck \/ EncRead \/ Encode

OpusNext ==
    \/ Reject \/ HeaderFails \/ Start \/ Wait \/ CmdWait
    \/ Feeder \/ Encoder \/ EncReadFails \/ Process

OpusSpec == OpusInit /\ [][OpusNext]_opusVars

(***************************************************************************)
(* Everybody runs, ffmpeg dies when killed, and the source gives a packet, *)
(* its end or an error, and not video alone for ever.                      *)
(***************************************************************************)
OpusFairness ==
    /\ WF_opusVars(Start \/ HeaderFails \/ Reject) /\ WF_opusVars(Wait) /\ WF_opusVars(CmdWait)
    /\ WF_opusVars(Feeder) /\ SF_opusVars(FeedRead /\ feeder' # "loop")
    /\ WF_opusVars(Encoder)
    /\ WF_opusVars(Decode) /\ WF_opusVars(Finish) /\ WF_opusVars(Kill)

OpusFairSpec == OpusSpec /\ OpusFairness

-----------------------------------------------------------------------------
\* When Convert returns without an error of its own and ffmpeg came to its end
\* by itself, all the source's audio went through ffmpeg, and all the PCM made of
\* it has been encoded and sent but a rest shorter than one chunk, which ReadFull
\* drops: stdout is drained before cmd.Wait closes it.
NothingLost ==
    (main = "returned" /\ ffmpeg = "reaped" /\ err = "none" /\ ~lost)
       => left = 0 /\ stdin = 0 /\ pcm - encoded \in 0..(ChunkLen - 1)

\* Convert returns, if its source does not hang: whether it ends, the feeder
\* fails or ffmpeg dies, unless the encoder is the first to fail (see StoppedAndWaited).
ConvertReturns == <>(main = "returned" \/ err = "encoder")

\* "ensure ffmpeg is stopped and waited on": after an error of either goroutine
\* the process is reaped.
StoppedAndWaited == (err # "none") ~> (ffmpeg = "reaped")

=============================================================================
