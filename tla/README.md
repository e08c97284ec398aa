# A TLA+ model of gunk

gunk is a small live-streaming server. Broadcasters send video over RTMP or FTL;
the server keeps one *channel* per name, turns AAC audio into Opus with ffmpeg,
and serves the stream as HLS, MPEG-TS, RTSP and WebRTC. Browsers learn over a
websocket which channels are on the air.

This directory models the concurrent parts of the program: what its goroutines
share, in which orders they may act, and what stays true in all of them. The
modules are translated from the Go source; `PROJECT.json` maps every definition
to its lines.

## The system

| Part | State | Operations | What makes it hard |
|---|---|---|---|
| Channel entry and publishing (`ingest/publish.go`, `manager.go`) | `ingest`, `aac`, `opus`, `hls`, `stoppedAt`, `live` of a channel; per `Publish` call its queues, goroutines and errgroup | `Publish`, `setStream`, `stopStream`, `copyStream`, `convertOpus`, `cleanup` | a second broadcaster takes the channel over while the first is still winding down; any output may fail; the reaper runs on a ticker |
| HLS output (`publish.go`) | the shared `hls.Publisher` | `CopyFile`, `Discontinuity`, `Close` | it outlives the sessions that write to it |
| Viewers (`ingest/play.go`, `manager.go`) | `ch.viewers`, the queue each request holds; the table `hlsv` and `hlsvTotal` | `ServeTS`, `ServeSDP`, `addViewer`; `ServeHLS`, `hlsViewed`, `countHLSViewers` | a request outlives the session whose queue it reads; two notifiers count and delete while hosts ask |
| Live status (`publish.go`, `sinks/grabber`, `web/events.go`) | `grabch`, `ch.rtc`, the last broadcast | the grabber's send, the notifier, the deferred stop notice | notices of overlapping sessions cross |
| RTP clocks (`ingest/ftl/deframing.go`, `internal/math.go`, `sinks/rtsp/framing.go`) | `baseTS`, `lastTS`, the framer's `ts` | `Deframe`, `FromTS`, `ToTS`, `delta` | 32-bit wraps, reordered packets, truncation |
| H.264 depacketizer (`ingest/ftl/deframing.go`, `rtp.go`) | `fbuf`, `sps`, `pps`, the reader's `saved` units | `ParseFrame`, `readPacket` | fragments and aggregates over a network that loses and reorders |
| Opus transcoder (`transcode/opus/opus.go`) | two goroutines, two pipes, a process | `Convert` | bounded pipes that block; errors on each side |
| FTL ingest (`ingest/ftl`) | per connection its command state, context and publishing goroutine; the server's `receivers` | one handler per command, `addReceiver`, `delReceiver`, `serveRTP` | reconnects that share keys; a deadline that must hold against a busy client |
| Websocket fan-out (`web/ws.go`, `events.go`) | `listeners`, a channel per client | `Broadcast`, `sendLoop`, `drainLoop` | overflow, disconnects and broadcasts at the same moment |
| Frame grabber (`sinks/grabber`) | `buf`, `keyTime`, `lastBframe`, `grabch` | the loop of `Grab` | a picture is several packets, and its end shows only with the next one |
| RTSP playback (`sinks/rtsp`) | per connection `tracks`, `destAddr`, its context; a goroutine per PLAY | `DESCRIBE`, `SETUP`, `PLAY`, `TEARDOWN`, the sender's loop | requests in any order, and `tracks` replaced under a running sender without a lock |
| WebRTC playback (`sinks/playrtc`) | the payload type; the channel of ICE states | `chooseCodec`, `HandleSDP`, `setupTracks`, `serve` | reports that wait for a place in the channel, or overtake each other |
| Accounts (`web/oauth.go`, `discord_api.go`, `secrets.go`, `channel_def.go`, `model/`) | cookies of a browser, tables `users` and `channel_defs`, tokens at Discord | login, callback, `lookupUser`, `SetUser`, the requests on definitions, `doWebhook` | tabs and browsers overlap; a token is refreshed and stored in separate steps |
| RTMP ingest (`ingest/irtmp`) | | `handlePublish` | as a caller of `Publish` only: the protocol is a library's |
| HTTP front end, UI | | | not modelled: no shared state |

FTL and RTMP call `Publish`; `Publish` feeds the HLS publisher, the converter
and the grabber; viewers read the queues it leaves in the channel entry; its
notifier drives the websocket fan-out and, when a stream starts, the webhook, which
uses the token that the owner's login stored; the clocks sit at both ends of the path.
The hazards that follow from this are listed in `PROJECT.json` with the line
where each bites and the properties that cover it.

## Modules

**Channel** is the core. A *session* is one call of `Publish`; its variable `pc`
follows the call (`opened`, `set` after `setStream`, `running`, `waited` after
`eg.Wait`, `stopped`, `done`), `running` holds its live goroutines, `closed` the
queues on which `Close` was called. `SetStream`, `StopStream` and `Cleanup` are
single steps because the code holds `ch.mu` throughout. Time since `stoppedAt` is
`zero`, `recent` or `expired`. Packets are left out here: a reader either still
runs or has reached the end of a closed queue. One channel is modelled, since
channels share nothing but the map that holds them.

**ChannelSlot** is the abstract specification: a slot held by one session at a
time, taken over in one step that cuts the previous holder off, given up only by
its holder after its stream ended. `Channel` implements it (`ImplementsSlot`):
the owner is the session of `ch.ingest`, and a session is open while its queue is.

**HlsOutput**, **Viewers** and **LiveStatus** extend `Channel` with one more
part each and join its actions with their effect on it: whose packets follow the
last discontinuity; the requests that hold a queue, and their count; the
thumbnail in `grabch`, `ch.rtc` and the last broadcast. A viewer that is counted
may stall, in a write to a client that does not read, and go on or leave later:
the HTTP server has no write timeout.

**RtpTime** follows a packet's timestamp from the sender through `Deframe`,
`FromTS`, `ToTS` and `delta` to the outgoing track. `W` is 2^32. The histories
`sent`, `cur`, `first`, `start` and `reordered` say what the sender meant.
`uint64` values are plain integers: their own overflow is beyond the bounds.

**H264** takes units apart into pieces, sends them single, aggregated or in
fragments through a network that loses, reorders and duplicates packets, and puts
them together with `ParseFrame` and `readPacket`. `last` gives `Deframer.lastSeq`;
`gap` and `streak` are histories of what arrived in order. A parameter set that
was put together from fragments lies in the memory of `fbuf`, which the next
fragmented unit overwrites; the model has that step (`Kept`). The sender keeps
to the RTP payload format, and its packets fit the 1500-byte buffer.

**OpusConvert** has `Convert`, its feeder, its encoder and ffmpeg. ffmpeg makes up
to `MaxPcm` units of PCM of a packet, whose length is not that of the encoder's
chunk of 20 ms, `ChunkLen` units, which `io.ReadFull` gathers in `sbuf`. A pipe
holds `Cap` packets or units and blocks its writer when full. At the end of the
stream the units that do not fill a chunk are dropped, as in the code. `err`
records whose error was the errgroup's first, which cancels the context that both
loops look at between two operations.

**Ftl** has one action per command, the publishing goroutine, and the UDP loop,
which looks up a receiver under the lock (`Lookup`) and sends to it afterwards
(`Send`). Pings and sender reports, which the same loop answers or skips, change
no state and are left out. A line that is refused is `Drop`. `newest` is a history: who registered
a key last.

**Websockets** numbers the messages in the order in which `Broadcast` takes the
mutex. A message is one of these or the list a new client is sent, which tells
what was broadcast before it. Who broadcasts, and whether the notices of two
sessions cross on the way to the mutex, is left to `LiveStatus`. `sock` is what the kernel
and the network hold for a client that does not read.

**Rtsp** is one connection and the goroutines its PLAYs start. The channel it
plays is `ChannelSlot`, the abstract specification that `Channel` implements.
`handleDescribe` makes the slice of tracks in one step and fills it in a second
(`FillTracks`), because a sender may read it in between; a reader that meets the
replacement may combine the length of one slice with the memory of the other, so
`Send` chooses both. A panic there is recovered by nobody and stops the model.
`involved`, `ready`, `early` and `wrong` are histories.

**PlayRtc** is one WebRTC viewer. `chooseCodec` works on offers whose attributes
are reduced to a key and a payload type; they are taken to be well formed (an
`rtpmap` has a space before its slash). The peer connection is external: it may
go from any state to any other until it is closed, and each report comes from a
goroutine of its own, so that `Report` may deliver them in any order.

**HlsViewers** gives every entry of `hlsv` an age. `countHLSViewers` is taken
apart into its visits and its deletions, since `sync.Map` promises no more;
`least` and `most` record who watched without a gap, or at all, during a count.

**Grabber** is the loop of `Grab` over packets with a time and a kind. `picture`
and `bframe` are histories of the stream it reads. The times do not go back: the
packets that FTL delivers out of order, and B-frames that come in decoding order
with earlier times, are left out, and both properties rest on that.

**Playback** puts these four together. They share the queue, which each reads with
a cursor of its own, and counters they only add to, so one of them runs in a
behaviour and the state space is a sum and not a product. **MCPlayback** gives the
offers and the layouts of the instance that TLC checks.

**Accounts** has the browsers with their two cookies, the logins, the lookups at
Discord and the two tables. A request carries the cookies its browser has when it
is sent, and what the server sets arrives with the response: `viewOauthCB` and
`Respond` are two steps, and tabs overlap. A lookup is three requests
(`GetUser`, which may refresh the token, `GetGuilds`, `SetUser`), each of which
may fail. Discord's refresh tokens work once. `lost`, `raced` and `disturbed` are
histories that name the exceptions of the properties. A cookie that was sealed
opens to what was sealed; no other cookie occurs.

The modules ending in `Proofs` hold the theorems. Definitions such as
`SetStreamKeepingOld`, placed before the definition they vary, are plausible
mistakes; each makes TLC report the property it is listed with in `PROJECT.json`.

Outside the repository, and modelled only as the code uses them: joy4's packet
queue, `hls.Publisher`, `errgroup`, ffmpeg and its pipes, UDP, the browser, pion's peer
connection, the database, Discord.

## Runs

Each run is `tlc -config <cfg> <module>`. Deadlock is not checked in any of them:
the sessions, connections, packets or broadcasts of an instance run out, and the
system then rests. That nobody waits for ever is stated as liveness instead.

| Run | Shows | Instance |
|---|---|---|
| `channel` (module `Viewers`) | the entry is always that of one session in flight (`OwnerInFlight`) with an open publisher (`LiveStreamHasHls`); ended sessions leave closed queues; `ImplementsSlot`; a session whose queue is closed ends, unless its source or its converter never returns; an idle channel releases its publisher; no viewer is left on a queue that nobody will close; the count is exact, and falls to the number of stalled clients | 2 sessions, 1 viewer, 149 thousand states |
| `live_status` | no live broadcast of a session follows its stop; what clients were told settles to the truth, unless a session is held up by its source or its converter | 2 sessions, 250 thousand states |
| `hls_restart` | *violated*: see Findings | 2 sessions |
| `rtp` | exact unwrapping and no drift while packets are in order; off by whole wraps otherwise | W = 8, three wraps, every first timestamp, 24 thousand states |
| `h264` | while nothing is missing the units and parameter sets are those sent; after any loss the next unit that arrives in a row is whole; no unit lacks its header or runs on past an end into the next beginning | 3 units of 3 fragments, 2 packets in flight, 3.4 million states |
| `opus` | all audio of the source is encoded but a rest shorter than one chunk; `Convert` returns unless the encoder is the first to fail | 4 packets of up to 3 units, chunks of 2, pipes of 1, 14 thousand states |
| `opus_encoder_error` | *violated*: see Findings | as above |
| `ftl` | routes neither leak nor are stolen; packets reach the stream of their sender; the unauthenticated are dropped; both goroutines end together | 2 connections, 2 addresses, 2 SSRCs, 1 medium, 255 thousand states |
| `websockets` | no send on a closed channel, no gap, no missed message; leavers and overflowing clients are disconnected, if clients read | 1 client, a channel of 2, a socket of 1, 6 broadcasts, 8 thousand states |
| `ws_stalled` | *violated*: see Findings | 1 client, capacities 1, 5 broadcasts |
| `playback` (module `MCPlayback`) | RTSP: packets find their track (`TracksFit`), DESCRIBE, SETUP, PLAY brings packets, senders stop; WebRTC: the lowest payload type offered, and a peer that is lost leaves; HLS: a count lies between those who watched throughout and those who watched at all; grabber: whole pictures, and no B-frame hidden | 2 streams of 1 or 2 tracks, 1 sender; 1 viewer, 4 ICE changes, offers of up to 4 attributes; 2 hosts, 2 notifiers; 8 times; 413 thousand states |
| `accounts` | a login is turned down only elsewhere or after its browser did something else with logins; the stored token stays usable, with two named exceptions; a channel is changed only from a browser in which its owner started a login | 2 users, 2 browsers, 2 logins, 1 webhook, 1 channel, 3 tokens, 764 thousand states |

Why the bounds are enough. Two sessions are a holder and the one that supersedes
it; a third adds only longer chains of the same step, and the theorems about
`Channel` cover any number. One viewer suffices because viewers share only an
atomic counter. In `Ftl` two connections meet in every shared key, with equal or
different addresses; one medium suffices because media are configured
independently. `W = 8` with steps up to 3 and lateness up to 1 satisfies the same
assumption as the real modulus. In `H264` three units of
three fragments let the end of one, all of the next and the start of the last be
lost, and a middle fragment repeat. Pipes of one and four packets fill both
pipes, ffmpeg and the feeder's hand; packets of up to three units and chunks of
two leave a rest, none, or a packet that fills a chunk and begins the next. A
channel of two holds messages in order, and six broadcasts fill socket, hand and
channel of a client and go beyond. Clients
of `Websockets` share only the map, each under its own key. In `Rtsp` two streams
are the one described and the one played, with the same tracks, swapped ones or
fewer; a sender reads only the connection's tracks and writes nothing that another
reads. Four ICE changes let a viewer connect, get lost and come back with reports
still under way. Two hosts and two notifiers of `HlsViewers` are a host that is
counted and one that is deleted, by either. With `Window = 2` and times up to 7 a
B-frame is remembered, forgotten and followed by two key pictures of two packets.
In `Accounts` two logins meet in one browser or cross between two, and three
tokens are one for each login and a refresh.

Named bounds: `NAudio`, `Cap`, `MaxPcm`, `ChunkLen`, `RchCap`, `ChCap`, `SockCap`, `MaxVersion`,
`MaxStep`, `MaxLate`, `MaxTime`, `NUnits`, `NFrags`, `NetCap`, `MaxKept`,
`MaxChanges`, `MaxSlices`, `MaxTokens`.

### Fairness

- `Channel`: a session that can take a step of its own takes one, and the ticker
  goes on. Starting a session and failing are never required. Neither is that the
  copier or `opus.Convert` returns: both read from the source of the session, for
  which RTMP sets no deadline, and `Convert` may hang (finding 2). A session that
  waits for these two only is `Held`, and the properties say so.
- `Viewers`: a reader of a closed queue leaves, since what is left in the queue
  comes to an end (strong fairness: it may wait for its client over each packet).
  A client that stalls need never read again, and no ICE negotiation has to come
  to a result.
- `LiveStatus`: an open stream yields a thumbnail now and then (it has key
  frames), and the notifier takes it.
- `OpusConvert`: the goroutines and ffmpeg run, a killed process exits, and the
  source does not send video for ever without audio or an end (the one strong
  fairness). No error and no crash is required to happen.
- `Ftl`: the loop runs, a read returns a line or its deadline, clocks advance,
  and `select` does not ignore a cancelled context for ever.
- `Websockets`: the goroutines of a connection run; nobody has to broadcast.
  `FairClientSpec` adds that clients that stay read; `FairSpec` does not.
- `Rtsp`: a handler that has begun returns, a stream on the air has packets, and a
  closed queue runs out of them (strong fairness of `ReadEnd`: the reader gets
  there again and again). No request is ever required.
- `PlayRtc`: `serve` goes on, as the stream has packets or ends, and callbacks run.
  The peer connection need not change its state.
- `HlsViewers`, `Grabber` and `Accounts` state safety only.

## Findings

1. `hls_restart`: `setStream` starts a discontinuity because the "stream
   restarted so viewer should reset their decoder" (`publish.go:106`), but the
   superseded session's copier may still write to the same publisher after it, so
   packets of both streams follow the discontinuity.
2. `opus_encoder_error`: "ensure ffmpeg is stopped and waited on" (`opus.go:207`)
   comes after `eg.Wait`. When the encoder fails with the pipes full, the feeder is
   blocked in a write that only ffmpeg's end would release, and ffmpeg is killed
   only after `eg.Wait`: `Convert` does not return.
3. `ws_stalled`: "on overflow force the client to reconnect" (`ws.go:62`) closes
   the listener's channel, which `sendLoop` notices only between writes. A client
   that does not read keeps it in a write without a deadline.

The same models show what does hold: `Convert` returns in every other case, and a
client that leaves, or goes on reading, is disconnected.

## Theorems

All proofs are checked by TLAPS, for every value of the constants that satisfies
the named `ASSUME` of the module.

- **ChannelProofs** (`ChannelAssumption`: nil is neither a session nor a queue).
  `TypeCorrect`, `OwnerAlwaysInFlight`, `LiveHlsStaysOpen`, `EndedMeansClosed`,
  `OffAirProperty`, `Refinement`. The invariants are not inductive alone. `IInv`
  adds that a session that lost the channel is cut off (`CutOffInv`), which
  goroutine's return has closed which queue (`TaskInv`), that the channel's
  `stoppedAt` is zero while it is on the air, which keeps the reaper away
  (`EntryInv`), and that a publisher once closed is never the current one
  (`HlsInv`). The refinement then maps every action to a step of the slot or to a
  stutter. Two more theorems are what the liveness of the channel rests on besides
  fairness. `NoForgottenHls`: a publisher left without a stream has its time
  counted, so that the reaper will find it. `SessionsShrink`: a session that has
  opened has a set of things left to do (`Todo`: stages of `Publish`, goroutines,
  the end of its queue) to which no step of any session adds, and from which each
  of its own takes something away; the lemma `NeverStuck` adds that a session
  whose queue is closed is done, has something it can do, or is held up by its
  source or its converter.
- **RtpTimeProofs** (`TimeAssumption`: a step and a delay together are at most
  half a wrap; the rate is at most one tick per unit of time). `UnwrapCorrect` and
  `FramerFollows` rest on `TInv`: in order, `baseTS` is a whole number of wraps
  and `lastTS` the rest. The framer's sum telescopes, so only the last conversion's
  loss remains. `WrapsOnly` needs the weaker `WInv`, which also holds with
  reordering.
- **H264Proofs** (`H264Assumption`: a fragmented unit has at least two fragments).
  `AlwaysFramed`, from `FrameInv`: between two packets `fbuf` is empty or the
  beginning of a unit, with its first fragment and without its last.
  `AlwaysInOrder` and `AlwaysResync`, from `SyncInv`: packets with consecutive
  numbers carry consecutive pieces (`SeqInv`), so fragments that arrive in a row
  are a beginning of their unit (`StreakInv`), and while nothing is missing `fbuf`
  holds exactly the pieces of the unit under way (`OrderInv`). The number of a
  packet is all that links two of them, hence the statement about every pair of
  packets in the network.
- **OnAirProofs** (`ViewerAssumption`: finitely many viewers) extends
  `ChannelProofs`. `NobodyStranded` and `CountIsExact` (a stalled client is
  counted), from `VInv`: `IInv`, and a queue that a viewer holds is of a session
  that was on the air, the Opus queue only of one that transcodes. `IInv` then
  says who closes it. `NoLateNews`, from `SInv`: a thumbnail is under way only
  while the notifier of its session runs, and a grabber that runs has its notifier
  running, so `eg.Wait` waits for both. `LastWordIsStop`: once every session has
  ended, what clients were told last is that the channel is off the air, because
  whoever is told of a stream owes it to a session that has yet to send its own
  stop notice. `SurroundingsImplementChannel`: every step of `Viewers` and of
  `LiveStatus` is a step of `Channel` or leaves it alone, so the theorems about
  `Channel` hold of both.
- **FtlProofs** (`FtlAssumption`). `NoLeakedRoute`, `NoStolenRoute`, `AuthFirst`,
  from `FInv`: the parameters are fixed once a connection is published, so the
  keys it removes are those it registered. `OnlyOwnPackets` from `PInv`: what the
  UDP loop holds between its lookup and its send, and what a receiver's channel
  holds, came from the address and an SSRC of that connection. It needs no lock,
  because the configuration does not change after the lookup could find it.
  `NoHalfLeftBehind`: the command loop or the publishing goroutine, whichever is
  over, has cancelled the context that the other looks at.
- **ReadersProofs** has the readers of a stream, each about the component's own
  specification without fairness.
  `TracksFitInvariant` (`RtspAssumption`) from `RInv`: while all
  streams involved have the same tracks, both the slice before and the slice after
  a replacement fit every sender's stream, so any mixture of length and memory
  does.
  `ConversionComplete` (`OpusAssumption`: pipes hold at least one unit, and so does
  a chunk) from `OpusInv`: until a goroutine fails, every unit ffmpeg made is in
  ffmpeg, in its pipe, in `sbuf`, in the encoder's hands or encoded, and an encoder
  that is done saw an empty stdout of a process that had ended, with less than a
  chunk in `sbuf`. `ConvertNeverStuck`, from the same invariant: unless the
  encoder was the first to fail, the goroutines of `Convert` and ffmpeg never all
  wait for one another, whatever the pipes hold. The exception is finding 2.
  `FramesAreWhole` and `BframesReported` (`GrabAssumption`) from `GInv`: `buf` is
  the key picture of the last packet, and a forgotten B-frame is out of the window.
  `HlsCountHolds` (`HlsAssumption`: finitely many hosts) from `HInv`: an entry is
  missing only for a host that let its time pass, and a count in progress has
  counted some set of hosts which, with those still to visit, holds every host that
  watched throughout, and only hosts that watched at all.
  `LowestChosen` (`RtcAssumption`: an offer is a sequence of media, each a sequence
  of attributes) holds for offers of any length. Its proof is an induction over
  the attributes of a media (`MediaLowest`) and over the media
  (`ChooseCodecLowest`). The library's induction theorems cannot be used here, so
  both go by the least counterexample: `LeastNatural`, from the well-foundedness
  of the natural numbers, gives `UpTo`, and `UpTo` gives `RecursionExists`, that
  the recursive functions of `chooseCodec` exist and satisfy their equations.
  `RtcInvariant`: while a viewer is served, a connection that has gone beyond
  Connected has the report of its present state in a callback or in the channel,
  in whatever order callbacks run, and the viewer is counted.
  `ReadersSafe`: in every interleaving of the four readers each keeps to its own
  specification (`ReadersImplement`), so their safety properties hold together;
  `Playback`, which the run checks, is one such interleaving
  (`PlaybackInterleaves`).
- **AccountsProofs** (`AccountsAssumption`). `LoginInvariant` (`AInv`): a state
  cookie is of a login started in its browser, so a lookup that was accepted has
  the browser and the user of its own login, and so has every login cookie.
  `OwnerOnlyProperty` follows. `OwnLoginAcceptedHolds` adds that a login that is
  not disturbed has its state in its browser's cookie (`StateHeld`).
  `TokenKeptHolds`, from `TInv`: a token is held for one user only (`OneOwner`), two
  lookups of a user are noted (`RacedInv`), so what a lookup got by an exchange is
  not spent by another (`HeldInv`), and a spent token in the table has a webhook's
  lookup under way that holds its successor (`KeptInv`).
- **WebsocketsProofs** (`WsAssumption`). `BroadcastSafe` and `NoDeadListener`: a
  closed channel belongs to a `sendLoop` past its registration, so it never
  returns to the map. `AlwaysGapless` and `AlwaysUpToDate`, from `PipeInv`: the
  socket and the channel of a client are chains of consecutive messages, joined through
  what `sendLoop` holds (`OrderInv`), and their last message is the latest
  broadcast or, with nothing queued, a list at least as recent (`RecentInv`). The
  latter holds because the listener is registered before the list is read.
  `NoLoopLeftBehind`: a loop that is over has cancelled the context on which the
  connection is closed under the other, and nothing else closes it.

Proved and not run, since the theorems cover every instance: the type invariants
of `Channel` and `RtpTime`, `OffAirOnlyWhenEnded`, `ConfiguredBeforeLive` and
`ListenersServed`.

Only model-checked: the liveness, which depends on fairness (`ClosedSessionEnds`,
`HlsReleased`, `ViewersDrain`, `StatusConverges`, `ConvertReturns`, `UnauthDropped`,
`EndTogether`, `LeaverUnregistered`, `OverflowReconnects`, `PlayDelivers`,
`SendersStop`, `LostPeerLeaves`). For several of them the safety they rest on is
proved: `NoForgottenHls` for `HlsReleased`, `SessionsShrink` for
`ClosedSessionEnds`, `LastWordIsStop` for `StatusConverges`, `ConvertNeverStuck` for
`ConvertReturns`, `NoHalfLeftBehind` for `EndTogether`, `NoLoopLeftBehind` for
`LeaverUnregistered`, `RtcInvariant` for `LostPeerLeaves`. Every safety property that
a passing run checks is a theorem.

## Behaviours no property covers

Met while modelling, and not promised either way by a comment, a document or a
test:

- `hlsvTotal` is recomputed only by a notifier, so after a stream ends the number
  of HLS viewers stays what it was (`manager.go:115`).
- `ServeHLS` uses the publisher after `ch.mu` is released, and `cleanup` may close it
  first (`play.go:49`); what a closed `hls.Publisher` serves is the library's.
- When `Grab` refuses a stream, `Publish` returns without cancelling the group's
  context, and the goroutine at `publish.go:32` waits for ever. It shares no state.
- After TEARDOWN a PLAY on the same connection is answered with 200 and sends
  nothing (`server.go:178`): the model has the step, `PlayDelivers` excludes it.
- A session goes on with the definition read when it started, though the channel
  is deleted or changes hands (`channel_auth.go:23`).
- A source that has fallen silent without an error, or a converter that hangs,
  keeps a superseded session (and the viewers of its Opus queue) for as long as it
  does, and its notifier may still tell clients of a stream that is over
  (`publish.go:66`).
- A client of `ServeTS` that stops reading without closing keeps its request and
  its place in the count, and so does a WebRTC viewer whose negotiation comes to no
  result (`play.go:100`, `rtc.go:146`).
- The last samples of a stream that do not fill 20 ms are not encoded
  (`opus.go:182`).
- When two FTL connections come from one address, the later takes the address's
  entry for pings and removes it at its end; the earlier gets no more answers
  (`handler.go:192`). `NewestKeepsRoute` speaks of the newest only.
- Between the lookup of an FTL receiver and the send, the connection may end; the
  packet is then lost (`rtp.go:58`).
- An RTSP sender whose stream has other tracks than the last DESCRIBE saw uses the
  wrong framer or indexes out of range, and nobody recovers the panic
  (`sinks/rtsp/handler.go:135`). `TracksFit` assumes equal tracks.
- Two tabs that log in at once share one state cookie, so that the earlier login is
  refused (`oauth.go:94`); a refreshed token is lost when the server cannot store
  it, or when two lookups of one user race. `OwnLoginAccepted` and `TokenKept` name
  these as their exceptions, and show there are no others.
- A callback of the peer connection that finds its channel full after `serve` has
  returned waits for ever (`rtc.go:79`). It shares no state.
- After a failed lookup the webhook's message names nobody (`discord_api.go:106`).

## Not modelled

- The RTMP protocol, HLS segments and playlists, the peer connection, ffmpeg's
  work and the packet queue are libraries or processes; the code in `src/` is
  modelled as far as it uses them.
- HTTP routing, static files, the views that only read (`viewUser`, the list of
  definitions), the user interface and `main` hold no shared state. A thumbnail
  is stored by one statement.
- The contents of media: codec data, samples, the Opus packet durations, the SDP
  answer, the bytes of cookies and keys.
- Two PLAYs on one RTSP connection share packetizers whose counters belong to
  pion; `Rtsp` leaves the counters out.
- Overflow of 64-bit clocks (`Div64` panics after some hundreds of thousands of
  wraps) is far beyond the bounds.
