# SLPP in TLA+

Models, model-checking runs and proofs for the tunnel in this repository: a
Go client (`cmd/slppc`) and server (`cmd/slppd`) that carry many TCP connections
and UDP associations over one HTTP/2 request.  Paths below are relative to the
repository; `PROJECT.json` maps every definition to its lines.

## 1. The system

| Component | Source | State | Operations |
|---|---|---|---|
| Frame queue | `internal/core/queue.go` | a ring of slots, `head`, `count`, `queuedByte`; a mutex | `Push`, `Pop`, `Len`, `QueuedBytes` |
| Frame codec | `internal/core/frame.go` | none | `Encode` (header, then payload), `Decode` |
| Session engine | `internal/core/session.go` | two frame queues, `nextSeq`, `closed`, `lastErr` | `Run` with `readLoop`, `writeLoop`, `heartbeatLoop`; `QueueControl`, `QueueData`, `Close` |
| Payloads, reassembly | `internal/core/messages.go` | fragments received, by datagram | `Encode*`, `Decode*`, `FragmentUDP`, `Reassembler.Add` |
| Timer wheel | `internal/core/timerwheel.go` | tasks with their deadlines, by key; a mutex | `Schedule`, `Cancel`, `Stop`; `Run` with `fireExpired` |
| Statistics | `internal/core/stats.go` | atomic counters and gauges | increments, `Snapshot` |
| Tunnel server | `internal/transport/server.go` | per session: `authOK`, the two relays | `handleTunnel`, `HandleFrame` |
| TCP relay | `internal/relay/tcp.go` | `conns`; a copier for each connection | `Open`, `Write`, `Close`, `copyRemoteToTunnel` |
| UDP relay | `internal/relay/udp.go` | `assocs`; a reader for each socket | `Open`, `Write`, `Close`, `readLoop` |
| SOCKS client | `cmd/slppc/main.go` | `tcpConns`, `udpRoutes`, `openResults`, `nextID`; per association `channelForRemote` | `handleSocksConn`, `handleUDPAssociate`, `openTCPChannel`, `openUDPChannel`, `HandleFrame` |
| Client process | `cmd/slppc/main.go`, `internal/transport/client.go` | a context; the request's pipe; the SOCKS listener | `DialClientTunnel`, `connectMain`, `socks5Main` |
| Server process | `cmd/slppd/main.go` | a context; the TCP listener | `runServerMain`, `statsMain` |
| Control server | `internal/control/server.go` | a Unix socket at a path | `Run` |
| Token store | `internal/auth/token.go`, `cmd/slppd/main.go` | `tokens`, `replay`; the token file | `NewStore`, `Generate`, `Revoke`, `Validate`, `List` |
| API types, bench, harness | `pkg/api`, `internal/bench`, `internal/testutil` | none of their own | reporting and tests |

How they interact.  The two ends each run one `Session`.  Its three loops and all
relay or SOCKS goroutines share the two queues: everybody pushes, `writeLoop` alone
pops, control frames first.  `readLoop` decodes a frame and calls `HandleFrame`
itself, so whatever a handler does (dial a target, write to a connection, wait for
a lock) holds up every channel of the session, and every error it returns ends the
session.  A copier goroutine reads a connection and queues what it reads; it
ignores the error of a full queue.  Closing a channel is a control frame that each
end sends when its own connection fails.  Tokens are shared through a file that the
server reads once and the commands rewrite.  A program is more than its session: the
listener, the connections and the control socket are goroutines of their own, each
of which waits for the context and for nothing else, and all of which end when
`main` returns.

What is hard about it:

- **interleaving**: `writeLoop` looks at the two queues under two locks; relays
  look a connection up under a lock and use it after; two goroutines number frames;
- **ordering**: control overtakes data, so TCPCLOSE overtakes TCPDATA, and a
  target's first bytes may overtake OPENOK;
- **failure**: loops that fail together, a link that goes at any moment, a request
  that ends under a goroutine still using it, processes killed between the
  truncation and the write of the token file;
- **limits**: queues full of frames or of bytes, data dropped, replies refused;
- **processes**: servers that follow or meet each other on one port and one socket
  path, a `main` that returns before its goroutines, a session that is gone while the
  listener still accepts;
- **numbers**: clocks of two machines that wrap, sizes that are multiples of a chunk,
  addresses cut short;
- **timeouts**: an answer after the ten seconds a client waits for it, a datagram
  past its deadline, a replay entry that ends.

What makes each component correct, in a line each: the queue is a bounded FIFO that
accounts for its bytes; the codec returns whole frames in order; a session loses and
repeats nothing it accepted, keeps data from delaying control by more than one
frame, ends when any part of it fails, and returns the reason; channels deliver
streams in order, tell the truth about opens, and carry closes to the other end;
datagrams and answers never go astray; authentication comes first; nonces are
accepted once and revocations survive crashes and restarts; a timer calls each task
once and forgets none; a datagram comes out of its fragments as it went in; its
deadline is its age; an address is read as it was written; the socket at the path is
the server's; an interrupt ends a server, and leaves nothing of a client that waits.

## 2. The modules

| Module | Models | Built on |
|---|---|---|
| `BoundedFIFO` | what a frame queue promises | |
| `FrameQueue` | `queue.go`, refines `BoundedFIFO` | |
| `FrameLink` | what the way of a frame promises: a queue, then a FIFO of whole frames that may break | extends `BoundedFIFO` |
| `FrameStream` | `Encode` and `Decode` over a byte stream that is cut anywhere, refines `FrameLink` | extends `FrameQueue` |
| `Session` | `session.go`, one end, with its callers and the owner of `Run` | |
| `TunnelLink` | both sessions and the link, as channel protocols see them | |
| `TcpTunnel` | CONNECT: SOCKS handler, frame handlers, TCP relay | extends `TunnelLink` |
| `UdpTunnel` | UDP ASSOCIATE: association, frame handlers, UDP relay | extends `TunnelLink` |
| `TokenStore` | `token.go` in the server and in `gen-token`, `revoke-token` | |
| `TimerWheel` | `timerwheel.go`: `Run` against the callers of `Schedule`, `Cancel`, `Stop` | |
| `Reassembly` | `FragmentUDP` and `Reassembler.Add` of `messages.go` | |
| `Expiry` | the deadline of a datagram: stamped by slppc, judged by slppd | |
| `SocksAddress` | `readSocksAddr`, `readPacketAddr`, `encodeSocksUDPDatagram` | |
| `ServerProcess` | runs of slppd: `main`, the control server, the interrupt, `slppd stats` | |
| `ClientProcess` | a run of slppc, its session, listener and connections, against servers | extends `ServerProcess` |
| `MCUdpAndTokens` | the sum of two modules that share no state (below) | extends `UdpTunnel`, `TokenStore` |
| `MCParts` | the sum of five parts that share no state (below) | extends `FrameStream`, `TimerWheel`, `Reassembly`, `Expiry`, `SocksAddress` |
| `FrameQueue_proofs` | theorems (section 5) about `FrameQueue` and `FrameStream` | extends `FrameStream` |
| `Session_proofs`, `TokenStore_proofs` | theorems about the module of that name | extends it |
| `TunnelLink_proofs` | lemmas about frames in flight, used by the next two | extends `TunnelLink` |
| `TcpTunnel_proofs`, `UdpTunnel_proofs` | theorems about the module of that name | extends it and `TunnelLink_proofs` |
| `Parts_proofs` | theorems about the timer wheel, the deadline of a datagram, SOCKS addresses and reassembly | extends the four modules |
| `ServerProcess_proofs` | a theorem about the runs of slppd, with slppc beside them | extends `ClientProcess` |
| `MC*` | values for the constants of the runs | |

How state and actions correspond to the code:

- A **goroutine** is a program counter (`rpc`, `wpc`, `hpc` in `Session`;
  `handler[ch]`, `relay[ch]`, `reader[s]`, `phase[s]`, `assoc` above it).  Its
  steps end where the code takes or leaves a lock, sends or receives on a channel,
  or calls the outside world; what lies between two such points is one action with
  all its effects.  A call of `Push`, `Pop`, `Validate` or of a method of
  `tunnelClient` that holds its mutex throughout is one step.  A relay's `Write` is
  two, for it unlocks before it writes.
- A **select** with several ready cases is a disjunction.
- A **frame** is what the properties tell apart: in `Session` its class, its number
  in the class, its kind, its `Seq` and the draw that gave it; in the tunnels its type, channel and a number
  (of a chunk, a datagram or a remote); in `FrameStream` its bytes, each of which is
  the frame and a place in it.
- The **queues** are the ring itself in `FrameQueue` and `FrameStream`, and bounded
  sequences above; the refinement justifies the change.  Above the ring only the
  bound in frames is kept: the byte bound refuses frames for another reason, at other
  times, and every refusal already has its branch.
- The **link** is a FIFO in each direction, with room for `WireCap` frames (HTTP/2
  flow control); it may break at any time.  `FrameStream` shows what stands behind
  "a frame is read whole or not at all": it has the bytes, the two writes and the two
  reads of a frame, and implements `FrameLink`, which has none of them.
- The **end of a session** in the tunnels: a reader's error, then `Run` closes, then
  the writer stops, then the other end sees the stream end or its own write fail.
  `Session` has the same in full, with the heartbeat, the error channel and the
  request's context.
  A writer that is past its select when `Run` closes still writes one frame.  If that is
  a control frame, `TunnelLink` has the close after the write: only the
  writer itself and what follows its end look at `closed`, so no other goroutine can tell.
- **Outsiders** (application, target, remote, killed processes, the clock) are
  actions marked "External", constrained by nothing.
- A **process** (`main[p]`, `client`) ends with all its goroutines in one step, `Exit`
  or `ClientExit`, whatever these are doing; files it leaves behind stay.
- **Bytes** are kept where the code's arithmetic is on them: in `SocksAddress` a datagram
  is a sequence of bytes in a buffer that is used again, and `Text` is what
  `net.IP.String` and `net.ParseIP` do to the three forms of an IPv4 address.
- **Parts without shared state** (`MCParts`, `MCUdpAndTokens`) are checked in one run: the
  initial state chooses a part, and the others rest.  Nothing is composed there.  The state graph is
  the disjoint union of theirs.
- **History variables** record what properties need and the code does not keep:
  `written`, `afterClose`, `usedSeqs`, `draws`, `appIn`, `tgtIn`, `dropped`, `closeSeen`, `got`,
  `replies`, `accepted`, `issued`, `revoked`, `transit`, `called`, `withdrawn`, `mixed`,
  `met`, and `of` in the fragments and results of `Reassembly`, the number of their
  datagram; so does the frame a reader ended on, kept in `reader[s]`.  No guard reads them, but for the bounds below and for a remote that answers
  only what it was sent.

Each module defines, next to some actions, operators named `Mut...`: plausible
mistakes in the code (a lost error, a dropped guard, a wrong order).  Replacing an
action by its mutant makes a run fail; it is how we know that a property constrains
the code.

## 3. The runs

All pass but the last five, which show disagreements with a document or a test.

| Run | Question | Bounds |
|---|---|---|
| `parts` | Stream: does the ring account for its slots and bytes and implement a FIFO; does `Decode` return whole frames in order; do queue, codec and stream implement `FrameLink`, so that only a cut makes `Decode` fail? Wheel: is every task called once or withdrawn, never early and never forgotten? Reassembly: does a datagram come out as it went in? Expiry: is what the server takes for a datagram's age its age? Socks: are addresses and payloads read as they were written? | 3 slots, 4 bytes, frames of 0, 2 and 3 bytes, one too long for the codec and one of unknown type; 2 keys, 2 tasks; 3 datagrams under 2 IDs, of 0, 2 and 3 chunks; clocks modulo 8; 5 addresses, 2 datagrams |
| `session_safety` | Are frames accounted for, numbered once in a round of the counter and kept in order, is control delayed by one data frame at most, and does `Run` return the cause, at either end? | 3 control and 2 data frames; queues of 2 and 1; a counter of 3 values |
| `session_liveness` | Does a failure end `Run`, do the loops end, does control leave? | 2 control, 1 data, queues of 1; a counter of 3 values; server |
| `tcp_one_channel` | Are streams in order, is authentication first, do closes reach the other end, and can only a close of its own channel make a chunk end the session? | 3 chunks up, 1 down; data queue of 1, control queue never full |
| `tcp_two_channels` | Are answers true, is the gauge exact, does every connection keep its copier, with control queues that do fill? | 2 channels, 1 chunk up each, control queues of 2 |
| `udp_and_tokens` | UDP: do datagrams and answers keep to their remotes, does the association remember only channels opened for them, and can a datagram end the session only on a channel that was opened for its remote? Tokens: are nonces accepted once, do revocations survive restarts, does the file keep what was reported? | 2 remotes, 2 channels, 3 datagrams, 1 answer, queues of 1; 2 tokens, 2 nonces, 2 slots for commands, 3 commands, 2 starts, 3 sessions |
| `processes` | While no two servers are alive at once, does `slppd stats` show the one that serves; does an interrupt end a server; what does an interrupt leave of a client, with and without a server that answers? | 2 runs of slppd, slppc in each of its modes, 1 connection |
| `session_contained` | design, line 817: does a session's failure stay within the session? | server |
| `tcp_reply_first` | `main_test.go`: is the SOCKS reply the first thing an application reads? | 1 channel |
| `tcp_hole` | design, line 290: does an overflow block or fail the channel? | 3 chunks, data queue of 1 |
| `udp_contained` | design, lines 827-830: does an unreachable UDP remote fail its channel only? | 2 remotes, 2 channels |
| `socks5_serves` | user manual, lines 51-62: does the listener of `slppc socks5` stay up until the user interrupts it? | as `processes`, `socks5` alone |

Why the bounds are enough.  Each is the least at which the case a property is about
happens, with one step to spare where the run allows it: a ring that wraps while both
of its bounds bite separately; a control frame queued between the two looks of
`writeLoop`, twice; queues that are full when a reply is due; three chunks so that one
can be dropped between two that are delivered; a counter of Seqs that comes round; two channels so that the close of one meets the open of
another; a channel number given up and a later one opened; a command that dies, one
that overlaps and one after them; a server that starts, stops and starts again; a
task scheduled with the key of another one that is about to be called; an ID used
again before and after its datagram has arrived; a clock that wraps twice, and a
server's clock ahead or behind by less and by more than the wrap; a datagram over
the remains of a longer one; a second slppd after the first was killed, or beside it,
and a session that ends before, in and after an application's request.
`MaxControl`, `MaxData`, `UpChunks`, `DownChunks`, `MaxDatagrams`, `MaxReplies`,
`MaxTime`, `MaxCommands`, `MaxStarts`, `MaxSessions`, `MaxTransit`, `MaxTasks`,
`MaxFragments`, `MaxNow`, `MaxAir`, `MaxReceived` and `WireCap` are
bounds of the models; the capacities of queues and `SeqSpace`, the values of a Seq, are parameters of
the code with small values.  Channels, tokens, nonces and command slots are symmetric in the runs that
check safety only.

Deadlock is checked in `parts`: the stream cannot stop, and the other parts, whose
bounds end, may rest.  Everywhere else the system can: a session ends, and a bounded model runs out of frames, chunks or commands.

What the failing runs show, with the lines at fault, is under "findings" in
`PROJECT.json`: `writeLoop` may use the response of a request that is over, which
panics; the target's bytes may come before the SOCKS reply; a chunk dropped by a full
queue leaves a hole in a stream that goes on; the channel of an
unreachable UDP remote stays in `channelForRemote`, so the next datagram for it meets a
closed channel and ends the session; `slppc socks5` prints that it listens and
exits, for `socks5Main` returns and nothing waits.

One more disagreement holds by the shape of the code and has no run of its own.
`TESTING.md:21` has a revoked token refused at once: a running
server has read the file, and hears of the revocation at its next start
(`RevocationSurvivesRestart` in `udp_and_tokens` says that it does then).

## 4. Fairness

`Session!Fairness` and `TcpTunnel!Fairness` are weak fairness of the steps a
goroutine takes by itself.  The Go scheduler runs every goroutine that can run, the
code holds no lock across a blocking call, and a mutex is fair after a millisecond
of waiting.  Assumed beyond that: a handler returns, and so do dials and writes to
the outside (a dial has the time-out of the kernel; a write to an
application that never reads may block for ever, which is the hazard listed at
`main.go:132`).  Not assumed: that frames arrive, that ticks come, that callers call,
that anybody closes, that a time-out happens, or that a link breaks or recovers.

Only `TimerWheel!WheelFairness` has a ticker that goes on ticking, for it says what a
wheel does while it does; there too nobody has to call.  In
`ClientProcess` there are `ServerProgress`, `MainProgress`, `ListenerProgress`,
`SessionProgress` and `ConnProgress`: `main` and the goroutine that waits for the
interrupt run; a request ends with the context it was made with (`client.go:30`), and so
does `Session.Run`; a timer of ten seconds ends.  Not assumed there: that a server answers,
that a session or a connection ends by itself, or that anybody interrupts; so
`InterruptEndsServer` rests on nothing a session does, and `InterruptEndsClient` on
nothing a server does.

Weak fairness suffices, for no step of one goroutine is disabled again and again by
others while it waits; the two exits of a select are one action.
`CloseReachesTarget` and `CloseReachesApp` hold with a control queue that cannot
fill, which their run says; with one that fills, TCPCLOSE may be refused and its
error is ignored (`tcp.go:81`, `main.go:363`).

## 5. What is proved

Every safety property of the passing runs is a theorem for all values of the constants:
each invariant, the action properties, and the refinements of `BoundedFIFO` and of `FrameLink`.
Each is proved from an invariant that is inductive; where the property alone is not,
the module says what has to be added, and why, next to its definition.

**`FrameQueue_proofs`**, for every capacity, byte bound, set of frames and sizes, every
header length above zero and every limit of a payload:

- `TypeCorrect`, `SlotsAccounted`, `BytesAccounted`: `TypeOK`, `LiveSlotsExactly` and
  `QueuedByteIsSum`.  They are inductive only together: `Pop` keeps `queuedByte` from
  going negative because it is the sum over the frames held, the sum is over `count`
  slots from `head` because exactly these hold frames, and `Push` overwrites none
  because the slot it computes is not among them.  The sum, which would need recursion,
  is stated by its running totals.  The argument rests on the arithmetic of one lap of
  the ring (`ModWrap`, `SlotAt`) and on how the queue a ring stands for grows at one end
  and shrinks at the other (`PushAppends`, `PopShifts`);
- `RingImplementsFIFO`: the ring implements `BoundedFIFO`;
- `FramesComeWhole`, `OnlyCutsStopIt`: `WholeFramesInOrder`, and `OnlyACutStopsDecode`,
  which the runs check as a part of `ImplementsFrameLink`.
  `CodecInv` lays the frames that are under way along the stream (`Fits`): each byte
  that is there is the byte of the frame and place that the layout gives it, and only a
  cut may leave bytes out, at the end.  The layout is a function of running totals, for
  the same reason as the sum.  Its first frame begins where `Decode` will read next, so
  what `Decode` takes for a header is one; a frame of which bytes are still to be written
  is the last, and `Decode` cannot have all of it;
- `StreamRunsQueue`: a behaviour of `FrameStream` is one of `FrameQueue`, so the
  theorems about the ring hold there;
- `StreamImplementsLink`: `ImplementsFrameLink`.  The map takes `Queue` for the queue,
  the frames begun and not returned for the wire, and an end whose codec has failed for
  a stopped one.  Each step maps to one of `FrameLink` or to a stutter, one lemma for
  each: a frame is on the wire when it is popped (`PopIsLinked`), so the two writes are
  not seen, but their failure is (`EncodeIsLinked`), and it arrives with its last byte
  (`DecodeIsLinked`).  That needs both invariants: the ring's, for the queue that is
  popped, and `CodecInv`, for a frame returned to be the front of the wire and for
  `Decode` to fail after a cut only.

Assumed: a capacity of at least one, a byte bound and sizes that are naturals, and a
zero `Frame` that is none of the frames pushed.

**`Session_proofs`**, for every cap of the queues and any number of frames, at either
end: `SessionTypes`, `NoFrameLost` (`FramesAccounted`), `ControlFirst`
(`ControlWaitsForOneDataFrame`), `OneFrameAfterClose`
(`AtMostOneFrameAfterClose`), `RunNamesTheCause` (`RunReturnsTheCause`) and
`SeqsAreUnique` (`SeqUnique`).  What they rest on:

- `HandInv`: the writer has a frame in hand exactly while it writes it;
- `PassOver`: a queued control frame has been passed over by one data frame at most, and
  by none while the writer has looked at `controlQ` and not yet at `dataQ`.  The second
  half is what the two locks of `writeLoop` make necessary;
- `CloseInv`: a writer that is past its select has written nothing since `Close`;
- `CauseInv`: whatever a loop has put into `errCh`, or `Run` into `lastErr`, names
  something that has happened.  That a loop may end with nil does no harm because it
  does so only when the session is closed, and so when `Run` has returned;
- `DrawInv`: the number of draws bounds every draw, and no draw is in two places among the
  queue, the hand and the wire;
- `SeqInv`: a Seq is its draw modulo `SeqSpace`.  With `DrawInv`, two frames with one Seq
  are a whole round of the counter or more apart (`RoundsApart`).

**`TunnelLink_proofs`** has no theorem of its own.  It says what a step of the sessions and
of the link can do to the frames in flight: of each kind of frame, those in flight
stay, or lose their first, or gain a last (`Keeps`, `Loses`, `Gains`), whatever the
writer's race does between the two queues; frames of one kind do not overtake each other.

**`TcpTunnel_proofs`**, for any number of channels and chunks and every size of the
queues and of the wires:

- `TcpTypes`, `AnswersMatchOpens` (`AnswersAreTrue`), `NoConnLeftBehind`
  (`RelayConnsHaveCopiers`), `NothingBeforeAuth` (`AuthGate`), `GaugeCountsOpenChannels`
  (`GaugeIsExact`), `ChannelErrorsMeetCloses` (`ChannelErrorsAreRaces`),
  `ChunksArriveInOrder` (`StreamsInOrder`).

The state of a channel is spread over a handler, a `resCh`, a map, a relay, two
connections, two readers and four kinds of frames in flight.  `OpenInv` says that its open is at one of
these places at a time, and `CloseInv` that a TCPCLOSE or a chunk is under way
only for a channel whose open is done; without either, a late answer
or a second TCPCLOSE would be possible, and the gauge would be wrong.  `RelayInv` ties
the relay's map to its copiers, `AuthInv` keeps AUTH at the front until the server has
read it, and `EndsInv` says which connections can be closed; `ErrorInv` keeps with a reader that
has failed the channel of its last frame, and of that very channel that it was opened and
which of its two connections, or its place in the relay's map, is gone.  That the gauge is a
cardinality takes finite sets (`FiniteSetTheorems`): the channels open are finitely many
because each step opens one at most.  `StreamInv` is `StreamsInOrder` made inductive: the
numbers delivered, held by the reader, in flight and dropped are disjoint, make up all
that were sent, and rise in this order for as long as the receiving connection is open.

**`UdpTunnel_proofs`**, for any number of remotes, channels and datagrams:

- `UdpTypes`, `DatagramsArrive` (`DatagramsReachTheirRemote`), `RepliesAreTrue`
  (`RepliesAreLabelled`), `CacheIsTrue` (`CachedChannelsWereOpened`),
  `DatagramErrorsAreTheirChannels` (`DatagramErrorsAreOfOpenedChannels`).

Here too `OpenInv` follows a channel from its OPENUDP to the socket and back, with the
remote it belongs to: `routes` until the socket is made, `dest` from then on.  `UpInv`
says that what is in flight on a channel was meant for that remote and that datagrams
are received, held and in flight in the order of their numbers, `DownInv` the same of
the labels of replies, `RelayInv` that a relay closes a socket only after its Read has
failed, which is why a cached channel is in `assocs` or has been refused, and `CauseInv`
keeps with a reader that has failed the channel and the datagram it failed on.

**`TokenStore_proofs`**, for every set of tokens, nonces, slots, lifetimes and every bound:

- `TypeCorrect`: `StoreTypeOK`, strengthened by `OnlyDrawn`: the file and the copies of
  commands hold only drawn tokens, for a server loads the one and a command writes
  the other;
- `NoncesAreAcceptedOnce`: `NonceOnce`.  It says nothing of the replay cache and is
  not inductive; `NonceInv` adds that every acceptance of the running server is
  *covered*: its key is in `replay` until the token expires, less the delay between
  the two readings of the clock, or that time has come.  `Validate` with the same key
  succeeds only in the second case, so the shorter entry it may then write does no
  harm;
- `ReportsReachTheFile`: `FileKeepsWhatWasReported`.  Between a truncation and the write
  only the command's copy has the list, so `FileInv` is about the copies: while no two
  commands have overlapped, one runs at most, its copy misses nothing that was reported,
  and the file is torn exactly since that command truncated it or one died that had;
- `RevocationsSurvive`: `RevocationSurvivesRestart`.  It needs the theorem before it, for a
  server knows of a revocation what the file it loads says (`ServerInv`).

**`Parts_proofs`**, for all keys and delays, every width of the clocks, every deadline
below it and every difference of the clocks, all addresses, payloads and sizes of a
buffer, all IDs, sizes of datagrams and of chunks:

- `TasksAreAccounted`: `TasksAccounted`.  It is inductive with two more facts: a task is
  in the map under one key, or to cancel or collect one key would leave it behind under
  another; and Run has collected tasks only while it calls them, or a round would
  overwrite what the last one has not called;
- `ElapsedIsTheDifference`: what `elapsedMillis32` returns for two readings less than a
  lap apart;
- `VerdictIsByAge`: `ExpiryIsAge`.  It rests on the one before, on the clock showing the
  same a lap later, and on the stamps under way being the client's clock as it was;
- `SocksKeepsAddresses`: `AddressesAreKept`.  `ReadsWhatWasWritten` is its core: an
  address followed by anything is read as it was written and ends where it ended, and a
  prefix of one is refused, because each of the two lengths that `readPacketAddr` works
  out is the one that was written.  `DatagramIsRead`, `HeaderReadsBack` and
  `RequestIsRead` carry this to a datagram cut short in a buffer that still holds longer
  ones, to an answer's header and to a request.  `SocksInv` says nothing of the
  buffer but that it holds bytes: that is the point;
- `ReassemblyIsRight`: `Reassembles`.  `ReassemblyInv` says, of an ID that was used again
  only when its last datagram had arrived, that only its last datagram can be incomplete
  (`LastIsOpen`), that the slots hold of this one exactly the chunks that are not under way
  any more (`SlotsHold`), that without such a datagram there is no entry (`NoneOpen`), and
  what has been returned (`Returned`).  That the concatenation of the chunks is the
  datagram (`ChunksJoin`) is an induction over their number.  The library's induction
  rule takes an operator; `EveryNumber` is the rule for a set of numbers, from the
  well-foundedness of the order on `Nat`, and `FlattenOfPieces` uses it for the set of
  the numbers for which the claim holds.

Assumed there: addresses have the lengths RFC 1928 gives them, a name 255 bytes at most
(`SocksAssumption`), for an application writes them; a datagram has 65535 chunks at most
(`ReassemblyAssumption`), for `FragIndex` and `FragCount` have 16 bits.

**`ServerProcess_proofs`**, for any number of runs of slppd and of connections, with slppc
in any of its modes:

- `SocketStaysTheServers`: `SocketIsTheServers`.  A run that never met another one is
  alone while it is alive, a dead run has no control server, and so the path is free
  when a lone run binds and stays its own until its interrupt.

Only model-checked: the liveness properties `DueTasksFire`, `FailureEndsRun`,
`ServerLoopsEnd`, `QueuedControlLeaves`, `CloseReachesTarget`, `CloseReachesApp`,
`InterruptEndsServer` and `InterruptEndsClient`, for the prover has neither fairness nor
`ENABLED`.

## 6. Abstractions, and what is not modelled

- Above `FrameQueue`, the byte bound of a queue (see section 2).  The gauges of
  queued bytes (`session.go:156`, `162`), `LastActive` and all counters but
  `activeChannels`: nothing reads them back.
- `Session` takes any handler; the tunnels leave out PING and PONG, which touch no
  channel, the heartbeat, and an interrupt of either program.  When slppc is
  interrupted, a copier that has just read a chunk returns without TCPCLOSE
  (`main.go:368`); the process ends then.
- `TunnelLink` lets the server's request end only while its reader waits for a frame:
  in the middle of a handler the end is noticed at the next read.
- A Seq counts modulo `SeqSpace`, 2^32 in the code; a PING whose draw is 0 keeps it, and
  any other frame draws again only if it has none, as in the code.
- `UdpTunnel` lets a write to a UDP socket fail for any reason at any time
  (`udp.go:68`), and a Read only after its remote was unreachable.
- `SocksAddress` leaves out the errors of `encodeSocksUDPDatagram` (`main.go:472-479`,
  `490-492`): its argument is an address `readPacketAddr` has made, with a port in digits
  and a host whose length came in one byte, so the port parses and
  the name is not too long; a name that does not split from its port (one with a bracket)
  is refused by the server, which splits it first, and has no answers.
- `UdpTunnel` starts authenticated, has one association, and leaves the deadline of a
  datagram, which compares the clocks of two machines, to choice.  `Expiry` has
  the comparison: with a clock that is ahead of the client's by less than the deadline
  a datagram expires early by as much, with one that is behind by a millisecond a
  datagram that takes no time is 49 days old and dropped.  The client does not look at
  the deadline of an answer.  `UdpTunnel` leaves out SESSIONCLOSE and the client's
  UDPCLOSE, which no client sends, and fragments: no datagram the program carries is
  longer than one.
- `Reassembly` is about code that only tests call.  Entries of datagrams that never
  become whole stay in its map for ever, and a fragment with a count of 0, which
  nothing makes, is left out.
- `ServerProcess` starts where options and certificates are good and the token file
  could be read; the control socket has a path (without one `Run` only waits).  One run
  of slppc meets the servers, with one connection in the run.  The mode "caller" is a
  program that goes on after `socks5Main` has returned, as the tests and benchmarks do.
  A TCP connection outlives its session there, as in the code: what that does to a
  stream is in `TcpTunnel`.
- The five seconds that `runServerMain` gives `Shutdown` are never waited for: `main`
  returns first (`main.go:203-214`).  `MainReturns` says so.  The design
  asks for graceful SIGTERM handling (line 556) and does not say what it is.
- `TokenStore` gives the server and the commands one clock and one machine; random
  IDs and tokens are distinct; entries of `replay`, never removed, stay.
- `FrameStream` takes a header as the frame it belongs to.  `Decode` accepts a header
  length above 20 and does not skip what it announces (`frame.go:79`); no encoder of
  the repository sends one.
- Not modelled: set-up of TLS, HTTP/2 and requests, header profiles, the fixed layouts of
  `Encode*` and `Decode*` in `messages.go`, options and output, `ping` and `check`, the
  counters of `stats.go` and the handlers that report them, bench and test harness.
  They are I/O and data layout, without state that interacts.
- Not modelled: the gauge `activeChannels` over several sessions.  `server.go:104` never
  decrements it for channels that are open when their session ends, by the shape of the
  code.  The replay cache of `token.go:38` is in memory, so a restarted server accepts an
  old nonce; `NonceOnce` is about one start.

## 7. Plan

Done, in this order: `FrameQueue` and its refinement with proofs; `Session`;
`TunnelLink` with `TcpTunnel`; `TokenStore` with proofs; `UdpTunnel`; `FrameStream`;
`TimerWheel`, `Reassembly`, `Expiry` and `SocksAddress`; `ServerProcess` and
`ClientProcess`; the theorems about `TimerWheel`, `Expiry` and `ServerProcess`; those
about `Session`, `TcpTunnel`, `UdpTunnel`, `FrameStream` and the rest of `TokenStore`;
those about `SocksAddress` and `Reassembly`; `FrameLink` and its refinement.

The model has what section 6 does not leave out.  Further modules would join a run
whose question they share: a run costs minutes.

What is left is to join the levels by proof.  `TunnelLink` takes its wires for what
`FrameLink` promises, with two queues and one writer per end, and its frames in flight
for what `Session` writes: frames of a class leave in order, control overtakes data.
Both steps are read off the modules so far, and stated by no theorem.
