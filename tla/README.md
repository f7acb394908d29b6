# Verification of the online-classroom student client

The program is an Android client of an online classroom. It receives the
lesson's video over TCP (decoded by a small native wrapper of ffmpeg) and its
sound over RTP with a fork of jlibrtp, talks HTTP to a server with a copy of
android-async-http, and shows it all in a few screens. The repository has no
README; its documents are the Javadoc and the main programs `rtp/Validate*.java`.

Paths below are relative to `src/app/src/main/java/s/android/ffmpeg/`, `JNI` is
`src/app/src/main/jni/s_android_ffmpeg_FFmpegNative.c`.

## 1. Inventory

| Component | State | Operations | Talks to | Hard behaviour |
|---|---|---|---|---|
| Packet buffer (`rtp/PktBuffer`, `PktBufNode`, `DataFrame`) | a doubly linked list of frames, its length, last sequence number and timestamp | addPkt (three behaviours), popOldestFrame, a new limit | filled by RTPReceiverThread, emptied by AppCallerThread under one monitor | loss, overtaking, duplicates, two wraps, a hand-made list |
| RTP session (`rtp/RTPSession`, three threads, `RTCPSession`) | flag endSession, two sockets, pktBufLock and its condition, interrupts | register, receive, hand over, report, endSession | the application's callbacks; the packet buffers | lost wake-ups, stopping four threads that wait in three different ways |
| Participants (`rtp/ParticipantDatabase`, `Participant`) | a list of receivers, a table by SSRC | add, remove, look up by address and enter | both receiver threads, the application, the RTCP sender's iterator | unsynchronised list and table, fail-fast iterators |
| Classroom (`gui/MainActivity`, `util/MediaUtils`, `media/VideoPlayer`, `media/AudioRTPPlayer`, JNI) | static flags and sockets, the decoder's C globals | enter, leave, a video and an audio thread per visit | a session of the RTP library, ffmpeg | threads of one visit meet the statics of the next |
| HTTP requests (`http/AsyncHttpClient`, `AsyncHttpRequest`, `RetryHandler`, `AsyncHttpResponseHandler`) | a thread per request, one shared HttpContext, interrupt flags, messages | send, cancel, two retry loops, callbacks | Apache HttpClient, the UI thread's Looper | retries of retries, cancelling in every moment, shared context |
| RTCP timing and feedback (`rtp/RTCPSession`, `RTCPSenderThread`) | delays, average packet size, queues of APP and feedback packets | calculate a delay, reconsider, queue, age, send early | participants, the sender's interrupt | a queue aged by four readers, an interrupt as a message |
| SSRC conflicts and sending (`rtp/RTPSession`) | ssrc, sequence number, conflict flag and count | sendData, resolveSsrcConflict | all threads | a packet built before and sent after a conflict |
| RTP and RTCP packets (`rtp/RtpPkt`, `CompRtcpPkt`, `RtcpPkt*`, `StaticProcs`) | none that outlives a packet | encode, parse | the network | widths, paddings, counts of blocks |
| Reception statistics (`rtp/Participant`) | counters of a sender | update, report fraction lost | RTCP reports | the wrap of the sequence number |
| Audio players (`audio/AudioPlayer`, `media/AudioPlayer`) | play state, a writing thread | play, pause, stop | unused by the application | state shared without a lock |
| Cookies, parameters, other handlers (`http/`, `handler/`) | a map of cookies and its copy in the preferences | add, clear, expire; format | unused, or a call deep | an end of the process between two writes |
| Menu holder (`gui/SlideHolder`) | a mode, offsets, an animation | open, close, drag | unused by every layout | input, animation and layout change one mode |
| Screens, models, utilities | the page in sight | show lists | HTTP requests | none of note |
| ffmpeg, build files, resources | | | | vendored or generated |

What makes them correct:

- *Packet buffer*: frames stay in order and exactly counted, what arrives comes
  out once and in order, a gap is passed only over a full buffer, no sequence of
  packets makes an operation throw.
- *Session*: the lock is held where the code says, endSession returns, every
  thread then stops, a signalled packet is handed over.
- *Participants*: a peer known from the start is recognised, a source loses no
  packet beyond the first to a temporary object, the RTCP sender serves all.
- *Classroom*: a decoder that was created is released, only overlapping visits
  can end the process through it, there is one session, the video stops after leaving.
- *HTTP*: every request ends, says so once and last, is tried a bounded number
  of times, and a POST is not repeated by itself.
- *Packets*: both sides agree where a packet ends, reports arrive as they were
  meant, nobody takes what is for another or gives up an SSRC without a conflict.
- *Feedback*: a regular report is late once at most however much feedback there is,
  and what is queued leaves its queue.
- *Conflicts*: one packet and one report at most go out late under a source given
  up, the session ends for no fewer conflicts than the limit, reports go on.
- *Statistics*: the extended highest number never falls, a report never claims
  more loss than there was.

## 2. Modules

| Module | Models | Proofs |
|---|---|---|
| `JitterBuffer` | the promise of PktBuffer's class comment, abstractly | |
| `PktBuffer` | the packet buffer and its network; implements `JitterBuffer` | `PktBufferProofs` |
| `RtpSession` | threads, lock, condition, interrupts and end of a session | `RtpSessionProofs` |
| `RtpPeers` | list and table of participants under three threads | `RtpPeersProofs` |
| `Classroom` | visits, their two threads, the decoder's globals | `ClassroomProofs` |
| `HttpRequest` | requests of one AsyncHttpClient | `HttpRequestProofs` |
| `RtcpWire` | compound RTCP packets: put together, encoded, parsed, acted on | |
| `SsrcConflict` | sendData and resolveSsrcConflict under four threads without a lock | `SsrcConflictProofs` |
| `ReceptionStats` | counting received packets while a report block is made of the counts | `ReceptionStatsProofs` |
| `RtcpFeedback` | when the RTCP sender reports, its queues, the interrupt that wakes it | `RtcpFeedbackProofs` |

`MCPktBuffer`, `MCRtpPeers`, `MCRtcpWire` and `MCRtcpFeedback` hold the streams, the senders, the packets
and the thresholds TLC explores. The
operators commented "(A plausible error.)" are slips a programmer might make;
no action uses them. They stand beside what they would replace, to confirm that
the properties notice them.

### PktBuffer

The list is the sequence `queue` of frames, a frame the sequence `pkts` of its
packets and the count the code keeps. A packet is its position in the sender's
`Stream`, which says its 16-bit sequence number and its timestamp. `detached`
holds the nodes that the field oldest leads to when they are off the list: the former head of
a frame whose place a packet with a smaller number has taken, and the raw packets
put in front of it since. A pop then takes these (`OldestFrame`, `RestOf`); length and list
may disagree, as in the code. With a limit the frame is built before it leaves the
list and its last number is kept, without one it leaves first and its first number is
kept (`bufferedPopFrame`, `unbufferedPopFrame`). Actions: `Receive(p)` (one call of addPkt under the behaviour in
force: the filtered, the unbuffered or the buffered path with its searches
from the back), `PopOldestFrame` (one round of AppCallerThread's inner loop) and
`SetBehavior`. A NullPointerException is `receiver` or `appCaller` becoming
"dead". The network delivers each packet `Copies` times at most and at most
`Window` places late; it may lose any.

`JitterBuffer` knows only which packets wait and which were released: releasing
takes the oldest, in order, and passes over a missing one only when more than
`depth` frames wait. `KeepsPromise` is the refinement.

### RtpSession

`pc[t]` is the place of each thread in its run(), the unit of a step what the
code does between two shared accesses. `lock`, `interrupted` and the waiting set
(`pc["appCaller"] = "waiting"`) follow Java's rules: await() releases and
reacquires, an interrupt pending on entry throws, spurious wake-ups happen. A
packet is a count. The application registers and ends the session in any
moment after its creation, with an own RTCP socket or (as AudioRTPPlayer does)
the same one twice.

### RtpPeers

`receivers` with `modCount` is the LinkedList, every iterator keeps the count it
began with and `next`; hasNext() is `next # size`, next() throws when the counts
differ. `ssrcTable` holds objects: `Mine(a)` was added by the application for
address a, `Found(t, s, a)` was made by thread t for source s. A lookup is three
kinds of step (find by SSRC, compare one receiver's address, link), interleaved
with the other receiver thread, with addParticipant and removeParticipant (list
first, table second) and with the sender's walk.

### Classroom

One UI thread enters and leaves; `video[v]` and `audio[v]` are the threads of visit
v. `runningFlag`, `rtpSocket`, `rtpSession`, `audioTrack` are the static fields,
`ctx`, `frame` and `swsctx` the decoder's globals, which no lock protects: each step of
a native call reads or writes one of them, so that two visits' calls meet in every
way. `heap` holds the contexts and frames that are allocated, apart from the pointers to
them, so that one may be lost, dangle or be freed twice; `together` remembers that two
calls of decoderInit() and releaseDecoder() met. `process` says how the process went
down: exit(0) in decoderInit(), a null dereference, an uncaught exception in onPause(),
the use of memory that another thread freed ("raced") or a second free of swsctx
("corrupted"). The last two are undefined, so the process may as well go on. The
allocation of a context, which the code does not check (JNI:64), is taken to succeed.

### HttpRequest

`pc[r]` is the place of request r in AsyncHttpRequest. `currentReq` is the attribute
HTTP_REQUEST of the shared context. An attempt ends with an answer or one of
five kinds of error, the kinds RetryHandler and the catch blocks tell apart.
`HttpClientRetries` is HttpClient's own loop, which asks the same RetryHandler
(external code; modelled by how AsyncHttpClient installs the handler).
`MakeRequestWithRetries` is the loop around it. `messages[r]` is what the handler
is told; one Looper delivers messages in the order they are sent, so their order
is that of the callbacks. RetryHandler's `retry` starts as true, so its test
"only if the request hasn't been fully sent yet" decides nothing.

### RtcpWire

One host's RTCPSenderThread puts a compound packet together (`PreparePacket`,
`SendByes`), encodes it packet by packet (`EncodeNext`, or `EncodeThrows`, which ends
the thread) and sends it; another host's RTCPReceiverThread takes a datagram,
parses it (`ParseNext`, a round of the loop of CompRtcpPkt's constructor, which
also reports feedback to the application and enters a description) and then acts
on the packets (`DispatchNext`, `Conflict`). A 32-bit value is its four octets, so
every offset and width of the code is there. The two share nothing but the
network, so each has its turn while the other is between two datagrams. The
network `net` keeps what it delivers, so a datagram comes late or again, or is
lost. `known`, `about` and `byes` are what the participant database holds about the
one sender: the object the application added, which takes over when its address
matches, or one that was found. `OtherConflict` is the RTP receiver thread
changing the SSRC meanwhile. The times and the gradient a sender report
leaves with its participant, and callbacks other than feedback, are left out;
texts have at most 127 octets (a longer one has a negative length for the parser).
Feedback in a packet stands for a peer that does send it: this program's own
getFromFbQueue() never returns any, which `RtcpFeedback` shows.

### SsrcConflict

The four threads share `ssrc`, `conflict` and `conflictCount` and no lock; a step is
what a thread does between two accesses. `app` registers (the RTP receiver runs
before the RTCP threads exist) and then calls sendData: take the SSRC, look at
the flag, send. `rtp` and `rtcp` meet packets with the own SSRC, `rtp` also with
CSRCs, each of which resolves a conflict because of a semicolon
(RTPReceiverThread.java:110); the count is read and written in two steps, a new
SSRC is stored first and made positive in three more. `sender` waits while the flag
is up, and puts the SSRC into a report twice. BYEs and reports walk the list of receivers,
which the application may change meanwhile: the walk then throws and ends the
thread (`WalkFails`), be it the sender or a receiver that resolves a conflict.
There is a receiver with an RTCP address; the list itself is in `RtpPeers`. `stale`, `mixed`, `silent`, `overlap` and
`calls` are histories the properties speak of. How the threads end is in `RtpSession`,
what a BYE does at its receiver in `RtcpWire`.

### ReceptionStats

The fields of Participant that RTPReceiverThread writes in updateRRStats and the
RTCP sender reads, and two of them also clears, in encodeRR. `receivedSinceLastSR++`
is a read and a write, so an increment may be lost or undo a clearing. The network
loses, delays and repeats. `report` holds the figures of the block in the making
beside the number of packets that really are missing.

### RtcpFeedback

Time is counted in ticks of fbMaxDelay. `asleep` is the rest of the sender's
sleep, `nextDelay` the field, `sincePrev` the age of prevTime; reconsiderTiming takes
that age off nextDelay each time it is called. An fb... method queues, then names
its peer in `fbWaiting`, then interrupts, three steps between which the sender may
run. `ReportsRegularly` is the walk over the list of `RtpPeers` seen from the clock.
`Room` is the number of APP packets a report of 1500 octets holds: one more, and
encode() throws and the sender is "dead".

## 3. Runs

| Run | Bounds | Shows |
|---|---|---|
| PktBufferLoss | one packet per frame, timestamps wrap, losses only, behaviours filtered and buffered | nothing lost or repeated, order, gaps skipped only over a full buffer (refinement of JitterBuffer) |
| PktBufferReorder | one frame of two packets and three of one, a sequence wrap before the last; two places late, every packet twice; all three behaviours, raw from the start only | list in order and popping safe while one packet a frame arrives, frames hold one timestamp, sorted |
| RtpSession | one participant, two packets | lock, interrupts, draining, end of all threads, the one in endSession included |
| RtpSessionLostWakeup | same | **violated**: a packet nobody is woken for |
| RtpPeers | two peers, two sources, one shared; one change of the list | recognition, losses, fairness of the sender's walk |
| Classroom | two visits, up to two frames in what one read() returns | decoder released, overlap only, one session, video stops |
| HttpRequest | one GET, one POST, MaxRetries = 1 | callbacks, POSTs, bounds, cancelling, every request ends |
| RtcpWire | three SSRCs, one datagram under way, six feedback and two APP queues, `BufferSize` 150, `ConflictLimit` 2 | framing, reports and BYE as meant, descriptions in order, no false conflict, feedback to its target only |
| SsrcConflict | `ConflictLimit` 2, one CSRC, three calls | one stale packet and one mixed report per change, no early end, order when alone, reports go on |
| ReceptionStats | five packets over a wrap of 8, one place late, twice each | no loss overstated, highest number never falls |
| RtcpFeedback | two peers, one kind of feedback, delays of two or three ticks, two APP packets, one fits | a regular report is late once at most, feedback leaves its queue |
| RtcpFeedbackNeverSent | one peer | **violated**: useful feedback is dropped unsent |

Why the bounds are enough:

- *PktBuffer*: the code compares a packet with its neighbours on the list and
  with the last one popped, so of five packets, of which any may be lost, one comes in
  front, between, behind and twice; the streams sit on the wraps of the sequence number (65535 to 0) and of
  the timestamp. The limit of the buffer is smaller than the stream. The run under
  overtaking lets the raw behaviour be set only before the first packet
  (`RawFromTheStart`), to be small enough; the theorems let it come and go.
- *RtpSession*: a second packet is what a wake-up can be missed for. Participants
  only multiply rounds of a loop that waits for nothing.
- *RtpPeers*: two receivers are the smallest list whose removal shifts an
  iterator; two sources let one peer change its source. `MaxChanges` (calls of
  the application) and `MaxLost` (counted packets) are the caps.
- *Classroom*: nothing in the code looks further back than the visit before. Two
  frames in one read() are what it takes to decode without a look at the flag between.
- *HttpRequest*: two requests are enough to displace one another in the context;
  with MaxRetries = 1 both loops repeat. The program's value is 5; the theorems
  of section 5 cover it.
- *RtcpWire*: parsing has no memory but the database, so a datagram more under way
  adds only orders in which the database is filled, and those come from one that
  is kept and delivered again after the next conflict. The code's buffer is 1500
  octets; 150 let a compound packet of these sizes overflow it. The program ends
  the session at the fifth conflict; what a conflict does to the packets is
  the same each time.
- *SsrcConflict*: three calls are two of one receiver against one of the other,
  so that resolutions overlap in every way and one more follows; a limit of two
  puts the end inside that. The limit 5 and any number of calls are
  covered by the theorems.
- *ReceptionStats*: five numbers from 5 on in a space of 8 wrap after the third;
  a report may fall between any two steps of counting. The program's 65536 is
  covered by the theorem.
- *RtcpFeedback*: two peers are the smallest number for which `fbWaiting` is too
  small, and one of them known makes the group "early". Two lengths of delay let
  a sleep be cut short or replaced by a longer one. One kind of feedback is enough, as
  kinds meet only in the queue.

Runs say CHECK_DEADLOCK FALSE where the system may really stop: a stream that has
been delivered, visits that are over, requests that have ended, an RTCP thread
that an exception or the fifth conflict ended, counting and sending that have reached
their bounds. RtpSession
checks deadlock, with a step that idles once all threads are done.

## 4. Fairness

- *RtpSession*: a runnable thread runs (weak fairness per thread); a thread that
  waits for pktBufLock gets it if it is free again and again (strong fairness of
  the acquisitions: the lock is not fair, but holders come and go). Nothing is
  assumed of packets, of the application ending the session, or of spurious
  wake-ups. Callbacks return.
- *RtpPeers*: the RTCP sender's sleep is finite. Nothing else.
- *Classroom*: video threads run, and read() returns, i.e. the server sends or closes.
  Without the latter VideoStops is false: read() has no timeout and nothing
  closes the socket under it. The student need not do anything.
- *HttpRequest*: the pool is unbounded, so each request has a thread, and sockets
  time out (AsyncHttpClient sets SO_TIMEOUT and the connect timeout), so an
  attempt ends.
- *SsrcConflict*: each thread that resolves a conflict, registers or sends RTCP
  runs. Nothing is assumed of packets and of sendData.
- *RtcpFeedback*: the sender thread runs, and time passes (strong fairness of
  `Tick`: the application cannot interrupt the sender so fast that its clock stands
  still for ever, as each interruption follows a call and a sleep of its own,
  RTCPSession.java:454). Nothing is assumed of the application.

## 5. Proofs

TLAPS checks these for every value of the constants.

Liveness cannot be proved here, but the half of it that is about steps can. For each
liveness property a run checks there are theorems that say the rest is finite: a
*variant*, a number (or numbers compared one after the other) that the steps of the
waiting thread lower and that no other step raises, or that nobody is left without a
next step. What remains for TLC is that the scheduler takes those steps: the fairness
rule and ENABLED. TLC has also checked the variants on the instances of the runs.

- `PktBufferProofs!TypeCorrect`: `Spec => []TypeOK` for any stream, behaviours,
  window and copies.
- `PktBufferProofs!LossOnlyInOrder`: assuming the network only loses packets
  (`Window = 0`, `Copies = 1`), timestamps grow and behaviours are the filtered or
  buffered one, `[]InOrderDelivery`. In-order delivery alone is not inductive: it
  needs that everything on the list is younger than everything delivered, older
  than everything still to come, one packet a frame, and that length is exact
  and no node is off the list, or the clean-up after a pop would fail. `LossInv` is the
  conjunction of these named parts.
- `PktBufferProofs!LossKeepsAll`: `[]NothingLost` under the same assumptions. `Kept`
  follows each packet that arrived through `LossInv`'s one packet a frame, from the
  list to the deliveries.
- `PktBufferProofs!LossKeepsPromise`: `KeepsPromise`, the refinement of JitterBuffer, if
  also no number wraps or is 0 (`NumbersTell`: the code takes 0 for a sign of the
  wrap and pops without waiting). Each arrival is an `Accept`, each pop a `Release`:
  the head of the list is the least packet held (`HeadIsMin`), length counts the
  packets held (`HeldCount`), and `LastPopped` says that lastSeqNumber is the number
  of the last packet released, so that a number one higher tells the next packet.
- `PktBufferProofs!FramesStaySorted`: `[]FramesSorted` with no further assumption, so
  over wraps, frames of many packets, every behaviour, overtaking and repetition. It is
  inductive with the types; the heart is `AddedSorted`: counting the smaller numbers
  of a sorted chain finds the one place where a new number keeps it sorted.
- `PktBufferProofs!PoppingNeverFails` (`[]AppCallerSurvives`) and `ListStaysOrdered`
  (`[]QueueOrdered`), with no assumption: for every stream, behaviour and network. What they
  need of the packets is in the properties, and speaks of those that arrived:
  no two of one frame (`OnePacketFrames`); for the order also none on either side of
  a wrap (`BetweenWraps`), as after a wrap a late packet passes for the newest. `SurvivalInv`
  says that then every frame is one packet that arrived, no node is off the list and
  length, which does not count raw packets, is never above the number of frames.
  `ArrivalFindsPlace` shows that each arrival leaves the list alone, becomes all of it or
  joins it, and then behind all older and before all younger packets, whatever
  path of addPkt it takes. `ListStaysCounted`: without the raw behaviour
  length is exact, so that the condition of QueueOrdered on it excludes raw packets only.
- `PktBufferProofs!NothingMadeUp`, with no assumption: what is on the list or was handed
  over has arrived (`OnlyArrived`), and a frame handed over is whole and sorted (`WholeFrames`,
  by FramesStaySorted; `OldestIsStretch`: also a pop off the list gives a raw packet or a
  stretch of a chain on it). `OnlyTheOldestKills`: the receiver ends only by a packet older than
  every frame of a list that is not empty, and not late by the last pop
  (`KilledByTheOldest`). That the insertion search otherwise stops on the list is
  `PlaceExists`: of the places older than the packet there is a first one, because
  the numbers are well-ordered. `ReceiverOutlivesLoss`: hence, if timestamps do not fall and
  no packet overtakes another (`Window = 0`), the receiver never ends, whatever is lost or
  repeated, in frames of many packets too.
- `RtpSessionProofs!LockSafe`: `[]LockMatchesCode`; inductive with the types.
- `RtpSessionProofs!InterruptNotLost`: `[]InterruptStands`. Its strengthening
  `EndOrder` says how far the flag, the interrupts and the caller have come at
  each step of endSession.
- `RtpSessionProofs!SessionRunsDown` and `NobodyIsStuck`, for AllThreadsStop. `Distance` adds up
  how far each thread and endSession are from their end once the flag is set; every step
  of anybody lowers it, or takes a participant off the caller's round, or hands a packet
  over (`Closer`), so the threads cannot go on for ever. Nor do they stop short: whoever
  holds pktBufLock when endSession asks for it can go on, and once endSession has
  returned each thread is done, can go on or waits for one that can (`NobodyStuck`).
  `EndInv` adds to IInv the places of each thread, which sockets are closed by then and in
  which order the threads are born.
- `RtpSessionProofs!SignalIsKept`, for SignalledDrains: packets stored when a signal is due to
  a waiting caller are `Owed` until their buffer is empty. No step of the caller, of
  the receiver or of endSession loses them from sight; TLC checks that a
  caller that owes gets there.
- `HttpRequestProofs!TypeCorrect`: `[]TypeOK`. The bound of executionCount needs
  `RoomForRound`: a request that is in a round or before one has failed at most
  MaxRetries rounds.
- `HttpRequestProofs!PostSentOnce`: `[]PostsSentOnce`, for any number of requests.
  A POST could be repeated only while the context names another kind of request.
  `PostInv` adds that what the context names was tried, that it names somebody
  while a request is in a round, and that a request not yet in a round was never
  tried; so with POSTs alone the RetryHandler always sees a POST.
- `HttpRequestProofs!CancelledIsGivenUp`: `[]CancelledGivesUp`. `GiveUpInv` counts the
  attempts since the cancelling by execCount: while HttpClient's loop runs, at
  least one of them came before.
- `HttpRequestProofs!AttemptsAreBounded`: `[]AttemptsBounded`. `TriesInv` bounds the
  attempts by the rounds that failed times MaxRetries + 1, plus the attempts of
  the present one. With the program's MaxRetries = 5 the bound is 36, and it
  is reached when every attempt of a GET is dropped.
- `HttpRequestProofs!CallbacksAreInOrder`: `[]CallbacksInOrder`. `MessagesInv` says for
  every place of the two loops exactly which messages have been sent (`Outcomes`
  when they are left, `Ending` at the end, with and without a cancelling), and that only
  a request that gave up (`GaveUp`) finishes before it fails; with `PostInv` for the one
  that a POST in the context makes give up.
- `HttpRequestProofs!RequestRunsDown`, for RequestEnds: each step of a request that was
  sent uses up a part of what the two loops allow, although the count it goes by is in
  a context the other requests share; theirs give nothing back.
- `ClassroomProofs`: `TypeCorrect`, `DecoderFreed` (`[]DecoderReleased`), `OnlyOverlapKills`
  (`[]OverlapOnly`) and `SessionIsOne` (`[]OneSession`) for any number of visits, from one
  invariant. `DecoderOwned` has three parts. `HasOwner`, in every interleaving: where a
  pointer is not null some thread is still to release what it points to. `CallsApart`,
  until two calls of decoderInit() and releaseDecoder() meet: the pointers name all that is
  allocated, and dangle only between a free and the assignment behind it. `VisitsApart`,
  until visits overlap: the one thread that runs finds the decoder it made. `PortHeld`
  says that who is in a session bound the RTCP port, which is never given back: that, not
  the check of rtpSocket, makes the session the only one.
  `FlagIsTheVisits` and `FreedTwiceByTwo`, from `SharedInv`: between leaving a class and the
  next visit its flag is down, and the scaling context is freed a second time only
  by a second thread in releaseDecoder(). `VideoThreadsRunDown`, for VideoStops: while the
  flag is down no video thread goes back, and each step of its own brings it nearer
  to its end (`VideoToGo`, which counts the frames still to decode of what was read) or
  takes the process down.
- `RtpPeersProofs!FaithfulAreLinked` (`[]FaithfulLinked`) and `FirstOnlyLost`
  (`[]OnlyFirstLost`), for any peers, sources and packets. Until somebody is removed
  (`Quiet`), a faithful peer is in the list and no lookup of its address has passed
  it (`LookupsMeet`), so every lookup ends by linking it. For the second, `LossOnce`
  says where the one packet that may be lost can be: with a thread that still
  holds a temporary object, or counted, and then the table names the peer.
  `TypeCorrect` (`[]TypeOK`) also after a removal: that the list never outgrows the
  addresses needs that no address is on it twice (`Distinct`), which taking the
  first match off the list keeps (`RemovesOne`).
  `ReportsGoRound`, for EveryoneReported: as long as the receivers stay the same, each one's turn
  comes nearer by one with every report (`ReportsTo`), is over after as many as there are
  receivers, and is not moved by the other threads.
- `SsrcConflictProofs!LateOnce` (`[]OneStalePerChange`): `FirstLate`, a packet that is late
  before it is sent is the first since ssrc was assigned, and `NotTooEarly`
  (`[]EndsOnlyAtLimit`): `CountsCalls`, conflictCount and every copy of it about to be
  stored leave room for the calls not yet counted, so lost updates only lower it.
  `AloneIsOrderly` (`[]OrderlyAlone`): its invariant `Alone` says, while no two
  resolutions have overlapped, how far the one that runs has come: what it has
  announced, drawn and counted; `Startup` says in which order the
  threads are born.
  `FlagNeverLeftUp` and `ResolutionsRunDown`, for ReportsGoOn, also when resolutions
  overlap: while the conflict flag holds sendData and the sender off, some
  receiver has yet to take it down, unless sendByes has killed one
  (`FlagHasOwner`); and that receiver gets there in `StepsLeft` steps of its own,
  which only a new packet sets anew.
- `ReceptionStatsProofs!HighestMonotone` (`HighestNeverFalls`) with `TypeCorrect`: the
  counter of wraps stays 0 and what the report in the making has read is at most
  lastSeqNumber (`ReportBelowLast`). It holds because the test for a wrap is never
  true; with one that works, the two fields would be read at different times.
- `ReceptionStatsProofs!LossIsBounded` (`[]LossNeverOverstated`), the exception that
  the property makes included. Its invariant `LossInv` says that every packet that
  arrived is counted, repetitions only adding to the count, but for the one the
  receiver has at hand (`AtHand`), and that the highest number is no further from
  the first than some packet that arrived is (`Reached`), also when the report in the
  making has read it: a wrap only shortens the distance (`WrapShortens`). What lies
  between the first packet and the newest has either arrived or is missing.
- `RtcpFeedbackProofs!RegularInTime` (`[]NotPostponedTwice`) with `TypeCorrect`: `DelayBudget`
  bounds the time since the last regular report plus the rest of the sleep by one
  delay while an early report is still allowed, and by two after it.
  `QueueDrainsInTime` and `WaitIsBounded`, for QueueDrains: what is queued for a known
  peer leaves within `WaitBound`, the rest of this turn and two delays for each
  turn before the peer's own. No step raises it, each tick lowers it, and it is
  never above two delays for each peer.

Assumptions are those of the modules (`ASSUME`s on the constants) and, where a
theorem has more, they are in its statement. A theorem states every safety property
of the runs but RtcpWire's. Only model-checked:

- RtcpWire (TypeOK, FramesAgree, ReportsIntact, DescriptionIsPrefix, ByeMarksSender,
  NoFalseConflict, FeedbackOnlyToTarget). They relate what is read to what was
  written, for descriptions, lists of reports and compounds of any length. Writing is
  a fold over such a list and reading the recursive `ItemsFrom`, so that a proof is an
  induction over data, and `Bitwise` and a recursive operator shut the prover out of the
  whole module;
- the fairness half of AllThreadsStop, SignalledDrains, EveryoneReported, VideoStops,
  RequestEnds, ReportsGoOn and QueueDrains: that a step which can be taken is
  taken. Rules about WF, SF and ENABLED are out of the prover's reach.

## 6. Where code and documents part

With a run:

- RtpSessionLostWakeup: "Whenever an RTP packet is received it will loop over the
  participants" (AppCallerThread.java:58).
- RtcpFeedbackNeverSent: getFromFbQueue returns "all relevant feedback packets"
  (RTCPSession.java:323), useful for fbMaxDelay (RTPSession.java:151). A feedback packet's
  time is never set, stays -1 and is always too old.

Met while modelling, part of the models, without a run of their own:

- "Late arrivals are discarded" (PktBuffer.java:176); one that is older than all
  frames makes addPkt throw and ends the receiver thread (214).
- "Following this you should ... add participants" (RTPSession.java:206) to a session
  that runs: the RTCP sender's iterator throws (RTCPSenderThread.java:422).
- "If it has been initialised, it is not initialised again" (JNI:51) stands above
  exit(0): a student who comes back at once ends the process. Two visits' calls that both
  pass the test (JNI:50) before either assigns g_pCodecCtx (64) do initialise it twice,
  and the first context is never freed; DecoderReleased therefore claims freed memory only
  where no two of these calls met. What a picture was scaled with is lost to the next
  picture (JNI:109), and avParserContext is never closed, whatever the visits do.
- An APP packet "will eventually be deleted" (RTPSession.java:422); nothing calls
  cleanAppQueue(), every report repeats all of them until they do not fit and
  the sender thread ends (CompRtcpPkt.java:182).
- addToFbQueue returns "1 if it was dropped" (RTCPSession.java:294) and -1 in fact (311);
  any two feedback packets of one format and source are taken for equivalent,
  though the comment above says "not false positives" (461).
- fbWaiting names one peer (RTCPSession.java:450): a second call hides the first
  until that peer's turn; and as every interruption takes the time since prevTime off
  nextDelay anew (RTCPSenderThread.java:235), regular reports come early.
- A host that sends puts no reception report into its regular reports, as
  lastRtcpRRPkt and secondLastRtcpRRPkt stay -1 (RTCPSenderThread.java:253).
- "After 5 conflicts it is assumed there is a loop" (RTPSession.java:1019): updates of
  the count may be lost, and every CSRC of a packet counts as one.
- A conflict that arrives before RTPSessionRegister has started the RTCP threads ends the
  RTP receiver with a NullPointerException and leaves the flag up, so that
  nothing is sent any more (RTPSession.java:1034). The same happens to either receiver
  when the application adds or removes a participant while it sends its BYEs
  (RTCPSenderThread.java:89), until the other resolves a conflict.
- Two resolutions at once may negate the SSRC twice; then it is negative, and no peer
  can ever be recognised as using it.
- A report and its description may carry two SSRCs, a packet may follow the BYE
  of its SSRC, both once per conflict.
- The test for a wrap of the sequence number subtracts a variable from itself
  (Participant.java:308), so the highest number stops at its maximum; the loss
  is understated by one, and the first report claims nearly all packets lost
  if numbering began high, as lastSRRseqNumber starts at 0 (72).
- A frame of two packets that arrive in order is given out in two parts: a packet
  with the newest timestamp and the next sequence number starts a frame of its
  own (PktBuffer.java:194), though line 179 says "returned as a complete frame".
- A duplicate of the packet just popped is delivered again: the lateness test
  is `>=` (PktBuffer.java:447).
- A raw buffer drops all but the newest packet, though RTPSession.java:690 says it
  is for applications that do their own buffering (PktBuffer.java:127).
- length counts packets in one place and frames in another (PktBuffer.java:254, 429).
- For a frame of several packets popped without a limit, lastSeqNumber becomes the first one's
  (PktBuffer.java:343), not "the highest sequence number returned" (406).
- A frame with sequence number 0 is popped early (PktBuffer.java:374), and 65535
  arriving after 0 is put behind it (PktBuffer.java:194).
- addParticipant throws if an unexpected participant is in the table
  (ParticipantDatabase.java:121); removeParticipant leaves a changed SSRC in it (198).
- A second visit to the class is refused its sound: sockets stay bound and the
  static fields set (AudioRTPPlayer.java:59).
- A visit left before the session is registered ends with a
  NullPointerException in onPause() (RTPSession.java:500).
- A POST is repeated when a GET has displaced it in the shared context
  (RetryHandler.java:91), although the line before says "resend all idempotent
  requests". The application makes POSTs only.
- "Fired in all cases when the request is finished, after both success and failure"
  (AsyncHttpResponseHandler.java:114): a request that gave up for want of retries sends
  FINISH_MESSAGE and then FAILURE_MESSAGE (AsyncHttpRequest.java:65). CallbacksInOrder
  names this case (`GaveUp`) and allows no other.
- The last items of a description are not read, and behind a sender report not even
  the CNAME is: an offset in the datagram is compared with the length of the
  packet (RtcpPktSDES.java:105).
- An APP packet is parsed at offsets of the datagram, not its own
  (RtcpPktAPP.java:56), and carries its addressee's SSRC (RTPSession.java:444), so
  only one of these errors keeps the other from being an SSRC conflict. A
  subtype above 31 sets the padding bit (RTPSession.java:441).
- RTPFB packets keep neither SSRC (RtcpPktRTPFB.java:47): no NACK reaches anyone.
- SLI, RPSI and ALF feedback is written from offset 8 on, where the SSRC of the
  media source goes later (RtcpPktPSFB.java:275, 297, 311), into a packet of the
  wrong size (334 to 342): too small ends the sender thread, no multiple of four
  makes the receiver refuse the datagram.
- A fraction of 256/256 lost is sent as none, and one of more than half is read as
  negative (RtcpPktRR.java:101, 171).

Met while reading, in code that is not modelled:

- SRPktReceived() is given the packet count twice (RTCPReceiverThread.java:215).
- The sequence number wraps after 65536, not 65535 (RTPSession.java:972).
- registerAVPFIntf() ignores its maxDelay (RTPSession.java:732).

## 7. Not modelled, and the plan

Left out for good: vendored and generated files, resources, the data classes, the
conversions of MessagePackageUtil and FastJsonUtil, pages that show a list.

Abstracted: contents of pictures, sound and bodies; headers and entities; the map
of weak references (the application never cancels through it); HttpClient's
limit of ten connections, where a cancelled wait fails as a blacklisted error;
multicast sessions, which the application does not create.

A figure of coverage that counts C only says little here: nearly all C in the
repository is headers of ffmpeg, OpenMAX, OpenSL, RenderScript and zlib that were
copied in (`src/app/src/main/jni/`, some 100 000 lines of declarations without behaviour). The
program's own C file is `s_android_ffmpeg_FFmpegNative.c`, and Classroom models every
function of it that keeps state. The rest of the models is of Java.

What could still be modelled, of less weight because no class of the
application uses it: `audio/AudioPlayer.java` (play, pause and stop against its
writing thread), the two copies of the cookies in `PersistentCookieStore`, the modes
of `SlideHolder`. Of the parts modelled: the growth of RTCP's delays with
bandwidth for more than four peers, and a composition of `RtcpFeedback` with
`SsrcConflict` (reconsiderTiming does not look at the conflict flag).
