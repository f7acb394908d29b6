------------------------------ MODULE Classroom ------------------------------
(***************************************************************************)
(* A student enters and leaves the online classroom.  MainActivity starts  *)
(* an audio and a video thread on entering and stops them, through static  *)
(* methods and static fields, on leaving; the decoder behind FFmpegNative  *)
(* is a set of C globals.  What is static outlives a visit, so the threads *)
(* of one visit meet the state of the next.                                *)
(***************************************************************************)
EXTENDS Naturals, FiniteSets

CONSTANTS
    Visits,        \* how often the student may enter
    FramesPerRead  \* bound: whole frames in the 2048 octets of one read()

ASSUME VisitsAssumption == Visits \in Nat
ASSUME FramesAssumption == FramesPerRead \in Nat

VARIABLES
    ui,            \* UI thread: "out", "in", and two steps of onPause()
    visit,         \* the number of the current or last visit
    runningFlag,   \* VideoPlayer.RUNNING_FLAG, one for all visits
    video,         \* each visit's video thread
    frames,        \* whole frames each has yet to decode of what it has read
    ctx,           \* g_pCodecCtx: whose visit's object it points to, or Null
    frame,         \* g_pavfFrame, likewise; picture comes and goes with it
    swsctx,        \* "null", "live" or "freed": a dangling pointer
    heap,          \* the contexts and frames that are allocated
    together,      \* history: two calls of decoderInit() and releaseDecoder() at once
    audio,         \* each visit's audio thread
    rtpSocket,     \* AudioRTPPlayer.rtpSocket is not null
    ports,         \* UDP ports the process has bound: "rtp", "rtcp"
    rtpSession,    \* AudioRTPPlayer.rtpSession: "null" ... "ended"
    audioTrack,    \* MediaUtils.mAudioTrack is not null
    process,       \* "alive", or how the process went down
    overlapped     \* history: a visit began before the last video thread ended

globals == <<ctx, frame, swsctx, heap, together>>
videoVars == <<runningFlag, video, frames, globals>>
audioVars == <<audio, rtpSocket, ports, rtpSession, audioTrack>>
uiVars == <<ui, visit, overlapped>>
vars == <<uiVars, videoVars, audioVars, process>>

VideoRuns(v) == video[v] \notin {"none", "done"}

Null == 0
Objects == {"ctx", "frame"} \X (1..Visits)

Init ==
    /\ ui = "out" /\ visit = 0
    /\ runningFlag = TRUE
    /\ video = [v \in 1..Visits |-> "none"]
    /\ frames = [v \in 1..Visits |-> 0]
    /\ ctx = Null /\ frame = Null /\ swsctx = "null"
    /\ heap = {} /\ together = FALSE
    /\ audio = [v \in 1..Visits |-> "none"]
    /\ rtpSocket = FALSE
    /\ ports = {}
    /\ rtpSession = "null"
    /\ audioTrack = FALSE
    /\ process = "alive"
    /\ overlapped = FALSE

-----------------------------------------------------------------------------
(* The UI thread.                                                          *)

\* onCreate() and joinClass(): both threads are started.
Enter ==
    /\ process = "alive" /\ ui = "out" /\ visit < Visits
    /\ ui' = "in" /\ visit' = visit + 1
    /\ audio' = [audio EXCEPT ![visit + 1] = "check"]
    /\ video' = [video EXCEPT ![visit + 1] = "connect"]
    /\ runningFlag' = TRUE
    /\ overlapped' = (overlapped \/ \E v \in 1..Visits : VideoRuns(v))
    /\ UNCHANGED <<frames, globals, rtpSocket, ports, rtpSession, audioTrack, process>>

\* (A plausible error.)  onPause() leaves the video running.
LeaveForgetsVideo ==
    /\ process = "alive" /\ ui = "in"
    /\ ui' = "stopAudio"
    /\ UNCHANGED <<visit, overlapped, videoVars, audioVars, process>>

\* onPause(): destoryMainThread() is synchronized and first stops the video.
LeaveStopsVideo ==
    /\ process = "alive" /\ ui = "in"
    /\ ui' = "stopAudio"
    /\ runningFlag' = FALSE
    /\ UNCHANGED <<visit, overlapped, video, frames, globals, audioVars, process>>

\* A session without its RTCP threads has no senderThrd to interrupt: the
\* exception leaves onPause() and takes the process down.
LeaveStopsAudio ==
    /\ process = "alive" /\ ui = "stopAudio"
    /\ ui' = "releaseTrack"
    /\ ports' = IF rtpSession = "null" THEN ports ELSE ports \ {"rtp"}
    /\ rtpSession' = IF rtpSession = "registered" THEN "ended" ELSE rtpSession
    /\ process' = IF rtpSession = "created" THEN "uncaught" ELSE process
    /\ UNCHANGED <<visit, overlapped, videoVars, audio, rtpSocket, audioTrack>>

LeaveReleasesTrack ==
    /\ process = "alive" /\ ui = "releaseTrack"
    /\ ui' = "out"
    /\ audioTrack' = FALSE
    /\ UNCHANGED <<visit, overlapped, videoVars, audio, rtpSocket, ports, rtpSession, process>>

UI == Enter \/ LeaveStopsVideo \/ LeaveStopsAudio \/ LeaveReleasesTrack

-----------------------------------------------------------------------------
(* The video thread of a visit.                                            *)

At(v, pc) == process = "alive" /\ video[v] = pc
Goto(v, pc) == video' = [video EXCEPT ![v] = pc]
Frames(v, n) == frames' = [frames EXCEPT ![v] = n]
Crash(how) == process' = how /\ UNCHANGED <<video, frames, globals>>

\* initConnect() may throw; then the catch block cleans up.
VideoConnects(v) ==
    /\ At(v, "connect")
    /\ \E next \in {"init", "clean"} : Goto(v, next)
    /\ UNCHANGED <<uiVars, runningFlag, frames, globals, audioVars, process>>

VideoLoop(v) ==
    /\ At(v, "loop")
    /\ Goto(v, IF runningFlag THEN "read" ELSE "clean")
    /\ UNCHANGED <<uiVars, runningFlag, frames, globals, audioVars, process>>

\* read() returns what ends no frame (or is the end of the stream) or some, or
\* throws, as does a frame that overruns NalBuf.
VideoReads(v) ==
    /\ At(v, "read")
    /\ \/ Goto(v, "clean") /\ UNCHANGED frames
       \/ \E n \in 0..FramesPerRead :
            Frames(v, n) /\ Goto(v, IF n = 0 THEN "loop" ELSE "decode")
    /\ UNCHANGED <<uiVars, runningFlag, globals, audioVars, process>>

\* clean() up to its pause of 300 ms: it lowers the flag of every visit.
Clean(v) ==
    /\ At(v, "clean")
    /\ runningFlag' = FALSE
    /\ Goto(v, "release")
    /\ UNCHANGED <<uiVars, frames, globals, audioVars, process>>

-----------------------------------------------------------------------------
(* The native calls, whose globals have no lock.  What uses memory that is *)
(* freed is undefined: the process goes on or goes down.  A step touches   *)
(* one global, or those used in one place.  A call that is under way when  *)
(* another frees its object fares like one that begins right after, with   *)
(* the pointer still dangling.                                             *)

\* The step touches objects, which had better exist.
Touches(objs) == process' \in IF objs \subseteq heap THEN {"alive"} ELSE {"alive", "raced"}
Frees(obj) == Touches({obj}) /\ heap' = heap \ {obj}

\* In decoderInit() with the check of g_pCodecCtx passed, or in releaseDecoder().
InCall(v) == video[v] \in {"create", "open", "freeFrame", "forgetFrame", "freeCtx", "forgetCtx"}
EntersCall(v) == together' = (together \/ \E w \in (1..Visits) \ {v} : InCall(w))

\* decoderInit(): on a decoder that exists it ends the process.
CheckContext(v) ==
    /\ At(v, "init")
    /\ IF ctx # Null
       THEN Crash("exited")
       ELSE /\ Goto(v, "create") /\ EntersCall(v)
            /\ UNCHANGED <<process, frames, ctx, frame, swsctx, heap>>
    /\ UNCHANGED <<uiVars, runningFlag, audioVars>>

\* The decoder may not be found.  What g_pCodecCtx points to by now is lost.
\* (avcodec_alloc_context3() is taken to succeed: nothing checks it.)
AllocContext(v) ==
    /\ At(v, "create")
    /\ \/ Goto(v, "clean") /\ UNCHANGED <<ctx, heap>>
       \/ /\ ctx' = v /\ heap' = heap \cup {<<"ctx", v>>}
          /\ Goto(v, "open")
    /\ UNCHANGED <<uiVars, runningFlag, frames, frame, swsctx, together, audioVars, process>>

\* (A plausible error.)  A decoder that fails to open returns without clean().
OpenFailureLeaks(v) ==
    /\ At(v, "open")
    /\ IF ctx = Null
       THEN Crash("segv")
       ELSE /\ Touches({<<"ctx", ctx>>})
            /\ \/ Goto(v, "done") /\ UNCHANGED <<frame, heap>>
               \/ /\ frame' = v /\ heap' = heap \cup {<<"frame", v>>}
                  /\ Goto(v, "loop")
            /\ UNCHANGED <<frames, ctx, swsctx, together>>
    /\ UNCHANGED <<uiVars, runningFlag, audioVars>>

\* The decoder does not open, there is no memory for a frame, or all is well.
OpenContext(v) ==
    /\ At(v, "open")
    /\ IF ctx = Null
       THEN Crash("segv")
       ELSE /\ Touches({<<"ctx", ctx>>})
            /\ \/ frame' \in {frame, Null} /\ Goto(v, "clean") /\ UNCHANGED heap
               \/ /\ frame' = v /\ heap' = heap \cup {<<"frame", v>>}
                  /\ Goto(v, "loop")
            /\ UNCHANGED <<frames, ctx, swsctx, together>>
    /\ UNCHANGED <<uiVars, runningFlag, audioVars>>

DecoderInit(v) == CheckContext(v) \/ AllocContext(v) \/ OpenContext(v)

\* decodeData(): with no decoder it is a null dereference, and two calls at
\* once share the global packet.
DecodeFrame(v) ==
    /\ At(v, "decode")
    /\ IF Null \in {ctx, frame}
       THEN Crash("segv")
       ELSE /\ Goto(v, "decoding")
            /\ process' \in IF /\ {<<"ctx", ctx>>, <<"frame", frame>>} \subseteq heap
                               /\ \A w \in 1..Visits : video[w] # "decoding"
                            THEN {"alive"} ELSE {"alive", "raced"}
            /\ UNCHANGED <<frames, globals>>
    /\ UNCHANGED <<uiVars, runningFlag, audioVars>>

\* A whole picture gets a scaling context, if there is memory for one; the one
\* before is lost.  After the frame comes the next one of what was read, or
\* its octets overrun NalBuf.
PictureScaled(v) ==
    /\ At(v, "decoding")
    /\ \/ Null \in {ctx, frame} /\ Crash("segv")
       \/ /\ \/ UNCHANGED <<swsctx, process>>
             \/ ctx # Null /\ swsctx' = "null" /\ Touches({<<"ctx", ctx>>})
             \/ /\ Null \notin {ctx, frame} /\ swsctx' = "live"
                /\ Touches({<<"ctx", ctx>>, <<"frame", frame>>})
          /\ \/ Frames(v, 0) /\ Goto(v, "clean")
             \/ Frames(v, frames[v] - 1) /\ Goto(v, IF frames[v] = 1 THEN "loop" ELSE "decode")
          /\ UNCHANGED <<ctx, frame, heap, together>>
    /\ UNCHANGED <<uiVars, runningFlag, audioVars>>

DecodeData(v) == DecodeFrame(v) \/ PictureScaled(v)

\* releaseDecoder() frees swsctx, though a picture may be scaled with it, and
\* does not forget it: the next one may free it again.
FreeScaler(v) ==
    /\ At(v, "release")
    /\ Goto(v, "freeFrame") /\ EntersCall(v)
    /\ swsctx' = IF swsctx = "live" THEN "freed" ELSE swsctx
    /\ \/ UNCHANGED process
       \/ swsctx = "freed" /\ process' = "corrupted"
       \/ swsctx = "live" /\ (\E w \in 1..Visits : video[w] = "decoding") /\ process' = "raced"
    /\ UNCHANGED <<uiVars, runningFlag, frames, ctx, frame, heap, audioVars>>

FreeFrame(v) ==
    /\ At(v, "freeFrame")
    /\ IF frame = Null
       THEN Goto(v, "freeCtx") /\ UNCHANGED <<heap, process>>
       ELSE Goto(v, "forgetFrame") /\ Frees(<<"frame", frame>>)
    /\ UNCHANGED <<uiVars, runningFlag, frames, ctx, frame, swsctx, together, audioVars>>

ForgetFrame(v) ==
    /\ At(v, "forgetFrame")
    /\ Goto(v, "freeCtx") /\ frame' = Null
    /\ UNCHANGED <<uiVars, runningFlag, frames, ctx, swsctx, heap, together, audioVars, process>>

FreeContext(v) ==
    /\ At(v, "freeCtx")
    /\ IF ctx = Null
       THEN Goto(v, "done") /\ UNCHANGED <<heap, process>>
       ELSE Goto(v, "forgetCtx") /\ Frees(<<"ctx", ctx>>)
    /\ UNCHANGED <<uiVars, runningFlag, frames, ctx, frame, swsctx, together, audioVars>>

\* (A plausible error.)  releaseDecoder() forgets g_pCodecCtx = NULL.
KeepContext(v) ==
    /\ At(v, "forgetCtx")
    /\ Goto(v, "done")
    /\ UNCHANGED <<uiVars, runningFlag, frames, globals, audioVars, process>>

ForgetContext(v) ==
    /\ At(v, "forgetCtx")
    /\ Goto(v, "done") /\ ctx' = Null
    /\ UNCHANGED <<uiVars, runningFlag, frames, frame, swsctx, heap, together, audioVars, process>>

ReleaseDecoder(v) ==
    FreeScaler(v) \/ FreeFrame(v) \/ ForgetFrame(v) \/ FreeContext(v) \/ ForgetContext(v)

Video(v) ==
    \/ VideoConnects(v) \/ DecoderInit(v) \/ VideoLoop(v) \/ VideoReads(v)
    \/ DecodeData(v) \/ Clean(v) \/ ReleaseDecoder(v)

-----------------------------------------------------------------------------
(* The audio thread of a visit.                                            *)

AudioAt(v, pc) == process = "alive" /\ audio[v] = pc
AudioGoto(v, pc) == audio' = [audio EXCEPT ![v] = pc]

\* A socket of an earlier visit, never set back to null, refuses this one.
AudioChecks(v) ==
    /\ AudioAt(v, "check")
    /\ AudioGoto(v, IF rtpSocket THEN "refused" ELSE "bindRtp")
    /\ UNCHANGED <<uiVars, videoVars, rtpSocket, ports, rtpSession, audioTrack, process>>

\* A port that is taken throws BindException, and the thread ends.
AudioBindsRtp(v) ==
    /\ AudioAt(v, "bindRtp")
    /\ \/ /\ "rtp" \in ports
          /\ AudioGoto(v, "failed")
          /\ UNCHANGED <<rtpSocket, ports>>
       \/ /\ "rtp" \notin ports
          /\ rtpSocket' = TRUE /\ ports' = ports \cup {"rtp"}
          /\ AudioGoto(v, "bindRtcp")
    /\ UNCHANGED <<uiVars, videoVars, rtpSession, audioTrack, process>>

\* (A plausible error.)  rtcpSocket, which nothing uses, is not created any more.
AudioSkipsRtcp(v) ==
    /\ AudioAt(v, "bindRtcp")
    /\ AudioGoto(v, "session")
    /\ UNCHANGED <<uiVars, videoVars, rtpSocket, ports, rtpSession, audioTrack, process>>

AudioBindsRtcp(v) ==
    /\ AudioAt(v, "bindRtcp")
    /\ AudioGoto(v, IF "rtcp" \in ports THEN "failed" ELSE "session")
    /\ ports' = ports \cup {"rtcp"}
    /\ UNCHANGED <<uiVars, videoVars, rtpSocket, rtpSession, audioTrack, process>>

\* The session gets rtpSocket twice, and nothing ever closes rtcpSocket.
AudioCreatesSession(v) ==
    /\ AudioAt(v, "session")
    /\ rtpSession' = "created"
    /\ AudioGoto(v, "register")
    /\ UNCHANGED <<uiVars, videoVars, rtpSocket, ports, audioTrack, process>>

\* RTPSessionRegister() and the two sendData() calls with the login.
AudioRegisters(v) ==
    /\ AudioAt(v, "register")
    /\ rtpSession' = "registered"
    /\ AudioGoto(v, "track")
    /\ UNCHANGED <<uiVars, videoVars, rtpSocket, ports, audioTrack, process>>

\* createAudioTrack() is synchronized with destoryMainThread().
AudioCreatesTrack(v) ==
    /\ AudioAt(v, "track")
    /\ ui \notin {"stopAudio", "releaseTrack"}
    /\ audioTrack' = TRUE
    /\ AudioGoto(v, "plays")
    /\ UNCHANGED <<uiVars, videoVars, rtpSocket, ports, rtpSession, process>>

Audio(v) ==
    \/ AudioChecks(v) \/ AudioBindsRtp(v) \/ AudioBindsRtcp(v)
    \/ AudioCreatesSession(v) \/ AudioRegisters(v) \/ AudioCreatesTrack(v)

-----------------------------------------------------------------------------
Next == UI \/ \E v \in 1..Visits : Video(v) \/ Audio(v)

Spec == Init /\ [][Next]_vars

\* A runnable video thread runs, and the server does not stay silent: read()
\* has no timeout and nothing closes the socket under it.
FairSpec == Spec /\ \A v \in 1..Visits : WF_vars(Video(v))

-----------------------------------------------------------------------------
TypeOK ==
    /\ ui \in {"out", "in", "stopAudio", "releaseTrack"} /\ visit \in 0..Visits
    /\ runningFlag \in BOOLEAN
    /\ video \in [1..Visits -> {"none", "connect", "init", "create", "open", "loop", "read",
                      "decode", "decoding", "clean", "release", "freeFrame", "forgetFrame",
                      "freeCtx", "forgetCtx", "done"}]
    /\ frames \in [1..Visits -> 0..FramesPerRead]
    /\ ctx \in 0..Visits /\ frame \in 0..Visits
    /\ swsctx \in {"null", "live", "freed"}
    /\ heap \subseteq Objects
    /\ together \in BOOLEAN
    /\ audio \in [1..Visits -> {"none", "check", "bindRtp", "bindRtcp", "session",
                                "register", "track", "plays", "refused", "failed"}]
    /\ rtpSocket \in BOOLEAN /\ audioTrack \in BOOLEAN
    /\ ports \subseteq {"rtp", "rtcp"}
    /\ rtpSession \in {"null", "created", "registered", "ended"}
    /\ process \in {"alive", "exited", "segv", "raced", "corrupted", "uncaught"}
    /\ overlapped \in BOOLEAN
    /\ rtpSession # "null" => rtpSocket /\ "rtcp" \in ports

\* Whatever way the visits' video threads end and however they overlap, the
\* last of them leaves both pointers null, so that the next visit does not run
\* into exit(0).  What was allocated for them is freed too, unless two calls
\* of decoderInit() and releaseDecoder() were under way at once: then one may
\* overwrite the pointer to what the other has just allocated
\* (VideoPlayer.start(), FFmpegNative.c:50-64).
DecoderReleased ==
    (\A v \in 1..Visits : ~VideoRuns(v)) =>
        /\ ctx = Null /\ frame = Null
        /\ ~together => heap = {}

\* decoderInit() ends the process, decodeData() runs into a released decoder,
\* and one call frees what another one works on, only if the video threads of
\* two visits overlap: a student who comes back after the old thread has ended
\* is safe from all three.
OverlapOnly == process \in {"exited", "segv", "raced"} => overlapped

\* The process holds one RTP session at most: of two audio threads that both
\* found rtpSocket null the second is stopped by the ports (initComponent() of
\* AudioRTPPlayer), even when the first one's session has ended.  A second
\* session would take the static rtpSession, and nothing could end the first.
OneSession ==
    Cardinality({v \in 1..Visits :
                    audio[v] \in {"session", "register", "track", "plays"}}) <= 1

\* VideoPlayer.stop(): once the student stays out, every video thread ends.
VideoStops ==
    <>[](ui = "out") =>
        <>[](process # "alive" \/ \A v \in 1..Visits : ~VideoRuns(v))
=============================================================================
