---------------------------- MODULE ClassroomProofs ----------------------------
(* Theorems about Classroom, for any number of visits.                     *)
EXTENDS Classroom, FiniteSetTheorems, TLAPS

HasContext == {"open", "loop", "read", "decode", "decoding", "clean", "release", "freeFrame",
               "forgetFrame", "freeCtx", "forgetCtx"}
HasFrame == {"loop", "read", "decode", "decoding", "clean", "release", "freeFrame", "forgetFrame"}
VideoPlaces == {"none", "connect", "init", "create", "open", "loop", "read", "decode", "decoding",
                "clean", "release", "freeFrame", "forgetFrame", "freeCtx", "forgetCtx", "done"}
AudioPlaces == {"none", "check", "bindRtp", "bindRtcp", "session", "register", "track", "plays",
                "refused", "failed"}
InSession(v) == audio[v] \in {"session", "register", "track", "plays"}

(* The threads' places and what has a small range; a visit to come has no  *)
(* video thread yet.                                                       *)
Typed ==
    /\ visit \in 0..Visits /\ ui \in {"out", "in", "stopAudio", "releaseTrack"}
    /\ video \in [1..Visits -> VideoPlaces]
    /\ \A v \in 1..Visits : v > visit => video[v] = "none"
    /\ swsctx \in {"null", "live", "freed"}
    /\ audio \in [1..Visits -> AudioPlaces]
    /\ ports \subseteq {"rtp", "rtcp"}
    /\ rtpSession \in {"null", "created", "registered", "ended"}
    /\ process \in {"alive", "exited", "segv", "raced", "corrupted", "uncaught"}

Flags ==
    /\ runningFlag \in BOOLEAN /\ rtpSocket \in BOOLEAN /\ audioTrack \in BOOLEAN
    /\ together \in BOOLEAN /\ overlapped \in BOOLEAN

(* The two pointers and what may be allocated; only a thread that decodes  *)
(* has frames left of what it read.                                        *)
Memory ==
    /\ ctx \in 0..Visits /\ frame \in 0..Visits /\ heap \subseteq Objects
    /\ frames \in [1..Visits -> 0..FramesPerRead]
    /\ \A v \in 1..Visits : video[v] \in {"decode", "decoding"} => frames[v] > 0

(* Whatever visits do at once, there is a thread still to release what a   *)
(* pointer points to.                                                      *)
HasOwner ==
    /\ ctx # Null => \E v \in 1..Visits : video[v] \in HasContext
    /\ frame # Null => \E v \in 1..Visits : video[v] \in HasFrame

(* While no two of the calls have met: one thread at most is in a call,    *)
(* the pointers are all there is to what is allocated, and each is good    *)
(* except in the moment between the freeing and the forgetting.            *)
CallsApart ==
    /\ \A v, w \in 1..Visits : InCall(v) /\ InCall(w) => v = w
    /\ \A o \in heap : o \in {<<"ctx", ctx>>, <<"frame", frame>>}
    /\ frame # Null => ctx # Null
    /\ \A v \in 1..Visits :
         /\ video[v] = "create" => ctx = Null
         /\ video[v] = "open" => ctx # Null /\ frame = Null
         /\ video[v] \in {"freeCtx", "forgetCtx"} => frame = Null
         /\ video[v] = "forgetFrame" => <<"frame", frame>> \notin heap
         /\ video[v] = "forgetCtx" => <<"ctx", ctx>> \notin heap
    /\ frame # Null /\ (\A v \in 1..Visits : video[v] # "forgetFrame") => <<"frame", frame>> \in heap
    /\ ctx # Null /\ (\A v \in 1..Visits : video[v] # "forgetCtx") => <<"ctx", ctx>> \in heap

(* Of visits that do not overlap one thread runs, which finds the decoder  *)
(* it has made.                                                            *)
VisitsApart ==
    /\ ~together
    /\ \A v, w \in 1..Visits : VideoRuns(v) /\ VideoRuns(w) => v = w
    /\ \A v \in 1..Visits :
         video[v] \in {"loop", "read", "decode", "decoding"} => ctx # Null /\ frame # Null
    /\ process \notin {"exited", "segv", "raced"}

DecoderOwned ==
    /\ HasOwner
    /\ ~together => CallsApart
    /\ ~overlapped => VisitsApart

(* The port of RTCP is bound before there is a session, and never given    *)
(* back.                                                                   *)
PortHeld ==
    /\ \A v \in 1..Visits : audio[v] = "bindRtcp" => rtpSocket
    /\ \A v \in 1..Visits : InSession(v) => rtpSocket /\ "rtcp" \in ports
    /\ rtpSession # "null" => rtpSocket /\ "rtcp" \in ports
    /\ \A v, w \in 1..Visits : InSession(v) /\ InSession(w) => v = w

IInv == Typed /\ Flags /\ Memory /\ DecoderOwned /\ PortHeld

USE VisitsAssumption, FramesAssumption
    DEF globals, videoVars, audioVars, uiVars, VideoRuns, InSession, Null, InCall

LEMMA ClassInit == Init => IInv
<1> SUFFICES ASSUME Init PROVE IInv
  OBVIOUS
<1>1. Typed
  BY DEF Init, Typed, VideoPlaces, AudioPlaces
<1>5. Flags
  BY DEF Init, Flags
<1>6. Memory
  BY DEF Init, Memory
<1>2. DecoderOwned
  BY DEF Init, DecoderOwned, HasOwner, CallsApart, VisitsApart
<1>3. PortHeld
  BY DEF Init, PortHeld
<1>4. QED
  BY <1>1, <1>5, <1>6, <1>2, <1>3 DEF IInv

LEMMA EnterStep ==
    ASSUME IInv, Enter
    PROVE  IInv'
<1>0. visit + 1 \in 1..Visits /\ visit' \in 0..Visits
  BY DEF IInv, Typed, Enter
<1>1. Typed'
  BY <1>0 DEF IInv, Typed, Enter, VideoPlaces, AudioPlaces
<1>4. Flags' /\ Memory'
  BY <1>0 DEF IInv, Typed, Flags, Memory, Enter
<1>2. DecoderOwned'
  <2>1. /\ process = "alive" /\ overlapped' = (overlapped \/ \E v \in 1..Visits : VideoRuns(v))
        /\ \A v \in 1..Visits \ {visit + 1} : video'[v] = video[v]
        /\ video' = [video EXCEPT ![visit + 1] = "connect"]
        /\ UNCHANGED <<globals, process>>
    BY <1>0 DEF Enter
  <2>2. CASE ~VideoRuns(visit + 1)
    <3> USE <1>0, <2>1, <2>2 DEF IInv, Typed, DecoderOwned
    <3>1. HasOwner'
      BY DEF HasOwner, HasContext, HasFrame
    <3>2. ~together => CallsApart'
      BY DEF CallsApart
    <3>3. ~overlapped' => VisitsApart'
      BY DEF VisitsApart
    <3>4. QED
      BY <3>1, <3>2, <3>3
  <2>3. QED
    BY <1>0, <2>2 DEF IInv, Typed
<1>3. PortHeld'
  BY <1>0 DEF IInv, Typed, PortHeld, Enter
<1>5. QED
  BY <1>1, <1>2, <1>3, <1>4 DEF IInv

LEMMA LeaveStep ==
    ASSUME IInv, LeaveStopsVideo \/ LeaveStopsAudio \/ LeaveReleasesTrack
    PROVE  IInv'
<1> USE DEF LeaveStopsVideo, LeaveStopsAudio, LeaveReleasesTrack
<1>1. Typed'
  BY DEF IInv, Typed
<1>6. Flags' /\ Memory'
  BY DEF IInv, Flags, Memory
<1>2. UNCHANGED <<video, globals, overlapped>> /\ process' \in {process, "uncaught"}
  OBVIOUS
<1>3. HasOwner' /\ (~together => CallsApart') /\ (~overlapped => VisitsApart')
  BY <1>2 DEF IInv, DecoderOwned, HasOwner, CallsApart, VisitsApart
<1>4. PortHeld'
  BY DEF IInv, PortHeld
<1>5. QED
  BY <1>1, <1>2, <1>3, <1>4, <1>6 DEF IInv, DecoderOwned

-----------------------------------------------------------------------------
(* A video thread leaves the audio side alone.                             *)

LEMMA VideoTyped ==
    ASSUME IInv, NEW v \in 1..Visits, Video(v)
    PROVE  /\ UNCHANGED <<uiVars, audioVars>> /\ process = "alive"
           /\ video[v] \notin {"none", "done"}
           /\ \A w \in 1..Visits \ {v} : video'[w] = video[w]
           /\ Typed' /\ Flags' /\ PortHeld'
<1> USE DEF IInv, At, Goto, Crash, Touches, Frees, EntersCall
<1>1. UNCHANGED <<uiVars, audioVars>> /\ process = "alive" /\ video[v] \notin {"none", "done"}
  BY DEF Video, VideoConnects, VideoLoop, VideoReads, Clean, DecoderInit, CheckContext,
         AllocContext, OpenContext, DecodeData, DecodeFrame, PictureScaled, ReleaseDecoder,
         FreeScaler, FreeFrame, ForgetFrame, FreeContext, ForgetContext
<1>2. \E l \in VideoPlaces \ {"none"} : video' \in {video, [video EXCEPT ![v] = l]}
  BY DEF VideoPlaces, Video, VideoConnects, VideoLoop, VideoReads, Clean, DecoderInit, CheckContext,
         AllocContext, OpenContext, DecodeData, DecodeFrame, PictureScaled, ReleaseDecoder,
         FreeScaler, FreeFrame, ForgetFrame, FreeContext, ForgetContext
<1>3. /\ swsctx' \in {swsctx, "null", "live", "freed"}
      /\ process' \in {"alive", "exited", "segv", "raced", "corrupted"}
  BY DEF Video, VideoConnects, VideoLoop, VideoReads, Clean, DecoderInit, CheckContext,
         AllocContext, OpenContext, DecodeData, DecodeFrame, PictureScaled, ReleaseDecoder,
         FreeScaler, FreeFrame, ForgetFrame, FreeContext, ForgetContext
<1>4. runningFlag' \in {runningFlag, FALSE} /\ together' \in {together, TRUE, FALSE}
  BY DEF Video, VideoConnects, VideoLoop, VideoReads, Clean, DecoderInit, CheckContext,
         AllocContext, OpenContext, DecodeData, DecodeFrame, PictureScaled, ReleaseDecoder,
         FreeScaler, FreeFrame, ForgetFrame, FreeContext, ForgetContext
<1>5. \A w \in 1..Visits \ {v} : video'[w] = video[w]
  BY <1>2 DEF Typed
<1>6. Typed'
  <2>1. video' \in [1..Visits -> VideoPlaces]
    BY <1>2 DEF Typed
  <2>2. \A w \in 1..Visits : w > visit => video'[w] = "none"
    BY <1>1, <1>2 DEF Typed
  <2>3. QED
    BY <1>1, <1>3, <2>1, <2>2 DEF Typed
<1>7. Flags' /\ PortHeld'
  BY <1>1, <1>4 DEF Flags, PortHeld
<1>8. QED
  BY <1>1, <1>5, <1>6, <1>7

LEMMA MemoryTyped ==
    ASSUME IInv, NEW v \in 1..Visits, Video(v)
    PROVE  Memory'
<1>0. /\ video[v] \notin {"none", "done"}
      /\ \A w \in 1..Visits \ {v} : video'[w] = video[w]
      /\ video \in [1..Visits -> VideoPlaces] /\ Memory
  BY VideoTyped DEF IInv, Typed
<1> USE <1>0 DEF Memory, At, Goto, Frames, Crash, Frees
<1>1. CASE VideoConnects(v) \/ VideoLoop(v) \/ Clean(v)
  BY <1>1 DEF VideoConnects, VideoLoop, Clean
<1>2. CASE VideoReads(v)
  BY <1>2 DEF VideoReads
<1>3. CASE CheckContext(v)
  BY <1>3 DEF CheckContext
<1>4. CASE AllocContext(v)
  BY <1>4 DEF AllocContext, Objects
<1>5. CASE OpenContext(v)
  BY <1>5 DEF OpenContext, Objects
<1>6. CASE DecodeFrame(v)
  BY <1>6 DEF DecodeFrame
<1>7. CASE PictureScaled(v)
  <2>1. frames[v] \in 1..FramesPerRead /\ UNCHANGED <<ctx, frame, heap>>
    BY <1>7 DEF PictureScaled
  <2>2. \/ UNCHANGED <<video, frames>>
        \/ frames' = [frames EXCEPT ![v] = 0] /\ video'[v] = "clean"
        \/ /\ frames' = [frames EXCEPT ![v] = frames[v] - 1]
           /\ video'[v] = IF frames[v] = 1 THEN "loop" ELSE "decode"
    BY <1>7 DEF PictureScaled
  <2>3. QED
    BY <2>1, <2>2
<1>8. CASE ReleaseDecoder(v)
  BY <1>8 DEF ReleaseDecoder, FreeScaler, FreeFrame, ForgetFrame, FreeContext, ForgetContext
<1>9. QED
  BY <1>1, <1>2, <1>3, <1>4, <1>5, <1>6, <1>7, <1>8 DEF Video, DecoderInit, DecodeData

LEMMA OwnerKept ==
    ASSUME IInv, NEW v \in 1..Visits, Video(v)
    PROVE  HasOwner'
<1>0. /\ \A w \in 1..Visits \ {v} : video'[w] = video[w]
      /\ video \in [1..Visits -> VideoPlaces] /\ HasOwner
  BY VideoTyped DEF IInv, Typed, DecoderOwned
<1> USE <1>0 DEF HasOwner, At, Goto, Crash, HasContext, HasFrame
<1>1. CASE VideoConnects(v) \/ VideoLoop(v) \/ VideoReads(v) \/ Clean(v)
  BY <1>1 DEF VideoConnects, VideoLoop, VideoReads, Clean
<1>2. CASE CheckContext(v)
  BY <1>2 DEF CheckContext
<1>3. CASE AllocContext(v)
  BY <1>3 DEF AllocContext
<1>4. CASE OpenContext(v)
  BY <1>4 DEF OpenContext
<1>5. CASE DecodeFrame(v) \/ PictureScaled(v)
  BY <1>5 DEF DecodeFrame, PictureScaled
<1>6. CASE FreeScaler(v)
  BY <1>6 DEF FreeScaler
<1>7. CASE FreeFrame(v) \/ ForgetFrame(v)
  BY <1>7 DEF FreeFrame, ForgetFrame
<1>8. CASE FreeContext(v) \/ ForgetContext(v)
  BY <1>8 DEF FreeContext, ForgetContext
<1>9. QED
  BY <1>1, <1>2, <1>3, <1>4, <1>5, <1>6, <1>7, <1>8
     DEF Video, DecoderInit, DecodeData, ReleaseDecoder

LEMMA CallsKept ==
    ASSUME IInv, NEW v \in 1..Visits, Video(v), ~together'
    PROVE  CallsApart'
<1>1. ~together
  BY DEF Video, VideoConnects, VideoLoop, VideoReads, Clean, DecoderInit, CheckContext,
         AllocContext, OpenContext, DecodeData, DecodeFrame, PictureScaled, ReleaseDecoder,
         FreeScaler, FreeFrame, ForgetFrame, FreeContext, ForgetContext, Crash, EntersCall,
         IInv, Flags
<1>2. /\ \A w \in 1..Visits \ {v} : video'[w] = video[w]
      /\ video \in [1..Visits -> VideoPlaces] /\ CallsApart
  BY <1>1, VideoTyped DEF IInv, Typed, DecoderOwned
<1> USE <1>1, <1>2 DEF CallsApart, At, Goto, Crash
<1>3. CASE VideoConnects(v) \/ VideoLoop(v) \/ VideoReads(v) \/ Clean(v)
  <2>1. /\ UNCHANGED globals
        /\ video[v] \in {"connect", "loop", "read", "clean"}
        /\ video'[v] \in {"init", "loop", "read", "decode", "clean", "release"}
    BY <1>3 DEF VideoConnects, VideoLoop, VideoReads, Clean
  <2>2. QED
    BY <2>1
<1>4. CASE CheckContext(v)
  <2>1. /\ UNCHANGED <<ctx, frame, heap>> /\ video[v] = "init"
        /\ \/ video' = video
           \/ /\ ctx = Null /\ video'[v] = "create"
              /\ \A w \in (1..Visits) \ {v} : ~InCall(w)
    <3>1. CASE ctx # Null
      BY <1>4, <3>1 DEF CheckContext
    <3>2. CASE ctx = Null
      <4>1. EntersCall(v) /\ video' = [video EXCEPT ![v] = "create"]
        BY <1>4, <3>2 DEF CheckContext
      <4>2. \A w \in (1..Visits) \ {v} : ~InCall(w)
        BY <4>1 DEF EntersCall
      <4>3. QED
        BY <1>4, <3>2, <4>1, <4>2 DEF CheckContext
    <3>3. QED
      BY <3>1, <3>2
  <2>2. QED
    BY <2>1
<1>5. CASE AllocContext(v)
  <2>1. \A w \in 1..Visits \ {v} : ~InCall(w) /\ ~InCall(w)'
    BY <1>5 DEF AllocContext
  <2>2. /\ video[v] = "create" /\ UNCHANGED <<frame, together>>
        /\ \/ video'[v] = "clean" /\ UNCHANGED <<ctx, heap>>
           \/ video'[v] = "open" /\ ctx' = v /\ heap' = heap \cup {<<"ctx", v>>}
    BY <1>5 DEF AllocContext
  <2>3. heap = {}
    <3>1. <<"ctx", Null>> \notin heap /\ <<"frame", Null>> \notin heap
      BY DEF IInv, Memory, Objects
    <3>2. QED
      BY <2>2, <3>1
  <2>4. QED
    BY <2>1, <2>2, <2>3
<1>6. CASE OpenContext(v)
  <2>1. \A w \in 1..Visits \ {v} : ~InCall(w) /\ ~InCall(w)'
    BY <1>6 DEF OpenContext
  <2>2. /\ video[v] = "open" /\ ctx # Null /\ frame = Null /\ UNCHANGED <<ctx, together>>
        /\ \/ video'[v] = "clean" /\ UNCHANGED <<frame, heap>>
           \/ video'[v] = "loop" /\ frame' = v /\ heap' = heap \cup {<<"frame", v>>}
    BY <1>6 DEF OpenContext
  <2>3. heap = {<<"ctx", ctx>>}
    <3>1. <<"frame", Null>> \notin heap
      BY DEF IInv, Memory, Objects
    <3>2. QED
      BY <2>1, <2>2, <3>1
  <2>4. QED
    BY <2>1, <2>2, <2>3
<1>7. CASE DecodeFrame(v) \/ PictureScaled(v)
  <2>1. UNCHANGED <<ctx, frame, heap>> /\ video[v] \in {"decode", "decoding"}
    BY <1>7 DEF DecodeFrame, PictureScaled
  <2>2. video'[v] \in {"decode", "decoding", "clean", "loop"}
    BY <1>7 DEF DecodeFrame, PictureScaled
  <2>3. QED
    BY <2>1, <2>2
<1>8. CASE FreeScaler(v)
  BY <1>8 DEF FreeScaler, EntersCall
<1>9. CASE FreeFrame(v)
  BY <1>9 DEF FreeFrame, Frees
<1>10. CASE ForgetFrame(v)
  BY <1>10 DEF ForgetFrame
<1>11. CASE FreeContext(v)
  BY <1>11 DEF FreeContext, Frees
<1>12. CASE ForgetContext(v)
  BY <1>12 DEF ForgetContext
<1>13. QED
  BY <1>3, <1>4, <1>5, <1>6, <1>7, <1>8, <1>9, <1>10, <1>11, <1>12
     DEF Video, DecoderInit, DecodeData, ReleaseDecoder

LEMMA VisitsKept ==
    ASSUME IInv, NEW v \in 1..Visits, Video(v), ~overlapped'
    PROVE  ~together' /\ VisitsApart'
<1>1. VisitsApart /\ CallsApart /\ HasOwner /\ ~together
  BY VideoTyped DEF IInv, DecoderOwned, VisitsApart
<1>2. /\ \A w \in 1..Visits : VideoRuns(w) => w = v
      /\ \A w \in 1..Visits \ {v} : video'[w] = video[w]
      /\ video \in [1..Visits -> VideoPlaces]
      /\ video[v] \notin {"none", "done"}
  BY <1>1, VideoTyped DEF VisitsApart, IInv, Typed
<1> USE <1>1, <1>2 DEF VisitsApart, At, Goto, Crash, EntersCall, Touches, Frees
<1>3. CASE VideoConnects(v) \/ VideoLoop(v) \/ VideoReads(v) \/ Clean(v)
  BY <1>3 DEF VideoConnects, VideoLoop, VideoReads, Clean
<1>4. CASE CheckContext(v)
  BY <1>4 DEF CheckContext, HasOwner, HasContext
<1>5. CASE AllocContext(v)
  BY <1>5 DEF AllocContext
<1>6. CASE OpenContext(v)
  BY <1>6 DEF OpenContext, CallsApart
<1>7. CASE DecodeFrame(v) \/ PictureScaled(v)
  <2>1. ctx # Null /\ frame # Null /\ {<<"ctx", ctx>>, <<"frame", frame>>} \subseteq heap
    BY <1>7 DEF DecodeFrame, PictureScaled, CallsApart
  <2>2. CASE DecodeFrame(v)
    BY <2>1, <2>2 DEF DecodeFrame
  <2>3. CASE PictureScaled(v)
    <3>1. process' = "alive" /\ UNCHANGED <<ctx, frame, together>>
      BY <2>1, <2>3 DEF PictureScaled
    <3>2. video'[v] \in {"clean", "loop", "decode"}
      BY <2>1, <2>3 DEF PictureScaled
    <3>3. QED
      BY <2>1, <3>1, <3>2
  <2>4. QED
    BY <1>7, <2>2, <2>3
<1>8. CASE FreeScaler(v)
  BY <1>8 DEF FreeScaler
<1>9. CASE ForgetFrame(v) \/ ForgetContext(v)
  BY <1>9 DEF ForgetFrame, ForgetContext
<1>10. CASE FreeFrame(v)
  BY <1>10 DEF FreeFrame, CallsApart
<1>11. CASE FreeContext(v)
  BY <1>11 DEF FreeContext, CallsApart
<1>12. QED
  BY <1>3, <1>4, <1>5, <1>6, <1>7, <1>8, <1>9, <1>10, <1>11
     DEF Video, DecoderInit, DecodeData, ReleaseDecoder

LEMMA VideoStep ==
    ASSUME IInv, NEW v \in 1..Visits, Video(v)
    PROVE  IInv'
<1>1. QED
  BY VideoTyped, MemoryTyped, OwnerKept, CallsKept, VisitsKept DEF IInv, DecoderOwned

-----------------------------------------------------------------------------
(* An audio thread leaves the video side alone.                            *)
LEMMA AudioStep ==
    ASSUME IInv, NEW v \in 1..Visits, Audio(v)
    PROVE  IInv'
<1> USE DEF AudioAt, AudioGoto
<1>1. Typed'
  BY DEF IInv, Typed, AudioPlaces, Audio, AudioChecks, AudioBindsRtp, AudioBindsRtcp,
         AudioCreatesSession, AudioRegisters, AudioCreatesTrack
<1>3. Flags' /\ Memory'
  BY DEF IInv, Flags, Memory, Audio, AudioChecks, AudioBindsRtp, AudioBindsRtcp,
         AudioCreatesSession, AudioRegisters, AudioCreatesTrack
<1>2. DecoderOwned'
  <2>1. UNCHANGED <<video, globals, overlapped, process>>
    BY DEF Audio, AudioChecks, AudioBindsRtp, AudioBindsRtcp, AudioCreatesSession, AudioRegisters,
           AudioCreatesTrack
  <2>2. QED
    BY <2>1 DEF IInv, DecoderOwned, HasOwner, CallsApart, VisitsApart
<1>4. PortHeld'
  <2> USE DEF IInv, Typed, PortHeld
  <2>1. CASE AudioChecks(v)
    BY <2>1 DEF AudioChecks
  <2>2. CASE AudioBindsRtp(v)
    BY <2>2 DEF AudioBindsRtp
  <2>3. CASE AudioBindsRtcp(v)
    BY <2>3 DEF AudioBindsRtcp
  <2>4. CASE AudioCreatesSession(v)
    BY <2>4 DEF AudioCreatesSession
  <2>5. CASE AudioRegisters(v)
    BY <2>5 DEF AudioRegisters
  <2>6. CASE AudioCreatesTrack(v)
    BY <2>6 DEF AudioCreatesTrack
  <2>7. QED
    BY <2>1, <2>2, <2>3, <2>4, <2>5, <2>6 DEF Audio
<1>5. QED
  BY <1>1, <1>2, <1>3, <1>4 DEF IInv

(* IInv is inductive.                                                      *)
LEMMA ClassNext == IInv /\ [Next]_vars => IInv'
<1> SUFFICES ASSUME IInv, [Next]_vars PROVE IInv'
  OBVIOUS
<1>1. CASE UI
  BY <1>1, EnterStep, LeaveStep DEF UI
<1>2. ASSUME NEW v \in 1..Visits, Video(v) \/ Audio(v) PROVE IInv'
  BY <1>2, VideoStep, AudioStep
<1>3. CASE UNCHANGED vars
  <2>1. Typed' /\ Flags' /\ Memory' /\ PortHeld'
    BY <1>3 DEF IInv, Typed, Flags, Memory, PortHeld, vars
  <2>2. DecoderOwned'
    BY <1>3 DEF IInv, DecoderOwned, HasOwner, CallsApart, VisitsApart, vars
  <2>3. QED
    BY <2>1, <2>2 DEF IInv
<1>4. QED
  BY <1>1, <1>2, <1>3 DEF Next

LEMMA ClassInvariant == Spec => []IInv
<1>1. QED
  BY ClassInit, ClassNext, PTL DEF Spec

(* Every variable keeps its type, and a session has its two ports.         *)
THEOREM TypeCorrect == Spec => []TypeOK
<1>1. IInv => TypeOK
  BY DEF IInv, Typed, Flags, Memory, PortHeld, TypeOK, VideoPlaces, AudioPlaces
<1>2. QED
  BY <1>1, ClassInvariant, PTL

(* Whatever way the video threads of however many visits end, and however  *)
(* they meet in the native calls, the last of them leaves both pointers    *)
(* null; and if no two of decoderInit() and releaseDecoder() met, nothing  *)
(* is left allocated either.                                               *)
THEOREM DecoderFreed == Spec => []DecoderReleased
<1>1. ASSUME IInv, \A v \in 1..Visits : ~VideoRuns(v)
      PROVE  ctx = Null /\ frame = Null /\ (~together => heap = {})
  <2>1. ctx = Null /\ frame = Null
    BY <1>1 DEF IInv, DecoderOwned, HasOwner, HasContext, HasFrame
  <2>2. ASSUME ~together PROVE heap = {}
    BY <1>1, <2>1, <2>2 DEF IInv, Memory, DecoderOwned, CallsApart, Objects
  <2>3. QED
    BY <2>1, <2>2
<1>2. IInv => DecoderReleased
  BY <1>1 DEF DecoderReleased
<1>3. QED
  BY <1>2, ClassInvariant, PTL

(* The decoder ends the process, by exit(0), a null pointer or memory that *)
(* is freed, only if two visits' video threads overlap.                    *)
THEOREM OnlyOverlapKills == Spec => []OverlapOnly
<1>1. IInv => OverlapOnly
  BY DEF IInv, DecoderOwned, VisitsApart, OverlapOnly
<1>2. QED
  BY <1>1, ClassInvariant, PTL

(* However many audio threads race for the ports, one gets to a session.   *)
THEOREM SessionIsOne == Spec => []OneSession
<1>1. ASSUME IInv PROVE OneSession
  <2> DEFINE S == {v \in 1..Visits : InSession(v)}
  <2>1. CASE S = {}
    BY <2>1, FS_EmptySet DEF OneSession
  <2>2. CASE S # {}
    <3>1. PICK v \in 1..Visits : S = {v}
      BY <1>1, <2>2 DEF IInv, PortHeld
    <3>2. Cardinality({v}) = 1
      BY FS_Singleton
    <3>3. QED
      BY <3>1, <3>2 DEF OneSession
  <2>3. QED
    BY <2>1, <2>2
<1>2. QED
  BY <1>1, ClassInvariant, PTL

-----------------------------------------------------------------------------
(* The flag all visits share, and the scaling context all visits free.     *)

(* Once the student is on the way out, the flag is down until the next     *)
(* visit; and while no two visits overlap, nothing but the student's       *)
(* leaving takes it from a video thread that has not begun to clean up.    *)
Working == {"connect", "init", "create", "open", "loop", "read", "decode", "decoding"}
FlagFollows ==
    /\ ui # "in" /\ visit > 0 => ~runningFlag
    /\ ~overlapped /\ ui = "in" =>
          visit > 0 /\ (video[visit] \in Working => runningFlag)

(* A scaling context is freed by a video thread on its last steps, so that *)
(* it takes two of them to free one twice.                                 *)
Ended == {v \in 1..Visits :
            video[v] \in {"freeFrame", "forgetFrame", "freeCtx", "forgetCtx", "done"}}
FreedByEnded ==
    /\ swsctx = "freed" => Ended # {}
    /\ process = "corrupted" => \E v, w \in Ended : v # w

(* How far a video thread is from its end when the flag is down and it has *)
(* n frames left of what it read.                                          *)
VideoToGo(l, n) ==
    CASE l = "connect" -> 2 * FramesPerRead + 12
      [] l = "init" -> 2 * FramesPerRead + 11
      [] l = "create" -> 2 * FramesPerRead + 10
      [] l = "open" -> 2 * FramesPerRead + 9
      [] l = "read" -> 2 * FramesPerRead + 8
      [] l = "decode" -> 2 * n + 7
      [] l = "decoding" -> 2 * n + 6
      [] l = "loop" -> 7
      [] l = "clean" -> 6
      [] l = "release" -> 5
      [] l = "freeFrame" -> 4
      [] l = "forgetFrame" -> 3
      [] l = "freeCtx" -> 2
      [] l = "forgetCtx" -> 1
      [] OTHER -> 0
ToGo(v) == VideoToGo(video[v], frames[v])

(* No thread goes back, and each step of its own brings it nearer to its   *)
(* end or takes the process down.                                          *)
VideoRunsDown ==
    ~runningFlag /\ ~runningFlag' =>
        \A v \in 1..Visits :
            /\ video'[v] # video[v] => ToGo(v)' < ToGo(v)
            /\ Video(v) => ToGo(v)' < ToGo(v) \/ process' # "alive"

SharedInv == IInv /\ FlagFollows /\ FreedByEnded

LEMMA SharedInit == Init => SharedInv
<1> SUFFICES ASSUME Init PROVE SharedInv
  OBVIOUS
<1>1. FlagFollows /\ FreedByEnded
  BY DEF Init, FlagFollows, FreedByEnded
<1>2. QED
  BY <1>1, ClassInit DEF SharedInv

LEMMA FlagVideo ==
    ASSUME SharedInv, NEW v \in 1..Visits, Video(v)
    PROVE  FlagFollows'
<1>1. /\ visit > 0 => visit \in 1..Visits
      /\ UNCHANGED uiVars /\ FlagFollows
      /\ \A w \in 1..Visits \ {v} : video'[w] = video[w]
      /\ video \in [1..Visits -> VideoPlaces] /\ VideoRuns(v)
      /\ ~overlapped => \A w \in 1..Visits : VideoRuns(w) => w = v
  BY VideoTyped DEF SharedInv, IInv, Typed, DecoderOwned, VisitsApart
<1> USE <1>1 DEF FlagFollows, At, Goto, Crash, Working
<1>2. CASE Clean(v)
  BY <1>2 DEF Clean
<1>3. CASE ~Clean(v)
  <2>1. runningFlag' = runningFlag
    BY <1>3 DEF Video, VideoConnects, VideoLoop, VideoReads, Clean, DecoderInit, CheckContext,
       AllocContext, OpenContext, DecodeData, DecodeFrame, PictureScaled,
       ReleaseDecoder, FreeScaler, FreeFrame, ForgetFrame, FreeContext, ForgetContext
  <2>2. video'[v] \in Working => video[v] \in Working
    BY <1>3 DEF Video, VideoConnects, VideoLoop, VideoReads, Clean, DecoderInit, CheckContext,
       AllocContext, OpenContext, DecodeData, DecodeFrame, PictureScaled,
       ReleaseDecoder, FreeScaler, FreeFrame, ForgetFrame, FreeContext, ForgetContext
  <2>3. QED
    BY <2>1, <2>2
<1>4. QED
  BY <1>2, <1>3

LEMMA FreedVideo ==
    ASSUME SharedInv, NEW v \in 1..Visits, Video(v)
    PROVE  FreedByEnded'
<1>1. /\ \A w \in 1..Visits \ {v} : video'[w] = video[w]
      /\ video \in [1..Visits -> VideoPlaces] /\ process = "alive" /\ FreedByEnded
  BY VideoTyped DEF SharedInv, IInv, Typed
<1> USE <1>1 DEF At, Goto, Crash
<1>2. CASE FreeScaler(v)
  <2>1. Ended' = Ended \cup {v} /\ v \notin Ended
    BY <1>2 DEF FreeScaler, Ended
  <2>2. process' = "corrupted" => swsctx = "freed"
    BY <1>2 DEF FreeScaler
  <2>3. QED
    BY <2>1, <2>2 DEF FreedByEnded
<1>3. CASE ~FreeScaler(v)
  <2>1. Ended \subseteq Ended'
    BY <1>3 DEF Ended, Video, VideoConnects, VideoLoop, VideoReads, Clean, DecoderInit, CheckContext,
       AllocContext, OpenContext, DecodeData, DecodeFrame, PictureScaled,
       ReleaseDecoder, FreeScaler, FreeFrame, ForgetFrame, FreeContext, ForgetContext
  <2>2. swsctx' = "freed" => swsctx = "freed"
    BY <1>3 DEF Video, VideoConnects, VideoLoop, VideoReads, Clean, DecoderInit, CheckContext,
       AllocContext, OpenContext, DecodeData, DecodeFrame, PictureScaled,
       ReleaseDecoder, FreeScaler, FreeFrame, ForgetFrame, FreeContext, ForgetContext
  <2>3. process' # "corrupted"
    BY <1>3 DEF Touches, Frees, Video, VideoConnects, VideoLoop, VideoReads, Clean, DecoderInit, CheckContext,
       AllocContext, OpenContext, DecodeData, DecodeFrame, PictureScaled,
       ReleaseDecoder, FreeScaler, FreeFrame, ForgetFrame, FreeContext, ForgetContext
  <2>4. QED
    BY <2>1, <2>2, <2>3 DEF FreedByEnded
<1>4. QED
  BY <1>2, <1>3

LEMMA SharedNext == SharedInv /\ [Next]_vars => SharedInv'
<1> SUFFICES ASSUME SharedInv, [Next]_vars PROVE SharedInv'
  OBVIOUS
<1>1. IInv'
  BY ClassNext DEF SharedInv
<1>2. CASE Enter
  <2>1. visit + 1 \in 1..Visits /\ visit' = visit + 1 /\ runningFlag' /\ ui' = "in"
    BY <1>2 DEF SharedInv, IInv, Typed, Enter
  <2>2. FlagFollows'
    BY <2>1 DEF FlagFollows
  <2>3. Ended' = Ended \ {visit + 1} /\ UNCHANGED <<swsctx, process>>
    BY <1>2, <2>1 DEF SharedInv, IInv, Typed, Enter, Ended
  <2>4. visit + 1 \notin Ended
    BY <2>1 DEF SharedInv, IInv, Typed, Ended
  <2>5. FreedByEnded'
    BY <2>3, <2>4 DEF SharedInv, FreedByEnded
  <2>6. QED
    BY <1>1, <2>2, <2>5 DEF SharedInv
<1>3. CASE LeaveStopsVideo \/ LeaveStopsAudio \/ LeaveReleasesTrack
  <2>1. FlagFollows'
    BY <1>3 DEF SharedInv, FlagFollows, LeaveStopsVideo, LeaveStopsAudio, LeaveReleasesTrack
  <2>2. Ended' = Ended /\ swsctx' = swsctx /\ (process' = "corrupted" => process = "corrupted")
    BY <1>3 DEF Ended, LeaveStopsVideo, LeaveStopsAudio, LeaveReleasesTrack
  <2>3. QED
    BY <1>1, <2>1, <2>2 DEF SharedInv, FreedByEnded
<1>4. ASSUME NEW v \in 1..Visits, Video(v) PROVE SharedInv'
  BY <1>1, <1>4, FlagVideo, FreedVideo DEF SharedInv
<1>5. ASSUME NEW v \in 1..Visits, Audio(v) PROVE SharedInv'
  <2>1. UNCHANGED <<uiVars, videoVars, process>>
    BY <1>5 DEF Audio, AudioChecks, AudioBindsRtp, AudioBindsRtcp, AudioCreatesSession,
       AudioRegisters, AudioCreatesTrack
  <2>2. QED
    BY <1>1, <2>1 DEF SharedInv, FlagFollows, FreedByEnded, Ended
<1>6. CASE UNCHANGED vars
  BY <1>1, <1>6 DEF SharedInv, FlagFollows, FreedByEnded, Ended, vars
<1>7. QED
  BY <1>2, <1>3, <1>4, <1>5, <1>6 DEF Next, UI

LEMMA SharedInvariant == Spec => []SharedInv
<1>1. QED
  BY SharedInit, SharedNext, PTL DEF Spec

(* RUNNING_FLAG, one for all visits, does what VideoPlayer.stop() needs:   *)
(* it stays down from the student's leaving to the next visit, and no      *)
(* thread of another visit takes it from the present one's unless the two  *)
(* overlap.                                                                *)
THEOREM FlagIsTheVisits == Spec => []FlagFollows
<1>1. QED
  BY SharedInvariant, PTL DEF SharedInv

(* releaseDecoder() frees the scaling context twice only in the second     *)
(* visit, or a later one, whose video thread gets that far.                *)
THEOREM FreedTwiceByTwo == Spec => []FreedByEnded
<1>1. QED
  BY SharedInvariant, PTL DEF SharedInv

(* The places in the order a thread passes them.                           *)
LEMMA ToGoOrder ==
    ASSUME NEW n \in 0..FramesPerRead, NEW m \in 0..FramesPerRead
    PROVE  /\ VideoToGo("init", n) < VideoToGo("connect", m)
           /\ VideoToGo("create", n) < VideoToGo("init", m)
           /\ VideoToGo("open", n) < VideoToGo("create", m)
           /\ VideoToGo("loop", n) < VideoToGo("open", m)
           /\ VideoToGo("decode", n) < VideoToGo("read", m)
           /\ VideoToGo("loop", n) < VideoToGo("read", m)
           /\ VideoToGo("decoding", n) < VideoToGo("decode", n)
           /\ VideoToGo("decode", n) < VideoToGo("decoding", n + 1)
           /\ VideoToGo("loop", n) < VideoToGo("decoding", 1)
           /\ \A l \in {"connect", "create", "open", "loop", "read"} :
                VideoToGo("clean", n) < VideoToGo(l, m)
           /\ m > 0 => VideoToGo("clean", n) < VideoToGo("decoding", m)
           /\ VideoToGo("release", n) < VideoToGo("clean", m)
           /\ VideoToGo("freeFrame", n) < VideoToGo("release", m)
           /\ VideoToGo("forgetFrame", n) < VideoToGo("freeFrame", m)
           /\ VideoToGo("freeCtx", n) < VideoToGo("freeFrame", m)
           /\ VideoToGo("freeCtx", n) < VideoToGo("forgetFrame", m)
           /\ VideoToGo("forgetCtx", n) < VideoToGo("freeCtx", m)
           /\ VideoToGo("done", n) < VideoToGo("freeCtx", m)
           /\ VideoToGo("done", n) < VideoToGo("forgetCtx", m)
<1>1. \A i : VideoToGo("connect", i) = 2 * FramesPerRead + 12
  BY DEF VideoToGo
<1>2. \A i : VideoToGo("init", i) = 2 * FramesPerRead + 11
  BY DEF VideoToGo
<1>3. \A i : VideoToGo("create", i) = 2 * FramesPerRead + 10
  BY DEF VideoToGo
<1>4. \A i : VideoToGo("open", i) = 2 * FramesPerRead + 9
  BY DEF VideoToGo
<1>5. \A i : VideoToGo("read", i) = 2 * FramesPerRead + 8
  BY DEF VideoToGo
<1>6. \A i \in Nat : VideoToGo("decode", i) = 2 * i + 7
  BY DEF VideoToGo
<1>7. \A i \in Nat : VideoToGo("decoding", i) = 2 * i + 6
  BY DEF VideoToGo
<1>8. \A i : VideoToGo("loop", i) = 7
  BY DEF VideoToGo
<1>9. \A i : VideoToGo("clean", i) = 6
  BY DEF VideoToGo
<1>10. \A i : VideoToGo("release", i) = 5
  BY DEF VideoToGo
<1>11. \A i : VideoToGo("freeFrame", i) = 4
  BY DEF VideoToGo
<1>12. \A i : VideoToGo("forgetFrame", i) = 3
  BY DEF VideoToGo
<1>13. \A i : VideoToGo("freeCtx", i) = 2
  BY DEF VideoToGo
<1>14. \A i : VideoToGo("forgetCtx", i) = 1
  BY DEF VideoToGo
<1>15. \A i : VideoToGo("done", i) = 0
  BY DEF VideoToGo
<1>16. n \in Nat /\ m \in Nat /\ n + 1 \in Nat /\ n <= FramesPerRead /\ FramesPerRead \in Nat
  OBVIOUS
<1>17. \A l \in {"connect", "create", "open", "loop", "read"} :
         VideoToGo("clean", n) < VideoToGo(l, m)
  <2>1. VideoToGo("clean", n) < VideoToGo("connect", m)
    BY <1>1, <1>9, <1>16
  <2>2. VideoToGo("clean", n) < VideoToGo("create", m)
    BY <1>3, <1>9, <1>16
  <2>3. VideoToGo("clean", n) < VideoToGo("open", m)
    BY <1>4, <1>9, <1>16
  <2>4. VideoToGo("clean", n) < VideoToGo("loop", m)
    BY <1>8, <1>9
  <2>5. VideoToGo("clean", n) < VideoToGo("read", m)
    BY <1>5, <1>9, <1>16
  <2>6. QED
    BY <2>1, <2>2, <2>3, <2>4, <2>5
<1>18. m > 0 => VideoToGo("clean", n) < VideoToGo("decoding", m)
  BY <1>7, <1>9, <1>16
<1>19. /\ VideoToGo("init", n) < VideoToGo("connect", m)
       /\ VideoToGo("create", n) < VideoToGo("init", m)
       /\ VideoToGo("open", n) < VideoToGo("create", m)
       /\ VideoToGo("loop", n) < VideoToGo("open", m)
  BY <1>1, <1>2, <1>3, <1>4, <1>8, <1>16
<1>20. /\ VideoToGo("decode", n) < VideoToGo("read", m)
       /\ VideoToGo("loop", n) < VideoToGo("read", m)
  BY <1>5, <1>6, <1>8, <1>16
<1>21. /\ VideoToGo("decoding", n) < VideoToGo("decode", n)
       /\ VideoToGo("decode", n) < VideoToGo("decoding", n + 1)
       /\ VideoToGo("loop", n) < VideoToGo("decoding", 1)
  BY <1>6, <1>7, <1>8, <1>16
<1>22. QED
  BY <1>9, <1>10, <1>11, <1>12, <1>13, <1>14, <1>15, <1>17, <1>18, <1>19, <1>20, <1>21

LEMMA VideoStepsDown ==
    ASSUME SharedInv, ~runningFlag, NEW v \in 1..Visits, Video(v)
    PROVE  /\ \A w \in 1..Visits \ {v} : video'[w] = video[w]
           /\ ToGo(v)' < ToGo(v) \/ (video'[v] = video[v] /\ process' # "alive")
<1>1. /\ \A w \in 1..Visits \ {v} : video'[w] = video[w]
      /\ video \in [1..Visits -> VideoPlaces]
      /\ frames \in [1..Visits -> 0..FramesPerRead] /\ frames[v] \in 0..FramesPerRead
      /\ frames'[v] \in 0..FramesPerRead
      /\ video[v] = "decoding" => frames[v] > 0
  BY VideoTyped, MemoryTyped DEF SharedInv, IInv, Typed, Memory
<1> USE <1>1 DEF At, Goto, Frames, Crash, ToGo
<1>2. CASE VideoConnects(v)
  BY <1>2, ToGoOrder DEF VideoConnects
<1>3. CASE VideoLoop(v)
  BY <1>3, ToGoOrder DEF VideoLoop
<1>4. CASE VideoReads(v)
  BY <1>4, ToGoOrder DEF VideoReads
<1>5. CASE Clean(v)
  BY <1>5, ToGoOrder DEF Clean
<1>6. CASE CheckContext(v)
  BY <1>6, ToGoOrder DEF CheckContext
<1>7. CASE AllocContext(v)
  BY <1>7, ToGoOrder DEF AllocContext
<1>8. CASE OpenContext(v)
  BY <1>8, ToGoOrder DEF OpenContext
<1>9. CASE DecodeFrame(v)
  BY <1>9, ToGoOrder DEF DecodeFrame
<1>10. CASE PictureScaled(v)
  <2>1. \/ video' = video /\ process' # "alive"
        \/ video'[v] = "clean"
        \/ frames[v] = 1 /\ video'[v] = "loop"
        \/ frames'[v] = frames[v] - 1 /\ video'[v] = "decode"
    BY <1>10 DEF PictureScaled
  <2>2. video[v] = "decoding" /\ frames[v] = frames[v] - 1 + 1 /\ frames[v] - 1 \in 0..FramesPerRead
    BY <1>10 DEF PictureScaled
  <2>3. QED
    BY <2>1, <2>2, ToGoOrder
<1>11. CASE ReleaseDecoder(v)
  BY <1>11, ToGoOrder DEF ReleaseDecoder, FreeScaler, FreeFrame, ForgetFrame, FreeContext,
     ForgetContext
<1>12. QED
  BY <1>2, <1>3, <1>4, <1>5, <1>6, <1>7, <1>8, <1>9, <1>10, <1>11 DEF Video, DecoderInit, DecodeData

(* While the flag is down every video thread, however many there are, runs *)
(* down to its end: with FlagIsTheVisits, whoever stays out is rid of them *)
(* after finitely many steps.                                              *)
THEOREM VideoThreadsRunDown == Spec => [][VideoRunsDown]_vars
<1>1. ASSUME SharedInv, Next, ~runningFlag, ~runningFlag', NEW v \in 1..Visits,
             video'[v] # video[v]
      PROVE  ToGo(v)' < ToGo(v)
  <2>1. ~Enter
    BY <1>1 DEF Enter
  <2>2. PICK w \in 1..Visits : Video(w)
    BY <1>1, <2>1 DEF Next, UI, LeaveStopsVideo, LeaveStopsAudio, LeaveReleasesTrack, Audio,
       AudioChecks, AudioBindsRtp, AudioBindsRtcp, AudioCreatesSession, AudioRegisters,
       AudioCreatesTrack
  <2>3. w = v
    BY <1>1, <2>2, VideoStepsDown
  <2>4. QED
    BY <1>1, <2>2, <2>3, VideoStepsDown
<1>2. ASSUME SharedInv, ~runningFlag, NEW v \in 1..Visits, Video(v)
      PROVE  ToGo(v)' < ToGo(v) \/ process' # "alive"
  BY <1>2, VideoStepsDown
<1>3. SharedInv /\ [Next]_vars => [VideoRunsDown]_vars
  BY <1>1, <1>2 DEF VideoRunsDown
<1>4. QED
  BY <1>3, SharedInvariant, PTL DEF Spec
=============================================================================
