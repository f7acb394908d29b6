-------------------------- MODULE HttpRequestProofs --------------------------
(***************************************************************************)
(* What HttpRequest guarantees for every set of requests and every number  *)
(* of retries: its types, how often a request is tried, how often a POST   *)
(* is sent, and when a cancelled request is given up.                      *)
(***************************************************************************)
EXTENDS HttpRequest, FiniteSetTheorems, TLAPS

Fresh == {"new", "submitted", "cancelled"}
InRound == {"trying", "retry", "thrown", "failed", "answered"}

\* Rounds are counted when they fail, so one that is not over leaves room.
RoomForRound ==
    \A r \in Requests : pc[r] \in Fresh \cup InRound \cup {"round"}
        => executionCount[r] <= MaxRetries

TypeInv == TypeOK /\ RoomForRound

LEMMA TypeInit == Init => TypeInv
<1>1. SUFFICES ASSUME Init PROVE TypeInv
  OBVIOUS
<1>2. MaxRetries \in Nat
  BY RequestsAssumption DEF RequestsAssumption
<1> QED
  BY <1>1, <1>2 DEF Init, TypeInv, TypeOK, RoomForRound, Errors

LEMMA SendType ==
    ASSUME messages \in [Requests -> Seq({"start", "success", "failure", "finish"})],
           NEW r \in Requests, NEW m \in Seq({"start", "success", "failure", "finish"}),
           Send(r, m)
    PROVE  messages' \in [Requests -> Seq({"start", "success", "failure", "finish"})]
BY DEF Send

LEMMA TryType ==
    ASSUME attempts \in [Requests -> Nat], NEW r \in Requests, Try(r)
    PROVE  attempts' \in [Requests -> Nat]
BY DEF Try

LEMMA TypeStep == TypeInv /\ [Next]_vars => TypeInv'
<1>1. SUFFICES ASSUME TypeInv, [Next]_vars PROVE TypeInv'
  OBVIOUS
<1>2. MaxRetries \in Nat
  BY RequestsAssumption DEF RequestsAssumption
<1> USE <1>1, <1>2
<1>3. CASE UNCHANGED vars
  BY <1>3 DEF vars, TypeInv, TypeOK, RoomForRound
<1>4. ASSUME NEW r \in Requests, SendRequest(r) PROVE TypeInv'
  BY <1>4 DEF TypeInv, TypeOK, RoomForRound, SendRequest, Goto, Fresh
<1>5. ASSUME NEW r \in Requests, CancelRequest(r) PROVE TypeInv'
  BY <1>5 DEF TypeInv, TypeOK, RoomForRound, CancelRequest, Goto, Fresh
<1>6. ASSUME NEW r \in Requests, Start(r) PROVE TypeInv'
  <2>1. messages' \in [Requests -> Seq({"start", "success", "failure", "finish"})]
    <3>1. <<"start">> \in Seq({"start", "success", "failure", "finish"})
      OBVIOUS
    <3> QED
      BY <1>6, <3>1, SendType DEF Start, TypeInv, TypeOK
  <2> QED
    BY <1>6, <2>1 DEF TypeInv, TypeOK, RoomForRound, Start, Goto, Fresh
<1>7. ASSUME NEW r \in Requests, MakeRequest(r) PROVE TypeInv'
  <2>1. CASE interrupted[r]
    BY <1>7, <2>1 DEF TypeInv, TypeOK, RoomForRound, MakeRequest, Goto, InRound, Fresh
  <2>2. CASE ~interrupted[r]
    <3>1. 1 \in 0..MaxRetries + 1
      OBVIOUS
    <3>2. attempts' \in [Requests -> Nat]
      BY <1>7, <2>2, TryType DEF MakeRequest, TypeInv, TypeOK
    <3>3. execCount' \in [Requests -> 0..MaxRetries + 1]
      BY <1>7, <2>2, <3>1 DEF MakeRequest, TypeInv, TypeOK
    <3>4. currentReq' \subseteq Requests
      BY <1>7, <2>2 DEF MakeRequest
    <3>5. /\ pc[r] = "round" /\ pc' = [pc EXCEPT ![r] = "trying"]
          /\ UNCHANGED <<executionCount, error, interrupted, messages, lastAttempts>>
      BY <1>7, <2>2 DEF MakeRequest, Goto
    <3>6. TypeOK'
      BY <3>2, <3>3, <3>4, <3>5 DEF TypeInv, TypeOK
    <3>7. RoomForRound'
      BY <3>5 DEF TypeInv, TypeOK, RoomForRound, InRound, Fresh
    <3> QED
      BY <3>6, <3>7 DEF TypeInv
  <2> QED
    BY <2>1, <2>2
<1>8. ASSUME NEW r \in Requests, AttemptEnds(r) PROVE TypeInv'
  BY <1>8 DEF TypeInv, TypeOK, RoomForRound, AttemptEnds, Goto, InRound, Errors, Fresh
<1>9. ASSUME NEW r \in Requests, HttpClientRetries(r) PROVE TypeInv'
  <2>1. CASE RetryRequest(error[r], execCount[r])
    <3>1. execCount[r] + 1 \in 0..MaxRetries + 1
      BY <2>1 DEF RetryRequest, TypeInv, TypeOK
    <3>2. attempts' \in [Requests -> Nat]
      BY <1>9, <2>1, TryType DEF HttpClientRetries, TypeInv, TypeOK
    <3>3. execCount' \in [Requests -> 0..MaxRetries + 1]
      BY <1>9, <2>1, <3>1 DEF HttpClientRetries, TypeInv, TypeOK
    <3> QED
      BY <1>9, <2>1, <3>2, <3>3 DEF TypeInv, TypeOK, RoomForRound, HttpClientRetries, Goto, InRound, Fresh
  <2>2. CASE ~RetryRequest(error[r], execCount[r])
    BY <1>9, <2>2 DEF TypeInv, TypeOK, RoomForRound, HttpClientRetries, Goto, InRound, Fresh
  <2> QED
    BY <2>1, <2>2
<1>10. ASSUME NEW r \in Requests, MakeRequestThrows(r) PROVE TypeInv'
  BY <1>10 DEF TypeInv, TypeOK, RoomForRound, MakeRequestThrows, Goto, InRound, Fresh
<1>11. ASSUME NEW r \in Requests, MakeRequestWithRetries(r) PROVE TypeInv'
  <2>1. messages' \in [Requests -> Seq({"start", "success", "failure", "finish"})]
    <3>1. /\ <<"failure">> \in Seq({"start", "success", "failure", "finish"})
          /\ <<"finish", "failure">> \in Seq({"start", "success", "failure", "finish"})
      OBVIOUS
    <3> QED
      BY <1>11, <3>1, SendType DEF MakeRequestWithRetries, TypeInv, TypeOK
  <2>2. pc[r] = "failed" /\ executionCount[r] <= MaxRetries
    BY <1>11 DEF MakeRequestWithRetries, Goto, TypeInv, RoomForRound, InRound
  <2>3. CASE error[r] \in {"host", "timeout"}
    BY <1>11, <2>1, <2>2, <2>3 DEF TypeInv, TypeOK, RoomForRound, MakeRequestWithRetries,
       Goto, InRound, Fresh
  <2>4. CASE error[r] \notin {"host", "timeout"} /\ RetryRequest(error[r], executionCount[r] + 1)
    <3>1. executionCount[r] + 1 \in 0..MaxRetries + 1 /\ executionCount[r] + 1 <= MaxRetries
      BY <2>4 DEF RetryRequest, TypeInv, TypeOK
    <3>2. /\ pc' = [pc EXCEPT ![r] = "round"]
          /\ executionCount' = [executionCount EXCEPT ![r] = @ + 1]
          /\ UNCHANGED <<execCount, error, currentReq, interrupted, attempts, lastAttempts>>
      BY <1>11, <2>4 DEF MakeRequestWithRetries, Goto
    <3>3. executionCount' \in [Requests -> 0..MaxRetries + 1]
      BY <3>1, <3>2 DEF TypeInv, TypeOK
    <3>4. pc' \in [Requests -> {"new", "submitted", "round", "trying", "retry", "thrown",
                "failed", "answered", "respond", "returned", "ended", "cancelled"}]
      BY <3>2 DEF TypeInv, TypeOK
    <3>5. TypeOK'
      BY <2>1, <3>2, <3>3, <3>4 DEF TypeInv, TypeOK
    <3>6. ASSUME NEW s \in Requests, pc'[s] \in Fresh \cup InRound \cup {"round"}
          PROVE  executionCount'[s] <= MaxRetries
      <4>1. CASE s = r
        BY <2>4, <3>1, <3>2, <3>6, <4>1 DEF TypeInv, TypeOK
      <4>2. CASE s # r
        BY <3>2, <3>6, <4>2 DEF TypeInv, TypeOK, RoomForRound
      <4> QED
        BY <4>1, <4>2
    <3> QED
      BY <3>5, <3>6 DEF TypeInv, RoomForRound
  <2>5. CASE error[r] \notin {"host", "timeout"} /\ ~RetryRequest(error[r], executionCount[r] + 1)
    <3>1. executionCount[r] + 1 \in 0..MaxRetries + 1
      BY <2>2 DEF TypeInv, TypeOK
    <3>2. /\ pc' = [pc EXCEPT ![r] = "ended"]
          /\ executionCount' = [executionCount EXCEPT ![r] = @ + 1]
          /\ UNCHANGED <<execCount, error, currentReq, interrupted, attempts, lastAttempts>>
      BY <1>11, <2>5 DEF MakeRequestWithRetries, Goto
    <3>3. executionCount' \in [Requests -> 0..MaxRetries + 1]
      BY <3>1, <3>2 DEF TypeInv, TypeOK
    <3>4. pc' \in [Requests -> {"new", "submitted", "round", "trying", "retry", "thrown",
                "failed", "answered", "respond", "returned", "ended", "cancelled"}]
      BY <3>2 DEF TypeInv, TypeOK
    <3>5. TypeOK'
      BY <2>1, <3>2, <3>3, <3>4 DEF TypeInv, TypeOK
    <3>6. ASSUME NEW s \in Requests, pc'[s] \in Fresh \cup InRound \cup {"round"}
          PROVE  executionCount'[s] <= MaxRetries
      <4>1. CASE s = r
        BY <2>5, <3>1, <3>2, <3>6, <4>1 DEF TypeInv, TypeOK, Fresh, InRound
      <4>2. CASE s # r
        BY <3>2, <3>6, <4>2 DEF TypeInv, TypeOK, RoomForRound
      <4> QED
        BY <4>1, <4>2
    <3> QED
      BY <3>5, <3>6 DEF TypeInv, RoomForRound
  <2> QED
    BY <2>3, <2>4, <2>5
<1>12. ASSUME NEW r \in Requests, ResponseArrives(r) PROVE TypeInv'
  BY <1>12 DEF TypeInv, TypeOK, RoomForRound, ResponseArrives, Goto, InRound, Fresh
<1>13. ASSUME NEW r \in Requests, SendResponseMessage(r) PROVE TypeInv'
  <2>1. messages' \in [Requests -> Seq({"start", "success", "failure", "finish"})]
    <3>1. PICK body \in {<<>>, <<"failure">>}, outcome \in {"success", "failure"} :
              Send(r, Append(body, outcome))
      BY <1>13 DEF SendResponseMessage
    <3>2. body \in Seq({"start", "success", "failure", "finish"})
      <4>1. CASE body = <<>>
        BY <4>1
      <4>2. CASE body = <<"failure">>
        BY <4>2
      <4> QED
        BY <4>1, <4>2
    <3>3. Append(body, outcome) \in Seq({"start", "success", "failure", "finish"})
      BY <3>2
    <3> QED
      BY <3>1, <3>3, SendType DEF TypeInv, TypeOK
  <2> QED
    BY <1>13, <2>1 DEF TypeInv, TypeOK, RoomForRound, SendResponseMessage, Goto, InRound, Fresh
<1>14. ASSUME NEW r \in Requests, Finish(r) PROVE TypeInv'
  <2>1. messages' \in [Requests -> Seq({"start", "success", "failure", "finish"})]
    <3>1. <<"finish">> \in Seq({"start", "success", "failure", "finish"})
      OBVIOUS
    <3> QED
      BY <1>14, <3>1, SendType DEF Finish, TypeInv, TypeOK
  <2> QED
    BY <1>14, <2>1 DEF TypeInv, TypeOK, RoomForRound, Finish, Goto, InRound, Fresh
<1> QED
  BY <1>3, <1>4, <1>5, <1>6, <1>7, <1>8, <1>9, <1>10, <1>11, <1>12, <1>13, <1>14 DEF Next, Run

\* Every variable keeps its type, whatever the requests and the retries.
THEOREM TypeCorrect == Spec => []TypeOK
<1>1. Spec => []TypeInv
  BY TypeInit, TypeStep, PTL DEF Spec
<1>2. TypeInv => TypeOK
  BY DEF TypeInv
<1> QED
  BY <1>1, <1>2, PTL

-----------------------------------------------------------------------------
(* A POST is repeated only if another request has taken its place in the   *)
(* context, and while only POSTs are made every one that does is a POST.   *)

OnlyPosts == \A r \in Requests \ Posts : attempts[r] = 0

PostInv ==
    /\ \A r \in currentReq : attempts[r] > 0
    /\ \A r \in Requests : pc[r] \in InRound => currentReq # {}
    /\ OnlyPosts => \A r \in Requests :
            /\ attempts[r] <= 1
            /\ pc[r] \in Fresh \cup {"round"} => attempts[r] = 0

LEMMA AttemptsGrow ==
    ASSUME TypeOK, Next
    PROVE  \A s \in Requests : attempts[s] <= attempts'[s]
<1>1. ASSUME NEW s \in Requests PROVE attempts[s] <= attempts'[s]
  <2>1. PICK r \in Requests : SendRequest(r) \/ CancelRequest(r) \/ Run(r)
    BY DEF Next
  <2>2. attempts' = attempts \/ Try(r)
    BY <2>1 DEF Run, SendRequest, CancelRequest, Start, MakeRequest, AttemptEnds,
       HttpClientRetries, MakeRequestThrows, MakeRequestWithRetries, ResponseArrives,
       SendResponseMessage, Finish
  <2>3. attempts[s] \in Nat
    BY DEF TypeOK
  <2>4. CASE attempts' = attempts
    BY <2>3, <2>4
  <2>5. CASE Try(r)
    <3>1. attempts'[s] = IF s = r THEN attempts[s] + 1 ELSE attempts[s]
      BY <2>5 DEF Try, TypeOK
    <3> QED
      BY <2>3, <3>1
  <2> QED
    BY <2>2, <2>4, <2>5
<1> QED
  BY <1>1

LEMMA OnlyPostsBefore ==
    ASSUME TypeOK, Next, OnlyPosts'
    PROVE  OnlyPosts
<1>1. ASSUME NEW s \in Requests PROVE attempts[s] \in Nat
  BY DEF TypeOK
<1> QED
  BY <1>1, AttemptsGrow DEF OnlyPosts

LEMMA NoRetryAmongPosts ==
    ASSUME TypeOK, PostInv, OnlyPosts, NEW r \in Requests, pc[r] \in InRound,
           NEW e, NEW n
    PROVE  ~RetryRequest(e, n)
<1>1. PICK c \in currentReq : attempts[c] > 0
  BY DEF PostInv
<1>2. c \in Posts
  BY <1>1 DEF OnlyPosts, TypeOK
<1> QED
  BY <1>1, <1>2 DEF RetryRequest

LEMMA PostInit == Init => PostInv
BY DEF Init, PostInv, Fresh, InRound

LEMMA PostStep == TypeInv /\ PostInv /\ [Next]_vars => PostInv'
<1>1. SUFFICES ASSUME TypeInv, PostInv, [Next]_vars PROVE PostInv'
  OBVIOUS
<1>2. TypeOK
  BY <1>1 DEF TypeInv
<1>3. CASE UNCHANGED vars
  BY <1>1, <1>3 DEF vars, PostInv, OnlyPosts
<1>4. CASE Next
  <2>1. PICK r \in Requests : SendRequest(r) \/ CancelRequest(r) \/ Run(r)
    BY <1>4 DEF Next
  <2>2. OnlyPosts' => OnlyPosts
    BY <1>2, <1>4, OnlyPostsBefore
  <2>3. CASE SendRequest(r) \/ CancelRequest(r) \/ Start(r)
    <3>1. /\ UNCHANGED <<currentReq, attempts>>
          /\ \A s \in Requests : pc'[s] \in InRound => pc[s] \in InRound
          /\ \A s \in Requests : pc'[s] \in Fresh \cup {"round"} => pc[s] \in Fresh \cup {"round"}
      BY <1>2, <2>3 DEF TypeOK, SendRequest, CancelRequest, Start, Goto, InRound, Fresh
    <3> QED
      BY <1>1, <3>1 DEF PostInv, OnlyPosts
  <2>4. CASE AttemptEnds(r) \/ MakeRequestThrows(r) \/ ResponseArrives(r)
             \/ SendResponseMessage(r) \/ Finish(r)
    <3>1. /\ UNCHANGED <<currentReq, attempts>>
          /\ \A s \in Requests : pc'[s] \in InRound => pc[s] \in InRound
          /\ \A s \in Requests : pc'[s] \in Fresh \cup {"round"} => pc[s] \in Fresh \cup {"round"}
      BY <1>2, <2>4 DEF TypeOK, AttemptEnds, MakeRequestThrows, ResponseArrives,
         SendResponseMessage, Finish, Goto, InRound, Fresh
    <3> QED
      BY <1>1, <3>1 DEF PostInv, OnlyPosts
  <2>5. CASE MakeRequestWithRetries(r)
    <3>1. UNCHANGED <<currentReq, attempts>>
      BY <2>5 DEF MakeRequestWithRetries
    <3>2. \A s \in Requests : pc'[s] \in InRound => pc[s] \in InRound
      BY <1>2, <2>5 DEF TypeOK, MakeRequestWithRetries, Goto, InRound
    <3>3. OnlyPosts => ~RetryRequest(error[r], executionCount[r] + 1)
      BY <1>1, <1>2, <2>5, NoRetryAmongPosts DEF MakeRequestWithRetries, Goto, InRound
    <3>4. OnlyPosts => \A s \in Requests :
              pc'[s] \in Fresh \cup {"round"} => pc[s] \in Fresh \cup {"round"}
      BY <1>2, <2>5, <3>3 DEF TypeOK, MakeRequestWithRetries, Goto, Fresh
    <3> QED
      BY <1>1, <3>1, <3>2, <3>4 DEF PostInv, OnlyPosts
  <2>6. CASE MakeRequest(r)
    <3>1. pc[r] = "round" /\ pc' \in {[pc EXCEPT ![r] = "trying"], [pc EXCEPT ![r] = "returned"]}
      BY <2>6 DEF MakeRequest, Goto
    <3>2. CASE interrupted[r]
      <4>1. UNCHANGED <<currentReq, attempts>> /\ pc' = [pc EXCEPT ![r] = "returned"]
        BY <2>6, <3>2 DEF MakeRequest, Goto
      <4> QED
        BY <1>1, <1>2, <4>1 DEF PostInv, OnlyPosts, TypeOK, InRound, Fresh
    <3>3. CASE ~interrupted[r]
      <4>1. /\ currentReq' = {r} /\ attempts' = [attempts EXCEPT ![r] = @ + 1]
            /\ pc' = [pc EXCEPT ![r] = "trying"]
        BY <2>6, <3>3 DEF MakeRequest, Goto, Try
      <4>2. attempts'[r] = attempts[r] + 1 /\ attempts[r] \in Nat
        BY <1>2, <4>1 DEF TypeOK
      <4>3. \A s \in Requests : s # r => attempts'[s] = attempts[s] /\ pc'[s] = pc[s]
        BY <1>2, <4>1 DEF TypeOK
      <4>4. pc'[r] = "trying"
        BY <1>2, <4>1 DEF TypeOK
      <4>5. ASSUME OnlyPosts', NEW s \in Requests
            PROVE  /\ attempts'[s] <= 1
                   /\ pc'[s] \in Fresh \cup {"round"} => attempts'[s] = 0
        BY <1>1, <2>2, <3>1, <4>2, <4>3, <4>4, <4>5 DEF PostInv, Fresh
      <4>6. \A s \in currentReq' : attempts'[s] > 0
        BY <4>1, <4>2
      <4>7. currentReq' # {}
        BY <4>1
      <4> QED
        BY <4>5, <4>6, <4>7 DEF PostInv
    <3> QED
      BY <3>2, <3>3
  <2>7. CASE HttpClientRetries(r)
    <3>1. pc[r] = "retry" /\ UNCHANGED currentReq
      BY <2>7 DEF HttpClientRetries, Goto
    <3>2. CASE RetryRequest(error[r], execCount[r])
      <4>1. ~OnlyPosts'
        BY <1>1, <1>2, <2>2, <3>1, <3>2, NoRetryAmongPosts DEF InRound
      <4>2. attempts' = [attempts EXCEPT ![r] = @ + 1] /\ pc' = [pc EXCEPT ![r] = "trying"]
        BY <2>7, <3>2 DEF HttpClientRetries, Goto, Try
      <4>3. \A s \in currentReq' : attempts'[s] > 0
        BY <1>1, <1>2, <3>1, <4>2 DEF PostInv, TypeOK
      <4>4. \A s \in Requests : pc'[s] \in InRound => currentReq' # {}
        BY <1>1, <1>2, <3>1, <4>2 DEF PostInv, TypeOK, InRound
      <4> QED
        BY <4>1, <4>3, <4>4 DEF PostInv
    <3>3. CASE ~RetryRequest(error[r], execCount[r])
      <4>1. UNCHANGED attempts /\ pc' = [pc EXCEPT ![r] = "thrown"]
        BY <2>7, <3>3 DEF HttpClientRetries, Goto
      <4> QED
        BY <1>1, <1>2, <3>1, <4>1 DEF PostInv, OnlyPosts, TypeOK, InRound, Fresh
    <3> QED
      BY <3>2, <3>3
  <2> QED
    BY <2>1, <2>3, <2>4, <2>5, <2>6, <2>7 DEF Run
<1> QED
  BY <1>1, <1>3, <1>4

\* A client that makes nothing but POST requests tries each once at most,
\* however many it makes at a time and however they fail.
THEOREM PostSentOnce == Spec => []PostsSentOnce
<1>1. Spec => [](TypeInv /\ PostInv)
  BY TypeInit, TypeStep, PostInit, PostStep, PTL DEF Spec
<1>2. PostInv => PostsSentOnce
  BY RequestsAssumption DEF PostInv, PostsSentOnce, OnlyPosts, RequestsAssumption
<1> QED
  BY <1>1, <1>2, PTL

-----------------------------------------------------------------------------
(* Each failed round used at most MaxRetries + 1 attempts, and so does the *)
(* present one.                                                            *)

PerRound == MaxRetries + 1

TriesInv ==
    \A r \in Requests :
        /\ pc[r] \in Fresh => attempts[r] = 0
        /\ pc[r] = "round" => attempts[r] <= executionCount[r] * PerRound
        /\ pc[r] \in InRound => attempts[r] <= executionCount[r] * PerRound + execCount[r]
        /\ attempts[r] <= PerRound * PerRound

LEMMA RoundsAddUp ==
    ASSUME NEW n \in Nat
    PROVE  /\ PerRound \in Nat
           /\ n * PerRound \in Nat
           /\ (n + 1) * PerRound = n * PerRound + PerRound
           /\ n <= MaxRetries => n * PerRound + PerRound <= PerRound * PerRound
<1>1. MaxRetries \in Nat
  BY RequestsAssumption DEF RequestsAssumption
<1>2. PerRound \in Nat
  BY <1>1 DEF PerRound
<1>3. n * PerRound \in Nat
  BY <1>2
<1>4. (n + 1) * PerRound = n * PerRound + PerRound
  BY <1>2
<1>5. ASSUME n <= MaxRetries PROVE n * PerRound + PerRound <= PerRound * PerRound
  <2>1. n + 1 <= PerRound /\ n + 1 \in Nat
    BY <1>1, <1>5 DEF PerRound
  <2>2. \A a, b, c \in Nat : a <= b => a * c <= b * c
    OBVIOUS
  <2> QED
    BY <1>2, <1>4, <2>1, <2>2
<1> QED
  BY <1>2, <1>3, <1>4, <1>5

LEMMA TriesInit == Init => TriesInv
<1>1. PerRound \in Nat /\ 0 <= PerRound * PerRound
  BY RoundsAddUp
<1> QED
  BY <1>1 DEF Init, TriesInv, Fresh, InRound

LEMMA TriesStep == TypeInv /\ TriesInv /\ [Next]_vars => TriesInv'
<1>1. SUFFICES ASSUME TypeInv, TriesInv, [Next]_vars PROVE TriesInv'
  OBVIOUS
<1>2. /\ MaxRetries \in Nat
      /\ TypeOK
  BY <1>1, RequestsAssumption DEF TypeInv, RequestsAssumption
<1>3. CASE UNCHANGED vars
  BY <1>1, <1>3 DEF vars, TriesInv
<1>4. CASE Next
  <2>1. PICK r \in Requests : SendRequest(r) \/ CancelRequest(r) \/ Run(r)
    BY <1>4 DEF Next
  <2>2. /\ execCount[r] \in Nat /\ execCount[r] <= PerRound
        /\ executionCount[r] \in Nat /\ attempts[r] \in Nat
    BY <1>2 DEF TypeOK, PerRound
  <2>3. pc[r] \in Fresh \cup InRound \cup {"round"} => executionCount[r] <= MaxRetries
    BY <1>1 DEF TypeInv, RoomForRound
  <2>4. /\ PerRound \in Nat
        /\ executionCount[r] * PerRound \in Nat
        /\ (executionCount[r] + 1) * PerRound = executionCount[r] * PerRound + PerRound
        /\ executionCount[r] <= MaxRetries
              => executionCount[r] * PerRound + PerRound <= PerRound * PerRound
    BY <2>2, RoundsAddUp
  <2>5. CASE SendRequest(r) \/ CancelRequest(r) \/ Start(r)
    <3>1. /\ UNCHANGED <<attempts, execCount, executionCount>>
          /\ \A s \in Requests : s # r => pc'[s] = pc[s]
          /\ pc'[r] = pc[r] \/ (pc[r] \in Fresh /\ pc'[r] \in Fresh \cup {"round"})
      BY <1>2, <2>5 DEF TypeOK, SendRequest, CancelRequest, Start, Goto, Fresh
    <3> QED
      BY <1>1, <2>4, <3>1 DEF TriesInv, Fresh, InRound
  <2>6. CASE AttemptEnds(r) \/ MakeRequestThrows(r) \/ ResponseArrives(r)
             \/ SendResponseMessage(r) \/ Finish(r)
    <3>1. /\ UNCHANGED <<attempts, execCount, executionCount>>
          /\ \A s \in Requests : s # r => pc'[s] = pc[s]
          /\ pc'[r] \in InRound => pc[r] \in InRound
          /\ pc'[r] \notin Fresh \cup {"round"}
      BY <1>2, <2>6 DEF TypeOK, AttemptEnds, MakeRequestThrows, ResponseArrives,
         SendResponseMessage, Finish, Goto, InRound, Fresh
    <3> QED
      BY <1>1, <3>1 DEF TriesInv
  <2>7. CASE MakeRequest(r)
    <3>1. CASE interrupted[r]
      <4>1. UNCHANGED <<attempts, execCount, executionCount>> /\ pc' = [pc EXCEPT ![r] = "returned"]
        BY <2>7, <3>1 DEF MakeRequest, Goto
      <4> QED
        BY <1>1, <1>2, <4>1 DEF TriesInv, TypeOK, InRound, Fresh
    <3>2. CASE ~interrupted[r]
      <4>1. /\ pc[r] = "round" /\ pc' = [pc EXCEPT ![r] = "trying"]
            /\ attempts' = [attempts EXCEPT ![r] = @ + 1]
            /\ execCount' = [execCount EXCEPT ![r] = 1]
            /\ executionCount' = executionCount
        BY <2>7, <3>2 DEF MakeRequest, Goto, Try
      <4>2. /\ \A s \in Requests : s # r => /\ attempts'[s] = attempts[s] /\ pc'[s] = pc[s]
                                           /\ execCount'[s] = execCount[s]
            /\ attempts'[r] = attempts[r] + 1 /\ execCount'[r] = 1 /\ pc'[r] = "trying"
        BY <1>2, <4>1 DEF TypeOK
      <4>3. attempts[r] <= executionCount[r] * PerRound /\ 1 <= PerRound
        BY <1>1, <1>2, <4>1 DEF TriesInv, PerRound
      <4>4. /\ attempts'[r] <= executionCount'[r] * PerRound + execCount'[r]
            /\ attempts'[r] <= PerRound * PerRound
        <5>1. attempts[r] + 1 <= executionCount[r] * PerRound + 1
          BY <2>2, <2>4, <4>3
        <5>2. attempts[r] + 1 <= PerRound * PerRound
          BY <2>2, <2>3, <2>4, <4>1, <4>3
        <5> QED
          BY <4>1, <4>2, <5>1, <5>2
      <4> QED
        BY <1>1, <4>1, <4>2, <4>4 DEF TriesInv, Fresh, InRound
    <3> QED
      BY <3>1, <3>2
  <2>8. CASE HttpClientRetries(r)
    <3>1. CASE ~RetryRequest(error[r], execCount[r])
      <4>1. /\ UNCHANGED <<attempts, execCount, executionCount>>
            /\ pc[r] = "retry" /\ pc' = [pc EXCEPT ![r] = "thrown"]
        BY <2>8, <3>1 DEF HttpClientRetries, Goto
      <4> QED
        BY <1>1, <1>2, <4>1 DEF TriesInv, TypeOK, InRound, Fresh
    <3>2. CASE RetryRequest(error[r], execCount[r])
      <4>1. /\ pc[r] = "retry" /\ pc' = [pc EXCEPT ![r] = "trying"]
            /\ attempts' = [attempts EXCEPT ![r] = @ + 1]
            /\ execCount' = [execCount EXCEPT ![r] = @ + 1]
            /\ executionCount' = executionCount
        BY <2>8, <3>2 DEF HttpClientRetries, Goto, Try
      <4>2. /\ \A s \in Requests : s # r => /\ attempts'[s] = attempts[s] /\ pc'[s] = pc[s]
                                           /\ execCount'[s] = execCount[s]
            /\ attempts'[r] = attempts[r] + 1 /\ execCount'[r] = execCount[r] + 1
            /\ pc'[r] = "trying"
        BY <1>2, <4>1 DEF TypeOK
      <4>3. /\ attempts[r] <= executionCount[r] * PerRound + execCount[r]
            /\ execCount[r] + 1 <= PerRound
        BY <1>1, <1>2, <2>2, <3>2, <4>1 DEF TriesInv, PerRound, InRound, RetryRequest
      <4>4. /\ attempts'[r] <= executionCount'[r] * PerRound + execCount'[r]
            /\ attempts'[r] <= PerRound * PerRound
        <5>1. attempts[r] + 1 <= executionCount[r] * PerRound + (execCount[r] + 1)
          BY <2>2, <2>4, <4>3
        <5>2. executionCount[r] <= MaxRetries
          BY <2>3, <4>1 DEF InRound
        <5>3. attempts[r] + 1 <= PerRound * PerRound
          BY <2>2, <2>4, <4>3, <5>1, <5>2
        <5> QED
          BY <4>1, <4>2, <5>1, <5>3
      <4> QED
        BY <1>1, <4>1, <4>2, <4>4 DEF TriesInv, Fresh, InRound
    <3> QED
      BY <3>1, <3>2
  <2>9. CASE MakeRequestWithRetries(r)
    <3>1. /\ UNCHANGED <<attempts, execCount>> /\ pc[r] = "failed"
          /\ pc'[r] \in {"returned", "round", "ended"}
          /\ \A s \in Requests : s # r => pc'[s] = pc[s] /\ executionCount'[s] = executionCount[s]
          /\ pc'[r] = "round" => executionCount'[r] = executionCount[r] + 1
      BY <1>2, <2>9 DEF TypeOK, MakeRequestWithRetries, Goto
    <3>2. pc'[r] = "round" => attempts'[r] <= executionCount'[r] * PerRound
      <4>1. attempts[r] <= executionCount[r] * PerRound + execCount[r]
        BY <1>1, <3>1 DEF TriesInv, InRound
      <4>2. attempts[r] <= executionCount[r] * PerRound + PerRound
        BY <2>2, <2>4, <4>1
      <4> QED
        BY <2>4, <3>1, <4>2
    <3> QED
      BY <1>1, <3>1, <3>2 DEF TriesInv, Fresh, InRound
  <2> QED
    BY <2>1, <2>5, <2>6, <2>7, <2>8, <2>9 DEF Run
<1> QED
  BY <1>1, <1>3, <1>4

\* The two retry loops together try a request (MaxRetries + 1)^2 times at
\* most, whatever else runs in the shared context.
THEOREM AttemptsAreBounded == Spec => []AttemptsBounded
<1>1. Spec => [](TypeInv /\ TriesInv)
  BY TypeInit, TypeStep, TriesInit, TriesStep, PTL DEF Spec
<1>2. TriesInv => AttemptsBounded
  BY DEF TriesInv, AttemptsBounded, PerRound
<1> QED
  BY <1>1, <1>2, PTL

-----------------------------------------------------------------------------
(* A cancelled request is given up *)

\* A request that is interrupted during execute() has tried once of it at
\* least, and tries on up to HttpClient's own limit; elsewhere it tries no more.
GiveUpInv ==
    /\ \A r \in Requests : pc[r] \in {"trying", "retry"} => execCount[r] >= 1
    /\ \A r \in Requests : interrupted[r] =>
        /\ attempts[r] <= lastAttempts[r] + MaxRetries
        /\ pc[r] \in {"trying", "retry"} => attempts[r] + 1 <= lastAttempts[r] + execCount[r]

LEMMA GiveUpInit == Init => GiveUpInv
BY DEF Init, GiveUpInv

LEMMA GiveUpStep == TypeInv /\ GiveUpInv /\ [Next]_vars => GiveUpInv'
<1>1. SUFFICES ASSUME TypeInv, GiveUpInv, [Next]_vars PROVE GiveUpInv'
  OBVIOUS
<1>2. MaxRetries \in Nat /\ TypeOK
  BY <1>1, RequestsAssumption DEF TypeInv, RequestsAssumption
<1>3. CASE UNCHANGED vars
  BY <1>1, <1>3 DEF vars, GiveUpInv
<1>4. CASE Next
  <2>1. PICK r \in Requests : SendRequest(r) \/ CancelRequest(r) \/ Run(r)
    BY <1>4 DEF Next
  <2>2. /\ execCount[r] \in Nat /\ attempts[r] \in Nat /\ lastAttempts[r] \in Nat
    BY <1>2 DEF TypeOK
  <2>3. CASE \/ SendRequest(r) \/ Start(r) \/ AttemptEnds(r) \/ MakeRequestThrows(r)
             \/ MakeRequestWithRetries(r) \/ ResponseArrives(r) \/ SendResponseMessage(r)
             \/ Finish(r)
    <3>1. /\ UNCHANGED <<attempts, lastAttempts, execCount, interrupted>>
          /\ \A s \in Requests : s # r => pc'[s] = pc[s]
          /\ pc'[r] \in {"trying", "retry"} => pc[r] \in {"trying", "retry"}
      BY <1>2, <2>3 DEF TypeOK, SendRequest, Start, AttemptEnds, MakeRequestThrows,
         MakeRequestWithRetries, ResponseArrives, SendResponseMessage, Finish, Goto
    <3> QED
      BY <1>1, <3>1 DEF GiveUpInv
  <2>4. CASE CancelRequest(r)
    <3>1. /\ UNCHANGED <<attempts, execCount>>
          /\ \A s \in Requests : s # r => /\ pc'[s] = pc[s] /\ interrupted'[s] = interrupted[s]
                                          /\ lastAttempts'[s] = lastAttempts[s]
          /\ ~interrupted[r]
          /\ \/ UNCHANGED <<interrupted, lastAttempts>> /\ pc'[r] = "cancelled"
             \/ UNCHANGED pc /\ lastAttempts'[r] = attempts[r]
      BY <1>2, <2>4 DEF TypeOK, CancelRequest, Goto
    <3>2. attempts[r] <= attempts[r] + MaxRetries
      BY <1>2, <2>2
    <3>3. pc[r] \in {"trying", "retry"} => attempts[r] + 1 <= attempts[r] + execCount[r]
      BY <1>1, <2>2 DEF GiveUpInv
    <3> QED
      BY <1>1, <3>1, <3>2, <3>3 DEF GiveUpInv
  <2>5. CASE MakeRequest(r)
    <3>1. CASE interrupted[r]
      <4>1. /\ UNCHANGED <<attempts, lastAttempts, execCount, interrupted>>
            /\ pc' = [pc EXCEPT ![r] = "returned"]
        BY <2>5, <3>1 DEF MakeRequest, Goto
      <4> QED
        BY <1>1, <1>2, <4>1 DEF GiveUpInv, TypeOK
    <3>2. CASE ~interrupted[r]
      <4>1. /\ \A s \in Requests : s # r => /\ pc'[s] = pc[s] /\ attempts'[s] = attempts[s]
                                            /\ execCount'[s] = execCount[s]
            /\ execCount'[r] = 1 /\ UNCHANGED <<interrupted, lastAttempts>>
        BY <1>2, <2>5, <3>2 DEF TypeOK, MakeRequest, Goto, Try
      <4> QED
        BY <1>1, <3>2, <4>1 DEF GiveUpInv
    <3> QED
      BY <3>1, <3>2
  <2>6. CASE HttpClientRetries(r)
    <3>1. CASE ~RetryRequest(error[r], execCount[r])
      <4>1. /\ UNCHANGED <<attempts, lastAttempts, execCount, interrupted>>
            /\ pc' = [pc EXCEPT ![r] = "thrown"]
        BY <2>6, <3>1 DEF HttpClientRetries, Goto
      <4> QED
        BY <1>1, <1>2, <4>1 DEF GiveUpInv, TypeOK
    <3>2. CASE RetryRequest(error[r], execCount[r])
      <4>1. /\ pc[r] = "retry" /\ execCount[r] <= MaxRetries
            /\ \A s \in Requests : s # r => /\ pc'[s] = pc[s] /\ attempts'[s] = attempts[s]
                                            /\ execCount'[s] = execCount[s]
            /\ attempts'[r] = attempts[r] + 1 /\ execCount'[r] = execCount[r] + 1
            /\ UNCHANGED <<interrupted, lastAttempts>>
        BY <1>2, <2>6, <3>2 DEF TypeOK, HttpClientRetries, Goto, Try, RetryRequest
      <4>2. execCount[r] + 1 >= 1
        BY <2>2
      <4>3. interrupted[r] => /\ attempts[r] + 1 <= lastAttempts[r] + MaxRetries
                              /\ (attempts[r] + 1) + 1 <= lastAttempts[r] + (execCount[r] + 1)
        <5>1. interrupted[r] => attempts[r] + 1 <= lastAttempts[r] + execCount[r]
          BY <1>1, <4>1 DEF GiveUpInv
        <5> QED
          BY <1>2, <2>2, <4>1, <5>1
      <4> QED
        BY <1>1, <4>1, <4>2, <4>3 DEF GiveUpInv
    <3> QED
      BY <3>1, <3>2
  <2> QED
    BY <2>1, <2>3, <2>4, <2>5, <2>6 DEF Run
<1> QED
  BY <1>1, <1>3, <1>4

\* However many requests run: one that was cancelled is tried MaxRetries more
\* times at most.
THEOREM CancelledIsGivenUp == Spec => []CancelledGivesUp
<1>1. Spec => [](TypeInv /\ GiveUpInv)
  BY TypeInit, TypeStep, GiveUpInit, GiveUpStep, PTL DEF Spec
<1>2. GiveUpInv => CancelledGivesUp
  BY DEF GiveUpInv, CancelledGivesUp
<1> QED
  BY <1>1, <1>2, PTL

-----------------------------------------------------------------------------
(* What the response handler is told *)

\* What sendResponseMessage(), or the catch block of a host that is not found
\* or a time-out, leaves of the messages.
Outcomes == {<<"start", "failure">>, <<"start", "success">>,
             <<"start", "failure", "failure">>, <<"start", "failure", "success">>}

Ending == {Append(m, "finish") : m \in Outcomes}

\* Only a cancelled request comes back without an outcome, and only one that
\* gave up finishes before it fails.

MessagesInv ==
    \A r \in Requests :
        /\ pc[r] \in Fresh => messages[r] = <<>>
        /\ pc[r] \in InRound \cup {"round", "respond"} => messages[r] = <<"start">>
        /\ pc[r] = "returned"
              => messages[r] \in Outcomes \/ (interrupted[r] /\ messages[r] = <<"start">>)
        /\ pc[r] = "ended"
              => \/ messages[r] \in Ending
                 \/ interrupted[r] /\ messages[r] = <<"start", "finish">>
                 \/ GaveUp(r) /\ messages[r] = <<"start", "finish", "failure">>

LEMMA MessagesInit == Init => MessagesInv
BY DEF Init, MessagesInv, Fresh, InRound

LEMMA Sent ==
    ASSUME TypeOK, NEW r \in Requests, NEW m, Send(r, m)
    PROVE  /\ messages'[r] = messages[r] \o m
           /\ \A s \in Requests : s # r => messages'[s] = messages[s]
BY DEF TypeOK, Send

\* A sequence is its elements in their order.
LEMMA Pair == ASSUME NEW S, NEW t \in Seq(S), NEW a, NEW b, Len(t) = 2, t[1] = a, t[2] = b
              PROVE  t = <<a, b>>
OBVIOUS

LEMMA Triple == ASSUME NEW S, NEW t \in Seq(S), NEW a, NEW b, NEW c,
                       Len(t) = 3, t[1] = a, t[2] = b, t[3] = c
                PROVE  t = <<a, b, c>>
OBVIOUS

LEMMA TwoSent == ASSUME NEW a, NEW b PROVE <<a>> \o <<b>> = <<a, b>>
<1> DEFINE t == <<a>> \o <<b>>
<1>1. t \in Seq({a, b}) /\ Len(t) = 2 /\ t[1] = a /\ t[2] = b
  OBVIOUS
<1> HIDE DEF t
<1>2. t = <<a, b>>
  BY <1>1, Pair
<1> QED
  BY <1>2 DEF t

LEMMA ThreeSent == ASSUME NEW a, NEW b, NEW c PROVE <<a>> \o <<b, c>> = <<a, b, c>>
<1> DEFINE t == <<a>> \o <<b, c>>
<1>0. <<a>> \in Seq({a, b, c}) /\ <<b, c>> \in Seq({a, b, c})
  OBVIOUS
<1>1. t \in Seq({a, b, c}) /\ Len(t) = 3 /\ t[1] = a /\ t[2] = b /\ t[3] = c
  BY <1>0
<1> HIDE DEF t
<1>2. t = <<a, b, c>>
  BY <1>1, Triple
<1> QED
  BY <1>2 DEF t

LEMMA OneMore == ASSUME NEW S, NEW s \in Seq(S), NEW x \in S PROVE s \o <<x>> = Append(s, x)
OBVIOUS

\* A request that has given up and ended stays so.
LEMMA GivenUpForGood ==
    ASSUME TypeOK, Next, NEW s \in Requests, pc[s] = "ended", GaveUp(s)
    PROVE  GaveUp(s)'
<1>1. PICK r \in Requests : SendRequest(r) \/ CancelRequest(r) \/ Run(r)
  BY DEF Next
<1>2. error'[s] = error[s] /\ executionCount'[s] = executionCount[s]
  BY <1>1 DEF TypeOK, Run, SendRequest, CancelRequest, Start, MakeRequest, AttemptEnds,
     HttpClientRetries, MakeRequestThrows, MakeRequestWithRetries, ResponseArrives,
     SendResponseMessage, Finish, Goto
<1>3. \A p \in Posts : attempts[p] > 0 => attempts'[p] > 0
  <2>1. \A p \in Posts : attempts[p] \in Nat /\ attempts'[p] \in Int /\ attempts[p] <= attempts'[p]
    <3>1. attempts' = attempts \/ Try(r)
      BY <1>1 DEF Run, SendRequest, CancelRequest, Start, MakeRequest, AttemptEnds,
         HttpClientRetries, MakeRequestThrows, MakeRequestWithRetries, ResponseArrives,
         SendResponseMessage, Finish
    <3>2. attempts' \in [Requests -> Nat]
      BY <3>1, TryType DEF TypeOK
    <3> QED
      <4>1. ASSUME NEW p \in Requests
            PROVE  attempts[p] \in Nat /\ attempts'[p] \in Int /\ attempts[p] <= attempts'[p]
        <5>1. attempts[p] <= attempts'[p]
          BY AttemptsGrow
        <5>2. attempts[p] \in Nat
          BY DEF TypeOK
        <5> QED
          BY <3>2, <5>1, <5>2
      <4> QED
        BY <4>1, RequestsAssumption
  <2> QED
    BY <2>1
<1> QED
  BY <1>2, <1>3 DEF GaveUp

LEMMA MessagesStep == TypeInv /\ PostInv /\ MessagesInv /\ [Next]_vars => MessagesInv'
<1>1. SUFFICES ASSUME TypeInv, PostInv, MessagesInv, [Next]_vars PROVE MessagesInv'
  OBVIOUS
<1>2. TypeOK
  BY <1>1 DEF TypeInv
<1>3. CASE UNCHANGED vars
  BY <1>1, <1>3 DEF vars, MessagesInv, GaveUp
<1>4. CASE Next
  <2>1. PICK r \in Requests : SendRequest(r) \/ CancelRequest(r) \/ Run(r)
    BY <1>4 DEF Next
  <2>0. \A s \in Requests : pc[s] = "ended" /\ GaveUp(s) => GaveUp(s)'
    BY <1>2, <1>4, GivenUpForGood
  <2>2. CASE \/ SendRequest(r) \/ MakeRequest(r) \/ AttemptEnds(r) \/ HttpClientRetries(r)
             \/ MakeRequestThrows(r) \/ ResponseArrives(r)
    <3>1. /\ UNCHANGED <<messages, interrupted>>
          /\ \A s \in Requests : s # r => pc'[s] = pc[s]
          /\ \/ pc[r] \in Fresh /\ pc'[r] \in Fresh
             \/ pc[r] \in InRound \cup {"round"} /\ pc'[r] \in InRound \cup {"round", "respond"}
             \/ pc[r] \in InRound \cup {"round"} /\ pc'[r] = "returned" /\ interrupted[r]
      BY <1>2, <2>2 DEF TypeOK, SendRequest, MakeRequest, AttemptEnds, HttpClientRetries,
         MakeRequestThrows, ResponseArrives, Goto, Fresh, InRound
    <3>2. pc'[r] \in Fresh => messages'[r] = <<>>
      BY <1>1, <2>0, <3>1 DEF MessagesInv, Fresh, InRound
    <3>3. pc'[r] \in InRound \cup {"round", "respond", "returned"} => messages'[r] = <<"start">>
      BY <1>1, <2>0, <3>1 DEF MessagesInv, Fresh, InRound
    <3> QED
      BY <1>1, <2>0, <3>1, <3>2, <3>3 DEF MessagesInv, Fresh, InRound
  <2>3. CASE CancelRequest(r)
    <3>1. /\ UNCHANGED messages
          /\ \A s \in Requests : s # r => pc'[s] = pc[s] /\ interrupted'[s] = interrupted[s]
          /\ interrupted[r] => interrupted'[r]
          /\ pc'[r] = pc[r] \/ (pc[r] \in Fresh /\ pc'[r] = "cancelled")
      BY <1>2, <2>3 DEF TypeOK, CancelRequest, Goto, Fresh
    <3> QED
      BY <1>1, <2>0, <3>1 DEF MessagesInv, Fresh, InRound
  <2>4. CASE Start(r)
    <3>1. /\ UNCHANGED interrupted /\ Send(r, <<"start">>)
          /\ \A s \in Requests : s # r => pc'[s] = pc[s]
          /\ pc[r] = "submitted" /\ pc'[r] = "round"
      BY <1>2, <2>4 DEF TypeOK, Start, Goto
    <3>2. messages'[r] = <<"start">>
      BY <1>1, <1>2, <3>1, Sent DEF MessagesInv, Fresh
    <3> QED
      BY <1>1, <2>0, <1>2, <3>1, <3>2, Sent DEF MessagesInv, Fresh, InRound
  <2>5. CASE MakeRequestWithRetries(r)
    <3>1. /\ UNCHANGED interrupted
          /\ \A s \in Requests : s # r => pc'[s] = pc[s]
          /\ pc[r] = "failed"
          /\ \/ pc'[r] = "returned" /\ Send(r, <<"failure">>)
             \/ pc'[r] = "round" /\ UNCHANGED messages
             \/ pc'[r] = "ended" /\ Send(r, <<"finish", "failure">>)
      BY <1>2, <2>5 DEF TypeOK, MakeRequestWithRetries, Goto
    <3>2. messages[r] = <<"start">>
      BY <1>1, <3>1 DEF MessagesInv, InRound
    <3>3. \A s \in Requests : s # r => messages'[s] = messages[s]
      BY <1>2, <3>1, Sent
    <3>4. CASE pc'[r] = "returned" /\ Send(r, <<"failure">>)
      <4>1. messages'[r] = <<"start", "failure">>
        <5>1. messages'[r] = <<"start">> \o <<"failure">>
          BY <1>2, <3>2, <3>4, Sent
        <5>2. <<"start">> \o <<"failure">> = <<"start", "failure">>
          BY TwoSent
        <5> QED
          BY <5>1, <5>2
      <4> QED
        BY <1>1, <2>0, <3>1, <3>3, <3>4, <4>1 DEF MessagesInv, Fresh, InRound, Outcomes
    <3>5. CASE pc'[r] = "round" /\ UNCHANGED messages
      BY <1>1, <2>0, <3>1, <3>2, <3>5 DEF MessagesInv, Fresh, InRound
    <3>6. CASE pc'[r] = "ended" /\ Send(r, <<"finish", "failure">>)
      <4>1. messages'[r] = <<"start", "finish", "failure">>
        <5>1. messages'[r] = <<"start">> \o <<"finish", "failure">>
          BY <1>2, <3>2, <3>6, Sent
        <5>2. <<"start">> \o <<"finish", "failure">> = <<"start", "finish", "failure">>
          BY ThreeSent
        <5> QED
          BY <5>1, <5>2
      <4>2. GaveUp(r)'
        <5>1. /\ error[r] \notin {"host", "timeout"} /\ ~RetryRequest(error[r], executionCount[r] + 1)
              /\ executionCount'[r] = executionCount[r] + 1 /\ executionCount[r] + 1 > 0
              /\ UNCHANGED <<error, attempts>>
          BY <1>2, <2>5, <3>6 DEF MakeRequestWithRetries, Goto, TypeOK
        <5>2. \A c \in currentReq : attempts[c] > 0
          BY <1>1 DEF PostInv
        <5>3. executionCount[r] + 1 \in Nat /\ MaxRetries \in Nat
          BY <1>2, RequestsAssumption DEF TypeOK
        <5> QED
          BY <5>1, <5>2, <5>3 DEF RetryRequest, GaveUp
      <4> QED
        BY <1>1, <2>0, <3>1, <3>3, <3>6, <4>1, <4>2 DEF MessagesInv, Fresh, InRound
    <3> QED
      BY <3>1, <3>4, <3>5, <3>6
  <2>6. CASE SendResponseMessage(r)
    <3>1. /\ UNCHANGED interrupted
          /\ \A s \in Requests : s # r => pc'[s] = pc[s]
          /\ pc[r] = "respond" /\ pc'[r] = "returned"
      BY <1>2, <2>6 DEF TypeOK, SendResponseMessage, Goto
    <3>2. PICK body \in {<<>>, <<"failure">>}, outcome \in {"success", "failure"} :
               Send(r, Append(body, outcome))
      BY <2>6 DEF SendResponseMessage
    <3>3. messages'[r] = <<"start">> \o Append(body, outcome)
          /\ \A s \in Requests : s # r => messages'[s] = messages[s]
      BY <1>1, <1>2, <3>1, <3>2, Sent DEF MessagesInv
    <3>4. messages'[r] \in Outcomes
      <4>1. Append(body, outcome) \in {<<outcome>>, <<"failure", outcome>>}
        <5>1. Append(<<>>, outcome) = <<outcome>>
          OBVIOUS
        <5>2. <<"failure">> \o <<outcome>> = <<"failure", outcome>>
          BY TwoSent
        <5>3. <<"failure">> \o <<outcome>> = Append(<<"failure">>, outcome)
          OBVIOUS
        <5> QED
          BY <5>1, <5>2, <5>3
      <4>2. <<"start">> \o <<outcome>> = <<"start", outcome>>
        BY TwoSent
      <4>3. <<"start">> \o <<"failure", outcome>> = <<"start", "failure", outcome>>
        BY ThreeSent
      <4> QED
        BY <3>3, <4>1, <4>2, <4>3 DEF Outcomes
    <3> QED
      BY <1>1, <2>0, <3>1, <3>3, <3>4 DEF MessagesInv, Fresh, InRound
  <2>7. CASE Finish(r)
    <3>1. /\ UNCHANGED interrupted /\ Send(r, <<"finish">>)
          /\ \A s \in Requests : s # r => pc'[s] = pc[s]
          /\ pc[r] = "returned" /\ pc'[r] = "ended"
      BY <1>2, <2>7 DEF TypeOK, Finish, Goto
    <3>2. messages'[r] = Append(messages[r], "finish")
          /\ \A s \in Requests : s # r => messages'[s] = messages[s]
      <4>1. messages'[r] = messages[r] \o <<"finish">>
        BY <1>2, <3>1, Sent
      <4>2. messages[r] \in Seq({"start", "success", "failure", "finish"})
        BY <1>2 DEF TypeOK
      <4> QED
        BY <1>2, <3>1, <4>1, <4>2, OneMore, Sent
    <3>3. messages'[r] \in Ending \/ (interrupted'[r] /\ messages'[r] = <<"start", "finish">>)
      <4>1. CASE messages[r] \in Outcomes
        BY <3>2, <4>1, Zenon DEF Ending
      <4>2. CASE interrupted[r] /\ messages[r] = <<"start">>
        <5>1. messages'[r] = <<"start">> \o <<"finish">>
          BY <1>2, <3>1, <4>2, Sent
        <5>2. <<"start">> \o <<"finish">> = <<"start", "finish">>
          BY TwoSent
        <5> QED
          BY <3>1, <4>2, <5>1, <5>2
      <4> QED
        BY <1>1, <3>1, <4>1, <4>2 DEF MessagesInv
    <3> QED
      BY <1>1, <2>0, <3>1, <3>2, <3>3 DEF MessagesInv, Fresh, InRound
  <2> QED
    BY <2>1, <2>2, <2>3, <2>4, <2>5, <2>6, <2>7 DEF Run
<1> QED
  BY <1>1, <1>3, <1>4

LEMMA CountZero ==
    ASSUME NEW m, NEW msg, \A j \in DOMAIN m : m[j] # msg
    PROVE  Count(m, msg) = 0
<1>1. {i \in DOMAIN m : m[i] = msg} = {}
  OBVIOUS
<1> QED
  BY <1>1, FS_EmptySet DEF Count

LEMMA CountOne ==
    ASSUME NEW m, NEW msg, NEW i \in DOMAIN m, \A j \in DOMAIN m : m[j] = msg <=> j = i
    PROVE  Count(m, msg) = 1
<1>1. {j \in DOMAIN m : m[j] = msg} = {i}
  OBVIOUS
<1> QED
  BY <1>1, FS_Singleton, Zenon DEF Count

LEMMA CountTwo ==
    ASSUME NEW m, NEW msg, NEW i \in DOMAIN m, NEW k \in DOMAIN m, i # k,
           \A j \in DOMAIN m : m[j] = msg <=> j \in {i, k}
    PROVE  Count(m, msg) = 2
<1>1. {j \in DOMAIN m : m[j] = msg} = {i} \cup {k}
  OBVIOUS
<1>2. IsFiniteSet({i}) /\ Cardinality({i}) = 1
  BY FS_Singleton
<1>3. Cardinality({i} \cup {k}) = 2
  BY <1>2, FS_AddElement
<1> QED
  BY <1>1, <1>3 DEF Count

\* The messages of a request that ended, whichever way it went.
WellTold(m) ==
    /\ Head(m) = "start" /\ Count(m, "start") = 1 /\ Count(m, "finish") = 1
    /\ Count(m, "success") <= 1

LEMMA ToldNothing == WellTold(<<"start", "finish">>)
<1> DEFINE m == <<"start", "finish">>
<1>1. DOMAIN m = {1, 2} /\ m[1] = "start" /\ m[2] = "finish" /\ Len(m) = 2 /\ Head(m) = "start"
  OBVIOUS
<1> HIDE DEF m
<1>2. Count(m, "start") = 1 /\ Count(m, "finish") = 1 /\ Count(m, "success") = 0
  BY <1>1, CountOne, CountZero
<1> QED
  BY <1>1, <1>2 DEF WellTold, m

LEMMA ToldTwo ==
    ASSUME NEW a \in {"failure", "success", "finish"}, NEW b \in {"failure", "finish"},
           a = "finish" <=> b = "failure"
    PROVE  WellTold(<<"start", a, b>>)
           /\ Count(<<"start", a, b>>, "success") + Count(<<"start", a, b>>, "failure") >= 1
<1> DEFINE m == <<"start", a, b>>
<1>1. DOMAIN m = {1, 2, 3} /\ m[1] = "start" /\ m[2] = a /\ m[3] = b /\ Len(m) = 3 /\ Head(m) = "start"
  OBVIOUS
<1> HIDE DEF m
<1>2. Count(m, "start") = 1
  BY <1>1, CountOne
<1>3. Count(m, "finish") = 1
  <2>1. CASE a = "finish"
    BY <1>1, <2>1, CountOne
  <2>2. CASE a # "finish"
    BY <1>1, <2>2, CountOne
  <2> QED
    BY <2>1, <2>2
<1>4. /\ Count(m, "success") = IF a = "success" THEN 1 ELSE 0
      /\ Count(m, "failure") = IF a = "success" THEN 0 ELSE 1
  <2>1. CASE a = "success"
    BY <1>1, <2>1, CountOne, CountZero
  <2>2. CASE a = "failure"
    BY <1>1, <2>2, CountOne, CountZero
  <2>3. CASE a = "finish"
    BY <1>1, <2>3, CountOne, CountZero
  <2> QED
    BY <2>1, <2>2, <2>3
<1> QED
  BY <1>1, <1>2, <1>3, <1>4 DEF WellTold, m

LEMMA ToldThree ==
    ASSUME NEW a \in {"failure", "success"}
    PROVE  WellTold(<<"start", "failure", a, "finish">>)
           /\ Count(<<"start", "failure", a, "finish">>, "success")
                + Count(<<"start", "failure", a, "finish">>, "failure") >= 1
<1> DEFINE m == <<"start", "failure", a, "finish">>
<1>1. /\ DOMAIN m = {1, 2, 3, 4} /\ m[1] = "start" /\ m[2] = "failure" /\ m[3] = a /\ m[4] = "finish"
      /\ Len(m) = 4 /\ Head(m) = "start"
  OBVIOUS
<1> HIDE DEF m
<1>2. Count(m, "start") = 1 /\ Count(m, "finish") = 1
  BY <1>1, CountOne
<1>3. CASE a = "success"
  <2>1. Count(m, "success") = 1 /\ Count(m, "failure") = 1
    BY <1>1, <1>3, CountOne
  <2> QED
    BY <1>1, <1>2, <2>1 DEF WellTold, m
<1>4. CASE a = "failure"
  <2>1. Count(m, "success") = 0
    BY <1>1, <1>4, CountZero
  <2>2. Count(m, "failure") = 2
    BY <1>1, <1>4, CountTwo
  <2> QED
    BY <1>1, <1>2, <2>1, <2>2 DEF WellTold, m
<1> QED
  BY <1>3, <1>4

LEMMA EndingTold ==
    ASSUME NEW m \in Ending
    PROVE  /\ WellTold(m) /\ Count(m, "success") + Count(m, "failure") >= 1
           /\ m[Len(m)] = "finish"
<1>1. m \in {<<"start", "failure", "finish">>, <<"start", "success", "finish">>,
             <<"start", "failure", "failure", "finish">>, <<"start", "failure", "success", "finish">>}
  BY DEF Ending, Outcomes
<1>2. m[Len(m)] = "finish"
  <2>1. ASSUME NEW a, NEW b PROVE /\ <<a, b, "finish">>[Len(<<a, b, "finish">>)] = "finish"
    OBVIOUS
  <2>2. ASSUME NEW a, NEW b, NEW c
        PROVE  <<a, b, c, "finish">>[Len(<<a, b, c, "finish">>)] = "finish"
    OBVIOUS
  <2> QED
    BY <1>1, <2>1, <2>2
<1> QED
  BY <1>1, <1>2, ToldTwo, ToldThree

\* However a request fails, is repeated or cancelled, and whatever else runs:
\* its handler is told that it began, how it went unless it was cancelled, and
\* last that it finished, unless the request gave up for want of retries.
THEOREM CallbacksAreInOrder == Spec => []CallbacksInOrder
<1>1. Spec => []MessagesInv
  BY TypeInit, TypeStep, PostInit, PostStep, MessagesInit, MessagesStep, PTL DEF Spec
<1>2. ASSUME MessagesInv, NEW r \in Requests, pc[r] = "ended"
      PROVE  /\ WellTold(messages[r])
             /\ ~interrupted[r] => Count(messages[r], "success") + Count(messages[r], "failure") >= 1
             /\ \/ messages[r][Len(messages[r])] = "finish"
                \/ GaveUp(r) /\ messages[r] = <<"start", "finish", "failure">>
  <2>1. CASE messages[r] \in Ending
    BY <2>1, EndingTold
  <2>2. CASE interrupted[r] /\ messages[r] = <<"start", "finish">>
    BY <2>2, ToldNothing
  <2>3. CASE GaveUp(r) /\ messages[r] = <<"start", "finish", "failure">>
    BY <2>3, ToldTwo
  <2> QED
    BY <1>2, <2>1, <2>2, <2>3 DEF MessagesInv
<1>3. MessagesInv => CallbacksInOrder
  BY <1>2 DEF CallbacksInOrder, WellTold
<1> QED
  BY <1>1, <1>3, PTL

-----------------------------------------------------------------------------
\* A variant for RequestEnds.

\* How far a request is in the round at hand ...
Stage(l) ==
    CASE l = "submitted" -> 3
      [] l = "round" -> 2
      [] l \in {"trying", "retry"} -> 1
      [] OTHER -> 0

\* ... and in its stage.
Place(l) ==
    CASE l \in {"answered", "thrown"} -> 4
      [] l \in {"failed", "respond"} -> 3
      [] l \in {"returned", "trying"} -> 2
      [] l = "retry" -> 1
      [] OTHER -> 0

\* A step uses up a round, or brings the round on, or uses up an attempt of
\* the present execute(), or goes on in its stage.  TypeCorrect bounds both
\* counters by MaxRetries + 1.
UsesUp(r) ==
    \/ executionCount'[r] > executionCount[r]
    \/ executionCount'[r] = executionCount[r] /\ Stage(pc'[r]) < Stage(pc[r])
    \/ /\ executionCount'[r] = executionCount[r] /\ Stage(pc'[r]) = Stage(pc[r])
       /\ execCount'[r] > execCount[r]
    \/ /\ executionCount'[r] = executionCount[r] /\ Stage(pc'[r]) = Stage(pc[r])
       /\ execCount'[r] = execCount[r] /\ Place(pc'[r]) < Place(pc[r])

LEMMA StageTable ==
    /\ Stage("submitted") = 3 /\ Stage("round") = 2 /\ Stage("trying") = 1 /\ Stage("retry") = 1
    /\ Stage("thrown") = 0 /\ Stage("failed") = 0 /\ Stage("answered") = 0
    /\ Stage("respond") = 0 /\ Stage("returned") = 0 /\ Stage("ended") = 0
    /\ Stage("cancelled") = 0
BY DEF Stage

LEMMA PlaceTable ==
    /\ Place("answered") = 4 /\ Place("thrown") = 4 /\ Place("failed") = 3
    /\ Place("respond") = 3 /\ Place("returned") = 2 /\ Place("trying") = 2
    /\ Place("retry") = 1 /\ Place("ended") = 0
BY DEF Place

LEMMA RunUsesUp ==
    ASSUME TypeInv, NEW r \in Requests, Run(r)
    PROVE  UsesUp(r)
<1> USE StageTable, PlaceTable DEF Goto
<1>1. /\ pc \in [Requests -> {"new", "submitted", "round", "trying", "retry", "thrown",
                "failed", "answered", "respond", "returned", "ended", "cancelled"}]
      /\ executionCount[r] \in Nat /\ execCount[r] \in Nat
  BY DEF TypeInv, TypeOK
<1>2. CASE Start(r)
  BY <1>1, <1>2 DEF Start, UsesUp
<1>3. CASE MakeRequest(r)
  BY <1>1, <1>3 DEF MakeRequest, UsesUp
<1>4. CASE AttemptEnds(r)
  BY <1>1, <1>4 DEF AttemptEnds, UsesUp
<1>5. CASE HttpClientRetries(r)
  <2>1. CASE pc' = [pc EXCEPT ![r] = "thrown"]
    BY <1>1, <1>5, <2>1 DEF HttpClientRetries, UsesUp
  <2>2. CASE execCount' = [execCount EXCEPT ![r] = @ + 1] /\ pc' = [pc EXCEPT ![r] = "trying"]
    <3>1. execCount'[r] = execCount[r] + 1
      BY <2>2 DEF TypeInv, TypeOK
    <3>2. pc'[r] = "trying" /\ pc[r] = "retry" /\ executionCount' = executionCount
      BY <1>1, <1>5, <2>2 DEF HttpClientRetries
    <3>3. QED
      BY <1>1, <3>1, <3>2 DEF UsesUp
  <2>3. QED
    BY <1>5, <2>1, <2>2 DEF HttpClientRetries
<1>6. CASE MakeRequestThrows(r)
  BY <1>1, <1>6 DEF MakeRequestThrows, UsesUp
<1>7. CASE MakeRequestWithRetries(r)
  <2>1. CASE error[r] \in {"host", "timeout"}
    BY <1>1, <1>7, <2>1 DEF MakeRequestWithRetries, UsesUp
  <2>2. CASE error[r] \notin {"host", "timeout"}
    <3>1. executionCount'[r] = executionCount[r] + 1
      BY <1>7, <2>2 DEF MakeRequestWithRetries, TypeInv, TypeOK
    <3>2. QED
      BY <1>1, <3>1 DEF UsesUp
  <2>3. QED
    BY <2>1, <2>2
<1>8. CASE ResponseArrives(r)
  BY <1>1, <1>8 DEF ResponseArrives, UsesUp
<1>9. CASE SendResponseMessage(r)
  BY <1>1, <1>9 DEF SendResponseMessage, UsesUp
<1>10. CASE Finish(r)
  BY <1>1, <1>10 DEF Finish, UsesUp
<1>11. QED
  BY <1>2, <1>3, <1>4, <1>5, <1>6, <1>7, <1>8, <1>9, <1>10 DEF Run

\* What is done with a request once it was sent is finite: whatever fails and
\* whoever cancels, each step of it uses up a part of what the two loops
\* allow, and no other request's step sets it back, although they share the
\* context the retries are decided by.
THEOREM RequestRunsDown ==
    Spec => [][\A r \in Requests :
                  pc[r] # "new" => UsesUp(r) \/ UNCHANGED <<pc[r], executionCount[r], execCount[r]>>]_vars
<1>1. ASSUME TypeInv, Next, NEW r \in Requests, pc[r] # "new"
      PROVE  UsesUp(r) \/ UNCHANGED <<pc[r], executionCount[r], execCount[r]>>
  <2>1. PICK s \in Requests : SendRequest(s) \/ CancelRequest(s) \/ Run(s)
    BY <1>1 DEF Next
  <2>2. CASE r # s
    <3>1. /\ pc' = pc \/ \E l : pc' = [pc EXCEPT ![s] = l]
          /\ executionCount' = executionCount \/ \E n : executionCount' = [executionCount EXCEPT ![s] = n]
          /\ execCount' = execCount \/ \E n : execCount' = [execCount EXCEPT ![s] = n]
      BY <2>1 DEF SendRequest, CancelRequest, Run, Start, MakeRequest, AttemptEnds,
         HttpClientRetries, MakeRequestThrows, MakeRequestWithRetries, ResponseArrives,
         SendResponseMessage, Finish, Goto
    <3>2. QED
      BY <1>1, <2>2, <3>1 DEF TypeInv, TypeOK
  <2>3. CASE r = s
    <3>1. ~SendRequest(s)
      BY <1>1, <2>3 DEF SendRequest, Goto
    <3>2. CASE CancelRequest(s)
      BY <1>1, <2>3, <3>2, StageTable DEF CancelRequest, Goto, UsesUp, TypeInv, TypeOK
    <3>3. QED
      BY <1>1, <2>1, <2>3, <3>1, <3>2, RunUsesUp
  <2>4. QED
    BY <2>2, <2>3
<1>2. TypeInv /\ [Next]_vars =>
        [\A r \in Requests :
            pc[r] # "new" => UsesUp(r) \/ UNCHANGED <<pc[r], executionCount[r], execCount[r]>>]_vars
  BY <1>1
<1>3. QED
  BY <1>2, TypeInit, TypeStep, PTL DEF Spec
=============================================================================
