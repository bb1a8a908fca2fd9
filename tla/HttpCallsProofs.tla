---------------------------- MODULE HttpCallsProofs ----------------------------
(***************************************************************************)
(* Proofs about HttpCalls for any calls, loops, authorities and counts.    *)
(***************************************************************************)
EXTENDS HttpCalls, TLAPS

(* A call that is under way has exactly one callback to come, which tells   *)
(* how many attempts and retries there were; one that is over has none, and *)
(* was resumed, or lost an exception, or had no client left.                *)
Open(c) == resumes[c] = 0 /\ result[c] = "none" /\ ~escaped[c]
Over(c) ==
  /\ attempts[c] = 1 \/ (attempts[c] = 2 /\ maxRetries[c] > 0)
  /\ retryCount[c] = 0 \/ retryCount[c] = 1
  /\ escaped[c] => Refused(c) /\ maxRetries[c] > 0 /\ attempts[c] = 2
  /\ \/ resumes[c] = 1 /\ result[c] \in {"ok", "err"} /\ ~escaped[c]
     \/ resumes[c] = 0 /\ result[c] = "none" /\ (escaped[c] \/ ~connected[c])
CallInv(c) ==
  \/ todo[c] = {"start"} /\ attempts[c] = 0 /\ retryCount[c] = 0 /\ Open(c)
  \/ todo[c] = {"first"} /\ attempts[c] = 1 /\ retryCount[c] = 0 /\ Open(c)
  \/ todo[c] = {"timer"} /\ attempts[c] = 1 /\ retryCount[c] = 1 /\ maxRetries[c] > 0
                         /\ Open(c)
  \/ todo[c] = {"retry"} /\ attempts[c] = 2 /\ retryCount[c] = 1 /\ maxRetries[c] > 0
                         /\ Open(c)
  \/ todo[c] = {} /\ Over(c)

(* The stages of a call are told apart by its callback. *)
LEMMA StagesDiffer ==
  /\ {"start"} # {"first"} /\ {"start"} # {"timer"} /\ {"start"} # {"retry"}
  /\ {"first"} # {"timer"} /\ {"first"} # {"retry"} /\ {"timer"} # {"retry"}
  /\ {"start"} # {} /\ {"first"} # {} /\ {"timer"} # {} /\ {"retry"} # {}
OBVIOUS

(* The parts of the type invariant that CallInv does not imply. *)
FrameOK ==
  /\ url \in [Call -> [scheme : Scheme, authority : Authority]]
  /\ loop \in [Call -> Loop]
  /\ asked \in [Call -> RetryCount]
  /\ maxRetries = [c \in Call |-> ToInt(asked[c])]
  /\ cache \in [Authority -> [Loop -> Scheme \cup {"none"}]]
  /\ sentOver \in [Call -> Scheme \cup {"none"}]
  /\ connected \in [Call -> BOOLEAN]

(* The variables that CallInv speaks of are functions on the calls. *)
Shape == /\ todo \in [Call -> SUBSET Callback]
         /\ attempts \in [Call -> Nat]
         /\ retryCount \in [Call -> Nat]
         /\ result \in [Call -> {"none", "ok", "err"}]
         /\ resumes \in [Call -> Nat]
         /\ escaped \in [Call -> BOOLEAN]

IInv == FrameOK /\ Shape /\ \A c \in Call : CallInv(c)

(* The cached client is the one that all calls of its authority and loop    *)
(* were sent by, and was made for one of them.                              *)
CacheInv ==
  \A a \in Authority, l \in Loop :
     /\ \A c \in Sent(a, l) : cache[a][l] = sentOver[c]
     /\ cache[a][l] # "none" => \E d \in Sent(a, l) : url[d].scheme = cache[a][l]
-----------------------------------------------------------------------------
LEMMA RemainderInRange ==
  ASSUME NEW a \in Int, NEW b \in Nat \ {0}
  PROVE  a % b \in 0..(b - 1)
OBVIOUS

LEMMA RemainderOfSmall ==
  ASSUME NEW b \in Nat \ {0}, NEW a \in 0..(b - 1)
  PROVE  a % b = a
OBVIOUS

(* The cast gives an int, and keeps what is one already. *)

LEMMA CastIsInt ==
  ASSUME NEW n \in Int
  PROVE  ToInt(n) \in Ints /\ (n \in Ints => ToInt(n) = n)
<1>1. MaxInt \in Nat /\ 2 * MaxInt + 2 \in Nat \ {0} /\ n + MaxInt + 1 \in Int
  BY HttpAssumption
<1>2. (n + MaxInt + 1) % (2 * MaxInt + 2) \in 0..(2 * MaxInt + 2 - 1)
  BY <1>1, RemainderInRange
<1>3. ASSUME n \in Ints PROVE (n + MaxInt + 1) % (2 * MaxInt + 2) = n + MaxInt + 1
  <2>1. n + MaxInt + 1 \in 0..(2 * MaxInt + 2 - 1)
    BY <1>1, <1>3 DEF Ints
  <2> QED BY <1>1, <2>1, RemainderOfSmall
<1> QED BY <1>1, <1>2, <1>3 DEF ToInt, Ints

(* What the context keeps of the count. *)
LEMMA Kept ==
  ASSUME FrameOK, NEW c \in Call
  PROVE  asked[c] \in Int /\ maxRetries[c] = ToInt(asked[c]) /\ maxRetries[c] \in Ints
                          /\ maxRetries[c] \in Int
<1>1. asked[c] \in Int /\ maxRetries[c] = ToInt(asked[c])
  BY HttpAssumption DEF FrameOK
<1> QED BY <1>1, CastIsInt, HttpAssumption DEF Ints

LEMMA InitIInv == Init => IInv
<1> SUFFICES ASSUME Init PROVE IInv
  OBVIOUS
<1>1. FrameOK
  BY DEF Init, FrameOK
<1>2. Shape
  BY DEF Init, Shape, Callback
<1>3. \A c \in Call : CallInv(c)
  BY DEF Init, CallInv, Open
<1> QED BY <1>1, <1>2, <1>3 DEF IInv

(* Sending an attempt gives the call the client of its scheme or the one    *)
(* that is cached.                                                          *)
LEMMA SendKeepsFrame ==
  ASSUME FrameOK, NEW c \in Call, Send(c), UNCHANGED <<url, loop, asked, maxRetries, connected>>
  PROVE  FrameOK'
<1>1. /\ url[c].scheme \in Scheme /\ url[c].authority \in Authority /\ loop[c] \in Loop
      /\ cache[url[c].authority] \in [Loop -> Scheme \cup {"none"}]
  BY DEF FrameOK
<1>2. ClientScheme(c) \in Scheme
  BY <1>1 DEF ClientScheme, Scheme
<1>3. sentOver' \in [Call -> Scheme \cup {"none"}]
  BY <1>2 DEF FrameOK, Send
<1>4. cache' \in [Authority -> [Loop -> Scheme \cup {"none"}]]
  BY <1>1, <1>2 DEF FrameOK, Send
<1> QED BY <1>3, <1>4 DEF FrameOK

(* The callback that runs is the only one there is. *)
LEMMA TurnFacts ==
  ASSUME IInv, NEW c \in Call, NEW from \in Callback, NEW to, Turn(c, from, to)
  PROVE  todo[c] = {from} /\ todo' = [todo EXCEPT ![c] = to]
<1>1. todo[c] = {from}
  BY DEF IInv, CallInv, Turn
<1> QED BY <1>1 DEF Turn

(* Each step of a call keeps the call's part of the invariant and leaves    *)
(* the other calls alone.                                                   *)
LEMMA StepKeepsIInv ==
  ASSUME IInv, NEW c \in Call, Step(c)
  PROVE  IInv'
<1> USE HttpAssumption
<1>0. maxRetries[c] \in Int
  BY Kept DEF IInv
<1>1. CASE StartSends(c)
  <2>1. FrameOK'
    BY <1>1, SendKeepsFrame DEF IInv, StartSends
  <2>2. todo[c] = {"start"} /\ todo' = [todo EXCEPT ![c] = {"first"}]
    BY <1>1, TurnFacts DEF StartSends, Callback
  <2>3. Shape'
    BY <1>1, <2>2 DEF IInv, Shape, Callback, StartSends, CountAttempt, KeepResult
  <2>4. CallInv(c)'
    <3>1. attempts[c] = 0 /\ retryCount[c] = 0 /\ Open(c)
      BY <2>2, StagesDiffer DEF IInv, CallInv
    <3>2. /\ todo'[c] = {"first"} /\ attempts'[c] = 1
          /\ UNCHANGED <<retryCount, resumes, result, escaped>>
      BY <1>1, <2>2, <3>1 DEF IInv, Shape, StartSends, CountAttempt, KeepResult
    <3> QED BY <3>1, <3>2 DEF CallInv, Open
  <2>5. \A x \in Call : x # c => CallInv(x)'
    BY <1>1, <2>2 DEF IInv, Shape, CallInv, Open, Over, Refused, StartSends, CountAttempt, KeepResult
  <2> QED BY <2>1, <2>3, <2>4, <2>5 DEF IInv
<1>2. CASE StartRefused(c)
  <2>1. FrameOK'
    BY <1>2 DEF IInv, FrameOK, StartRefused
  <2>2. /\ todo[c] = {"start"}
        /\ todo' = [todo EXCEPT ![c] = IF connected[c] /\ retryCount[c] < maxRetries[c]
                                         THEN {"timer"} ELSE {}]
    BY <1>2, <1>0, TurnFacts DEF IInv, FrameOK, Shape, StartRefused, FirstError, Callback
  <2>3. Shape'
    BY <1>2, <2>2 DEF IInv, Shape, Callback, StartRefused, FirstError, Resume, CountAttempt, KeepResult
  <2>4. CallInv(c)'
    BY <1>2, <1>0, <2>2, StagesDiffer DEF IInv, Shape, CallInv, Open, Over, Refused, StartRefused, FirstError, Resume, CountAttempt, KeepResult
  <2>5. \A x \in Call : x # c => CallInv(x)'
    BY <1>2, <2>2 DEF IInv, Shape, CallInv, Open, Over, Refused, StartRefused, FirstError, Resume, CountAttempt, KeepResult
  <2> QED BY <2>1, <2>3, <2>4, <2>5 DEF IInv
<1>3. CASE FirstSucceeds(c)
  <2>1. FrameOK'
    BY <1>3 DEF IInv, FrameOK, FirstSucceeds
  <2>2. todo[c] = {"first"} /\ todo' = [todo EXCEPT ![c] = {}]
    BY <1>3, TurnFacts DEF FirstSucceeds, Callback, Conclude
  <2>3. Shape'
    BY <1>3, <2>2 DEF IInv, Shape, Callback, FirstSucceeds, Conclude, Resume, KeepResult
  <2>4. CallInv(c)'
    <3>1. attempts[c] = 1 /\ retryCount[c] = 0 /\ Open(c)
      BY <2>2, StagesDiffer DEF IInv, CallInv
    <3>2. /\ todo'[c] = {} /\ UNCHANGED <<attempts, retryCount, escaped>>
          /\ \/ connected'[c] /\ resumes'[c] = 1 /\ result'[c] = "ok"
             \/ ~connected'[c] /\ UNCHANGED <<resumes, result>>
      BY <1>3, <2>2, <3>1 DEF IInv, Shape, Open, FirstSucceeds, Conclude, Resume, KeepResult
    <3> QED BY <3>1, <3>2 DEF CallInv, Open, Over
  <2>5. \A x \in Call : x # c => CallInv(x)'
    BY <1>3, <2>2 DEF IInv, Shape, CallInv, Open, Over, Refused, FirstSucceeds, Conclude, Resume, KeepResult
  <2> QED BY <2>1, <2>3, <2>4, <2>5 DEF IInv
<1>4. CASE FirstFails(c)
  <2>1. FrameOK'
    BY <1>4 DEF IInv, FrameOK, FirstFails
  <2>2. /\ todo[c] = {"first"}
        /\ todo' = [todo EXCEPT ![c] = IF connected[c] /\ retryCount[c] < maxRetries[c]
                                         THEN {"timer"} ELSE {}]
    BY <1>4, <1>0, TurnFacts DEF IInv, FrameOK, Shape, FirstFails, FirstError, Callback
  <2>3. Shape'
    BY <1>4, <2>2 DEF IInv, Shape, Callback, FirstFails, FirstError, Resume, KeepResult
  <2>4. CallInv(c)'
    <3>1. attempts[c] = 1 /\ retryCount[c] = 0 /\ Open(c)
      BY <2>2, StagesDiffer DEF IInv, CallInv
    <3>2. UNCHANGED <<maxRetries, connected, attempts, escaped>>
      BY <1>4 DEF FirstFails
    <3>3. CASE ~connected[c]
      <4>1. todo'[c] = {} /\ UNCHANGED <<retryCount, resumes, result>>
        BY <1>4, <2>2, <3>3 DEF IInv, Shape, FirstFails, FirstError, KeepResult
      <4> QED BY <3>1, <3>2, <3>3, <4>1 DEF CallInv, Open, Over
    <3>4. CASE connected[c] /\ retryCount[c] < maxRetries[c]
      <4>1. todo'[c] = {"timer"} /\ retryCount'[c] = 1 /\ UNCHANGED <<resumes, result>>
        BY <1>4, <1>0, <2>2, <3>1, <3>4 DEF IInv, Shape, FirstFails, FirstError, KeepResult
      <4> QED BY <1>0, <3>1, <3>2, <3>4, <4>1 DEF CallInv, Open
    <3>5. CASE connected[c] /\ ~(retryCount[c] < maxRetries[c])
      <4>1. /\ todo'[c] = {} /\ UNCHANGED retryCount
            /\ resumes'[c] = 1 /\ result'[c] = "err"
        BY <1>4, <1>0, <2>2, <3>1, <3>5 DEF IInv, Shape, Open, FirstFails, FirstError, Resume
      <4> QED BY <3>1, <3>2, <4>1 DEF CallInv, Open, Over
    <3> QED BY <3>3, <3>4, <3>5
  <2>5. \A x \in Call : x # c => CallInv(x)'
    BY <1>4, <2>2 DEF IInv, Shape, CallInv, Open, Over, Refused, FirstFails, FirstError, Resume, KeepResult
  <2> QED BY <2>1, <2>3, <2>4, <2>5 DEF IInv
<1>5. CASE TimerSends(c)
  <2>1. FrameOK'
    BY <1>5, SendKeepsFrame DEF IInv, TimerSends
  <2>2. todo[c] = {"timer"} /\ todo' = [todo EXCEPT ![c] = {"retry"}]
    BY <1>5, TurnFacts DEF TimerSends, Callback
  <2>3. Shape'
    BY <1>5, <2>2 DEF IInv, Shape, Callback, TimerSends, CountAttempt, KeepResult
  <2>4. CallInv(c)'
    <3>1. attempts[c] = 1 /\ retryCount[c] = 1 /\ maxRetries[c] > 0 /\ Open(c)
      BY <2>2, StagesDiffer DEF IInv, CallInv
    <3>2. /\ todo'[c] = {"retry"} /\ attempts'[c] = 2
          /\ UNCHANGED <<retryCount, maxRetries, resumes, result, escaped>>
      BY <1>5, <2>2, <3>1 DEF IInv, Shape, TimerSends, CountAttempt, KeepResult
    <3> QED BY <3>1, <3>2 DEF CallInv, Open
  <2>5. \A x \in Call : x # c => CallInv(x)'
    BY <1>5, <2>2 DEF IInv, Shape, CallInv, Open, Over, Refused, TimerSends, CountAttempt, KeepResult
  <2> QED BY <2>1, <2>3, <2>4, <2>5 DEF IInv
<1>6. CASE TimerThrows(c)
  <2>1. FrameOK'
    BY <1>6 DEF IInv, FrameOK, TimerThrows
  <2>2. todo[c] = {"timer"} /\ todo' = [todo EXCEPT ![c] = {}]
    BY <1>6, TurnFacts DEF TimerThrows, Callback
  <2>3. Shape'
    BY <1>6, <2>2 DEF IInv, Shape, Callback, TimerThrows, CountAttempt, KeepResult
  <2>4. CallInv(c)'
    <3>1. attempts[c] = 1 /\ retryCount[c] = 1 /\ maxRetries[c] > 0 /\ Open(c)
      BY <2>2, StagesDiffer DEF IInv, CallInv
    <3>2. /\ todo'[c] = {} /\ attempts'[c] = 2 /\ escaped'[c] /\ Refused(c)
          /\ UNCHANGED <<url, maxRetries, retryCount, resumes, result>>
      BY <1>6, <2>2, <3>1 DEF IInv, Shape, TimerThrows, CountAttempt, KeepResult
    <3> QED BY <3>1, <3>2 DEF CallInv, Open, Over, Refused
  <2>5. \A x \in Call : x # c => CallInv(x)'
    BY <1>6, <2>2 DEF IInv, Shape, CallInv, Open, Over, Refused, TimerThrows, CountAttempt, KeepResult
  <2> QED BY <2>1, <2>3, <2>4, <2>5 DEF IInv
<1>7. CASE RetryReplies(c)
  <2>1. FrameOK'
    BY <1>7 DEF IInv, FrameOK, RetryReplies
  <2>2. todo[c] = {"retry"} /\ todo' = [todo EXCEPT ![c] = {}]
    BY <1>7, TurnFacts DEF RetryReplies, Callback, Conclude
  <2>3. Shape'
    BY <1>7, <2>2 DEF IInv, Shape, Callback, RetryReplies, Conclude, Resume, KeepResult
  <2>4. CallInv(c)'
    <3>1. attempts[c] = 2 /\ retryCount[c] = 1 /\ maxRetries[c] > 0 /\ Open(c)
      BY <2>2, StagesDiffer DEF IInv, CallInv
    <3>2. PICK r \in {"ok", "err"} : Conclude(c, "retry", r)
      BY <1>7 DEF RetryReplies
    <3>3. /\ todo'[c] = {} /\ UNCHANGED <<attempts, retryCount, maxRetries, escaped>>
          /\ \/ connected'[c] /\ resumes'[c] = 1 /\ result'[c] = r
             \/ ~connected'[c] /\ UNCHANGED <<resumes, result>>
      BY <1>7, <2>2, <3>1, <3>2 DEF IInv, Shape, Open, RetryReplies, Conclude, Resume, KeepResult
    <3> QED BY <3>1, <3>3 DEF CallInv, Open, Over
  <2>5. \A x \in Call : x # c => CallInv(x)'
    BY <1>7, <2>2 DEF IInv, Shape, CallInv, Open, Over, Refused, RetryReplies, Conclude, Resume, KeepResult
  <2> QED BY <2>1, <2>3, <2>4, <2>5 DEF IInv
<1> QED BY <1>1, <1>2, <1>3, <1>4, <1>5, <1>6, <1>7 DEF Step

LEMMA NextIInv == IInv /\ [Next]_httpVars => IInv'
<1> SUFFICES ASSUME IInv, [Next]_httpVars PROVE IInv'
  OBVIOUS
<1>1. CASE UNCHANGED httpVars
  BY <1>1 DEF httpVars, IInv, FrameOK, Shape, CallInv, Open, Over, Refused
<1>2. ASSUME NEW c \in Call, Step(c) PROVE IInv'
  BY <1>2, StepKeepsIInv
<1>3. ASSUME NEW c \in Call, Disconnect(c) PROVE IInv'
  BY <1>3 DEF Disconnect, IInv, FrameOK, Shape, CallInv, Open, Over, Refused
<1>4. CASE Rest
  BY <1>1, <1>4 DEF Rest
<1> QED BY <1>1, <1>2, <1>3, <1>4 DEF Next

THEOREM Invariance == Safety => []IInv
BY InitIInv, NextIInv, PTL DEF Safety
-----------------------------------------------------------------------------
(* The results *)

(* Every variable keeps its type: in particular no call makes more than two *)
(* attempts or counts more than one retry.                                  *)
THEOREM TypeCorrect == Safety => []TypeOK
<1>1. IInv => TypeOK
  <2> SUFFICES ASSUME IInv PROVE TypeOK
    OBVIOUS
  <2>1. attempts \in [Call -> 0..2]
    BY DEF IInv, Shape, CallInv, Over
  <2>2. retryCount \in [Call -> {0, 1}]
    BY DEF IInv, Shape, CallInv, Over
  <2>3. maxRetries \in [Call -> Ints]
    <3>1. \A c \in Call : maxRetries[c] \in Ints
      BY Kept DEF IInv
    <3> QED BY <3>1 DEF IInv, FrameOK
  <2> QED BY <2>1, <2>2, <2>3 DEF IInv, FrameOK, Shape, TypeOK
<1> QED BY <1>1, Invariance, PTL

(* A route is resumed at most once for each call, and nothing of the call   *)
(* is left to run when it is.                                               *)
THEOREM ResumedOnce == Safety => []CompletesOnce
<1>1. IInv => CompletesOnce
  <2> SUFFICES ASSUME IInv, NEW c \in Call
               PROVE  /\ resumes[c] <= 1
                      /\ \A x, y \in todo[c] : x = y
                      /\ resumes[c] = 1 \/ escaped[c] => todo[c] = {}
    BY DEF CompletesOnce
  <2>1. CallInv(c)
    BY DEF IInv
  <2> QED BY <2>1 DEF CallInv, Open, Over
<1> QED BY <1>1, Invariance, PTL

(* No call makes more attempts than the first one and the retries asked    *)
(* for, whatever integer was asked for and however wide an int is; only one *)
(* retry can come of a count that the cast makes positive.                  *)
THEOREM AttemptsBounded == Safety => []AttemptsWithinCount
<1>1. IInv => AttemptsWithinCount
  <2> SUFFICES ASSUME IInv, NEW c \in Call
               PROVE  \/ attempts[c] <= 1 + (IF asked[c] > 0 THEN asked[c] ELSE 0)
                      \/ asked[c] < -MaxInt - 1 /\ ToInt(asked[c]) > 0 /\ attempts[c] = 2
    BY DEF AttemptsWithinCount
  <2>1. /\ asked[c] \in Int /\ maxRetries[c] = ToInt(asked[c]) /\ maxRetries[c] \in Int
        /\ asked[c] \in Ints => ToInt(asked[c]) = asked[c]
    BY Kept, CastIsInt DEF IInv
  <2>2. attempts[c] \in 0..1 \/ (attempts[c] = 2 /\ maxRetries[c] > 0)
    BY DEF IInv, CallInv, Over
  <2>3. CASE attempts[c] \in 0..1
    BY <2>1, <2>3
  <2>4. CASE attempts[c] = 2 /\ maxRetries[c] > 0
    <3>1. CASE asked[c] > 0
      BY <2>1, <2>4, <3>1
    <3>2. CASE ~(asked[c] > 0)
      <4>1. asked[c] \notin Ints
        BY <2>1, <2>4, <3>2
      <4>2. asked[c] < -MaxInt - 1
        BY <2>1, <3>2, <4>1, HttpAssumption DEF Ints
      <4> QED BY <2>1, <2>4, <4>2
    <3> QED BY <3>1, <3>2
  <2> QED BY <2>2, <2>3, <2>4
<1> QED BY <1>1, Invariance, PTL

(* The exceptions that get lost are those of a retry's getClient.           *)
THEOREM LostInRetries == Safety => []LostOnlyByRetry
<1>1. IInv => LostOnlyByRetry
  BY DEF IInv, CallInv, Open, Over, LostOnlyByRetry
<1> QED BY <1>1, Invariance, PTL

(* The first call that is sent decides, and no later one changes, over      *)
(* which scheme an authority is spoken to on a loop.                        *)
LEMMA SendKeepsCache ==
  ASSUME IInv, CacheInv, NEW c \in Call, Send(c), UNCHANGED <<url, loop>>
  PROVE  CacheInv'
<1> DEFINE a == url[c].authority
           l == loop[c]
           s == ClientScheme(c)
<1>1. a \in Authority /\ l \in Loop /\ cache[a] \in [Loop -> Scheme \cup {"none"}]
  BY DEF IInv, FrameOK
<1>2. /\ s # "none"
      /\ cache[a][l] # "none" => s = cache[a][l]
      /\ cache[a][l] = "none" => s = url[c].scheme
  BY DEF IInv, FrameOK, ClientScheme, Scheme
<1>3. /\ sentOver'[c] = s /\ cache'[a][l] = s
      /\ \A d \in Call : d # c => sentOver'[d] = sentOver[d]
      /\ \A b \in Authority, k \in Loop : b # a \/ k # l => cache'[b][k] = cache[b][k]
  BY <1>1 DEF IInv, FrameOK, Send
<1> HIDE DEF s
<1> SUFFICES ASSUME NEW b \in Authority, NEW k \in Loop
             PROVE  /\ \A d \in Sent(b, k)' : cache'[b][k] = sentOver'[d]
                    /\ cache'[b][k] # "none" =>
                         \E d \in Sent(b, k)' : url[d].scheme = cache'[b][k]
  BY DEF CacheInv
<1>4. CASE b = a /\ k = l
  <2>1. Sent(a, l)' = Sent(a, l) \cup {c}
    BY <1>2, <1>3 DEF Sent
  <2>2. \A d \in Sent(a, l) : cache[a][l] = sentOver[d] /\ sentOver[d] # "none"
    BY <1>1 DEF CacheInv, Sent
  <2>3. \A d \in Sent(a, l)' : sentOver'[d] = s
    BY <1>2, <1>3, <2>1, <2>2 DEF Sent
  <2>4. \E d \in Sent(a, l)' : url[d].scheme = s
    <3>1. CASE cache[a][l] = "none"
      BY <1>2, <2>1, <3>1
    <3>2. CASE cache[a][l] # "none"
      BY <1>1, <1>2, <2>1, <3>2 DEF CacheInv
    <3> QED BY <3>1, <3>2
  <2> QED BY <1>3, <1>4, <2>3, <2>4
<1>5. CASE b # a \/ k # l
  <2>1. Sent(b, k)' = Sent(b, k) /\ c \notin Sent(b, k)
    BY <1>3, <1>5 DEF Sent
  <2>2. cache'[b][k] = cache[b][k] /\ \A d \in Sent(b, k) : sentOver'[d] = sentOver[d]
    BY <1>3, <1>5, <2>1 DEF Sent
  <2> QED BY <2>1, <2>2 DEF CacheInv
<1> QED BY <1>4, <1>5

LEMMA NextCacheInv == IInv /\ CacheInv /\ [Next]_httpVars => CacheInv'
<1> SUFFICES ASSUME IInv, CacheInv, [Next]_httpVars PROVE CacheInv'
  OBVIOUS
<1>1. CASE UNCHANGED <<url, loop, cache, sentOver>>
  BY <1>1 DEF CacheInv, Sent
<1>2. ASSUME NEW c \in Call, Send(c), UNCHANGED <<url, loop>> PROVE CacheInv'
  BY <1>2, SendKeepsCache
<1>3. \/ UNCHANGED <<url, loop, cache, sentOver>>
      \/ \E c \in Call : Send(c) /\ UNCHANGED <<url, loop>>
  BY DEF httpVars, Next, Rest, Disconnect, Step, StartSends, StartRefused, FirstSucceeds,
     FirstFails, TimerSends, TimerThrows, RetryReplies
<1> QED BY <1>1, <1>2, <1>3

(* An https request can go out in plain text only over the client that a    *)
(* request to the same authority on the same loop was given before          *)
(* (LuaHttp.cc:384): what breaks OwnScheme is confined to this.             *)
THEOREM ClientsShareScheme == Safety => []OneSchemePerClient
<1>1. Init => CacheInv
  BY DEF Init, CacheInv, Sent
<1>2. Safety => []CacheInv
  BY <1>1, NextCacheInv, Invariance, PTL DEF Safety
<1>3. IInv /\ CacheInv => OneSchemePerClient
  <2> SUFFICES ASSUME CacheInv, NEW a \in Authority, NEW l \in Loop, NEW c \in Sent(a, l)
               PROVE  /\ \A d \in Sent(a, l) : sentOver[d] = sentOver[c]
                      /\ \E d \in Sent(a, l) : url[d].scheme = sentOver[c]
    BY DEF OneSchemePerClient
  <2>1. \A d \in Sent(a, l) : sentOver[d] = cache[a][l]
    BY DEF CacheInv
  <2>2. cache[a][l] # "none"
    BY <2>1 DEF Sent
  <2> QED BY <2>1, <2>2 DEF CacheInv
<1> QED BY <1>2, <1>3, Invariance, PTL
-----------------------------------------------------------------------------
(* A call implements AsyncOperation, for every set of refused authorities.  *)

(* The operation of a call that is under way is pending once it started.    *)
LEMMA OpOf ==
  ASSUME NEW c \in Call, CallInv(c)
  PROVE  /\ todo[c] = {"start"} <=> op[c] = "none"
         /\ todo[c] \in {{"first"}, {"timer"}, {"retry"}} => op[c] = "pending"
         /\ todo[c] = {} => op[c] = IF resumes[c] > 0 THEN result[c]
                                    ELSE IF escaped[c] THEN "pending" ELSE "dropped"
<1> USE StagesDiffer
<1>1. "start" \in todo[c] <=> todo[c] = {"start"}
  BY DEF CallInv
<1>2. CASE todo[c] = {"start"}
  BY <1>1, <1>2 DEF op
<1>3. CASE todo[c] \in {{"first"}, {"timer"}, {"retry"}}
  BY <1>1, <1>3 DEF op, CallInv, Open
<1>4. CASE todo[c] = {}
  BY <1>1, <1>4 DEF op, CallInv, Over
<1> QED BY <1>2, <1>3, <1>4 DEF CallInv

(* A step that leaves the other calls alone leaves their operations alone.  *)
LEMMA OthersKeepOp ==
  ASSUME NEW c \in Call,
         \A x \in Call : x # c => /\ todo'[x] = todo[x] /\ resumes'[x] = resumes[x]
                                 /\ result'[x] = result[x] /\ escaped'[x] = escaped[x]
  PROVE  op' = [op EXCEPT ![c] = op'[c]]
<1>1. ASSUME NEW x \in Call, x # c PROVE op'[x] = op[x]
  BY <1>1 DEF op
<1>2. op = [x \in Call |-> op[x]] /\ op' = [x \in Call |-> op'[x]]
  BY DEF op
<1> HIDE DEF op
<1> QED BY <1>1, <1>2

LEMMA InitImplements == Init => Operation!OperationInit
BY DEF Init, Operation!OperationInit, op

LEMMA OthersKeep ==
  ASSUME IInv, NEW c \in Call, Step(c)
  PROVE  op' = [op EXCEPT ![c] = op'[c]] /\ UNCHANGED connected
<1>1. \A x \in Call : x # c => /\ todo'[x] = todo[x] /\ resumes'[x] = resumes[x]
                               /\ result'[x] = result[x] /\ escaped'[x] = escaped[x]
  BY DEF IInv, Shape, Step, StartSends, StartRefused, FirstSucceeds, FirstFails, TimerSends,
     TimerThrows, RetryReplies, Conclude, FirstError, Turn, Resume, KeepResult
<1>2. UNCHANGED connected
  BY DEF Step, StartSends, StartRefused, FirstSucceeds, FirstFails, TimerSends,
     TimerThrows, RetryReplies
<1>3. op' = [op EXCEPT ![c] = op'[c]]
  BY <1>1, OthersKeepOp
<1> QED BY <1>2, <1>3

(* The first attempt begins the operation, which may be over at once when   *)
(* getClient refuses the URL.                                               *)
LEMMA StartImplements ==
  ASSUME IInv, NEW c \in Call, StartSends(c) \/ StartRefused(c)
  PROVE  Operation!Begin(c)
<1>1. todo[c] = {"start"} /\ Open(c) /\ op[c] = "none"
  BY OpOf, StagesDiffer DEF IInv, CallInv, StartSends, StartRefused, FirstError, Turn
<1>2. op' = [op EXCEPT ![c] = op'[c]] /\ UNCHANGED connected
  BY OthersKeep DEF Step
<1>3. /\ op'[c] \in {"pending", "err", "dropped"}
      /\ op'[c] = "dropped" => ~connected[c]
      /\ op'[c] = "err" => connected[c]
  <2>1. CASE StartSends(c)
    <3>1. todo'[c] = {"first"} /\ resumes'[c] = 0
      BY <1>1, <2>1 DEF IInv, Shape, Open, StartSends, Turn, KeepResult
    <3> QED BY <3>1, StagesDiffer DEF op
  <2>2. CASE StartRefused(c)
    <3>1. \/ ~connected[c] /\ todo'[c] = {} /\ resumes'[c] = 0 /\ ~escaped'[c]
          \/ connected[c] /\ todo'[c] = {"timer"} /\ resumes'[c] = 0
          \/ connected[c] /\ todo'[c] = {} /\ resumes'[c] = 1 /\ result'[c] = "err"
      BY <1>1, <2>2 DEF IInv, Shape, Open, StartRefused, FirstError, Turn, KeepResult, Resume
    <3> QED BY <3>1, StagesDiffer DEF op
  <2> QED BY <2>1, <2>2
<1> HIDE DEF op
<1> QED BY <1>1, <1>2, <1>3 DEF Operation!Begin

(* A callback that has an outcome delivers it, or drops it for a client     *)
(* that has left; one that schedules a retry leaves the operation pending.  *)
LEMMA CallbackImplements ==
  ASSUME IInv, NEW c \in Call, FirstSucceeds(c) \/ FirstFails(c) \/ RetryReplies(c)
  PROVE  Operation!Deliver(c) \/ Operation!Drop(c) \/ UNCHANGED Operation!operationVars
<1>1. todo[c] \in {{"first"}, {"retry"}} /\ Open(c) /\ op[c] = "pending"
  BY OpOf, StagesDiffer DEF IInv, CallInv, FirstSucceeds, FirstFails, RetryReplies, Conclude,
     FirstError, Turn
<1>2. op' = [op EXCEPT ![c] = op'[c]] /\ UNCHANGED connected
  BY OthersKeep DEF Step
<1>3. \/ ~connected[c] /\ todo'[c] = {} /\ resumes'[c] = 0 /\ ~escaped'[c]
      \/ todo'[c] = {"timer"} /\ resumes'[c] = 0
      \/ connected[c] /\ todo'[c] = {} /\ resumes'[c] = 1 /\ result'[c] \in {"ok", "err"}
  BY <1>1 DEF IInv, Shape, Open, FirstSucceeds, FirstFails, RetryReplies, Conclude, FirstError,
     Turn, Resume, KeepResult
<1>4. \/ ~connected[c] /\ op'[c] = "dropped"
      \/ op'[c] = "pending"
      \/ connected[c] /\ op'[c] \in {"ok", "err"}
  BY <1>3, StagesDiffer DEF op
<1>5. op = [op EXCEPT ![c] = op[c]]
  BY DEF op
<1> HIDE DEF op
<1> QED BY <1>1, <1>2, <1>4, <1>5
        DEF Operation!Deliver, Operation!Drop, Operation!operationVars

(* The timer leaves the operation pending, for ever when getClient throws.  *)
LEMMA TimerImplements ==
  ASSUME IInv, NEW c \in Call, TimerSends(c) \/ TimerThrows(c)
  PROVE  UNCHANGED Operation!operationVars
<1>1. todo[c] = {"timer"} /\ Open(c) /\ op[c] = "pending"
  BY OpOf, StagesDiffer DEF IInv, CallInv, TimerSends, TimerThrows, Turn
<1>2. op' = [op EXCEPT ![c] = op'[c]] /\ UNCHANGED connected
  BY OthersKeep DEF Step
<1>3. resumes'[c] = 0 /\ (todo'[c] = {"retry"} \/ (todo'[c] = {} /\ escaped'[c]))
  BY <1>1 DEF IInv, Shape, Open, TimerSends, TimerThrows, Turn, KeepResult
<1>4. op'[c] = "pending"
  BY <1>3, StagesDiffer DEF op
<1>5. op = [op EXCEPT ![c] = op[c]]
  BY DEF op
<1> HIDE DEF op
<1> QED BY <1>1, <1>2, <1>4, <1>5 DEF Operation!operationVars

LEMMA NextImplements ==
  IInv /\ [Next]_httpVars => [Operation!OperationNext]_(Operation!operationVars)
<1> SUFFICES ASSUME IInv, [Next]_httpVars
             PROVE  Operation!OperationNext \/ UNCHANGED Operation!operationVars
  OBVIOUS
<1>1. CASE UNCHANGED httpVars
  BY <1>1 DEF httpVars, Operation!operationVars, op
<1>2. ASSUME NEW c \in Call, Step(c)
      PROVE  Operation!OperationNext \/ UNCHANGED Operation!operationVars
  BY <1>2, StartImplements, CallbackImplements, TimerImplements
     DEF Step, Operation!OperationNext
<1>3. ASSUME NEW c \in Call, Disconnect(c) PROVE Operation!OperationNext
  BY <1>3 DEF Disconnect, Operation!Depart, Operation!OperationNext, op
<1>4. CASE Rest
  BY <1>1, <1>4 DEF Rest
<1> QED BY <1>1, <1>2, <1>3, <1>4 DEF Next

(* Every call of requestAsync keeps the safety part of the operation that   *)
(* the routes suspend on: one outcome, dropped only for a departed client.  *)
(* A URL that getClient refuses in the timer leaves the operation pending:  *)
(* that it is delivered at all is left to the run, for the other URLs.      *)
THEOREM ImplementsOperationSafely == Safety => Operation!OperationSafety
BY InitImplements, NextImplements, Invariance, PTL DEF Safety, Operation!OperationSafety
=============================================================================
