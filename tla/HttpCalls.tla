------------------------------- MODULE HttpCalls -------------------------------
(***************************************************************************)
(* Drogua.Http.requestAsync (LuaHttp.cc): an outgoing HTTP request with    *)
(* retries, on behalf of a suspended asynchronous route, through clients   *)
(* cached for each authority and event loop.                               *)
(*                                                                         *)
(* A call is a chain of callbacks: the first attempt, the timer of a       *)
(* retry, the retry.  todo[c] holds the callbacks of call c that are still *)
(* to come; each runs on the loop of the call, interleaved with the other  *)
(* calls and with the departure of the route's client.                     *)
(***************************************************************************)
EXTENDS Integers

CONSTANTS Call,         \* calls of requestAsync
          Loop,         \* event loops of the routes that make them
          Authority,    \* host[:port] parts of the URLs
          BadAuthority, \* those whose port getClient refuses
          RetryCount,   \* values of the option retry.count, as a lua_Integer
          MaxInt        \* the greatest int of the build

ASSUME HttpAssumption == /\ BadAuthority \subseteq Authority
                         /\ RetryCount \subseteq Int
                         /\ MaxInt \in Nat

Scheme == {"http", "https"}
Callback == {"start", "first", "timer", "retry"}

VARIABLES
  url,        \* url[c]: scheme and authority of the call
  loop,       \* loop[c]: the owner loop of its route
  asked,      \* history: the retry.count that the call was given
  maxRetries, \* LuaAsyncHttpContext::maxRetries
  retryCount, \* LuaAsyncHttpContext::retryCount
  todo,       \* callbacks still to come
  attempts,   \* how often a client was asked for
  result,     \* what the context holds for the continuation
  resumes,    \* how often the route was resumed
  escaped,    \* an exception left a callback into the event loop
  cache,      \* clientCache: the scheme a client was made for, or "none"
  sentOver,   \* the scheme of the client that sent the last attempt
  connected   \* the client of the route

httpVars == <<url, loop, asked, maxRetries, retryCount, todo, attempts, result, resumes,
              escaped, cache, sentOver, connected>>

Ints == (-MaxInt - 1)..MaxInt

(* Faulty: the count is read as an unsigned int.                            *)
ToUnsigned(n) == n % (2 * MaxInt + 2)

(* static_cast<int> of a lua_Integer keeps it modulo the width of an int.   *)
ToInt(n) == ((n + MaxInt + 1) % (2 * MaxInt + 2)) - (MaxInt + 1)

TypeOK ==
  /\ url \in [Call -> [scheme : Scheme, authority : Authority]]
  /\ loop \in [Call -> Loop]
  /\ asked \in [Call -> RetryCount]
  /\ maxRetries \in [Call -> Ints]
  /\ retryCount \in [Call -> {0, 1}]
  /\ todo \in [Call -> SUBSET Callback]
  /\ attempts \in [Call -> 0..2]
  /\ result \in [Call -> {"none", "ok", "err"}]
  /\ resumes \in [Call -> Nat]
  /\ escaped \in [Call -> BOOLEAN]
  /\ cache \in [Authority -> [Loop -> Scheme \cup {"none"}]]
  /\ sentOver \in [Call -> Scheme \cup {"none"}]
  /\ connected \in [Call -> BOOLEAN]

Init ==
  /\ url \in [Call -> [scheme : Scheme, authority : Authority]]
  /\ loop \in [Call -> Loop]
  /\ asked \in [Call -> RetryCount]
  /\ maxRetries = [c \in Call |-> ToInt(asked[c])]
  /\ retryCount = [c \in Call |-> 0]
  /\ todo = [c \in Call |-> {"start"}]
  /\ attempts = [c \in Call |-> 0]
  /\ result = [c \in Call |-> "none"]
  /\ resumes = [c \in Call |-> 0]
  /\ escaped = [c \in Call |-> FALSE]
  /\ cache = [a \in Authority |-> [l \in Loop |-> "none"]]
  /\ sentOver = [c \in Call |-> "none"]
  /\ connected = [c \in Call |-> TRUE]
-----------------------------------------------------------------------------
(* The callbacks that a step takes off todo[c] and puts there. *)
Turn(c, from, to) == /\ from \in todo[c]
                     /\ todo' = [todo EXCEPT ![c] = (@ \ {from}) \cup to]

(* The outcome is put into the context and the route is resumed. *)
Resume(c, r) == /\ result' = [result EXCEPT ![c] = r]
                /\ resumes' = [resumes EXCEPT ![c] = @ + 1]

KeepResult == UNCHANGED <<result, resumes>>

(* getClient gives out the cached client of the authority and the loop,     *)
(* whatever scheme it was made for.                                         *)
ClientScheme(c) ==
  LET cached == cache[url[c].authority][loop[c]] IN
  IF cached = "none" THEN url[c].scheme ELSE cached

Refused(c) == url[c].authority \in BadAuthority

(* Faulty: the loop is no part of the key of the client. *)
SendOnAnyLoop(c) ==
  /\ sentOver' = [sentOver EXCEPT ![c] = ClientScheme(c)]
  /\ cache' = [cache EXCEPT ![url[c].authority] = [l \in Loop |-> ClientScheme(c)]]

(* An attempt: getClient, then sendRequest. *)
Send(c) == /\ sentOver' = [sentOver EXCEPT ![c] = ClientScheme(c)]
           /\ cache' = [cache EXCEPT ![url[c].authority][loop[c]] = ClientScheme(c)]

CountAttempt(c) == attempts' = [attempts EXCEPT ![c] = @ + 1]

(* Faulty: no return after the retry was scheduled. *)
FirstErrorFallsThrough(c, from) ==
  \/ /\ ~connected[c]
     /\ Turn(c, from, {}) /\ KeepResult /\ UNCHANGED retryCount
  \/ /\ connected[c] /\ retryCount[c] < maxRetries[c]
     /\ retryCount' = [retryCount EXCEPT ![c] = @ + 1]
     /\ Turn(c, from, {"timer"}) /\ Resume(c, "err")
  \/ /\ connected[c] /\ retryCount[c] >= maxRetries[c]
     /\ Turn(c, from, {}) /\ Resume(c, "err") /\ UNCHANGED retryCount

(* The error callback of the first attempt: nothing for a client that has   *)
(* left, a retry after a delay while the count allows one, else the error.  *)
FirstError(c, from) ==
  \/ /\ ~connected[c]
     /\ Turn(c, from, {}) /\ KeepResult /\ UNCHANGED retryCount
  \/ /\ connected[c] /\ retryCount[c] < maxRetries[c]
     /\ retryCount' = [retryCount EXCEPT ![c] = @ + 1]
     /\ Turn(c, from, {"timer"}) /\ KeepResult
  \/ /\ connected[c] /\ retryCount[c] >= maxRetries[c]
     /\ Turn(c, from, {}) /\ Resume(c, "err") /\ UNCHANGED retryCount

(* Faulty: the client of the route is not looked at. *)
ConcludeUnchecked(c, from, r) == Turn(c, from, {}) /\ Resume(c, r)

(* The other callbacks drop or deliver their outcome. *)
Conclude(c, from, r) == /\ Turn(c, from, {})
                        /\ IF connected[c] THEN Resume(c, r) ELSE KeepResult
-----------------------------------------------------------------------------
(* requestAsync: an exception of getClient goes to the error callback. *)
StartSends(c) ==
  /\ ~Refused(c)
  /\ Turn(c, "start", {"first"})
  /\ Send(c) /\ CountAttempt(c) /\ KeepResult
  /\ UNCHANGED <<url, loop, asked, maxRetries, retryCount, escaped, connected>>

(* Faulty: no try block around the first attempt. *)
StartRefusedUncaught(c) ==
  /\ Refused(c)
  /\ Turn(c, "start", {}) /\ KeepResult
  /\ escaped' = [escaped EXCEPT ![c] = TRUE]
  /\ CountAttempt(c)
  /\ UNCHANGED <<url, loop, asked, maxRetries, retryCount, cache, sentOver, connected>>

StartRefused(c) ==
  /\ Refused(c)
  /\ FirstError(c, "start")
  /\ CountAttempt(c)
  /\ UNCHANGED <<url, loop, asked, maxRetries, escaped, cache, sentOver, connected>>

FirstSucceeds(c) ==
  /\ Conclude(c, "first", "ok")
  /\ UNCHANGED <<url, loop, asked, maxRetries, retryCount, attempts, escaped, cache, sentOver,
                 connected>>

FirstFails(c) ==
  /\ FirstError(c, "first")
  /\ UNCHANGED <<url, loop, asked, maxRetries, attempts, escaped, cache, sentOver, connected>>

(* The timer of scheduleRetry: nothing looks at the client again, and       *)
(* nothing catches an exception of getClient.                               *)
TimerSends(c) ==
  /\ ~Refused(c)
  /\ Turn(c, "timer", {"retry"})
  /\ Send(c) /\ CountAttempt(c) /\ KeepResult
  /\ UNCHANGED <<url, loop, asked, maxRetries, retryCount, escaped, connected>>

TimerThrows(c) ==
  /\ Refused(c)
  /\ Turn(c, "timer", {})
  /\ CountAttempt(c) /\ KeepResult
  /\ escaped' = [escaped EXCEPT ![c] = TRUE]
  /\ UNCHANGED <<url, loop, asked, maxRetries, retryCount, cache, sentOver, connected>>

(* Faulty: a failed retry is scheduled again without being counted. *)
RetryRepliesRearms(c) ==
  /\ \/ Conclude(c, "retry", "ok")
     \/ Turn(c, "retry", {"timer"}) /\ KeepResult
  /\ UNCHANGED <<url, loop, asked, maxRetries, retryCount, attempts, escaped, cache, sentOver,
                 connected>>

(* The retry's own callbacks: its error is final, whatever maxRetries says. *)
RetryReplies(c) ==
  /\ \E r \in {"ok", "err"} : Conclude(c, "retry", r)
  /\ UNCHANGED <<url, loop, asked, maxRetries, retryCount, attempts, escaped, cache, sentOver,
                 connected>>

Disconnect(c) ==
  /\ connected[c]
  /\ connected' = [connected EXCEPT ![c] = FALSE]
  /\ UNCHANGED <<url, loop, asked, maxRetries, retryCount, todo, attempts, result, resumes,
                 escaped, cache, sentOver>>

Step(c) == StartSends(c) \/ StartRefused(c) \/ FirstSucceeds(c) \/ FirstFails(c)
           \/ TimerSends(c) \/ TimerThrows(c) \/ RetryReplies(c)

Rest == (\A c \in Call : todo[c] = {}) /\ UNCHANGED httpVars

Next == (\E c \in Call : Step(c) \/ Disconnect(c)) \/ Rest

Safety == Init /\ [][Next]_httpVars

(* Timers fire and the HTTP client reports every request it was given.      *)
(* Starting a call is up to Lua.                                            *)
Spec == Safety /\ \A c \in Call : WF_httpVars("start" \notin todo[c] /\ Step(c))
-----------------------------------------------------------------------------
(* Properties *)

(* Whatever the callbacks do, the route is resumed at most once, and when   *)
(* it is, or when an exception got lost, no callback of the call is left.   *)
CompletesOnce ==
  \A c \in Call : /\ resumes[c] <= 1
                  /\ \A x, y \in todo[c] : x = y
                  /\ resumes[c] = 1 \/ escaped[c] => todo[c] = {}

(* docs/http-request.md:554: retry.count is the maximum number of retries.  *)
(* The attempts stay within the first one and the retries asked for, a      *)
(* negative count asking for none.  The cast (LuaHttp.cc:50) allows one     *)
(* exception: a count below every int that becomes a positive one makes a   *)
(* retry that nobody asked for, and never more than that.                   *)
AttemptsWithinCount ==
  \A c \in Call :
     \/ attempts[c] <= 1 + (IF asked[c] > 0 THEN asked[c] ELSE 0)
     \/ asked[c] < -MaxInt - 1 /\ ToInt(asked[c]) > 0 /\ attempts[c] = 2

(* docs/http-request.md:566: retry.count = n allows up to n retries, so an  *)
(* error is reported only after the last of them.                           *)
ErrorOnlyAfterAllRetries ==
  \A c \in Call : result[c] = "err" /\ asked[c] \in 0..MaxInt => attempts[c] = 1 + asked[c]

(* docs/http-request.md:606: a failure to complete the request is reported  *)
(* as an error of requestAsync().  The one failure that is lost in the      *)
(* event loop instead is that of a retry of a URL that getClient refuses:   *)
(* a call without retries, or with a URL that is accepted, loses none.      *)
LostOnlyByRetry ==
  \A c \in Call : escaped[c] => Refused(c) /\ maxRetries[c] > 0 /\ attempts[c] = 2

(* docs/http-request.md:691: requestAsync() accepts HTTP and HTTPS URLs: a  *)
(* request is sent over the scheme of its own URL.                          *)
OwnScheme == \A c \in Call : sentOver[c] \in {"none", url[c].scheme}

(* What holds in its place: the calls to one authority on one loop share a  *)
(* client for good, made for one of them, and with it one scheme; no client *)
(* is shared between loops.  A URL of the other scheme is the only thing    *)
(* that can make a request go astray.                                       *)
Sent(a, l) == {c \in Call : url[c].authority = a /\ loop[c] = l /\ sentOver[c] # "none"}

OneSchemePerClient ==
  \A a \in Authority, l \in Loop :
     \A c \in Sent(a, l) : /\ \A d \in Sent(a, l) : sentOver[d] = sentOver[c]
                          /\ \E d \in Sent(a, l) : url[d].scheme = sentOver[c]

(* A call is an AsyncOperation from its first attempt on. *)
op == [c \in Call |-> IF "start" \in todo[c] THEN "none"
                      ELSE IF resumes[c] > 0 THEN result[c]
                      ELSE IF todo[c] # {} \/ escaped[c] THEN "pending"
                      ELSE "dropped"]
Operation == INSTANCE AsyncOperation WITH op <- op, connected <- connected

(* A call implements the operation that the routes suspend on: one outcome, *)
(* dropped only for a client that has left.  That it comes holds for URLs   *)
(* that getClient does not refuse.                                          *)
ImplementsOperation ==
  /\ Operation!OperationSafety
  /\ \A c \in Call : Refused(c) \/ Operation!Outcome(c)
=============================================================================
