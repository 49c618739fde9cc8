-------------------------- MODULE ChatCompletions --------------------------
(***************************************************************************)
(* /v1/chat/completions from the credentials to the spend log: the guards, *)
(* the dispatch to a provider and the event stream.                        *)
(*                                                                         *)
(*   src/src/app/routes/proxy_routes.py, services/proxy_guard.py           *)
(*   src/src/app/services/permission_service.py, auth/dependencies.py      *)
(*   src/src/app/sdk/main.py, resolver.py, http_client.py, types.py and    *)
(*   the providers' get_error_class and transform_stream_chunk             *)
(*                                                                         *)
(* A step is what a handler does between two awaits.  The sliding windows  *)
(* are those of RateLimiter, used here with its operators; what log_spend  *)
(* does in its transaction is in SpendLedger.  How long the authentication *)
(* cache admits a credential, and when one is refused, is in ApiKeyAuth:   *)
(* here any hash that a key has had may still be admitted, and any refused.*)
(*                                                                         *)
(* The hash of a key is the number of times it has been made: 1, then one  *)
(* more with every rotation.                                               *)
(***************************************************************************)
EXTENDS Naturals, Sequences, FiniteSets, FiniteSetsExt, SequencesExt

CONSTANTS
  Calls, Keys,
  Asks,       \* what a client may send, and whether it is an administrator
  Row,        \* per key: its limits, and its, its team's and organization's models
  Configured, \* the providers whose API key is set
  Errors,     \* the statuses of 400 and above a provider may answer with
  Window,     \* window_seconds, in clock units
  MaxConns,   \* max_connections of a provider's client
  MaxTime, MaxHash, MaxChunks, \* bounds: the clock, the rotations, a stream
  Unset       \* a JWT for a key, a limit or a list that is None

\* A model name and a pattern are sequences; a wild pattern ends in "*".
Matches(model, pattern) ==
  IF pattern.wild THEN IsPrefix(pattern.text, model) ELSE model = pattern.text

Providers == {"openai", "anthropic"}

\* A request: whose key it comes with, and of its body what the steps tell
\* apart, with the tokens and the price that come to.
Ask == [key : Keys \cup {Unset}, admin : BOOLEAN, provider : Providers, model : Seq(STRING),
        tokens : Nat \ {0}, price : Nat, stream : BOOLEAN]

ASSUME ChatAssumption ==
  /\ Asks # {} /\ Asks \subseteq Ask
  /\ \A k \in Keys : /\ {Row[k].rpm, Row[k].tpm, Row[k].budget} \subseteq Nat \cup {Unset}
                     /\ Len(Row[k].lists) = 3
  /\ Configured \subseteq Providers
  /\ Errors \subseteq 400..599
  /\ Window \in Nat \ {0} /\ MaxConns \in Nat \ {0}
  /\ MaxTime \in Nat /\ MaxHash \in Nat \ {0} /\ MaxChunks \in Nat
  /\ Unset \notin Keys \cup Nat

VARIABLES
  now,      \* time.monotonic()
  hash,     \* per key: the last hash its row has had
  live,     \* the keys whose row exists
  windows,  \* _rate_limiter._windows
  spent,    \* what today's DailyKeySpend rows of a hash add up to
  conns,    \* per provider: the calls that hold a connection of its client
  ask,      \* per call: what its client sends
  pc,
  seen,     \* per call: the hash of the key its client sent, or NoKey,
  key,      \*   the hash of the ApiKey object it works with, or NoKey,
  finish,   \*   whether a finish_reason has come,
  usage,    \*   the number of the chunk in last_usage, 0 for None,
  sent,     \*   and the events sent to the client
  answer,   \* the HTTP status, and why
  logs,     \* per call: its rows in spend_logs
  at,       \* history: when the guards ran,
  slots,    \* history: the windows that granted,
  came,     \* history: what the provider sent,
  gone      \* history: the clients that went away

guarding == <<now, hash, live, windows, spent>>
streaming == <<finish, usage, sent, came>>
vars == <<guarding, conns, ask, pc, seen, key, streaming, answer, logs, at, slots, gone>>

NoKey == 0

WindowIds == {"rpm", "tpm"} \X Keys \X (1..MaxHash)

Limiter == INSTANCE RateLimiter WITH
  Keys <- WindowIds, Limits <- Nat, Increments <- Nat \ {0},
  MaxCalls <- Cardinality(Calls), calls <- 0, answer <- [allowed |-> TRUE], granted <- windows

Init ==
  /\ now = 0
  /\ hash = [k \in Keys |-> 1] /\ live = Keys
  /\ windows = [w \in WindowIds |-> {}]
  /\ spent = [kh \in Keys \X (1..MaxHash) |-> 0]
  /\ conns = [p \in Providers |-> {}]
  /\ ask \in [Calls -> Asks]
  /\ pc = [c \in Calls |-> "idle"]
  /\ seen = [c \in Calls |-> NoKey] /\ key = [c \in Calls |-> NoKey]
  /\ finish = [c \in Calls |-> FALSE] /\ usage = [c \in Calls |-> 0]
  /\ sent = [c \in Calls |-> <<>>] /\ came = [c \in Calls |-> <<>>]
  /\ answer = [c \in Calls |-> <<0, "none">>]
  /\ logs = [c \in Calls |-> <<>>]
  /\ at = [c \in Calls |-> 0] /\ slots = [c \in Calls |-> {}]
  /\ gone = {}

Go(c, step) == pc' = [pc EXCEPT ![c] = step]
Answer(c, status, why) == Go(c, "done") /\ answer' = [answer EXCEPT ![c] = <<status, why>>]

\* What a provider sends and a client is sent: chunks and what they bear,
\* refusals with their status, and the ends of a stream.
Event(what, bears, status) == [is |-> what, bears |-> bears, status |-> status]
Chunk(bears) == Event("chunk", bears, 200)
Skipped == Event("skipped", {}, 200)
Break == Event("broken", {}, 200)
Unreadable == Event("unreadable", {}, 200)
Done == Event("[DONE]", {}, 200)
Error(status) == Event("error", {}, status)

Jwt(c) == ask[c].key = Unset
Guarded(c) == key[c] # NoKey /\ ~ask[c].admin
-----------------------------------------------------------------------------
(***************************************************************************)
(* Credentials.  An operator whose name begins with Bug is a wrong version *)
(* of the one that follows it: the properties are tested against it and no *)
(* specification uses it.                                                  *)
(***************************************************************************)
\* get_current_user.  A client may send a key that was rotated or deleted: a
\* grace period or the cache may admit it.
Authenticate(c) ==
  /\ pc[c] = "idle"
  /\ \/ Answer(c, 401, "unknown") /\ UNCHANGED seen
     \/ Jwt(c) /\ Go(c, "guards") /\ UNCHANGED <<seen, answer>>
     \/ /\ ~Jwt(c)
        /\ \E h \in 1..hash[ask[c].key] : seen' = [seen EXCEPT ![c] = h]
        /\ Go(c, "key") /\ UNCHANGED answer
  /\ UNCHANGED <<guarding, ask, conns, key, streaming, logs, at, slots, gone>>

\* get_current_api_key: the object that the hash sent led to when it was
\* cached, or leads to now, by being the row's or the previous one in its
\* grace period.  None when it is neither any more, and the entry is gone.
LoadKey(c) ==
  LET k == ask[c].key
      objects == {h \in {seen[c], seen[c] + 1} : h <= hash[k]}
  IN
  /\ pc[c] = "key"
  /\ \E found \in objects \cup (IF k \in live /\ seen[c] = hash[k] THEN {} ELSE {NoKey}) :
       key' = [key EXCEPT ![c] = found]
  /\ Go(c, "guards")
  /\ UNCHANGED <<guarding, ask, conns, seen, streaming, answer, logs, at, slots, gone>>
-----------------------------------------------------------------------------
(***************************************************************************)
(* The guards.                                                             *)
(***************************************************************************)
\* resolve_model_access: the first of the key's, the team's and the
\* organization's lists that is set decides.
ModelAllowed(model, lists) ==
  LET set == {i \in DOMAIN lists : lists[i] # Unset}
  IN  set = {} \/ \E pattern \in lists[Min(set)] : Matches(model, pattern)

Id(c, window) == <<window, ask[c].key, key[c]>>
Increment(c, window) == IF window = "rpm" THEN 1 ELSE ask[c].tokens
Limit(k, window) == IF window = "rpm" THEN Row[k].rpm ELSE Row[k].tpm

\* What the window of a call keeps, and whether there is room in it.
Entries(c, window) == Limiter!Pruned(windows[Id(c, window)], now - Window)
Full(c, window) ==
  /\ Limit(ask[c].key, window) # Unset
  /\ ~Limiter!Fits(Entries(c, window), Limit(ask[c].key, window), Increment(c, window))

\* The windows after the checks of those in checked, which grant in granting.
Checked(c, checked, granting) ==
  [w \in WindowIds |->
     IF \E kind \in checked : w = Id(c, kind) /\ Limit(ask[c].key, kind) # Unset
     THEN Entries(c, w[1]) \cup
          (IF w[1] \in granting THEN {[ts |-> now, inc |-> Increment(c, w[1]), id |-> c]} ELSE {})
     ELSE windows[w]]

BugCheckRateLimitRecordsRefused(c) ==
  LET refusing == {w \in {"rpm", "tpm"} : Full(c, w)} IN
  /\ windows' = Checked(c, {"rpm", "tpm"}, {"rpm", "tpm"})
  /\ slots' = [slots EXCEPT ![c] = {"rpm", "tpm"} \ refusing]
  /\ IF refusing # {} THEN Answer(c, 429, CHOOSE w \in refusing : TRUE)
                      ELSE Go(c, "budget") /\ UNCHANGED answer

\* check_rate_limit: RPM first.  A call that TPM refuses keeps its RPM slot.
CheckRateLimit(c) ==
  IF Full(c, "rpm")
  THEN /\ windows' = Checked(c, {"rpm"}, {})
       /\ Answer(c, 429, "rpm") /\ UNCHANGED slots
  ELSE IF Full(c, "tpm")
  THEN /\ windows' = Checked(c, {"rpm", "tpm"}, {"rpm"})
       /\ slots' = [slots EXCEPT ![c] = {"rpm"}]
       /\ Answer(c, 429, "tpm")
  ELSE /\ windows' = Checked(c, {"rpm", "tpm"}, {"rpm", "tpm"})
       /\ slots' = [slots EXCEPT ![c] = {"rpm", "tpm"}]
       /\ Go(c, "budget") /\ UNCHANGED answer

Provider(c) == ask[c].provider

\* resolve_provider_api_key
HasProviderKey(c) == Provider(c) \in Configured

\* acompletion up to the pool of the provider's client.
SendRequest(c) == Go(c, "connect") /\ UNCHANGED answer

Dispatch(c) == IF HasProviderKey(c) THEN SendRequest(c) ELSE Answer(c, 503, "unconfigured")

\* The route up to check_budget.
Guard(c) ==
  /\ pc[c] = "guards"
  /\ IF ~Guarded(c) THEN Dispatch(c) /\ UNCHANGED <<windows, slots, at>>
     ELSE /\ at' = [at EXCEPT ![c] = now]
          /\ IF ModelAllowed(ask[c].model, Row[ask[c].key].lists) THEN CheckRateLimit(c)
             ELSE Answer(c, 403, "model") /\ UNCHANGED <<windows, slots>>
  /\ UNCHANGED <<now, hash, live, spent, ask, conns, seen, key, streaming, logs, gone>>

CheckBudget(c) ==
  LET budget == Row[ask[c].key].budget IN
  /\ pc[c] = "budget"
  /\ IF budget # Unset /\ spent[<<ask[c].key, key[c]>>] >= budget
     THEN Answer(c, 429, "budget")
     ELSE Dispatch(c)
  /\ UNCHANGED <<guarding, ask, conns, seen, key, streaming, logs, at, slots, gone>>
-----------------------------------------------------------------------------
(***************************************************************************)
(* The provider.  Its client has a connection per call, as many as         *)
(* MaxConns; the next one waits for the pool.                              *)
(***************************************************************************)
Connect(c) ==
  /\ pc[c] = "connect"
  /\ Cardinality(conns[Provider(c)]) < MaxConns
  /\ conns' = [conns EXCEPT ![Provider(c)] = @ \cup {c}]
  /\ Go(c, IF ask[c].stream THEN "head" ELSE "reply")
  /\ UNCHANGED <<guarding, ask, seen, key, streaming, answer, logs, at, slots, gone>>

\* The connection goes back to the pool, if there is one.
Disconnected(c) == conns' = [conns EXCEPT ![Provider(c)] = @ \ {c}]

\* get_error_class of both providers.
OpenAIErrorClass(status) ==
  CASE status = 401 -> "AuthenticationError"
    [] status = 404 -> "NotFoundError"
    [] status = 408 -> "TimeoutError"
    [] status = 429 -> "RateLimitError"
    [] status = 400 -> "BadRequestError"
    [] status = 503 -> "ServiceUnavailableError"
    [] status >= 500 /\ status # 503 -> "InternalServerError"
    [] OTHER -> "LiteLLMError"

AnthropicErrorClass(status) ==
  IF status = 403 THEN "AuthenticationError" ELSE OpenAIErrorClass(status)

ErrorClass(p, status) ==
  IF p = "anthropic" THEN AnthropicErrorClass(status) ELSE OpenAIErrorClass(status)

BugHttpStatus(class) ==
  CASE class = "AuthenticationError" -> 401 [] class = "NotFoundError" -> 404
    [] class = "TimeoutError" -> 504 [] class = "RateLimitError" -> 429
    [] class = "InternalServerError" -> 502 [] OTHER -> 400

\* map_sdk_error; the two subclasses of a bad request are told by their code.
HttpStatus(class) ==
  CASE class = "AuthenticationError" -> 401 [] class = "NotFoundError" -> 404
    [] class = "TimeoutError" -> 504 [] class = "RateLimitError" -> 429
    [] class = "BadRequestError" -> 400 [] class = "ServiceUnavailableError" -> 503
    [] class = "InternalServerError" -> 502 [] OTHER -> 500

BugBrokenLeaks(c) ==
  /\ came' = [came EXCEPT ![c] = Append(@, Break)]
  /\ IF ask[c].stream THEN Go(c, "log") /\ UNCHANGED <<conns, answer>>
                      ELSE Disconnected(c) /\ Answer(c, 500, "upstream")
  /\ UNCHANGED <<finish, usage, sent>>

\* The transport fails or times out, or the answer to a call without a stream
\* cannot be transformed: not a LiteLLMError.  A stream has begun with 200
\* and is cut off.
Broken(c) ==
  /\ came' = [came EXCEPT ![c] = Append(@, Break)]
  /\ Disconnected(c)
  /\ IF ask[c].stream THEN Go(c, "log") /\ UNCHANGED answer ELSE Answer(c, 500, "upstream")
  /\ UNCHANGED <<finish, usage, sent>>

BugRefusedRetries(c, status) ==
  /\ Disconnected(c)
  /\ Go(c, "connect")
  /\ UNCHANGED <<streaming, answer>>

\* The provider answers with an error, which becomes one of the SDK's: the
\* answer, or the one event of a stream.
Refused(c, status) ==
  /\ came' = [came EXCEPT ![c] = <<Error(status)>>]
  /\ Disconnected(c)
  /\ IF ask[c].stream
     THEN /\ sent' = [sent EXCEPT ![c] = <<Error(HttpStatus(ErrorClass(Provider(c), status))), Done>>]
          /\ Go(c, "log") /\ UNCHANGED answer
     ELSE /\ Answer(c, HttpStatus(ErrorClass(Provider(c), status)), "upstream")
          /\ UNCHANGED sent
  /\ UNCHANGED <<finish, usage>>

PoolTimeout(c) ==
  /\ pc[c] = "connect"
  /\ Cardinality(conns[Provider(c)]) >= MaxConns
  /\ Broken(c)
  /\ UNCHANGED <<guarding, ask, seen, key, logs, at, slots, gone>>

\* transform_response: OpenAI's answer may bear no usage.
OpenAIReplies == {Chunk({"finish"}), Chunk({"finish", "usage"})}
AnthropicReplies == {Chunk({"finish", "usage"})}
Replies(p) == IF p = "anthropic" THEN AnthropicReplies ELSE OpenAIReplies

\* The answer to a call without a stream, which is complete in any case.
Reply(c) ==
  /\ pc[c] = "reply"
  /\ \/ \E reply \in Replies(Provider(c)) :
          /\ came' = [came EXCEPT ![c] = <<reply>>]
          /\ usage' = [usage EXCEPT ![c] = IF "usage" \in reply.bears THEN 1 ELSE 0]
          /\ finish' = [finish EXCEPT ![c] = TRUE]
          /\ Disconnected(c) /\ Go(c, "log") /\ UNCHANGED <<sent, answer>>
     \/ \E status \in Errors : Refused(c, status)
     \/ Broken(c)
  /\ UNCHANGED <<guarding, ask, seen, key, logs, at, slots, gone>>

-----------------------------------------------------------------------------
(***************************************************************************)
(* The event stream: post_stream, StreamWrapper and _sse_generator.        *)
(***************************************************************************)
\* The provider's status line.
StatusLine(c) ==
  /\ pc[c] = "head"
  /\ \/ Go(c, "stream") /\ UNCHANGED <<conns, streaming, answer>>
     \/ \E status \in Errors : Refused(c, status)
     \/ Broken(c)
  /\ UNCHANGED <<guarding, ask, seen, key, logs, at, slots, gone>>

BugForwardFirstUsage(c, chunk) ==
  /\ came' = [came EXCEPT ![c] = Append(@, chunk)]
  /\ sent' = [sent EXCEPT ![c] = Append(@, chunk)]
  /\ usage' = [usage EXCEPT ![c] = IF "usage" \in chunk.bears /\ @ = 0 THEN Len(came'[c]) ELSE @]
  /\ finish' = [finish EXCEPT ![c] = @ \/ "finish" \in chunk.bears]

\* transform_stream_chunk: of Anthropic's events the text and the arguments of
\* a tool become chunks, and the message_delta, which always bears a usage.
OpenAIChunks == {Chunk(bears) : bears \in SUBSET {"finish", "usage"}}
AnthropicChunks == {Chunk({}), Chunk({"usage"}), Chunk({"finish", "usage"})}
Chunks(p) == IF p = "anthropic" THEN AnthropicChunks ELSE OpenAIChunks

\* A chunk with choices, some of which bear a finish_reason or the usage.
Forward(c, chunk) ==
  /\ came' = [came EXCEPT ![c] = Append(@, chunk)]
  /\ sent' = [sent EXCEPT ![c] = Append(@, chunk)]
  /\ usage' = [usage EXCEPT ![c] = IF "usage" \in chunk.bears THEN Len(came'[c]) ELSE @]
  /\ finish' = [finish EXCEPT ![c] = @ \/ "finish" \in chunk.bears]

\* Malformed JSON, or what transform_stream_chunk maps to None: pings, block
\* boundaries, and the errors a provider reports once the stream has begun.
Skip(c) ==
  /\ came' = [came EXCEPT ![c] = Append(@, Skipped)]
  /\ UNCHANGED <<finish, usage, sent>>

NextChunk(c) ==
  /\ pc[c] = "stream" /\ Len(came[c]) < MaxChunks
  /\ (\E chunk \in Chunks(Provider(c)) : Forward(c, chunk)) \/ Skip(c)
  /\ UNCHANGED <<guarding, ask, conns, pc, seen, key, answer, logs, at, slots, gone>>

BugEndOfStreamReadsOn(c) ==
  /\ came' = [came EXCEPT ![c] = Append(@, Done)]
  /\ UNCHANGED <<conns, pc, finish, usage, sent, answer>>

\* [DONE] from the provider, or the end of its answer.
EndOfStream(c) ==
  /\ came' = [came EXCEPT ![c] = Append(@, Done)]
  /\ sent' = [sent EXCEPT ![c] = Append(@, Done)]
  /\ Disconnected(c)
  /\ Go(c, "log")
  /\ UNCHANGED <<finish, usage, answer>>

\* A chunk that cannot be transformed.  The exception is StreamWrapper's, and
\* post_stream stays suspended where it yielded the chunk, with its connection.
Untransformed(c) ==
  /\ came' = [came EXCEPT ![c] = Append(@, Unreadable)]
  /\ Go(c, "log")
  /\ UNCHANGED <<conns, finish, usage, sent, answer>>

Finish(c) ==
  /\ pc[c] = "stream"
  /\ EndOfStream(c) \/ Broken(c) \/ Untransformed(c)
  /\ UNCHANGED <<guarding, ask, seen, key, logs, at, slots, gone>>

\* The generator is suspended where it yields a chunk, or [DONE].
AtYield(c) ==
  \/ pc[c] = "stream" /\ came[c] # <<>> /\ Last(came[c]).is = "chunk"
  \/ pc[c] = "log" /\ sent[c] # <<>> /\ Last(sent[c]) = Done

\* The client goes away.  A generator that awaits something is cancelled,
\* and again at the first await of its finally clause, so nothing is logged;
\* if it awaits post_stream, that ends too.  One that is suspended at a yield
\* is closed later and logs, and post_stream stays suspended at its own.
Disconnect(c) ==
  /\ ask[c].stream /\ c \notin gone
  /\ gone' = gone \cup {c}
  /\ \/ /\ pc[c] \in {"connect", "head", "stream"}
        /\ Disconnected(c) /\ Answer(c, 200, "cancelled")
     \/ pc[c] = "log" /\ Answer(c, 200, "cancelled") /\ UNCHANGED conns
     \/ AtYield(c) /\ Go(c, "log") /\ UNCHANGED <<conns, answer>>
  /\ UNCHANGED <<guarding, ask, seen, key, streaming, logs, at, slots>>

\* Nobody calls StreamWrapper.aclose: a suspended post_stream is closed when
\* its generator is collected, some time after the call.
Collect(c) ==
  /\ pc[c] = "done" /\ c \in conns[Provider(c)]
  /\ Disconnected(c)
  /\ UNCHANGED <<guarding, ask, pc, seen, key, streaming, answer, logs, at, slots, gone>>
-----------------------------------------------------------------------------
(***************************************************************************)
(* The spend log, and what goes on around the calls.                       *)
(***************************************************************************)
Cost(c) == IF usage[c] = 0 THEN 0 ELSE ask[c].price

\* log_spend, which files the spend under the hash of the ApiKey object.
Log(c) ==
  /\ pc[c] = "log"
  /\ logs' = [logs EXCEPT ![c] =
                Append(@, [status |-> IF finish[c] THEN "completed" ELSE "partial",
                           usage  |-> usage[c]])]
  /\ spent' = IF key[c] = NoKey THEN spent
              ELSE [spent EXCEPT ![<<ask[c].key, key[c]>>] = @ + Cost(c)]
  /\ Answer(c, 200, "served")
  /\ UNCHANGED <<now, hash, live, windows, ask, conns, seen, key, streaming, at, slots, gone>>

\* IntegrityError, in one of two that insert the same aggregate.
LogFails(c) ==
  /\ pc[c] = "log"
  /\ \E d \in Calls \ {c} : pc[d] = "log"
  /\ Answer(c, IF ask[c].stream THEN 200 ELSE 500, "unlogged")
  /\ UNCHANGED <<guarding, ask, conns, seen, key, streaming, logs, at, slots, gone>>

Tick ==
  /\ now < MaxTime
  /\ now' = now + 1
  /\ UNCHANGED <<hash, live, windows, spent, ask, conns, pc, seen, key, streaming, answer, logs, at,
                 slots, gone>>

\* rotate_key, and the deletion of a key.
RotateKey(k) ==
  /\ k \in live /\ hash[k] < MaxHash
  /\ hash' = [hash EXCEPT ![k] = @ + 1]
  /\ UNCHANGED <<now, live, windows, spent, ask, conns, pc, seen, key, streaming, answer, logs, at,
                 slots, gone>>

DeleteKey(k) ==
  /\ k \in live
  /\ live' = live \ {k}
  /\ UNCHANGED <<now, hash, windows, spent, ask, conns, pc, seen, key, streaming, answer, logs, at,
                 slots, gone>>

Run(c) ==
  \/ LoadKey(c) \/ Guard(c) \/ CheckBudget(c)
  \/ Connect(c) \/ PoolTimeout(c) \/ Reply(c)
  \/ StatusLine(c) \/ NextChunk(c) \/ Finish(c)
  \/ Log(c) \/ LogFails(c)

Next ==
  \/ \E c \in Calls : Authenticate(c) \/ Run(c) \/ Disconnect(c) \/ Collect(c)
  \/ \E k \in Keys : RotateKey(k) \/ DeleteKey(k)
  \/ Tick

Spec == Init /\ [][Next]_vars

\* The database answers, and a provider or the pool within the timeout.
FairSpec == Spec /\ \A c \in Calls : WF_vars(Run(c))
-----------------------------------------------------------------------------
(***************************************************************************)
(* Properties                                                              *)
(***************************************************************************)
\* What the calls of cs take of a window: their number, or their tokens.
Taken(cs, window) == Cardinality(UNION {{c} \X (1..Increment(c, window)) : c \in cs})

\* The calls with this key and hash whose guards ran in the window ending at
\* t, and the dispatched ones among them.
Recent(k, h, t) ==
  {c \in Calls : /\ ask[c].key = k /\ key[c] = h /\ pc[c] \notin {"idle", "key", "guards"}
                 /\ t - Window < at[c] /\ at[c] <= t}
Dispatched(c) == /\ pc[c] \notin {"idle", "key", "guards", "budget"}
                 /\ answer[c][2] \notin {"unknown", "model", "rpm", "tpm", "budget"}

\* The calls dispatched for a key under one hash pass neither limit in any
\* window, although other calls run between a call's guards and its dispatch.
WithinLimits ==
  \A k \in Keys, h \in 1..MaxHash, t \in 0..MaxTime, window \in {"rpm", "tpm"} :
    Limit(k, window) # Unset =>
      Taken({c \in Recent(k, h, t) : Dispatched(c) /\ ~ask[c].admin}, window) <= Limit(k, window)

\* A call is refused only when the window is full of calls that each took a
\* slot once: RPM of calls that may have been refused later, TPM of calls
\* that passed both limits.
RefusedOnlyWhenFull ==
  \A c \in Calls, window \in {"rpm", "tpm"} :
    answer[c][2] = window =>
      LET holders == {d \in Recent(ask[c].key, key[c], at[c]) \ {c} : window \in slots[d]}
      IN  Taken(holders, window) + Increment(c, window) > Limit(ask[c].key, window)

\* The limiter refuses neither too little nor too much (proxy_guard.py:154,
\* :166): what it grants bounds what is dispatched, and a refusal means that
\* the window is full.
LimitsAreExact == WithinLimits /\ RefusedOnlyWhenFull

\* What the client is told of a refusal by the provider.
Told(c) == IF ask[c].stream THEN sent[c][1].status ELSE answer[c][1]

\* A refusal by the provider keeps its meaning (proxy_guard.py:39): its own
\* failures stay failures of a server, and only a rate limit becomes one.
RefusalIsTold ==
  \A c \in Calls :
    pc[c] \in {"log", "done"} /\ came[c] # <<>> /\ c \notin gone /\ Last(came[c]).is = "error" =>
      /\ Last(came[c]).status >= 500 => Told(c) >= 500
      /\ Last(came[c]).status = 429 <=> Told(c) = 429

\* The first n events sent to the client are the chunks that came, all of
\* them and in order.
ChunksAreSent(c, n) ==
  \E place \in [1..n -> DOMAIN came[c]] :
    /\ \A i, j \in 1..n : i < j => place[i] < place[j]
    /\ \A i \in 1..n : sent[c][i] = came[c][place[i]]
    /\ {place[i] : i \in 1..n} = {i \in DOMAIN came[c] : came[c][i].is = "chunk"}

\* A client that stays gets every chunk there is, in order, then [DONE] once
\* if the provider ended its answer or refused, and no [DONE] when the
\* stream broke or a chunk could not be read (proxy_routes.py:105, :109).
StreamIsTold ==
  \A c \in Calls :
    ask[c].stream /\ c \notin gone /\ pc[c] \in {"log", "done"} /\ came[c] # <<>> =>
      CASE Last(came[c]) = Done -> /\ sent[c] # <<>> /\ Last(sent[c]) = Done
                                   /\ ChunksAreSent(c, Len(sent[c]) - 1)
        [] Last(came[c]).is = "error" -> sent[c] = <<Error(Told(c)), Done>>
        [] OTHER -> ChunksAreSent(c, Len(sent[c]))

\* The client is told what became of its call.
ClientIsTold == RefusalIsTold /\ StreamIsTold

Bearing(c, part) == {i \in DOMAIN came[c] : part \in came[c][i].bears}

\* A call is logged once at most, as completed if its finish_reason came
\* whatever happened after it, and with the last usage that came; and a
\* stream is logged however it ends, unless its client went away or its
\* log_spend failed (proxy_routes.py:110).
LogIsTrue ==
  \A c \in Calls :
    /\ Len(logs[c]) <= 1
    /\ logs[c] # <<>> =>
         /\ logs[c][1].status = "completed" <=> Bearing(c, "finish") # {}
         /\ logs[c][1].usage = Max(Bearing(c, "usage") \cup {0})
    /\ ask[c].stream /\ pc[c] = "done" /\ came[c] # <<>> =>
         logs[c] # <<>> \/ c \in gone \/ answer[c][2] = "unlogged"

\* Every call ends: whoever waits for a connection gets one or times out,
\* and whoever has one is answered, refused or cut off.
CallsEnd == \A c \in Calls : pc[c] # "idle" ~> pc[c] = "done"

\* The pools keep to their size (http_client.py:48), and a connection is held
\* during an exchange and after no other than two: of a stream whose client
\* left when a chunk had been passed on, and of one with a chunk that could
\* not be transformed.  Those are held through log_spend and beyond, since
\* post_stream is not closed (types.py:109); a refusal, a failure of the
\* transport, an end and any other disconnect give the connection back.
ConnectionsAreReturned ==
  \A p \in Providers :
    /\ Cardinality(conns[p]) <= MaxConns
    /\ {c \in Calls : Provider(c) = p /\ pc[c] \in {"reply", "head", "stream"}} \subseteq conns[p]
    /\ \A c \in conns[p] :
         pc[c] \notin {"reply", "head", "stream"} =>
           /\ ask[c].stream /\ came[c] # <<>>
           /\ Last(came[c]) = Unreadable \/ (c \in gone /\ Last(came[c]).is = "chunk")

\* Every variable has its type, and no stream is longer than its bound.
TypeOK ==
  /\ now \in 0..MaxTime
  /\ hash \in [Keys -> 1..MaxHash] /\ live \subseteq Keys /\ ask \in [Calls -> Asks]
  /\ windows \in [WindowIds -> SUBSET [ts : 0..MaxTime, inc : Nat, id : Calls]]
  /\ spent \in [Keys \X (1..MaxHash) -> Nat]
  /\ conns \in [Providers -> SUBSET Calls]
  /\ pc \in [Calls -> {"idle", "key", "guards", "budget", "connect",
                       "reply", "head", "stream", "log", "done"}]
  /\ seen \in [Calls -> 0..MaxHash] /\ key \in [Calls -> 0..MaxHash]
  /\ finish \in [Calls -> BOOLEAN] /\ usage \in [Calls -> Nat]
  /\ \A c \in Calls : Len(came[c]) <= MaxChunks + 1 /\ Len(sent[c]) <= MaxChunks + 2
  /\ \A c \in Calls : answer[c][1] \in {0, 200} \cup 400..599
  /\ at \in [Calls -> 0..MaxTime] /\ slots \in [Calls -> SUBSET {"rpm", "tpm"}]
  /\ gone \subseteq Calls
=============================================================================
